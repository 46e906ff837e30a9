----------------------------- MODULE BatchWorkers -----------------------------
(***************************************************************************)
(* The worker threads of run_batch.  Every admitted job becomes a task of  *)
(* the event loop's default executor; the task takes a cross-process slot, *)
(* dispatches, bills the batch's TokenStats and gives the slot back.  An   *)
(* interrupt cancels the coroutines, but a task that has started goes on   *)
(* until its own deadline, next to the process's next batch: on a new      *)
(* executor as a rule, on the same one after a serial batch, which takes   *)
(* the cancellation for its only delegation's failure.                     *)
(*                                                                         *)
(* The circuit breaker and the queue's ceiling are RunBatch's; here every  *)
(* job of a batch is eligible.  A slot is taken in one step when it is     *)
(* free or its holder is dead, as TokenLock promises.                      *)
(***************************************************************************)
EXTENDS Naturals, FiniteSets

CONSTANTS
  Tasks,       \* what the executors run, each at most once at a time
  Jobs,        \* the positions of a batch, integers in submission order
  Caps,        \* the values config.max_parallel_agents takes
  MinWorkers,  \* _DEFAULT_EXECUTOR_MIN_WORKERS
  Others,      \* the delegations of other processes of the project
  Free, Dead,  \* a slot nobody has, and one whose lockfile is stale
  Left         \* one whose release failed: its lockfile names a live process

ASSUME WorkersAssumption ==
  /\ IsFiniteSet(Tasks)
  /\ Jobs \subseteq Nat \ {0}
  /\ IsFiniteSet(Jobs)
  /\ Caps \subseteq Nat \ {0}
  /\ \E c \in Caps : \A d \in Caps : d <= c
  /\ MinWorkers \in Nat
  /\ Tasks \cap Others = {}
  /\ {Free, Dead, Left} \cap (Tasks \cup Others) = {}
  /\ Free # Dead /\ Left \notin {Free, Dead}

VARIABLES
  cap,     \* max_parallel_agents of the batch; 0 outside one
  co,      \* what each job's coroutine does
  result,  \* the jobs' entries in the batch's results
  pool,    \* the loop's default executor and its entry in the cache
  task,    \* where each task is, the job it runs, its batch's cap, the slot
           \* it probes or has, its outcome, whether its batch is gone,
           \* whether its thread is one of the cached executor's
  slots,   \* the lockfiles of .ollama-slots
  stats,   \* the jobs billed to the batch's TokenStats
  file     \* the token_stats.json of the batch that returned last, if there
           \* is one: the jobs it counts

batchVars == <<cap, co, result>>
statsVars == <<stats, file>>
vars == <<batchVars, pool, task, slots, statsVars>>

MaxCap == CHOOSE c \in Caps : \A d \in Caps : d <= c
SlotIndices == 0..(MaxCap - 1)

(* What dispatch ends with: a completed call, which is billed whether its  *)
(* answer validates or not, or a failure before any call completed.        *)
Dispatched == {"answered", "failed"}
Answers == Dispatched \cup {"no_slot"}
Results == Answers \cup {"none", "cancelled"}

TaskStates ==
  [at : {"idle", "queued", "probe", "dispatch", "release", "over"},
   job : Jobs \cup {0}, limit : Caps, index : SlotIndices, answer : Answers,
   retired : BOOLEAN, here : BOOLEAN]

IdleTask == [at |-> "idle", job |-> 0, limit |-> MaxCap, index |-> 0,
             answer |-> "failed", retired |-> FALSE, here |-> TRUE]

NoBatch == [j \in Jobs |-> "none"]
NoPool == [size |-> 0, open |-> FALSE, cached |-> FALSE]

TypeOK ==
  /\ cap \in Caps \cup {0}
  /\ co \in [Jobs -> {"none", "waiting", "thread", "done"}]
  /\ result \in [Jobs -> Results]
  /\ pool \in [size : Nat, open : BOOLEAN, cached : BOOLEAN]
  /\ task \in [Tasks -> TaskStates]
  /\ slots \in [SlotIndices -> Tasks \cup Others \cup {Free, Dead, Left}]
  /\ stats \subseteq Jobs
  /\ file \subseteq SUBSET Jobs

Init ==
  /\ cap = 0
  /\ co = NoBatch
  /\ result = NoBatch
  /\ pool = NoPool
  /\ task = [t \in Tasks |-> IdleTask]
  /\ slots = [i \in SlotIndices |-> Free]
  /\ stats = {}
  /\ file = {}

Idle == {t \in Tasks : task[t].at = "idle"}
Current == {t \in Tasks \ Idle : ~task[t].retired}
InState(s) == {j \in Jobs : co[j] = s}

-----------------------------------------------------------------------------

(* _ensure_sized_default_executor. *)
Needed(c) == IF c < MinWorkers THEN MinWorkers ELSE c
NewPool(c) == [size |-> Needed(c), open |-> TRUE, cached |-> TRUE]

(* Mutant: the cached executor is reused whatever its size. *)
ReuseCached(c) == IF pool.cached THEN pool ELSE NewPool(c)

EnsureSized(c) == IF pool.cached /\ pool.size >= Needed(c) THEN pool ELSE NewPool(c)

(* run_batch up to the gather: a fresh TokenStats and run directory, an    *)
(* executor of the right size, a coroutine for every job up to last.  The  *)
(* threads of an executor that is replaced go on outside the new one.  The *)
(* bound on tasks leaves one for every turn.                               *)
StartBatch(last, c) ==
  /\ cap = 0
  /\ Cardinality(Idle) >= c
  /\ cap' = c
  /\ co' = [j \in Jobs |-> IF j <= last THEN "waiting" ELSE "none"]
  /\ result' = NoBatch
  /\ pool' = EnsureSized(c)
  /\ task' = [t \in Tasks |->
                [task[t] EXCEPT !.here = t \in Idle \/ (@ /\ pool' = pool)]]
  /\ stats' = {}
  /\ file' = {}
  /\ UNCHANGED slots

(* The scheduler's FIFO semaphore. *)
Turn(j) ==
  /\ co[j] = "waiting"
  /\ \A i \in InState("waiting") : j <= i
  /\ Cardinality(InState("thread")) < cap

(* Tasks have no identity: a new one takes the first name that is free. *)
NewTask == CHOOSE t \in Idle : TRUE

(* asyncio.to_thread submits to the loop's default executor, which must not *)
(* have been shut down: the RuntimeError of one that has is NeverFewer's.   *)
Submit(j) ==
  /\ Turn(j)
  /\ pool.open
  /\ Idle # {}
  /\ co' = [co EXCEPT ![j] = "thread"]
  /\ task' = [task EXCEPT ![NewTask] =
                [IdleTask EXCEPT !.at = "queued", !.job = j, !.limit = cap]]
  /\ UNCHANGED <<cap, result, pool, slots, statsVars>>

-----------------------------------------------------------------------------

(* The busy threads of the cached executor. *)
Occupied ==
  {t \in Tasks : task[t].here /\ task[t].at \in {"probe", "dispatch", "release"}}

(* A worker of the executor takes the task: acquire_slot begins. *)
Run(t) ==
  /\ task[t].at = "queued"
  /\ Cardinality(Occupied) < pool.size
  /\ task' = [task EXCEPT ![t].at = "probe"]
  /\ UNCHANGED <<batchVars, pool, slots, statsVars>>

(* The task is over; nobody waits for the outcome of a cancelled one. *)
Abandoned(t) == task[t].retired \/ co[task[t].job] = "done"

Ended(t, outcome) ==
  IF Abandoned(t) THEN IdleTask
  ELSE [IdleTask EXCEPT !.at = "over", !.job = task[t].job, !.answer = outcome]

Probed(t) == slots[task[t].index]

(* Mutant: a lock of one's own process counts as one's own. *)
TakeAgain(t) ==
  /\ task[t].at = "probe"
  /\ Probed(t) \notin Others
  /\ slots' = [slots EXCEPT ![task[t].index] = t]
  /\ task' = [task EXCEPT ![t].at = "dispatch"]
  /\ UNCHANGED <<batchVars, pool, statsVars>>

TakeSlot(t) ==
  /\ task[t].at = "probe"
  /\ Probed(t) \in {Free, Dead}
  /\ slots' = [slots EXCEPT ![task[t].index] = t]
  /\ task' = [task EXCEPT ![t].at = "dispatch"]
  /\ UNCHANGED <<batchVars, pool, statsVars>>

(* Mutant: a task waits for a slot instead of rejecting its delegation. *)
ProbeAgain(t) ==
  /\ task[t].at = "probe"
  /\ Probed(t) \notin {Free, Dead}
  /\ task' = [task EXCEPT ![t].index = (@ + 1) % task[t].limit]
  /\ UNCHANGED <<batchVars, pool, slots, statsVars>>

(* Mutant: one index too many. *)
MissLate(t) ==
  /\ task[t].at = "probe"
  /\ Probed(t) \notin {Free, Dead}
  /\ \/ /\ task[t].index < task[t].limit
        /\ task' = [task EXCEPT ![t].index = @ + 1]
     \/ /\ task[t].index >= task[t].limit
        /\ task' = [task EXCEPT ![t] = Ended(t, "no_slot")]
  /\ UNCHANGED <<batchVars, pool, slots, statsVars>>

(* The slot has a live holder: the next index, or DelegationError. *)
MissSlot(t) ==
  /\ task[t].at = "probe"
  /\ Probed(t) \notin {Free, Dead}
  /\ \/ /\ task[t].index + 1 < task[t].limit
        /\ task' = [task EXCEPT ![t].index = @ + 1]
     \/ /\ task[t].index + 1 >= task[t].limit
        /\ task' = [task EXCEPT ![t] = Ended(t, "no_slot")]
  /\ UNCHANGED <<batchVars, pool, slots, statsVars>>

(* Mutant: a failed delegation is billed too. *)
BillEvery(t, outcome) == IF task[t].retired THEN stats ELSE stats \cup {task[t].job}

(* TokenStats.record on the accumulator of the task's own batch; nobody    *)
(* reads the one of an interrupted batch.                                  *)
Bill(t, outcome) ==
  IF outcome = "answered" /\ ~task[t].retired THEN stats \cup {task[t].job} ELSE stats

(* dispatch returns or raises, by its deadline. *)
Answer(t) ==
  /\ task[t].at = "dispatch"
  /\ \E outcome \in Dispatched :
       /\ stats' = Bill(t, outcome)
       /\ task' = [task EXCEPT ![t].at = "release",
                               ![t].answer = IF task[t].retired THEN @ ELSE outcome]
  /\ UNCHANGED <<batchVars, pool, slots, file>>

(* Mutant: the slot is given back after a result only. *)
GiveBackResult(t) ==
  /\ task[t].at = "release"
  /\ slots' = IF task[t].retired THEN slots ELSE [slots EXCEPT ![task[t].index] = Free]
  /\ task' = [task EXCEPT ![t] = Ended(t, task[t].answer)]
  /\ UNCHANGED <<batchVars, pool, statsVars>>

(* The finally of _run_one_delegation_slotted; _release_ephemeral may give *)
(* up, and the slot stays behind a process that lives.                     *)
GiveBack(t) ==
  /\ task[t].at = "release"
  /\ \E rest \in {Free, Left} : slots' = [slots EXCEPT ![task[t].index] = rest]
  /\ task' = [task EXCEPT ![t] = Ended(t, task[t].answer)]
  /\ UNCHANGED <<batchVars, pool, statsVars>>

(* Mutant: a slot is stale only when its holder is dead. *)
ExpireNever(i) == FALSE /\ UNCHANGED vars

(* The slot's bound is over, or the process that left it dies. *)
Expire(i) ==
  /\ slots[i] = Left
  /\ slots' = [slots EXCEPT ![i] = Dead]
  /\ UNCHANGED <<batchVars, pool, task, statsVars>>

-----------------------------------------------------------------------------

(* The event loop resumes the coroutine with what its task left. *)
Collect(t) ==
  /\ task[t].at = "over"
  /\ co' = [co EXCEPT ![task[t].job] = "done"]
  /\ result' = [result EXCEPT ![task[t].job] = task[t].answer]
  /\ task' = [task EXCEPT ![t] = IdleTask]
  /\ UNCHANGED <<cap, pool, slots, statsVars>>

(* What is left of a task that goes on after its batch: its job and        *)
(* outcome reach nobody, its slot stays its own.                           *)
Retired(t, here) ==
  [IdleTask EXCEPT !.at = task[t].at, !.limit = task[t].limit,
                   !.index = task[t].index, !.retired = TRUE, !.here = here]

(* Every coroutine is done: _write_stats_best_effort, which may fail. *)
Return ==
  /\ cap # 0
  /\ InState("waiting") \cup InState("thread") = {}
  /\ cap' = 0
  /\ co' = NoBatch
  /\ result' = NoBatch
  /\ file' \in {{}, {stats}}
  /\ stats' = {}
  /\ task' = [t \in Tasks |-> IF t \in Current THEN Retired(t, TRUE) ELSE task[t]]
  /\ UNCHANGED <<pool, slots>>

(* _run_batch_serial_fast_path: one job under a cap of one. *)
Serial(j) == cap = 1 /\ \A i \in Jobs \ {j} : co[i] = "none"

(* What a cancelled coroutine leaves of its task: nothing, unless it runs. *)
Dropped(t) == t \in Current /\ task[t].at \in {"queued", "over"}

(* The first Ctrl-C under asyncio.run, or a caller's cancellation, of a     *)
(* serial batch: the CancelledError is the job's result and the batch goes *)
(* on to its end.                                                          *)
Cancel(j) ==
  /\ Serial(j)
  /\ co[j] = "thread"
  /\ co' = [co EXCEPT ![j] = "done"]
  /\ result' = [result EXCEPT ![j] = "cancelled"]
  /\ task' = [t \in Tasks |-> IF Dropped(t) THEN IdleTask ELSE task[t]]
  /\ UNCHANGED <<cap, pool, slots, statsVars>>

(* Mutant: the executor that was shut down stays in the cache. *)
KeepInCache == [pool EXCEPT !.open = FALSE]

(* shutdown(cancel_futures=True), and the loop's entry leaves the cache. *)
Evict == [pool EXCEPT !.open = FALSE, !.cached = FALSE]

(* A CancelledError that the gather raises, or a KeyboardInterrupt inside  *)
(* a coroutine, a serial batch's too: every coroutine is cancelled, queued *)
(* tasks with it; the handler retires the executor.                        *)
Interrupt ==
  /\ cap # 0
  /\ cap' = 0
  /\ co' = NoBatch
  /\ result' = NoBatch
  /\ pool' = Evict
  /\ task' = [t \in Tasks |-> IF t \in Idle \/ Dropped(t) THEN IdleTask
                              ELSE Retired(t, FALSE)]
  /\ stats' = {}
  /\ UNCHANGED <<slots, file>>

(* The end of asyncio.run joins the default executor's threads; the next   *)
(* loop has no executor yet.                                               *)
NewLoop ==
  /\ cap = 0
  /\ Idle = Tasks
  /\ pool' = NoPool
  /\ UNCHANGED <<batchVars, task, slots, statsVars>>

(* The process dies with all its threads and another one starts; the slots *)
(* of the dead one have a dead holder.                                     *)
Crash ==
  /\ cap' = 0
  /\ co' = NoBatch
  /\ result' = NoBatch
  /\ pool' = NoPool
  /\ task' = [t \in Tasks |-> IdleTask]
  /\ slots' = [i \in SlotIndices |-> IF slots[i] \in Tasks THEN Dead ELSE slots[i]]
  /\ stats' = {}
  /\ file' = {}

(* Another process of the project takes a slot, gives it back, or dies.    *)
TakeElsewhere(o, i) ==
  /\ \A k \in SlotIndices : slots[k] # o
  /\ slots[i] \in {Free, Dead}
  /\ slots' = [slots EXCEPT ![i] = o]
  /\ UNCHANGED <<batchVars, pool, task, statsVars>>

LeaveElsewhere(o, i) ==
  /\ slots[i] = o
  /\ \E rest \in {Free, Left, Dead} : slots' = [slots EXCEPT ![i] = rest]
  /\ UNCHANGED <<batchVars, pool, task, statsVars>>

Worker(t) == Run(t) \/ TakeSlot(t) \/ MissSlot(t) \/ Answer(t) \/ GiveBack(t)

EventLoop ==
  \/ \E j \in Jobs : Submit(j)
  \/ \E t \in Tasks : Collect(t)
  \/ Return

Next ==
  \/ \E last \in Jobs, c \in Caps : StartBatch(last, c)
  \/ EventLoop
  \/ \E t \in Tasks : Worker(t)
  \/ \E j \in Jobs : Cancel(j)
  \/ Interrupt
  \/ NewLoop
  \/ Crash
  \/ \E o \in Others, i \in SlotIndices : TakeElsewhere(o, i) \/ LeaveElsewhere(o, i)
  \/ \E i \in SlotIndices : Expire(i)

Spec == Init /\ [][Next]_vars

(* The event loop runs what is ready and threads are scheduled; a dispatch *)
(* ends by its deadline, here and in other processes; a slot's bound is    *)
(* over some time.  Nobody has to start or interrupt a batch.              *)
FairSpec ==
  /\ Spec
  /\ WF_vars(EventLoop)
  /\ \A t \in Tasks : WF_vars(Worker(t))
  /\ \A o \in Others : WF_vars(\E i \in SlotIndices : LeaveElsewhere(o, i))
  /\ \A i \in SlotIndices : WF_vars(Expire(i))

-----------------------------------------------------------------------------

(* R21c: the number of concurrent agents across all processes never        *)
(* exceeds max_parallel_agents, the tasks of interrupted batches included. *)
UnderWay ==
  {t \in Tasks : task[t].at \in {"dispatch", "release"}}
    \cup {o \in Others : \E i \in SlotIndices : slots[i] = o}

Pool == INSTANCE AgentCap WITH
  Agents <- Tasks \cup Others, Cap <- MaxCap, agents <- UnderWay

ImplementsCap == Pool!CapSpec

(* What a serial batch's cancelled delegation keeps from the next batch    *)
(* while it is under way: a worker of the executor they share.             *)
Lost == {t \in Occupied : task[t].retired /\ task[t].at # "probe"}

(* R21, "never fewer", as far as the code keeps it: whatever batches the   *)
(* loop ran before, of whatever size and however they ended, a batch has   *)
(* an open executor with a worker for each of its tasks, but for one that  *)
(* the delegation of a cancelled serial batch may have.                    *)
NeverFewer ==
  cap # 0 =>
    /\ pool.open
    /\ Cardinality(Current) <= pool.size
    /\ Cardinality(Lost) <= 1

(* _ensure_sized_default_executor's docstring (R21), "never more than      *)
(* max_parallel_agents at once, and never fewer": a task of the batch      *)
(* never waits for a worker.                                               *)
WorkerForEach ==
  \A t \in Tasks : task[t].at = "queued" => Cardinality(Occupied) < pool.size

(* token_stats.json holds the completed calls of the batch that wrote it:  *)
(* none is missing, none is of another batch's tasks, and none is there    *)
(* without its result, but for the call of a cancelled serial delegation   *)
(* that completed before the file was written.                             *)
TotalsExact ==
  [][\A totals \in file' \ file :
       LET jobs(r) == {j \in Jobs : result[j] = r}
       IN jobs("answered") \subseteq totals
          /\ totals \subseteq jobs("answered") \cup jobs("cancelled")]_vars

(* A batch returns: no job waits for ever for its turn, a worker or a slot, *)
(* whoever has them.                                                       *)
BatchReturns == cap # 0 ~> cap = 0

(* A slot can be taken again whoever had it: after an interrupt, and after *)
(* a release that failed.                                                  *)
SlotsComeBack ==
  \A i \in SlotIndices : slots[i] \notin {Free, Dead} ~> slots[i] \in {Free, Dead}
===============================================================================
