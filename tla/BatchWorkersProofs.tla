-------------------------- MODULE BatchWorkersProofs --------------------------
(***************************************************************************)
(* Theorems about BatchWorkers, for any jobs, caps, number of tasks and    *)
(* other processes, and for any interrupts and crashes.                    *)
(***************************************************************************)
EXTENDS BatchWorkers, FiniteSetTheorems, TLAPS

USE WorkersAssumption

(* Where a task has a slot. *)
Holding == {"dispatch", "release"}

(* Where a task's outcome is known. *)
Ending == {"release", "over"}

(* Only an open executor is in the cache; that of a running batch is open  *)
(* and large enough; outside a batch nobody has a task that it waits for.  *)
PoolOK ==
  /\ pool.cached => pool.open
  /\ cap = 0 => Current = {}
  /\ cap # 0 =>
       /\ pool.open
       /\ cap <= pool.size
       /\ Cardinality(InState("thread")) <= cap

(* Where a task has started and is not over. *)
Started == {"probe", "dispatch", "release"}

(* A task works for a coroutine that waits for it, on the batch's executor *)
(* and under its cap, or is abandoned and has started; one that its batch  *)
(* left on the cached executor was a serial batch's.  A task that          *)
(* dispatches has the slot it probed last.                                 *)
TaskOK(t) ==
  /\ task[t].index < task[t].limit
  /\ task[t].retired => task[t].at \in Started
  /\ task[t].retired /\ task[t].here => task[t].limit = 1
  /\ t \in Current =>
       /\ task[t].job \in Jobs
       /\ task[t].at # "over" => task[t].limit = cap
       /\ task[t].here
       /\ \/ co[task[t].job] = "thread"
          \/ result[task[t].job] = "cancelled" /\ task[t].at \in Started
  /\ task[t].at \in Holding => slots[task[t].index] = t

(* No two tasks work for the same coroutine. *)
OwnJob == \A t, u \in Current : task[t].job = task[u].job => t = u

(* The outcome of j is in the results, or with the task that has it. *)
Completed(j) ==
  \/ result[j] = "answered"
  \/ \E t \in Current : /\ task[t].job = j
                        /\ task[t].at \in Ending
                        /\ task[t].answer = "answered"

(* A job without a result has none yet; only a serial batch's delegation   *)
(* is cancelled; the totals are those of the calls that completed, which   *)
(* nobody knows of a cancelled one.                                        *)
JobOK(j) ==
  /\ co[j] \in {"waiting", "thread"} => result[j] = "none"
  /\ result[j] = "cancelled" => Serial(j) /\ co[j] = "done"
  /\ result[j] # "cancelled" => (j \in stats <=> Completed(j))

IInv ==
  /\ TypeOK
  /\ PoolOK
  /\ \A t \in Tasks : TaskOK(t)
  /\ OwnJob
  /\ \A j \in Jobs : JobOK(j)

-----------------------------------------------------------------------------
(* The constants. *)

LEMMA MaxCapType == MaxCap \in Caps /\ \A d \in Caps : d <= MaxCap
BY DEF MaxCap

LEMMA IndicesFinite ==
  /\ 0 \in SlotIndices
  /\ IsFiniteSet(SlotIndices)
  /\ Cardinality(SlotIndices) = MaxCap
<1>1. MaxCap \in Nat /\ MaxCap > 0
  BY MaxCapType
<1>2. IsFiniteSet(0..(MaxCap - 1)) /\ Cardinality(0..(MaxCap - 1)) = MaxCap
  BY <1>1, FS_Interval
<1>3. QED
  BY <1>1, <1>2 DEF SlotIndices

LEMMA IdleTyped == IdleTask \in TaskStates
BY MaxCapType, IndicesFinite DEF IdleTask, TaskStates, Answers, Dispatched

LEMMA IdleTask0 ==
  /\ IdleTask \in TaskStates
  /\ ~IdleTask.retired
  /\ IdleTask.at = "idle"
  /\ IdleTask.here
  /\ IdleTask.index < IdleTask.limit
BY IdleTyped, MaxCapType DEF IdleTask

LEMMA InStateFinite ==
  ASSUME NEW s PROVE IsFiniteSet(InState(s)) /\ Cardinality(InState(s)) \in Nat
BY FS_Subset, FS_CardinalityType DEF InState

LEMMA NeededType ==
  ASSUME NEW c \in Caps PROVE Needed(c) \in Nat /\ c <= Needed(c)
BY DEF Needed

LEMMA InitInv == Init => IInv
<1> SUFFICES ASSUME Init PROVE IInv
  OBVIOUS
<1>1. TypeOK
  BY IdleTyped DEF Init, TypeOK, NoBatch, NoPool, Results
<1>2. Current = {}
  BY DEF Init, Current, Idle, IdleTask
<1>3. PoolOK
  BY <1>2 DEF PoolOK, Init, NoPool
<1>4. \A t \in Tasks : TaskOK(t)
  BY <1>2, IdleTask0 DEF TaskOK, Init, Holding
<1>5. \A j \in Jobs : JobOK(j)
  BY <1>2 DEF JobOK, Completed, Init, NoBatch
<1>6. QED
  BY <1>1, <1>2, <1>3, <1>4, <1>5 DEF IInv, OwnJob

-----------------------------------------------------------------------------
(* Types. *)

LEMMA EndedTyped ==
  ASSUME TypeOK, NEW t \in Tasks, NEW outcome \in Answers
  PROVE  Ended(t, outcome) \in TaskStates
BY IdleTyped DEF TypeOK, Ended, IdleTask, TaskStates

LEMMA StartTyped ==
  ASSUME TypeOK, NEW last \in Jobs, NEW c \in Caps, StartBatch(last, c)
  PROVE  TypeOK'
<1>1. EnsureSized(c) \in [size : Nat, open : BOOLEAN, cached : BOOLEAN]
  BY NeededType DEF TypeOK, EnsureSized, NewPool
<1>2. ASSUME NEW t \in Tasks, NEW h \in BOOLEAN
      PROVE  [task[t] EXCEPT !.here = h] \in TaskStates
  BY DEF TypeOK, TaskStates
<1>3. \A t \in Tasks : (t \in Idle \/ (task[t].here /\ pool' = pool)) \in BOOLEAN
  OBVIOUS
<1>4. task' \in [Tasks -> TaskStates]
  BY <1>2, <1>3 DEF StartBatch
<1>5. QED
  BY <1>1, <1>4 DEF TypeOK, StartBatch, NoBatch, Results

LEMMA SubmitTyped == ASSUME TypeOK, NEW j \in Jobs, Submit(j) PROVE TypeOK'
<1> DEFINE new == [IdleTask EXCEPT !.at = "queued", !.job = j, !.limit = cap]
<1>1. cap \in Caps
  BY FS_CardinalityType, InStateFinite DEF Submit, Turn, TypeOK
<1>2. new \in TaskStates
  BY <1>1, IdleTyped DEF IdleTask, TaskStates
<1>3. task' \in [Tasks -> TaskStates]
  BY <1>2 DEF Submit, TypeOK
<1>4. QED
  BY <1>3 DEF Submit, TypeOK, statsVars

LEMMA WorkerTyped == ASSUME TypeOK, NEW t \in Tasks, TaskOK(t), Worker(t) PROVE TypeOK'
<1>1. CASE Run(t)
  BY <1>1 DEF Run, TypeOK, TaskStates, batchVars, statsVars
<1>2. CASE TakeSlot(t)
  BY <1>2 DEF TakeSlot, TypeOK, TaskStates, batchVars, statsVars
<1>3. CASE MissSlot(t)
  <2>1. CASE task[t].index + 1 < task[t].limit
    <3> DEFINE next == [task[t] EXCEPT !.index = task[t].index + 1]
    <3>1. task[t] \in TaskStates
      BY DEF TypeOK
    <3>2. /\ task[t].limit \in Nat /\ task[t].limit <= MaxCap
          /\ MaxCap \in Nat /\ task[t].index \in 0..(MaxCap - 1)
      BY <3>1, MaxCapType DEF TaskStates, SlotIndices
    <3>3. task[t].index + 1 \in SlotIndices
      BY <2>1, <3>2 DEF SlotIndices
    <3>4. next \in TaskStates
      BY <3>1, <3>3 DEF TaskStates
    <3>5. task' = [task EXCEPT ![t] = next] /\ UNCHANGED <<batchVars, pool, slots, statsVars>>
      BY <1>3, <2>1, <3>2 DEF MissSlot, TypeOK, SlotIndices
    <3>6. QED
      BY <3>4, <3>5 DEF TypeOK, batchVars, statsVars
  <2>2. CASE ~(task[t].index + 1 < task[t].limit)
    <3>1. Ended(t, "no_slot") \in TaskStates
      BY EndedTyped DEF Answers
    <3>2. QED
      BY <1>3, <2>2, <3>1 DEF MissSlot, TypeOK, batchVars, statsVars
  <2>3. QED
    BY <2>1, <2>2
<1>4. CASE Answer(t)
  <2>1. PICK outcome \in Dispatched :
          /\ stats' = Bill(t, outcome)
          /\ task' = [task EXCEPT ![t].at = "release",
                                  ![t].answer = IF task[t].retired THEN @ ELSE outcome]
    BY <1>4 DEF Answer
  <2>2. task[t] \in TaskStates
    BY DEF TypeOK
  <2>3. stats' \subseteq Jobs
    <3>1. task[t].retired \/ task[t].job \in Jobs
      BY <1>4 DEF TaskOK, Current, Idle, Answer
    <3>2. QED
      BY <2>1, <3>1 DEF Bill, TypeOK
  <2>4. task' \in [Tasks -> TaskStates]
    BY <2>1, <2>2 DEF TypeOK, TaskStates, Answers, Dispatched
  <2>5. QED
    BY <1>4, <2>3, <2>4 DEF Answer, TypeOK, batchVars
<1>5. CASE GiveBack(t)
  <2>1. Ended(t, task[t].answer) \in TaskStates
    BY EndedTyped DEF TypeOK, TaskStates
  <2>2. QED
    BY <1>5, <2>1 DEF GiveBack, TypeOK, batchVars, statsVars
<1>6. QED
  BY <1>1, <1>2, <1>3, <1>4, <1>5 DEF Worker

LEMMA CollectTyped == ASSUME TypeOK, NEW t \in Tasks, Collect(t) PROVE TypeOK'
BY IdleTyped DEF Collect, TypeOK, TaskStates, Results, statsVars

LEMMA RetiredTyped ==
  ASSUME TypeOK, NEW t \in Tasks, NEW here \in BOOLEAN
  PROVE  /\ Retired(t, here) \in TaskStates
         /\ Retired(t, here).at = task[t].at
         /\ Retired(t, here).index = task[t].index
         /\ Retired(t, here).limit = task[t].limit
         /\ Retired(t, here).here = here
         /\ Retired(t, here).retired
BY IdleTyped DEF TypeOK, Retired, IdleTask, TaskStates

LEMMA ReturnTyped == ASSUME TypeOK, Return PROVE TypeOK'
<1>1. task' \in [Tasks -> TaskStates]
  BY RetiredTyped DEF Return, TypeOK
<1>2. file' \subseteq SUBSET Jobs /\ stats' \subseteq Jobs
  <2>1. stats \subseteq Jobs /\ stats' = {} /\ (file' = {} \/ file' = {stats})
    BY DEF Return, TypeOK
  <2>2. QED
    BY <2>1
<1>3. cap' = 0 /\ co' = NoBatch /\ result' = NoBatch /\ pool' = pool /\ slots' = slots
  BY DEF Return
<1>4. QED
  BY <1>1, <1>2, <1>3 DEF TypeOK, NoBatch, Results

LEMMA CancelTyped == ASSUME TypeOK, NEW j \in Jobs, Cancel(j) PROVE TypeOK'
<1>1. task' \in [Tasks -> TaskStates]
  BY IdleTyped DEF Cancel, TypeOK
<1>2. co' \in [Jobs -> {"none", "waiting", "thread", "done"}] /\ result' \in [Jobs -> Results]
  BY DEF Cancel, TypeOK, Results
<1>3. QED
  BY <1>1, <1>2 DEF Cancel, TypeOK, statsVars

LEMMA InterruptTyped == ASSUME TypeOK, Interrupt PROVE TypeOK'
<1>1. task' \in [Tasks -> TaskStates]
  BY RetiredTyped, IdleTyped DEF Interrupt, TypeOK
<1>2. QED
  BY <1>1 DEF Interrupt, TypeOK, Evict, NoBatch, Results

LEMMA NewLoopTyped == ASSUME TypeOK, NewLoop PROVE TypeOK'
BY DEF NewLoop, TypeOK, NoPool, batchVars, statsVars

LEMMA CrashTyped == ASSUME TypeOK, Crash PROVE TypeOK'
BY IdleTyped DEF Crash, TypeOK, NoPool, NoBatch, Results

LEMMA ElsewhereTyped ==
  ASSUME TypeOK, NEW o \in Others, NEW i \in SlotIndices,
         TakeElsewhere(o, i) \/ LeaveElsewhere(o, i)
  PROVE  TypeOK'
<1>1. \E v \in Others \cup {Free, Left, Dead} : slots' = [slots EXCEPT ![i] = v]
  BY DEF TakeElsewhere, LeaveElsewhere
<1>2. UNCHANGED <<batchVars, pool, task, statsVars>>
  BY DEF TakeElsewhere, LeaveElsewhere
<1>3. slots' \in [SlotIndices -> Tasks \cup Others \cup {Free, Dead, Left}]
  BY <1>1 DEF TypeOK
<1>4. QED
  BY <1>2, <1>3 DEF TypeOK, batchVars, statsVars

LEMMA ExpireTyped == ASSUME TypeOK, NEW i \in SlotIndices, Expire(i) PROVE TypeOK'
BY DEF Expire, TypeOK, batchVars, statsVars

-----------------------------------------------------------------------------
(* The beginning and the end of a batch. *)

LEMMA StartInv ==
  ASSUME IInv, NEW last \in Jobs, NEW c \in Caps, StartBatch(last, c)
  PROVE  IInv'
<1>1. TypeOK'
  BY StartTyped DEF IInv
<1>2. ASSUME NEW t \in Tasks
      PROVE  /\ task'[t].at = task[t].at
             /\ task'[t].index = task[t].index
             /\ task'[t].limit = task[t].limit
             /\ task'[t].retired = task[t].retired
             /\ task'[t].here => task[t].here \/ t \in Idle
  BY DEF IInv, TypeOK, TaskStates, StartBatch
<1>3. Current' = {}
  BY <1>2 DEF IInv, PoolOK, StartBatch, Current, Idle
<1>4. PoolOK'
  <2>1. pool'.open /\ c <= pool'.size /\ pool'.size \in Nat
    BY NeededType DEF IInv, TypeOK, PoolOK, StartBatch, EnsureSized, NewPool
  <2>2. InState("thread")' = {}
    BY DEF StartBatch, InState
  <2>3. Cardinality(InState("thread")') <= c
    BY <2>2, FS_EmptySet
  <2>4. pool'.cached => pool'.open
    BY DEF IInv, PoolOK, StartBatch, EnsureSized, NewPool
  <2>5. QED
    BY <1>3, <2>1, <2>3, <2>4 DEF PoolOK, StartBatch
<1>5. ASSUME NEW t \in Tasks PROVE TaskOK(t)'
  <2>1. slots' = slots /\ (t \in Idle => ~task[t].retired)
    BY DEF IInv, TaskOK, StartBatch, Idle, Started
  <2>2. QED
    BY <1>2, <1>3, <2>1 DEF IInv, TaskOK
<1>6. \A j \in Jobs : JobOK(j)'
  BY <1>3 DEF JobOK, Completed, StartBatch, NoBatch
<1>7. QED
  BY <1>1, <1>3, <1>4, <1>5, <1>6 DEF IInv, OwnJob

(* When all coroutines are done, the tasks that are left are abandoned. *)
LEMMA AllDone ==
  ASSUME IInv, InState("waiting") \cup InState("thread") = {}, NEW t \in Current
  PROVE  /\ t \in Tasks
         /\ task[t].job \in Jobs
         /\ result[task[t].job] = "cancelled"
         /\ task[t].at \in Started
         /\ cap = 1
BY DEF IInv, TaskOK, JobOK, Serial, InState, Current

LEMMA ReturnInv == ASSUME IInv, Return PROVE IInv'
<1>1. TypeOK'
  BY ReturnTyped DEF IInv
<1>2. ASSUME NEW t \in Tasks
      PROVE  task'[t] = IF t \in Current THEN Retired(t, TRUE) ELSE task[t]
  BY DEF IInv, TypeOK, Return
<1>3. Current' = {}
  BY <1>2, RetiredTyped DEF IInv, Current, Idle
<1>4. PoolOK'
  BY <1>3 DEF IInv, PoolOK, Return
<1>5. ASSUME NEW t \in Tasks PROVE TaskOK(t)'
  <2>1. slots' = slots
    BY DEF Return
  <2>2. CASE t \in Current
    <3>1. task[t].limit = 1 /\ task[t].at \in Started
      BY <2>2, AllDone DEF IInv, TaskOK, Return, Started
    <3>2. /\ task'[t].at = task[t].at
          /\ task'[t].index = task[t].index
          /\ task'[t].limit = task[t].limit
      BY <1>2, <2>2, RetiredTyped DEF IInv
    <3>3. TaskOK(t) /\ t \notin Current'
      BY <1>3 DEF IInv
    <3>4. QED
      BY <2>1, <3>1, <3>2, <3>3 DEF TaskOK
  <2>3. CASE t \notin Current
    <3>1. task'[t] = task[t] /\ t \notin Current' /\ TaskOK(t)
      BY <1>2, <1>3, <2>3 DEF IInv
    <3>2. QED
      BY <2>1, <3>1 DEF TaskOK
  <2>4. QED
    BY <2>2, <2>3
<1>6. \A j \in Jobs : JobOK(j)'
  BY <1>3 DEF JobOK, Completed, Return, NoBatch
<1>7. QED
  BY <1>1, <1>3, <1>4, <1>5, <1>6 DEF IInv, OwnJob

LEMMA CancelInv == ASSUME IInv, NEW j \in Jobs, Cancel(j) PROVE IInv'
<1>1. TypeOK'
  BY CancelTyped DEF IInv
<1>2. /\ \A t \in Tasks : task'[t] = IF Dropped(t) THEN IdleTask ELSE task[t]
      /\ co[j] = "thread" /\ co'[j] = "done" /\ result'[j] = "cancelled"
      /\ \A i \in Jobs \ {j} : co[i] = "none" /\ co'[i] = "none" /\ result'[i] = result[i]
      /\ cap = 1 /\ UNCHANGED <<cap, pool, slots, stats>>
  BY DEF IInv, TypeOK, Cancel, Serial, statsVars
<1>3. ASSUME NEW t \in Tasks
      PROVE  /\ t \in Current' <=> t \in Current /\ ~Dropped(t)
             /\ t \in Current' =>
                  task'[t] = task[t] /\ task[t].job = j /\ task[t].at \in Started
  <2>1. t \in Current' <=> t \in Current /\ ~Dropped(t)
    BY <1>2, IdleTask0 DEF Current, Idle, Dropped
  <2>2. t \in Current => task[t].job = j
    BY <1>2 DEF IInv, TaskOK, JobOK
  <2>3. t \in Current /\ ~Dropped(t) => task[t].at \in Started
    BY DEF IInv, TypeOK, TaskStates, Current, Idle, Dropped, Started
  <2>4. QED
    BY <1>2, <2>1, <2>2, <2>3
<1>4. PoolOK'
  <2>1. InState("thread")' = {}
    BY <1>2 DEF InState
  <2>2. Cardinality(InState("thread")') <= cap'
    BY <1>2, <2>1, FS_EmptySet
  <2>3. QED
    BY <1>2, <2>2 DEF IInv, PoolOK
<1>5. ASSUME NEW t \in Tasks PROVE TaskOK(t)'
  <2>1. CASE Dropped(t)
    BY <1>2, <1>3, <2>1, IdleTask0 DEF TaskOK, Holding
  <2>2. CASE ~Dropped(t)
    <3>1. task'[t] = task[t] /\ slots' = slots
      BY <1>2, <2>2
    <3>2. t \in Current' => t \in Current /\ task[t].at \in Started
                           /\ result'[task[t].job] = "cancelled"
      BY <1>2, <1>3
    <3>3. QED
      BY <1>2, <3>1, <3>2 DEF IInv, TaskOK
  <2>3. QED
    BY <2>1, <2>2
<1>6. OwnJob'
  <2>1. \A t, u \in Current' : t \in Tasks /\ u \in Tasks
    BY DEF Current
  <2>2. QED
    BY <1>3, <2>1 DEF IInv, OwnJob
<1>7. ASSUME NEW i \in Jobs PROVE JobOK(i)'
  <2>1. CASE i = j
    BY <1>2, <2>1 DEF JobOK, Serial
  <2>2. CASE i # j
    <3>1. result[i] # "cancelled"
      BY <1>2, <2>2 DEF IInv, JobOK
    <3>2. Completed(i)' <=> result[i] = "answered"
      BY <1>2, <1>3, <2>2 DEF Completed, Current
    <3>3. Completed(i) <=> result[i] = "answered"
      BY <1>2, <2>2 DEF IInv, TaskOK, JobOK, Completed, Current
    <3>4. QED
      BY <1>2, <2>2, <3>1, <3>2, <3>3 DEF IInv, JobOK
  <2>3. QED
    BY <2>1, <2>2
<1>8. QED
  BY <1>1, <1>4, <1>5, <1>6, <1>7 DEF IInv

LEMMA InterruptTask ==
  ASSUME IInv, Interrupt, NEW t \in Tasks
  PROVE  /\ t \notin Current'
         /\ TaskOK(t)'
<1> slots' = slots
  BY DEF Interrupt
<1>1. CASE t \in Idle \/ Dropped(t)
  <2>1. task'[t] = IdleTask
    BY <1>1 DEF IInv, TypeOK, Interrupt
  <2>2. QED
    BY <2>1, IdleTask0 DEF Current, Idle, TaskOK, Holding
<1>2. CASE ~(t \in Idle \/ Dropped(t))
  <2>1. task'[t] = Retired(t, FALSE)
    BY <1>2 DEF IInv, TypeOK, Interrupt
  <2>2. task[t].at \in Started
    BY <1>2 DEF IInv, TypeOK, TaskStates, TaskOK, Dropped, Current, Idle, Started
  <2>3. t \notin Current'
    BY <2>1, RetiredTyped DEF IInv, Current
  <2>4. /\ task'[t].at = task[t].at
        /\ task'[t].index = task[t].index
        /\ task'[t].limit = task[t].limit
        /\ task'[t].here = FALSE
    BY <2>1, RetiredTyped DEF IInv
  <2>5. TaskOK(t)
    BY DEF IInv
  <2>6. QED
    BY <2>2, <2>3, <2>4, <2>5 DEF TaskOK
<1>3. QED
  BY <1>1, <1>2

LEMMA InterruptInv == ASSUME IInv, Interrupt PROVE IInv'
<1>1. TypeOK'
  BY InterruptTyped DEF IInv
<1>2. Current' = {}
  BY InterruptTask DEF Current
<1>3. PoolOK'
  BY <1>2 DEF IInv, PoolOK, Interrupt, Evict, TypeOK
<1>4. \A t \in Tasks : TaskOK(t)'
  BY InterruptTask
<1>5. \A j \in Jobs : JobOK(j)'
  BY <1>2 DEF JobOK, Completed, Interrupt, NoBatch
<1>6. QED
  BY <1>1, <1>2, <1>3, <1>4, <1>5 DEF IInv, OwnJob

LEMMA NewLoopInv == ASSUME IInv, NewLoop PROVE IInv'
<1>1. TypeOK'
  BY NewLoopTyped DEF IInv
<1>2. Current = {} /\ Current' = {}
  BY DEF NewLoop, Current, Idle
<1>3. PoolOK'
  BY <1>2 DEF PoolOK, NewLoop, NoPool, batchVars
<1>4. \A t \in Tasks : TaskOK(t)'
  BY <1>2 DEF IInv, TaskOK, NewLoop, batchVars
<1>5. \A j \in Jobs : JobOK(j)'
  BY <1>2 DEF IInv, JobOK, Serial, Completed, NewLoop, batchVars, statsVars
<1>6. QED
  BY <1>1, <1>2, <1>3, <1>4, <1>5 DEF IInv, OwnJob

LEMMA CrashInv == ASSUME IInv, Crash PROVE IInv'
<1>1. TypeOK'
  BY CrashTyped DEF IInv
<1>2. Current' = {}
  BY DEF Crash, Current, Idle, IdleTask
<1>3. PoolOK'
  BY <1>2 DEF PoolOK, Crash, NoPool
<1>4. \A t \in Tasks : TaskOK(t)'
  BY <1>2, IdleTask0 DEF TaskOK, Crash, Holding
<1>5. \A j \in Jobs : JobOK(j)'
  BY <1>2 DEF JobOK, Completed, Crash, NoBatch
<1>6. QED
  BY <1>1, <1>2, <1>3, <1>4, <1>5 DEF IInv, OwnJob

-----------------------------------------------------------------------------
(* Handing a job to a thread, and collecting its outcome. *)

LEMMA NewTaskIdle == Idle # {} => NewTask \in Idle
BY DEF NewTask

LEMMA SubmitInv == ASSUME IInv, NEW j \in Jobs, Submit(j) PROVE IInv'
<1> DEFINE n == NewTask
           new == [IdleTask EXCEPT !.at = "queued", !.job = j, !.limit = cap]
<1>1. TypeOK'
  BY SubmitTyped DEF IInv
<1>2. n \in Tasks /\ n \notin Current /\ task[n].at = "idle"
  BY NewTaskIdle DEF Submit, Idle, Current
<1>3. /\ task' = [task EXCEPT ![n] = new]
      /\ co' = [co EXCEPT ![j] = "thread"]
      /\ UNCHANGED <<cap, result, pool, slots, stats>>
  BY DEF Submit, statsVars
<1>4. /\ new.at = "queued" /\ new.job = j /\ ~new.retired
      /\ new.here /\ new.limit = cap /\ new.index = 0
  BY DEF IdleTask
<1> HIDE DEF n, new
<1>5. task'[n] = new /\ \A t \in Tasks \ {n} : task'[t] = task[t]
  BY <1>2, <1>3 DEF IInv, TypeOK
<1>6. Current' = Current \cup {n}
  BY <1>2, <1>4, <1>5 DEF Current, Idle
<1>7. co[j] = "waiting" /\ co'[j] = "thread" /\ \A i \in Jobs \ {j} : co'[i] = co[i]
  BY <1>3 DEF IInv, TypeOK, Submit, Turn
<1>8. PoolOK'
  <2>1. InState("thread")' = InState("thread") \cup {j} /\ j \notin InState("thread")
    BY <1>7 DEF InState
  <2>2. Cardinality(InState("thread")') = Cardinality(InState("thread")) + 1
    BY <2>1, InStateFinite, FS_AddElement
  <2>3. Cardinality(InState("thread")) < cap
    BY DEF Submit, Turn
  <2>4. cap \in Nat /\ cap # 0 /\ Cardinality(InState("thread")') <= cap
    BY <2>2, <2>3, InStateFinite DEF IInv, TypeOK
  <2>5. QED
    BY <1>3, <2>4 DEF IInv, PoolOK
<1>9. ASSUME NEW t \in Tasks PROVE TaskOK(t)'
  <2>1. CASE t = n
    <3>1. cap \in Nat /\ 0 < cap
      BY FS_CardinalityType, InStateFinite DEF Submit, Turn, IInv, TypeOK
    <3>2. QED
      BY <1>3, <1>4, <1>5, <1>7, <2>1, <3>1 DEF TaskOK, Holding
  <2>2. CASE t # n
    <3>1. t \in Current => task[t].job # j \/ result[j] = "cancelled"
      BY <1>7 DEF IInv, TaskOK
    <3>2. result[j] = "none"
      BY <1>7 DEF IInv, JobOK
    <3>3. QED
      BY <1>3, <1>5, <1>6, <1>7, <2>2, <3>1, <3>2 DEF IInv, TaskOK
  <2>3. QED
    BY <2>1, <2>2
<1>10. OwnJob'
  <2>1. \A t \in Current : t \in Tasks /\ t # n /\ task[t].job # j
    BY <1>2, <1>7 DEF IInv, TaskOK, JobOK, Current
  <2>2. QED
    BY <1>4, <1>5, <1>6, <2>1 DEF IInv, OwnJob
<1>11. ASSUME NEW i \in Jobs PROVE JobOK(i)'
  <2>1. Completed(i)' <=> Completed(i)
    BY <1>2, <1>3, <1>4, <1>5, <1>6 DEF Completed, Current, Ending
  <2>2. result[i] # "cancelled"
    BY <1>7 DEF IInv, JobOK, Serial
  <2>3. QED
    BY <1>3, <1>7, <2>1, <2>2 DEF IInv, JobOK
<1>12. QED
  BY <1>1, <1>8, <1>9, <1>10, <1>11 DEF IInv

LEMMA CollectInv == ASSUME IInv, NEW t \in Tasks, Collect(t) PROVE IInv'
<1> DEFINE j == task[t].job
<1>1. TypeOK'
  BY CollectTyped DEF IInv
<1>2. /\ t \in Current /\ j \in Jobs /\ co[j] = "thread" /\ task[t].at = "over"
      /\ task[t].answer \in Answers
  BY DEF IInv, TypeOK, TaskStates, TaskOK, Collect, Current, Idle, Started
<1>3. /\ task'[t] = IdleTask
      /\ \A u \in Tasks \ {t} : task'[u] = task[u]
      /\ co'[j] = "done"
      /\ result'[j] = task[t].answer
      /\ \A i \in Jobs \ {j} : co'[i] = co[i] /\ result'[i] = result[i]
      /\ UNCHANGED <<cap, pool, slots, stats>>
  BY <1>2 DEF IInv, TypeOK, Collect, statsVars
<1> HIDE DEF j
<1>4. Current' = Current \ {t}
  BY <1>3 DEF Current, Idle, IdleTask
<1>5. \A u \in Current \ {t} : u \in Tasks /\ task[u].job # j
  BY <1>2 DEF IInv, OwnJob, Current, j
<1>6. PoolOK'
  <2>1. InState("thread")' = InState("thread") \ {j} /\ j \in InState("thread")
    BY <1>2, <1>3 DEF InState
  <2>2. Cardinality(InState("thread")') = Cardinality(InState("thread")) - 1
    BY <2>1, InStateFinite, FS_RemoveElement
  <2>3. Cardinality(InState("thread")) <= cap => Cardinality(InState("thread")') <= cap
    <3>1. cap \in Nat /\ Cardinality(InState("thread")) \in Nat
      BY InStateFinite DEF IInv, TypeOK
    <3>2. QED
      BY <2>2, <3>1
  <2>4. QED
    BY <1>3, <1>4, <2>3 DEF IInv, PoolOK
<1>7. ASSUME NEW u \in Tasks PROVE TaskOK(u)'
  <2>1. CASE u = t
    BY <1>3, <1>4, <2>1, IdleTask0 DEF TaskOK, Holding
  <2>2. CASE u # t
    <3>1. TaskOK(u) /\ task'[u] = task[u] /\ (u \in Current' <=> u \in Current)
      BY <1>3, <1>4, <2>2 DEF IInv
    <3>2. u \in Current => task[u].job # j
      BY <1>5, <2>2
    <3>3. u \in Current =>
            co'[task[u].job] = co[task[u].job] /\ result'[task[u].job] = result[task[u].job]
      BY <1>3, <3>1, <3>2 DEF TaskOK
    <3>4. slots' = slots /\ cap' = cap
      BY <1>3
    <3>5. QED
      BY <3>1, <3>3, <3>4 DEF TaskOK
  <2>3. QED
    BY <2>1, <2>2
<1>8. OwnJob'
  BY <1>3, <1>4, <1>5 DEF IInv, OwnJob
<1>9. ASSUME NEW i \in Jobs PROVE JobOK(i)'
  <2>1. CASE i = j
    <3>1. result[j] = "none"
      BY <1>2 DEF IInv, JobOK
    <3>2. Completed(i) <=> task[t].answer = "answered"
      BY <1>2, <1>5, <2>1, <3>1 DEF Completed, Ending, j
    <3>3. Completed(i)' <=> result'[i] = "answered"
      BY <1>3, <1>4, <1>5, <2>1 DEF Completed
    <3>4. co'[i] = "done" /\ result'[i] \in Answers
      BY <1>2, <1>3, <2>1
    <3>5. QED
      BY <1>3, <2>1, <3>1, <3>2, <3>3, <3>4 DEF IInv, JobOK, Answers, Dispatched
  <2>2. CASE i # j
    <3>1. Completed(i)' <=> Completed(i)
      BY <1>2, <1>3, <1>4, <1>5, <2>2 DEF Completed, j
    <3>2. result[i] # "cancelled"
      BY <1>2, <2>2 DEF IInv, JobOK, Serial
    <3>3. QED
      BY <1>3, <2>2, <3>1, <3>2 DEF IInv, JobOK
  <2>3. QED
    BY <2>1, <2>2
<1>10. QED
  BY <1>1, <1>6, <1>7, <1>8, <1>9 DEF IInv

-----------------------------------------------------------------------------
(* The worker threads. *)

(* What a worker leaves alone. *)
LEMMA WorkerFrame ==
  ASSUME IInv, NEW t \in Tasks, Worker(t)
  PROVE  /\ UNCHANGED <<cap, co, result, pool, file>>
         /\ \A u \in Tasks \ {t} : task'[u] = task[u]
         /\ task[t].at \in {"queued", "probe", "dispatch", "release"}
BY DEF IInv, TypeOK, Worker, Run, TakeSlot, MissSlot, Answer, GiveBack,
   batchVars, statsVars

LEMMA EndedTask ==
  ASSUME NEW t \in Tasks, NEW outcome
  PROVE  /\ Abandoned(t) => Ended(t, outcome) = IdleTask
         /\ ~Abandoned(t) =>
              /\ ~Ended(t, outcome).retired
              /\ Ended(t, outcome).at = "over"
              /\ Ended(t, outcome).job = task[t].job
              /\ Ended(t, outcome).answer = outcome
              /\ Ended(t, outcome).here
              /\ Ended(t, outcome).index < Ended(t, outcome).limit
         /\ Ended(t, outcome).at \notin Holding
<1>1. IdleTask.index < IdleTask.limit
  BY IdleTask0
<1>2. QED
  BY <1>1 DEF Ended, IdleTask, Holding

(* A step of a worker: the next state of its task, or the task's end. *)
WorksOn(t) ==
  /\ task'[t].retired = task[t].retired
  /\ task'[t].job = task[t].job
  /\ task'[t].here = task[t].here
  /\ task'[t].index < task'[t].limit
  /\ \/ task'[t].at \in Started /\ task'[t].limit = task[t].limit
     \/ task'[t].at = "over" /\ ~Abandoned(t)

LEMMA WorkerStep ==
  ASSUME IInv, NEW t \in Tasks, Worker(t)
  PROVE  (Abandoned(t) /\ task'[t] = IdleTask) \/ WorksOn(t)
<1> task[t] \in TaskStates /\ task \in [Tasks -> TaskStates]
  BY DEF IInv, TypeOK
<1>0. task[t].index < task[t].limit
  BY DEF IInv, TaskOK
<1>1. CASE Run(t)
  BY <1>0, <1>1 DEF Run, TaskStates, WorksOn, Started
<1>2. CASE TakeSlot(t)
  BY <1>0, <1>2 DEF TakeSlot, TaskStates, WorksOn, Started
<1>3. ASSUME NEW outcome, task' = [task EXCEPT ![t] = Ended(t, outcome)],
             task[t].at # "idle"
      PROVE  (Abandoned(t) /\ task'[t] = IdleTask) \/ WorksOn(t)
  <2>1. task'[t] = Ended(t, outcome)
    BY <1>3
  <2>2. CASE Abandoned(t)
    BY <2>1, <2>2, EndedTask
  <2>3. CASE ~Abandoned(t)
    <3>1. task[t].retired = FALSE /\ task[t].here = TRUE
      BY <1>3, <2>3 DEF IInv, TaskOK, Abandoned, Current, Idle, TaskStates
    <3>2. task'[t].retired = FALSE /\ task'[t].here = TRUE
      BY <2>1, <2>3 DEF Ended, IdleTask
    <3>3. /\ task'[t].at = "over"
          /\ task'[t].job = task[t].job
          /\ task'[t].index < task'[t].limit
      BY <2>1, <2>3, EndedTask
    <3>4. QED
      BY <2>3, <3>1, <3>2, <3>3 DEF WorksOn
  <2>4. QED
    BY <2>2, <2>3
<1>4. CASE MissSlot(t)
  <2>1. CASE task[t].index + 1 < task[t].limit
    <3>1. task' = [task EXCEPT ![t].index = @ + 1] /\ task[t].at = "probe"
      BY <1>4, <2>1 DEF MissSlot, TaskStates, SlotIndices
    <3>2. QED
      BY <2>1, <3>1 DEF TaskStates, WorksOn, Started
  <2>2. CASE ~(task[t].index + 1 < task[t].limit)
    BY <1>3, <1>4, <2>2 DEF MissSlot
  <2>3. QED
    BY <2>1, <2>2
<1>5. CASE Answer(t)
  BY <1>0, <1>5 DEF Answer, TaskStates, WorksOn, Started
<1>6. CASE GiveBack(t)
  BY <1>3, <1>6 DEF GiveBack
<1>7. QED
  BY <1>1, <1>2, <1>4, <1>5, <1>6 DEF Worker

(* The slots: a task takes one that no other has, and gives back its own. *)
LEMMA WorkerSlots ==
  ASSUME IInv, NEW t \in Tasks, Worker(t)
  PROVE  /\ task'[t].at \in Holding => slots'[task'[t].index] = t
         /\ \A u \in Tasks \ {t} :
              task[u].at \in Holding => slots'[task[u].index] = u
<1> task[t] \in TaskStates /\ task \in [Tasks -> TaskStates]
    /\ slots \in [SlotIndices -> Tasks \cup Others \cup {Free, Dead, Left}]
    /\ task[t].index \in SlotIndices
  BY DEF IInv, TypeOK, TaskStates
<1>0. \A u \in Tasks : /\ task[u].at \in Holding => slots[task[u].index] = u
                       /\ task[u].index \in SlotIndices
  BY DEF IInv, TypeOK, TaskStates, TaskOK
<1>1. CASE Run(t)
  BY <1>0, <1>1 DEF Run, Holding
<1>2. CASE TakeSlot(t)
  <2>1. /\ slots[task[t].index] \in {Free, Dead}
        /\ slots' = [slots EXCEPT ![task[t].index] = t]
        /\ task' = [task EXCEPT ![t].at = "dispatch"]
    BY <1>2 DEF TakeSlot, Probed
  <2>2. \A u \in Tasks : task[u].at \in Holding => task[u].index # task[t].index
    BY <1>0, <2>1
  <2>3. task'[t].index = task[t].index /\ slots'[task[t].index] = t
    BY <2>1
  <2>4. QED
    BY <1>0, <2>1, <2>2, <2>3
<1>3. CASE MissSlot(t)
  <2>1. slots' = slots /\ task[t].at = "probe"
    BY <1>3 DEF MissSlot
  <2>2. CASE task' = [task EXCEPT ![t] = Ended(t, "no_slot")]
    BY <1>0, <2>1, <2>2, EndedTask
  <2>3. CASE task' = [task EXCEPT ![t].index = @ + 1]
    BY <1>0, <2>1, <2>3 DEF Holding
  <2>4. QED
    BY <1>3, <2>2, <2>3 DEF MissSlot
<1>4. CASE Answer(t)
  BY <1>0, <1>4 DEF Answer, Holding
<1>5. CASE GiveBack(t)
  <2>1. /\ slots[task[t].index] = t
        /\ \E rest \in {Free, Left} : slots' = [slots EXCEPT ![task[t].index] = rest]
        /\ task'[t] = Ended(t, task[t].answer)
    BY <1>0, <1>5 DEF GiveBack, Holding
  <2>2. \A u \in Tasks \ {t} : task[u].at \in Holding => task[u].index # task[t].index
    BY <1>0, <2>1
  <2>3. QED
    BY <1>0, <2>1, <2>2, EndedTask
<1>6. QED
  BY <1>1, <1>2, <1>3, <1>4, <1>5 DEF Worker

(* The totals: only the task that ends a dispatch changes them. *)
LEMMA WorkerTotals ==
  ASSUME IInv, NEW t \in Tasks, Worker(t), NEW i \in Jobs
  PROVE  JobOK(i)'
<1> task[t] \in TaskStates /\ task \in [Tasks -> TaskStates]
  BY DEF IInv, TypeOK
<1>1. /\ UNCHANGED <<cap, co, result>>
      /\ \A u \in Tasks \ {t} : task'[u] = task[u]
      /\ \A u \in Current : u \in Tasks
      /\ \A u \in Current' : u \in Tasks
      /\ \A u \in Tasks \ {t} : u \in Current' <=> u \in Current
      /\ t \in Current' => t \in Current
  BY WorkerFrame, WorkerStep, IdleTask0 DEF Current, Idle, WorksOn
<1>2. JobOK(i)
  BY DEF IInv
<1>3. SUFFICES ASSUME result[i] # "cancelled" PROVE i \in stats' <=> Completed(i)'
  BY <1>1, <1>2 DEF JobOK, Serial
<1>4. CASE t \notin Current \/ task[t].job # i
  <2>1. Completed(i)' <=> Completed(i)
    <3>1. t \in Current' => task'[t].job # i
      BY <1>1, <1>4, WorkerStep, IdleTask0 DEF Current, Idle, WorksOn
    <3>2. QED
      BY <1>1, <1>4, <3>1 DEF Completed
  <2>2. stats' = stats \/ \E j : t \in Current /\ j = task[t].job /\ stats' = stats \cup {j}
    BY DEF Worker, Run, TakeSlot, MissSlot, Answer, Bill, GiveBack, Current, Idle, statsVars
  <2>3. QED
    BY <1>2, <1>3, <1>4, <2>1, <2>2 DEF JobOK
<1>5. CASE t \in Current /\ task[t].job = i
  <2>1. /\ ~task[t].retired
        /\ ~Abandoned(t)
        /\ result[i] = "none"
        /\ \A u \in Current : task[u].job = i => u = t
        /\ t \in Current'
        /\ task'[t].job = i
    <3>1. co[i] = "thread"
      BY <1>3, <1>5 DEF IInv, TaskOK
    <3>2. ~task[t].retired /\ ~Abandoned(t)
      BY <1>5, <3>1 DEF Current, Abandoned
    <3>3. t \in Current' /\ task'[t].job = i
      BY <1>5, <3>2, WorkerStep DEF Current, Idle, WorksOn, Started
    <3>4. QED
      BY <1>2, <1>5, <3>1, <3>2, <3>3 DEF IInv, OwnJob, JobOK
  <2>2. /\ Completed(i) <=> task[t].at \in Ending /\ task[t].answer = "answered"
        /\ Completed(i)' <=> task'[t].at \in Ending /\ task'[t].answer = "answered"
    BY <1>1, <1>5, <2>1 DEF Completed
  <2>3. CASE Run(t) \/ TakeSlot(t)
    <3>1. task[t].at \notin Ending /\ task'[t].at \notin Ending /\ stats' = stats
      BY <2>3 DEF Run, TakeSlot, Ending, TaskStates, statsVars
    <3>2. QED
      BY <1>2, <1>3, <2>2, <3>1 DEF JobOK
  <2>4. CASE MissSlot(t)
    <3>1. task[t].at = "probe" /\ stats' = stats
      BY <2>4 DEF MissSlot, statsVars
    <3>2. CASE task' = [task EXCEPT ![t] = Ended(t, "no_slot")]
      BY <1>2, <1>3, <2>1, <2>2, <3>1, <3>2, EndedTask DEF JobOK, Ending
    <3>3. CASE task' = [task EXCEPT ![t].index = @ + 1]
      BY <1>2, <1>3, <2>2, <3>1, <3>3 DEF JobOK, Ending
    <3>4. QED
      BY <2>4, <3>2, <3>3 DEF MissSlot
  <2>5. CASE Answer(t)
    <3>1. PICK outcome \in Dispatched :
            /\ stats' = Bill(t, outcome)
            /\ task' = [task EXCEPT ![t].at = "release",
                                    ![t].answer = IF task[t].retired THEN @ ELSE outcome]
      BY <2>5, Zenon DEF Answer
    <3>2. task'[t].at = "release" /\ task'[t].answer = outcome
      BY <2>1, <3>1 DEF TaskStates
    <3>3. i \notin stats
      BY <1>2, <1>3, <2>2, <2>5 DEF JobOK, Answer, Ending
    <3>4. QED
      BY <1>5, <2>1, <2>2, <3>1, <3>2, <3>3 DEF Bill, Ending
  <2>6. CASE GiveBack(t)
    BY <1>2, <1>3, <2>1, <2>2, <2>6, EndedTask DEF GiveBack, JobOK, Ending, statsVars
  <2>7. QED
    BY <2>3, <2>4, <2>5, <2>6 DEF Worker
<1>6. QED
  BY <1>4, <1>5

LEMMA WorkerInv == ASSUME IInv, NEW t \in Tasks, Worker(t) PROVE IInv'
<1>1. TypeOK'
  BY WorkerTyped DEF IInv
<1>2. ASSUME NEW u \in Current'
      PROVE  /\ u \in Tasks
             /\ u \in Current
             /\ task'[u].job = task[u].job
             /\ u = t => WorksOn(t)
  BY <1>2, WorkerFrame, WorkerStep, IdleTask0 DEF Current, Idle, WorksOn
<1>3. PoolOK'
  <2>1. cap = 0 => Current' = {}
    BY <1>2 DEF IInv, PoolOK
  <2>2. QED
    BY <2>1, WorkerFrame DEF IInv, PoolOK, InState
<1>4. ASSUME NEW u \in Tasks PROVE TaskOK(u)'
  <2>1. task'[u].at \in Holding => slots'[task'[u].index] = u
    BY WorkerFrame, WorkerSlots
  <2>2. CASE u # t
    BY <1>2, <2>1, <2>2, WorkerFrame DEF IInv, TaskOK
  <2>3. CASE u = t /\ task'[t] = IdleTask
    BY <1>2, <2>1, <2>3, IdleTask0 DEF TaskOK, Current, Idle
  <2>4. CASE u = t /\ WorksOn(t)
    <3>1. task'[t].at = "over" => co[task[t].job] # "done" /\ ~task[t].retired
      BY <2>4 DEF WorksOn, Abandoned, Started
    <3>2. task[t].at # "over"
      BY WorkerFrame
    <3>3. t \in Current' /\ task'[t].at = "over" => co[task[t].job] = "thread"
      BY <1>2, <3>1 DEF IInv, TaskOK, JobOK
    <3>4. QED
      BY <1>2, <2>1, <2>4, <3>1, <3>2, <3>3, WorkerFrame
         DEF IInv, TaskOK, WorksOn, Started
  <2>5. QED
    BY <2>2, <2>3, <2>4, WorkerStep
<1>5. OwnJob'
  BY <1>2 DEF IInv, OwnJob
<1>6. \A i \in Jobs : JobOK(i)'
  BY WorkerTotals
<1>7. QED
  BY <1>1, <1>3, <1>4, <1>5, <1>6 DEF IInv

-----------------------------------------------------------------------------
(* The delegations of other processes, and the invariant. *)

LEMMA OtherSlot ==
  ASSUME IInv, TypeOK', NEW i \in SlotIndices, slots[i] \notin Tasks,
         UNCHANGED <<batchVars, pool, task, statsVars>>,
         \A k \in SlotIndices \ {i} : slots'[k] = slots[k]
  PROVE  IInv'
<1>1. PoolOK'
  BY DEF IInv, PoolOK, Current, Idle, InState, batchVars
<1>2. ASSUME NEW t \in Tasks PROVE TaskOK(t)'
  <2>1. task[t].index \in SlotIndices
    BY DEF IInv, TypeOK, TaskStates
  <2>2. task[t].at \in Holding => slots'[task[t].index] = t
    BY <2>1 DEF IInv, TaskOK
  <2>3. QED
    BY <2>2 DEF IInv, TaskOK, Current, Idle, batchVars
<1>3. OwnJob'
  BY DEF IInv, OwnJob, Current, Idle
<1>4. \A j \in Jobs : JobOK(j)'
  BY DEF IInv, JobOK, Serial, Completed, Current, Idle, batchVars, statsVars
<1>5. QED
  BY <1>1, <1>2, <1>3, <1>4 DEF IInv

LEMMA ElsewhereInv ==
  ASSUME IInv, NEW o \in Others, NEW i \in SlotIndices,
         TakeElsewhere(o, i) \/ LeaveElsewhere(o, i)
  PROVE  IInv'
<1>1. TypeOK'
  BY ElsewhereTyped DEF IInv
<1>2. /\ UNCHANGED <<batchVars, pool, task, statsVars>>
      /\ slots[i] \notin Tasks
      /\ \A k \in SlotIndices \ {i} : slots'[k] = slots[k]
  BY DEF IInv, TypeOK, TakeElsewhere, LeaveElsewhere
<1>3. QED
  BY <1>1, <1>2, OtherSlot

LEMMA ExpireInv == ASSUME IInv, NEW i \in SlotIndices, Expire(i) PROVE IInv'
<1>1. TypeOK'
  BY ExpireTyped DEF IInv
<1>2. /\ UNCHANGED <<batchVars, pool, task, statsVars>>
      /\ slots[i] \notin Tasks
      /\ \A k \in SlotIndices \ {i} : slots'[k] = slots[k]
  BY DEF IInv, TypeOK, Expire
<1>3. QED
  BY <1>1, <1>2, OtherSlot

LEMMA StutterInv == ASSUME IInv, UNCHANGED vars PROVE IInv'
<1> USE DEF vars, batchVars, statsVars
<1>1. TypeOK'
  BY DEF IInv, TypeOK
<1>2. PoolOK'
  BY DEF IInv, PoolOK, Current, Idle, InState
<1>3. \A t \in Tasks : TaskOK(t)'
  BY DEF IInv, TaskOK, Current, Idle
<1>4. OwnJob'
  BY DEF IInv, OwnJob, Current, Idle
<1>5. \A j \in Jobs : JobOK(j)'
  BY DEF IInv, JobOK, Serial, Completed, Current, Idle
<1>6. QED
  BY <1>1, <1>2, <1>3, <1>4, <1>5 DEF IInv

LEMMA NextInv == IInv /\ [Next]_vars => IInv'
BY StartInv, SubmitInv, CollectInv, ReturnInv, WorkerInv, CancelInv, InterruptInv,
   NewLoopInv, CrashInv, ElsewhereInv, ExpireInv, StutterInv DEF Next, EventLoop

LEMMA AlwaysInv == Spec => []IInv
BY InitInv, NextInv, PTL DEF Spec

-----------------------------------------------------------------------------
(* What follows from the invariant. *)

LEMMA AtMostOne ==
  ASSUME NEW S, NEW x, S \subseteq {x}
  PROVE  Cardinality(S) \in Nat /\ Cardinality(S) <= 1
<1>1. CASE S = {}
  BY <1>1, FS_EmptySet
<1>2. CASE S = {x}
  <2>1. Cardinality({x}) = 1
    BY FS_Singleton
  <2>2. Cardinality(S) = 1
    BY <1>2, <2>1
  <2>3. QED
    BY <2>2
<1>3. QED
  BY <1>1, <1>2

(* The tasks of a batch are as many as the coroutines that wait for them,  *)
(* or there is but the one of a cancelled serial delegation.               *)
LEMMA WorkersForTasks ==
  ASSUME IInv, cap # 0 PROVE Cardinality(Current) <= pool.size
<1>0. cap \in Nat /\ pool.size \in Nat /\ 1 <= cap /\ cap <= pool.size
  BY DEF IInv, TypeOK, PoolOK
<1>1. CASE \E j \in Jobs : result[j] = "cancelled"
  <2>1. PICK j \in Jobs : result[j] = "cancelled"
    BY <1>1
  <2>2. \A t \in Current : task[t].job = j
    BY <2>1 DEF IInv, TaskOK, JobOK, Serial, Current
  <2>3. \A t, u \in Current : t = u
    BY <2>2 DEF IInv, OwnJob
  <2>4. \E x : Current \subseteq {x}
    BY <2>3
  <2>5. Cardinality(Current) \in Nat /\ Cardinality(Current) <= 1
    BY <2>4, AtMostOne
  <2>6. QED
    BY <1>0, <2>5
<1>2. CASE \A j \in Jobs : result[j] # "cancelled"
  <2> DEFINE S == InState("thread")
             f == [t \in Current |-> task[t].job]
  <2>1. \A t \in Current : task[t].job \in S
    BY <1>2 DEF IInv, TaskOK, InState, Current
  <2>2. f \in Injection(Current, S)
    BY <2>1 DEF Injection, IsInjective, IInv, OwnJob
  <2>3. IsFiniteSet(S) /\ Cardinality(S) \in Nat
    BY InStateFinite
  <2>4. IsFiniteSet(Current) /\ Cardinality(Current) <= Cardinality(S)
    BY <2>2, <2>3, FS_Injection
  <2>5. Cardinality(Current) \in Nat
    BY <2>4, FS_CardinalityType
  <2>6. Cardinality(S) <= cap
    BY DEF IInv, PoolOK
  <2>7. QED
    BY <1>0, <2>3, <2>4, <2>5, <2>6
<1>3. QED
  BY <1>1, <1>2

(* An abandoned delegation of a serial batch has the only slot it probed. *)
LEMMA OneLost == ASSUME IInv PROVE Cardinality(Lost) <= 1
<1>1. ASSUME NEW t \in Lost PROVE t \in Tasks /\ slots[0] = t
  <2>1. /\ t \in Tasks /\ task[t].retired /\ task[t].here
        /\ task[t].at \in Holding
    BY DEF Lost, Occupied, Holding
  <2>2. task[t].limit = 1 /\ task[t].index < 1 /\ slots[task[t].index] = t
    BY <2>1 DEF IInv, TaskOK
  <2>3. task[t].index \in Nat
    BY <2>1 DEF IInv, TypeOK, TaskStates, SlotIndices
  <2>4. task[t].index = 0
    BY <2>2, <2>3
  <2>5. QED
    BY <2>1, <2>2, <2>4
<1>2. Lost \subseteq {slots[0]}
  BY <1>1
<1>3. QED
  BY <1>2, AtMostOne

LEMMA InvNeverFewer == IInv => NeverFewer
BY WorkersForTasks, OneLost DEF NeverFewer, IInv, PoolOK

(* When a batch returns, its totals are complete: a task that is left      *)
(* works for the cancelled delegation.                                     *)
ExactStep ==
  \A totals \in file' \ file :
    LET jobs(r) == {j \in Jobs : result[j] = r}
    IN jobs("answered") \subseteq totals
       /\ totals \subseteq jobs("answered") \cup jobs("cancelled")

LEMMA StepTotals == ASSUME IInv, [Next]_vars PROVE ExactStep
<1>1. CASE Return
  <2>1. \A j \in Jobs : result[j] # "cancelled" => (j \in stats <=> result[j] = "answered")
    BY <1>1, AllDone DEF IInv, JobOK, Completed, Return
  <2>2. \A j \in Jobs : result[j] = "answered" => result[j] # "cancelled"
    OBVIOUS
  <2>3. stats \subseteq Jobs /\ file' \subseteq {stats}
    BY <1>1 DEF IInv, TypeOK, Return
  <2>4. QED
    BY <2>1, <2>2, <2>3 DEF ExactStep
<1>2. CASE file' \subseteq file
  BY <1>2 DEF ExactStep
<1>3. CASE \E last \in Jobs, c \in Caps : StartBatch(last, c)
  BY <1>2, <1>3 DEF StartBatch
<1>4. CASE Crash
  BY <1>2, <1>4 DEF Crash
<1>5. CASE \E t \in Tasks : Worker(t)
  BY <1>2, <1>5, WorkerFrame
<1>6. CASE \/ \E j \in Jobs : Submit(j) \/ Cancel(j)
           \/ \E t \in Tasks : Collect(t)
           \/ Interrupt
           \/ NewLoop
           \/ \E o \in Others, i \in SlotIndices : TakeElsewhere(o, i) \/ LeaveElsewhere(o, i)
           \/ \E i \in SlotIndices : Expire(i)
           \/ UNCHANGED vars
  <2>1. file' = file
    <3>1. CASE \E j \in Jobs : Submit(j) \/ Cancel(j)
      BY <3>1 DEF Submit, Cancel, statsVars
    <3>2. CASE \/ \E t \in Tasks : Collect(t)
               \/ Interrupt \/ NewLoop \/ UNCHANGED vars
      BY <3>2 DEF Collect, Interrupt, NewLoop, vars, statsVars
    <3>3. CASE \/ \E o \in Others, i \in SlotIndices :
                    TakeElsewhere(o, i) \/ LeaveElsewhere(o, i)
               \/ \E i \in SlotIndices : Expire(i)
      BY <3>3 DEF TakeElsewhere, LeaveElsewhere, Expire, statsVars
    <3>4. QED
      BY <1>6, <3>1, <3>2, <3>3
  <2>2. QED
    BY <1>2, <2>1
<1>7. QED
  BY <1>1, <1>3, <1>4, <1>5, <1>6 DEF Next, EventLoop

-----------------------------------------------------------------------------
(* The cap over all processes. *)

Busy == {t \in Tasks : task[t].at \in Holding}
Elsewhere == {o \in Others : \E i \in SlotIndices : slots[i] = o}

LEMMA UnderWayParts ==
  /\ UnderWay = Busy \cup Elsewhere
  /\ UnderWay' = Busy' \cup Elsewhere'
BY DEF UnderWay, Busy, Elsewhere, Holding

(* Whoever is under way has a slot of its own: when one more slot has no   *)
(* live holder, fewer than MaxCap are.                                     *)
LEMMA RoomLeft ==
  ASSUME IInv, NEW i \in SlotIndices, slots[i] \in {Free, Dead}
  PROVE  Cardinality(UnderWay) < MaxCap
<1> DEFINE R == SlotIndices \ {i}
           f == [a \in UnderWay |-> CHOOSE k \in SlotIndices : slots[k] = a]
<1>1. \A a \in UnderWay : \E k \in SlotIndices : slots[k] = a
  BY DEF UnderWay, IInv, TypeOK, TaskStates, TaskOK, Holding
<1>2. \A a \in UnderWay : f[a] \in SlotIndices /\ slots[f[a]] = a
  BY <1>1
<1>3. \A a \in UnderWay : a \in Tasks \cup Others
  BY DEF UnderWay
<1> HIDE DEF f
<1>4. \A a \in UnderWay : f[a] \in R
  BY <1>2, <1>3
<1>5. f \in Injection(UnderWay, R)
  BY <1>2, <1>4 DEF Injection, IsInjective, f
<1>6. IsFiniteSet(R) /\ Cardinality(R) = MaxCap - 1
  BY IndicesFinite, FS_RemoveElement
<1>7. IsFiniteSet(UnderWay) /\ Cardinality(UnderWay) <= Cardinality(R)
  BY <1>5, <1>6, FS_Injection
<1>8. Cardinality(UnderWay) \in Nat /\ MaxCap \in Nat
  BY <1>7, FS_CardinalityType, MaxCapType
<1>9. QED
  BY <1>6, <1>7, <1>8

LEMMA SameCardinality == Pool!Cardinality(UnderWay) = Cardinality(UnderWay)
BY DEF Pool!Cardinality, Cardinality

LEMMA PoolInit == Init => Pool!CapInit
BY DEF Init, IdleTask, UnderWay, Pool!CapInit

(* A worker begins a delegation when it takes a slot and ends it when it   *)
(* gives the slot back.                                                    *)
LEMMA WorkerRefines ==
  ASSUME IInv, NEW t \in Tasks, Worker(t)
  PROVE  [Pool!CapNext]_UnderWay
<1> task[t] \in TaskStates /\ task \in [Tasks -> TaskStates]
    /\ slots \in [SlotIndices -> Tasks \cup Others \cup {Free, Dead, Left}]
    /\ task[t].index \in SlotIndices
  BY DEF IInv, TypeOK, TaskStates
<1>0. \A u \in Tasks \ {t} : u \in Busy' <=> u \in Busy
  BY WorkerFrame DEF Busy
<1>1. CASE Run(t) \/ MissSlot(t) \/ Answer(t)
  <2>1. slots' = slots
    BY <1>1 DEF Run, MissSlot, Answer
  <2>2. t \in Busy' <=> t \in Busy
    <3>1. CASE Run(t) \/ Answer(t)
      BY <3>1 DEF Run, Answer, Busy, Holding, TaskStates
    <3>2. CASE MissSlot(t)
      <4>1. task[t].at = "probe"
        BY <3>2 DEF MissSlot
      <4>2. CASE task' = [task EXCEPT ![t] = Ended(t, "no_slot")]
        BY <4>1, <4>2, EndedTask DEF Busy, Holding
      <4>3. CASE task' = [task EXCEPT ![t].index = @ + 1]
        BY <4>1, <4>3 DEF Busy, Holding, TaskStates
      <4>4. QED
        BY <3>2, <4>2, <4>3 DEF MissSlot
    <3>3. QED
      BY <1>1, <3>1, <3>2
  <2>3. Busy' = Busy /\ Elsewhere' = Elsewhere
    BY <1>0, <2>1, <2>2 DEF Busy, Elsewhere
  <2>4. QED
    BY <2>3, UnderWayParts
<1>2. CASE TakeSlot(t)
  <2>1. /\ slots[task[t].index] \in {Free, Dead}
        /\ slots' = [slots EXCEPT ![task[t].index] = t]
        /\ task[t].at = "probe"
        /\ task'[t].at = "dispatch"
    BY <1>2 DEF TakeSlot, Probed, TaskStates
  <2>2. t \notin Busy /\ Busy' = Busy \cup {t}
    BY <1>0, <2>1 DEF Busy, Holding
  <2>3. Elsewhere' = Elsewhere /\ t \notin Elsewhere
    BY <2>1 DEF Elsewhere
  <2>4. t \notin UnderWay /\ UnderWay' = UnderWay \cup {t}
    BY <2>2, <2>3, UnderWayParts
  <2>5. Cardinality(UnderWay) < MaxCap
    BY <2>1, RoomLeft
  <2>6. QED
    BY <2>4, <2>5, SameCardinality DEF Pool!CapNext, Pool!Begin
<1>3. CASE GiveBack(t)
  <2>1. /\ slots[task[t].index] = t
        /\ \E rest \in {Free, Left} : slots' = [slots EXCEPT ![task[t].index] = rest]
        /\ task[t].at = "release"
        /\ task'[t] = Ended(t, task[t].answer)
    BY <1>3 DEF GiveBack, IInv, TaskOK, Holding
  <2>2. t \in Busy /\ Busy' = Busy \ {t}
    BY <1>0, <2>1, EndedTask DEF Busy, Holding
  <2>3. Elsewhere' = Elsewhere /\ t \notin Elsewhere
    BY <2>1 DEF Elsewhere
  <2>4. {t} \in SUBSET UnderWay /\ UnderWay' = UnderWay \ {t}
    BY <2>2, <2>3, UnderWayParts
  <2>5. QED
    BY <2>4 DEF Pool!CapNext, Pool!End
<1>4. QED
  BY <1>1, <1>2, <1>3 DEF Worker

(* What does not touch the slots or the tasks that have one. *)
LEMMA QuietRefines ==
  ASSUME slots' = slots,
         \A t \in Tasks : task'[t].at \in Holding <=> task[t].at \in Holding
  PROVE  [Pool!CapNext]_UnderWay
BY UnderWayParts DEF Busy, Elsewhere

LEMMA InterruptRefines ==
  ASSUME IInv, Interrupt PROVE [Pool!CapNext]_UnderWay
<1>1. ASSUME NEW t \in Tasks PROVE task'[t].at \in Holding <=> task[t].at \in Holding
  <2>1. CASE t \in Idle \/ Dropped(t)
    <3>1. task'[t] = IdleTask
      BY <2>1 DEF IInv, TypeOK, Interrupt
    <3>2. QED
      BY <2>1, <3>1, IdleTask0 DEF Idle, Dropped, Holding
  <2>2. CASE ~(t \in Idle \/ Dropped(t))
    <3>1. task'[t] = Retired(t, FALSE)
      BY <2>2 DEF IInv, TypeOK, Interrupt
    <3>2. QED
      BY <3>1, RetiredTyped DEF IInv
  <2>3. QED
    BY <2>1, <2>2
<1>2. QED
  BY <1>1, QuietRefines DEF Interrupt

LEMMA CancelRefines ==
  ASSUME IInv, NEW j \in Jobs, Cancel(j) PROVE [Pool!CapNext]_UnderWay
<1>1. ASSUME NEW t \in Tasks PROVE task'[t].at \in Holding <=> task[t].at \in Holding
  BY IdleTask0 DEF IInv, TypeOK, Cancel, Dropped, Holding
<1>2. QED
  BY <1>1, QuietRefines DEF Cancel

LEMMA ReturnRefines == ASSUME IInv, Return PROVE [Pool!CapNext]_UnderWay
<1>1. ASSUME NEW t \in Tasks PROVE task'[t].at \in Holding <=> task[t].at \in Holding
  BY RetiredTyped DEF IInv, TypeOK, Return
<1>2. QED
  BY <1>1, QuietRefines DEF Return

LEMMA ExpireRefines ==
  ASSUME IInv, NEW i \in SlotIndices, Expire(i) PROVE [Pool!CapNext]_UnderWay
<1>1. Busy' = Busy
  BY DEF Expire, Busy
<1>2. \A k \in SlotIndices, o \in Others : slots'[k] = o <=> slots[k] = o
  BY DEF IInv, TypeOK, Expire
<1>3. Elsewhere' = Elsewhere
  BY <1>2 DEF Elsewhere
<1>4. QED
  BY <1>1, <1>3, UnderWayParts

LEMMA CrashRefines ==
  ASSUME IInv, Crash PROVE [Pool!CapNext]_UnderWay
<1>1. Busy' = {}
  BY DEF Crash, Busy, IdleTask, Holding
<1>2. Elsewhere' = Elsewhere
  <2>1. \A i \in SlotIndices, o \in Others : slots'[i] = o <=> slots[i] = o
    BY DEF Crash
  <2>2. QED
    BY <2>1 DEF Elsewhere
<1>3. UnderWay' = UnderWay \ Busy /\ Busy \in SUBSET UnderWay
  BY <1>1, <1>2, UnderWayParts DEF Busy, Elsewhere
<1>4. CASE Busy = {}
  BY <1>3, <1>4
<1>5. CASE Busy # {}
  BY <1>3, <1>5 DEF Pool!CapNext, Pool!End
<1>6. QED
  BY <1>4, <1>5

LEMMA ElsewhereRefines ==
  ASSUME IInv, NEW o \in Others, NEW i \in SlotIndices,
         TakeElsewhere(o, i) \/ LeaveElsewhere(o, i)
  PROVE  [Pool!CapNext]_UnderWay
<1> slots \in [SlotIndices -> Tasks \cup Others \cup {Free, Dead, Left}]
  BY DEF IInv, TypeOK
<1>1. Busy' = Busy /\ o \notin Busy
  BY DEF TakeElsewhere, LeaveElsewhere, Busy
<1>2. CASE TakeElsewhere(o, i)
  <2>1. /\ o \notin Elsewhere
        /\ slots[i] \in {Free, Dead}
        /\ slots' = [slots EXCEPT ![i] = o]
    BY <1>2 DEF TakeElsewhere, Elsewhere
  <2>2. Elsewhere' = Elsewhere \cup {o}
    BY <2>1 DEF Elsewhere
  <2>3. o \notin UnderWay /\ UnderWay' = UnderWay \cup {o}
    BY <1>1, <2>1, <2>2, UnderWayParts
  <2>4. Cardinality(UnderWay) < MaxCap
    BY <2>1, RoomLeft
  <2>5. QED
    BY <2>3, <2>4, SameCardinality DEF Pool!CapNext, Pool!Begin
<1>3. CASE LeaveElsewhere(o, i)
  <2>1. slots[i] = o /\ \E rest \in {Free, Left, Dead} : slots' = [slots EXCEPT ![i] = rest]
    BY <1>3 DEF LeaveElsewhere
  <2>2. /\ o \in Elsewhere
        /\ \A p \in Others \ {o} : p \in Elsewhere' <=> p \in Elsewhere
    BY <2>1 DEF Elsewhere
  <2>3. Elsewhere' = Elsewhere \/ Elsewhere' = Elsewhere \ {o}
    BY <2>2 DEF Elsewhere
  <2>4. {o} \in SUBSET UnderWay /\ (UnderWay' = UnderWay \/ UnderWay' = UnderWay \ {o})
    BY <1>1, <2>2, <2>3, UnderWayParts
  <2>5. QED
    BY <2>4 DEF Pool!CapNext, Pool!End
<1>4. QED
  BY <1>2, <1>3

LEMMA NextRefines == IInv /\ [Next]_vars => [Pool!CapNext]_UnderWay
<1> SUFFICES ASSUME IInv, [Next]_vars PROVE [Pool!CapNext]_UnderWay
  OBVIOUS
<1>1. CASE \E last \in Jobs, c \in Caps : StartBatch(last, c)
  <2>1. \A t \in Tasks : task'[t].at = task[t].at
    BY <1>1 DEF IInv, TypeOK, TaskStates, StartBatch
  <2>2. QED
    BY <1>1, <2>1, QuietRefines DEF StartBatch
<1>2. ASSUME NEW j \in Jobs, Submit(j) PROVE [Pool!CapNext]_UnderWay
  BY <1>2, QuietRefines, NewTaskIdle DEF IInv, TypeOK, Submit, Idle, IdleTask, Holding
<1>3. ASSUME NEW t \in Tasks, Collect(t) PROVE [Pool!CapNext]_UnderWay
  BY <1>3, QuietRefines DEF IInv, TypeOK, Collect, IdleTask, Holding
<1>4. CASE NewLoop \/ UNCHANGED vars
  BY <1>4, QuietRefines DEF NewLoop, vars
<1>5. QED
  BY <1>1, <1>2, <1>3, <1>4, WorkerRefines, ReturnRefines, CancelRefines,
     InterruptRefines, CrashRefines, ElsewhereRefines, ExpireRefines DEF Next, EventLoop

-----------------------------------------------------------------------------
(* Batch, executor, tasks, slots and totals are well typed.                *)
THEOREM TypeCorrect == Spec => []TypeOK
BY AlwaysInv, PTL DEF IInv

(* _ensure_sized_default_executor and the interrupt handlers (R21):        *)
(* whatever batches came before and however they ended, a batch has an     *)
(* open executor with a worker for each of its tasks, but for one that the *)
(* delegation of a cancelled serial batch may have.                        *)
THEOREM WorkersSuffice == Spec => []NeverFewer
BY AlwaysInv, InvNeverFewer, PTL

(* TokenStats and _write_stats_best_effort: the file of totals holds the   *)
(* completed calls of its batch, all of them and no others; only that of a *)
(* cancelled serial delegation may be there or not.                        *)
THEOREM TotalsAreExact == Spec => TotalsExact
<1>1. IInv /\ [Next]_vars => [ExactStep]_vars
  BY StepTotals
<1>2. QED
  BY <1>1, AlwaysInv, PTL DEF Spec, TotalsExact, ExactStep

(* acquire_slot under the worker threads (R21c): over all threads and      *)
(* processes, those of interrupted batches included, the batches implement *)
(* a pool of MaxCap delegations.                                           *)
THEOREM CapImplemented == Spec => ImplementsCap
BY PoolInit, NextRefines, AlwaysInv, PTL DEF Spec, ImplementsCap, Pool!CapSpec
===============================================================================
