------------------------------- MODULE RunBatch -------------------------------
(***************************************************************************)
(* run_ollama.py: run_batch with its Scheduler and the process-wide        *)
(* CircuitBreaker, one batch after another in one process.  Everything     *)
(* runs on one event loop, so a step is what a coroutine does between two  *)
(* awaits; only the worker call, in a thread, takes time.                  *)
(*                                                                         *)
(* A worker's answer is abstracted to how _execute_delegation classifies   *)
(* it; the content of prompts and results is left out.                     *)
(***************************************************************************)
EXTENDS CircuitBreaker, FiniteSets

CONSTANTS
  Jobs,         \* the positions of a batch, integers in submission order
  ModelOf,      \* the model of every job
  Streams,      \* the jobs whose capability is streamed
  MaxParallel,  \* config.max_parallel_agents
  MaxQueued,    \* config.max_queued_agents
  Timeout       \* ticks until a delegation's own deadline ends it

ASSUME BatchAssumption ==
  /\ Jobs \subseteq Nat
  /\ IsFiniteSet(Jobs)
  /\ ModelOf \in [Jobs -> Models]
  /\ Streams \subseteq Jobs
  /\ MaxParallel \in Nat \ {0}
  /\ MaxQueued \in Nat
  /\ Timeout \in Nat \ {0}

VARIABLES
  status,    \* where every job is: "idle" outside a batch
  result,    \* its entry in run_batch's results
  age,       \* how long its worker has been running
  asProbe    \* the jobs whose try_enter returned "probe"

vars == <<fails, left, probe, status, result, age, asProbe>>

Statuses == {"idle", "waiting", "running", "done"}

(* What a worker call ends with: a result; OllamaBackendError or           *)
(* TimeoutError; a 429 that outlived its backoffs; any other exception.    *)
Answers == {"ok", "backend_error", "rate_limited", "other_error"}
Results == Answers \cup {"none", "circuit_open", "queue_full"}

(* Types; no delegation runs past its deadline, no failure count passes the *)
(* threshold, and no cooldown runs while a probe is reserved.               *)
TypeOK ==
  /\ BreakerTypeOK
  /\ status \in [Jobs -> Statuses]
  /\ result \in [Jobs -> Results]
  /\ age \in [Jobs -> 0..Timeout]
  /\ asProbe \subseteq Jobs

Init ==
  /\ BreakerInit
  /\ status = [j \in Jobs |-> "idle"]
  /\ result = [j \in Jobs |-> "none"]
  /\ age = [j \in Jobs |-> 0]
  /\ asProbe = {}

Waiting == {j \in Jobs : status[j] = "waiting"}
Running == {j \in Jobs : status[j] = "running"}
InBatch == {j \in Jobs : status[j] # "idle"}
Busy == Waiting \cup Running # {}

(* Mutant: an off-by-one in the order of submission. *)
UpTo(S, j) == {i \in S : i <= j}

Before(S, j) == {i \in S : i < j}
Ceiling == MaxParallel + MaxQueued

(* _reject_if_circuit_open for every job of the batch B, then run_all's    *)
(* static ceiling over those that remain.                                  *)
Eligible(B) == {j \in B : ~IsDefinitivelyOpen(ModelOf[j])}
Overflow(E) == {j \in E : Cardinality(Before(E, j)) >= Ceiling}

StartBatch(B) ==
  LET accepted == Eligible(B) \ Overflow(Eligible(B))
  IN /\ ~Busy
     /\ B # {}
     /\ status' = [j \in Jobs |-> IF j \in accepted THEN "waiting"
                                  ELSE IF j \in B THEN "done" ELSE "idle"]
     /\ result' = [j \in Jobs |-> IF j \notin B \/ j \in accepted THEN "none"
                                  ELSE IF j \in Eligible(B) THEN "queue_full"
                                  ELSE "circuit_open"]
     /\ age' = [j \in Jobs |-> 0]
     /\ asProbe' = {}
     /\ UNCHANGED breakerVars

(* The FIFO semaphore of run_all. *)
Turn(j) ==
  /\ j \in Waiting
  /\ Before(Waiting, j) = {}
  /\ Cardinality(Running) < MaxParallel

(* The semaphore admits the job and _execute_delegation asks the breaker   *)
(* at once: no await separates the two.                                    *)
Enter(j) ==
  LET verdict == Verdict(ModelOf[j])
  IN /\ Turn(j)
     /\ TryEnter(ModelOf[j])
     /\ status' = [status EXCEPT ![j] = IF verdict = "open" THEN "done" ELSE "running"]
     /\ result' = [result EXCEPT ![j] = IF verdict = "open" THEN "circuit_open" ELSE "none"]
     /\ asProbe' = IF verdict = "probe" THEN asProbe \cup {j} ELSE asProbe
     /\ UNCHANGED age

(* The exception the transport raises for a 429 that outlived its          *)
(* backoffs: RateLimitError from backend.py, OllamaBackendError from       *)
(* ollama_stream.py.                                                       *)
Raised(j, answer) ==
  IF answer # "rate_limited" THEN answer
  ELSE IF j \in Streams THEN "backend_error" ELSE "other_error"

(* Mutant: the finally does not release an unresolved probe. *)
ReportWithoutRelease(j, outcome) ==
  CASE outcome = "ok" -> RecordSuccess(ModelOf[j])
    [] outcome = "backend_error" -> RecordFailure(ModelOf[j])
    [] outcome = "other_error" -> UNCHANGED breakerVars

(* _execute_delegation's classification, and the finally that releases a   *)
(* probe; after record_success or record_failure there is none to release. *)
Report(j, outcome) ==
  CASE outcome = "ok" -> RecordSuccess(ModelOf[j])
    [] outcome = "backend_error" -> RecordFailure(ModelOf[j])
    [] outcome = "other_error" ->
         IF j \in asProbe THEN ReleaseProbes({ModelOf[j]}) ELSE UNCHANGED breakerVars

Finish(j) ==
  /\ j \in Running
  /\ \E answer \in Answers :
       /\ Report(j, Raised(j, answer))
       /\ result' = [result EXCEPT ![j] = answer]
  /\ status' = [status EXCEPT ![j] = "done"]
  /\ asProbe' = asProbe \ {j}
  /\ age' = [age EXCEPT ![j] = 0]

(* KeyboardInterrupt: every coroutine is cancelled and run_batch's handler *)
(* releases the probe of every eligible job's model (those rejected before *)
(* scheduling have none); no result survives.  On the serial path the lone *)
(* delegation reports the CancelledError it met and its finally releases   *)
(* its probe: to the breaker it is the same.                               *)
Interrupt ==
  /\ Busy
  /\ ReleaseProbes({ModelOf[j] : j \in InBatch})
  /\ status' = [j \in Jobs |-> "idle"]
  /\ result' = [j \in Jobs |-> "none"]
  /\ age' = [j \in Jobs |-> 0]
  /\ asProbe' = {}

(* The clock advances, by far less than a tick while a coroutine is ready; *)
(* the deadline of a running delegation has not passed.                    *)
Tick ==
  /\ \A j \in Jobs : ~Turn(j)
  /\ \A j \in Running : age[j] < Timeout
  /\ Elapse
  /\ age' = [j \in Jobs |-> IF j \in Running THEN age[j] + 1 ELSE age[j]]
  /\ UNCHANGED <<status, result, asProbe>>

Next ==
  \/ \E B \in SUBSET Jobs : StartBatch(B)
  \/ \E j \in Jobs : Enter(j) \/ Finish(j)
  \/ Interrupt
  \/ Tick

Spec == Init /\ [][Next]_vars

(* The event loop runs ready coroutines, a worker ends by its deadline, and *)
(* time passes however many batches come; nobody has to start or interrupt  *)
(* one.                                                                     *)
FairSpec ==
  /\ Spec
  /\ \A j \in Jobs : WF_vars(Enter(j)) /\ WF_vars(Finish(j))
  /\ SF_vars(Tick)

-----------------------------------------------------------------------------

(* release_probe: a reservation never outlives the delegations that can    *)
(* resolve it, so no model stays blocked by a probe nobody runs.           *)
NoLeakedProbe ==
  \A m \in probe : \E j \in Running \cap asProbe : ModelOf[j] = m

(* A blocked model is eventually offered to delegations again. *)
Unblocks == \A m \in Models : IsDefinitivelyOpen(m) ~> ~IsDefinitivelyOpen(m)

(* A batch ends: every delegation gets its turn and its deadline. *)
BatchEnds == Busy ~> ~Busy

(* try_enter: "at most one probe is ever in flight" for a model. *)
OneProbe ==
  \A i, j \in Running \cap asProbe : ModelOf[i] = ModelOf[j] => i = j

(* A rate limit "is NOT a breaker failure". *)
RateLimitSpares ==
  [][\A j \in Running : result'[j] = "rate_limited" => UNCHANGED fails]_vars
==============================================================================
