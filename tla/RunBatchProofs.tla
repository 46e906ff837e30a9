---------------------------- MODULE RunBatchProofs ----------------------------
(***************************************************************************)
(* Theorems about RunBatch, for every set of models and jobs, every        *)
(* threshold and cooldown, every cap and every queue.                      *)
(***************************************************************************)
EXTENDS RunBatch, TLAPS

(* A circuit and its probe agree, and the probe has its delegation. *)
IInv == TypeOK /\ OpenOnlyAfterThreshold /\ NoLeakedProbe

-----------------------------------------------------------------------------
(* The breaker's methods. *)

(* The methods keep the types, and open a circuit only after the threshold. *)
LEMMA BreakerStep ==
  ASSUME BreakerTypeOK, OpenOnlyAfterThreshold, NEW m \in Models, NEW M,
         \/ RecordFailure(m) \/ RecordSuccess(m) \/ ReleaseProbes(M)
         \/ TryEnter(m) \/ Elapse \/ UNCHANGED breakerVars
  PROVE  BreakerTypeOK' /\ OpenOnlyAfterThreshold'
<1> USE BreakerAssumption DEF BreakerTypeOK, OpenOnlyAfterThreshold
<1>1. CASE RecordFailure(m)
  BY <1>1 DEF RecordFailure, OneMore
<1>2. CASE RecordSuccess(m)
  BY <1>2 DEF RecordSuccess
<1>3. CASE ReleaseProbes(M)
  BY <1>3 DEF ReleaseProbes
<1>4. CASE TryEnter(m)
  BY <1>4 DEF TryEnter, Verdict, IsDefinitivelyOpen
<1>5. CASE Elapse
  BY <1>5 DEF Elapse
<1>6. CASE UNCHANGED breakerVars
  BY <1>6 DEF breakerVars
<1>7. QED
  BY <1>1, <1>2, <1>3, <1>4, <1>5, <1>6

(* A report is one of the breaker's methods; a delegation that was admitted *)
(* as the probe leaves no reservation for its model, another none that was  *)
(* not there.                                                               *)
LEMMA ReportStep ==
  ASSUME NEW j \in Jobs, NEW answer \in Answers, Report(j, Raised(j, answer))
  PROVE  /\ \/ RecordFailure(ModelOf[j]) \/ RecordSuccess(ModelOf[j])
            \/ ReleaseProbes({ModelOf[j]}) \/ UNCHANGED breakerVars
         /\ probe' \subseteq probe
         /\ j \in asProbe => ModelOf[j] \notin probe'
BY DEF Report, Raised, Answers, RecordFailure, RecordSuccess, ReleaseProbes, breakerVars

-----------------------------------------------------------------------------
(* The batch. *)

(* A batch that starts finds no job running, hence no probe. *)
LEMMA StartBatchInv ==
  ASSUME IInv, NEW B \in SUBSET Jobs, StartBatch(B)
  PROVE  IInv'
<1>1. TypeOK'
  BY BatchAssumption
  DEF StartBatch, IInv, TypeOK, BreakerTypeOK, breakerVars, Statuses, Results
<1>2. OpenOnlyAfterThreshold'
  BY DEF StartBatch, breakerVars, IInv, OpenOnlyAfterThreshold
<1>3. probe = {}
  BY DEF StartBatch, Busy, IInv, NoLeakedProbe, TypeOK, BreakerTypeOK
<1>4. QED
  BY <1>1, <1>2, <1>3 DEF IInv, StartBatch, breakerVars, NoLeakedProbe

(* A job that is admitted as the probe runs. *)
LEMMA EnterInv ==
  ASSUME IInv, NEW j \in Jobs, Enter(j)
  PROVE  IInv'
<1>0. ModelOf[j] \in Models /\ TryEnter(ModelOf[j]) /\ status[j] = "waiting"
  BY BatchAssumption DEF Enter, Turn, Waiting
<1>1. BreakerTypeOK' /\ OpenOnlyAfterThreshold'
  BY <1>0, BreakerStep DEF IInv, TypeOK
<1>2. TypeOK'
  BY <1>1 DEF Enter, IInv, TypeOK, Statuses, Results
<1>3. ASSUME NEW m \in probe' PROVE (\E i \in Running \cap asProbe : ModelOf[i] = m)'
  <2>1. CASE m \in probe
    <3>1. PICK i \in Running \cap asProbe : ModelOf[i] = m
      BY <2>1 DEF IInv, NoLeakedProbe
    <3>2. i # j
      BY <1>0, <3>1 DEF Running
    <3>3. i \in (Running \cap asProbe)'
      BY <3>1, <3>2 DEF Running, Enter, IInv, TypeOK
    <3>4. QED
      BY <3>1, <3>3
  <2>2. CASE m \notin probe
    <3>1. m = ModelOf[j] /\ Verdict(m) = "probe"
      BY <1>0, <1>3, <2>2 DEF TryEnter
    <3>2. j \in (Running \cap asProbe)'
      BY <3>1 DEF Enter, Running, IInv, TypeOK
    <3>3. QED
      BY <3>1, <3>2
  <2>3. QED
    BY <2>1, <2>2
<1>4. QED
  BY <1>1, <1>2, <1>3 DEF IInv, NoLeakedProbe

(* A job that ends takes its own reservation with it. *)
LEMMA FinishInv ==
  ASSUME IInv, NEW j \in Jobs, Finish(j)
  PROVE  IInv'
<1>0. PICK answer \in Answers :
        /\ Report(j, Raised(j, answer))
        /\ result' = [result EXCEPT ![j] = answer]
  BY DEF Finish
<1>1. ModelOf[j] \in Models
  BY BatchAssumption
<1>2. BreakerTypeOK' /\ OpenOnlyAfterThreshold'
  BY <1>0, <1>1, ReportStep, BreakerStep DEF IInv, TypeOK
<1>3. TypeOK'
  BY <1>0, <1>2, BatchAssumption DEF Finish, IInv, TypeOK, Statuses, Results
<1>4. ASSUME NEW m \in probe' PROVE (\E i \in Running \cap asProbe : ModelOf[i] = m)'
  <2>1. m \in probe /\ (j \in asProbe => m # ModelOf[j])
    BY <1>0, <1>4, ReportStep
  <2>2. PICK i \in Running \cap asProbe : ModelOf[i] = m
    BY <2>1 DEF IInv, NoLeakedProbe
  <2>3. i # j
    BY <2>1, <2>2
  <2>4. i \in (Running \cap asProbe)'
    BY <2>2, <2>3 DEF Running, Finish, IInv, TypeOK
  <2>5. QED
    BY <2>2, <2>4
<1>5. QED
  BY <1>2, <1>3, <1>4 DEF IInv, NoLeakedProbe

(* An interrupt ends every job and releases every probe. *)
LEMMA InterruptInv ==
  ASSUME IInv, Interrupt
  PROVE  IInv'
<1>1. BreakerTypeOK' /\ OpenOnlyAfterThreshold'
  <2>1. CASE Models = {}
    BY <2>1 DEF Interrupt, ReleaseProbes, IInv, TypeOK, BreakerTypeOK, OpenOnlyAfterThreshold
  <2>2. CASE Models # {}
    BY <2>2, BreakerStep DEF Interrupt, IInv, TypeOK
  <2>3. QED
    BY <2>1, <2>2
<1>2. TypeOK'
  BY <1>1, BatchAssumption DEF Interrupt, IInv, TypeOK, Statuses, Results
<1>3. probe' = {}
  <2>1. \A m \in probe : \E j \in InBatch : ModelOf[j] = m
    BY DEF IInv, NoLeakedProbe, Running, InBatch
  <2>2. QED
    BY <2>1 DEF Interrupt, ReleaseProbes
<1>4. QED
  BY <1>1, <1>2, <1>3 DEF IInv, NoLeakedProbe

(* The clock touches neither the probes nor the jobs that run as one. *)
LEMMA TickInv ==
  ASSUME IInv, Tick
  PROVE  IInv'
<1>1. BreakerTypeOK' /\ OpenOnlyAfterThreshold'
  BY BreakerAssumption
  DEF Tick, Elapse, IInv, TypeOK, BreakerTypeOK, OpenOnlyAfterThreshold
<1>2. TypeOK'
  BY <1>1, BatchAssumption DEF Tick, Running, IInv, TypeOK
<1>3. QED
  BY <1>1, <1>2 DEF Tick, Elapse, Running, IInv, NoLeakedProbe

-----------------------------------------------------------------------------

(* The invariant holds initially. *)
LEMMA InitInv == Init => IInv
BY BreakerAssumption, BatchAssumption
DEF Init, BreakerInit, IInv, TypeOK, BreakerTypeOK, OpenOnlyAfterThreshold,
    NoLeakedProbe, Statuses, Results

(* The invariant is inductive. *)
LEMMA NextInv == IInv /\ [Next]_vars => IInv'
<1> SUFFICES ASSUME IInv, [Next]_vars PROVE IInv'
  OBVIOUS
<1>1. CASE UNCHANGED vars
  BY <1>1 DEF vars, IInv, TypeOK, BreakerTypeOK, OpenOnlyAfterThreshold,
     NoLeakedProbe, Running
<1>2. CASE Next
  BY <1>2, StartBatchInv, EnterInv, FinishInv, InterruptInv, TickInv DEF Next
<1>3. QED
  BY <1>1, <1>2

(* run_batch and the breaker keep their types: the failure count never     *)
(* passes the threshold, no deadline outlives its cooldown.                *)
THEOREM TypeCorrect == Spec => []TypeOK
<1>1. IInv => TypeOK
  BY DEF IInv
<1>2. QED
  BY InitInv, NextInv, <1>1, PTL DEF Spec

(* A circuit is open, or has a probe in flight, only after the threshold   *)
(* of failures with no success since, across batches, interrupts and       *)
(* delegations that outlive the circuit's opening.                         *)
THEOREM OpensAfterThreshold == Spec => []OpenOnlyAfterThreshold
<1>1. IInv => OpenOnlyAfterThreshold
  BY DEF IInv
<1>2. QED
  BY InitInv, NextInv, <1>1, PTL DEF Spec

(* release_probe and _execute_delegation's finally: no reservation         *)
(* outlives the delegation it was made for, whatever ends it.              *)
THEOREM NeverLeaksProbe == Spec => []NoLeakedProbe
<1>1. IInv => NoLeakedProbe
  BY DEF IInv
<1>2. QED
  BY InitInv, NextInv, <1>1, PTL DEF Spec
===============================================================================
