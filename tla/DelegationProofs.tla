-------------------------- MODULE DelegationProofs --------------------------
(***************************************************************************)
(* Theorems about Delegation, for any processes, cap and stranded slots,   *)
(* and for any failures, interrupts and kills.                             *)
(***************************************************************************)
EXTENDS Delegation, FiniteSetTheorems, TLAPS

USE DelegationAssumption

Streamed == {"token", "open", "stream", "footer", "block", "give_back"}

(* Where no exception is in flight, or nothing has been shown yet. *)
Quiet == {"start", "prepare", "sweep", "remove", "probe", "token", "open",
          "stream", "block", "dispatch", "artifacts", "present", "flush"}
Silent == {"start", "prepare", "sweep", "remove", "probe", "token", "open",
           "block", "dispatch", "present"}
Early == {"start", "prepare", "sweep", "remove", "probe"}
Late == {"release", "leave"}

(* The sweep only ever looks beyond the pool. *)
AtOK(p) ==
  /\ pc[p] \in {"sweep", "remove"} => at[p] \notin Pool
  /\ pc[p] = "remove" => at[p] \in Slots

(* Who knows its slot's index has the slot, until it gives it back. *)
SlotOK(p) ==
  /\ pc[p] \in Early => index[p] = None
  /\ pc[p] \in {"token", "open", "stream", "dispatch"} => index[p] # None
  /\ index[p] # None /\ pc[p] \notin {"leave", "exit"} => slot[index[p]] = p

(* Who streams to stdout has the token, until it gives it back. *)
TokenOK(p) ==
  /\ pc[p] \in Early \cup {"token", "block"} => ~live[p]
  /\ pc[p] = "open" => live[p]
  /\ pc[p] \in {"open", "stream", "footer", "give_back"} /\ live[p] => token = p

(* What is in flight, and what has been told of it so far. *)
FlightOK(p) ==
  /\ pc[p] \in Streamed => p \in Streaming
  /\ pc[p] \in {"dispatch", "present"} => p \notin Streaming
  /\ pc[p] \in Quiet => raised[p] = "none"
  /\ pc[p] = "handle" => raised[p] # "none"

ShownOK(p) ==
  /\ pc[p] \in Silent => shown[p] = 0
  /\ pc[p] = "stream" => shown[p] = IF live[p] THEN 1 ELSE 0
  /\ pc[p] = "artifacts" => shown[p] = IF p \in Streaming THEN 1 ELSE 0
  /\ pc[p] \in {"footer", "give_back", "flush"} \cup Late /\ raised[p] = "none"
       => shown[p] = 1
  /\ p \notin Streaming /\ raised[p] \in Failures => shown[p] = 0

RowOK(p) ==
  p \in Displayed =>
    /\ pc[p] \in {"present", "flush"} => row[p] = "success"
    /\ pc[p] \in Late /\ raised[p] = "none" => row[p] = "success"
    /\ pc[p] \in Late /\ raised[p] \in Errors => row[p] = raised[p]
    /\ p \notin Streaming /\ shown[p] = 1 /\ raised[p] \notin Failures => row[p] = "success"

DirOK(p) == pc[p] \notin {"start", "exit"} => dir[p] = "locked"

Stage(p) ==
  AtOK(p) /\ SlotOK(p) /\ TokenOK(p) /\ FlightOK(p) /\ ShownOK(p) /\ RowOK(p) /\ DirOK(p)

IInv ==
  /\ TypeOK
  /\ \A p \in Processes : Stage(p)
  /\ OutcomeAgrees

-----------------------------------------------------------------------------
(* The slots are numbered, the pool first. *)
LEMMA Numbers ==
  /\ Pool \subseteq Slots /\ None \notin Slots /\ MaxParallel \notin Pool
  /\ MaxParallel \in Slots \cup {None} /\ 0 \in Pool /\ 0 \in Slots
  /\ \A i \in Slots : i + 1 \in Slots \cup {None}
  /\ \A i \in Slots \ Pool : i + 1 \notin Pool
  /\ \A i \in Slots \cup {None} : Probes(i) <=> i \in Pool
  /\ \A i \in Slots \cup {None} : i \in Slots <=> i # None
BY DEF Pool, Slots, None, Probes

(* Where an exception leads, and from where. *)
LEMMA Destinations ==
  ASSUME NEW p \in Processes, pc[p] \in Labels
  PROVE  \/ Unwound(p) = "footer" /\ pc[p] = "stream" /\ live[p]
         \/ Unwound(p) = "give_back" /\ pc[p] \in Streamed \ {"token", "give_back"}
              /\ p \in Streaming /\ ~(pc[p] = "stream" /\ live[p])
         \/ Unwound(p) = "handle" /\ pc[p] \in InTry
              /\ ~(pc[p] \in {"open", "stream", "footer", "block"} /\ p \in Streaming)
         \/ Unwound(p) = "release" /\ pc[p] = "handle"
         \/ Unwound(p) = "leave" /\ pc[p] = "release"
         \/ Unwound(p) = "exit" /\ pc[p] \in {"start", "leave", "exit"}
<1>1. CASE pc[p] = "stream" /\ live[p]
  BY <1>1 DEF Unwound
<1>2. CASE /\ pc[p] \in {"open", "stream", "footer", "block"} /\ p \in Streaming
           /\ ~(pc[p] = "stream" /\ live[p])
  BY <1>2 DEF Unwound, Streamed
<1>3. CASE /\ pc[p] \in InTry /\ ~(pc[p] = "stream" /\ live[p])
           /\ ~(pc[p] \in {"open", "stream", "footer", "block"} /\ p \in Streaming)
  BY <1>3 DEF Unwound
<1>4. CASE pc[p] \in {"start", "handle", "release", "leave", "exit"}
  BY <1>4 DEF Unwound, InTry
<1>5. QED
  BY <1>1, <1>2, <1>3, <1>4 DEF Labels, InTry

-----------------------------------------------------------------------------
(* A step of one process leaves the stage of the others alone.             *)
LEMMA OthersStay ==
  ASSUME TypeOK, NEW p \in Processes, NEW q \in Processes \ {p}, Step(p)
  PROVE  /\ pc'[q] = pc[q] /\ at'[q] = at[q] /\ index'[q] = index[q]
         /\ live'[q] = live[q] /\ raised'[q] = raised[q] /\ row'[q] = row[q]
         /\ dir'[q] = dir[q] /\ shown'[q] = shown[q]
<1>1. CASE Start(p)
  BY <1>1 DEF Start, TypeOK, Goto, Unwind, local, seen
<1>2. CASE Prepare(p)
  BY <1>2 DEF Prepare, Rowed, TypeOK, Goto, Unwind, local, seen
<1>3. CASE Sweep(p)
  BY <1>3 DEF Sweep, TypeOK, Goto, Unwind, local, seen
<1>4. CASE RemoveOrphan(p)
  BY <1>4 DEF RemoveOrphan, TypeOK, Goto, Unwind, local, seen
<1>5. CASE AcquireSlot(p)
  BY <1>5 DEF AcquireSlot, TypeOK, Goto, Unwind, local, seen
<1>6. CASE NextSlot(p)
  BY <1>6 DEF NextSlot, TypeOK, Goto, Unwind, local, seen
<1>7. CASE AcquireToken(p)
  BY <1>7 DEF AcquireToken, TypeOK, Goto, Unwind, local, seen
<1>8. CASE MissToken(p)
  BY <1>8 DEF MissToken, TypeOK, Goto, Unwind, local, seen
<1>9. CASE OpenFrame(p)
  BY <1>9 DEF OpenFrame, TypeOK, Goto, Unwind, local, seen
<1>10. CASE Return(p)
  BY <1>10 DEF Return, TypeOK, Goto, Unwind, local, seen
<1>11. CASE CloseFrame(p)
  BY <1>11 DEF CloseFrame, TypeOK, Goto, Unwind, local, seen
<1>12. CASE ShowBlock(p)
  BY <1>12 DEF ShowBlock, TypeOK, Goto, Unwind, local, seen
<1>13. CASE ReleaseToken(p)
  BY <1>13 DEF ReleaseToken, TypeOK, Goto, Unwind, local, seen
<1>14. CASE WriteArtifacts(p)
  BY <1>14 DEF WriteArtifacts, Rowed, TypeOK, Goto, Unwind, local, seen
<1>15. CASE Present(p)
  BY <1>15 DEF Present, TypeOK, Goto, Unwind, local, seen
<1>16. CASE Flush(p)
  BY <1>16 DEF Flush, TypeOK, Goto, Unwind, local, seen
<1>17. CASE Handle(p)
  BY <1>17 DEF Handle, Rowed, TypeOK, Goto, Unwind, local, seen
<1>18. CASE Release(p)
  BY <1>18 DEF Release, Stopped, TypeOK, Goto, Unwind, local, seen
<1>19. CASE Leave(p)
  BY <1>19 DEF Leave, TypeOK, Goto, Unwind, local, seen
<1>20. CASE Raise(p)
  BY <1>20 DEF Raise, TypeOK, Goto, Unwind, local, seen
<1>21. CASE Interrupt(p)
  BY <1>21 DEF Interrupt, TypeOK, Goto, Unwind, local, seen
<1>22. CASE Exit(p)
  BY <1>22 DEF Exit, TypeOK, Goto, Unwind, local, seen
<1>23. QED
  BY <1>1, <1>2, <1>3, <1>4, <1>5, <1>6, <1>7, <1>8, <1>9, <1>10, <1>11, <1>12, <1>13,
     <1>14, <1>15, <1>16, <1>17, <1>18, <1>19, <1>20, <1>21, <1>22 DEF Step

(* A step of one process keeps what another has: a slot and the token are  *)
(* only taken when free, and only given back by who has them.              *)
LEMMA OthersKeep ==
  ASSUME IInv, NEW p \in Processes, NEW q \in Processes \ {p}, Step(p)
  PROVE  /\ index[q] # None /\ slot[index[q]] = q => slot'[index[q]] = q
         /\ token = q => token' = q
<1>1. CASE Sweep(p) \/ NextSlot(p) \/ Start(p) \/ Prepare(p) \/ MissToken(p) \/ OpenFrame(p)
        \/ Return(p) \/ CloseFrame(p) \/ ShowBlock(p) \/ WriteArtifacts(p)
        \/ Present(p) \/ Flush(p) \/ Handle(p) \/ Leave(p) \/ Raise(p) \/ Interrupt(p)
  BY <1>1 DEF Sweep, NextSlot, Start, Prepare, MissToken, OpenFrame, Return, CloseFrame,
     ShowBlock, WriteArtifacts, Present, Flush, Handle, Leave, Raise, Interrupt, locks
<1>2. /\ index[q] # None => index[q] \in Pool /\ index[q] \in Slots
      /\ slot \in [Slots -> Processes \cup {Nobody, Gone}]
      /\ index[p] # None => index[p] \in Slots
  BY Numbers DEF IInv, TypeOK
<1>3. CASE RemoveOrphan(p)
  <2>1. at[p] \in Slots \ Pool
    BY <1>3 DEF RemoveOrphan, IInv, Stage, AtOK
  <2>2. QED
    BY <1>2, <1>3, <2>1 DEF RemoveOrphan
<1>4. CASE AcquireSlot(p)
  BY <1>2, <1>4 DEF AcquireSlot, Free
<1>5. CASE AcquireToken(p)
  BY <1>5 DEF AcquireToken, Free
<1>6. CASE ReleaseToken(p)
  BY <1>6 DEF ReleaseToken, GivesBack, IInv, Stage, TokenOK
<1>7. CASE Release(p)
  <2>1. Holds(p) => slot[index[p]] = p
    BY <1>7 DEF Release, Holds, IInv, Stage, SlotOK
  <2>2. QED
    BY <1>2, <1>7, <2>1 DEF Release, Holds
<1>8. CASE Exit(p)
  BY <1>2, <1>8 DEF Exit
<1>9. QED
  BY <1>1, <1>3, <1>4, <1>5, <1>6, <1>7, <1>8 DEF Step

(* So the others stay in a stage they may be in. *)
LEMMA OthersStage ==
  ASSUME IInv, NEW p \in Processes, NEW q \in Processes \ {p}, Step(p)
  PROVE  Stage(q)'
<1> DEFINE Same == /\ pc'[q] = pc[q] /\ at'[q] = at[q] /\ index'[q] = index[q]
                   /\ live'[q] = live[q] /\ raised'[q] = raised[q] /\ row'[q] = row[q]
                   /\ dir'[q] = dir[q] /\ shown'[q] = shown[q]
<1>1. Same /\ Stage(q)
  BY OthersStay DEF IInv
<1>2. AtOK(q)' /\ FlightOK(q)' /\ ShownOK(q)' /\ RowOK(q)' /\ DirOK(q)'
  BY <1>1 DEF Stage, AtOK, FlightOK, ShownOK, RowOK, DirOK
<1>3. SlotOK(q)'
  BY <1>1, OthersKeep DEF Stage, SlotOK
<1>4. TokenOK(q)'
  BY <1>1, OthersKeep DEF Stage, TokenOK
<1>5. QED
  BY <1>2, <1>3, <1>4 DEF Stage

-----------------------------------------------------------------------------
(* An exception takes a process to a stage it may be in. *)
LEMMA UnwindStage ==
  ASSUME IInv, NEW p \in Processes, NEW r \in Errors \cup {"interrupt"}, Unwind(p, r),
         pc[p] \notin {"start", "exit"}, pc[p] \in InTry \ {"flush"} \/ r = "interrupt",
         row' = row, shown' = shown, live' = live, index' = index,
         slot' = slot \/ index[p] = None, token' = token \/ ~live[p],
         dir' = dir \/ pc[p] = "leave"
  PROVE  Stage(p)'
<1>1. /\ pc'[p] = Unwound(p) /\ raised'[p] = r /\ r # "none"
      /\ Stage(p) /\ pc[p] \in Labels
  BY DEF Unwind, Goto, IInv, TypeOK, Failures, Errors
<1>2. /\ pc'[p] \in {"footer", "give_back", "handle", "release", "leave", "exit"}
      /\ pc'[p] \in {"footer", "give_back"} =>
           pc[p] \in Streamed \ {"token", "give_back"} /\ p \in Streaming
      /\ pc'[p] = "handle" => pc[p] \in InTry
      /\ pc'[p] \in Late => r = "interrupt"
      /\ pc'[p] \notin {"leave", "exit"} => pc[p] \notin {"leave", "exit"}
      /\ pc'[p] # "exit" => pc[p] # "leave"
  BY <1>1, Destinations DEF Streamed, InTry, Labels, Late, FlightOK, Stage
<1>3. AtOK(p)' /\ FlightOK(p)'
  BY <1>1, <1>2 DEF AtOK, FlightOK, Streamed, Quiet
<1>a. p \notin Streaming /\ r \in Errors => shown[p] = 0
  BY <1>1 DEF Stage, FlightOK, ShownOK, Streamed, Silent, InTry, Failures, Errors
<1>b. ShownOK(p)'
  <2>1. shown'[p] = shown[p] /\ (r \in Failures => r \in Errors)
    BY DEF Failures, Errors
  <2>2. QED
    BY <1>1, <1>2, <1>a, <2>1 DEF ShownOK, Silent, Late
<1>4. RowOK(p)' /\ DirOK(p)'
  BY <1>1, <1>2 DEF RowOK, ShownOK, DirOK, Stage, Late, Failures, Errors
<1>5. SlotOK(p)'
  BY <1>1, <1>2 DEF SlotOK, Stage, Early
<1>6. TokenOK(p)'
  BY <1>1, <1>2 DEF TokenOK, Stage, Early, Streamed
<1>7. QED
  BY <1>3, <1>b, <1>4, <1>5, <1>6 DEF Stage

(* Its own step takes a process to a stage it may be in. *)
LEMMA OwnStage ==
  ASSUME IInv, NEW p \in Processes, Step(p)
  PROVE  Stage(p)'
<1> USE DEF Stage, AtOK, SlotOK, TokenOK, FlightOK, ShownOK, RowOK, DirOK
<1>1. Stage(p) /\ TypeOK
  BY DEF IInv
<1>2. CASE Start(p)
  BY <1>1, <1>2, Numbers DEF Start, Goto, TypeOK, Streamed, Quiet, Silent, Early, Late,
     InTry, local, seen, locks
<1>3. CASE Prepare(p)
  BY <1>1, <1>3, Numbers DEF Prepare, Rowed, FirstOrphan, Goto, TypeOK, Streamed, Quiet,
     Silent, Early, Late, InTry, local, seen, locks
<1>4. CASE Sweep(p)
  <2>1. CASE pc'[p] = "remove"
    BY <1>1, <1>4, <2>1 DEF Sweep, Goto, TypeOK, Streamed, Quiet, Silent, Early, Late,
       InTry, local, seen, locks
  <2>2. CASE pc'[p] = "sweep"
    <3>1. /\ at'[p] = at[p] + 1 /\ at[p] \in Slots /\ at[p] \notin Pool
          /\ pc' = pc
      BY <1>1, <1>4, <2>2 DEF Sweep, Goto, TypeOK
    <3>2. at'[p] \notin Pool
      BY <3>1, Numbers
    <3>3. QED
      BY <1>1, <1>4, <2>2, <3>1, <3>2 DEF Sweep, Goto, TypeOK, Streamed, Quiet, Silent,
         Early, Late, InTry, local, seen, locks
  <2>3. CASE pc'[p] = "probe"
    BY <1>1, <1>4, <2>3 DEF Sweep, Goto, TypeOK, Streamed, Quiet, Silent, Early, Late,
       InTry, local, seen, locks
  <2>4. QED
    BY <1>1, <1>4, <2>1, <2>2, <2>3 DEF Sweep, Goto, TypeOK
<1>5. CASE RemoveOrphan(p)
  BY <1>1, <1>5, Numbers DEF RemoveOrphan, Goto, TypeOK, Streamed, Quiet, Silent, Early,
     Late, InTry, local, seen, locks
<1>6. CASE MissToken(p)
  BY <1>1, <1>6, Numbers DEF MissToken, Goto, TypeOK, Streamed, Quiet, Silent, Early,
     Late, InTry, local, seen, locks
<1>7. CASE OpenFrame(p)
  BY <1>1, <1>7, Numbers DEF OpenFrame, Goto, TypeOK, Streamed, Quiet, Silent, Early,
     Late, InTry, local, seen, locks
<1>8. CASE Return(p)
  BY <1>1, <1>8, Numbers DEF Return, Goto, TypeOK, Streamed, Quiet, Silent, Early, Late,
     InTry, local, seen, locks
<1>9. CASE CloseFrame(p)
  BY <1>1, <1>9, Numbers DEF CloseFrame, Goto, TypeOK, Streamed, Quiet, Silent, Early,
     Late, InTry, local, seen, locks
<1>10. CASE ShowBlock(p)
  BY <1>1, <1>10, Numbers DEF ShowBlock, Goto, TypeOK, Streamed, Quiet, Silent, Early,
     Late, InTry, local, seen, locks
<1>11. CASE ReleaseToken(p)
  BY <1>1, <1>11, Numbers DEF ReleaseToken, GivesBack, Goto, TypeOK, Streamed, Quiet,
     Silent, Early, Late, InTry, local, seen, locks
<1>12. CASE WriteArtifacts(p)
  BY <1>1, <1>12, Numbers DEF WriteArtifacts, Rowed, Goto, TypeOK, Streamed, Quiet,
     Silent, Early, Late, InTry, local, seen, locks
<1>13. CASE Present(p)
  BY <1>1, <1>13 DEF Present, Goto, TypeOK, Streamed, Quiet, Silent, Early, Late,
     InTry, local, locks, Failures, Errors
<1>14. CASE Flush(p)
  <2>1. /\ pc[p] = "flush" /\ raised[p] = "none" /\ shown[p] = 1
        /\ dir[p] = "locked" /\ p \in Displayed => row[p] = "success"
    BY <1>1, <1>14 DEF Flush, Quiet, Late
  <2>2. pc'[p] = "release"
    BY <1>1, <1>14 DEF Flush, Goto, TypeOK
  <2>3. QED
    BY <1>1, <1>14, <2>1, <2>2 DEF Flush, Streamed, Quiet, Silent, Early, Late, Failures,
       Errors, local, locks
<1>15. CASE Handle(p)
  BY <1>1, <1>15, Numbers DEF Handle, Rowed, Failures, Errors, Goto, TypeOK, Streamed,
     Quiet, Silent, Early, Late, InTry, local, seen, locks
<1>16. CASE Release(p)
  BY <1>1, <1>16, Numbers DEF Release, Stopped, Failures, Errors, Holds, Goto, TypeOK,
     Streamed, Quiet, Silent, Early, Late, InTry, local, seen, locks
<1>17. CASE Leave(p)
  BY <1>1, <1>17, Numbers DEF Leave, Goto, TypeOK, Streamed, Quiet, Silent, Early, Late,
     InTry, local, seen, locks
<1>18. CASE Exit(p)
  BY <1>1, <1>18, Numbers DEF Exit, Goto, TypeOK, Streamed, Quiet, Silent, Early, Late,
     InTry
<1>19. CASE AcquireSlot(p)
  <2>1. /\ pc[p] = "probe" /\ index[p] = None /\ ~live[p] /\ at[p] \in Pool /\ at[p] \in Slots
        /\ at[p] # None
    BY <1>1, <1>19, Numbers DEF AcquireSlot, Early, TypeOK
  <2>2. CASE index'[p] = at[p] /\ Goto(p, IF p \in Streaming THEN "token" ELSE "dispatch")
              /\ UNCHANGED <<raised, interrupts>>
    <3>1. slot'[index'[p]] = p
      BY <1>1, <1>19, <2>1, <2>2 DEF AcquireSlot, TypeOK
    <3>2. /\ pc'[p] = IF p \in Streaming THEN "token" ELSE "dispatch"
          /\ raised[p] = "none" /\ shown[p] = 0 /\ dir[p] = "locked"
      BY <1>1, <2>1, <2>2 DEF Goto, TypeOK, Quiet, Silent
    <3>3. QED
      BY <1>1, <1>19, <2>1, <2>2, <3>1, <3>2 DEF AcquireSlot, Streamed, Quiet, Silent,
         Early, Late, seen
  <2>3. CASE Unwind(p, "interrupt") /\ UNCHANGED index
    BY <1>1, <1>19, <2>1, <2>3, UnwindStage DEF AcquireSlot, seen
  <2>4. QED
    BY <1>1, <1>19, <2>1, <2>2, <2>3 DEF AcquireSlot, TypeOK
<1>20. CASE NextSlot(p)
  BY <1>1, <1>20, UnwindStage, Numbers DEF NextSlot, Goto, TypeOK, Streamed, Quiet,
     Silent, Early, Late, InTry, local, seen, locks, Failures, Errors
<1>21. CASE AcquireToken(p)
  BY <1>1, <1>21, UnwindStage, Numbers DEF AcquireToken, Goto, TypeOK, Streamed, Quiet,
     Silent, Early, Late, InTry, local, seen, locks, Failures, Errors
<1>22. CASE Raise(p)
  BY <1>1, <1>22, UnwindStage, Numbers DEF Raise, Goto, TypeOK, Streamed, Quiet, Silent,
     Early, Late, InTry, local, seen, locks, Failures, Errors
<1>23. CASE Interrupt(p)
  BY <1>1, <1>23, UnwindStage, Numbers DEF Interrupt, Goto, TypeOK, Streamed, Quiet,
     Silent, Early, Late, InTry, local, seen, locks, Failures, Errors
<1>24. QED
  BY <1>2, <1>3, <1>4, <1>5, <1>19, <1>20, <1>21, <1>6, <1>7, <1>8, <1>9, <1>10, <1>11,
     <1>12, <1>13, <1>14, <1>15, <1>16, <1>17, <1>22, <1>23, <1>18 DEF Step

-----------------------------------------------------------------------------
LEMMA InitInv == Init => IInv
<1> SUFFICES ASSUME Init PROVE IInv
  OBVIOUS
<1>1. TypeOK
  BY Numbers DEF Init, TypeOK, Labels, InTry, Failures, Errors
<1>2. ASSUME NEW p \in Processes PROVE Stage(p)
  BY <1>2 DEF Init, Stage, AtOK, SlotOK, TokenOK, FlightOK, ShownOK, RowOK, DirOK,
     Streamed, Quiet, Silent, Early, Late
<1>3. OutcomeAgrees
  BY DEF Init, OutcomeAgrees
<1>4. QED
  BY <1>1, <1>2, <1>3 DEF IInv

(* A warning, an exception and with them every step keep the types.        *)
LEMMA WarnTyped ==
  ASSUME TypeOK, NEW p \in Processes, MayWarn(p)
  PROVE  buffered' \in [Processes -> BOOLEAN]
<1>1. CASE buffered' = buffered
  BY <1>1 DEF TypeOK
<1>2. CASE buffered' = [buffered EXCEPT ![p] = p \in Displayed]
  <2>1. (p \in Displayed) \in BOOLEAN
    OBVIOUS
  <2>2. QED
    BY <1>2, <2>1, Zenon DEF TypeOK
<1>3. QED
  BY <1>1, <1>2 DEF MayWarn

LEMMA UnwindTyped ==
  ASSUME TypeOK, NEW p \in Processes, NEW r \in Errors \cup {"interrupt"}, Unwind(p, r)
  PROVE  /\ pc' \in [Processes -> Labels]
         /\ raised' \in [Processes -> Failures \cup {"none", "interrupt"}]
<1>1. pc[p] \in Labels
  BY DEF TypeOK
<1>2. Unwound(p) \in Labels
  BY <1>1, Destinations DEF Labels, InTry
<1>3. QED
  BY <1>2 DEF Unwind, Goto, TypeOK, Failures

LEMMA StepTyped ==
  ASSUME IInv, NEW p \in Processes, Step(p)
  PROVE  TypeOK'
<1> USE DEF TypeOK
<1>1. TypeOK /\ Stage(p) /\ (Unwound(p) \in Labels)
  BY Destinations DEF IInv, Labels, InTry
<1>2. CASE Start(p)
  BY <1>1, <1>2, Numbers DEF Start, Goto, Labels, InTry, locks, local, seen
<1>3. CASE Prepare(p)
  <2>1. buffered' \in [Processes -> BOOLEAN]
    BY <1>1, <1>3, WarnTyped DEF Prepare
  <2>2. QED
    BY <1>1, <1>3, <2>1, Numbers DEF Prepare, Goto, Labels, InTry, locks, local, Rowed,
       FirstOrphan
<1>4. CASE Sweep(p)
  <2>1. at' \in [Processes -> Slots \cup {None}]
    <3>1. at[p] \in Slots => at[p] + 1 \in Slots \cup {None}
      BY Numbers
    <3>2. 0 \in Slots
      BY Numbers
    <3>3. QED
      BY <1>1, <1>4, <3>1, <3>2 DEF Sweep
  <2>2. QED
    BY <1>1, <1>4, <2>1 DEF Sweep, Goto, Labels, InTry, locks, seen
<1>5. CASE RemoveOrphan(p)
  BY <1>1, <1>5, Numbers DEF RemoveOrphan, Goto, Labels, InTry, locks, local, seen,
     Stage, AtOK
<1>6. CASE AcquireSlot(p)
  <2>1. at[p] \in Pool /\ at[p] \in Slots
    BY <1>1, <1>6, Numbers DEF AcquireSlot
  <2>2. CASE MayInterrupt(p) /\ Unwind(p, "interrupt") /\ UNCHANGED index
    BY <1>1, <1>6, <2>1, <2>2, UnwindTyped, Numbers DEF AcquireSlot, MayInterrupt, seen
  <2>3. CASE /\ Goto(p, IF p \in Streaming THEN "token" ELSE "dispatch")
             /\ UNCHANGED <<raised, interrupts>>
    BY <1>1, <1>6, <2>1, <2>3, Numbers DEF AcquireSlot, Goto, Labels, InTry, seen
  <2>4. QED
    BY <1>6, <2>2, <2>3 DEF AcquireSlot
<1>7. CASE NextSlot(p)
  <2>1. Probes(at[p]) => at[p] + 1 \in Slots \cup {None}
    BY <1>1, Numbers
  <2>2. at' \in [Processes -> Slots \cup {None}]
    BY <1>1, <1>7, <2>1, Numbers DEF NextSlot
  <2>3. CASE Unwind(p, "failed")
    BY <1>1, <1>7, <2>2, <2>3, UnwindTyped DEF NextSlot, locks, seen, Failures, Errors
  <2>4. CASE UNCHANGED <<pc, raised>>
    BY <1>1, <1>7, <2>2, <2>4 DEF NextSlot, locks, seen
  <2>5. QED
    BY <1>7, <2>3, <2>4 DEF NextSlot
<1>8. CASE AcquireToken(p)
  <2>1. CASE MayInterrupt(p) /\ Unwind(p, "interrupt") /\ UNCHANGED live
    BY <1>1, <1>8, <2>1, UnwindTyped DEF AcquireToken, MayInterrupt, seen
  <2>2. CASE Goto(p, "open") /\ UNCHANGED <<raised, interrupts>>
    BY <1>1, <1>8, <2>2 DEF AcquireToken, Goto, Labels, InTry, seen
  <2>3. QED
    BY <1>8, <2>1, <2>2 DEF AcquireToken
<1>9. CASE MissToken(p)
  BY <1>1, <1>9, Numbers DEF MissToken, Goto, Labels, InTry, locks, local, seen
<1>10. CASE OpenFrame(p)
  BY <1>1, <1>10, Numbers DEF OpenFrame, Goto, Labels, InTry, locks, local, seen, Stage,
     ShownOK, Silent
<1>11. CASE Return(p)
  <2>1. buffered' \in [Processes -> BOOLEAN]
    BY <1>1, <1>11, WarnTyped DEF Return
  <2>2. QED
    BY <1>1, <1>11, <2>1, Numbers DEF Return, Goto, Labels, InTry, locks, local
<1>12. CASE CloseFrame(p)
  BY <1>1, <1>12, Numbers DEF CloseFrame, Goto, Labels, InTry, locks, local, seen
<1>13. CASE ShowBlock(p)
  BY <1>1, <1>13, Numbers DEF ShowBlock, Goto, Labels, InTry, locks, local, seen, Stage,
     ShownOK, Silent
<1>14. CASE ReleaseToken(p)
  BY <1>1, <1>14, Numbers DEF ReleaseToken, Goto, Labels, InTry, locks, local, seen,
     GivesBack
<1>15. CASE WriteArtifacts(p)
  <2>1. MayWarn(p) \/ buffered' = [buffered EXCEPT ![p] = FALSE]
    BY <1>15 DEF WriteArtifacts, MayWarn
  <2>2. buffered' \in [Processes -> BOOLEAN]
    BY <1>1, <2>1, WarnTyped
  <2>3. QED
    BY <1>1, <1>15, <2>2 DEF WriteArtifacts, Rowed, Goto, Labels, InTry, locks, local
<1>16. CASE Present(p)
  BY <1>1, <1>16, Numbers DEF Present, Goto, Labels, InTry, locks, local, seen, Stage,
     ShownOK, Silent
<1>17. CASE Flush(p)
  BY <1>1, <1>17, Numbers DEF Flush, Goto, Labels, InTry, locks, local, seen
<1>18. CASE Handle(p)
  BY <1>1, <1>18, Numbers DEF Handle, Goto, Labels, InTry, locks, local, seen, Rowed,
     Failures, Errors
<1>19. CASE Release(p)
  BY <1>1, <1>19, Numbers DEF Release, Goto, Labels, InTry, locks, local, seen, Stopped,
     Holds, Failures, Errors
<1>20. CASE Leave(p)
  BY <1>1, <1>20, Numbers DEF Leave, Goto, Labels, InTry, locks, local, seen
<1>21. CASE Raise(p)
  <2>1. buffered' \in [Processes -> BOOLEAN]
    BY <1>1, <1>21, WarnTyped DEF Raise
  <2>2. \E r \in Errors : Unwind(p, r)
    BY <1>21 DEF Raise, Failures, Errors
  <2>3. /\ pc' \in [Processes -> Labels]
        /\ raised' \in [Processes -> Failures \cup {"none", "interrupt"}]
    BY <1>1, <2>2, UnwindTyped
  <2>4. QED
    BY <1>1, <1>21, <2>1, <2>3 DEF Raise, locks, local
<1>22. CASE Interrupt(p)
  BY <1>1, <1>22, Numbers DEF Interrupt, Goto, Unwind, Labels, InTry, locks, local,
     seen, MayInterrupt
<1>23. CASE Exit(p)
  BY <1>1, <1>23, Numbers DEF Exit, Goto, Labels, InTry, locks, local, seen
<1>24. QED
  BY <1>2, <1>3, <1>4, <1>5, <1>6, <1>7, <1>8, <1>9, <1>10, <1>11, <1>12, <1>13, <1>14,
     <1>15, <1>16, <1>17, <1>18, <1>19, <1>20, <1>21, <1>22, <1>23 DEF Step

(* A process exits from the end of its directory, or killed. *)
LEMMA StepAgrees ==
  ASSUME IInv, NEW p \in Processes, Step(p)
  PROVE  OutcomeAgrees'
<1>1. TypeOK /\ Stage(p) /\ pc[p] \in Labels
  BY DEF IInv, TypeOK
<1>2. ASSUME NEW q \in Processes \ {p} PROVE (pc[q] = "exit" => Told(q))'
  <2>1. pc[q] = "exit" => Told(q)
    BY DEF IInv, OutcomeAgrees
  <2>2. QED
    BY <2>1, OthersStay DEF IInv, Told
<1>3. (pc[p] = "exit" => Told(p))'
  <2>1. CASE Leave(p)
    <3>1. /\ shown'[p] = shown[p] /\ row'[p] = row[p] /\ raised'[p] = raised[p]
          /\ pc[p] = "leave"
      BY <2>1 DEF Leave, seen
    <3>2. /\ raised[p] = "none" => dir'[p] \in {"unlocked", "left"}
          /\ raised[p] = "interrupt" => dir'[p] \in {"removed", "left"}
          /\ raised[p] \in Failures => dir'[p] = "locked"
      BY <1>1, <2>1 DEF Leave, TypeOK, Failures, Errors
    <3>3. QED
      BY <1>1, <3>1, <3>2 DEF Told, Stage, ShownOK, RowOK, Late, TypeOK, Failures, Errors
  <2>2. CASE Interrupt(p)
    <3>1. CASE pc[p] = "leave"
      <4>1. /\ raised'[p] = "interrupt" /\ dir'[p] = "left"
            /\ shown'[p] = shown[p] /\ row'[p] = row[p]
        BY <1>1, <2>2, <3>1 DEF Interrupt, Unwind, TypeOK, seen
      <4>2. p \notin Streaming /\ p \in Displayed /\ shown[p] = 1 => row[p] = "success"
        BY <1>1, <3>1 DEF Stage, ShownOK, RowOK
      <4>3. QED
        BY <4>1, <4>2 DEF Told, Failures, Errors
    <3>2. CASE pc[p] # "leave"
      BY <1>1, <2>2, <3>2, Destinations DEF Interrupt, Unwind, Goto, TypeOK, InTry
    <3>3. QED
      BY <3>1, <3>2
  <2>3. CASE pc'[p] # "exit"
    BY <2>3
  <2>4. CASE Raise(p) \/ NextSlot(p) \/ AcquireSlot(p) \/ AcquireToken(p)
    <3>1. pc[p] \in InTry
      BY <2>4 DEF Raise, NextSlot, AcquireSlot, AcquireToken, InTry
    <3>2. Unwound(p) # "exit"
      BY <1>1, <3>1, Destinations DEF InTry
    <3>3. pc'[p] # "exit"
      BY <1>1, <2>4, <3>1, <3>2
         DEF Raise, NextSlot, AcquireSlot, AcquireToken, Unwind, Goto, TypeOK, InTry
    <3>4. QED
      BY <3>3
  <2>5. Leave(p) \/ Interrupt(p) \/ Raise(p) \/ NextSlot(p) \/ AcquireSlot(p)
        \/ AcquireToken(p) \/ pc'[p] # "exit"
    BY <1>1 DEF Step, Start, Prepare, Sweep, RemoveOrphan, MissToken, OpenFrame, Return,
       CloseFrame, ShowBlock, ReleaseToken, WriteArtifacts, Present, Flush, Handle,
       Release, Exit, Goto, TypeOK
  <2>6. QED
    BY <2>1, <2>2, <2>3, <2>4, <2>5
<1>4. QED
  BY <1>2, <1>3 DEF OutcomeAgrees

LEMMA NextInv == IInv /\ [Next]_vars => IInv'
<1> SUFFICES ASSUME IInv, [Next]_vars PROVE IInv'
  OBVIOUS
<1>1. ASSUME NEW p \in Processes, Step(p) PROVE IInv'
  <2>1. ASSUME NEW q \in Processes PROVE Stage(q)'
    BY <1>1, OwnStage, OthersStage
  <2>2. QED
    BY <1>1, <2>1, StepTyped, StepAgrees DEF IInv
<1>2. CASE UNCHANGED vars
  <2>1. TypeOK'
    BY <1>2 DEF IInv, TypeOK, vars, locks, local, seen
  <2>2. ASSUME NEW p \in Processes PROVE Stage(p)'
    BY <1>2, <2>2 DEF IInv, Stage, AtOK, SlotOK, TokenOK, FlightOK, ShownOK, RowOK,
       DirOK, vars, locks, local, seen
  <2>3. OutcomeAgrees'
    BY <1>2 DEF IInv, OutcomeAgrees, Told, vars, local, seen
  <2>4. QED
    BY <2>1, <2>2, <2>3 DEF IInv
<1>3. QED
  BY <1>1, <1>2 DEF Next

LEMMA AlwaysInv == Spec => []IInv
BY InitInv, NextInv, PTL DEF Spec

(* At most one process streams to stdout: each of them has the token. *)
LEMMA InvOneTerminal == IInv => OneTerminal
BY DEF IInv, Stage, TokenOK, OneTerminal, Terminal

(* The indices of the delegating processes are distinct slots of the pool. *)
LEMMA InvAtMostCap == IInv => AtMostCap
<1> SUFFICES ASSUME IInv PROVE Cardinality(Delegating) <= MaxParallel
  BY DEF AtMostCap
<1> DEFINE f == [p \in Delegating |-> index[p]]
<1>1. ASSUME NEW p \in Delegating PROVE index[p] \in Pool /\ slot[index[p]] = p
  BY <1>1 DEF IInv, TypeOK, Stage, SlotOK, Delegating
<1>2. f \in Injection(Delegating, Pool)
  BY <1>1 DEF Injection, IsInjective
<1>3. IsFiniteSet(Pool) /\ Cardinality(Pool) = MaxParallel
  BY FS_Interval DEF Pool
<1>4. Cardinality(Delegating) <= Cardinality(Pool)
  BY <1>2, <1>3, FS_Injection
<1>5. QED
  BY <1>3, <1>4

-----------------------------------------------------------------------------
(* The instance's cardinality is the cardinality. *)
LEMMA SameCardinality ==
  ASSUME NEW S PROVE Delegations!Cardinality(S) = Cardinality(S)
BY DEF Delegations!Cardinality, Cardinality

(* A step of one process begins or ends its own delegation and no other,   *)
(* and begins it only if the cap still holds afterwards: there was room.   *)
LEMMA StepRefinesCap ==
  ASSUME IInv, IInv', NEW p \in Processes, Step(p)
  PROVE  [Delegations!CapNext]_Delegating
<1>1. ASSUME NEW q \in Processes \ {p} PROVE q \in Delegating' <=> q \in Delegating
  BY <1>1, OthersStay DEF IInv, Delegating
<1>2. Delegating \subseteq Processes /\ Delegating' \subseteq Processes
  BY DEF Delegating
<1>3. CASE p \in Delegating <=> p \in Delegating'
  BY <1>1, <1>2, <1>3
<1>4. CASE p \in Delegating /\ p \notin Delegating'
  <2>1. Delegating' = Delegating \ {p} /\ {p} \in SUBSET Delegating /\ {p} # {}
    BY <1>1, <1>2, <1>4
  <2>2. QED
    BY <2>1 DEF Delegations!CapNext, Delegations!End
<1>5. CASE p \notin Delegating /\ p \in Delegating'
  <2>1. Delegating' = Delegating \cup {p}
    BY <1>1, <1>2, <1>5
  <2>2. Cardinality(Delegating') <= MaxParallel
    <3>1. AtMostCap'
      BY InvAtMostCap, PTL
    <3>2. QED
      BY <3>1 DEF AtMostCap
  <2>3. IsFiniteSet(Delegating)
    BY <1>2, FS_Subset
  <2>4. /\ Cardinality(Delegating') = Cardinality(Delegating) + 1
        /\ Cardinality(Delegating) \in Nat
    BY <1>5, <2>1, <2>3, FS_AddElement, FS_CardinalityType
  <2>5. Cardinality(Delegating) < MaxParallel
    BY <2>2, <2>4
  <2>6. QED
    BY <1>5, <2>1, <2>5, SameCardinality DEF Delegations!CapNext, Delegations!Begin
<1>6. QED
  BY <1>3, <1>4, <1>5

(* A stuttering step of the delegations is one of the abstraction.         *)
LEMMA NextRefines ==
  IInv /\ IInv' /\ [Next]_vars => [Delegations!CapNext]_Delegating
<1>1. ASSUME UNCHANGED vars PROVE Delegating' = Delegating
  BY <1>1 DEF vars, local, Delegating
<1>2. QED
  BY <1>1, StepRefinesCap DEF Next

LEMMA InitRefines == Init => Delegations!CapInit
BY DEF Init, Delegating, Delegations!CapInit

-----------------------------------------------------------------------------
(* The stages of a delegation, its locks and its exceptions are well       *)
(* typed, and its result is given to stdout at most once.                  *)
THEOREM TypeCorrect == Spec => []TypeOK
BY AlwaysInv, PTL DEF IInv

(* acquire_slot (R21c): whatever fails, is interrupted or killed, never    *)
(* more processes delegate than the cap.                                   *)
THEOREM CapHolds == Spec => []AtMostCap
BY AlwaysInv, InvAtMostCap, PTL

(* _stream_with_stdout_token (R7d): no two processes stream to stdout.     *)
THEOREM TerminalExclusive == Spec => []OneTerminal
BY AlwaysInv, InvOneTerminal, PTL

(* acquire_slot and release_slot (R21c): whatever fails, is interrupted or *)
(* killed, the processes that delegate are a pool of MaxParallel, in which *)
(* each begins and ends by itself.                                         *)
THEOREM DelegationsPooled == Spec => ImplementsCap
BY AlwaysInv, InitRefines, NextRefines, PTL DEF Spec, ImplementsCap, Delegations!CapSpec

(* run_delegation (R27, R20): whichever of its cleanups is cut short, the  *)
(* directory tells an interrupt from a failure, the display shows the      *)
(* failure that leaves the process, unless the display's own warning       *)
(* replaced it, and a buffered result that was given out did not fail.     *)
THEOREM OutcomeTold == Spec => []OutcomeAgrees
BY AlwaysInv, PTL DEF IInv
=============================================================================
