---------------------------- MODULE RunDirProofs ----------------------------
(***************************************************************************)
(* Theorems about RunDir, for any set of runs, any --keep-runs, any grace  *)
(* and any failing call.                                                   *)
(***************************************************************************)
EXTENDS RunDir, TLAPS

(* Where a run needs its directory, and where it no longer does. *)
Live == {"lock", "running", "failed"}
Done == {"unprotected", "age", "rmtree", "ended", "over"}

(* Where a run checks the directory cur. *)
Checking == {"parse_lock", "parse_none", "mtime"}

Needed(d) == pc[d] \in Live
Created(d) == pc[d] \in Live \cup Done

(* Whoever has not ended has a live PID and a lock within its bound. *)
HeldOK == \A r \in Runs : pc[r] # "over" => r \in held

(* Only a run that has got as far as mkdtemp has a directory, and what a   *)
(* run checks has one, or had one.                                         *)
DirsOK == \A d \in Runs : Exists(d) => Created(d)

CheckedOK ==
  \A p \in Runs :
    /\ pc[p] \in Checking \cup {"check"} => \A d \in todo[p] : Created(d)
    /\ pc[p] \in Checking => Created(cur[p])

(* A run removes its own directory, or one that nobody needs any more. *)
OwnOK == \A r \in Runs : pc[r] \in {"mkdtemp"} \cup Live \cup Done => cur[r] = r

DeadOK ==
  \A p \in Runs :
    /\ \A d \in dead[p] : pc[d] \in Done
    /\ pc[p] = "remove" =>
         pc[cur[p]] \in Done /\ \A d \in todo[p] : pc[d] \in Done

(* A directory without its lock that its run needs is within the grace, as *)
(* long as a pruner has yet to read its mtime.                             *)
GraceOK ==
  /\ \A d \in Runs : pc[d] = "lock" => WithinGrace(d)
  /\ \A p \in Runs :
       pc[p] = "mtime" /\ Needed(cur[p]) => WithinGrace(cur[p])

IInv ==
  /\ DirsTypeOK /\ LiveRunKept
  /\ HeldOK /\ DirsOK /\ CheckedOK /\ OwnOK /\ DeadOK /\ GraceOK

-----------------------------------------------------------------------------
LEMMA InitType == DirsInit => DirsTypeOK
<1> SUFFICES ASSUME DirsInit PROVE DirsTypeOK
  OBVIOUS
<1> USE RunDirAssumption DEF DirsInit
<1>1. /\ held \subseteq Runs
      /\ pc \in [Runs -> Labels]
      /\ entries \in [Runs -> [Runs -> Int]]
      /\ todo \in [Runs -> SUBSET Runs]
      /\ dead \in [Runs -> SUBSET Runs]
      /\ cur \in [Runs -> Runs]
  BY DEF Labels
<1>2. /\ now \in 0 .. Horizon
      /\ dir \in [Runs -> Dir \cup {NoDir}]
      /\ \A d \in Runs : Exists(d) => dir[d].mtime <= now
  BY DEF Dir, Exists
<1>3. QED
  BY <1>1, <1>2 DEF DirsTypeOK

(* The types of what a run keeps for itself. *)
LocalType ==
  /\ pc \in [Runs -> Labels]
  /\ entries \in [Runs -> [Runs -> Int]]
  /\ todo \in [Runs -> SUBSET Runs]
  /\ dead \in [Runs -> SUBSET Runs]
  /\ cur \in [Runs -> Runs]

LEMMA GotoType ==
  ASSUME LocalType, NEW r \in Runs, NEW l \in Labels, Goto(r, l)
  PROVE  pc' \in [Runs -> Labels]
BY DEF LocalType, Goto

LEMMA EndPruningType ==
  ASSUME LocalType, NEW r \in Runs, EndPruning(r)
  PROVE  LocalType'
<1>1. pc' \in [Runs -> Labels]
  BY GotoType DEF EndPruning, Labels
<1>2. [d \in Runs |-> 0] \in [Runs -> Int]
  OBVIOUS
<1>3. entries' \in [Runs -> [Runs -> Int]]
  BY <1>2 DEF EndPruning, LocalType
<1>4. QED
  BY <1>1, <1>3 DEF EndPruning, LocalType

LEMMA NextVictimType ==
  ASSUME LocalType, NEW r \in Runs, NEW V \in SUBSET Runs, NextVictim(r, V)
  PROVE  LocalType' /\ UNCHANGED <<now, held>>
<1>1. CASE V = {}
  BY <1>1, EndPruningType DEF NextVictim, EndPruning, Goto
<1>2. CASE V # {}
  <2>1. PICK d \in V :
          /\ cur' = [cur EXCEPT ![r] = d]
          /\ todo' = [todo EXCEPT ![r] = V \ {d}]
          /\ Goto(r, "remove")
          /\ UNCHANGED <<entries, dead>>
    BY <1>2 DEF NextVictim
  <2>2. pc' \in [Runs -> Labels]
    BY <2>1, GotoType DEF Labels
  <2>3. QED
    BY <2>1, <2>2 DEF LocalType, Goto
<1>3. QED
  BY <1>1, <1>2

LEMMA AfterRemovalType ==
  ASSUME LocalType, NEW r \in Runs, AfterRemoval(r)
  PROVE  LocalType' /\ UNCHANGED <<now, held>>
<1>1. CASE pc[r] = "rmtree"
  <2>1. Goto(r, "ended") /\ UNCHANGED local
    BY <1>1 DEF AfterRemoval
  <2>2. pc' \in [Runs -> Labels]
    BY <2>1, GotoType DEF Labels
  <2>3. QED
    BY <2>1, <2>2 DEF LocalType, local, Goto
<1>2. CASE pc[r] # "rmtree"
  <2>1. NextVictim(r, todo[r]) /\ todo[r] \in SUBSET Runs
    BY <1>2 DEF AfterRemoval, LocalType
  <2>2. QED
    BY <2>1, NextVictimType
<1>3. QED
  BY <1>1, <1>2

LEMMA JudgeType ==
  ASSUME LocalType, NEW r \in Runs, NEW live, Judge(r, live)
  PROVE  LocalType' /\ UNCHANGED <<now, held, dir>>
<1>1. pc' \in [Runs -> Labels]
  BY GotoType DEF Judge, Labels
<1>2. dead' \in [Runs -> SUBSET Runs]
  BY DEF Judge, LocalType
<1>3. QED
  BY <1>1, <1>2 DEF Judge, LocalType, Goto

LEMMA LocalStep ==
  ASSUME DirsTypeOK, NEW r \in Runs, Step(r)
  PROVE  LocalType' /\ UNCHANGED <<now, held>>
<1>0. LocalType
  BY DEF DirsTypeOK, LocalType
<1>1. CASE Scan(r)
  <2>1. [d \in Runs |-> IF Exists(d) THEN dir[d].mtime ELSE 0] \in [Runs -> Int]
    BY DEF DirsTypeOK, Exists, Dir
  <2>2. entries' \in [Runs -> [Runs -> Int]]
    BY <1>1, <2>1 DEF Scan, DirsTypeOK
  <2>3. pc' \in [Runs -> Labels]
    BY <1>0, <1>1, GotoType DEF Scan, Labels
  <2>4. todo' \in [Runs -> SUBSET Runs]
    BY <1>1 DEF Scan, DirsTypeOK
  <2>5. QED
    BY <1>1, <2>2, <2>3, <2>4 DEF Scan, Goto, DirsTypeOK, LocalType
<1>2. CASE SkipPruning(r)
  BY <1>0, <1>2, EndPruningType DEF SkipPruning, EndPruning, Goto
<1>3. CASE LookForLock(r)
  <2>1. PICK d \in todo[r] :
          /\ cur' = [cur EXCEPT ![r] = d]
          /\ todo' = [todo EXCEPT ![r] = todo[r] \ {d}]
          /\ Goto(r, IF Locked(d) THEN "parse_lock" ELSE "parse_none")
    BY <1>3 DEF LookForLock
  <2>2. pc' \in [Runs -> Labels]
    BY <1>0, <2>1, GotoType DEF Labels
  <2>3. QED
    BY <1>3, <2>1, <2>2 DEF LookForLock, Goto, DirsTypeOK, LocalType
<1>4. CASE ParseLock(r)
  <2>1. CASE Judge(r, cur[r] \in held) \/ Judge(r, TRUE)
    BY <1>0, <2>1, JudgeType
  <2>2. CASE Goto(r, "mtime") /\ UNCHANGED <<dir, local>>
    <3>1. pc' \in [Runs -> Labels]
      BY <1>0, <2>2, GotoType DEF Labels
    <3>2. QED
      BY <1>0, <2>2, <3>1 DEF LocalType, Goto, local
  <2>3. QED
    BY <1>4, <2>1, <2>2 DEF ParseLock
<1>5. CASE CheckGrace(r)
  BY <1>0, <1>5, JudgeType DEF CheckGrace
<1>6. CASE Select(r)
  <2>1. Surplus(r, dead[r]) \in SUBSET Runs
    BY DEF Surplus, DirsTypeOK
  <2>2. NextVictim(r, Surplus(r, dead[r]))
    BY <1>6 DEF Select
  <2>3. QED
    BY <1>0, <2>1, <2>2, NextVictimType
<1>7. CASE RemoveEntry(r) \/ WriteArtifact(r)
  BY <1>0, <1>7 DEF RemoveEntry, WriteArtifact, LocalType, local
<1>8. CASE RemoveDir(r) \/ RemovalStops(r)
  BY <1>0, <1>8, AfterRemovalType DEF RemoveDir, RemovalStops
<1>9. CASE \/ MakeDir(r) \/ WriteLock(r) \/ WriteLockFails(r) \/ RemoveLock(r)
           \/ AgeDir(r) \/ Raise(r) \/ Interrupt(r)
  <2>1. /\ UNCHANGED local
        /\ \E l \in Labels : Goto(r, l)
    BY <1>9 DEF MakeDir, WriteLock, WriteLockFails, RemoveLock, AgeDir, Raise,
                Interrupt, Labels
  <2>2. QED
    BY <1>0, <2>1, GotoType DEF LocalType, local, Goto
<1>10. QED
  BY <1>1, <1>2, <1>3, <1>4, <1>5, <1>6, <1>7, <1>8, <1>9 DEF Step

(* The types of the directories. *)
DirType ==
  /\ dir \in [Runs -> Dir \cup {NoDir}]
  /\ \A d \in Runs : Exists(d) => dir[d].mtime <= now

LEMMA ReplacedType ==
  ASSUME DirType, now' = now, NEW d \in Runs, NEW e \in Dir, e.mtime <= now,
         dir' = [dir EXCEPT ![d] = e]
  PROVE  DirType'
BY DEF DirType, Exists

LEMMA TouchedType ==
  ASSUME NEW e \in Dir, NEW lock \in BOOLEAN, NEW content \in BOOLEAN, now \in Int
  PROVE  /\ [Touched(e) EXCEPT !.lock = lock] \in Dir
         /\ [Touched(e) EXCEPT !.content = content] \in Dir
         /\ [Touched(e) EXCEPT !.lock = lock].mtime = now
         /\ [Touched(e) EXCEPT !.content = content].mtime = now
BY DEF Touched, Dir

LEMMA DirStep ==
  ASSUME DirsTypeOK, NEW r \in Runs, Step(r), now' = now
  PROVE  DirType'
<1>0. DirType /\ now \in Int
  BY DEF DirsTypeOK, DirType
<1>1. ASSUME NEW d \in Runs, Exists(d),
             \E b \in BOOLEAN :
               \/ dir' = [dir EXCEPT ![d] = [Touched(@) EXCEPT !.lock = b]]
               \/ dir' = [dir EXCEPT ![d] = [Touched(@) EXCEPT !.content = b]]
      PROVE  DirType'
  <2>1. dir[d] \in Dir
    BY <1>1 DEF DirsTypeOK, Exists
  <2>2. PICK b \in BOOLEAN :
          \/ dir' = [dir EXCEPT ![d] = [Touched(dir[d]) EXCEPT !.lock = b]]
          \/ dir' = [dir EXCEPT ![d] = [Touched(dir[d]) EXCEPT !.content = b]]
    BY <1>1
  <2>3. PICK e \in Dir : e.mtime <= now /\ dir' = [dir EXCEPT ![d] = e]
    <3> DEFINE x == [Touched(dir[d]) EXCEPT !.lock = b]
               y == [Touched(dir[d]) EXCEPT !.content = b]
    <3>1. x \in Dir /\ y \in Dir /\ x.mtime = now /\ y.mtime = now
      BY <1>0, <2>1, TouchedType
    <3>2. x.mtime <= now /\ y.mtime <= now
      BY <1>0, <3>1
    <3>3. dir' = [dir EXCEPT ![d] = x] \/ dir' = [dir EXCEPT ![d] = y]
      BY <2>2
    <3> HIDE DEF x, y
    <3>4. QED
      BY <3>1, <3>2, <3>3
  <2>4. QED
    BY <1>0, <2>3, ReplacedType
<1>2. CASE RemoveEntry(r)
  BY <1>1, <1>2 DEF RemoveEntry, DirsTypeOK
<1>3. CASE RemoveDir(r)
  BY <1>0, <1>3 DEF RemoveDir, DirType, Exists
<1>4. CASE MakeDir(r)
  <2>1. [lock |-> FALSE, content |-> FALSE, mtime |-> now] \in Dir
    BY <1>0 DEF Dir
  <2>2. [lock |-> FALSE, content |-> FALSE, mtime |-> now].mtime <= now
    BY <1>0
  <2>3. QED
    BY <1>0, <1>4, <2>1, <2>2, ReplacedType DEF MakeDir
<1>5. CASE AgeDir(r)
  <2>1. CASE Exists(r)
    <3>1. dir[r] \in Dir
      BY <2>1 DEF DirsTypeOK, Exists
    <3>2. /\ [dir[r] EXCEPT !.mtime = now - Grace - 1] \in Dir
          /\ [dir[r] EXCEPT !.mtime = now - Grace - 1].mtime <= now
      BY <1>0, <3>1, RunDirAssumption DEF Dir
    <3>3. dir' = [dir EXCEPT ![r] = [dir[r] EXCEPT !.mtime = now - Grace - 1]]
      BY <1>5, <2>1 DEF AgeDir
    <3>4. QED
      BY <1>0, <3>2, <3>3, ReplacedType
  <2>2. CASE ~Exists(r)
    BY <1>0, <1>5, <2>2 DEF AgeDir, DirType, Exists
  <2>3. QED
    BY <2>1, <2>2
<1>6. CASE WriteLock(r) \/ WriteArtifact(r)
  BY <1>1, <1>6 DEF WriteLock, WriteArtifact
<1>7. CASE RemoveLock(r) /\ ~UNCHANGED dir
  BY <1>1, <1>7 DEF RemoveLock, Locked
<1>8. CASE UNCHANGED dir
  BY <1>0, <1>8 DEF DirType, Exists
<1>9. QED
  BY <1>2, <1>3, <1>4, <1>5, <1>6, <1>7, <1>8
  DEF Step, Scan, SkipPruning, LookForLock, ParseLock, CheckGrace, Judge,
      Select, RemovalStops, WriteLockFails, Raise, Interrupt

LEMMA TypeStep ==
  ASSUME DirsTypeOK, [DirsNext]_dirsVars
  PROVE  DirsTypeOK'
<1>1. CASE UNCHANGED dirsVars
  BY <1>1 DEF dirsVars, local, DirsTypeOK, Exists
<1>2. CASE Tick
  BY <1>2, RunDirAssumption DEF Tick, local, DirsTypeOK, Exists, Dir
<1>3. ASSUME NEW r \in Runs, Step(r) PROVE DirsTypeOK'
  <2>1. LocalType' /\ UNCHANGED <<now, held>>
    BY <1>3, LocalStep
  <2>2. DirType'
    BY <1>3, <2>1, DirStep
  <2>3. QED
    BY <2>1, <2>2 DEF DirsTypeOK, LocalType, DirType
<1>4. ASSUME NEW r \in Runs, Exit(r) PROVE DirsTypeOK'
  <2>1. pc' \in [Runs -> Labels]
    BY <1>4 DEF Exit, DirsTypeOK, Labels
  <2>2. [d \in Runs |-> 0] \in [Runs -> Int]
    OBVIOUS
  <2>3. entries' \in [Runs -> [Runs -> Int]]
    BY <1>4, <2>2 DEF Exit, DirsTypeOK
  <2>4. QED
    BY <1>4, <2>1, <2>3 DEF Exit, DirsTypeOK, Exists
<1>5. ASSUME NEW r \in Runs, Recycle(r) \/ Expire(r) PROVE DirsTypeOK'
  BY <1>5 DEF Recycle, Expire, local, DirsTypeOK, Exists
<1>6. QED
  BY <1>1, <1>2, <1>3, <1>4, <1>5 DEF DirsNext

(* The types of the model hold in every state, and no directory has an     *)
(* mtime in the future.                                                    *)
THEOREM TypeCorrect == DirsSpec => []DirsTypeOK
BY InitType, TypeStep, PTL DEF DirsSpec

-----------------------------------------------------------------------------
(* Where a step leads. *)

(* A step changes the program counter of one run, which never needs its    *)
(* directory again once it does not.                                       *)
Moves(r) ==
  /\ \A p \in Runs \ {r} :
       /\ pc'[p] = pc[p] /\ todo'[p] = todo[p]
       /\ dead'[p] = dead[p] /\ cur'[p] = cur[p]
  /\ pc[r] # "over"
  /\ pc[r] \in Live => pc'[r] \in Live \cup Done
  /\ pc[r] \in Done => pc'[r] \in Done
  /\ pc'[r] \in Live => MakeDir(r) \/ WriteLock(r) \/ Raise(r)
  /\ pc'[r] \in Checking \cup {"check"} =>
       Scan(r) \/ LookForLock(r) \/ ParseLock(r) \/ CheckGrace(r)

LEMMA EndPruningMoves ==
  ASSUME DirsTypeOK, NEW r \in Runs, EndPruning(r), pc[r] \notin Live \cup Done
  PROVE  Moves(r)
BY DEF EndPruning, Goto, DirsTypeOK, Moves, Live, Done, Checking

LEMMA NextVictimMoves ==
  ASSUME DirsTypeOK, NEW r \in Runs, NEW V, NextVictim(r, V),
         pc[r] \notin Live \cup Done
  PROVE  Moves(r)
<1>1. CASE V = {}
  BY <1>1, EndPruningMoves DEF NextVictim
<1>2. CASE V # {}
  <2>1. PICK d \in V :
          /\ cur' = [cur EXCEPT ![r] = d]
          /\ todo' = [todo EXCEPT ![r] = V \ {d}]
          /\ Goto(r, "remove")
          /\ UNCHANGED <<entries, dead>>
    BY <1>2 DEF NextVictim
  <2>2. QED
    BY <2>1 DEF Goto, DirsTypeOK, Moves, Live, Done, Checking
<1>3. QED
  BY <1>1, <1>2

LEMMA StepMoves ==
  ASSUME DirsTypeOK, NEW r \in Runs, Step(r)
  PROVE  Moves(r) \/ (pc' = pc /\ UNCHANGED local)
<1> USE DEF DirsTypeOK, Moves, Goto, Live, Done, Checking
<1>1. CASE Scan(r)
  BY <1>1 DEF Scan
<1>2. CASE SkipPruning(r)
  BY <1>2, EndPruningMoves DEF SkipPruning
<1>3. CASE LookForLock(r)
  <2>1. PICK d \in todo[r] :
          /\ cur' = [cur EXCEPT ![r] = d]
          /\ todo' = [todo EXCEPT ![r] = todo[r] \ {d}]
          /\ Goto(r, IF Locked(d) THEN "parse_lock" ELSE "parse_none")
    BY <1>3 DEF LookForLock
  <2>2. dead' = dead /\ pc[r] = "check"
    BY <1>3 DEF LookForLock
  <2>3. QED
    BY <1>3, <2>1, <2>2
<1>4. CASE ParseLock(r)
  <2>1. CASE Judge(r, cur[r] \in held) \/ Judge(r, TRUE)
    BY <1>4, <2>1 DEF ParseLock, Judge
  <2>2. CASE Goto(r, "mtime") /\ UNCHANGED <<dir, local>>
    BY <1>4, <2>2 DEF ParseLock, local
  <2>3. QED
    BY <1>4, <2>1, <2>2 DEF ParseLock
<1>5. CASE CheckGrace(r)
  BY <1>5 DEF CheckGrace, Judge
<1>6. CASE Select(r)
  <2>1. NextVictim(r, Surplus(r, dead[r])) /\ pc[r] = "check"
    BY <1>6 DEF Select
  <2>2. QED
    BY <2>1, NextVictimMoves
<1>7. CASE RemoveEntry(r) \/ WriteArtifact(r)
  BY <1>7 DEF RemoveEntry, WriteArtifact
<1>8. CASE RemoveDir(r) \/ RemovalStops(r)
  <2>1. AfterRemoval(r) /\ pc[r] \in {"remove", "rmtree"}
    BY <1>8 DEF RemoveDir, RemovalStops
  <2>2. CASE pc[r] = "rmtree"
    BY <2>1, <2>2 DEF AfterRemoval, local
  <2>3. CASE pc[r] = "remove"
    BY <2>1, <2>3, NextVictimMoves DEF AfterRemoval
  <2>4. QED
    BY <2>1, <2>2, <2>3
<1>9. CASE MakeDir(r) \/ WriteLock(r) \/ WriteLockFails(r)
  BY <1>9 DEF MakeDir, WriteLock, WriteLockFails, local
<1>10. CASE RemoveLock(r) \/ AgeDir(r) \/ Raise(r) \/ Interrupt(r)
  BY <1>10 DEF RemoveLock, AgeDir, Raise, Interrupt, Body, local
<1>11. QED
  BY <1>1, <1>2, <1>3, <1>4, <1>5, <1>6, <1>7, <1>8, <1>9, <1>10 DEF Step

(* Once over, always over: for every run, whoever takes the step. *)
LEMMA StaysDone ==
  ASSUME DirsTypeOK, NEW r \in Runs, Step(r)
  PROVE  \A d \in Runs : /\ pc[d] \in Done => pc'[d] \in Done
                         /\ Created(d) => Created(d)'
BY StepMoves DEF Moves, Created

-----------------------------------------------------------------------------
(* A directory that its run needs is only changed by its run. *)
LEMMA NeededDir ==
  ASSUME IInv, NEW r \in Runs, Step(r), NEW d \in Runs, Needed(d)'
  PROVE  /\ Exists(d)'
         /\ pc'[d] # "lock" => Locked(d)'
         /\ dir'[d].mtime = now \/ (Needed(d) /\ dir'[d] = dir[d])
<1> USE DEF IInv
<1>1. CASE d # r
  <2>1. pc'[d] = pc[d] /\ Needed(d)
    BY <1>1, StepMoves DEF Moves, Needed
  <2>2. Exists(d) /\ (pc[d] # "lock" => Locked(d))
    BY <2>1 DEF LiveRunKept, Needed, Live
  <2>3. pc[r] \in {"remove", "rmtree"} => cur[r] # d
    BY <1>1, <2>1 DEF DeadOK, OwnOK, Needed, Live, Done
  <2>4. dir'[d] = dir[d]
    BY <1>1, <2>3
    DEF Step, Scan, SkipPruning, LookForLock, ParseLock, CheckGrace, Judge,
        Select, RemoveEntry, RemoveDir, RemovalStops, MakeDir, WriteLock,
        WriteLockFails, WriteArtifact, RemoveLock, AgeDir, Raise, Interrupt, DirsTypeOK
  <2>5. QED
    BY <2>1, <2>2, <2>4 DEF Exists, Locked
<1>2. CASE d = r
  <2>1. CASE MakeDir(r)
    <3> DEFINE e == [lock |-> FALSE, content |-> FALSE, mtime |-> now]
    <3>0. e \in Dir
      BY DEF DirsTypeOK, Dir
    <3>1. e # NoDir /\ e.mtime = now
      BY <3>0, RunDirAssumption
    <3>2. dir'[r] = e /\ pc'[r] = "lock"
      BY <2>1 DEF MakeDir, Goto, DirsTypeOK
    <3>3. QED
      BY <1>2, <3>1, <3>2 DEF Exists
  <2>2. CASE WriteLock(r) \/ WriteArtifact(r)
    <3>1. dir[r] \in Dir /\ now \in Int
      BY <2>2 DEF WriteLock, WriteArtifact, DirsTypeOK, Exists
    <3>2. PICK e \in Dir : /\ e.mtime = now
                           /\ dir'[r] = e
                           /\ e.lock \/ (dir[r].lock = e.lock /\ pc'[r] = pc[r])
      <4>1. CASE WriteLock(r)
        <5> DEFINE f == [Touched(dir[r]) EXCEPT !.lock = TRUE]
        <5>1. f \in Dir /\ f.mtime = now /\ f.lock
          BY <3>1 DEF Dir, Touched
        <5>2. dir'[r] = f
          BY <4>1 DEF WriteLock, DirsTypeOK
        <5>3. QED
          BY <5>1, <5>2
      <4>2. CASE WriteArtifact(r)
        <5> DEFINE f == [Touched(dir[r]) EXCEPT !.content = TRUE]
        <5>1. f \in Dir /\ f.mtime = now /\ f.lock = dir[r].lock
          BY <3>1 DEF Dir, Touched
        <5>2. dir'[r] = f /\ pc'[r] = pc[r]
          BY <4>2 DEF WriteArtifact, DirsTypeOK
        <5>3. QED
          BY <5>1, <5>2
      <4>3. QED
        BY <2>2, <4>1, <4>2
    <3>3. WriteArtifact(r) => pc[r] = "running"
      BY <1>2 DEF WriteArtifact, Needed, Live, Body
    <3>4. pc[r] = "running" => dir[r].lock
      BY DEF LiveRunKept, Locked
    <3>5. pc[r] = "lock" \/ pc[r] = "running"
      BY <2>2, <3>3 DEF WriteLock
    <3>6. pc[r] = "lock" /\ WriteLock(r) => pc'[r] = "running"
      BY DEF WriteLock, Goto, DirsTypeOK
    <3>7. dir'[r].lock
      BY <2>2, <3>2, <3>3, <3>4, <3>6 DEF WriteLock
    <3>8. QED
      BY <1>2, <3>2, <3>7, RunDirAssumption DEF Exists, Locked
  <2>3. CASE Raise(r)
    <3>1. pc[r] = "running" /\ dir' = dir
      BY <1>2, <2>3 DEF Raise, Body, Goto, DirsTypeOK, Needed, Live
    <3>2. QED
      BY <1>2, <3>1 DEF LiveRunKept, Needed, Live, Exists, Locked
  <2>4. CASE ~(MakeDir(r) \/ WriteLock(r) \/ WriteArtifact(r) \/ Raise(r))
    <3>1. pc' = pc /\ pc[r] \in Live
      BY <1>2, <2>4, StepMoves DEF Moves, Needed
    <3>2. dir' = dir
      BY <2>4, <3>1
      DEF Step, Scan, SkipPruning, LookForLock, ParseLock, CheckGrace, Judge,
          Select, RemoveEntry, RemoveDir, RemovalStops, WriteLockFails,
          RemoveLock, AgeDir, Interrupt, Goto, Live, DirsTypeOK
    <3>3. QED
      BY <1>2, <3>1, <3>2 DEF LiveRunKept, Needed, Live, Exists, Locked
  <2>5. QED
    BY <2>1, <2>2, <2>3, <2>4
<1>3. QED
  BY <1>1, <1>2

-----------------------------------------------------------------------------
(* The inductive invariant. *)

LEMMA InitInv == DirsInit => IInv
<1> SUFFICES ASSUME DirsInit PROVE IInv
  OBVIOUS
<1>1. DirsTypeOK
  BY InitType
<1>2. \A r \in Runs : /\ pc[r] \in {"start", "over"}
                      /\ cur[r] = r /\ todo[r] = {} /\ dead[r] = {}
                      /\ Exists(r) <=> r \in Earlier
                      /\ pc[r] = "over" <=> r \in Earlier
  BY DEF DirsInit
<1>3. HeldOK
  BY <1>2 DEF DirsInit, HeldOK
<1>4. LiveRunKept /\ DirsOK /\ CheckedOK /\ OwnOK /\ DeadOK /\ GraceOK
  BY <1>2
  DEF LiveRunKept, DirsOK, CheckedOK, OwnOK, DeadOK, GraceOK, Checking, Live,
      Done, Created
<1>5. QED
  BY <1>1, <1>3, <1>4 DEF IInv

LEMMA HeldStep ==
  ASSUME IInv, NEW r \in Runs, Step(r)
  PROVE  HeldOK'
<1>1. held' = held
  BY LocalStep DEF IInv
<1>2. \A p \in Runs : pc'[p] # "over" => pc[p] # "over"
  BY StepMoves DEF Moves, Done, IInv
<1>3. QED
  BY <1>1, <1>2 DEF HeldOK, IInv

(* Only mkdtemp makes a directory. *)
LEMMA DirsStep ==
  ASSUME IInv, NEW r \in Runs, Step(r)
  PROVE  DirsOK'
<1>1. SUFFICES ASSUME NEW d \in Runs, Exists(d)' PROVE Created(d)'
  BY DEF DirsOK
<1>2. CASE MakeDir(r) /\ d = r
  BY <1>2 DEF MakeDir, Goto, Created, Live, IInv, DirsTypeOK
<1>3. CASE ~(MakeDir(r) /\ d = r)
  <2>1. Exists(d)
    BY <1>1, <1>3
    DEF Step, Scan, SkipPruning, LookForLock, ParseLock, CheckGrace, Judge,
        Select, RemoveEntry, RemoveDir, RemovalStops, MakeDir, WriteLock,
        WriteLockFails, WriteArtifact, RemoveLock, AgeDir, Raise, Interrupt,
        Exists, Locked, IInv, DirsTypeOK
  <2>2. QED
    BY <2>1, StaysDone DEF IInv, DirsOK
<1>4. QED
  BY <1>2, <1>3

(* What a pruner checks comes from its scan. *)
LEMMA CheckedStep ==
  ASSUME IInv, NEW r \in Runs, Step(r)
  PROVE  CheckedOK'
<1> USE DEF IInv
<1>1. SUFFICES ASSUME NEW p \in Runs
               PROVE  /\ pc'[p] \in Checking \cup {"check"} =>
                           \A d \in todo'[p] : Created(d)
                      /\ pc'[p] \in Checking => Created(cur'[p])
  <2>1. todo' \in [Runs -> SUBSET Runs] /\ cur' \in [Runs -> Runs]
    BY LocalStep DEF LocalType
  <2>2. QED
    BY <1>1, <2>1, StaysDone DEF CheckedOK
<1>2. CASE p # r \/ (pc' = pc /\ UNCHANGED local)
  BY <1>2, StepMoves DEF Moves, CheckedOK, local
<1>3. CASE p = r
  <2>1. CASE Scan(r)
    BY <1>3, <2>1 DEF Scan, Goto, DirsOK, DirsTypeOK, Checking
  <2>2. CASE LookForLock(r)
    BY <1>3, <2>2 DEF LookForLock, Goto, CheckedOK, DirsTypeOK, Checking
  <2>3. CASE ParseLock(r)
    BY <1>3, <2>3 DEF ParseLock, Judge, Goto, CheckedOK, DirsTypeOK, Checking, local
  <2>4. CASE CheckGrace(r)
    BY <1>3, <2>4 DEF CheckGrace, Judge, Goto, CheckedOK, DirsTypeOK, Checking
  <2>5. CASE ~(Scan(r) \/ LookForLock(r) \/ ParseLock(r) \/ CheckGrace(r))
    <3>1. pc'[r] \notin Checking \cup {"check"} \/ (pc' = pc /\ UNCHANGED local)
      BY <2>5, StepMoves DEF Moves
    <3>2. QED
      BY <1>2, <1>3, <3>1
  <2>6. QED
    BY <2>1, <2>2, <2>3, <2>4, <2>5
<1>4. QED
  BY <1>2, <1>3

-----------------------------------------------------------------------------
LEMMA OwnStep ==
  ASSUME IInv, NEW r \in Runs, Step(r)
  PROVE  OwnOK'
<1> USE DEF IInv
<1>1. SUFFICES ASSUME NEW p \in Runs, pc'[p] \in {"mkdtemp"} \cup Live \cup Done
               PROVE  cur'[p] = p
  BY DEF OwnOK
<1>2. CASE p # r \/ (pc' = pc /\ UNCHANGED local)
  BY <1>1, <1>2, StepMoves DEF Moves, OwnOK, local
<1>3. CASE p = r /\ pc[r] \in {"mkdtemp"} \cup Live \cup Done
  <2>1. cur' = cur
    BY <1>3
    DEF Step, Scan, SkipPruning, LookForLock, ParseLock, CheckGrace, Select,
        RemoveEntry, RemoveDir, RemovalStops, AfterRemoval, MakeDir, WriteLock,
        WriteLockFails, WriteArtifact, RemoveLock, AgeDir, Raise, Interrupt,
        Live, Done, local
  <2>2. QED
    BY <1>3, <2>1 DEF OwnOK
<1>4. CASE p = r /\ pc[r] \notin {"mkdtemp"} \cup Live \cup Done
  <2>1. EndPruning(r) \/ (pc' = pc /\ UNCHANGED local)
        \/ pc'[r] \notin {"mkdtemp"} \cup Live \cup Done
    BY <1>4
    DEF Step, Scan, SkipPruning, LookForLock, ParseLock, CheckGrace, Judge,
        Select, NextVictim, RemoveEntry, RemoveDir, RemovalStops, AfterRemoval,
        MakeDir, WriteLock, WriteLockFails, WriteArtifact, RemoveLock, AgeDir,
        Raise, Interrupt, Body, Goto, Live, Done, local, DirsTypeOK
  <2>2. QED
    BY <1>1, <1>2, <1>4, <2>1 DEF EndPruning, DirsTypeOK
<1>5. QED
  BY <1>2, <1>3, <1>4

(* A pruner goes on to remove only what it has judged. *)
LEMMA NextVictimDead ==
  ASSUME DirsTypeOK, NEW r \in Runs, NEW V \in SUBSET Runs, NextVictim(r, V)
  PROVE  /\ dead'[r] \subseteq dead[r]
         /\ pc'[r] = "remove" => cur'[r] \in V /\ todo'[r] \subseteq V
<1>1. CASE V = {}
  BY <1>1 DEF NextVictim, EndPruning, Goto, DirsTypeOK
<1>2. CASE V # {}
  <2>1. PICK d \in V :
          /\ cur' = [cur EXCEPT ![r] = d]
          /\ todo' = [todo EXCEPT ![r] = V \ {d}]
          /\ Goto(r, "remove")
          /\ UNCHANGED <<entries, dead>>
    BY <1>2 DEF NextVictim
  <2>2. QED
    BY <2>1 DEF DirsTypeOK
<1>3. QED
  BY <1>1, <1>2

(* What a pruner judges dead is over: its process has ended, or it has no  *)
(* lock and is past the grace, which no run that needs its directory is.   *)
LEMMA DeadStep ==
  ASSUME IInv, NEW r \in Runs, Step(r)
  PROVE  DeadOK'
<1> USE DEF IInv
<1>1. SUFFICES ASSUME NEW p \in Runs
               PROVE  /\ \A d \in dead'[p] : pc[d] \in Done
                      /\ pc'[p] = "remove" =>
                           /\ pc[cur'[p]] \in Done
                           /\ \A d \in todo'[p] : pc[d] \in Done
  <2>1. /\ todo' \in [Runs -> SUBSET Runs] /\ dead' \in [Runs -> SUBSET Runs]
        /\ cur' \in [Runs -> Runs]
    BY LocalStep DEF LocalType
  <2>2. QED
    BY <1>1, <2>1, StaysDone DEF DeadOK
<1>2. CASE p # r \/ (pc' = pc /\ UNCHANGED local)
  BY <1>2, StepMoves DEF Moves, DeadOK, local
<1>3. CASE p = r
  <2>1. CASE ParseLock(r) \/ CheckGrace(r)
    <3>1. cur[r] \in Runs /\ Created(cur[r]) /\ pc'[r] # "remove"
      BY <2>1 DEF ParseLock, CheckGrace, Judge, Goto, CheckedOK, Checking, DirsTypeOK
    <3>2. dead'[r] = dead[r] \/ dead'[r] = dead[r] \cup {cur[r]}
      BY <2>1 DEF ParseLock, CheckGrace, Judge, DirsTypeOK, local
    <3>3. dead'[r] # dead[r] => pc[cur[r]] \in Done
      <4>1. CASE ParseLock(r)
        <5>1. dead'[r] # dead[r] => cur[r] \notin held
          BY <4>1 DEF ParseLock, Judge, local
        <5>2. QED
          BY <3>1, <5>1 DEF HeldOK, Done
      <4>2. CASE CheckGrace(r)
        <5>1. dead'[r] # dead[r] => ~WithinGrace(cur[r])
          BY <4>2 DEF CheckGrace, Judge
        <5>2. QED
          BY <3>1, <4>2, <5>1 DEF CheckGrace, GraceOK, Needed, Created
      <4>3. QED
        BY <2>1, <4>1, <4>2
    <3>4. QED
      BY <1>3, <3>1, <3>2, <3>3 DEF DeadOK
  <2>2. CASE Select(r)
    <3>1. Surplus(r, dead[r]) \in SUBSET Runs /\ Surplus(r, dead[r]) \subseteq dead[r]
      BY DEF Surplus, DirsTypeOK
    <3>2. NextVictim(r, Surplus(r, dead[r]))
      BY <2>2 DEF Select
    <3>3. QED
      BY <1>3, <3>1, <3>2, NextVictimDead DEF DeadOK
  <2>3. CASE (RemoveDir(r) \/ RemovalStops(r)) /\ pc[r] = "remove"
    <3>1. NextVictim(r, todo[r]) /\ todo[r] \in SUBSET Runs
      BY <2>3 DEF RemoveDir, RemovalStops, AfterRemoval, DirsTypeOK
    <3>2. QED
      BY <1>3, <2>3, <3>1, NextVictimDead DEF DeadOK
  <2>4. CASE Scan(r) \/ SkipPruning(r) \/ LookForLock(r)
    BY <1>3, <2>4
    DEF Scan, SkipPruning, EndPruning, LookForLock, Goto, DeadOK, DirsTypeOK
  <2>5. CASE pc[r] \in {"mkdtemp"} \cup Live \cup Done
    <3>1. dead' = dead /\ pc'[r] # "remove"
      BY <2>5
      DEF Step, Scan, SkipPruning, LookForLock, ParseLock, CheckGrace, Select,
          RemoveEntry, RemoveDir, RemovalStops, AfterRemoval, MakeDir,
          WriteLock, WriteLockFails, WriteArtifact, RemoveLock, AgeDir, Raise,
          Interrupt, Goto, Live, Done, Body, local, DirsTypeOK
    <3>2. QED
      BY <1>3, <3>1 DEF DeadOK
  <2>6. CASE RemoveEntry(r)
    BY <1>2, <2>6 DEF RemoveEntry
  <2>7. QED
    BY <2>1, <2>2, <2>3, <2>4, <2>5, <2>6
    DEF Step, RemoveDir, RemovalStops, MakeDir, WriteLock, WriteLockFails,
        WriteArtifact, RemoveLock, AgeDir, Raise, Interrupt, Live, Done, Body
<1>4. QED
  BY <1>2, <1>3

-----------------------------------------------------------------------------
(* A run without its lock is within the grace, or has written to its       *)
(* directory since the pruner looked.                                      *)
LEMMA GraceStep ==
  ASSUME IInv, NEW r \in Runs, Step(r)
  PROVE  GraceOK'
<1> USE DEF IInv
<1>1. now' = now /\ now \in Int /\ cur' \in [Runs -> Runs]
  BY LocalStep DEF LocalType, DirsTypeOK
<1>2. ASSUME NEW d \in Runs, pc'[d] \in Live, Needed(d) => WithinGrace(d)
      PROVE  dir'[d] # NoDir /\ now' - dir'[d].mtime < Grace
  <2>1. Exists(d)' /\ (dir'[d].mtime = now \/ (Needed(d) /\ dir'[d] = dir[d]))
    BY <1>2, NeededDir DEF Needed
  <2>2. CASE dir'[d].mtime = now
    BY <1>1, <2>1, <2>2, RunDirAssumption DEF Exists
  <2>3. CASE Needed(d) /\ dir'[d] = dir[d]
    BY <1>1, <1>2, <2>3 DEF WithinGrace, Exists
  <2>4. QED
    BY <2>1, <2>2, <2>3
<1>3. ASSUME NEW d \in Runs, pc'[d] = "lock"
      PROVE  dir'[d] # NoDir /\ now' - dir'[d].mtime < Grace
  <2>1. pc[d] = "lock" \/ ~Needed(d)
    BY <1>3, StepMoves
    DEF Moves, MakeDir, WriteLock, Raise, Goto, Needed, Live, Body, DirsTypeOK
  <2>2. Needed(d) => WithinGrace(d)
    BY <2>1 DEF GraceOK
  <2>3. QED
    BY <1>2, <1>3, <2>2 DEF Live
<1>4. ASSUME NEW p \in Runs, pc'[p] = "mtime"
      PROVE  Needed(cur'[p]) => WithinGrace(cur'[p])
  <2>1. CASE p # r \/ (pc' = pc /\ UNCHANGED local)
    <3>1. pc[p] = "mtime" /\ cur'[p] = cur[p]
      BY <1>4, <2>1, StepMoves DEF Moves, local
    <3>2. QED
      BY <3>1 DEF GraceOK
  <2>2. CASE p = r /\ ~(pc' = pc /\ UNCHANGED local)
    <3>1. Scan(r) \/ LookForLock(r) \/ ParseLock(r) \/ CheckGrace(r)
      BY <1>4, <2>2, StepMoves DEF Moves, Checking
    <3>2. ParseLock(r) /\ ~Locked(cur[r]) /\ cur'[r] = cur[r]
      BY <1>4, <2>2, <3>1
      DEF Scan, LookForLock, ParseLock, CheckGrace, Judge, Goto, DirsTypeOK, local
    <3>3. Needed(cur[r]) => pc[cur[r]] = "lock"
      BY <3>2 DEF LiveRunKept, Needed, Live, DirsTypeOK
    <3>4. Needed(cur[r]) => WithinGrace(cur[r])
      BY <3>3 DEF GraceOK, DirsTypeOK
    <3>5. QED
      BY <2>2, <3>2, <3>4
  <2>3. QED
    BY <2>1, <2>2
<1>5. ASSUME NEW p \in Runs, pc'[p] = "mtime", pc'[cur'[p]] \in Live
      PROVE  /\ dir'[cur'[p]] # NoDir
             /\ now' - dir'[cur'[p]].mtime < Grace
  BY <1>1, <1>2, <1>4, <1>5
<1>6. QED
  BY <1>3, <1>5 DEF GraceOK, WithinGrace, Exists, Needed

LEMMA StepInv ==
  ASSUME IInv, NEW r \in Runs, Step(r)
  PROVE  IInv'
<1>1. DirsTypeOK'
  BY TypeStep DEF IInv, DirsNext
<1>2. LiveRunKept'
  BY NeededDir DEF LiveRunKept, Needed, Live
<1>3. QED
  BY <1>1, <1>2, HeldStep, DirsStep, CheckedStep, OwnStep, DeadStep, GraceStep
  DEF IInv

(* A process that ends takes its list with it and needs nothing any more. *)
LEMMA ExitInv ==
  ASSUME IInv, NEW r \in Runs, Exit(r)
  PROVE  IInv'
<1> USE DEF IInv
<1>1. DirsTypeOK'
  BY TypeStep DEF DirsNext
<1>2. /\ pc' = [pc EXCEPT ![r] = "over"] /\ dir' = dir /\ now' = now
      /\ held' = held \ {r}
      /\ \A p \in Runs \ {r} : /\ todo'[p] = todo[p] /\ dead'[p] = dead[p]
                               /\ cur'[p] = cur[p]
      /\ todo'[r] = {} /\ dead'[r] = {} /\ cur'[r] = r
  BY DEF Exit, DirsTypeOK
<1>3. /\ \A p \in Runs : p # r => pc'[p] = pc[p]
      /\ pc'[r] = "over"
  BY <1>2 DEF DirsTypeOK
<1>4. /\ todo \in [Runs -> SUBSET Runs] /\ dead \in [Runs -> SUBSET Runs]
      /\ cur \in [Runs -> Runs]
  BY DEF DirsTypeOK
<1>5. LiveRunKept' /\ HeldOK' /\ DirsOK'
  BY <1>2, <1>3
  DEF LiveRunKept, HeldOK, DirsOK, Created, Exists, Locked, Live, Done
<1>6. CheckedOK' /\ OwnOK' /\ DeadOK'
  BY <1>2, <1>3, <1>4
  DEF CheckedOK, OwnOK, DeadOK, Created, Checking, Live, Done
<1>7. GraceOK'
  BY <1>2, <1>3, <1>4 DEF GraceOK, WithinGrace, Exists, Needed, Live
<1>8. QED
  BY <1>1, <1>5, <1>6, <1>7

(* A lock changes what it says only when its run is over. *)
LEMMA HolderInv ==
  ASSUME IInv, "bound" \notin Suspends, NEW r \in Runs, Recycle(r) \/ Expire(r)
  PROVE  IInv'
<1> USE DEF IInv
<1>1. DirsTypeOK'
  BY TypeStep DEF DirsNext
<1>2. UNCHANGED <<now, dir, pc, local>>
  BY DEF Recycle, Expire
<1>3. HeldOK'
  BY <1>2 DEF Recycle, Expire, HeldOK
<1>4. QED
  BY <1>1, <1>2, <1>3
  DEF LiveRunKept, DirsOK, CheckedOK, OwnOK, DeadOK, GraceOK, Created, Needed,
      WithinGrace, Exists, Locked, local

(* The clock waits for a setup and for a check that began during one. *)
LEMMA TickInv ==
  ASSUME IInv, "call" \notin Suspends, Tick
  PROVE  IInv'
<1> USE DEF IInv
<1>1. DirsTypeOK'
  BY TypeStep DEF DirsNext
<1>2. now' = now + 1 /\ UNCHANGED <<dir, held, pc, local>>
  BY DEF Tick
<1>3. ASSUME NEW d \in Runs, InSetup(d), Exists(d)
      PROVE  dir'[d] # NoDir /\ now' - dir'[d].mtime < Grace
  <2>1. now + 1 - dir[d].mtime < Grace
    BY <1>3 DEF Tick
  <2>2. now' = now + 1 /\ dir'[d].mtime = dir[d].mtime
    BY <1>2
  <2>3. dir'[d] # NoDir
    BY <1>2, <1>3 DEF Exists
  <2>4. dir[d].mtime \in Int /\ now \in Int /\ Grace \in Int
    BY <1>3, RunDirAssumption DEF DirsTypeOK, Exists, Dir
  <2>5. QED
    BY <2>1, <2>2, <2>3, <2>4
<1>4. GraceOK'
  <2>1. ASSUME NEW d \in Runs, pc[d] = "lock"
        PROVE  dir'[d] # NoDir /\ now' - dir'[d].mtime < Grace
    BY <1>3, <2>1 DEF InSetup, LiveRunKept
  <2>2. ASSUME NEW p \in Runs, pc[p] = "mtime", Needed(cur[p])
        PROVE  dir'[cur[p]] # NoDir /\ now' - dir'[cur[p]].mtime < Grace
    <3>1. cur[p] \in Runs /\ InSetup(cur[p]) /\ Exists(cur[p])
      BY <2>2 DEF InSetup, LiveRunKept, Needed, Live, DirsTypeOK
    <3>2. QED
      BY <1>3, <3>1
  <2>3. QED
    BY <1>2, <2>1, <2>2 DEF GraceOK, Needed, WithinGrace, Exists, local
<1>5. QED
  BY <1>1, <1>2, <1>4
  DEF LiveRunKept, HeldOK, DirsOK, CheckedOK, OwnOK, DeadOK, Created, Exists,
      Locked, local

LEMMA NextInv ==
  ASSUME Suspends = {}, IInv, [DirsNext]_dirsVars
  PROVE  IInv'
<1>1. CASE UNCHANGED dirsVars
  BY <1>1
  DEF IInv, DirsTypeOK, LiveRunKept, HeldOK, DirsOK, CheckedOK, OwnOK, DeadOK,
      GraceOK, Created, Needed, WithinGrace, Exists, Locked, dirsVars, local
<1>2. CASE DirsNext
  BY <1>2, TickInv, StepInv, ExitInv, HolderInv DEF DirsNext
<1>3. QED
  BY <1>1, <1>2

(* A run that is being set up or is running, or that failed and whose      *)
(* process has not ended, keeps its directory, and its lock once written,  *)
(* whatever the other runs prune, and whatever call fails, is interrupted  *)
(* or is killed: is_dir_live's grace closes the window between mkdtemp and *)
(* write_lock.  The assumption is that no run is suspended past the grace  *)
(* between two calls or past the bound of its lock.                        *)
THEOREM NeverPrunesLive ==
  ASSUME Suspends = {}
  PROVE  DirsSpec => []LiveRunKept
<1>1. IInv => LiveRunKept
  BY DEF IInv
<1>2. QED
  BY InitInv, NextInv, <1>1, PTL DEF DirsSpec

=============================================================================
