-------------------------- MODULE EphemeralLockProofs --------------------------
(***************************************************************************)
(* Theorems about EphemeralLock, for every set of contenders, every number *)
(* of reclaim rounds and every choice of failing system calls.             *)
(***************************************************************************)
EXTENDS EphemeralLock, TLAPS

Writing == {"write", "claim_write", "rewrite"}

(* What a contender re-creates is a file it has read. *)
CarriedOK ==
  \A c \in Contenders : pc[c] \in {"recreate", "rewrite"} => carried[c] \in File

Typed == TypeOK /\ CarriedOK

(* A file that is open for writing is torn, within its grace, and the      *)
(* writer is about to write it.                                            *)
WriterOK(f) ==
  Exists(f) /\ f.writer # Nobody => f.torn /\ f.young /\ pc[f.writer] \in Writing

Writers == WriterOK(path) /\ \A p \in Pids : WriterOK(steal[p])

(* The copy found unreadable is still torn, or has just been written. *)
Inspected ==
  \A c \in Contenders :
    pc[c] = "inspect_mtime" /\ Exists(steal[PidOf[c]])
      => steal[PidOf[c]].torn \/ steal[PidOf[c]].young

IInv == Typed /\ Writers /\ Inspected /\ DiscardsOnlyStale

(* No two contenders are threads of one process. *)
OneThreadEach == \A c, d \in Contenders : PidOf[c] = PidOf[d] => c = d

(* The read and the stat that judge a stolen copy do not fail. *)
InspectionReads == {"inspect", "inspect_mtime"} \cap Failing = {}

-----------------------------------------------------------------------------
(* Lemmas about the operations on files. *)

(* A write through a descriptor turns a file, or no file, into the same. *)
LEMMA FilledType ==
  ASSUME NEW f \in File \cup {NoFile}, NEW c \in Contenders, NEW e \in BOOLEAN
  PROVE  Filled(f, c, e) \in File \cup {NoFile}
BY LockAssumption DEF Filled, Exists, File

(* So does the loss of a descriptor. *)
LEMMA ClosedType ==
  ASSUME NEW f \in File \cup {NoFile}, NEW C
  PROVE  Closed(f, C) \in File \cup {NoFile}
BY LockAssumption DEF Closed, Exists, File

(* A file ages into a file. *)
LEMMA AgedType ==
  ASSUME NEW f \in File
  PROVE  Aged(f) \in File
BY DEF Aged, File

(* What an O_EXCL open creates is a file. *)
LEMMA TornType ==
  ASSUME NEW a \in Authors, NEW c \in Contenders
  PROVE  Torn(a, c) \in File
BY DEF Torn, File

(* Writing keeps the types of both locations. *)
LEMMA FillTyped ==
  ASSUME TypeOK, NEW c \in Contenders, NEW e \in BOOLEAN, Fill(c, e)
  PROVE  /\ path' \in File \cup {NoFile}
         /\ steal' \in [Pids -> File \cup {NoFile}]
BY FilledType DEF TypeOK, Fill

(* Closing keeps the types of both locations. *)
LEMMA CloseTyped ==
  ASSUME TypeOK, NEW C, Close(C)
  PROVE  /\ path' \in File \cup {NoFile}
         /\ steal' \in [Pids -> File \cup {NoFile}]
BY ClosedType DEF TypeOK, Close

(* A contender that moves on keeps every type but that of the files, and   *)
(* still carries a file if it is about to re-create one.                   *)
LEMMA GotoTyped ==
  ASSUME Typed, NEW c \in Contenders, NEW l \in Labels, Goto(c, l),
         l \in {"recreate", "rewrite"} => carried[c] \in File,
         path' \in File \cup {NoFile},
         steal' \in [Pids -> File \cup {NoFile}]
  PROVE  Typed'
BY DEF Typed, TypeOK, CarriedOK, Goto

(* So does one that forgets what it carried. *)
LEMMA ForgetTyped ==
  ASSUME Typed, NEW c \in Contenders, NEW l \in Labels, Forget(c, l),
         l \notin {"recreate", "rewrite"},
         path' \in File \cup {NoFile},
         steal' \in [Pids -> File \cup {NoFile}]
  PROVE  Typed'
BY DEF Typed, TypeOK, CarriedOK, Forget

(* So does one that starts the next round. *)
LEMMA NextRoundTyped ==
  ASSUME Typed, NEW c \in Contenders, NextRound(c), UNCHANGED files
  PROVE  Typed'
BY LockAssumption DEF Typed, TypeOK, CarriedOK, NextRound, files, Labels, Calls

-----------------------------------------------------------------------------
(* Type correctness. *)

(* The initial states are well typed. *)
LEMMA InitTyped == Init => Typed
<1> SUFFICES ASSUME Init PROVE Typed
  OBVIOUS
<1>1. path \in File \cup {NoFile} /\ alive \subseteq Pids
  BY LockAssumption DEF Init
<1>2. QED
  BY <1>1, LockAssumption DEF Init, Typed, TypeOK, CarriedOK, Labels

(* Every system call of a contender keeps the types. *)
LEMMA ContenderTyped ==
  ASSUME Typed, NEW c \in Contenders, Acquire(c) \/ Release(c)
  PROVE  Typed'
<1> USE LockAssumption DEF Typed, Labels, Calls
<1>0. PidOf[c] \in Pids /\ c \in Authors
  BY DEF Authors
<1>1. CASE Create(c)
  BY <1>0, <1>1, TornType DEF Create, TypeOK, CarriedOK
<1>2. CASE Write(c)
  BY <1>2, FillTyped, GotoTyped DEF Write
<1>3. CASE AcquiringFails(c)
  BY <1>3, CloseTyped, GotoTyped DEF AcquiringFails
<1>4. CASE Drop(c)
  BY <1>4, GotoTyped DEF Drop, GiveUp, TypeOK
<1>5. CASE Check(c) \/ CheckMtime(c) \/ Inspect(c) \/ InspectMtime(c) \/ Verify(c)
             \/ CheckingFails(c)
  BY <1>5, GotoTyped DEF Check, CheckMtime, Inspect, InspectMtime, Verify,
     CheckingFails, files, TypeOK
<1>6. CASE Steal(c)
  BY <1>0, <1>6, GotoTyped, NextRoundTyped DEF Steal, Exists, files, TypeOK
<1>7. CASE Restore(c)
  BY <1>0, <1>7, GotoTyped DEF Restore, GiveUp, Exists, files, TypeOK
<1>8. CASE Reread(c)
  BY <1>0, <1>8 DEF Reread, Exists, TypeOK, CarriedOK
<1>9. CASE Recreate(c)
  <2>1. carried[c] \in File /\ carried[c].by \in Authors
    BY <1>9 DEF Recreate, CarriedOK, File
  <2>2. QED
    BY <1>9, <2>1, GotoTyped, ForgetTyped, TornType DEF Recreate, files, TypeOK
<1>10. CASE Rewrite(c)
  <2>1. carried[c].torn \in BOOLEAN /\ carried[c].expired \in BOOLEAN
    BY <1>10 DEF Rewrite, CarriedOK, File
  <2>2. /\ path' \in File \cup {NoFile}
        /\ steal' \in [Pids -> File \cup {NoFile}]
    BY <1>10, <2>1, FillTyped, CloseTyped DEF Rewrite
  <2>3. QED
    BY <1>10, <2>2, ForgetTyped DEF Rewrite
<1>11. CASE RestoringFails(c)
  BY <1>11, CloseTyped, ForgetTyped DEF RestoringFails
<1>12. CASE DropCopy(c) \/ Discard(c)
  BY <1>0, <1>12, GotoTyped DEF DropCopy, Discard, GiveUp, TypeOK
<1>13. CASE Claim(c)
  BY <1>0, <1>13, GotoTyped, NextRoundTyped, TornType DEF Claim, files, TypeOK
<1>14. CASE Release(c)
  BY <1>14 DEF Release, TypeOK, CarriedOK
<1>15. QED
  BY <1>1, <1>2, <1>3, <1>4, <1>5, <1>6, <1>7, <1>8, <1>9, <1>10, <1>11,
     <1>12, <1>13, <1>14 DEF Acquire

(* A crash and the passing of time keep the types. *)
LEMMA EnvironmentTyped ==
  ASSUME Typed, AgePath \/ \E p \in Pids : Crash(p) \/ AgeCopy(p)
  PROVE  Typed'
<1>1. CASE AgePath
  <2>1. path \in File
    BY <1>1 DEF AgePath, MayAge, Exists, Typed, TypeOK
  <2>2. path' \in File
    BY <1>1, <2>1, AgedType DEF AgePath
  <2>3. QED
    BY <1>1, <2>2 DEF AgePath, Typed, TypeOK, CarriedOK
<1>2. ASSUME NEW p \in Pids, AgeCopy(p) PROVE Typed'
  <2>1. steal[p] \in File
    BY <1>2 DEF AgeCopy, MayAge, Exists, Typed, TypeOK
  <2>2. Aged(steal[p]) \in File
    BY <2>1, AgedType
  <2>3. QED
    BY <1>2, <2>2 DEF AgeCopy, Typed, TypeOK, CarriedOK
<1>3. ASSUME NEW p \in Pids, Crash(p) PROVE Typed'
  <2> DEFINE victims == {c \in Contenders : PidOf[c] = p}
  <2>1. /\ path' \in File \cup {NoFile}
        /\ steal' \in [Pids -> File \cup {NoFile}]
    BY <1>3, CloseTyped DEF Crash, Typed
  <2>2. alive' \subseteq Pids
    BY <1>3 DEF Crash, Typed, TypeOK
  <2>3. /\ pc' \in [Contenders -> Labels]
        /\ \A c \in Contenders : pc'[c] \in {"recreate", "rewrite"} => pc'[c] = pc[c]
    BY <1>3 DEF Crash, Typed, TypeOK, Labels
  <2>4. QED
    BY <1>3, <2>1, <2>2, <2>3 DEF Crash, Typed, TypeOK, CarriedOK
<1>4. QED
  BY <1>1, <1>2, <1>3

(* The types are inductive. *)
LEMMA NextTyped == Typed /\ [Next]_vars => Typed'
<1> SUFFICES ASSUME Typed, [Next]_vars PROVE Typed'
  OBVIOUS
<1>1. CASE UNCHANGED vars
  BY <1>1 DEF Typed, TypeOK, CarriedOK, vars
<1>2. CASE Next
  BY <1>2, ContenderTyped, EnvironmentTyped DEF Next
<1>3. QED
  BY <1>1, <1>2

(* Every reachable state of run_lock.py's ephemeral lock is well typed: in *)
(* particular the reclaim loop never exceeds its rounds.                   *)
THEOREM TypeCorrect == Spec => []TypeOK
<1>1. Typed => TypeOK
  BY DEF Typed
<1>2. QED
  BY InitTyped, NextTyped, <1>1, PTL DEF Spec

-----------------------------------------------------------------------------
(* The stolen copy a thread removes is stale. *)

(* The writer's own step leaves no file open for writing in its name, and  *)
(* what it wrote is young.                                                 *)
LEMMA FilledWriters ==
  ASSUME NEW f \in File \cup {NoFile}, NEW c \in Contenders, NEW e \in BOOLEAN,
         WriterOK(f)
  PROVE  LET g == Filled(f, c, e)
         IN /\ Exists(g) <=> Exists(f)
            /\ Exists(g) /\ g.writer # Nobody =>
                 g.writer # c /\ g.torn /\ g.young /\ pc[g.writer] \in Writing
            /\ g # f => g.young /\ Exists(f) /\ f.writer = c
BY LockAssumption DEF Filled, Exists, File, WriterOK

(* The loss of a descriptor changes nothing else. *)
LEMMA ClosedWriters ==
  ASSUME NEW f \in File \cup {NoFile}, NEW C \in SUBSET Contenders, WriterOK(f)
  PROVE  LET g == Closed(f, C)
         IN /\ Exists(g) <=> Exists(f)
            /\ Exists(g) /\ g.writer # Nobody =>
                 g.writer \notin C /\ g.torn /\ g.young /\ pc[g.writer] \in Writing
            /\ Exists(f) => /\ g.torn = f.torn /\ g.young = f.young
                            /\ g.by = f.by /\ g.expired = f.expired
BY LockAssumption DEF Closed, Exists, File, WriterOK

(* While a thread that is not writing moves on, the writers go on writing. *)
LEMMA WritersGoOn ==
  ASSUME Typed, NEW c \in Contenders, NEW l \in Labels, pc[c] \notin Writing,
         pc' = [pc EXCEPT ![c] = l], NEW f \in File \cup {NoFile}, WriterOK(f)
  PROVE  WriterOK(f)'
BY LockAssumption DEF WriterOK, Exists, File, Typed, TypeOK

(* A thread that has written, or failed to, leaves the others writing. *)
LEMMA FillKeepsWriters ==
  ASSUME Typed, Writers, NEW c \in Contenders, NEW l \in Labels, NEW e \in BOOLEAN,
         Fill(c, e), pc' = [pc EXCEPT ![c] = l]
  PROVE  Writers'
<1>1. WriterOK(path)'
  BY FilledWriters, LockAssumption
  DEF Fill, Writers, WriterOK, Typed, TypeOK, File, Exists
<1>2. ASSUME NEW p \in Pids PROVE WriterOK(steal[p])'
  <2>1. steal[p] \in File \cup {NoFile} /\ WriterOK(steal[p])
    BY DEF Typed, TypeOK, Writers
  <2>2. steal'[p] = Filled(steal[p], c, e)
    BY DEF Fill
  <2>3. LET g == steal'[p]
        IN Exists(g) /\ g.writer # Nobody =>
             g.writer # c /\ g.torn /\ g.young /\ pc[g.writer] \in Writing
    BY <2>1, <2>2, FilledWriters
  <2>4. steal'[p] \in File \cup {NoFile}
    BY <2>1, <2>2, FilledType
  <2>5. QED
    BY <2>3, <2>4 DEF WriterOK, Typed, TypeOK, File, Exists
<1>3. QED
  BY <1>1, <1>2 DEF Writers

(* So do threads whose descriptors are closed. *)
LEMMA CloseKeepsWriters ==
  ASSUME Typed, Writers, NEW C \in SUBSET Contenders, Close(C),
         pc' \in [Contenders -> Labels],
         \A c \in Contenders \ C : pc'[c] = pc[c]
  PROVE  Writers'
<1>1. ASSUME NEW f \in File \cup {NoFile}, WriterOK(f)
      PROVE  WriterOK(Closed(f, C))'
  <2> DEFINE g == Closed(f, C)
  <2>1. Exists(g) /\ g.writer # Nobody =>
          g.writer \notin C /\ g.torn /\ g.young /\ pc[g.writer] \in Writing
    BY <1>1, ClosedWriters
  <2>2. g \in File \cup {NoFile}
    BY ClosedType
  <2>3. QED
    BY <2>1, <2>2 DEF WriterOK, File, Exists
<1>2. WriterOK(path)'
  BY <1>1 DEF Close, Writers, Typed, TypeOK, WriterOK
<1>3. ASSUME NEW p \in Pids PROVE WriterOK(steal[p])'
  BY <1>1 DEF Close, Writers, Typed, TypeOK, WriterOK
<1>4. QED
  BY <1>2, <1>3 DEF Writers

(* Every system call keeps the writers writing. *)
LEMMA ContenderWriters ==
  ASSUME Typed, Typed', Writers, NEW c \in Contenders, Acquire(c) \/ Release(c)
  PROVE  Writers'
<1> USE DEF Writing, Labels, Calls
<1>0. PidOf[c] \in Pids
  BY LockAssumption DEF Authors
<1>1. CASE UNCHANGED files /\ (pc' = pc \/ \E l \in Labels : pc' = [pc EXCEPT ![c] = l])
           /\ pc[c] \notin Writing
  BY <1>1, WritersGoOn DEF files, Writers, Typed, TypeOK, WriterOK
<1>2. CASE Create(c) \/ Claim(c)
  <2>1. CASE UNCHANGED path
    <3>1. Exists(path)
      BY <1>2, <2>1, TornType, LockAssumption DEF Create, Claim, Exists, Authors
    <3>2. QED
      BY <1>1, <1>2, <3>1 DEF Create, Claim, NextRound, files
  <2>2. CASE path' = Torn(c, c) /\ pc' = [pc EXCEPT ![c] = pc'[c]] /\ pc'[c] \in Writing
    <3>1. WriterOK(path)'
      BY <2>2 DEF Torn, WriterOK
    <3>2. UNCHANGED steal /\ pc[c] \notin Writing
      BY <1>2, <2>2 DEF Create, Claim, files
    <3>3. QED
      BY <2>2, <3>1, <3>2, WritersGoOn DEF Writers, Typed, TypeOK, WriterOK
  <2>3. QED
    BY <1>2, <2>1, <2>2 DEF Create, Claim, Goto, NextRound, files, Typed, TypeOK
<1>3. CASE Write(c)
  BY <1>3, FillKeepsWriters DEF Write, Goto
<1>4. CASE AcquiringFails(c) \/ RestoringFails(c)
  BY <1>4, CloseKeepsWriters DEF AcquiringFails, RestoringFails, Goto, Forget, Typed, TypeOK
<1>5. CASE Check(c) \/ CheckMtime(c) \/ Inspect(c) \/ InspectMtime(c) \/ Verify(c)
             \/ CheckingFails(c) \/ Reread(c)
  BY <1>1, <1>5 DEF Check, CheckMtime, Inspect, InspectMtime, Verify,
     CheckingFails, Reread, Goto, files
<1>6. CASE Steal(c) \/ Restore(c) \/ Drop(c) \/ DropCopy(c) \/ Discard(c) \/ Release(c)
  <2>1. /\ pc[c] \notin Writing
        /\ \E l \in Labels : pc' = [pc EXCEPT ![c] = l]
    BY <1>6 DEF Steal, Restore, Drop, DropCopy, Discard, Release, GiveUp, Goto, NextRound
  <2>2. /\ path' \in {NoFile, path, steal[PidOf[c]]}
        /\ \A p \in Pids : steal'[p] \in {NoFile, path, steal[p]}
    BY <1>0, <1>6 DEF Steal, Restore, Drop, DropCopy, Discard, Release, files, Typed, TypeOK
  <2>3. ASSUME NEW f \in File \cup {NoFile}, WriterOK(f) PROVE WriterOK(f)'
    BY <2>1, <2>3, WritersGoOn
  <2>4. WriterOK(NoFile)
    BY DEF WriterOK, Exists
  <2>5. WriterOK(path)'
    BY <1>0, <2>2, <2>3, <2>4 DEF Writers, Typed, TypeOK, WriterOK
  <2>6. ASSUME NEW p \in Pids PROVE WriterOK(steal[p])'
    BY <2>2, <2>3, <2>4 DEF Writers, Typed, TypeOK, WriterOK
  <2>7. QED
    BY <2>5, <2>6 DEF Writers
<1>7. CASE Recreate(c)
  <2>1. CASE UNCHANGED files
    BY <1>1, <1>7, <2>1 DEF Recreate, Forget, Goto
  <2>2. CASE path' = Torn(carried[c].by, c) /\ UNCHANGED steal /\ Goto(c, "rewrite")
    <3>1. WriterOK(path)'
      BY <2>2 DEF Torn, WriterOK, Goto, Typed, TypeOK
    <3>2. QED
      BY <1>7, <2>2, <3>1, WritersGoOn DEF Recreate, Goto, Writers, Typed, TypeOK, WriterOK
  <2>3. QED
    BY <1>7, <2>1, <2>2 DEF Recreate
<1>8. CASE Rewrite(c)
  <2>1. carried[c].expired \in BOOLEAN
    BY <1>8 DEF Rewrite, Typed, CarriedOK, File
  <2>2. CASE Close({c})
    BY <1>8, <2>2, CloseKeepsWriters DEF Rewrite, Forget, Typed, TypeOK
  <2>3. CASE Fill(c, carried[c].expired)
    BY <1>8, <2>1, <2>3, FillKeepsWriters DEF Rewrite, Forget
  <2>4. QED
    BY <1>8, <2>2, <2>3 DEF Rewrite
<1>9. QED
  BY <1>2, <1>3, <1>4, <1>5, <1>6, <1>7, <1>8 DEF Acquire

(* A file that ages, unless threads are suspended between system calls,    *)
(* is not open for writing.                                                *)
LEMMA AgesUnwritten ==
  ASSUME "call" \notin Suspends, NEW f \in File, WriterOK(f), MayAge(f)
  PROVE  f.writer = Nobody
BY LockAssumption DEF MayAge, WriterOK, File

(* Crashes and the passing of time keep the writers writing. *)
LEMMA EnvironmentWriters ==
  ASSUME "call" \notin Suspends, Typed, Typed', Writers,
         AgePath \/ \E p \in Pids : Crash(p) \/ AgeCopy(p)
  PROVE  Writers'
<1>1. CASE AgePath
  <2>1. path \in File /\ WriterOK(path) /\ MayAge(path)
    BY <1>1 DEF AgePath, MayAge, Exists, Typed, TypeOK, Writers
  <2>2. path'.writer = Nobody
    BY <1>1, <2>1, AgesUnwritten DEF AgePath, Aged, File
  <2>3. QED
    BY <1>1, <2>2 DEF AgePath, Writers, WriterOK
<1>2. ASSUME NEW p \in Pids, AgeCopy(p) PROVE Writers'
  <2>1. steal[p] \in File /\ WriterOK(steal[p]) /\ MayAge(steal[p])
    BY <1>2 DEF AgeCopy, MayAge, Exists, Typed, TypeOK, Writers
  <2>2. steal'[p].writer = Nobody
    <3>1. steal'[p] = Aged(steal[p])
      BY <1>2 DEF AgeCopy, Typed, TypeOK
    <3>2. Aged(steal[p]).writer = steal[p].writer
      BY <2>1 DEF Aged, File
    <3>3. QED
      BY <2>1, <3>1, <3>2, AgesUnwritten
  <2>3. \A q \in Pids : q # p => steal'[q] = steal[q]
    BY <1>2 DEF AgeCopy, Typed, TypeOK
  <2>4. QED
    BY <1>2, <2>2, <2>3 DEF AgeCopy, Writers, WriterOK
<1>3. ASSUME NEW p \in Pids, Crash(p) PROVE Writers'
  <2> DEFINE victims == {c \in Contenders : PidOf[c] = p}
  <2>1. Close(victims) /\ \A c \in Contenders \ victims : pc'[c] = pc[c]
    BY <1>3 DEF Crash
  <2>2. QED
    BY <2>1, CloseKeepsWriters DEF Typed, TypeOK
<1>4. QED
  BY <1>1, <1>2, <1>3

(* A stale copy stays stale, and a copy being inspected stays torn or      *)
(* young, whatever another thread writes or closes.                        *)
LEMMA CopyStays ==
  ASSUME NEW f \in File \cup {NoFile}, WriterOK(f), NEW g,
         \/ g = f
         \/ \E c \in Contenders, e \in BOOLEAN : g = Filled(f, c, e)
         \/ \E C \in SUBSET Contenders : g = Closed(f, C)
  PROVE  /\ StalePrey(f) => StalePrey(g)
         /\ (Exists(f) => f.torn \/ f.young) => (Exists(g) => g.torn \/ g.young)
<1>1. CASE g = f
  BY <1>1
<1>2. ASSUME NEW c \in Contenders, NEW e \in BOOLEAN, g = Filled(f, c, e)
      PROVE  /\ StalePrey(f) => g = f
             /\ g # f => g.young
  <2>1. g # f => g.young /\ Exists(f) /\ f.writer = c
    BY <1>2, FilledWriters
  <2>2. StalePrey(f) /\ Exists(f) => f.writer = Nobody
    BY DEF StalePrey, WriterOK, Young
  <2>3. QED
    BY <2>1, <2>2, LockAssumption
<1>3. ASSUME NEW C \in SUBSET Contenders, g = Closed(f, C)
      PROVE  /\ Exists(g) <=> Exists(f)
             /\ Exists(f) => /\ g.torn = f.torn /\ g.young = f.young
                             /\ g.by = f.by /\ g.expired = f.expired
  BY <1>3, ClosedWriters
<1>4. QED
  BY <1>1, <1>2, <1>3 DEF StalePrey, Young, HolderLive

(* What a system call of one thread does to the copy of another process. *)
LEMMA OthersCopy ==
  ASSUME Typed, OneThreadEach, NEW c \in Contenders, NEW d \in Contenders, c # d,
         Acquire(d) \/ Release(d)
  PROVE  LET f == steal[PidOf[c]]
             g == steal'[PidOf[c]]
         IN /\ pc'[c] = pc[c]
            /\ alive' = alive
            /\ \/ g = f
               \/ \E e \in BOOLEAN : g = Filled(f, d, e)
               \/ g = Closed(f, {d})
<1> USE DEF Labels, Calls
<1>0. PidOf[c] \in Pids /\ PidOf[d] \in Pids /\ PidOf[c] # PidOf[d]
  BY LockAssumption DEF Authors, OneThreadEach
<1>1. pc'[c] = pc[c] /\ alive' = alive
  BY DEF Acquire, Create, Write, Drop, Check, CheckMtime, Steal, Inspect, InspectMtime,
     Restore, Reread, Recreate, Rewrite, DropCopy, Discard, Claim, Verify, Release,
     AcquiringFails, CheckingFails, RestoringFails,
     Goto, Forget, GiveUp, NextRound, Typed, TypeOK
<1>2. CASE Write(d) \/ Rewrite(d) \/ AcquiringFails(d) \/ RestoringFails(d)
  <2>1. Rewrite(d) => carried[d].expired \in BOOLEAN
    BY DEF Rewrite, Typed, CarriedOK, File
  <2>2. Close({d}) \/ \E e \in BOOLEAN : Fill(d, e)
    BY <1>2, <2>1 DEF Write, Rewrite, AcquiringFails, RestoringFails
  <2>3. QED
    BY <1>0, <1>1, <2>2 DEF Fill, Close
<1>3. CASE ~(Write(d) \/ Rewrite(d) \/ AcquiringFails(d) \/ RestoringFails(d))
  <2>1. steal'[PidOf[c]] = steal[PidOf[c]]
    BY <1>0, <1>3 DEF Acquire, Create, Drop, Check, CheckMtime, Steal,
       Inspect, InspectMtime, Restore, Reread, Recreate, CheckingFails,
       DropCopy, Discard, Claim, Verify, Release, files, Typed, TypeOK
  <2>2. QED
    BY <1>1, <2>1
<1>4. QED
  BY <1>2, <1>3

(* A thread comes to the second call of an inspection, or to the removal   *)
(* of its copy, by the inspection alone.                                   *)
LEMMA OwnCopy ==
  ASSUME IInv, InspectionReads, NEW c \in Contenders, Acquire(c) \/ Release(c)
  PROVE  LET f == steal[PidOf[c]]
         IN /\ pc'[c] = "inspect_mtime" => UNCHANGED <<steal, alive>> /\ (Exists(f) => f.torn)
            /\ pc'[c] = "discard" => UNCHANGED <<steal, alive>> /\ StalePrey(f)
<1>1. pc'[c] \in {"inspect_mtime", "discard"} => Inspect(c) \/ InspectMtime(c)
  BY DEF Acquire, Create, Write, Drop, Check, CheckMtime, Steal,
     Restore, Reread, Recreate, Rewrite, DropCopy, Discard, Claim, Verify, Release,
     AcquiringFails, CheckingFails, RestoringFails, InspectionReads,
     Goto, Forget, GiveUp, NextRound, IInv, Typed, TypeOK
<1>2. CASE Inspect(c)
  BY <1>2 DEF Inspect, Readable, StalePrey, Goto, files, IInv, Typed, TypeOK
<1>3. CASE InspectMtime(c)
  BY <1>3 DEF InspectMtime, Inspected, StalePrey, Young, Goto, files, IInv, Typed, TypeOK
<1>4. QED
  BY <1>1, <1>2, <1>3

(* What a thread has found out about its copy stays true. *)
LEMMA NextCopies ==
  ASSUME IInv, OneThreadEach, InspectionReads, "call" \notin Suspends, Next
  PROVE  Inspected' /\ DiscardsOnlyStale'
<1> SUFFICES ASSUME NEW c \in Contenders
             PROVE  /\ (pc[c] = "inspect_mtime" /\ Exists(steal[PidOf[c]])
                          => steal[PidOf[c]].torn \/ steal[PidOf[c]].young)'
                    /\ (pc[c] = "discard" => StalePrey(steal[PidOf[c]]))'
  BY DEF Inspected, DiscardsOnlyStale
<1> DEFINE f == steal[PidOf[c]]
           g == steal'[PidOf[c]]
<1>0. /\ PidOf[c] \in Pids
      /\ f \in File \cup {NoFile} /\ WriterOK(f)
  BY LockAssumption DEF Authors, IInv, Typed, TypeOK, Writers
<1>1. /\ pc[c] = "inspect_mtime" /\ Exists(f) => f.torn \/ f.young
      /\ pc[c] = "discard" => StalePrey(f)
  BY DEF IInv, Inspected, DiscardsOnlyStale
<1>2. CASE Acquire(c) \/ Release(c)
  BY <1>2, OwnCopy DEF StalePrey, HolderLive, Young, Exists
<1>3. ASSUME NEW d \in Contenders, d # c, Acquire(d) \/ Release(d)
      PROVE  /\ pc'[c] = "inspect_mtime" /\ Exists(g) => g.torn \/ g.young
             /\ pc'[c] = "discard" => StalePrey(f)'
  <2>1. /\ pc'[c] = pc[c] /\ alive' = alive
        /\ \/ g = f
           \/ \E e \in BOOLEAN : g = Filled(f, d, e)
           \/ g = Closed(f, {d})
    BY <1>3, OthersCopy DEF IInv
  <2>2. /\ StalePrey(f) => StalePrey(g)
        /\ (Exists(f) => f.torn \/ f.young) => (Exists(g) => g.torn \/ g.young)
    BY <1>0, <2>1, CopyStays
  <2>3. QED
    BY <1>1, <2>1, <2>2 DEF StalePrey, HolderLive, Young, Exists
<1>4. ASSUME NEW p \in Pids, Crash(p)
      PROVE  /\ pc'[c] = "inspect_mtime" /\ Exists(g) => g.torn \/ g.young
             /\ pc'[c] = "discard" => StalePrey(f)'
  <2> DEFINE victims == {d \in Contenders : PidOf[d] = p}
  <2>1. /\ g = Closed(f, victims)
        /\ alive' \subseteq alive
        /\ pc'[c] \in {"dead", pc[c]}
    BY <1>0, <1>4 DEF Crash, Close, IInv, Typed, TypeOK
  <2>2. /\ StalePrey(f) => StalePrey(g)
        /\ (Exists(f) => f.torn \/ f.young) => (Exists(g) => g.torn \/ g.young)
    BY <1>0, <2>1, CopyStays
  <2>3. QED
    BY <1>1, <2>1, <2>2 DEF StalePrey, HolderLive, Young, Exists
<1>5. CASE AgePath
  BY <1>1, <1>5 DEF AgePath, StalePrey, HolderLive, Young, Exists
<1>6. ASSUME NEW p \in Pids, AgeCopy(p)
      PROVE  /\ pc'[c] = "inspect_mtime" /\ Exists(g) => g.torn \/ g.young
             /\ pc'[c] = "discard" => StalePrey(f)'
  <2>1. pc' = pc /\ alive' = alive
    BY <1>6 DEF AgeCopy
  <2>2. pc[c] \in {"inspect_mtime", "discard"} => PidOf[c] # p
    BY <1>6 DEF AgeCopy, Gone, Active
  <2>3. PidOf[c] # p => g = f
    BY <1>0, <1>6 DEF AgeCopy, IInv, Typed, TypeOK
  <2>4. QED
    BY <1>1, <2>1, <2>2, <2>3 DEF StalePrey, HolderLive, Young, Exists
<1>7. QED
  BY <1>2, <1>3, <1>4, <1>5, <1>6 DEF Next, StalePrey, HolderLive, Young, Exists

(* The invariant holds initially. *)
LEMMA InitInv == Init => IInv
<1> SUFFICES ASSUME Init PROVE IInv
  OBVIOUS
<1>1. Writers
  BY DEF Init, Writers, WriterOK, Exists
<1>2. QED
  BY <1>1, InitTyped DEF Init, IInv, Inspected, DiscardsOnlyStale

(* The invariant is inductive. *)
LEMMA NextInv ==
  ASSUME OneThreadEach, InspectionReads, "call" \notin Suspends
  PROVE  IInv /\ [Next]_vars => IInv'
<1> SUFFICES ASSUME IInv, [Next]_vars PROVE IInv'
  OBVIOUS
<1>1. CASE UNCHANGED vars
  BY <1>1 DEF vars, IInv, Typed, TypeOK, CarriedOK, Writers, WriterOK, Inspected,
     DiscardsOnlyStale, StalePrey, HolderLive, Young, Exists
<1>2. CASE Next
  <2>1. Typed'
    BY NextTyped DEF IInv
  <2>2. Writers'
    BY <1>2, <2>1, ContenderWriters, EnvironmentWriters DEF Next, IInv
  <2>3. QED
    BY <1>2, <2>1, <2>2, NextCopies DEF IInv
<1>3. QED
  BY <1>1, <1>2

(* Whatever else fails, however many processes contend or are killed, the  *)
(* copy _acquire_ephemeral removes is stale: judged in isolation, it is no *)
(* complete lock of a live process within its bound, and no file that is   *)
(* being written.  It takes one thread per process, no suspension between  *)
(* two system calls, and an inspection that can read the copy: lock_threads*)
(* and lock_reads refute the property without the first and the last.      *)
THEOREM DiscardCorrect ==
  ASSUME OneThreadEach, InspectionReads, "call" \notin Suspends
  PROVE  Spec => []DiscardsOnlyStale
<1>1. IInv => DiscardsOnlyStale
  BY DEF IInv
<1>2. QED
  BY InitInv, NextInv, <1>1, PTL DEF Spec

-----------------------------------------------------------------------------
(* Mutual exclusion between two processes, for every number of reclaim     *)
(* rounds, every crash and any lockfile left behind, when the theft, the   *)
(* removal of the copy, the claim and the re-verification may fail.        *)

Copy(c) == steal[PidOf[c]]

(* Whoever has created the file at the path and has not given up yet. *)
Owning == {"write", "claim_write", "verify", "held", "drop"}
Own(c) == pc[c] \in Owning

(* From the theft of the file at the path to its return. *)
Moving == {"inspect", "inspect_mtime", "restore"}

(* Where a contender comes when its rename back fails, which it does not. *)
Recreating == {"reread", "recreate", "rewrite", "dropcopy"}

Stale(f) == IF f.torn THEN ~f.young ELSE ~HolderLive(f)

(* The path of an owner c holds its lock, unless x has just stolen it. *)
OwnOK(c, x) ==
  Own(c) =>
    /\ ~Own(x)
    /\ Exists(path) => path.by = c /\ ~Stale(path)
    /\ ~Exists(path) /\ pc[x] # "dead" =>
         pc[x] \in Moving /\ Exists(Copy(x)) /\ ~Stale(Copy(x))

(* The copy is c's, and c has created no other file it has left behind. *)
Stolen(c, x) ==
  /\ Copy(x).by = c
  /\ pc[c] \in Owning \cup {"idle", "dead"}
  /\ pc[c] = "idle" => ~Exists(path)

(* What x has stolen that is not stale is c's lock. *)
InspectOK(c, x) ==
  /\ pc[x] = "inspect" /\ Exists(Copy(x)) /\ ~Stale(Copy(x)) => Stolen(c, x)
  /\ pc[x] = "inspect_mtime" /\ Exists(Copy(x)) /\ Copy(x).young => Stolen(c, x)

ReturnOK(c, x) ==
  pc[x] = "restore" =>
    /\ Exists(Copy(x))
    /\ Stolen(c, x)
    /\ pc[c] # "dead" => ~Stale(Copy(x))

(* What x is about to steal is stale, or c's lock. *)
AimOK(c, x) ==
  /\ pc[x] = "mtime" /\ Exists(path) => path.torn \/ path.young
  /\ pc[x] = "steal" /\ Exists(path) /\ ~Stale(path) =>
       path.by = c /\ pc[c] \in Owning \cup {"dead"}

Apart(c, x) ==
  OwnOK(c, x) /\ InspectOK(c, x) /\ ReturnOK(c, x) /\ AimOK(c, x) /\ pc[x] \notin Recreating

(* Only a killed process is not alive. *)
AliveOK == \A c \in Contenders : pc[c] # "dead" => PidOf[c] \in alive

(* What was written within the grace is within its bound. *)
YoungFile(f) == Exists(f) /\ f.young => ~f.expired
YoungOK == YoungFile(path) /\ \A p \in Pids : YoungFile(steal[p])

(* An empty file is still being written, unless its author was killed. *)
TornFile(f) ==
  Exists(f) /\ f.torn => f.by \notin Contenders \/ pc[f.by] = "dead" \/ f.writer = f.by
TornOK == TornFile(path) /\ \A p \in Pids : TornFile(steal[p])

Two(c, x) ==
  /\ Contenders = {c, x}
  /\ PidOf[c] # PidOf[x]
  /\ "call" \notin Suspends
  /\ "hold" \notin Suspends
  /\ Failing \subseteq {"steal", "discard", "claim", "verify"}

Before(c, x) ==
  IInv /\ IInv' /\ AliveOK /\ YoungOK /\ TornOK /\ Apart(c, x) /\ Apart(x, c)
After(c, x) == Apart(c, x)' /\ Apart(x, c)'

-----------------------------------------------------------------------------
(* The files. *)

LEMMA NoFileNotFile == NoFile \notin File
BY LockAssumption

LEMMA FilesTyped ==
  ASSUME NEW c, NEW x, Two(c, x), IInv
  PROVE  /\ path \in File \cup {NoFile}
         /\ Copy(c) \in File \cup {NoFile}
         /\ Copy(x) \in File \cup {NoFile}
         /\ pc \in [Contenders -> Labels]
         /\ c \in Contenders /\ x \in Contenders /\ c # x
BY LockAssumption DEF IInv, Typed, TypeOK, Copy, Two, Authors

LEMMA PidsTyped ==
  ASSUME NEW c, NEW x, Two(c, x)
  PROVE  PidOf[c] \in Pids /\ PidOf[x] \in Pids /\ PidOf[c] # PidOf[x]
BY LockAssumption DEF Two, Authors

(* A step of x to the label l that leaves the files alone. *)
Moves(c, x, l) ==
  /\ pc'[x] = l /\ pc'[c] = pc[c]
  /\ path' = path
  /\ Copy(x)' = Copy(x) /\ Copy(c)' = Copy(c)
  /\ carried'[c] = carried[c] /\ carried'[x] = carried[x]
  /\ alive' = alive

LEMMA GotoMoves ==
  ASSUME NEW c, NEW x, Two(c, x), IInv, NEW l \in Labels, Goto(x, l), UNCHANGED files
  PROVE  Moves(c, x, l)
BY FilesTyped DEF Goto, Moves, files, Copy

LEMMA NextRoundMoves ==
  ASSUME NEW c, NEW x, Two(c, x), IInv, NextRound(x), UNCHANGED files
  PROVE  Moves(c, x, "check") \/ Moves(c, x, "idle")
BY FilesTyped DEF NextRound, Moves, files, Copy

(* Such a step keeps x and c apart if x is right to be at l. *)
LEMMA MovesApart ==
  ASSUME NEW c, NEW x, Two(c, x), Before(c, x), NEW l \in Labels, Moves(c, x, l),
         pc[x] \notin {"idle", "dead"}, l # "dead",
         l \in Owning <=> Own(x),
         Own(c) /\ ~Exists(path) => l \in Moving,
         l \notin Recreating,
         InspectOK(c, x)', ReturnOK(c, x)', AimOK(c, x)'
  PROVE  After(c, x)
<1> USE FilesTyped DEF Moves, Before, Apart, Owning, Moving
<1>1. OwnOK(c, x)'
  BY DEF OwnOK, Own, Stale, HolderLive, Exists
<1>2. OwnOK(x, c)'
  BY DEF OwnOK, Own, Stale, HolderLive, Exists
<1>3. InspectOK(x, c)'
  BY DEF InspectOK, Stolen, Own, Stale, HolderLive, Exists
<1>4. ReturnOK(x, c)'
  BY DEF ReturnOK, Stolen, Own, Stale, HolderLive, Exists
<1>5. AimOK(x, c)'
  BY DEF AimOK, Own, Stale, HolderLive, Exists
<1>6. QED
  BY <1>1, <1>2, <1>3, <1>4, <1>5 DEF After

(* At most labels there is nothing to be right about. *)
LEMMA PlainApart ==
  ASSUME NEW c, NEW x, pc'[x] \notin Moving \cup {"mtime", "steal"}
  PROVE  InspectOK(c, x)' /\ ReturnOK(c, x)' /\ AimOK(c, x)'
BY DEF InspectOK, ReturnOK, AimOK, Moving

-----------------------------------------------------------------------------
(* Reading the files. *)

LEMMA CheckApart ==
  ASSUME NEW c, NEW x, Two(c, x), Before(c, x), Check(x)
  PROVE  After(c, x)
<1> DEFINE l == IF ~Readable(path) THEN "mtime"
                ELSE IF HolderLive(path) THEN "idle" ELSE "steal"
<1>1. l \in Labels /\ l \notin Owning \cup Moving \cup Recreating /\ l # "dead"
  BY DEF Labels, Calls, Owning, Moving, Recreating
<1>2. Moves(c, x, l)
  BY <1>1, GotoMoves DEF Check, Before
<1>3. pc[x] = "check"
  BY DEF Check
<1>4. InspectOK(c, x)' /\ ReturnOK(c, x)'
  BY <1>1, <1>2 DEF Moves, InspectOK, ReturnOK, Moving
<1>5. AimOK(c, x)'
  BY <1>2 DEF Moves, AimOK, Readable, Exists, Stale, HolderLive
<1>6. ~(Own(c) /\ ~Exists(path)) /\ ~Own(x)
  BY <1>3 DEF Before, Apart, OwnOK, Moving, Own, Owning
<1> HIDE DEF l
<1>7. QED
  BY <1>1, <1>2, <1>3, <1>4, <1>5, <1>6, MovesApart

LEMMA CheckMtimeApart ==
  ASSUME NEW c, NEW x, Two(c, x), Before(c, x), CheckMtime(x)
  PROVE  After(c, x)
<1> DEFINE l == IF Young(path) THEN "idle" ELSE "steal"
<1>1. l \in Labels /\ l \notin Owning \cup Moving \cup Recreating /\ l \notin {"dead", "mtime"}
  BY DEF Labels, Calls, Owning, Moving, Recreating
<1>2. Moves(c, x, l)
  BY <1>1, GotoMoves DEF CheckMtime, Before
<1>3. pc[x] = "mtime"
  BY DEF CheckMtime
<1>4. InspectOK(c, x)' /\ ReturnOK(c, x)'
  BY <1>1, <1>2 DEF Moves, InspectOK, ReturnOK, Moving
<1>5. AimOK(c, x)'
  BY <1>2, <1>3 DEF Before, Apart, Moves, AimOK, Young, Exists, Stale, HolderLive
<1>6. ~(Own(c) /\ ~Exists(path)) /\ ~Own(x)
  BY <1>3 DEF Before, Apart, OwnOK, Moving, Own, Owning
<1> HIDE DEF l
<1>7. QED
  BY <1>1, <1>2, <1>3, <1>4, <1>5, <1>6, MovesApart

LEMMA InspectApart ==
  ASSUME NEW c, NEW x, Two(c, x), Before(c, x), Inspect(x)
  PROVE  After(c, x)
<1> DEFINE l == IF ~Readable(Copy(x)) THEN "inspect_mtime"
                ELSE IF HolderLive(Copy(x)) THEN "restore" ELSE "discard"
<1>1. l \in Labels /\ l \notin Owning \cup Recreating
      /\ l \notin {"dead", "mtime", "steal"}
  BY DEF Labels, Calls, Owning, Recreating
<1>2. Moves(c, x, l)
  BY <1>1, GotoMoves DEF Inspect, Before, Copy
<1>3. pc[x] = "inspect"
  BY DEF Inspect
<1>4. InspectOK(c, x)'
  BY <1>2, <1>3 DEF Moves, InspectOK, Before, Apart, Readable, Exists, Stale, HolderLive, Stolen
<1>5. ReturnOK(c, x)'
  BY <1>2, <1>3 DEF Moves, InspectOK, ReturnOK, Before, Apart, Readable,
     Exists, Stale, HolderLive, Stolen
<1>6. AimOK(c, x)'
  BY <1>1, <1>2 DEF Moves, AimOK
<1>7. (Own(c) /\ ~Exists(path) => l \in Moving) /\ ~Own(x)
  BY <1>3 DEF Before, Apart, OwnOK, Moving, Own, Owning, Readable, Stale
<1> HIDE DEF l
<1>8. QED
  BY <1>1, <1>2, <1>3, <1>4, <1>5, <1>6, <1>7, MovesApart

LEMMA InspectMtimeApart ==
  ASSUME NEW c, NEW x, Two(c, x), Before(c, x), InspectMtime(x)
  PROVE  After(c, x)
<1> DEFINE l == IF Young(Copy(x)) THEN "restore" ELSE "discard"
<1>0. /\ PidOf[c] \in Pids /\ PidOf[x] \in Pids
      /\ pc[c] # "dead" => PidOf[c] \in alive
      /\ YoungFile(Copy(x))
      /\ pc[x] = "inspect_mtime"
      /\ (Exists(Copy(x)) => Copy(x).torn \/ Copy(x).young)
  BY FilesTyped, PidsTyped DEF InspectMtime, Before, IInv, Inspected, Copy, AliveOK, YoungOK
<1>1. l \in Labels /\ l \notin Owning \cup Recreating
      /\ l \notin {"dead", "inspect", "inspect_mtime", "mtime", "steal"}
  BY DEF Labels, Calls, Owning, Recreating
<1>2. Moves(c, x, l)
  BY <1>1, GotoMoves DEF InspectMtime, Before, Copy
<1>3. InspectOK(c, x)' /\ AimOK(c, x)'
  BY <1>1, <1>2 DEF Moves, InspectOK, AimOK
<1>4. ReturnOK(c, x)'
  <2>1. CASE l = "restore"
    <3>1. Exists(Copy(x)) /\ Copy(x).young /\ Stolen(c, x)
      BY <1>0, <2>1 DEF Before, Apart, InspectOK, Young
    <3>2. pc[c] # "dead" => ~Stale(Copy(x))
      BY <1>0, <3>1 DEF YoungFile, Stolen, Stale, HolderLive
    <3>3. QED
      BY <1>0, <1>2, <2>1, <3>1, <3>2 DEF YoungFile, Moves, ReturnOK, Stolen, Exists, Stale, HolderLive
  <2>2. CASE l # "restore"
    BY <1>1, <1>2, <2>2 DEF Moves, ReturnOK
  <2>3. QED
    BY <2>1, <2>2
<1>5. (Own(c) /\ ~Exists(path) => l \in Moving) /\ ~Own(x)
  BY <1>0 DEF Before, Apart, OwnOK, Moving, Own, Owning, Young, Exists, Stale
<1> HIDE DEF l
<1>6. QED
  BY <1>0, <1>1, <1>2, <1>3, <1>4, <1>5, MovesApart

(* Giving up, or starting over, without having created or stolen a file. *)
LEMMA LeaveApart ==
  ASSUME NEW c, NEW x, Two(c, x), Before(c, x), pc[x] \in {"steal", "claim"},
         UNCHANGED files, GiveUp(x) \/ NextRound(x)
  PROVE  After(c, x)
<1>1. Moves(c, x, "check") \/ Moves(c, x, "idle")
  BY NextRoundMoves, GotoMoves DEF Before, GiveUp, Labels, Calls
<1>2. PICK l \in {"check", "idle"} : Moves(c, x, l)
  BY <1>1
<1>3. InspectOK(c, x)' /\ ReturnOK(c, x)' /\ AimOK(c, x)'
  BY <1>2, PlainApart DEF Moves, Moving
<1>4. ~(Own(c) /\ ~Exists(path)) /\ ~Own(x)
  BY DEF Before, Apart, OwnOK, Moving, Own, Owning
<1>5. l \in Labels /\ l \notin Owning /\ l # "dead" /\ l \notin Recreating
  BY DEF Labels, Calls, Owning, Recreating
<1>6. QED
  BY <1>2, <1>3, <1>4, <1>5, MovesApart

(* The file at the path is the one x has created, or none. *)
LEMMA VerifyApart ==
  ASSUME NEW c, NEW x, Two(c, x), Before(c, x),
         Verify(x) \/ (pc[x] = "verify" /\ Goto(x, "drop") /\ UNCHANGED files)
  PROVE  After(c, x)
<1>1. pc[x] = "verify" /\ Own(x)
  BY DEF Verify, Own, Owning
<1>2. (Exists(path) => path.by = x) /\ ~Own(c)
  BY <1>1 DEF Before, Apart, OwnOK
<1>3. Moves(c, x, "drop") \/ Moves(c, x, "held")
  BY <1>2, GotoMoves DEF Verify, Before, Readable, Labels, Calls
<1>4. PICK l \in {"drop", "held"} : Moves(c, x, l)
  BY <1>3
<1>5. InspectOK(c, x)' /\ ReturnOK(c, x)' /\ AimOK(c, x)'
  BY <1>4, PlainApart DEF Moves, Moving
<1>6. l \in Labels /\ l \in Owning /\ l # "dead" /\ l \notin Recreating
  BY DEF Labels, Calls, Owning, Recreating
<1>7. QED
  BY <1>1, <1>2, <1>4, <1>5, <1>6, MovesApart

-----------------------------------------------------------------------------
(* Creating, writing and removing the file at the path. *)

(* Who finds no file at the path has no rival that owns one. *)
LEMMA CreatedApart ==
  ASSUME NEW c, NEW x, Two(c, x), Before(c, x), NEW l \in {"write", "claim_write"},
         pc[x] \in {"idle", "claim"}, ~Exists(path),
         pc'[x] = l, pc'[c] = pc[c], path' = Torn(x, x), alive' = alive,
         Copy(x)' = Copy(x), Copy(c)' = Copy(c),
         carried'[c] = carried[c], carried'[x] = carried[x]
  PROVE  After(c, x)
<1>1. Exists(path') /\ path'.by = x /\ path'.torn /\ path'.young
  BY FilesTyped, TornType, NoFileNotFile DEF Before, Torn, Exists, Authors
<1>2. ~Own(c) /\ Own(x)' /\ ~Own(x)
  BY DEF Before, Apart, OwnOK, Own, Owning, Moving
<1>3. InspectOK(c, x)' /\ ReturnOK(c, x)' /\ AimOK(c, x)'
  BY PlainApart DEF Moving
<1>4. OwnOK(c, x)' /\ OwnOK(x, c)'
  BY <1>1, <1>2 DEF OwnOK, Own, Stale
<1>5. InspectOK(x, c)'
  BY <1>1 DEF Before, Apart, InspectOK, Stolen, Exists, Stale, HolderLive, Owning
<1>6. ReturnOK(x, c)'
  BY <1>1 DEF Before, Apart, ReturnOK, Stolen, Exists, Stale, HolderLive, Owning
<1>7. AimOK(x, c)'
  BY <1>1 DEF Before, Apart, AimOK, Owning
<1>8. QED
  BY <1>3, <1>4, <1>5, <1>6, <1>7 DEF After, Apart, Before, Recreating

LEMMA CreateApart ==
  ASSUME NEW c, NEW x, Two(c, x), Before(c, x), Create(x)
  PROVE  After(c, x)
<1>1. CASE ~Exists(path)
  <2>1. /\ pc[x] = "idle" /\ pc'[x] = "write" /\ pc'[c] = pc[c]
        /\ path' = Torn(x, x) /\ alive' = alive
        /\ Copy(x)' = Copy(x) /\ Copy(c)' = Copy(c) /\ carried' = carried
    BY <1>1, FilesTyped DEF Create, Before, Copy
  <2>2. QED
    BY <1>1, <2>1, CreatedApart
<1>2. CASE Exists(path)
  <2>1. Moves(c, x, "check") /\ pc[x] = "idle"
    BY <1>2, FilesTyped DEF Create, Before, Moves, Copy
  <2>2. InspectOK(c, x)' /\ ReturnOK(c, x)' /\ AimOK(c, x)'
    BY <2>1, PlainApart DEF Moves, Moving
  <2>3. OwnOK(c, x)' /\ OwnOK(x, c)'
    BY <1>2, <2>1 DEF Before, Apart, Moves, OwnOK, Own, Owning, Stale, HolderLive, Exists
  <2>4. InspectOK(x, c)'
    BY <1>2, <2>1 DEF Before, Apart, Moves, InspectOK, Stolen, Owning, Stale, HolderLive, Exists
  <2>5. ReturnOK(x, c)'
    BY <1>2, <2>1 DEF Before, Apart, Moves, ReturnOK, Stolen, Owning, Exists
  <2>6. AimOK(x, c)'
    BY <1>2, <2>1 DEF Before, Apart, Moves, AimOK, Owning, Stale, HolderLive, Exists
  <2>7. QED
    BY <2>1, <2>2, <2>3, <2>4, <2>5, <2>6 DEF Moves, After, Apart, Before, Recreating
<1>3. QED
  BY <1>1, <1>2

LEMMA ClaimApart ==
  ASSUME NEW c, NEW x, Two(c, x), Before(c, x), Claim(x)
  PROVE  After(c, x)
<1>1. CASE ~Exists(path)
  <2>1. /\ pc[x] = "claim" /\ pc'[x] = "claim_write" /\ pc'[c] = pc[c]
        /\ path' = Torn(x, x) /\ alive' = alive
        /\ Copy(x)' = Copy(x) /\ Copy(c)' = Copy(c) /\ carried' = carried
    BY <1>1, FilesTyped DEF Claim, Goto, Before, Copy
  <2>2. QED
    BY <1>1, <2>1, CreatedApart
<1>2. CASE Exists(path)
  BY <1>2, LeaveApart DEF Claim
<1>3. QED
  BY <1>1, <1>2

(* A write changes the files that x has open, which x has created or, when *)
(* it puts back a lock, re-created.                                        *)
Refilled(f, x) == Exists(f) /\ f.writer = x

LEMMA FilledFile ==
  ASSUME NEW f \in File \cup {NoFile}, NEW x \in Contenders, NEW e \in BOOLEAN
  PROVE  /\ Exists(Filled(f, x, e)) <=> Exists(f)
         /\ ~Refilled(f, x) => Filled(f, x, e) = f
         /\ Refilled(f, x) =>
              /\ Filled(f, x, e).by = f.by
              /\ ~Filled(f, x, e).torn
              /\ Filled(f, x, e).young
              /\ Filled(f, x, e).expired = e
BY NoFileNotFile DEF Filled, Exists, Refilled, File

LEMMA ClosedFile ==
  ASSUME NEW f \in File \cup {NoFile}, NEW C
  PROVE  /\ Exists(Closed(f, C)) <=> Exists(f)
         /\ Exists(f) =>
              /\ Closed(f, C).by = f.by
              /\ Closed(f, C).torn = f.torn
              /\ Closed(f, C).young = f.young
              /\ Closed(f, C).expired = f.expired
BY NoFileNotFile DEF Closed, Exists, File

(* A call that is not a write has no descriptor to lose. *)
LEMMA NothingClosed ==
  ASSUME NEW c, NEW x, Two(c, x), Before(c, x), pc[x] \notin Writing, Close({x})
  PROVE  UNCHANGED files
<1>1. /\ path \in File \cup {NoFile} /\ steal \in [Pids -> File \cup {NoFile}]
      /\ WriterOK(path) /\ \A p \in Pids : WriterOK(steal[p])
      /\ x # Nobody
  BY FilesTyped, LockAssumption DEF Before, IInv, Typed, TypeOK, Writers
<1>2. \A f \in File \cup {NoFile} : WriterOK(f) => Closed(f, {x}) = f
  BY <1>1 DEF WriterOK, Closed, Exists
<1>3. path' = path /\ steal' \in [Pids -> File \cup {NoFile}]
  BY <1>1, <1>2 DEF Close, Before, IInv, Typed, TypeOK
<1>4. \A p \in Pids : steal'[p] = steal[p]
  BY <1>1, <1>2 DEF Close
<1>5. QED
  BY <1>1, <1>3, <1>4 DEF files

(* What x has open is torn and within the grace. *)
LEMMA RefilledTorn ==
  ASSUME NEW c, NEW x, Two(c, x), Before(c, x),
         NEW f \in {path, Copy(c), Copy(x)}, Refilled(f, x)
  PROVE  f.torn /\ f.young
BY FilesTyped, PidsTyped, LockAssumption DEF Before, IInv, Writers, WriterOK, Refilled, Copy

(* The write of a lock that x is acquiring. *)
LEMMA WriteApart ==
  ASSUME NEW c, NEW x, Two(c, x), Before(c, x), Write(x)
  PROVE  After(c, x)
<1> DEFINE S(f, g) == /\ Exists(g) <=> Exists(f)
                      /\ ~Refilled(f, x) => g = f
                      /\ Refilled(f, x) => /\ f.torn /\ f.young /\ g.by = f.by
                                           /\ ~g.torn /\ g.young /\ ~g.expired
<1>1. S(path, path') /\ S(Copy(x), Copy(x)') /\ S(Copy(c), Copy(c)')
  BY FilesTyped, PidsTyped, FilledFile, RefilledTorn DEF Write, Fill, Copy, Before
<1>2. /\ pc[x] \in {"write", "claim_write"} /\ pc'[x] \in {"held", "verify"}
      /\ pc'[c] = pc[c] /\ alive' = alive /\ carried' = carried
  BY FilesTyped DEF Write, Goto, Before
<1>3. InspectOK(c, x)' /\ ReturnOK(c, x)' /\ AimOK(c, x)'
  BY <1>2, PlainApart DEF Moving
<1>4. Own(x) /\ Own(x)' /\ ~Own(c) /\ ~Own(c)'
  BY <1>2 DEF Before, Apart, OwnOK, Own, Owning
<1>5. PidOf[x] \in alive
  BY <1>2, FilesTyped DEF Before, AliveOK
<1> HIDE DEF S
<1>6. InspectOK(x, c)'
  BY <1>1, <1>2, <1>4 DEF S, Before, Apart, InspectOK, Stolen, Owning, Stale, HolderLive
<1>7. ReturnOK(x, c)'
  BY <1>1, <1>2, <1>4, <1>5 DEF S, Before, Apart, ReturnOK, Stolen, Owning, Stale, HolderLive
<1>8. AimOK(x, c)'
  BY <1>1, <1>2, <1>4 DEF S, Before, Apart, AimOK, Owning, Stale, HolderLive
<1>9. OwnOK(x, c)'
  <2>1. Exists(path') => path'.by = x /\ ~Stale(path)'
    BY <1>1, <1>2, <1>4, <1>5 DEF S, Before, Apart, OwnOK, Stale, HolderLive
  <2>2. ASSUME ~Exists(path'), pc'[c] # "dead"
        PROVE  pc'[c] \in Moving /\ Exists(Copy(c)') /\ ~Stale(Copy(c))'
    <3>1. pc[c] \in Moving /\ Exists(Copy(c)) /\ ~Stale(Copy(c))
      BY <1>1, <1>2, <1>4, <2>2 DEF S, Before, Apart, OwnOK
    <3>2. Refilled(Copy(c), x) => Copy(c).by = x
      BY <1>1, <3>1 DEF S, Before, Apart, InspectOK, ReturnOK, Stolen, Moving
    <3>3. QED
      BY <1>1, <1>2, <1>5, <3>1, <3>2 DEF S, Stale, HolderLive
  <2>3. QED
    BY <1>4, <2>1, <2>2 DEF OwnOK
<1>10. OwnOK(c, x)'
  BY <1>4 DEF OwnOK
<1>11. QED
  BY <1>2, <1>3, <1>6, <1>7, <1>8, <1>9, <1>10 DEF After, Apart, Before, Recreating

(* Giving the lock up. *)
LEMMA RemovedApart ==
  ASSUME NEW c, NEW x, Two(c, x), Before(c, x), Drop(x) \/ Release(x)
  PROVE  After(c, x)
<1>1. /\ pc[x] \in {"drop", "held"} /\ pc'[x] = "idle" /\ pc'[c] = pc[c]
      /\ ~Exists(path') /\ alive' = alive /\ carried' = carried
      /\ Copy(c)' = Copy(c)
  BY FilesTyped DEF Drop, Release, GiveUp, Goto, Before, Two, Exists, Copy
<1>2. InspectOK(c, x)' /\ ReturnOK(c, x)' /\ AimOK(c, x)'
  BY <1>1, PlainApart DEF Moving
<1>3. ~Own(c)' /\ ~Own(x)'
  BY <1>1 DEF Before, Apart, OwnOK, Own, Owning
<1>4. OwnOK(c, x)' /\ OwnOK(x, c)'
  BY <1>3 DEF OwnOK
<1>5. InspectOK(x, c)'
  BY <1>1 DEF Before, Apart, InspectOK, Stolen, Stale, HolderLive, Exists
<1>6. ReturnOK(x, c)'
  BY <1>1 DEF Before, Apart, ReturnOK, Stolen, Stale, HolderLive, Exists
<1>7. AimOK(x, c)'
  BY <1>1 DEF AimOK
<1>8. QED
  BY <1>1, <1>2, <1>4, <1>5, <1>6, <1>7 DEF After, Apart, Before, Recreating

-----------------------------------------------------------------------------
(* Stealing the file at the path, and what becomes of the copy. *)

LEMMA StealApart ==
  ASSUME NEW c, NEW x, Two(c, x), Before(c, x), Steal(x)
  PROVE  After(c, x)
<1>1. CASE ~Exists(path)
  BY <1>1, LeaveApart DEF Steal
<1>2. CASE Exists(path)
  <2>1. /\ pc[x] = "steal" /\ pc'[x] = "inspect" /\ pc'[c] = pc[c]
        /\ ~Exists(path') /\ alive' = alive /\ carried' = carried
        /\ Copy(c)' = Copy(c) /\ Copy(x)' = path
    BY <1>2, FilesTyped, PidsTyped DEF Steal, Goto, Before, Exists, Copy, IInv, Typed, TypeOK
  <2>2. ReturnOK(c, x)' /\ AimOK(c, x)'
    BY <2>1 DEF ReturnOK, AimOK
  <2>3. InspectOK(c, x)'
    BY <1>2, <2>1 DEF Before, Apart, AimOK, InspectOK, Stolen, Owning, Stale, HolderLive
  <2>4. OwnOK(c, x)' /\ OwnOK(x, c)'
    BY <1>2, <2>1 DEF Before, Apart, OwnOK, Own, Owning, Moving, Stale, HolderLive
  <2>5. InspectOK(x, c)'
    BY <2>1 DEF Before, Apart, InspectOK, Stolen, Owning, Stale, HolderLive
  <2>6. ReturnOK(x, c)'
    BY <2>1 DEF Before, Apart, ReturnOK, Stolen, Owning
  <2>7. AimOK(x, c)'
    BY <2>1 DEF AimOK
  <2>8. QED
    BY <2>1, <2>2, <2>3, <2>4, <2>5, <2>6, <2>7 DEF After, Apart, Before, Recreating
<1>3. QED
  BY <1>1, <1>2

(* While x puts c's lock back, c holds no file of x. *)
LEMMA ReturningAlone ==
  ASSUME NEW c, NEW x, Two(c, x), Before(c, x), pc[x] = "restore"
  PROVE  /\ Exists(Copy(x)) /\ Copy(x).by = c
         /\ pc[c] \in Owning \cup {"idle", "dead"}
         /\ pc[c] # "dead" => ~Stale(Copy(x))
         /\ ~Own(x)
BY DEF Before, Apart, ReturnOK, Stolen, Own, Owning

LEMMA RestoreApart ==
  ASSUME NEW c, NEW x, Two(c, x), Before(c, x), Restore(x)
  PROVE  After(c, x)
<1>1. pc[x] = "restore"
  BY DEF Restore
<1>2. /\ pc'[x] = "idle" /\ pc'[c] = pc[c]
      /\ path' = Copy(x) /\ alive' = alive /\ carried' = carried
  BY <1>1, ReturningAlone, FilesTyped DEF Restore, GiveUp, Goto, Before, Exists, Copy
<1>3. InspectOK(c, x)' /\ ReturnOK(c, x)' /\ AimOK(c, x)'
  BY <1>2, PlainApart DEF Moving
<1>4. OwnOK(c, x)' /\ OwnOK(x, c)'
  BY <1>1, <1>2, ReturningAlone DEF OwnOK, Own, Owning, Stale, HolderLive
<1>5. InspectOK(x, c)' /\ ReturnOK(x, c)' /\ AimOK(x, c)'
  BY <1>1, <1>2, ReturningAlone DEF InspectOK, ReturnOK, AimOK, Owning
<1>6. QED
  BY <1>2, <1>3, <1>4, <1>5 DEF After, Apart, Before, Recreating

(* A copy that was stale goes, or is left behind. *)
LEMMA CopyGoneApart ==
  ASSUME NEW c, NEW x, Two(c, x), Before(c, x),
         Discard(x) \/ (pc[x] = "discard" /\ Goto(x, "claim") /\ UNCHANGED files)
  PROVE  After(c, x)
<1>1. /\ pc[x] = "discard" /\ pc'[x] = "claim" /\ pc'[c] = pc[c]
      /\ path' = path /\ alive' = alive /\ carried' = carried
      /\ Copy(c)' = Copy(c)
  BY FilesTyped, PidsTyped DEF Discard, Goto, Before, Copy, files, IInv, Typed, TypeOK
<1>2. InspectOK(c, x)' /\ ReturnOK(c, x)' /\ AimOK(c, x)'
  BY <1>1, PlainApart DEF Moving
<1>3. OwnOK(c, x)' /\ OwnOK(x, c)'
  BY <1>1 DEF Before, Apart, OwnOK, Own, Owning, Moving, Stale, HolderLive
<1>4. InspectOK(x, c)'
  BY <1>1 DEF Before, Apart, InspectOK, Stolen, Owning, Stale, HolderLive
<1>5. ReturnOK(x, c)'
  BY <1>1 DEF Before, Apart, ReturnOK, Stolen, Owning, Stale, HolderLive
<1>6. AimOK(x, c)'
  BY <1>1 DEF Before, Apart, AimOK, Owning, Stale, HolderLive
<1>7. QED
  BY <1>1, <1>2, <1>3, <1>4, <1>5, <1>6 DEF After, Apart, Before, Recreating

-----------------------------------------------------------------------------
(* The environment. *)

LEMMA AgedFile ==
  ASSUME NEW f \in File, MayAge(f)
  PROVE  /\ Exists(Aged(f)) /\ Aged(f).by = f.by /\ Aged(f).torn = f.torn
         /\ ~Aged(f).young
         /\ ~f.young => ~f.torn /\ ~f.expired
         /\ f.young => Aged(f).expired = f.expired
         /\ f.expired => Aged(f).expired
<1>1. Exists(Aged(f))
  BY NoFileNotFile, AgedType DEF Exists
<1>2. QED
  BY <1>1 DEF Aged, MayAge, File

(* The lock of an owner does not age past its bound, and nobody who is     *)
(* asking for the mtime of a lock sees it leave its grace.                 *)
LEMMA AgePathApart ==
  ASSUME NEW c, NEW x, Two(c, x), Before(c, x), AgePath
  PROVE  Apart(c, x)'
<1>1. path \in File /\ path' = Aged(path) /\ MayAge(path)
  BY FilesTyped DEF AgePath, MayAge, Exists, Before
<1>2. /\ pc' = pc /\ alive' = alive /\ carried' = carried
      /\ Copy(x)' = Copy(x)
  BY DEF AgePath, Copy
<1>3. Stale(path) => Stale(path)'
  BY <1>1, <1>2, AgedFile DEF Stale, HolderLive
<1>4. Own(c) => OwnOK(c, x)'
  <2>1. Own(c) /\ path.by = c => ~Stale(path)'
    BY <1>1, <1>2, AgedFile, FilesTyped, LockAssumption
       DEF Before, TornOK, TornFile, Apart, OwnOK, Own, Owning, MayAge, InUse, Holders, Two,
           Stale, HolderLive, Exists
  <2>2. QED
    BY <1>1, <1>2, <2>1, AgedFile, NoFileNotFile DEF Before, Apart, OwnOK, Own, Exists, Stale, HolderLive
<1>5. InspectOK(c, x)' /\ ReturnOK(c, x)'
  BY <1>1, <1>2, NoFileNotFile DEF Before, Apart, InspectOK, ReturnOK, Stolen, Exists, Stale, HolderLive
<1>6. AimOK(c, x)'
  <2>1. pc[x] = "mtime" => path.torn
    BY <1>1, FilesTyped DEF MayAge, Two, Reading, Before, Apart, AimOK, Exists
  <2>2. QED
    BY <1>1, <1>2, <1>3, <2>1, AgedFile, NoFileNotFile DEF Before, Apart, AimOK, Exists
<1>7. QED
  BY <1>2, <1>4, <1>5, <1>6 DEF Before, Apart, OwnOK, Own, Recreating

(* A copy in use does not age. *)
LEMMA AgeCopyApart ==
  ASSUME NEW c, NEW x, Two(c, x), Before(c, x), NEW p \in Pids, AgeCopy(p)
  PROVE  Apart(c, x)'
<1>1. /\ path' = path /\ pc' = pc /\ alive' = alive /\ carried' = carried
  BY DEF AgeCopy
<1>2. PidOf[x] = p => pc[x] \in {"idle", "dead"}
  BY FilesTyped DEF AgeCopy, Two, Gone, Active, Before
<1>3. CASE PidOf[x] # p
  <2>1. Copy(x)' = Copy(x)
    BY <1>3, PidsTyped DEF AgeCopy, Copy, Before, IInv, Typed, TypeOK
  <2>2. QED
    BY <1>1, <2>1 DEF Before, Apart, OwnOK, InspectOK, ReturnOK, AimOK, Own, Stolen,
       Exists, Stale, HolderLive
<1>4. CASE PidOf[x] = p
  <2>1. OwnOK(c, x)'
    BY <1>1, <1>2, <1>4 DEF Before, Apart, OwnOK, Own, Moving, Exists, Stale, HolderLive
  <2>2. InspectOK(c, x)' /\ ReturnOK(c, x)' /\ AimOK(c, x)'
    BY <1>1, <1>2, <1>4 DEF InspectOK, ReturnOK, AimOK
  <2>3. QED
    BY <1>1, <2>1, <2>2 DEF Before, Apart, Recreating
<1>5. QED
  BY <1>3, <1>4

(* A process is killed. *)
LEMMA CrashApart ==
  ASSUME NEW c, NEW x, Two(c, x), Before(c, x), NEW p \in Pids, Crash(p)
  PROVE  Apart(c, x)'
<1> DEFINE S(f, g) == /\ Exists(g) <=> Exists(f)
                      /\ Exists(f) => /\ g.by = f.by /\ g.torn = f.torn
                                      /\ g.young = f.young /\ g.expired = f.expired
<1>1. S(path, path') /\ S(Copy(x), Copy(x)')
  BY FilesTyped, PidsTyped, ClosedFile DEF Crash, Close, Copy, Before
<1>2. /\ alive' = alive \ {p}
      /\ pc'[c] = IF PidOf[c] = p THEN "dead" ELSE pc[c]
      /\ pc'[x] = IF PidOf[x] = p THEN "dead" ELSE pc[x]
  BY FilesTyped DEF Crash, Before
<1>3. PidOf[c] = p \/ ~Own(c) \/ PidOf[c] \in alive'
  BY <1>2, FilesTyped DEF Before, AliveOK, Own, Owning
<1> HIDE DEF S
<1>4. OwnOK(c, x)'
  <2>1. CASE PidOf[c] = p
    BY <1>2, <2>1 DEF OwnOK, Own, Owning
  <2>2. CASE PidOf[c] # p /\ Own(c)
    <3>1. ~Own(x)'
      BY <1>2, <2>2 DEF Before, Apart, OwnOK, Own, Owning
    <3>2. Exists(path') => path'.by = c /\ ~Stale(path)'
      BY <1>1, <1>2, <1>3, <2>2 DEF S, Before, Apart, OwnOK, Stale, HolderLive
    <3>3. ASSUME ~Exists(path'), pc'[x] # "dead"
          PROVE  pc'[x] \in Moving /\ Exists(Copy(x)') /\ ~Stale(Copy(x))'
      <4>1. pc[x] \in Moving /\ Exists(Copy(x)) /\ ~Stale(Copy(x)) /\ pc'[x] = pc[x]
        BY <1>1, <1>2, <2>2, <3>3 DEF S, Before, Apart, OwnOK
      <4>2. ~Copy(x).torn => Copy(x).by = c
        <5>1. CASE pc[x] = "inspect"
          BY <4>1, <5>1 DEF Before, Apart, InspectOK, Stolen
        <5>2. CASE pc[x] = "inspect_mtime"
          BY <4>1, <5>2, FilesTyped DEF Before, IInv, Inspected, Copy, Apart, InspectOK, Stolen
        <5>3. CASE pc[x] = "restore"
          BY <4>1, <5>3, ReturningAlone
        <5>4. QED
          BY <4>1, <5>1, <5>2, <5>3 DEF Moving
      <4>3. QED
        BY <1>1, <1>2, <1>3, <2>2, <4>1, <4>2 DEF S, Stale, HolderLive
    <3>4. QED
      BY <3>1, <3>2, <3>3 DEF OwnOK
  <2>3. CASE PidOf[c] # p /\ ~Own(c)
    BY <1>2, <2>3 DEF OwnOK, Own
  <2>4. QED
    BY <2>1, <2>2, <2>3
<1>5. InspectOK(c, x)'
  BY <1>1, <1>2 DEF S, Before, Apart, InspectOK, Stolen, Owning, Stale, HolderLive
<1>6. ReturnOK(c, x)'
  BY <1>1, <1>2, <1>3, FilesTyped DEF S, Before, Apart, ReturnOK, Stolen, Owning,
     Stale, HolderLive, AliveOK
<1>7. AimOK(c, x)'
  BY <1>1, <1>2 DEF S, Before, Apart, AimOK, Owning, Stale, HolderLive
<1>8. QED
  BY <1>2, <1>4, <1>5, <1>6, <1>7 DEF Before, Apart, Recreating

-----------------------------------------------------------------------------
(* The invariant. *)

LEMMA StepApart ==
  ASSUME NEW c, NEW x, Two(c, x), Before(c, x), Acquire(x) \/ Release(x)
  PROVE  After(c, x)
<1> USE DEF Acquire
<1>0. /\ ~CheckingFails(x) /\ ~RestoringFails(x)
      /\ ~(Reread(x) \/ Recreate(x) \/ Rewrite(x) \/ DropCopy(x))
      /\ AcquiringFails(x) => pc[x] \in {"steal", "discard", "claim", "verify"}
  BY DEF Two, CheckingFails, RestoringFails, AcquiringFails, Reread, Recreate, Rewrite,
     DropCopy, Before, Apart, Recreating
<1>1. CASE Create(x) \/ Write(x) \/ Drop(x) \/ Release(x)
  BY <1>1, CreateApart, WriteApart, RemovedApart
<1>2. CASE Check(x) \/ CheckMtime(x) \/ Inspect(x) \/ InspectMtime(x) \/ Verify(x)
  BY <1>2, CheckApart, CheckMtimeApart, InspectApart, InspectMtimeApart, VerifyApart
<1>3. CASE AcquiringFails(x)
  <2>1. UNCHANGED files
    BY <1>0, <1>3, NothingClosed DEF AcquiringFails, Writing
  <2>2. CASE pc[x] \in {"steal", "claim"}
    BY <1>3, <2>1, <2>2, LeaveApart DEF AcquiringFails, GiveUp
  <2>3. CASE pc[x] = "discard"
    BY <1>3, <2>1, <2>3, CopyGoneApart DEF AcquiringFails
  <2>4. CASE pc[x] = "verify"
    BY <1>3, <2>1, <2>4, VerifyApart DEF AcquiringFails
  <2>5. QED
    BY <1>0, <1>3, <2>2, <2>3, <2>4
<1>4. CASE Steal(x) \/ Restore(x) \/ Discard(x) \/ Claim(x)
  BY <1>4, StealApart, RestoreApart, CopyGoneApart, ClaimApart
<1>5. QED
  BY <1>0, <1>1, <1>2, <1>3, <1>4

(* A contender that is killed stops; the steps of one are its own. *)
LEMMA StepFrame ==
  ASSUME NEW c, NEW x, Two(c, x), Before(c, x), Acquire(x) \/ Release(x)
  PROVE  alive' = alive /\ pc[x] # "dead" /\ pc'[x] # "dead" /\ pc'[c] = pc[c]
<1> USE FilesTyped DEF Before, Acquire, Goto, Forget, GiveUp, NextRound
<1>1. CASE Create(x) \/ Write(x) \/ Drop(x) \/ Release(x)
  BY <1>1 DEF Create, Write, Drop, Release
<1>2. CASE Check(x) \/ CheckMtime(x) \/ Inspect(x) \/ InspectMtime(x) \/ Verify(x)
  BY <1>2 DEF Check, CheckMtime, Inspect, InspectMtime, Verify
<1>3. CASE Steal(x) \/ Claim(x) \/ Discard(x)
  BY <1>3 DEF Steal, Claim, Discard
<1>4. CASE Restore(x) \/ Reread(x) \/ Recreate(x) \/ Rewrite(x) \/ DropCopy(x)
  BY <1>4 DEF Restore, Reread, Recreate, Rewrite, DropCopy
<1>5. CASE AcquiringFails(x) \/ CheckingFails(x) \/ RestoringFails(x)
  BY <1>5 DEF AcquiringFails, CheckingFails, RestoringFails
<1>6. QED
  BY <1>1, <1>2, <1>3, <1>4, <1>5

LEMMA StepAlive ==
  ASSUME NEW c, NEW x, Two(c, x), Before(c, x), Acquire(x) \/ Release(x)
  PROVE  AliveOK'
BY StepFrame DEF Before, AliveOK, Two

LEMMA FilledYoung ==
  ASSUME NEW f \in File \cup {NoFile}, NEW x \in Contenders, NEW e \in BOOLEAN,
         YoungFile(f), ~e
  PROVE  YoungFile(Filled(f, x, e))
BY FilledFile DEF YoungFile

LEMMA ClosedYoung ==
  ASSUME NEW f \in File \cup {NoFile}, NEW C, YoungFile(f)
  PROVE  YoungFile(Closed(f, C))
BY ClosedFile DEF YoungFile

(* What a step leaves at a location, besides the files that were there:    *)
(* none, one it creates, or one it has written.                            *)
LEMMA StepFiles ==
  ASSUME NEW c, NEW x, Two(c, x), Before(c, x), Acquire(x) \/ Release(x)
  PROVE  \/ Fill(x, FALSE)
         \/ /\ path' \in {path, NoFile, steal[PidOf[x]], Torn(x, x)}
            /\ \/ steal' = steal
               \/ \E f \in {path, NoFile} : steal' = [steal EXCEPT ![PidOf[x]] = f]
<1> USE DEF Acquire
<1>0. /\ ~CheckingFails(x) /\ ~RestoringFails(x)
      /\ ~(Reread(x) \/ Recreate(x) \/ Rewrite(x) \/ DropCopy(x))
      /\ AcquiringFails(x) => pc[x] \in {"steal", "discard", "claim", "verify"}
  BY DEF Two, CheckingFails, RestoringFails, AcquiringFails, Reread, Recreate, Rewrite,
     DropCopy, Before, Apart, Recreating
<1>1. CASE Write(x)
  BY <1>1 DEF Write
<1>2. CASE Check(x) \/ CheckMtime(x) \/ Inspect(x) \/ InspectMtime(x) \/ Verify(x)
  BY <1>2 DEF Check, CheckMtime, Inspect, InspectMtime, Verify, files
<1>3. CASE AcquiringFails(x)
  BY <1>0, <1>3, NothingClosed DEF AcquiringFails, Writing, files
<1>4. CASE Create(x) \/ Claim(x) \/ Drop(x) \/ Release(x)
  BY <1>4 DEF Create, Claim, Drop, Release, files
<1>5. CASE Steal(x) \/ Restore(x) \/ Discard(x)
  BY <1>5 DEF Steal, Restore, Discard, files
<1>6. QED
  BY <1>0, <1>1, <1>2, <1>3, <1>4, <1>5

(* What is written is never written with an old timestamp, and only its    *)
(* author leaves an empty file, to write it next.                          *)
LEMMA StepYoung ==
  ASSUME NEW c, NEW x, Two(c, x), Before(c, x), Acquire(x) \/ Release(x)
  PROVE  YoungOK' /\ TornOK'
<1>1. /\ path \in File \cup {NoFile} /\ steal \in [Pids -> File \cup {NoFile}]
      /\ x \in Contenders /\ PidOf[x] \in Pids /\ YoungOK /\ TornOK
  BY FilesTyped, PidsTyped DEF Before, IInv, Typed, TypeOK
<1>2. /\ YoungFile(Torn(x, x)) /\ YoungFile(NoFile)
      /\ TornFile(Torn(x, x))' /\ TornFile(NoFile)'
  BY DEF YoungFile, TornFile, Torn, Exists
<1>3. ASSUME NEW f \in File \cup {NoFile}, TornFile(f) PROVE TornFile(f)'
  <2>1. \A d \in Contenders : pc'[d] = "dead" <=> pc[d] = "dead"
    BY StepFrame DEF Two
  <2>2. QED
    BY <1>3, <2>1 DEF TornFile
<1>4. CASE Fill(x, FALSE)
  <2>1. ASSUME NEW f \in File \cup {NoFile}, YoungFile(f), TornFile(f)
        PROVE  YoungFile(Filled(f, x, FALSE)) /\ TornFile(Filled(f, x, FALSE))'
    <3>1. YoungFile(Filled(f, x, FALSE))
      BY <1>1, <2>1, FilledYoung
    <3>2. CASE Refilled(f, x)
      BY <1>1, <3>1, <3>2, FilledFile DEF TornFile
    <3>3. CASE ~Refilled(f, x)
      BY <1>1, <1>3, <2>1, <3>1, <3>3, FilledFile
    <3>4. QED
      BY <3>2, <3>3
  <2>2. QED
    BY <1>1, <1>4, <2>1 DEF Fill, YoungOK, TornOK, TornFile
<1>5. CASE /\ path' \in {path, NoFile, steal[PidOf[x]], Torn(x, x)}
           /\ \/ steal' = steal
              \/ \E f \in {path, NoFile} : steal' = [steal EXCEPT ![PidOf[x]] = f]
  <2>1. YoungOK'
    BY <1>1, <1>2, <1>5 DEF YoungOK
  <2>2. \A f \in {path, NoFile, Torn(x, x)} \cup {steal[p] : p \in Pids} : TornFile(f)'
    BY <1>1, <1>2, <1>3 DEF TornOK
  <2>3. path' \in {path, NoFile, Torn(x, x)} \cup {steal[p] : p \in Pids}
    BY <1>1, <1>5
  <2>4. \A p \in Pids :
          steal'[p] \in {path, NoFile, Torn(x, x)} \cup {steal[q] : q \in Pids}
    BY <1>1, <1>5
  <2>5. QED
    BY <2>1, <2>2, <2>3, <2>4 DEF TornOK, TornFile
<1>6. QED
  BY <1>4, <1>5, StepFiles

(* Time and kills. *)
LEMMA EnvironmentKeeps ==
  ASSUME NEW c, NEW x, Two(c, x), Before(c, x),
         AgePath \/ \E p \in Pids : Crash(p) \/ AgeCopy(p)
  PROVE  AliveOK' /\ YoungOK' /\ TornOK' /\ After(c, x)
<1>0. /\ path \in File \cup {NoFile} /\ steal \in [Pids -> File \cup {NoFile}]
      /\ pc \in [Contenders -> Labels] /\ AliveOK /\ YoungOK /\ TornOK
  BY FilesTyped DEF Before, IInv, Typed, TypeOK
<1>1. \A f \in File : MayAge(f) => YoungFile(Aged(f))
  BY AgedFile DEF YoungFile
<1>2. Two(x, c) /\ Before(x, c)
  BY DEF Two, Before
<1>3. ASSUME pc' = pc, NEW f \in File, TornFile(f) PROVE TornFile(Aged(f))'
  <2>1. Exists(f) /\ Aged(f).by = f.by /\ Aged(f).torn = f.torn /\ Aged(f).writer = f.writer
    BY NoFileNotFile DEF Exists, Aged, File
  <2>2. QED
    BY <1>3, <2>1 DEF TornFile
<1>4. CASE AgePath
  BY <1>0, <1>1, <1>2, <1>3, <1>4, AgePathApart
     DEF AgePath, AliveOK, YoungOK, TornOK, TornFile, After, MayAge, Exists
<1>5. ASSUME NEW p \in Pids, AgeCopy(p) PROVE AliveOK' /\ YoungOK' /\ TornOK' /\ After(c, x)
  BY <1>0, <1>1, <1>2, <1>3, <1>5, AgeCopyApart
     DEF AgeCopy, AliveOK, YoungOK, TornOK, TornFile, After, MayAge, Exists
<1>6. ASSUME NEW p \in Pids, Crash(p) PROVE AliveOK' /\ YoungOK' /\ TornOK' /\ After(c, x)
  <2> DEFINE victims == {d \in Contenders : PidOf[d] = p}
  <2>1. After(c, x)
    BY <1>2, <1>6, CrashApart DEF After
  <2>2. AliveOK'
    BY <1>0, <1>6 DEF Crash, AliveOK
  <2>3. YoungOK'
    BY <1>0, <1>6, ClosedYoung DEF Crash, Close, YoungOK
  <2>4. ASSUME NEW f \in File \cup {NoFile}, TornFile(f) PROVE TornFile(Closed(f, victims))'
    <3>1. \A d \in Contenders : pc'[d] = IF d \in victims THEN "dead" ELSE pc[d]
      BY <1>6 DEF Crash
    <3>2. CASE Exists(f) /\ f.writer \in victims
      BY <2>4, <3>1, <3>2, ClosedFile DEF TornFile
    <3>3. CASE ~(Exists(f) /\ f.writer \in victims)
      BY <2>4, <3>1, <3>3 DEF TornFile, Closed
    <3>4. QED
      BY <3>2, <3>3
  <2>5. TornOK'
    BY <1>0, <1>6, <2>4 DEF Crash, Close, TornOK, TornFile
  <2>6. QED
    BY <2>1, <2>2, <2>3, <2>5
<1>7. QED
  BY <1>4, <1>5, <1>6

XInv(c, x) == IInv /\ AliveOK /\ YoungOK /\ TornOK /\ Apart(c, x) /\ Apart(x, c)

LEMMA InitApart ==
  ASSUME NEW c, NEW x, Two(c, x)
  PROVE  Init => XInv(c, x)
<1> SUFFICES ASSUME Init PROVE XInv(c, x)
  OBVIOUS
<1>1. c \in Contenders /\ x \in Contenders
  BY DEF Two
<1>2. AliveOK
  BY LockAssumption DEF Init, AliveOK, Authors
<1>3. YoungOK
  BY DEF Init, YoungOK, YoungFile, Exists
<1>4. TornOK
  BY LockAssumption DEF Init, TornOK, TornFile, Exists
<1>5. Apart(c, x) /\ Apart(x, c)
  BY <1>1 DEF Init, Apart, OwnOK, InspectOK, ReturnOK, AimOK, Own, Owning, Recreating
<1>6. QED
  BY <1>2, <1>3, <1>4, <1>5, InitInv DEF XInv

LEMMA NextApart ==
  ASSUME NEW c, NEW x, Two(c, x)
  PROVE  XInv(c, x) /\ [Next]_vars => XInv(c, x)'
<1> SUFFICES ASSUME XInv(c, x), [Next]_vars PROVE XInv(c, x)'
  OBVIOUS
<1>1. IInv'
  BY NextInv DEF Two, XInv, OneThreadEach, InspectionReads
<1>2. Before(c, x) /\ Before(x, c) /\ Two(x, c)
  BY <1>1 DEF Before, XInv, Two
<1>3. CASE UNCHANGED vars
  BY <1>1, <1>3 DEF XInv, vars, AliveOK, YoungOK, YoungFile, TornOK, TornFile, Apart, OwnOK, InspectOK, ReturnOK,
     AimOK, Own, Stolen, Copy, Exists, Stale, HolderLive
<1>4. CASE Acquire(x) \/ Release(x)
  BY <1>1, <1>2, <1>4, StepApart, StepAlive, StepYoung DEF XInv, After
<1>5. CASE Acquire(c) \/ Release(c)
  BY <1>1, <1>2, <1>5, StepApart, StepAlive, StepYoung DEF XInv, After
<1>6. CASE AgePath \/ \E p \in Pids : Crash(p) \/ AgeCopy(p)
  BY <1>1, <1>2, <1>6, EnvironmentKeeps DEF XInv, After
<1>7. QED
  BY <1>3, <1>4, <1>5, <1>6 DEF Next, Two

LEMMA ApartExcludes ==
  ASSUME NEW c, NEW x, Two(c, x)
  PROVE  XInv(c, x) => MutualExclusion
BY DEF Two, XInv, Apart, OwnOK, Own, Owning, MutualExclusion, Holders

-----------------------------------------------------------------------------
(* acquire_token, and acquire_slot for one slot: two processes that        *)
(* contend for a lockfile never both believe they hold it, whatever        *)
(* lockfile they find and wherever they are killed, if neither is          *)
(* suspended past the grace or the bound, and no call fails but the theft, *)
(* the removal of the copy, the claim or the re-verification.  lock_write  *)
(* and lock_restore refute exclusion when a write or the re-creation of a  *)
(* stolen lock may fail too.                                               *)
THEOREM TwoProcessesExclude ==
  ASSUME NEW c, NEW x, Two(c, x)
  PROVE  Spec => []MutualExclusion
<1>1. Init => XInv(c, x)
  BY InitApart
<1>2. XInv(c, x) /\ [Next]_vars => XInv(c, x)'
  BY NextApart
<1>3. XInv(c, x) => MutualExclusion
  BY ApartExcludes
<1>4. QED
  BY <1>1, <1>2, <1>3, PTL DEF Spec

(* Who comes to hold the token is alone, before and after. *)
LEMMA StepTakes ==
  ASSUME NEW c, NEW x, Two(c, x), XInv(c, x), XInv(c, x)', Acquire(x) \/ Release(x)
  PROVE  [Token!TokenNext]_Holders
<1>1. pc'[c] = pc[c] /\ c \in Contenders /\ x \in Contenders /\ Contenders = {c, x}
  BY StepFrame DEF Before, XInv, Two
<1>2. MutualExclusion /\ MutualExclusion'
  BY ApartExcludes DEF XInv, Apart, OwnOK, Own, Owning, MutualExclusion, Holders, Two
<1>3. CASE x \in Holders'
  BY <1>1, <1>2, <1>3 DEF MutualExclusion, Holders, Token!TokenNext, Token!Take
<1>4. CASE x \notin Holders'
  BY <1>1, <1>2, <1>4 DEF MutualExclusion, Holders, Token!TokenNext, Token!GiveBack
<1>5. QED
  BY <1>3, <1>4

LEMMA CrashGivesBack ==
  ASSUME NEW c, NEW x, Two(c, x), XInv(c, x), NEW p \in Pids, Crash(p)
  PROVE  [Token!TokenNext]_Holders
<1>1. Holders' = Holders \ {d \in Contenders : PidOf[d] = p}
  BY DEF Crash, Holders
<1>2. MutualExclusion
  BY ApartExcludes
<1>3. CASE \E d \in Holders : PidOf[d] = p
  BY <1>1, <1>2, <1>3 DEF MutualExclusion, Holders, Token!TokenNext, Token!GiveBack
<1>4. CASE ~ \E d \in Holders : PidOf[d] = p
  BY <1>1, <1>4 DEF Holders
<1>5. QED
  BY <1>3, <1>4

(* So acquire_token and release_token implement the abstract token.        *)
THEOREM TwoProcessesImplement ==
  ASSUME NEW c, NEW x, Two(c, x)
  PROVE  Spec => ImplementsToken
<1>1. Init => Token!TokenInit
  BY DEF Init, Token!TokenInit, Holders
<1>2. XInv(c, x) /\ XInv(c, x)' /\ [Next]_vars => [Token!TokenNext]_Holders
  <2> SUFFICES ASSUME XInv(c, x), XInv(c, x)', [Next]_vars PROVE [Token!TokenNext]_Holders
    OBVIOUS
  <2>1. Two(x, c) /\ XInv(x, c) /\ XInv(x, c)'
    BY DEF Two, XInv
  <2>2. CASE AgePath \/ (\E p \in Pids : AgeCopy(p)) \/ UNCHANGED vars
    BY <2>2 DEF AgePath, AgeCopy, vars, Holders
  <2>3. CASE \E p \in Pids : Crash(p)
    BY <2>3, CrashGivesBack
  <2>4. CASE Acquire(x) \/ Release(x) \/ Acquire(c) \/ Release(c)
    BY <2>1, <2>4, StepTakes
  <2>5. QED
    BY <2>2, <2>3, <2>4 DEF Next, Two
<1>3. Init => XInv(c, x)
  BY InitApart
<1>4. XInv(c, x) /\ [Next]_vars => XInv(c, x)'
  BY NextApart
<1>5. QED
  BY <1>1, <1>2, <1>3, <1>4, PTL DEF Spec, ImplementsToken, Token!TokenSpec
===============================================================================
