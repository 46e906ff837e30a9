---------------------------- MODULE EphemeralLock ----------------------------
(***************************************************************************)
(* run_lock.py: the ephemeral lockfile behind the stdout token and the     *)
(* concurrency slots.  One action per system call of _acquire_ephemeral,   *)
(* _restore_stolen_lock and _release_ephemeral on one lock path; a bounded *)
(* retry of a transient error is a stutter, a persistent error of a call   *)
(* in Failing a step of its own.  Several threads may share a PID, and     *)
(* with it the scratch path <path>.reclaim.<pid>.                          *)
(*                                                                         *)
(* A file is abstracted to what the protocol reads of it: whose payload it *)
(* carries, whether that payload has been written, how old it is, and who  *)
(* has it open for writing.                                                *)
(***************************************************************************)
EXTENDS Naturals

CONSTANTS
  Contenders,   \* threads that acquire and release the lock
  Ghost,        \* the author of a lockfile that precedes every contender
  Pids,         \* process identifiers
  PidOf,        \* the PID of every author
  Nobody,       \* "no descriptor is open on this file"
  NoFile,       \* "nothing at this location"
  Retries,      \* _EPHEMERAL_RECLAIM_RETRIES
  CrashPids,    \* the processes that may be killed
  Failing,      \* the calls, by label, that may fail persistently
  Suspends      \* where a thread may be suspended past the grace or the bound:
                \* "call", between two system calls, "hold", holding the lock

Authors == Contenders \cup {Ghost}

(* young: the mtime is within _EPHEMERAL_TORN_WRITE_GRACE_SECONDS;         *)
(* expired: the timestamp in the payload is as old as its bound.           *)
File == [by : Authors, torn : BOOLEAN, young : BOOLEAN, expired : BOOLEAN,
         writer : Contenders \cup {Nobody}]

(* The system calls: the reads and stats of the two liveness checks, the   *)
(* rename that steals, the removals, creates and writes, the calls of      *)
(* _restore_stolen_lock, and the removal of the release.                   *)
Calls == {"write", "drop", "check", "mtime", "steal", "inspect",
          "inspect_mtime", "restore", "reread", "recreate", "rewrite",
          "dropcopy", "discard", "claim", "claim_write", "verify", "held"}

ASSUME LockAssumption ==
  /\ Ghost \notin Contenders
  /\ Nobody \notin Contenders
  /\ NoFile \notin File
  /\ PidOf \in [Authors -> Pids]
  /\ \A c \in Contenders : PidOf[c] # PidOf[Ghost]
  /\ Retries \in Nat \ {0}
  /\ CrashPids \subseteq Pids
  /\ Failing \subseteq Calls
  /\ Suspends \subseteq {"call", "hold"}

VARIABLES
  path,      \* the file at the lock path
  steal,     \* the file at <path>.reclaim.<pid>, for every PID
  alive,     \* the PIDs is_pid_alive reports
  pc,        \* the system call every contender makes next
  round,     \* its round of the reclaim loop
  carried    \* the stolen file it re-creates when it cannot rename it back

vars == <<path, steal, alive, pc, round, carried>>
files == <<path, steal>>

Labels == Calls \cup {"idle", "dead"}

-----------------------------------------------------------------------------
(* Files. *)

Exists(f) == f # NoFile

(* The file an O_CREAT|O_EXCL open leaves until its payload is written. *)
Torn(author, c) == 
  [by |-> author, torn |-> TRUE, young |-> TRUE, expired |-> FALSE, writer |-> c]

(* Mutant: the bound is not authoritative over a live PID. *)
ImmortalHolder(f) == PidOf[f.by] \in alive

(* _lockfile_holder_is_live for a file whose fields could be read, and for *)
(* one without a readable field, which is judged by its mtime.             *)
HolderLive(f) == PidOf[f.by] \in alive /\ ~f.expired
Young(f) == Exists(f) /\ f.young

Readable(f) == Exists(f) /\ ~f.torn

(* A write through the open descriptor reaches the file wherever it has    *)
(* been moved to, and nothing when it has been removed.                    *)
Filled(f, c, expired) ==
  IF Exists(f) /\ f.writer = c
    THEN [f EXCEPT !.torn = FALSE, !.young = TRUE, !.expired = expired,
                   !.writer = Nobody]
    ELSE f

Closed(f, C) ==
  IF Exists(f) /\ f.writer \in C THEN [f EXCEPT !.writer = Nobody] ELSE f

Fill(c, expired) ==
  /\ path' = Filled(path, c, expired)
  /\ steal' = [p \in Pids |-> Filled(steal[p], c, expired)]

Close(C) ==
  /\ path' = Closed(path, C)
  /\ steal' = [p \in Pids |-> Closed(steal[p], C)]

-----------------------------------------------------------------------------
(* Control. *)

Goto(c, label) ==
  /\ pc' = [pc EXCEPT ![c] = label]
  /\ UNCHANGED <<alive, round, carried>>

(* The payload read back is a local variable of the call that ends. *)
Forget(c, label) ==
  /\ pc' = [pc EXCEPT ![c] = label]
  /\ carried' = [carried EXCEPT ![c] = NoFile]
  /\ UNCHANGED <<alive, round>>

(* The call returns False. *)
GiveUp(c) == Goto(c, "idle")

(* Mutant: one round too many. *)
ExtraRound(c) ==
  /\ pc' = [pc EXCEPT ![c] = "check"]
  /\ round' = [round EXCEPT ![c] = round[c] + 1]
  /\ UNCHANGED <<alive, carried>>

(* The next iteration of the bounded reclaim loop, or False after the last. *)
NextRound(c) ==
  /\ pc' = [pc EXCEPT ![c] = IF round[c] < Retries THEN "check" ELSE "idle"]
  /\ round' = [round EXCEPT ![c] = IF round[c] < Retries THEN round[c] + 1
                                                          ELSE round[c]]
  /\ UNCHANGED <<alive, carried>>

(* The lock path is free, or holds what a process that is gone left there: *)
(* its lockfile, complete or torn, within its bound or past it.  Its PID   *)
(* is dead, or has been recycled to an unrelated live process.             *)
Init ==
  /\ path \in {NoFile} \cup
       {f \in File : f.by = Ghost /\ f.writer = Nobody /\ (f.expired => ~f.torn /\ ~f.young)}
  /\ steal = [p \in Pids |-> NoFile]
  /\ alive \in {Pids, Pids \ {PidOf[Ghost]}}
  /\ pc = [c \in Contenders |-> "idle"]
  /\ round = [c \in Contenders |-> 0]
  /\ carried = [c \in Contenders |-> NoFile]

(* The call's O_EXCL create.  Any other error of the create returns False  *)
(* and changes nothing.                                                    *)
Create(c) ==
  /\ pc[c] = "idle"
  /\ pc' = [pc EXCEPT ![c] = IF Exists(path) THEN "check" ELSE "write"]
  /\ round' = [round EXCEPT ![c] = IF Exists(path) THEN 1 ELSE 0]
  /\ path' = IF Exists(path) THEN path ELSE Torn(c, c)
  /\ UNCHANGED <<steal, alive, carried>>

Write(c) ==
  /\ pc[c] \in {"write", "claim_write"}
  /\ Fill(c, FALSE)
  /\ Goto(c, IF pc[c] = "write" THEN "held" ELSE "verify")

(* _remove_quiet(path): by name, whatever file is there. *)
Drop(c) ==
  /\ pc[c] = "drop"
  /\ path' = NoFile
  /\ UNCHANGED steal
  /\ GiveUp(c)

(* _lockfile_holder_is_live(path): read the fields; when none parses (no   *)
(* file, or a torn one) ask for the mtime, a second system call.           *)
Check(c) ==
  /\ pc[c] = "check"
  /\ Goto(c, IF ~Readable(path) THEN "mtime"
             ELSE IF HolderLive(path) THEN "idle" ELSE "steal")
  /\ UNCHANGED files

CheckMtime(c) ==
  /\ pc[c] = "mtime"
  /\ Goto(c, IF Young(path) THEN "idle" ELSE "steal")
  /\ UNCHANGED files

(* os.replace(path, steal_path). *)
Steal(c) ==
  /\ pc[c] = "steal"
  /\ IF Exists(path)
       THEN /\ path' = NoFile
            /\ steal' = [steal EXCEPT ![PidOf[c]] = path]
            /\ Goto(c, "inspect")
       ELSE NextRound(c) /\ UNCHANGED files

(* Mutant: the stolen copy is discarded on the strength of the first check. *)
InspectNothing(c) ==
  pc[c] = "inspect" /\ Goto(c, "discard") /\ UNCHANGED files

(* _lockfile_holder_is_live(steal_path). *)
Inspect(c) ==
  /\ pc[c] = "inspect"
  /\ LET f == steal[PidOf[c]]
     IN Goto(c, IF ~Readable(f) THEN "inspect_mtime"
                ELSE IF HolderLive(f) THEN "restore" ELSE "discard")
  /\ UNCHANGED files

(* Mutant: a torn copy gets no grace. *)
InspectNoGrace(c) ==
  pc[c] = "inspect_mtime" /\ Goto(c, "discard") /\ UNCHANGED files

InspectMtime(c) ==
  /\ pc[c] = "inspect_mtime"
  /\ Goto(c, IF Young(steal[PidOf[c]]) THEN "restore" ELSE "discard")
  /\ UNCHANGED files

(* os.replace(steal_path, path); with no file to rename every retry fails, *)
(* and so does the read of the stolen payload.                             *)
Restore(c) ==
  /\ pc[c] = "restore"
  /\ IF Exists(steal[PidOf[c]])
       THEN /\ path' = steal[PidOf[c]]
            /\ steal' = [steal EXCEPT ![PidOf[c]] = NoFile]
       ELSE UNCHANGED files
  /\ GiveUp(c)

Reread(c) ==
  /\ pc[c] = "reread"
  /\ carried' = [carried EXCEPT ![c] = steal[PidOf[c]]]
  /\ pc' = [pc EXCEPT ![c] = IF Exists(steal[PidOf[c]]) THEN "recreate" ELSE "idle"]
  /\ UNCHANGED <<path, steal, alive, round>>

(* O_EXCL create of the holder's lock from its payload. *)
Recreate(c) ==
  /\ pc[c] = "recreate"
  /\ IF Exists(path)
       THEN Forget(c, "idle") /\ UNCHANGED files
       ELSE /\ path' = Torn(carried[c].by, c)
            /\ UNCHANGED steal
            /\ Goto(c, "rewrite")

(* An empty payload is written without a byte: the file stays torn. *)
Rewrite(c) ==
  /\ pc[c] = "rewrite"
  /\ IF carried[c].torn THEN Close({c}) ELSE Fill(c, carried[c].expired)
  /\ Forget(c, "dropcopy")

DropCopy(c) ==
  /\ pc[c] = "dropcopy"
  /\ steal' = [steal EXCEPT ![PidOf[c]] = NoFile]
  /\ UNCHANGED path
  /\ GiveUp(c)

(* _remove_quiet(steal_path): the stolen copy was judged stale. *)
Discard(c) ==
  /\ pc[c] = "discard"
  /\ steal' = [steal EXCEPT ![PidOf[c]] = NoFile]
  /\ UNCHANGED path
  /\ Goto(c, "claim")

(* Mutant: the lock is re-created without O_EXCL. *)
ClaimOverwriting(c) ==
  /\ pc[c] = "claim"
  /\ path' = Torn(c, c)
  /\ UNCHANGED steal
  /\ Goto(c, "claim_write")

(* O_EXCL create of our own lock after the reclaim. *)
Claim(c) ==
  /\ pc[c] = "claim"
  /\ IF Exists(path)
       THEN NextRound(c) /\ UNCHANGED files
       ELSE /\ path' = Torn(c, c)
            /\ UNCHANGED steal
            /\ Goto(c, "claim_write")

(* The ownership re-verification compares PIDs, not files. *)
Verify(c) ==
  /\ pc[c] = "verify"
  /\ Goto(c, IF ~Readable(path) THEN "drop"
             ELSE IF PidOf[path.by] = PidOf[c] THEN "held" ELSE "idle")
  /\ UNCHANGED files

(* A call of _acquire_ephemeral fails.  After a failed write the torn file *)
(* is removed, as after a re-verification that could not read; a removal   *)
(* that fails is ignored; any other error gives up.                        *)
AcquiringFails(c) ==
  /\ pc[c] \in Failing \cap {"write", "claim_write", "drop", "steal", "discard",
                            "claim", "verify"}
  /\ Close({c})
  /\ Goto(c, CASE pc[c] \in {"write", "claim_write", "verify"} -> "drop"
             [] pc[c] = "discard" -> "claim"
             [] OTHER -> "idle")

(* A lockfile that cannot be read has no fields, and is judged by its      *)
(* mtime however complete it is; one that cannot be stat'ed is reclaimable.*)
CheckingFails(c) ==
  /\ pc[c] \in Failing \cap {"check", "mtime", "inspect", "inspect_mtime"}
  /\ Goto(c, CASE pc[c] = "check" -> "mtime"
             [] pc[c] = "mtime" -> "steal"
             [] pc[c] = "inspect" -> "inspect_mtime"
             [] OTHER -> "discard")
  /\ UNCHANGED files

(* After the last failed rename the stolen lock is re-created.  When its   *)
(* payload cannot be read, or the create fails, the path stays as it is,   *)
(* free if it is; when the write fails it holds an empty file.             *)
RestoringFails(c) ==
  /\ pc[c] \in Failing \cap {"restore", "reread", "recreate", "rewrite", "dropcopy"}
  /\ Close({c})
  /\ Forget(c, IF pc[c] = "restore" THEN "reread" ELSE "idle")

(* _release_ephemeral: by name, whatever file is there; after the last     *)
(* failed retry the file is left behind.                                   *)
Release(c) ==
  /\ pc[c] = "held"
  /\ path' = NoFile \/ ("held" \in Failing /\ path' = path)
  /\ pc' = [pc EXCEPT ![c] = "idle"]
  /\ UNCHANGED <<steal, alive, round, carried>>

-----------------------------------------------------------------------------
(* The environment. *)

(* A process is killed: its threads stop where they are, its files stay. *)
Crash(p) ==
  LET victims == {c \in Contenders : PidOf[c] = p}
  IN /\ p \in CrashPids \cap alive
     /\ alive' = alive \ {p}
     /\ pc' = [c \in Contenders |-> IF c \in victims THEN "dead" ELSE pc[c]]
     /\ carried' = [c \in Contenders |-> IF c \in victims THEN NoFile ELSE carried[c]]
     /\ Close(victims)
     /\ UNCHANGED round

Holders == {c \in Contenders : pc[c] = "held"}

Active(a) == a \in Contenders /\ pc[a] \notin {"idle", "dead"}

Gone(a) == ~Active(a)

Reading(c) == pc[c] \in {"mtime", "inspect_mtime"}

(* The author holds the lock, or is writing, verifying or dropping it.     *)
InUse(f) ==
  f.by \in Contenders /\ pc[f.by] \in {"write", "claim_write", "verify", "drop", "held"}

(* Time passes for a file.  Unless threads are suspended between system    *)
(* calls, whoever writes a file fills or closes it within the grace, and   *)
(* removes it within the grace when that was its own; no complete file     *)
(* leaves the grace between the two calls of one liveness check, and none  *)
(* leaves its bound while its author writes, verifies or drops.  Unless    *)
(* they are suspended while holding, a delegation's timeout ends the hold  *)
(* within the bound.  Nothing keeps an empty file young once it is closed. *)
MayAge(f) ==
  /\ Exists(f)
  /\ \/ f.young \/ (~f.torn /\ ~f.expired)
  /\ \/ "call" \in Suspends
     \/ f.torn /\ f.writer = Nobody /\ ~(f.by \in Contenders /\ pc[f.by] = "drop")
     \/ ~f.torn /\ f.young /\ \A c \in Contenders : ~Reading(c)
     \/ ~f.torn /\ ~f.young /\ ~InUse(f)
     \/ ~f.torn /\ ~f.young /\ "hold" \in Suspends /\ f.by \in Holders

Aged(f) == [f EXCEPT !.young = FALSE, !.expired = f.expired \/ ~f.young]

AgePath ==
  /\ MayAge(path)
  /\ path' = Aged(path)
  /\ UNCHANGED <<steal, alive, pc, round, carried>>

(* A stolen copy is put back or removed by its thief within the bound. *)
AgeCopy(p) ==
  /\ MayAge(steal[p])
  /\ "call" \in Suspends \/ \A c \in Contenders : PidOf[c] = p => Gone(c)
  /\ steal' = [steal EXCEPT ![p] = Aged(steal[p])]
  /\ UNCHANGED <<path, alive, pc, round, carried>>

-----------------------------------------------------------------------------

Acquire(c) ==
  \/ Create(c) \/ Write(c) \/ Drop(c)
  \/ Check(c) \/ CheckMtime(c) \/ Steal(c) \/ Inspect(c) \/ InspectMtime(c)
  \/ Restore(c) \/ Reread(c) \/ Recreate(c) \/ Rewrite(c) \/ DropCopy(c)
  \/ Discard(c) \/ Claim(c) \/ Verify(c)
  \/ AcquiringFails(c) \/ CheckingFails(c) \/ RestoringFails(c)

Next ==
  \/ \E c \in Contenders : Acquire(c) \/ Release(c)
  \/ \E p \in Pids : Crash(p) \/ AgeCopy(p)
  \/ AgePath

Spec == Init /\ [][Next]_vars

(* A call under way is scheduled and the clock advances.  Nobody has to    *)
(* begin a call, and a holder may hold for ever.                           *)
FairSpec ==
  /\ Spec
  /\ \A c \in Contenders : WF_vars(pc[c] # "idle" /\ Acquire(c))
  /\ SF_vars(AgePath)

-----------------------------------------------------------------------------

(* Types; the reclaim loop never exceeds its _EPHEMERAL_RECLAIM_RETRIES    *)
(* rounds.                                                                 *)
TypeOK ==
  /\ path \in File \cup {NoFile}
  /\ steal \in [Pids -> File \cup {NoFile}]
  /\ alive \subseteq Pids
  /\ pc \in [Contenders -> Labels]
  /\ round \in [Contenders -> 0..Retries]
  /\ carried \in [Contenders -> File \cup {NoFile}]

(* acquire_token: two callers never both believe they hold the token.      *)
MutualExclusion == \A c, d \in Holders : c = d

(* What _lockfile_holder_is_live should call reclaimable: an empty file    *)
(* past the grace, a complete one of a dead PID or past its bound.         *)
StalePrey(f) == Exists(f) => IF f.torn THEN ~Young(f) ELSE ~HolderLive(f)

(* _acquire_ephemeral inspects the stolen copy "in isolation": when a      *)
(* thread is about to remove its copy as stale, the copy is stale, and no  *)
(* complete, unexpired lock of a live process.                             *)
DiscardsOnlyStale ==
  \A c \in Contenders : pc[c] = "discard" => StalePrey(steal[PidOf[c]])

(* A lockfile nobody uses, or of a holder suspended past its bound.        *)
Stranded == Exists(path) /\ (~InUse(path) \/ (~path.torn /\ path.expired))

(* A lockfile left by a crash, a failed removal or a suspended holder, its *)
(* PID dead, alive or recycled, does not stay at the path for as long as   *)
(* one contender, whoever it is, keeps calling acquire: each of its calls  *)
(* that finds a file there must in the end settle it.                      *)
SelfHeals ==
  \A c \in Contenders : []<>(pc[c] = "check") => []<>~Stranded

Token == INSTANCE TokenLock WITH holders <- Holders

(* acquire_token and release_token implement the abstract token: it is     *)
(* taken only when free, and given back only by its holder or its death.   *)
ImplementsToken == Token!TokenSpec
==============================================================================
