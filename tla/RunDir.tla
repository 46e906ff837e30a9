------------------------------- MODULE RunDir -------------------------------
(***************************************************************************)
(* managed_run_dir, the liveness lock of a run directory (run_lock.py) and *)
(* cleanup_old_runs (temp_dirs.py), for the runs of one project, each in a *)
(* process and a directory of its own.  A run first prunes what earlier    *)
(* runs left, then creates and locks its directory, and unlocks or removes *)
(* it at its end.                                                          *)
(*                                                                         *)
(* A directory is abstracted to whether it holds a lock and anything else, *)
(* and to its mtime.  Symbolic links in the place of a run directory, a    *)
(* namespace that degraded to the shared temporary directory (which skips  *)
(* the pruning) and a directory passed with --output-dir are left out.     *)
(***************************************************************************)
EXTENDS Integers, FiniteSets

CONSTANTS
  Runs,       \* runs, which also name their directories
  Earlier,    \* the runs that are over before the model starts
  Name,       \* the rank of a directory's name, which breaks ties of mtimes
  KeepRuns,   \* --keep-runs
  Grace,      \* _LOCK_SETUP_GRACE_SECONDS
  Horizon,    \* bound of the model: the clock stops here
  NoDir,      \* "no such directory"
  Crashing,   \* the runs that may be killed, or interrupted outside the body
  Failing,    \* the calls that may fail: "scan", "write", "remove"
  Suspends    \* "call": a run may be suspended past the grace between two
              \* calls; "bound": it may outlive the bound of its lock

Dir == [lock : BOOLEAN, content : BOOLEAN, mtime : Int]

ASSUME RunDirAssumption ==
  /\ Earlier \subseteq Runs
  /\ Name \in [Runs -> Int]
  /\ \A d, e \in Runs : Name[d] = Name[e] => d = e
  /\ KeepRuns \in {-1} \cup (Nat \ {0})
  /\ Grace \in Nat \ {0}
  /\ Horizon \in Nat
  /\ NoDir \notin Dir
  /\ Crashing \subseteq Runs
  /\ Failing \subseteq {"scan", "write", "remove"}
  /\ Suspends \subseteq {"call", "bound"}

VARIABLES
  now,      \* the wall clock
  dir,      \* the directory of every run
  held,     \* the runs whose lock names a live PID within its bound
  pc,       \* where a run is in managed_run_dir
  entries,  \* the mtimes cleanup_old_runs has read
  todo,     \* the directories it has yet to check, or to remove
  dead,     \* those it has found not live
  cur       \* the directory a run is checking or removing

local == <<entries, todo, dead, cur>>
dirsVars == <<now, dir, held, pc, local>>

Labels == {"start", "check", "parse_lock", "parse_none", "mtime", "remove",
           "mkdtemp", "lock", "running", "unprotected", "age", "rmtree",
           "failed", "ended", "over"}

(* The body of the with statement. *)
Body == {"running", "unprotected"}

-----------------------------------------------------------------------------
Exists(d) == dir[d] # NoDir
Locked(d) == Exists(d) /\ dir[d].lock
Empty(d) == ~dir[d].lock /\ ~dir[d].content

(* Creating or removing an entry of a directory sets its mtime. *)
Touched(e) == [e EXCEPT !.mtime = now]

Removing(r, d) == pc[r] \in {"remove", "rmtree"} /\ cur[r] = d

(* candidates.sort(key=lambda x: (-x[0], x[1])) *)
Before(r, d, e) ==
  \/ entries[r][d] > entries[r][e]
  \/ entries[r][d] = entries[r][e] /\ Name[d] < Name[e]

(* candidates[keep:], with the caller's keep_runs - 1. *)
Surplus(r, candidates) ==
  {d \in candidates :
     Cardinality({e \in candidates : Before(r, e, d)}) >= KeepRuns - 1}

-----------------------------------------------------------------------------
Goto(r, label) ==
  /\ pc' = [pc EXCEPT ![r] = label]
  /\ UNCHANGED <<now, held>>

DirsInit ==
  /\ now = 0
  /\ dir \in [Runs -> {NoDir} \cup
                      [lock : BOOLEAN, content : BOOLEAN, mtime : (0 - Grace) .. 0]]
  /\ \A r \in Runs : Exists(r) <=> r \in Earlier
  /\ \E recycled \in SUBSET Earlier : held = (Runs \ Earlier) \cup recycled
  /\ pc = [r \in Runs |-> IF r \in Earlier THEN "over" ELSE "start"]
  /\ entries = [r \in Runs |-> [d \in Runs |-> 0]]
  /\ todo = [r \in Runs |-> {}]
  /\ dead = [r \in Runs |-> {}]
  /\ cur = [r \in Runs |-> r]

(* The pruning is over: its list is dropped. *)
EndPruning(r) ==
  /\ Goto(r, "mkdtemp")
  /\ entries' = [entries EXCEPT ![r] = [d \in Runs |-> 0]]
  /\ todo' = [todo EXCEPT ![r] = {}]
  /\ dead' = [dead EXCEPT ![r] = {}]
  /\ cur' = [cur EXCEPT ![r] = r]

(* cleanup_old_runs lists the directories with their mtimes. *)
Scan(r) ==
  /\ pc[r] = "start"
  /\ KeepRuns >= 1
  /\ entries' = [entries EXCEPT ![r] =
                   [d \in Runs |-> IF Exists(d) THEN dir[d].mtime ELSE 0]]
  /\ todo' = [todo EXCEPT ![r] = {d \in Runs : Exists(d)}]
  /\ Goto(r, "check")
  /\ UNCHANGED <<dir, dead, cur>>

(* keep < 0, or the scan fails: a directory vanishes before its stat, or   *)
(* the namespace cannot be read.                                           *)
SkipPruning(r) ==
  /\ pc[r] = "start"
  /\ \/ KeepRuns < 1
     \/ "scan" \in Failing
     \/ \E p, d \in Runs : Removing(p, d)
  /\ EndPruning(r)
  /\ UNCHANGED dir

(* is_dir_live of the next directory: os.path.exists(lock). *)
LookForLock(r) ==
  /\ pc[r] = "check"
  /\ \E d \in todo[r] :
       /\ cur' = [cur EXCEPT ![r] = d]
       /\ todo' = [todo EXCEPT ![r] = todo[r] \ {d}]
       /\ Goto(r, IF Locked(d) THEN "parse_lock" ELSE "parse_none")
  /\ UNCHANGED <<dir, entries, dead>>

(* The verdict on the directory being checked. *)
Judge(r, live) ==
  /\ dead' = IF live THEN dead
                     ELSE [dead EXCEPT ![r] = dead[r] \cup {cur[r]}]
  /\ cur' = [cur EXCEPT ![r] = r]
  /\ Goto(r, "check")
  /\ UNCHANGED <<dir, entries, todo>>

(* _parse_lock and is_pid_alive.  Without a PID, a lock that was there is  *)
(* judged by the directory's freshness: it was written within the 6 h      *)
(* floor, or the directory is gone, which counts as fresh.                 *)
ParseLock(r) ==
  /\ pc[r] \in {"parse_lock", "parse_none"}
  /\ \/ Locked(cur[r]) /\ Judge(r, cur[r] \in held)
     \/ ~Locked(cur[r]) /\ pc[r] = "parse_lock" /\ Judge(r, TRUE)
     \/ /\ ~Locked(cur[r])
        /\ pc[r] = "parse_none"
        /\ Goto(r, "mtime")
        /\ UNCHANGED <<dir, local>>

(* Mutant: a directory without a lock is never live. *)
NoGrace(d) == FALSE

(* _dir_is_within_setup_grace *)
WithinGrace(d) == Exists(d) /\ now - dir[d].mtime < Grace

CheckGrace(r) ==
  /\ pc[r] = "mtime"
  /\ Judge(r, WithinGrace(cur[r]))

(* Every directory has been checked: take the first of the surplus.        *)
(* todo[r] is what remains to be removed after it.                         *)
NextVictim(r, victims) ==
  IF victims = {}
    THEN EndPruning(r)
    ELSE \E d \in victims :
           /\ \A e \in victims \ {d} : Before(r, d, e)
           /\ cur' = [cur EXCEPT ![r] = d]
           /\ todo' = [todo EXCEPT ![r] = victims \ {d}]
           /\ Goto(r, "remove")
           /\ UNCHANGED <<entries, dead>>

Select(r) ==
  /\ pc[r] = "check"
  /\ todo[r] = {}
  /\ NextVictim(r, Surplus(r, dead[r]))
  /\ UNCHANGED dir

(* shutil.rmtree(cur[r]), entry by entry, by a pruner or by the run whose  *)
(* directory it is.                                                        *)
RemoveEntry(r) ==
  /\ pc[r] \in {"remove", "rmtree"}
  /\ Exists(cur[r])
  /\ \/ dir[cur[r]].lock
        /\ dir' = [dir EXCEPT ![cur[r]] = [Touched(@) EXCEPT !.lock = FALSE]]
     \/ dir[cur[r]].content
        /\ dir' = [dir EXCEPT ![cur[r]] = [Touched(@) EXCEPT !.content = FALSE]]
  /\ UNCHANGED <<now, held, pc, local>>

AfterRemoval(r) ==
  IF pc[r] = "rmtree" THEN Goto(r, "ended") /\ UNCHANGED local
                      ELSE NextVictim(r, todo[r])

RemoveDir(r) ==
  /\ pc[r] \in {"remove", "rmtree"}
  /\ Exists(cur[r])
  /\ Empty(cur[r])
  /\ dir' = [dir EXCEPT ![cur[r]] = NoDir]
  /\ AfterRemoval(r)

(* The removal stops with a warning: something else has removed the        *)
(* directory or an entry of it, or the call fails.                         *)
RemovalStops(r) ==
  /\ pc[r] \in {"remove", "rmtree"}
  /\ \/ ~Exists(cur[r])
     \/ "remove" \in Failing
     \/ \E p \in Runs \ {r} : Removing(p, cur[r])
  /\ AfterRemoval(r)
  /\ UNCHANGED dir

-----------------------------------------------------------------------------
(* create_output_dir *)
MakeDir(r) ==
  /\ pc[r] = "mkdtemp"
  /\ dir' = [dir EXCEPT ![r] = [lock |-> FALSE, content |-> FALSE, mtime |-> now]]
  /\ Goto(r, "lock")
  /\ UNCHANGED local

WriteLock(r) ==
  /\ pc[r] = "lock"
  /\ Exists(r)
  /\ dir' = [dir EXCEPT ![r] = [Touched(@) EXCEPT !.lock = TRUE]]
  /\ Goto(r, "running")
  /\ UNCHANGED local

(* write_lock only warns: the run goes on unprotected. *)
WriteLockFails(r) ==
  /\ pc[r] = "lock"
  /\ "write" \in Failing \/ ~Exists(r)
  /\ Goto(r, "unprotected")
  /\ UNCHANGED <<dir, local>>

(* The delegation writes an artifact or its stream log. *)
WriteArtifact(r) ==
  /\ pc[r] \in Body
  /\ Exists(r)
  /\ dir' = [dir EXCEPT ![r] = [Touched(@) EXCEPT !.content = TRUE]]
  /\ UNCHANGED <<now, held, pc, local>>

(* The body ends normally: remove_lock. *)
RemoveLock(r) ==
  /\ pc[r] \in Body
  /\ \/ /\ Locked(r)
        /\ dir' = [dir EXCEPT ![r] = [Touched(@) EXCEPT !.lock = FALSE]]
        /\ Goto(r, "age")
     \/ /\ ~Locked(r) \/ "remove" \in Failing
        /\ Goto(r, "ended")
        /\ UNCHANGED dir
  /\ UNCHANGED local

(* Mutant: the directory is aged ahead of the clock. *)
AgeAhead(r) ==
  /\ pc[r] = "age"
  /\ dir' = IF Exists(r) THEN [dir EXCEPT ![r].mtime = now + Grace + 1] ELSE dir
  /\ Goto(r, "ended")
  /\ UNCHANGED local

(* os.utime: past the grace. *)
AgeDir(r) ==
  /\ pc[r] = "age"
  /\ dir' = IF Exists(r) THEN [dir EXCEPT ![r].mtime = now - Grace - 1] ELSE dir
  /\ Goto(r, "ended")
  /\ UNCHANGED local

(* The body raises: directory and lock are retained. *)
Raise(r) ==
  /\ pc[r] \in Body
  /\ Goto(r, IF pc[r] = "running" THEN "failed" ELSE "ended")
  /\ UNCHANGED <<dir, local>>

(* The body is interrupted: shutil.rmtree(run_dir). *)
Interrupt(r) ==
  /\ pc[r] \in Body
  /\ Goto(r, "rmtree")
  /\ UNCHANGED <<dir, local>>

-----------------------------------------------------------------------------
(* The process of the run ends, or is killed. *)
Exit(r) ==
  /\ pc[r] # "over"
  /\ pc[r] \in {"failed", "ended"} \/ r \in Crashing
  /\ pc' = [pc EXCEPT ![r] = "over"]
  /\ held' = held \ {r}
  /\ entries' = [entries EXCEPT ![r] = [d \in Runs |-> 0]]
  /\ todo' = [todo EXCEPT ![r] = {}]
  /\ dead' = [dead EXCEPT ![r] = {}]
  /\ cur' = [cur EXCEPT ![r] = r]
  /\ UNCHANGED <<now, dir>>

(* The PID of a process that has ended is given to another one. *)
Recycle(r) ==
  /\ pc[r] = "over"
  /\ Locked(r)
  /\ held' = held \cup {r}
  /\ UNCHANGED <<now, dir, pc, local>>

(* The lock's age reaches its bound, or its PID's new owner ends. *)
Expire(r) ==
  /\ r \in held
  /\ pc[r] = "over" \/ ("bound" \in Suspends /\ Locked(r))
  /\ held' = held \ {r}
  /\ UNCHANGED <<now, dir, pc, local>>

(* The directory is in its setup, or a pruner that saw it there is about   *)
(* to read its mtime.                                                      *)
InSetup(d) ==
  \/ pc[d] = "lock"
  \/ pc[d] \in {"running", "failed"} /\ \E p \in Runs : pc[p] = "mtime" /\ cur[p] = d

(* A setup, and a check that began during one, end within the grace.       *)
Tick ==
  /\ now < Horizon
  /\ \/ "call" \in Suspends
     \/ \A d \in Runs : InSetup(d) /\ Exists(d) => now + 1 - dir[d].mtime < Grace
  /\ now' = now + 1
  /\ UNCHANGED <<dir, held, pc, local>>

Step(r) ==
  \/ Scan(r) \/ SkipPruning(r) \/ LookForLock(r) \/ ParseLock(r)
  \/ CheckGrace(r) \/ Select(r) \/ RemoveEntry(r) \/ RemoveDir(r)
  \/ RemovalStops(r) \/ MakeDir(r) \/ WriteLock(r) \/ WriteLockFails(r)
  \/ WriteArtifact(r) \/ RemoveLock(r) \/ AgeDir(r) \/ Raise(r) \/ Interrupt(r)

DirsNext == Tick \/ \E r \in Runs : Step(r) \/ Exit(r) \/ Recycle(r) \/ Expire(r)

DirsSpec == DirsInit /\ [][DirsNext]_dirsVars

-----------------------------------------------------------------------------
(* Type correctness; no directory has an mtime in the future. *)
DirsTypeOK ==
  /\ now \in 0 .. Horizon
  /\ dir \in [Runs -> Dir \cup {NoDir}]
  /\ \A d \in Runs : Exists(d) => dir[d].mtime <= now
  /\ held \subseteq Runs
  /\ pc \in [Runs -> Labels]
  /\ entries \in [Runs -> [Runs -> Int]]
  /\ todo \in [Runs -> SUBSET Runs]
  /\ dead \in [Runs -> SUBSET Runs]
  /\ cur \in [Runs -> Runs]

(* A run that is being set up or is running, or that failed and whose      *)
(* process has not ended yet, has its directory: no concurrent             *)
(* cleanup_old_runs has pruned it or begun to; and once write_lock has     *)
(* succeeded it has its lock.                                              *)
LiveRunKept ==
  \A r \in Runs :
    /\ pc[r] \in {"lock", "running", "failed"} => Exists(r)
    /\ pc[r] \in {"running", "failed"} => Locked(r)
=============================================================================
