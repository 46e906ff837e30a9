----------------------------- MODULE Delegation -----------------------------
(***************************************************************************)
(* run_ollama.run_delegation in the processes of one project, which share  *)
(* the slots of acquire_slot and the stdout token: one delegation per      *)
(* process, from its managed run directory to its exit, with exceptions,   *)
(* interrupts and kills on the way.  A process that is over is forgotten,  *)
(* and another may start in its place.                                     *)
(*                                                                         *)
(* A lockfile is taken at what TokenLock promises of it, the directory at  *)
(* what is left of it, dispatch at its outcome; EphemeralLock, RunDir and  *)
(* Transport open them.  transcribe, which goes through the same stages as *)
(* a transactional capability, --output-dir and disable_fs_locks, which    *)
(* opt out of the locks, are left out.                                     *)
(***************************************************************************)
EXTENDS Naturals, FiniteSets

CONSTANTS
  Processes,
  MaxParallel,    \* max_parallel_agents, the same for all of them
  Stranded,       \* the slots a previous, larger cap used beyond it
  Streaming,      \* the processes whose capability is streamed
  Displayed,      \* those that show the status display
  Disturbed,      \* those whose calls may fail, and that may be interrupted or killed
  MaxInterrupts,  \* interrupts of one process
  Nobody, Gone    \* a lockfile that is not there, or its holder is not

ASSUME DelegationAssumption ==
  /\ IsFiniteSet(Processes)
  /\ MaxParallel \in Nat \ {0}
  /\ Stranded \in Nat
  /\ Streaming \subseteq Processes
  /\ Displayed \subseteq Processes
  /\ Disturbed \subseteq Processes
  /\ MaxInterrupts \in Nat
  /\ Nobody # Gone
  /\ {Nobody, Gone} \cap Processes = {}

VARIABLES
  slot,        \* whose PID is in slot-i.lock
  token,       \* whose PID is in .ollama-stdout.lock
  pc,
  at,          \* the slot that is looked at
  index,       \* slot_index
  live,        \* used_stdout
  raised,      \* the exception in flight
  interrupts,  \* so far
  row,         \* its state in the display
  buffered,    \* diagnostics that are nowhere but in its buffer
  dir,         \* what has become of its run directory
  shown        \* how often its result has been given to stdout

locks == <<slot, token>>
local == <<at, index, live>>
seen == <<row, buffered, shown>>
vars == <<locks, pc, local, raised, interrupts, seen, dir>>

Slots == 0 .. (MaxParallel + Stranded - 1)
Pool == 0 .. (MaxParallel - 1)
None == MaxParallel + Stranded

InTry == {"prepare", "sweep", "remove", "probe", "token", "open", "stream",
          "footer", "block", "give_back", "dispatch", "artifacts", "present",
          "flush"}
Labels == InTry \cup {"start", "handle", "release", "leave", "exit"}

(* Exceptions, and that of a warning which replaced one of them. *)
Errors == {"failed", "timeout"}
Failures == Errors \cup {"warning"}

-----------------------------------------------------------------------------
Free(holder) == holder \in {Nobody, Gone}

Goto(p, label) == pc' = [pc EXCEPT ![p] = label]

(* Where an exception of any kind goes: through the finally of the frame,  *)
(* that of the token, the except clauses, their finally, the directory's.  *)
Unwound(p) ==
  IF pc[p] = "stream" /\ live[p] THEN "footer"
  ELSE IF pc[p] \in {"open", "stream", "footer", "block"} /\ p \in Streaming THEN "give_back"
  ELSE CASE pc[p] \in InTry -> "handle"
         [] pc[p] = "handle" -> "release"
         [] pc[p] = "release" -> "leave"
         [] OTHER -> "exit"

Unwind(p, exception) ==
  /\ Goto(p, Unwound(p))
  /\ raised' = [raised EXCEPT ![p] = exception]

(* The display shows the state of a delegation. *)
Rowed(p, state) == IF p \in Displayed THEN [row EXCEPT ![p] = state] ELSE row

(* Diagnostics go to the buffer, and to stderr too if no display is there. *)
MayWarn(p) ==
  buffered' \in {buffered, [buffered EXCEPT ![p] = p \in Displayed]}

(* A call may raise or give up, and an interrupt may arrive. *)
MayFail(p) == p \in Disturbed
MayInterrupt(p) == p \in Disturbed /\ interrupts[p] < MaxInterrupts

-----------------------------------------------------------------------------
Init ==
  /\ \E orphans \in SUBSET (Slots \ Pool) :
       slot = [i \in Slots |-> IF i \in orphans THEN Gone ELSE Nobody]
  /\ token = Nobody
  /\ pc = [p \in Processes |-> "start"]
  /\ at = [p \in Processes |-> 0]
  /\ index = [p \in Processes |-> None]
  /\ live = [p \in Processes |-> FALSE]
  /\ raised = [p \in Processes |-> "none"]
  /\ interrupts = [p \in Processes |-> 0]
  /\ row = [p \in Processes |-> "pending"]
  /\ buffered = [p \in Processes |-> FALSE]
  /\ dir = [p \in Processes |-> "none"]
  /\ shown = [p \in Processes |-> 0]

(* managed_run_dir has made and locked the directory. *)
Start(p) ==
  /\ pc[p] = "start"
  /\ dir' = [dir EXCEPT ![p] = "locked"]
  /\ Goto(p, "prepare")
  /\ UNCHANGED <<locks, local, raised, interrupts, seen>>

(* Mutant: the sweep looks at every slot. *)
FirstSlot == 0

FirstOrphan == MaxParallel

(* Preflight and the input, with their warnings. *)
Prepare(p) ==
  /\ pc[p] = "prepare"
  /\ MayWarn(p)
  /\ row' = Rowed(p, "running")
  /\ at' = [at EXCEPT ![p] = FirstOrphan]
  /\ Goto(p, "sweep")
  /\ UNCHANGED <<locks, index, live, raised, interrupts, shown, dir>>

(* The sweep judges a slot, or is over. *)
Sweep(p) ==
  /\ pc[p] = "sweep"
  /\ \/ /\ at[p] \in Slots
        /\ slot[at[p]] = Gone
        /\ Goto(p, "remove")
        /\ UNCHANGED at
     \/ /\ at[p] \in Slots
        /\ slot[at[p]] # Gone
        /\ at' = [at EXCEPT ![p] = @ + 1]
        /\ UNCHANGED pc
     \/ /\ at[p] \notin Slots
        /\ at' = [at EXCEPT ![p] = 0]
        /\ Goto(p, "probe")
  /\ UNCHANGED <<locks, index, live, raised, interrupts, seen, dir>>

(* It removes what it judged, by name, or fails to. *)
RemoveOrphan(p) ==
  /\ pc[p] = "remove"
  /\ \/ slot' = [slot EXCEPT ![at[p]] = Nobody]
     \/ MayFail(p) /\ UNCHANGED slot
  /\ at' = [at EXCEPT ![p] = @ + 1]
  /\ Goto(p, "sweep")
  /\ UNCHANGED <<token, index, live, raised, interrupts, seen, dir>>

(* Mutant: one slot too many. *)
ProbesOneMore(i) == i <= MaxParallel

Probes(i) == i < MaxParallel

AcquireSlot(p) ==
  /\ pc[p] = "probe"
  /\ Probes(at[p])
  /\ Free(slot[at[p]])
  /\ slot' = [slot EXCEPT ![at[p]] = p]
  /\ at' = [at EXCEPT ![p] = 0]
  /\ UNCHANGED <<token, live, seen, dir>>
  /\ \/ /\ index' = [index EXCEPT ![p] = at[p]]
        /\ Goto(p, IF p \in Streaming THEN "token" ELSE "dispatch")
        /\ UNCHANGED <<raised, interrupts>>
     \/ (* interrupted before slot_index is assigned *)
        /\ MayInterrupt(p)
        /\ interrupts' = [interrupts EXCEPT ![p] = @ + 1]
        /\ Unwind(p, "interrupt")
        /\ UNCHANGED index

(* The slot is held, or it could not be had; the last one rejects.         *)
NextSlot(p) ==
  /\ pc[p] = "probe"
  /\ Probes(at[p]) => MayFail(p) \/ ~Free(slot[at[p]])
  /\ IF Probes(at[p])
       THEN at' = [at EXCEPT ![p] = @ + 1] /\ UNCHANGED <<pc, raised>>
       ELSE at' = [at EXCEPT ![p] = 0] /\ Unwind(p, "failed")
  /\ UNCHANGED <<locks, index, live, interrupts, seen, dir>>

-----------------------------------------------------------------------------
AcquireToken(p) ==
  /\ pc[p] = "token"
  /\ Free(token)
  /\ token' = p
  /\ UNCHANGED <<slot, at, index, seen, dir>>
  /\ \/ /\ live' = [live EXCEPT ![p] = TRUE]
        /\ Goto(p, "open")
        /\ UNCHANGED <<raised, interrupts>>
     \/ (* interrupted before the try *)
        /\ MayInterrupt(p)
        /\ interrupts' = [interrupts EXCEPT ![p] = @ + 1]
        /\ Unwind(p, "interrupt")
        /\ UNCHANGED live

(* The token is held, or could not be had: the stream goes to a file. *)
MissToken(p) ==
  /\ pc[p] = "token"
  /\ MayFail(p) \/ ~Free(token)
  /\ Goto(p, "stream")
  /\ UNCHANGED <<locks, local, raised, interrupts, seen, dir>>

(* The frame's header. *)
OpenFrame(p) ==
  /\ pc[p] = "open"
  /\ shown' = [shown EXCEPT ![p] = @ + 1]
  /\ Goto(p, "stream")
  /\ UNCHANGED <<locks, local, raised, interrupts, row, buffered, dir>>

(* dispatch returns. *)
Return(p) ==
  /\ pc[p] \in {"stream", "dispatch"}
  /\ MayWarn(p)
  /\ Goto(p, IF p \notin Streaming THEN "artifacts"
             ELSE IF live[p] THEN "footer" ELSE "block")
  /\ UNCHANGED <<locks, local, raised, interrupts, row, shown, dir>>

(* The frame's footer, written if it can be. *)
CloseFrame(p) ==
  /\ pc[p] = "footer"
  /\ Goto(p, "give_back")
  /\ UNCHANGED <<locks, local, raised, interrupts, seen, dir>>

(* What a stream that went to a file shows, at once. *)
ShowBlock(p) ==
  /\ pc[p] = "block"
  /\ shown' = [shown EXCEPT ![p] = @ + 1]
  /\ Goto(p, "give_back")
  /\ UNCHANGED <<locks, local, raised, interrupts, row, buffered, dir>>

(* Mutant: whoever ends its stream removes the token by name. *)
GivesBackAny(p) == TRUE

GivesBack(p) == live[p]

(* The finally of _stream_with_stdout_token, which removes the token by    *)
(* name, or fails to.                                                      *)
ReleaseToken(p) ==
  /\ pc[p] = "give_back"
  /\ \/ GivesBack(p) /\ token' = Nobody
     \/ (GivesBack(p) => MayFail(p)) /\ UNCHANGED token
  /\ Goto(p, IF raised[p] = "none" THEN "artifacts" ELSE "handle")
  /\ UNCHANGED <<slot, local, raised, interrupts, seen, dir>>

-----------------------------------------------------------------------------
(* _write_artifacts, which keeps the buffer or warns that it could not,    *)
(* and the display.                                                        *)
WriteArtifacts(p) ==
  /\ pc[p] = "artifacts"
  /\ \/ buffered' = [buffered EXCEPT ![p] = FALSE]
     \/ MayFail(p) /\ buffered' = [buffered EXCEPT ![p] = p \in Displayed]
  /\ row' = Rowed(p, "success")
  /\ Goto(p, IF p \in Streaming THEN "flush" ELSE "present")
  /\ UNCHANGED <<locks, local, raised, interrupts, shown, dir>>

Present(p) ==
  /\ pc[p] = "present"
  /\ shown' = [shown EXCEPT ![p] = @ + 1]
  /\ Goto(p, "flush")
  /\ UNCHANGED <<locks, local, raised, interrupts, row, buffered, dir>>

(* buffered_stderr_while ends without an exception. *)
Flush(p) ==
  /\ pc[p] = "flush"
  /\ buffered' = [buffered EXCEPT ![p] = FALSE]
  /\ Goto(p, "release")
  /\ UNCHANGED <<locks, local, raised, interrupts, row, shown, dir>>

(* The except clauses: the display is told, and the exception goes on, or  *)
(* that of the warning that the display could not be drawn, which goes to  *)
(* the same stderr.                                                        *)
Handle(p) ==
  /\ pc[p] = "handle"
  /\ row' = IF raised[p] \in Errors THEN Rowed(p, raised[p]) ELSE row
  /\ \/ UNCHANGED raised
     \/ /\ MayFail(p) /\ p \in Displayed /\ raised[p] \in Errors
        /\ raised' = [raised EXCEPT ![p] = "warning"]
  /\ Goto(p, "release")
  /\ UNCHANGED <<locks, local, interrupts, buffered, shown, dir>>

Holds(p) == index[p] # None

(* Mutant: a failing stop of the display replaces what is in flight. *)
FailingStop(p) == {raised[p], "failed"}

(* What is in flight after the display's stop. *)
Stopped(p) == {raised[p]}

(* The finally of run_delegation removes the slot by name, or fails to. *)
Release(p) ==
  /\ pc[p] = "release"
  /\ \/ Holds(p) /\ slot' = [slot EXCEPT ![index[p]] = Nobody]
     \/ (Holds(p) => MayFail(p)) /\ UNCHANGED slot
  /\ \E r \in Stopped(p) : raised' = [raised EXCEPT ![p] = r]
  /\ Goto(p, "leave")
  /\ UNCHANGED <<token, local, interrupts, seen, dir>>

(* managed_run_dir: the lock is removed, the directory, or neither. *)
Leave(p) ==
  /\ pc[p] = "leave"
  /\ \E result \in CASE raised[p] = "none" -> {"unlocked", "left"}
                     [] raised[p] = "interrupt" -> {"removed", "left"}
                     [] OTHER -> {"locked"} :
       dir' = [dir EXCEPT ![p] = result]
  /\ Goto(p, "exit")
  /\ UNCHANGED <<locks, local, raised, interrupts, seen>>

-----------------------------------------------------------------------------
(* Preflight or dispatch time out or fail, a stream to stdout or a file    *)
(* breaks, the display or stdout is closed.                                *)
Raise(p) ==
  /\ MayFail(p)
  /\ pc[p] \in {"prepare", "open", "stream", "block", "dispatch", "artifacts", "present"}
  /\ \/ Unwind(p, "failed")
     \/ pc[p] \in {"prepare", "stream", "dispatch"} /\ Unwind(p, "timeout")
  /\ MayWarn(p)
  /\ UNCHANGED <<locks, local, interrupts, row, shown, dir>>

(* An interrupt, of a cleanup too, which it cuts short. *)
Interrupt(p) ==
  /\ pc[p] \in InTry \cup {"handle", "release", "leave"}
  /\ MayInterrupt(p)
  /\ interrupts' = [interrupts EXCEPT ![p] = @ + 1]
  /\ Unwind(p, "interrupt")
  /\ dir' = IF pc[p] = "leave" THEN [dir EXCEPT ![p] = "left"] ELSE dir
  /\ UNCHANGED <<locks, local, seen>>

(* The process exits or is killed: its lockfiles have no holder any more. *)
Exit(p) ==
  /\ pc[p] = "exit" \/ (pc[p] # "start" /\ p \in Disturbed)
  /\ Goto(p, "start")
  /\ slot' = [i \in Slots |-> IF slot[i] = p THEN Gone ELSE slot[i]]
  /\ token' = IF token = p THEN Gone ELSE token
  /\ at' = [at EXCEPT ![p] = 0]
  /\ index' = [index EXCEPT ![p] = None]
  /\ live' = [live EXCEPT ![p] = FALSE]
  /\ raised' = [raised EXCEPT ![p] = "none"]
  /\ interrupts' = [interrupts EXCEPT ![p] = 0]
  /\ row' = [row EXCEPT ![p] = "pending"]
  /\ buffered' = [buffered EXCEPT ![p] = FALSE]
  /\ dir' = [dir EXCEPT ![p] = "none"]
  /\ shown' = [shown EXCEPT ![p] = 0]

Step(p) ==
  \/ Start(p) \/ Prepare(p) \/ Sweep(p) \/ RemoveOrphan(p)
  \/ AcquireSlot(p) \/ NextSlot(p)
  \/ AcquireToken(p) \/ MissToken(p) \/ OpenFrame(p) \/ Return(p)
  \/ CloseFrame(p) \/ ShowBlock(p) \/ ReleaseToken(p)
  \/ WriteArtifacts(p) \/ Present(p) \/ Flush(p)
  \/ Handle(p) \/ Release(p) \/ Leave(p)
  \/ Raise(p) \/ Interrupt(p) \/ Exit(p)

Next == \E p \in Processes : Step(p)

Spec == Init /\ [][Next]_vars

-----------------------------------------------------------------------------
(* Type correctness. *)
TypeOK ==
  /\ slot \in [Slots -> Processes \cup {Nobody, Gone}]
  /\ token \in Processes \cup {Nobody, Gone}
  /\ pc \in [Processes -> Labels]
  /\ at \in [Processes -> Slots \cup {None}]
  /\ index \in [Processes -> Pool \cup {None}]
  /\ live \in [Processes -> BOOLEAN]
  /\ raised \in [Processes -> Failures \cup {"none", "interrupt"}]
  /\ interrupts \in [Processes -> 0 .. MaxInterrupts]
  /\ row \in [Processes -> {"pending", "running", "success"} \cup Errors]
  /\ buffered \in [Processes -> BOOLEAN]
  /\ dir \in [Processes -> {"none", "locked", "unlocked", "removed", "left"}]
  /\ shown \in [Processes -> 0 .. 1]

(* The processes that use the endpoint, or stdout as their own. *)
Delegating == {p \in Processes : pc[p] \in {"open", "stream", "dispatch"}}
Terminal == {p \in Processes : pc[p] \in {"open", "stream", "footer"} /\ live[p]}

(* R21c: over all processes, never more delegations than the cap, though   *)
(* slots are reclaimed from the dead, swept, and given back in any order.  *)
AtMostCap == Cardinality(Delegating) <= MaxParallel

(* R7d: no two processes stream to stdout at once, until their frames are  *)
(* closed, whatever ends them.                                             *)
OneTerminal == \A p, q \in Terminal : p = q

Delegations == INSTANCE AgentCap WITH
  Agents <- Processes, Cap <- MaxParallel, agents <- Delegating

(* R21c: over all processes the delegations are a pool of MaxParallel, of  *)
(* which each begins when there is room and ends by itself or killed,      *)
(* though its slot outlives its use of it.                                 *)
ImplementsCap == Delegations!CapSpec

(* What directory, display and stdout tell of an ended delegation.  An     *)
(* interrupt may come when the display and stdout know of the success.     *)
Told(p) ==
  /\ raised[p] = "none" => shown[p] = 1 /\ dir[p] \in {"unlocked", "left"}
  /\ raised[p] = "interrupt" => dir[p] \in {"removed", "left"}
  /\ raised[p] \in Failures => dir[p] = "locked"
  /\ p \in Displayed /\ raised[p] \in Errors => row[p] = raised[p]
  /\ p \in Displayed /\ raised[p] = "none" => row[p] = "success"
  /\ p \notin Streaming /\ shown[p] = 1 =>
       /\ raised[p] \in {"none", "interrupt"}
       /\ p \in Displayed => row[p] = "success"

(* R27: what is in flight reaches the directory through every cleanup: an  *)
(* interrupted run is never kept as a failed one, a failed one never       *)
(* removed; the display shows the failure that leaves the process, and a   *)
(* buffered result that was given to stdout is one the display knows as a  *)
(* success and that did not fail.                                          *)
OutcomeAgrees == \A p \in Processes : pc[p] = "exit" => Told(p)

(* _safe_display_update "must never mask the original failure": what       *)
(* leaves the process is what the display was told.                        *)
FailureTold ==
  \A p \in Displayed \cap Processes :
    pc[p] = "exit" /\ raised[p] \notin {"none", "interrupt"} => row[p] = raised[p]

(* buffered_stderr_while: what was buffered is "flushed to the real stderr *)
(* once, on exit"; managed_run_dir: a failure's diagnostics are shown.     *)
DiagnosticsSeen ==
  \A p \in Processes :
    pc[p] = "exit" /\ raised[p] # "interrupt" => ~buffered[p]
=============================================================================
