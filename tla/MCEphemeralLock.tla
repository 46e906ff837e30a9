--------------------------- MODULE MCEphemeralLock ---------------------------
(* Small instances of EphemeralLock: contenders a, b and d, run by the       *)
(* processes pa, pb and pd; pg is the PID in a lockfile left behind.         *)
EXTENDS EphemeralLock, TLC

CONSTANTS a, b, d, pa, pb, pd, pg

TwoProcesses == (a :> pa) @@ (b :> pb) @@ (Ghost :> pg)
ThreeProcesses == (a :> pa) @@ (b :> pb) @@ (d :> pd) @@ (Ghost :> pg)
ThreeThreads == (a :> pa) @@ (b :> pa) @@ (d :> pa) @@ (Ghost :> pg)

(* No lockfile was left behind. *)
FreeSpec == Init /\ path = NoFile /\ [][Next]_vars
==============================================================================
