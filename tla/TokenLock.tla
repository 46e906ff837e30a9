------------------------------ MODULE TokenLock ------------------------------
(***************************************************************************)
(* What a caller of acquire_token / release_token is promised: the stdout  *)
(* token has at most one holder among all the threads of all processes, a  *)
(* holder gives it back itself, and a crash gives it back on its behalf.   *)
(***************************************************************************)
CONSTANT Contenders

VARIABLE holders

TokenInit == holders = {}

Take(c) == holders = {} /\ holders' = {c}

GiveBack(c) == c \in holders /\ holders' = holders \ {c}

TokenNext == \E c \in Contenders : Take(c) \/ GiveBack(c)

TokenSpec == TokenInit /\ [][TokenNext]_holders
==============================================================================
