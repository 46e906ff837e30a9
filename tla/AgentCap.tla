------------------------------- MODULE AgentCap -------------------------------
(***************************************************************************)
(* What run_lock.py's slot pool promises to whoever delegates: over all    *)
(* threads of all processes, no more than Cap delegations are under way at *)
(* once.  A delegation begins when there is room; it ends by itself or     *)
(* with its process, which may end several at once.                        *)
(***************************************************************************)
EXTENDS Naturals, FiniteSets

CONSTANTS
  Agents,  \* whatever makes one delegation at a time
  Cap      \* max_parallel_agents

VARIABLE agents  \* those whose delegation is under way

Begin(a) ==
  /\ a \notin agents
  /\ Cardinality(agents) < Cap
  /\ agents' = agents \cup {a}

End(gone) ==
  /\ gone # {}
  /\ agents' = agents \ gone

CapInit == agents = {}

CapNext ==
  \/ \E a \in Agents : Begin(a)
  \/ \E gone \in SUBSET agents : End(gone)

CapSpec == CapInit /\ [][CapNext]_agents
===============================================================================
