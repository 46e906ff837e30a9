------------------------------ MODULE MCOutcomes ------------------------------
(* How a delegation ends, seen from inside and from outside: Transport, and  *)
(* Delegation, which takes a dispatch at its outcome.  They share no state,  *)
(* so each behaviour is one of one of them, and the other stays where it     *)
(* begins.                                                                   *)
EXTENDS MCTransport, MCDelegation

VARIABLE view  \* the one that runs

allVars == <<view, transportVars, vars>>

AllInit ==
  /\ view \in {"inside", "outside"}
  /\ TransportInit
  /\ Init
  /\ view = "outside" => kind = Verbatim

Inside ==
  /\ view = "inside"
  /\ TransportNext
  /\ UNCHANGED <<view, vars>>

Outside ==
  /\ view = "outside"
  /\ Next
  /\ UNCHANGED <<view, transportVars>>

AllNext == Inside \/ Outside

(* A transport's calls return; of the processes nothing is asked.            *)
AllSpec == AllInit /\ [][AllNext]_allVars /\ WF_allVars(Inside)

(* Transport's Ends, where it runs. *)
DispatchEnds == view = "inside" => Ends
===============================================================================
