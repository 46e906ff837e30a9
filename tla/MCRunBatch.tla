------------------------------ MODULE MCRunBatch ------------------------------
(* Small instances of RunBatch: four jobs, the last one for a second model,  *)
(* and six of which the second model's free a place after a cooldown.        *)
EXTENDS RunBatch, TLC

CONSTANTS coder, vision

FourJobs == (1 :> coder) @@ (2 :> coder) @@ (3 :> coder) @@ (4 :> vision)
SixJobs == (1 :> coder) @@ (2 :> coder) @@ (3 :> vision)
             @@ (4 :> coder) @@ (5 :> vision) @@ (6 :> coder)

(* The behaviours of Spec in which every batch has all the jobs and none is  *)
(* interrupted.                                                              *)
WholeBatches == Init /\ [][StartBatch(Jobs) \/ (Next /\ InBatch' = InBatch)]_vars
===============================================================================
