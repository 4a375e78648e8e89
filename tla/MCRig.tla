------------------------------- MODULE MCRig --------------------------------
(* Rig control for model checking: the configurations give every constant a *)
(* value.  polls_to_stabilize is 2 rather than 3, the least number with a   *)
(* poll that waits and a poll that gives up.                                *)
EXTENDS Rig
=============================================================================
