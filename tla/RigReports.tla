----------------------------- MODULE RigReports ------------------------------
(***************************************************************************)
(* What rig control promises its clients: after a command the rig reports  *)
(* states it had with that command carried out, one after another, and the *)
(* clients see each of them, in that order, unless another command comes   *)
(* first.  They never see a state from before their newest command.        *)
(***************************************************************************)
EXTENDS Sequences

CONSTANT States
VARIABLES
  reports,   \* states reported since the newest command, not yet seen
  view       \* the state the clients saw last

Init == reports = <<>> /\ view \in States

Command == reports' = <<>> /\ UNCHANGED view

Report == \E s \in States : reports' = Append(reports, s) /\ UNCHANGED view

See == reports # <<>> /\ view' = Head(reports) /\ reports' = Tail(reports)

Next == Command \/ Report \/ See
Spec == Init /\ [][Next]_<<reports, view>>
=============================================================================
