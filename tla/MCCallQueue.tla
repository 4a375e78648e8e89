---------------------------- MODULE MCCallQueue ----------------------------
(* Constants of CallQueue for TLC: which messages are heard and which       *)
(* commands are given in a run.                                             *)
EXTENDS CallQueue

\* A caller's side of a contact, and stations that sign off with another, to
\* be called with Add73.
ContactKinds == {"oth73", "reply", "rreport", "rr73"}
\* The shortest contact in which both reports are exchanged.
OperatorKinds == {"report", "73"}
\* A call to hunt, and the shortest contact.
ProgressKinds == {"cq", "rreport", "73"}

ModeCommands == {"cq", "listen"}
=============================================================================
