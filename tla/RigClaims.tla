------------------------------ MODULE RigClaims ------------------------------
(* What a comment of the program says of rig control and the code does not  *)
(* keep; refuted by a run of its own.                                       *)
EXTENDS MCRig

\* One instance, and nobody touches the radio.
ClaimNext ==
  \/ \E f \in Frequencies : Tune(f)
  \/ TakeCall \/ PollTimer \/ Settle \/ HandleUpdate
  \/ \E on \in BOOLEAN : Key(on)

ClaimSpec == Init /\ [][ClaimNext]_rigVars

\* Transceiver.hpp says set has to "Apply state changes to the rig": with every
\* command carried out, PTT is what was asked for last, also with a radio that
\* answers polls from before a change for a moment.
PttFollows == PttApplied
=============================================================================
