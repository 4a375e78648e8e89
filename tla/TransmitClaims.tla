---------------------------- MODULE TransmitClaims ----------------------------
(* What the user guide says of transmitting and the code does not keep. *)
EXTENDS MCTransmit

\* There is always a message to send, and the rig does not fail.
ClaimNext == \/ Tick(TRUE) \/ EndTimer \/ DelayTimer \/ TxHandleUpdate \/ Operator
             \/ ModulatorCall \/ MessageEnds \/ RigThread
ClaimSpec == TxInit /\ [][ClaimNext]_transmitVars

\* "Halt Tx terminates a transmission immediately" (controls-functions-main-window):
\* a station that neither transmits nor is about to lower PTT, the modulator's calls
\* carried out, is silent.
HaltSilences == ~tx.iptt /\ tx.ptt0 = 0 /\ audio.calls = <<>> => ~audio.playing
=============================================================================
