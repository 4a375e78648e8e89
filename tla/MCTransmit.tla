------------------------------ MODULE MCTransmit ------------------------------
EXTENDS Transmit
=============================================================================
