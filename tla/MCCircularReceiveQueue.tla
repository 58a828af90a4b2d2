---------------------- MODULE MCCircularReceiveQueue ------------------------
(* Instances of the ring for TLC. *)
EXTENDS CircularReceiveQueue

\* Reads into sequences of one and of two messages.
MCCopySizes == {1, 2}
=============================================================================
