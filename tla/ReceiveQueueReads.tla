------------------------- MODULE ReceiveQueueReads --------------------------
(***************************************************************************)
(* What the two kinds of RTI_MQTT_MessageReceiveQueue (Message.c) have in  *)
(* common: the names of the messages and the reads that may be asked for.  *)
(***************************************************************************)
EXTENDS MessageStatus, Integers, Sequences

CONSTANTS
    CopySizes,        \* max_messages of the reads that pass their own sequence
    CopyFailures,     \* how many copies of a message may fail (no memory)
    MaxReceived,      \* bound of the model on the number of arrivals
    NULL              \* a slot or an entry without a message

ASSUME CopyAssumption == CopySizes \subseteq Nat \ {0} /\ CopyFailures \in Nat
ASSUME BoundAssumption == MaxReceived \in Nat
ASSUME NullAssumption == NULL \notin Nat

\* A message is named by its arrival number.
Message == Nat

=============================================================================
