--------------------------- MODULE MessageStatus ----------------------------
(***************************************************************************)
(* RTI_MQTT_SubscriptionMessageStatus: the four unsigned counters that     *)
(* receive() and read() maintain for a subscription (Message.c).           *)
(***************************************************************************)
EXTENDS Counters

Status == [received_count : Counter, unread_count : Counter,
           read_count : Counter, lost_count : Counter]

NoMessages == [received_count |-> 0, unread_count |-> 0,
               read_count |-> 0, lost_count |-> 0]

\* Mutant of CountReceived: the message pushed out still counts as unread.
CountReceivedKeepsUnread(status, lost) ==
    [status EXCEPT
        !.received_count = Wrap(@ + 1),
        !.unread_count = Wrap(@ + 1),
        !.lost_count = IF lost THEN Wrap(@ + 1) ELSE @]

\* One message was stored; "lost" when it pushed another one out.
CountReceived(status, lost) ==
    [status EXCEPT
        !.received_count = Wrap(@ + 1),
        !.unread_count = IF lost THEN Wrap(Wrap(@ + 1) - 1) ELSE Wrap(@ + 1),
        !.lost_count = IF lost THEN Wrap(@ + 1) ELSE @]

\* Mutant of CountRead: read_count is forgotten.
CountReadForgets(status, n) == [status EXCEPT !.unread_count = Wrap(@ - n)]

\* n messages were handed to the reader.
CountRead(status, n) ==
    [status EXCEPT !.unread_count = Wrap(@ - n), !.read_count = Wrap(@ + n)]

\* A failed read gave up n messages.
CountLost(status, n) == [status EXCEPT !.lost_count = Wrap(@ + n)]

\* Each message received is unread, read or lost.
Balanced(status) ==
    status.received_count =
        Wrap(status.unread_count + status.read_count + status.lost_count)

=============================================================================
