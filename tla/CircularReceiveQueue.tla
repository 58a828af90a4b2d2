------------------------ MODULE CircularReceiveQueue ------------------------
(***************************************************************************)
(* RTI_MQTT_MessageReceiveQueue with a configured size > 0 (Message.c):    *)
(* the ring in which the Paho thread stores the messages of one            *)
(* subscription and from which a Routing Service session thread reads.     *)
(* Every operation runs under the queue's lock, so each is one action.     *)
(*                                                                         *)
(* A message is named by its arrival number; NULL is an empty slot.  The   *)
(* counters of msg_status are unsigned and wrap.  A caller that passes an  *)
(* empty sequence and max_messages = UNLIMITED gets a loan of the read     *)
(* buffer; one that passes a sequence with room for max_messages gets      *)
(* copies.  A read that finds nothing or is refused (a second loan, a      *)
(* mismatched sequence) changes nothing: the error path of read_circular   *)
(* calls return_loan, but DDS will not unloan a sequence that holds no     *)
(* loan.  Handed the sequence that does hold it, the refused read returns  *)
(* the loan.  Not modelled: copies into the sequence that is on loan.      *)
(***************************************************************************)
EXTENDS ReceiveQueueReads

CONSTANT Capacity   \* self->capacity, the configured queue size

ASSUME CapacityAssumption == Capacity \in Nat \ {0}
ASSUME WidthAssumption == Capacity < CounterModulus   \* both are uint32

VARIABLES
    queue,              \* self->queue: the message of each slot
    size,
    head,
    next,               \* slot of the next arrival
    next_unread,        \* slot of the oldest message that waits
    read_buffer,        \* the messages on loan
    read_buffer_loaned,
    msg_status,         \* the counters of RTI_MQTT_SubscriptionMessageStatus
    arrivals,           \* messages received, not wrapped (names the messages)
    failures,           \* copies that have failed so far
    misread             \* a read has failed while a loan was out

vars == <<queue, size, head, next, next_unread, read_buffer,
          read_buffer_loaned, msg_status, arrivals, failures, misread>>

Slots == 0 .. Capacity - 1

\* The slot k places after slot i.
Slot(i, k) == (i + k) % Capacity

TypeOK ==
    /\ queue \in [Slots -> Message \cup {NULL}]
    /\ size \in 0 .. Capacity
    /\ head \in Nat
    /\ next \in Slots
    /\ next_unread \in Slots
    /\ read_buffer \in Seq(Message \cup {NULL})
    /\ read_buffer_loaned \in BOOLEAN
    /\ msg_status \in Status
    /\ arrivals \in Nat
    /\ failures \in Nat
    /\ misread \in BOOLEAN

-----------------------------------------------------------------------------
Init ==
    /\ queue = [i \in Slots |-> NULL]
    /\ size = 0
    /\ head = 0
    /\ next = 0
    /\ next_unread = 0
    /\ read_buffer = <<>>
    /\ read_buffer_loaned = FALSE
    /\ msg_status = NoMessages
    /\ arrivals = 0
    /\ failures = 0
    /\ misread = FALSE

\* A full ring moves its head.  "head = (head += 1) % capacity" writes head
\* twice without a sequence point: either store may come last.
AdvanceFull ==
    IF size < Capacity
    THEN /\ size' = size + 1
         /\ UNCHANGED head
    ELSE /\ head' \in {Slot(head, 1), head + 1}
         /\ UNCHANGED size

\* RTI_MQTT_MessageReceiveQueue_receive / _receive_circular.
Receive ==
    LET lost == queue[next] # NULL
    IN  /\ arrivals < MaxReceived
        /\ arrivals' = arrivals + 1
        /\ queue' = [queue EXCEPT ![next] = arrivals']
        /\ AdvanceFull
        /\ next' = Slot(next, 1)
        /\ next_unread' = IF lost THEN Slot(next_unread, 1) ELSE next_unread
        /\ msg_status' = CountReceived(msg_status, lost)
        /\ UNCHANGED <<read_buffer, read_buffer_loaned, failures, misread>>

-----------------------------------------------------------------------------
\* How many steps the read loop takes from next_unread until it meets next.
Reach == IF next_unread <= next
         THEN next - next_unread
         ELSE next - next_unread + Capacity

\* Mutant of Count: the loop stops one message early.
CountShort(max) == IF max < Reach THEN max ELSE Reach - 1

\* The loop also stops after max_messages steps.
Count(max) == IF max < Reach THEN max ELSE Reach

\* The slots of the first n steps of the loop.
Visited(n) == {Slot(next_unread, i) : i \in 0 .. n - 1}

Cleared(n) == [s \in Slots |-> IF s \in Visited(n) THEN NULL ELSE queue[s]]

\* Mutant of Consume: head does not follow next_unread.
ConsumeKeepsHead(n) ==
    /\ queue' = Cleared(n)
    /\ next_unread' = Slot(next_unread, n)
    /\ size' = size - n
    /\ UNCHANGED head
    /\ msg_status' = CountRead(msg_status, n)

\* The bookkeeping of a read that took n messages (read_circular and read).
Consume(n) ==
    /\ queue' = Cleared(n)
    /\ next_unread' = Slot(next_unread, n)
    /\ size' = size - n
    /\ head' = Slot(head, n)
    /\ msg_status' = CountRead(msg_status, n)

\* Mutant of ReadLoan: a loan is granted while another one is out.
ReadLoanAgain ==
    LET n == Count(Capacity)
    IN  /\ n > 0
        /\ read_buffer' = [i \in 1 .. n |-> queue[Slot(next_unread, i - 1)]]
        /\ read_buffer_loaned' = TRUE
        /\ Consume(n)
        /\ UNCHANGED <<next, arrivals, failures, misread>>

\* read() with an empty sequence and UNLIMITED: the messages move to the read
\* buffer, which is as large as the ring, and the caller borrows it.
ReadLoan ==
    LET n == Count(Capacity)
    IN  /\ ~read_buffer_loaned
        /\ n > 0
        /\ read_buffer' = [i \in 1 .. n |-> queue[Slot(next_unread, i - 1)]]
        /\ read_buffer_loaned' = TRUE
        /\ Consume(n)
        /\ UNCHANGED <<next, arrivals, failures, misread>>

\* read() into the caller's own sequence, whether a loan is out or not.
ReadCopy(max) ==
    LET n == Count(max)
    IN  /\ n > 0
        /\ \A s \in Visited(n) : queue[s] # NULL
        /\ Consume(n)
        /\ UNCHANGED <<next, read_buffer, read_buffer_loaned, arrivals,
                       failures, misread>>

\* The copy of message k + 1 fails, because memory is short or because an
\* earlier failure left the slot empty.  The k messages copied are gone, but
\* read_circular returns before it updates indices, size or unread_count.  With
\* a loan out its error path counts the k messages as lost and lets the failed
\* one be; without, it deletes the failed one.
ReadCopyFails(max, k) ==
    /\ k < Count(max)
    /\ \A s \in Visited(k) : queue[s] # NULL
    /\ IF queue[Slot(next_unread, k)] = NULL
       THEN UNCHANGED failures
       ELSE failures < CopyFailures /\ failures' = failures + 1
    /\ IF read_buffer_loaned
       THEN /\ queue' = Cleared(k)
            /\ msg_status' = CountLost(msg_status, k)
       ELSE /\ queue' = Cleared(k + 1)
            /\ UNCHANGED msg_status
    /\ misread' = (misread \/ read_buffer_loaned)
    /\ UNCHANGED <<size, head, next, next_unread, read_buffer,
                   read_buffer_loaned, arrivals>>

\* RTI_MQTT_MessageReceiveQueue_return_loan: the messages are deleted.  Also a
\* read that is refused and was handed the sequence on loan.
ReturnLoan ==
    /\ read_buffer_loaned
    /\ read_buffer' = <<>>
    /\ read_buffer_loaned' = FALSE
    /\ UNCHANGED <<queue, size, head, next, next_unread, msg_status,
                   arrivals, failures, misread>>

Next ==
    \/ Receive
    \/ ReadLoan
    \/ \E max \in CopySizes : ReadCopy(max)
    \/ \E max \in CopySizes : \E k \in 0 .. max - 1 : ReadCopyFails(max, k)
    \/ ReturnLoan

Spec == Init /\ [][Next]_vars
-----------------------------------------------------------------------------
\* Until a copy fails, the ring's indices, size and slots agree: the messages
\* that wait fill the "size" slots from next_unread up to next and no other
\* slot, so "the slot at next is occupied", by which receive_circular detects a
\* loss, is the same as "the ring is full", by which it moves head.
RingConsistent ==
    failures = 0 =>
        /\ next = Slot(next_unread, size)
        /\ head % Capacity = next_unread
        /\ \A s \in Slots : queue[s] # NULL <=> s \in Visited(size)

\* Until a copy fails, the messages that wait are exactly the latest "size"
\* arrivals, in arrival order, and unread_count counts them: receive_circular
\* drops only the oldest message, and no read skips, repeats or reorders one.
BacklogIsLatest ==
    failures = 0 =>
        /\ msg_status.unread_count = size
        /\ \A i \in 0 .. size - 1 :
              queue[Slot(next_unread, i)] = arrivals - size + 1 + i

\* The wrapping counters of receive() and read() stay balanced, also when copies
\* fail halfway through a read: each message received counts as unread, read or
\* lost.  The one exception is a read that fails while a loan is out.
CountersBalanced == misread \/ Balanced(msg_status)

\* Until a copy fails, a loan read of a ring that is not full empties it; in
\* particular what it hands out is the whole backlog (the loop of read_circular
\* from next_unread to next).
PartialRingDrains ==
    [][ReadLoan /\ failures = 0 /\ size < Capacity
          => size' = 0 /\ Len(read_buffer') = size]_vars

\* "RTI_MQTT_SUBSCRIPTION_READ_LENGTH_UNLIMITED may be used to read all
\* available messages": with no loan out, a reader that asks for all messages
\* gets some whenever some wait.  read_circular cannot tell a full ring from an
\* empty one (both have next = next_unread).
AvailableMessagesCanBeRead ==
    size > 0 /\ ~read_buffer_loaned => Count(Capacity) > 0

\* The ring implements the queue of module MessageQueue until a copy fails: the
\* backlog is read off the slots from next_unread on.
Backlog == [i \in 1 .. size |-> queue[Slot(next_unread, i - 1)]]

Abstract == INSTANCE MessageQueue WITH
    Bound <- Capacity, backlog <- Backlog, loan <- read_buffer,
    spoiled <- failures > 0

ImplementsMessageQueue == Abstract!Spec

=============================================================================
