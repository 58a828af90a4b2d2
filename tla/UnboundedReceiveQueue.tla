----------------------- MODULE UnboundedReceiveQueue ------------------------
(***************************************************************************)
(* RTI_MQTT_MessageReceiveQueue with a configured size of 0, the default   *)
(* (Message.c): a growing sequence of pointers to received messages.       *)
(* Every operation runs under the queue's lock, so each is one action.     *)
(*                                                                         *)
(* A message is named by its arrival number.  NULL is an entry that no     *)
(* longer points to a message (a NULL or a freed pointer); following one   *)
(* stops the process.  Refused reads are as in CircularReceiveQueue.       *)
(***************************************************************************)
EXTENDS ReceiveQueueReads

VARIABLES
    u_queue,        \* self->queue
    u_read_buffer,  \* the messages on loan
    u_loaned,       \* self->read_buffer_loaned
    u_status,       \* self->msg_status
    u_arrivals,     \* messages received, not wrapped (names the messages)
    u_failures,     \* copies that have failed so far
    u_crashed       \* an invalid entry was followed

uvars == <<u_queue, u_read_buffer, u_loaned, u_status, u_arrivals,
           u_failures, u_crashed>>

UnboundedInit ==
    /\ u_queue = <<>>
    /\ u_read_buffer = <<>>
    /\ u_loaned = FALSE
    /\ u_status = NoMessages
    /\ u_arrivals = 0
    /\ u_failures = 0
    /\ u_crashed = FALSE

\* RTI_MQTT_MessageReceiveQueue_receive / _receive_unbounded.
ReceiveUnbounded ==
    /\ ~u_crashed
    /\ u_arrivals < MaxReceived
    /\ u_arrivals' = u_arrivals + 1
    /\ u_queue' = Append(u_queue, u_arrivals')
    /\ u_status' = CountReceived(u_status, FALSE)
    /\ UNCHANGED <<u_read_buffer, u_loaned, u_failures, u_crashed>>

\* The first n entries hold messages.
Valid(n) == \A i \in 1 .. n : u_queue[i] # NULL

\* Mutant of Remainder: the entries that were read are not reset.
RemainderKeepsRead(n) == SubSeq(u_queue, 1, Len(u_queue) - n)

\* What is left of the queue after a read of n entries.  The entries that
\* were read are reset; the length shrinks by n.  The move of the rest to the
\* front is guarded by "seq_len < tot_messages", which is never true.
Remainder(n) ==
    [i \in 1 .. Len(u_queue) - n |-> IF i <= n THEN NULL ELSE u_queue[i]]

\* Mutant of ReadLoanUnbounded: a loan is granted while another one is out.
ReadLoanUnboundedAgain ==
    /\ ~u_crashed
    /\ u_queue # <<>>
    /\ Valid(Len(u_queue))
    /\ u_read_buffer' = u_queue
    /\ u_loaned' = TRUE
    /\ u_queue' = Remainder(Len(u_queue))
    /\ u_status' = CountRead(u_status, Len(u_queue))
    /\ UNCHANGED <<u_arrivals, u_failures, u_crashed>>

\* read() with an empty sequence and UNLIMITED: all messages move to the read
\* buffer and the caller borrows it.
ReadLoanUnbounded ==
    /\ ~u_crashed
    /\ ~u_loaned
    /\ u_queue # <<>>
    /\ Valid(Len(u_queue))
    /\ u_read_buffer' = u_queue
    /\ u_loaned' = TRUE
    /\ u_queue' = Remainder(Len(u_queue))
    /\ u_status' = CountRead(u_status, Len(u_queue))
    /\ UNCHANGED <<u_arrivals, u_failures, u_crashed>>

\* The read loop's bound when the caller passes its own sequence.
CountUnbounded(max) == IF max > Len(u_queue) THEN Len(u_queue) ELSE max

\* read() into the caller's own sequence.
ReadCopyUnbounded(max) ==
    LET n == CountUnbounded(max)
    IN  /\ ~u_crashed
        /\ n > 0
        /\ Valid(n)
        /\ u_queue' = Remainder(n)
        /\ u_status' = CountRead(u_status, n)
        /\ UNCHANGED <<u_read_buffer, u_loaned, u_arrivals, u_failures, u_crashed>>

\* The copy of message k + 1 fails: the entries before it are reset and
\* read_unbounded returns with the length and the counters as they were.  The
\* failed entry stays; unless a loan is out, what it points to is freed.
ReadCopyFailsUnbounded(max, k) ==
    LET gone == IF u_loaned THEN k ELSE k + 1
    IN  /\ ~u_crashed
        /\ k < CountUnbounded(max)
        /\ Valid(k + 1)
        /\ u_failures < CopyFailures
        /\ u_failures' = u_failures + 1
        /\ u_queue' = [i \in 1 .. Len(u_queue) |->
                           IF i <= gone THEN NULL ELSE u_queue[i]]
        /\ UNCHANGED <<u_read_buffer, u_loaned, u_status, u_arrivals, u_crashed>>

\* A read follows an entry that holds no message.
Crash ==
    /\ ~u_crashed
    /\ \/ ~u_loaned /\ ~Valid(Len(u_queue))
       \/ \E max \in CopySizes : ~Valid(CountUnbounded(max))
    /\ u_crashed' = TRUE
    /\ UNCHANGED <<u_queue, u_read_buffer, u_loaned, u_status,
                   u_arrivals, u_failures>>

\* RTI_MQTT_MessageReceiveQueue_return_loan: the messages are deleted.  Also a
\* read that is refused and was handed the sequence on loan.
ReturnLoanUnbounded ==
    /\ ~u_crashed
    /\ u_loaned
    /\ u_read_buffer' = <<>>
    /\ u_loaned' = FALSE
    /\ UNCHANGED <<u_queue, u_status, u_arrivals, u_failures, u_crashed>>

UnboundedNext ==
    \/ ReceiveUnbounded
    \/ ReadLoanUnbounded
    \/ \E max \in CopySizes : ReadCopyUnbounded(max)
    \/ \E max \in CopySizes : \E k \in 0 .. max - 1 : ReadCopyFailsUnbounded(max, k)
    \/ Crash
    \/ ReturnLoanUnbounded

UnboundedSpec == UnboundedInit /\ [][UnboundedNext]_uvars
-----------------------------------------------------------------------------
\* The counters of receive() and read() stay balanced even when reads are
\* partial or fail halfway, and nothing is reported lost.
UnboundedCountersBalanced ==
    /\ Balanced(u_status)
    /\ u_status.lost_count = 0

\* A read that failed after some copies, or copied only a part of the queue,
\* leaves entries without a message in front of the rest.
Spoiled == ~Valid(Len(u_queue))

\* Until a copying read takes or fails on a part of it, the queue holds exactly
\* the latest unread_count arrivals, in order: reads of read_unbounded neither
\* skip, repeat nor reorder messages.
UnboundedBacklogIsLatest ==
    ~Spoiled =>
        /\ u_status.unread_count = Wrap(Len(u_queue))
        /\ \A i \in 1 .. Len(u_queue) : u_queue[i] = u_arrivals - Len(u_queue) + i

\* Until it is spoiled, the sequence implements the queue of module MessageQueue
\* and never drops a message.
UnboundedAbstract == INSTANCE MessageQueue WITH
    Bound <- MaxReceived, arrivals <- u_arrivals, backlog <- u_queue,
    loan <- u_read_buffer, spoiled <- Spoiled

UnboundedImplementsMessageQueue == UnboundedAbstract!Spec

=============================================================================
