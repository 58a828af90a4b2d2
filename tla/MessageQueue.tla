---------------------------- MODULE MessageQueue ----------------------------
(***************************************************************************)
(* What a subscription's message receive queue promises, whatever its      *)
(* representation: messages wait in arrival order, a bounded queue makes   *)
(* room by dropping the oldest message, a read hands out a prefix of the   *)
(* messages that wait, and at most one loan is out at any time.  A read    *)
(* that goes wrong spoils the queue; nothing is promised from then on.     *)
(* A message is named by its arrival number.                               *)
(***************************************************************************)
EXTENDS Naturals, Sequences

CONSTANTS
    Bound,        \* how many messages may wait
    MaxReceived   \* bound of the model on the number of arrivals

VARIABLES
    arrivals,     \* number of messages that have arrived
    backlog,      \* the messages that wait, oldest first
    loan,         \* the messages handed out on loan, <<>> when there is none
    spoiled       \* a read went wrong

vars == <<arrivals, backlog, loan, spoiled>>

Init ==
    /\ arrivals = 0
    /\ backlog = <<>>
    /\ loan = <<>>
    /\ spoiled = FALSE

Receive ==
    /\ arrivals < MaxReceived
    /\ arrivals' = arrivals + 1
    /\ backlog' = IF Len(backlog) < Bound
                  THEN Append(backlog, arrivals')
                  ELSE Append(Tail(backlog), arrivals')
    /\ UNCHANGED loan

TakePrefix(n) ==
    backlog' = SubSeq(backlog, n + 1, Len(backlog))

ReadLoan(n) ==
    /\ loan = <<>>
    /\ loan' = SubSeq(backlog, 1, n)
    /\ TakePrefix(n)
    /\ UNCHANGED arrivals

ReadCopy(n) ==
    /\ TakePrefix(n)
    /\ UNCHANGED <<arrivals, loan>>

ReturnLoan ==
    /\ loan' = <<>>
    /\ UNCHANGED <<arrivals, backlog>>

Step ==
    \/ Receive
    \/ \E n \in 1..Len(backlog) : ReadLoan(n) \/ ReadCopy(n)
    \/ ReturnLoan

Next == spoiled' \/ (~spoiled /\ Step)

Spec == Init /\ [][Next]_vars

=============================================================================
