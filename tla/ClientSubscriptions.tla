------------------------ MODULE ClientSubscriptions ------------------------
(***************************************************************************)
(* The subscriptions of an RTI_MQTT_Client (mqtt/Client.c) and the readers *)
(* that own them (adapter/MessageReader.c): subscribe() and unsubscribe()  *)
(* called by session threads, the resubmission of all subscriptions by the *)
(* thread that re-establishes a lost connection, and the delivery of       *)
(* messages by Paho's callback thread.                                     *)
(*                                                                         *)
(* Every section under sub_lock is one action.  The broker and the network *)
(* are external: operations reach the broker in the order they were sent,  *)
(* and are lost with the connection.                                       *)
(***************************************************************************)
EXTENDS Naturals, Sequences, FiniteSets, Functions

CONSTANTS
    Subs,           \* subscriptions, each created and deleted by one reader
    Filter,         \* the topic filter each one is configured with
    FiniteTimeouts, \* config->max_reply_timeout is not zero
    CleanSession,   \* the broker forgets subscriptions with the connection
    Rings,          \* subscriptions with a circular queue, of MaxUnread messages
    MaxUnread,      \* bound: messages another subscription queues up
    MaxLate         \* bound: operations on their way that nobody waits for

ASSUME FilterAssumption == DOMAIN Filter = Subs
ASSUME SwitchAssumption == FiniteTimeouts \in BOOLEAN /\ CleanSession \in BOOLEAN
ASSUME BoundAssumption == Rings \subseteq Subs /\ MaxUnread \in Nat /\ MaxLate \in Nat

Filters == {Filter[s] : s \in Subs}

Nobody == "nobody"     \* the sender of an operation that timed out
Recovery == "recovery" \* the sender of submit_all's operation

ASSUME SenderAssumption == Nobody \notin Subs /\ Recovery \notin Subs

VARIABLES
    at,             \* place of the reader that owns each subscription
    subscriptions,  \* self->subscriptions
    params,         \* sub->req_ctx.params of each subscription
    all_params,     \* self->req_ctx_sub.params
    listener,       \* which of the two listener fields are set
    unread,         \* messages in the queue of each subscription
    notified,       \* the listener was called since the last read
    left,           \* those of them that came before there was a listener, or
                    \* that a read left in the queue
    link,           \* the connection to the broker is up
    recovery,       \* place of the thread that re-establishes it
    req_copy,       \* submit_all's copy of all_params
    wire,           \* operations on their way to the broker, in order
    broker          \* filters the broker has subscriptions for

vars == <<at, subscriptions, params, all_params, listener, unread,
          notified, left, link, recovery, req_copy, wire, broker>>

registry == <<subscriptions, params, all_params>>
reading == <<listener, unread, notified, left>>
session == <<link, recovery, req_copy, wire, broker>>

\* The adapter connects to the broker before it creates any reader.
Init ==
    /\ at = [s \in Subs |-> "idle"]
    /\ subscriptions = <<>>
    /\ params = [s \in Subs |-> {}]
    /\ all_params = {}
    /\ listener = [s \in Subs |-> "unset"]
    /\ unread = [s \in Subs |-> 0]
    /\ notified = [s \in Subs |-> FALSE]
    /\ left = [s \in Subs |-> 0]
    /\ link = TRUE
    /\ recovery = "none"
    /\ req_copy = {}
    /\ wire = <<>>
    /\ broker = {}

-----------------------------------------------------------------------------
(* Helpers. *)

Go(s, place) == at' = [at EXCEPT ![s] = place]

\* get_all_subscription_params, for the parameters p of the subscriptions.
AllParams(p) == UNION {p[s] : s \in Range(subscriptions)}

Send(op, filters, from) ==
    wire' = Append(wire, [op |-> op, filters |-> filters, from |-> from])

Sent(who) == \E i \in DOMAIN wire : wire[i].from = who

RingIsFull(s) == s \in Rings /\ unread[s] = MaxUnread

\* The operation of a thread that stops waiting stays on its way.
Disown(who) ==
    /\ FiniteTimeouts
    /\ Cardinality({i \in DOMAIN wire : wire[i].from = Nobody}) < MaxLate
    /\ wire' = [i \in DOMAIN wire |->
                   IF wire[i].from = who THEN [wire[i] EXCEPT !.from = Nobody]
                                         ELSE wire[i]]

-----------------------------------------------------------------------------
(* subscribe(), then set_data_available_listener(). *)

\* Subscription_new and add_subscription.
AddSubscription(s) ==
    /\ at[s] = "idle"
    /\ Go(s, "added")
    /\ subscriptions' = Append(subscriptions, s)
    /\ UNCHANGED <<params, all_params, reading, session>>

CreateRequests(s) ==
    /\ at[s] = "added"
    /\ Go(s, "created")
    /\ params' = [params EXCEPT ![s] = {Filter[s]}]
    /\ all_params' = AllParams(params')
    /\ UNCHANGED <<subscriptions, reading, session>>

\* Leave through delete_subscription_requests.
FailSubscribe(s) == Go(s, "delete_requests")

\* Paho takes the operation on if there is a connection.
Submit(s) ==
    /\ at[s] = "created"
    /\ \/ /\ link
          /\ Go(s, "submitted")
          /\ Send("sub", params[s], s)
       \/ /\ FailSubscribe(s)
          /\ UNCHANGED wire
    /\ UNCHANGED <<registry, reading, link, recovery, req_copy, broker>>

SubmitTimesOut(s) ==
    /\ at[s] = "submitted"
    /\ FailSubscribe(s)
    /\ Disown(s)
    /\ UNCHANGED <<registry, reading, link, recovery, req_copy, broker>>

\* The listener's callback and its data are set one after the other, and
\* without the lock delivery holds.
SetListener(s) ==
    /\ at[s] = "subscribed"
    /\ \/ /\ listener[s] = "unset"
          /\ listener' = [listener EXCEPT ![s] = "callback"]
          /\ UNCHANGED at
       \/ /\ listener[s] = "callback"
          /\ listener' = [listener EXCEPT ![s] = "set"]
          /\ Go(s, "active")
    /\ UNCHANGED <<registry, unread, notified, left, session>>

\* The route reads when it was notified, and gets all that is there.  A read
\* that fails, and one that finds a ring exactly full and takes it for empty,
\* gives the route nothing and leaves the messages where they are.
Read(s) ==
    /\ at[s] = "active"
    /\ notified[s]
    /\ notified' = [notified EXCEPT ![s] = FALSE]
    /\ \/ /\ ~RingIsFull(s)
          /\ unread' = [unread EXCEPT ![s] = 0]
          /\ left' = [left EXCEPT ![s] = 0]
       \/ /\ left' = [left EXCEPT ![s] = unread[s]]
          /\ UNCHANGED unread
    /\ UNCHANGED <<at, registry, listener, session>>

-----------------------------------------------------------------------------
(* unsubscribe(): whatever becomes of the cancellation, the subscription    *)
(* is deleted.                                                              *)

Unsubscribe(s) ==
    /\ at[s] = "active"
    /\ Go(s, "cancel")
    /\ UNCHANGED <<registry, reading, session>>

Cancel(s) ==
    /\ at[s] = "cancel"
    /\ \/ /\ link
          /\ Go(s, "cancelled")
          /\ Send("unsub", params[s], s)
       \/ /\ Go(s, "delete_requests")
          /\ UNCHANGED wire
    /\ UNCHANGED <<registry, reading, link, recovery, req_copy, broker>>

CancelTimesOut(s) ==
    /\ at[s] = "cancelled"
    /\ Go(s, "delete_requests")
    /\ Disown(s)
    /\ UNCHANGED <<registry, reading, link, recovery, req_copy, broker>>

\* Mutant of DeleteRequests: req_ctx_sub.params is not recomputed.
DeleteRequestsKeepsAll(s) ==
    /\ at[s] = "delete_requests"
    /\ Go(s, "remove")
    /\ params' = [params EXCEPT ![s] = {}]
    /\ UNCHANGED <<subscriptions, all_params, reading, session>>

\* The end of unsubscribe() and of a subscribe() that fails.
DeleteRequests(s) ==
    /\ at[s] = "delete_requests"
    /\ Go(s, "remove")
    /\ params' = [params EXCEPT ![s] = {}]
    /\ all_params' = AllParams(params')
    /\ UNCHANGED <<subscriptions, reading, session>>

\* The loops of remove_subscription: the first place that has s; what is
\* behind it moves one place to the left, and the list gets shorter.
WithoutFirst(list, s) ==
    LET rm_i == CHOOSE i \in DOMAIN list :
                    list[i] = s /\ \A j \in 1 .. i - 1 : list[j] # s
    IN  [i \in 1 .. Len(list) - 1 |-> IF i < rm_i THEN list[i] ELSE list[i + 1]]

\* Mutant of RemoveSubscription: the subscription stays registered.
RemoveForgets(s) ==
    /\ at[s] = "remove"
    /\ Go(s, "free")
    /\ UNCHANGED <<registry, reading, session>>

RemoveSubscription(s) ==
    /\ at[s] = "remove"
    /\ Go(s, "free")
    /\ subscriptions' = IF s \in Range(subscriptions)
                        THEN WithoutFirst(subscriptions, s) ELSE subscriptions
    /\ UNCHANGED <<params, all_params, reading, session>>

DeleteSubscription(s) ==
    /\ at[s] = "free"
    /\ Go(s, "idle")
    /\ listener' = [listener EXCEPT ![s] = "unset"]
    /\ unread' = [unread EXCEPT ![s] = 0]
    /\ notified' = [notified EXCEPT ![s] = FALSE]
    /\ left' = [left EXCEPT ![s] = 0]
    /\ UNCHANGED <<registry, session>>

-----------------------------------------------------------------------------
(* The broker (external), the callbacks, and on_connection_lost.  The       *)
(* threads that may be re-establishing a connection are taken as one.       *)

\* What the broker keeps of filters when the connection ends.
Kept(filters) == IF CleanSession THEN {} ELSE filters

LinkLost ==
    /\ link
    /\ link' = FALSE
    /\ recovery' = "lost"
    /\ wire' = <<>>
    /\ broker' = Kept(broker)
    /\ UNCHANGED <<at, registry, reading, req_copy>>

Reconnected ==
    /\ recovery = "lost"
    /\ recovery' = "connected"
    /\ link' = TRUE
    /\ UNCHANGED <<at, registry, reading, req_copy, wire, broker>>

\* Mutant of CopyParams: a new connection is used without resubmitting.
CopyNothing ==
    /\ recovery = "connected"
    /\ recovery' = "none"
    /\ UNCHANGED <<at, registry, reading, link, req_copy, wire, broker>>

\* submit_all_subscriptions copies the parameters under the lock ...
CopyParams ==
    /\ recovery = "connected"
    /\ req_copy' = all_params
    /\ recovery' = IF all_params = {} THEN "none" ELSE "submit"
    /\ UNCHANGED <<at, registry, reading, link, wire, broker>>

\* ... and submits them without it.
SubmitAll ==
    /\ recovery = "submit"
    /\ recovery' = "wait"
    /\ Send("sub", req_copy, Recovery)
    /\ UNCHANGED <<at, registry, reading, link, req_copy, broker>>

\* When submit_all fails (the operation is refused, times out or fails),
\* connect() calls disconnect(), which may cancel all subscriptions first, and
\* on_connection_lost starts over.
SubmitAllFails ==
    /\ recovery \in {"submit", "wait"}
    /\ recovery' = "lost"
    /\ link' = FALSE
    /\ wire' = <<>>
    /\ broker' \in {Kept(broker), Kept(broker \ all_params)}
    /\ UNCHANGED <<at, registry, reading, req_copy>>

\* What a sender does when its operation succeeded or failed.
Answered(who, ok) ==
    \/ /\ who \in Subs /\ at[who] = "submitted"
       /\ IF ok THEN Go(who, "subscribed")
                ELSE FailSubscribe(who)
       /\ UNCHANGED recovery
    \/ /\ who \in Subs /\ at[who] = "cancelled"
       /\ Go(who, "delete_requests")
       /\ UNCHANGED recovery
    \/ /\ who = Recovery /\ ok
       /\ recovery' = "none"
       /\ UNCHANGED at
    \/ /\ who = Nobody
       /\ UNCHANGED <<at, recovery>>

\* The broker carries out the next operation, or refuses it.
Serve(ok) ==
    /\ wire # <<>>
    /\ LET op == Head(wire)
       IN /\ Answered(op.from, ok)
          /\ broker' = CASE ~ok -> broker
                         [] ok /\ op.op = "sub" -> broker \cup op.filters
                         [] ok /\ op.op = "unsub" -> broker \ op.filters
    /\ wire' = Tail(wire)
    /\ UNCHANGED <<registry, reading, link, req_copy>>

\* An operation that was lost with the connection fails.
OperationLost(s) ==
    /\ at[s] \in {"submitted", "cancelled"}
    /\ ~Sent(s)
    /\ Answered(s, FALSE)
    /\ UNCHANGED <<registry, reading, link, req_copy, wire, broker>>

\* The message is queued for those in taken, in a full ring in place of the
\* oldest one.
Enqueue(taken) ==
    /\ \A s \in taken \ Rings : unread[s] < MaxUnread
    /\ unread' = [s \in Subs |-> IF s \in taken /\ ~RingIsFull(s)
                                 THEN unread[s] + 1 ELSE unread[s]]
    /\ left' = [s \in Subs |->
                   LET kept == IF RingIsFull(s) /\ left[s] > 0 THEN left[s] - 1 ELSE left[s]
                   IN  CASE s \notin taken -> left[s]
                         [] s \in taken /\ listener[s] = "unset" -> kept + 1
                         [] s \in taken /\ listener[s] # "unset" -> kept]
    /\ UNCHANGED listener

\* Mutant of Receive: the listener is called for the first message that waits.
ReceiveTellsOnce(taken) ==
    /\ Enqueue(taken)
    /\ notified' = [s \in Subs |->
                      IF s \in taken /\ listener[s] # "unset" /\ unread[s] = 0
                      THEN TRUE ELSE notified[s]]

\* Subscription_receive for those in taken: the message is queued, and the
\* listener is called if its callback is set.
Receive(taken) ==
    /\ Enqueue(taken)
    /\ notified' = [s \in Subs |->
                      IF s \in taken /\ listener[s] # "unset" THEN TRUE ELSE notified[s]]

\* on_message_arrived for a topic that matches filter f.  It visits the
\* subscriptions in order, and stops at the first that cannot take the
\* message (n < Len).
MessageArrives(f) ==
    /\ link /\ f \in broker
    /\ \E n \in 0 .. Len(subscriptions) :
          Receive({s \in Range(SubSeq(subscriptions, 1, n)) : Filter[s] = f})
    /\ UNCHANGED <<at, registry, session>>

-----------------------------------------------------------------------------
ReaderStep(s) ==
    \/ CreateRequests(s) \/ Submit(s) \/ SubmitTimesOut(s) \/ SetListener(s)
    \/ Cancel(s) \/ CancelTimesOut(s) \/ DeleteRequests(s)
    \/ RemoveSubscription(s) \/ DeleteSubscription(s) \/ OperationLost(s)

RecoveryStep == Reconnected \/ CopyParams \/ SubmitAll \/ SubmitAllFails

Next ==
    \/ \E s \in Subs : AddSubscription(s) \/ ReaderStep(s) \/ Read(s)
                       \/ Unsubscribe(s)
    \/ \E ok \in BOOLEAN : Serve(ok)
    \/ \E f \in Filters : MessageArrives(f)
    \/ RecoveryStep
    \/ LinkLost

Spec == Init /\ [][Next]_vars

-----------------------------------------------------------------------------
(* Properties. *)

\* What reconnecting resubmits is exactly what the registered subscriptions
\* ask for: no reader's parameters are missing from req_ctx_sub.params, and
\* none are left in it by a reader that is gone (Client.c:478-489, 550-567).
ResubmissionIsCurrent ==
    all_params = UNION {params[s] : s \in Range(subscriptions)}

\* Delivery never reaches a deleted subscription: whatever is registered, and
\* so visited by on_message_arrived, is registered once and not freed
\* (Client.c:673-680, 1333-1338).
RegisteredIsAlive ==
    /\ IsInjective(subscriptions)
    /\ \A s \in Range(subscriptions) : at[s] \notin {"idle", "free"}

\* Once the connection is up and resubmission is over, the broker has the
\* subscription of every reader that is in use, whatever was lost in between
\* (Client.c:1118-1123).
ActiveIsOnBroker ==
    link /\ recovery = "none" =>
        \A s \in Subs : at[s] \in {"subscribed", "active"} => Filter[s] \in broker

\* A reader in use is notified of every message that arrives once its listener
\* is set, whatever waits already: when more messages wait than came before the
\* listener or were left by the last read, a notification is out that no read
\* has followed (MessageReader.c:72-92, Subscription.c:148).  Those that came
\* too early, or that a failed read or a read of a ring exactly full left
\* (MessageReader.c:272-279, Message.c:684), are announced only by the next.
UnreadIsNotified ==
    \A s \in Subs : at[s] = "active" /\ unread[s] > left[s] => notified[s]

============================================================================
