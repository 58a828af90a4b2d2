--------------------- MODULE ClientSubscriptionsProofs ----------------------
(***************************************************************************)
(* The invariants of ClientSubscriptions for any number of readers.        *)
(*                                                                         *)
(* The registry by itself: a subscription is registered once, from the     *)
(* time it is added until it is removed, its parameters are set from       *)
(* create_subscription_requests to delete_subscription_requests, and       *)
(* req_ctx_sub.params is their union.  The broker: the operations on their *)
(* way are such that nothing which is still to be served can take away the *)
(* filter of a reader in use.                                              *)
(***************************************************************************)
EXTENDS ClientSubscriptions, TLAPS

Places == {"idle", "added", "created", "submitted", "subscribed", "active",
           "cancel", "cancelled", "delete_requests", "remove", "free"}

\* The places where a subscription is not in self->subscriptions.
Unregistered == {"idle", "free"}

\* The places where it has no parameters.
Unrequested == Unregistered \cup {"added", "remove"}

InUse == {"subscribed", "active"}

Operations == [op : {"sub", "unsub"}, filters : SUBSET Filters,
               from : Subs \cup {Nobody, Recovery}]

SubsTypeOK ==
    /\ at \in [Subs -> Places]
    /\ subscriptions \in Seq(Subs)
    /\ params \in [Subs -> SUBSET Filters]
    /\ listener \in [Subs -> {"unset", "callback", "set"}]
    /\ unread \in [Subs -> Nat]
    /\ notified \in [Subs -> BOOLEAN]
    /\ left \in [Subs -> Nat]
    /\ link \in BOOLEAN
    /\ recovery \in {"none", "lost", "connected", "submit", "wait"}
    /\ wire \in Seq(Operations)
    /\ all_params \subseteq Filters /\ req_copy \subseteq Filters

\* The list, the parameters and their union follow the places of the readers.
RegistryInv ==
    /\ IsInjective(subscriptions)
    /\ Range(subscriptions) = {s \in Subs : at[s] \notin Unregistered}
    /\ params = [s \in Subs |-> IF at[s] \in Unrequested THEN {} ELSE {Filter[s]}]
    /\ all_params = UNION {params[s] : s \in Subs}

\* Nobody's messages wait without a notification, in use or not, beyond those
\* that came too early or that a read left.
NotifiedInv == \A s \in Subs : unread[s] > left[s] => notified[s]

\* No two readers are configured with the same filter.
OwnFilter == \A s, t \in Subs : Filter[s] = Filter[t] => s = t

\* Only a connection that is up carries operations, and it is down only while
\* the recovery has it to restore.
LinkInv ==
    /\ link <=> recovery # "lost"
    /\ ~link => wire = <<>>

\* A reader's operation on its way is the one the reader waits for; a
\* cancellation names the filter of one subscription; the recovery's operation
\* carries the copy it has made.
SendersInv ==
    \A i \in DOMAIN wire :
        /\ wire[i].from \in Subs =>
             /\ wire[i].filters = {Filter[wire[i].from]}
             /\ at[wire[i].from] = IF wire[i].op = "sub" THEN "submitted" ELSE "cancelled"
        /\ wire[i].op = "unsub" => \E t \in Subs : wire[i].filters = {Filter[t]}
        /\ wire[i].from = Recovery =>
             recovery = "wait" /\ wire[i].op = "sub" /\ wire[i].filters = req_copy

\* A thread waits for one operation at a time.
SentOnce ==
    \A i, j \in DOMAIN wire :
        wire[i].from = wire[j].from /\ wire[i].from # Nobody => i = j

\* A cancellation left behind by an earlier subscription of the same reader is
\* not on its way once the reader is in use, and is ahead of the reader's own
\* operation until then.
CancelsAreOver ==
    \A s \in Subs, i \in DOMAIN wire :
        wire[i].op = "unsub" /\ Filter[s] \in wire[i].filters =>
            /\ at[s] \notin InUse
            /\ at[s] = "submitted" => \A j \in DOMAIN wire : wire[j].from = s => i < j

\* The broker has the filter of a reader in use, or will get it from the copy
\* the recovery has made.
ServedInv ==
    \A s \in Subs : at[s] \in InUse =>
        /\ recovery = "none" => Filter[s] \in broker
        /\ recovery \in {"submit", "wait"} => Filter[s] \in req_copy \cup broker

BrokerInv == LinkInv /\ SendersInv /\ SentOnce /\ CancelsAreOver /\ ServedInv

-----------------------------------------------------------------------------
(* The list of subscriptions and the operations on their way.              *)

\* remove_subscription takes a registered subscription, and only it, off a list
\* that has it once.
LEMMA WithoutFirstRemoves ==
    ASSUME NEW S, NEW list \in Seq(S), IsInjective(list), NEW x \in Range(list)
    PROVE  /\ WithoutFirst(list, x) \in Seq(S)
           /\ IsInjective(WithoutFirst(list, x))
           /\ Range(WithoutFirst(list, x)) = Range(list) \ {x}
<1>. DEFINE n == Len(list)
            new == WithoutFirst(list, x)
            P(i) == list[i] = x /\ \A j \in 1 .. i - 1 : list[j] # x
            k == CHOOSE i \in DOMAIN list : P(i)
<1>1. n \in Nat /\ DOMAIN list = 1 .. n /\ \A i \in 1 .. n : list[i] \in S
  OBVIOUS
<1>2. \E i \in DOMAIN list : P(i)
  <2>1. PICK i \in 1 .. n : list[i] = x
    BY Zenon, <1>1 DEF Range
  <2>2. \A j \in 1 .. i - 1 : list[j] # x
    BY <1>1, <2>1 DEF IsInjective
  <2>. QED BY Zenon, <1>1, <2>1, <2>2
<1>3. k \in 1 .. n /\ list[k] = x
  BY Zenon, <1>1, <1>2
<1>4. new = [i \in 1 .. n - 1 |-> IF i < k THEN list[i] ELSE list[i + 1]]
  BY Zenon DEF WithoutFirst
<1>. HIDE DEF new, k
<1>5. \A j \in 1 .. n : list[j] = x => j = k
  BY Zenon, <1>1, <1>3 DEF IsInjective
<1>6. n - 1 \in Nat
  BY <1>1, <1>3
<1>7. \A i \in 1 .. n - 1 : (IF i < k THEN list[i] ELSE list[i + 1]) \in S
  BY <1>1, <1>3
<1>8. new \in Seq(S) /\ DOMAIN new = 1 .. n - 1
  BY <1>4, <1>6, <1>7
<1>9. \A i \in 1 .. n - 1 : new[i] = IF i < k THEN list[i] ELSE list[i + 1]
  BY Zenon, <1>4
<1>10. ASSUME NEW i \in 1 .. n - 1, NEW j \in 1 .. n - 1, new[i] = new[j] PROVE i = j
  <2>. DEFINE from(m) == IF m < k THEN m ELSE m + 1
  <2>1. from(i) \in 1 .. n /\ from(j) \in 1 .. n
    BY <1>1, <1>3
  <2>2. list[from(i)] = list[from(j)]
    BY Zenon, <1>3, <1>9, <1>10
  <2>3. from(i) = from(j)
    BY Zenon, <1>1, <1>3, <2>1, <2>2 DEF IsInjective
  <2>. QED BY <1>1, <1>3, <2>3
<1>11. IsInjective(new)
  BY Zenon, <1>8, <1>10 DEF IsInjective
<1>12. ASSUME NEW y \in Range(new) PROVE y \in Range(list) \ {x}
  <2>1. PICK i \in 1 .. n - 1 : y = new[i]
    BY Zenon, <1>8 DEF Range
  <2>2. CASE i < k
    <3>1. y = list[i] /\ i \in 1 .. n /\ i # k
      BY <1>3, <1>9, <2>1, <2>2
    <3>. QED BY Zenon, <1>1, <1>5, <3>1 DEF Range
  <2>3. CASE i >= k
    <3>1. y = list[i + 1] /\ i + 1 \in 1 .. n /\ i + 1 # k
      BY <1>1, <1>3, <1>9, <2>1, <2>3
    <3>. QED BY Zenon, <1>1, <1>3, <1>5, <3>1 DEF Range
  <2>. QED BY <1>1, <1>3, <2>2, <2>3
<1>13. ASSUME NEW y \in Range(list) \ {x} PROVE y \in Range(new)
  <2>1. PICK i \in 1 .. n : y = list[i]
    BY Zenon, <1>1 DEF Range
  <2>2. i # k
    BY Zenon, <1>3, <1>13, <2>1
  <2>3. CASE i < k
    <3>1. i \in 1 .. n - 1 /\ new[i] = y
      BY <1>1, <1>3, <1>9, <2>1, <2>3
    <3>. QED BY Zenon, <1>8, <3>1 DEF Range
  <2>4. CASE i > k
    <3>1. i - 1 \in 1 .. n - 1 /\ new[i - 1] = list[(i - 1) + 1] /\ (i - 1) + 1 = i
      BY <1>1, <1>3, <1>9, <2>4
    <3>. QED BY Zenon, <1>8, <2>1, <3>1 DEF Range
  <2>. QED BY <1>1, <1>3, <2>2, <2>3, <2>4
<1>. QED BY Zenon, <1>8, <1>11, <1>12, <1>13 DEF new

\* add_subscription adds a subscription that is not registered.
LEMMA AppendAdds ==
    ASSUME NEW S, NEW list \in Seq(S), IsInjective(list), NEW x \in S, x \notin Range(list)
    PROVE  /\ Append(list, x) \in Seq(S)
           /\ IsInjective(Append(list, x))
           /\ Range(Append(list, x)) = Range(list) \cup {x}
<1>. DEFINE n == Len(list)
            new == Append(list, x)
<1>1. n \in Nat /\ DOMAIN list = 1 .. n
  OBVIOUS
<1>2. /\ new \in Seq(S) /\ DOMAIN new = 1 .. n + 1
      /\ \A i \in 1 .. n : new[i] = list[i]
      /\ new[n + 1] = x
  OBVIOUS
<1>. HIDE DEF new
<1>3. \A i \in 1 .. n : list[i] # x
  BY Zenon, <1>1 DEF Range
<1>4. IsInjective(new)
  <2>. SUFFICES ASSUME NEW i \in 1 .. n + 1, NEW j \in 1 .. n + 1, new[i] = new[j]
                PROVE  i = j
    BY Zenon, <1>2 DEF IsInjective
  <2>1. CASE i \in 1 .. n /\ j \in 1 .. n
    BY Zenon, <1>1, <1>2, <2>1 DEF IsInjective
  <2>2. CASE i = n + 1 \/ j = n + 1
    BY <1>1, <1>2, <1>3, <2>2
  <2>. QED BY <1>1, <2>1, <2>2
<1>5. Range(new) = Range(list) \cup {x}
  BY <1>1, <1>2 DEF Range
<1>. QED BY Zenon, <1>2, <1>4, <1>5 DEF new

\* An operation that is sent is behind those on their way.
LEMMA SendFacts ==
    ASSUME wire \in Seq(Operations), NEW op \in {"sub", "unsub"},
           NEW filters \in SUBSET Filters, NEW who \in Subs \cup {Nobody, Recovery},
           Send(op, filters, who)
    PROVE  /\ wire' \in Seq(Operations)
           /\ Len(wire) \in Nat /\ DOMAIN wire = 1 .. Len(wire)
           /\ DOMAIN wire' = 1 .. Len(wire) + 1
           /\ \A i \in 1 .. Len(wire) : wire'[i] = wire[i]
           /\ wire'[Len(wire) + 1] = [op |-> op, filters |-> filters, from |-> who]
<1>1. [op |-> op, filters |-> filters, from |-> who] \in Operations
  BY Zenon DEF Operations
<1>. QED BY <1>1 DEF Send

\* An operation whose sender has stopped waiting differs in its sender only.
LEMMA DisownFacts ==
    ASSUME wire \in Seq(Operations), NEW who \in Subs, Disown(who)
    PROVE  /\ wire' \in Seq(Operations)
           /\ DOMAIN wire' = DOMAIN wire
           /\ \A i \in DOMAIN wire :
                /\ wire'[i].op = wire[i].op /\ wire'[i].filters = wire[i].filters
                /\ wire'[i].from = IF wire[i].from = who THEN Nobody ELSE wire[i].from
<1>. DEFINE New(i) == IF wire[i].from = who THEN [wire[i] EXCEPT !.from = Nobody] ELSE wire[i]
<1>1. wire' = [i \in DOMAIN wire |-> New(i)]
  BY Zenon DEF Disown
<1>2. DOMAIN wire = 1 .. Len(wire) /\ Len(wire) \in Nat
  OBVIOUS
<1>3. ASSUME NEW i \in DOMAIN wire
      PROVE  /\ New(i) \in Operations
             /\ New(i).op = wire[i].op /\ New(i).filters = wire[i].filters
             /\ New(i).from = IF wire[i].from = who THEN Nobody ELSE wire[i].from
  <2>1. wire[i] \in Operations
    OBVIOUS
  <2>. QED BY Zenon, <2>1 DEF Operations
<1>4. wire' \in [1 .. Len(wire) -> Operations]
  BY Zenon, <1>1, <1>2, <1>3
<1>5. wire' \in Seq(Operations)
  BY <1>2, <1>4
<1>. HIDE DEF New
<1>. QED BY Zenon, <1>1, <1>3, <1>5

\* What is served is the operation that was sent first.
LEMMA ServeFacts ==
    ASSUME wire \in Seq(Operations), wire # <<>>
    PROVE  /\ Head(wire) = wire[1] /\ 1 \in DOMAIN wire /\ wire[1] \in Operations
           /\ Tail(wire) \in Seq(Operations)
           /\ Len(wire) \in Nat /\ DOMAIN wire = 1 .. Len(wire)
           /\ DOMAIN Tail(wire) = 1 .. Len(wire) - 1
           /\ \A i \in 1 .. Len(wire) - 1 : Tail(wire)[i] = wire[i + 1]
OBVIOUS

-----------------------------------------------------------------------------
(* Types.                                                                  *)

\* What the sender of an operation does with the answer keeps the types.
LEMMA AnsweredTypes ==
    ASSUME SubsTypeOK, NEW who \in Subs \cup {Nobody, Recovery}, NEW ok \in BOOLEAN,
           Answered(who, ok)
    PROVE  /\ at' \in [Subs -> Places]
           /\ recovery' \in {"none", "lost", "connected", "submit", "wait"}
BY Zenon DEF Answered, Go, FailSubscribe, SubsTypeOK, Places

\* Initially there are no subscriptions.
LEMMA SubsTypeInit == Init => SubsTypeOK
BY DEF Init, SubsTypeOK, Places

\* Every step keeps the types.
LEMMA SubsTypeStep == SubsTypeOK /\ RegistryInv /\ [Next]_vars => SubsTypeOK'
<1>. SUFFICES ASSUME SubsTypeOK, RegistryInv, [Next]_vars PROVE SubsTypeOK'
  BY Zenon
<1>. USE DEF SubsTypeOK
<1>1. \A s \in Subs : {Filter[s]} \in SUBSET Filters
  BY Zenon DEF Filters
<1>2. CASE UNCHANGED vars
  BY Zenon, <1>2 DEF vars
<1>3. ASSUME NEW s \in Subs, AddSubscription(s) PROVE SubsTypeOK'
  <2>1. at' \in [Subs -> Places] /\ subscriptions' \in Seq(Subs)
    BY <1>3 DEF AddSubscription, Go, Places
  <2>. QED BY Zenon, <1>3, <2>1 DEF AddSubscription, reading, session
<1>4. ASSUME NEW s \in Subs, CreateRequests(s) \/ DeleteRequests(s) PROVE SubsTypeOK'
  <2>1. at' \in [Subs -> Places] /\ params' \in [Subs -> SUBSET Filters]
    BY ZenonT(30), <1>1, <1>4 DEF CreateRequests, DeleteRequests, Go, Places
  <2>2. all_params' = UNION {params'[t] : t \in Range(subscriptions)}
    BY Zenon, <1>4 DEF CreateRequests, DeleteRequests, AllParams
  <2>3. Range(subscriptions) \subseteq Subs
    BY DEF Range
  <2>4. all_params' \subseteq Filters
    BY <2>1, <2>2, <2>3
  <2>. QED BY Zenon, <1>4, <2>1, <2>4 DEF CreateRequests, DeleteRequests, reading, session
<1>5. ASSUME NEW s \in Subs, Submit(s) \/ Cancel(s) PROVE SubsTypeOK'
  <2>1. at' \in [Subs -> Places]
    <3>1. \E p \in {"submitted", "cancelled", "delete_requests"} : at' = [at EXCEPT ![s] = p]
      BY <1>5, Zenon DEF Submit, Cancel, FailSubscribe, Go
    <3>. QED BY Zenon, <3>1 DEF Places
  <2>2. wire' = wire \/ \E op \in {"sub", "unsub"} : Send(op, params[s], s)
    BY Zenon, <1>5 DEF Submit, Cancel
  <2>3. wire' \in Seq(Operations)
    BY Zenon, <2>2, SendFacts
  <2>. QED BY Zenon, <1>5, <2>1, <2>3 DEF Submit, Cancel, registry, reading
<1>6. ASSUME NEW s \in Subs, SubmitTimesOut(s) \/ CancelTimesOut(s) PROVE SubsTypeOK'
  <2>1. at' \in [Subs -> Places]
    <3>1. at' = [at EXCEPT ![s] = "delete_requests"]
      BY <1>6, Zenon DEF SubmitTimesOut, CancelTimesOut, FailSubscribe, Go
    <3>. QED BY Zenon, <3>1 DEF Places
  <2>2. wire' \in Seq(Operations)
    BY Zenon, <1>6, DisownFacts DEF SubmitTimesOut, CancelTimesOut
  <2>. QED BY Zenon, <1>6, <2>1, <2>2 DEF SubmitTimesOut, CancelTimesOut, registry, reading
<1>7. ASSUME NEW s \in Subs, SetListener(s) PROVE SubsTypeOK'
  <2>1. at' \in [Subs -> Places] /\ listener' \in [Subs -> {"unset", "callback", "set"}]
    BY Zenon, <1>7 DEF SetListener, Go, Places
  <2>. QED BY Zenon, <1>7, <2>1 DEF SetListener, registry, session
<1>8. ASSUME NEW s \in Subs, Read(s) \/ DeleteSubscription(s) PROVE SubsTypeOK'
  <2>1. at' \in [Subs -> Places] /\ listener' \in [Subs -> {"unset", "callback", "set"}]
    BY Zenon, <1>8 DEF Read, DeleteSubscription, Go, Places
  <2>2. unread' \in [Subs -> Nat] /\ left' \in [Subs -> Nat]
    <3>0. unread[s] \in Nat /\ 0 \in Nat
      OBVIOUS
    <3>1. /\ unread' = [unread EXCEPT ![s] = 0] \/ unread' = unread
          /\ \E n \in Nat : left' = [left EXCEPT ![s] = n]
      <4>1. CASE DeleteSubscription(s)
        BY Zenon, <3>0, <4>1 DEF DeleteSubscription
      <4>2. CASE Read(s)
        BY Zenon, <3>0, <4>2 DEF Read
      <4>. QED BY Zenon, <1>8, <4>1, <4>2
    <3>2. CASE unread' = [unread EXCEPT ![s] = 0]
      <4>1. unread' \in [Subs -> Nat]
        BY <3>2
      <4>. QED BY Zenon, <3>1, <4>1
    <3>3. CASE unread' = unread
      BY Zenon, <3>1, <3>3
    <3>. QED BY Zenon, <3>1, <3>2, <3>3
  <2>3. notified' \in [Subs -> BOOLEAN]
    BY Zenon, <1>8 DEF Read, DeleteSubscription
  <2>. QED BY Zenon, <1>8, <2>1, <2>2, <2>3 DEF Read, DeleteSubscription, registry, session
<1>9. ASSUME NEW s \in Subs, Unsubscribe(s) PROVE SubsTypeOK'
  <2>1. at' \in [Subs -> Places]
    BY Zenon, <1>9 DEF Unsubscribe, Go, Places
  <2>. QED BY Zenon, <1>9, <2>1 DEF Unsubscribe, registry, reading, session
<1>10. ASSUME NEW s \in Subs, RemoveSubscription(s) PROVE SubsTypeOK'
  <2>1. at' \in [Subs -> Places]
    BY Zenon, <1>10 DEF RemoveSubscription, Go, Places
  <2>2. IsInjective(subscriptions) /\ s \in Range(subscriptions)
    BY Zenon, <1>10 DEF RemoveSubscription, RegistryInv, Unregistered
  <2>3. subscriptions' \in Seq(Subs)
    BY Zenon, <1>10, <2>2, WithoutFirstRemoves DEF RemoveSubscription
  <2>. QED BY Zenon, <1>10, <2>1, <2>3 DEF RemoveSubscription, reading, session
<1>11. ASSUME NEW s \in Subs, OperationLost(s) PROVE SubsTypeOK'
  <2>1. /\ at' \in [Subs -> Places]
        /\ recovery' \in {"none", "lost", "connected", "submit", "wait"}
    BY Zenon, <1>11, AnsweredTypes DEF OperationLost
  <2>. QED BY Zenon, <1>11, <2>1 DEF OperationLost, registry, reading
<1>12. ASSUME NEW ok \in BOOLEAN, Serve(ok) PROVE SubsTypeOK'
  <2>1. /\ wire # <<>> /\ wire' = Tail(wire) /\ Answered(Head(wire).from, ok)
        /\ UNCHANGED <<registry, reading, link, req_copy>>
    BY Zenon, <1>12 DEF Serve
  <2>2. Head(wire).from \in Subs \cup {Nobody, Recovery} /\ wire' \in Seq(Operations)
    BY Zenon, <2>1, ServeFacts DEF Operations
  <2>3. /\ at' \in [Subs -> Places]
        /\ recovery' \in {"none", "lost", "connected", "submit", "wait"}
    BY Zenon, <2>1, <2>2, AnsweredTypes
  <2>. QED BY Zenon, <2>1, <2>2, <2>3 DEF registry, reading
<1>13. ASSUME NEW f \in Filters, MessageArrives(f) PROVE SubsTypeOK'
  <2>1. PICK taken : Receive(taken)
    BY Zenon, <1>13 DEF MessageArrives
  <2>2. unread' \in [Subs -> Nat]
    BY <2>1 DEF Receive, Enqueue
  <2>3. left' \in [Subs -> Nat]
    <3>. DEFINE kept(s) == IF RingIsFull(s) /\ left[s] > 0 THEN left[s] - 1 ELSE left[s]
                new(s) == CASE s \notin taken -> left[s]
                            [] s \in taken /\ listener[s] = "unset" -> kept(s) + 1
                            [] s \in taken /\ listener[s] # "unset" -> kept(s)
    <3>1. left' = [s \in Subs |-> new(s)]
      BY Zenon, <2>1 DEF Receive, Enqueue
    <3>2. ASSUME NEW s \in Subs PROVE new(s) \in Nat
      <4>1. kept(s) \in Nat
        BY DEF RingIsFull
      <4>. HIDE DEF kept
      <4>. QED BY <4>1
    <3>. HIDE DEF new
    <3>. QED BY Zenon, <3>1, <3>2
  <2>4. notified' \in [Subs -> BOOLEAN] /\ listener' = listener
    BY Zenon, <2>1 DEF Receive, Enqueue
  <2>. QED BY Zenon, <1>13, <2>2, <2>3, <2>4 DEF MessageArrives, registry, session
<1>14. CASE Reconnected \/ CopyParams \/ SubmitAllFails \/ LinkLost
  <2>1. /\ link' \in BOOLEAN
        /\ recovery' \in {"none", "lost", "connected", "submit", "wait"}
        /\ req_copy' \subseteq Filters
    BY Zenon, <1>14 DEF Reconnected, CopyParams, SubmitAllFails, LinkLost
  <2>2. wire' \in Seq(Operations)
    <3>1. wire' = wire \/ wire' = <<>>
      BY Zenon, <1>14 DEF Reconnected, CopyParams, SubmitAllFails, LinkLost
    <3>2. <<>> \in Seq(Operations)
      OBVIOUS
    <3>. QED BY <3>1, <3>2, Zenon DEF SubsTypeOK
  <2>3. UNCHANGED <<at, registry, reading>>
    BY Zenon, <1>14 DEF Reconnected, CopyParams, SubmitAllFails, LinkLost
  <2>. QED BY Zenon, <2>1, <2>2, <2>3 DEF registry, reading
<1>15. CASE SubmitAll
  <2>1. wire' \in Seq(Operations)
    BY Zenon, <1>15, SendFacts DEF SubmitAll
  <2>. QED BY Zenon, <1>15, <2>1 DEF SubmitAll, registry, reading
<1>. QED BY Zenon, <1>2, <1>3, <1>4, <1>5, <1>6, <1>7, <1>8, <1>9, <1>10, <1>11, <1>12, <1>13,
            <1>14, <1>15 DEF Next, ReaderStep, RecoveryStep

-----------------------------------------------------------------------------
(* The registry.                                                           *)

\* Only registered subscriptions have parameters, so the union over the list
\* is the union over all of them.
LEMMA UnionOfAll ==
    ASSUME NEW p \in [Subs -> SUBSET Filters], Range(subscriptions) \subseteq Subs,
           \A s \in Subs : s \notin Range(subscriptions) => p[s] = {}
    PROVE  AllParams(p) = UNION {p[s] : s \in Subs}
BY Zenon DEF AllParams

\* A reader that stays registered, or stays unregistered, and keeps its
\* parameters leaves the registry consistent.
LEMMA PlacesKeepRegistry ==
    ASSUME SubsTypeOK, RegistryInv, UNCHANGED registry,
           NEW s \in Subs, NEW place, Go(s, place),
           at[s] \in Unregistered <=> place \in Unregistered,
           at[s] \in Unrequested <=> place \in Unrequested
    PROVE  RegistryInv'
<1>1. \A t \in Subs : /\ at'[t] \in Unregistered <=> at[t] \in Unregistered
                      /\ at'[t] \in Unrequested <=> at[t] \in Unrequested
  BY Zenon DEF Go, SubsTypeOK
<1>. QED BY Zenon, <1>1 DEF RegistryInv, registry

\* An answer moves a reader among the places where it has its parameters.
LEMMA AnsweredKeepsRegistry ==
    ASSUME SubsTypeOK, RegistryInv, UNCHANGED registry,
           NEW who \in Subs \cup {Nobody, Recovery}, NEW ok, Answered(who, ok)
    PROVE  RegistryInv'
<1>1. CASE at' = at
  BY Zenon, <1>1 DEF RegistryInv, registry
<1>2. CASE /\ who \in Subs /\ at[who] \in {"submitted", "cancelled"}
           /\ \E p \in {"subscribed", "delete_requests"} : Go(who, p)
  BY Zenon, <1>2, PlacesKeepRegistry DEF Unregistered, Unrequested
<1>. QED BY Zenon, <1>1, <1>2 DEF Answered, FailSubscribe

\* Every step keeps the list, the parameters and their union consistent.
LEMMA RegistryStep == SubsTypeOK /\ RegistryInv /\ [Next]_vars => RegistryInv'
<1>. SUFFICES ASSUME SubsTypeOK, RegistryInv, [Next]_vars PROVE RegistryInv'
  BY Zenon
<1>0. SubsTypeOK'
  BY Zenon, SubsTypeStep
<1>1. CASE at' = at /\ UNCHANGED registry
  BY Zenon, <1>1 DEF RegistryInv, registry
<1>2. ASSUME NEW s \in Subs, AddSubscription(s) PROVE RegistryInv'
  <2>1. /\ at[s] = "idle" /\ at' = [at EXCEPT ![s] = "added"]
        /\ subscriptions' = Append(subscriptions, s)
        /\ UNCHANGED <<params, all_params>>
    BY Zenon, <1>2 DEF AddSubscription, Go
  <2>2. s \notin Range(subscriptions)
    BY Zenon, <2>1 DEF RegistryInv, Unregistered
  <2>3. IsInjective(subscriptions') /\ Range(subscriptions') = Range(subscriptions) \cup {s}
    BY <2>1, <2>2, AppendAdds DEF RegistryInv, SubsTypeOK
  <2>4. \A t \in Subs : at'[t] = IF t = s THEN "added" ELSE at[t]
    BY Zenon, <2>1 DEF SubsTypeOK
  <2>5. Range(subscriptions)' = {t \in Subs : at'[t] \notin Unregistered}
    BY Zenon, <2>3, <2>4 DEF RegistryInv, Unregistered, Range
  <2>6. params' = [t \in Subs |-> IF at'[t] \in Unrequested THEN {} ELSE {Filter[t]}]
    BY Zenon, <2>1, <2>4 DEF RegistryInv, Unregistered, Unrequested
  <2>7. all_params' = UNION {params'[t] : t \in Subs}
    BY Zenon, <2>1 DEF RegistryInv
  <2>. QED BY Zenon, <2>3, <2>5, <2>6, <2>7 DEF RegistryInv
<1>3. ASSUME NEW s \in Subs, CreateRequests(s) \/ DeleteRequests(s) PROVE RegistryInv'
  <2>1. PICK place \in {"created", "remove"} :
           /\ at' = [at EXCEPT ![s] = place]
           /\ params' = [params EXCEPT ![s] = IF place = "created" THEN {Filter[s]} ELSE {}]
           /\ all_params' = AllParams(params') /\ subscriptions' = subscriptions
           /\ at[s] \in {"added", "delete_requests"}
    BY Zenon, <1>3 DEF CreateRequests, DeleteRequests, Go
  <2>2. \A t \in Subs : at'[t] = IF t = s THEN place ELSE at[t]
    BY Zenon, <2>1 DEF SubsTypeOK
  <2>3. Range(subscriptions) = {t \in Subs : at'[t] \notin Unregistered}
    BY Zenon, <2>1, <2>2 DEF RegistryInv, Unregistered
  <2>4. params' = [t \in Subs |-> IF at'[t] \in Unrequested THEN {} ELSE {Filter[t]}]
    <3>1. \A t \in Subs : params'[t] = IF at'[t] \in Unrequested THEN {} ELSE {Filter[t]}
      BY Zenon, <2>1, <2>2 DEF RegistryInv, Unregistered, Unrequested
    <3>. QED BY Zenon, <2>1, <3>1 DEF RegistryInv
  <2>5. AllParams(params') = UNION {params'[t] : t \in Subs}
    <3>1. \A t \in Subs : t \notin Range(subscriptions) => params'[t] = {}
      BY Zenon, <2>3, <2>4 DEF Unrequested
    <3>. QED BY Zenon, <1>0, <2>3, <3>1, UnionOfAll DEF SubsTypeOK
  <2>. QED BY Zenon, <2>1, <2>3, <2>4, <2>5 DEF RegistryInv
<1>4. ASSUME NEW s \in Subs, RemoveSubscription(s) PROVE RegistryInv'
  <2>1. /\ at[s] = "remove" /\ at' = [at EXCEPT ![s] = "free"]
        /\ UNCHANGED <<params, all_params>>
    BY Zenon, <1>4 DEF RemoveSubscription, Go
  <2>2. s \in Range(subscriptions)
    BY Zenon, <2>1 DEF RegistryInv, Unregistered
  <2>3. IsInjective(subscriptions') /\ Range(subscriptions') = Range(subscriptions) \ {s}
    <3>1. subscriptions' = WithoutFirst(subscriptions, s)
      BY Zenon, <1>4, <2>2 DEF RemoveSubscription
    <3>. QED BY <2>2, <3>1, WithoutFirstRemoves DEF RegistryInv, SubsTypeOK
  <2>4. \A t \in Subs : at'[t] = IF t = s THEN "free" ELSE at[t]
    BY Zenon, <2>1 DEF SubsTypeOK
  <2>5. Range(subscriptions)' = {t \in Subs : at'[t] \notin Unregistered}
    BY Zenon, <2>3, <2>4 DEF RegistryInv, Unregistered, Range
  <2>6. params' = [t \in Subs |-> IF at'[t] \in Unrequested THEN {} ELSE {Filter[t]}]
    BY Zenon, <2>1, <2>4 DEF RegistryInv, Unregistered, Unrequested
  <2>7. all_params' = UNION {params'[t] : t \in Subs}
    BY Zenon, <2>1 DEF RegistryInv
  <2>. QED BY Zenon, <2>3, <2>5, <2>6, <2>7 DEF RegistryInv
<1>5. ASSUME NEW s \in Subs, DeleteSubscription(s) PROVE RegistryInv'
  BY Zenon, <1>5, PlacesKeepRegistry DEF DeleteSubscription, Unregistered, Unrequested
<1>6. ASSUME NEW s \in Subs,
             Submit(s) \/ Cancel(s) \/ SubmitTimesOut(s) \/ CancelTimesOut(s) \/ Unsubscribe(s)
      PROVE  RegistryInv'
  <2>1. /\ UNCHANGED registry
        /\ at[s] \in {"created", "submitted", "active", "cancel", "cancelled"}
        /\ \E place \in {"submitted", "delete_requests", "cancel", "cancelled"} : Go(s, place)
    BY Zenon, <1>6 DEF Submit, Cancel, SubmitTimesOut, CancelTimesOut, Unsubscribe, FailSubscribe
  <2>. QED BY Zenon, <2>1, PlacesKeepRegistry DEF Unregistered, Unrequested
<1>7. ASSUME NEW s \in Subs, SetListener(s) PROVE RegistryInv'
  BY Zenon, <1>1, <1>7, PlacesKeepRegistry DEF SetListener, Unregistered, Unrequested
<1>8. ASSUME NEW s \in Subs, OperationLost(s) PROVE RegistryInv'
  BY Zenon, <1>8, AnsweredKeepsRegistry DEF OperationLost
<1>9. ASSUME NEW ok \in BOOLEAN, Serve(ok) PROVE RegistryInv'
  <2>1. wire # <<>> /\ Answered(Head(wire).from, ok) /\ UNCHANGED registry
    BY Zenon, <1>9 DEF Serve
  <2>2. Head(wire).from \in Subs \cup {Nobody, Recovery}
    BY Zenon, <2>1, ServeFacts DEF Operations, SubsTypeOK
  <2>. QED BY Zenon, <2>1, <2>2, AnsweredKeepsRegistry
<1>10. ASSUME NEW s \in Subs, Read(s) PROVE RegistryInv'
  BY Zenon, <1>1, <1>10 DEF Read
<1>11. ASSUME NEW f \in Filters, MessageArrives(f) PROVE RegistryInv'
  BY Zenon, <1>1, <1>11 DEF MessageArrives
<1>12. CASE RecoveryStep \/ LinkLost
  BY Zenon, <1>1, <1>12
     DEF RecoveryStep, Reconnected, CopyParams, SubmitAll, SubmitAllFails, LinkLost
<1>13. CASE UNCHANGED vars
  BY Zenon, <1>1, <1>13 DEF vars, registry
<1>. QED BY Zenon, <1>2, <1>3, <1>4, <1>5, <1>6, <1>7, <1>8, <1>9, <1>10, <1>11, <1>12, <1>13
         DEF Next, ReaderStep

\* Initially nothing is registered.
LEMMA RegistryInit == Init => RegistryInv
BY DEF Init, RegistryInv, Range, IsInjective, Unregistered, Unrequested

\* The types and the registry, together.
LEMMA RegistryInvariant == Spec => [](SubsTypeOK /\ RegistryInv)
BY SubsTypeInit, SubsTypeStep, RegistryInit, RegistryStep, PTL DEF Spec

\* What a reconnection resubmits is what the registered subscriptions ask for,
\* whatever the number of readers (Client.c:478-489, 550-567).
THEOREM ResubmissionCorrect == Spec => []ResubmissionIsCurrent
<1>1. SubsTypeOK /\ RegistryInv => ResubmissionIsCurrent
  <2>. SUFFICES ASSUME SubsTypeOK, RegistryInv
                PROVE  all_params = UNION {params[s] : s \in Range(subscriptions)}
    BY Zenon DEF ResubmissionIsCurrent
  <2>1. \A s \in Subs : s \notin Range(subscriptions) => params[s] = {}
    BY Zenon DEF RegistryInv, Unrequested
  <2>2. Range(subscriptions) \subseteq Subs
    BY Zenon DEF RegistryInv
  <2>. QED BY Zenon, <2>1, <2>2, UnionOfAll DEF RegistryInv, SubsTypeOK, AllParams
<1>. QED BY <1>1, RegistryInvariant, PTL

\* Delivery reaches no subscription that was freed, and none twice
\* (Client.c:673-680, 1333-1338).
THEOREM RegisteredAlive == Spec => []RegisteredIsAlive
<1>1. SubsTypeOK /\ RegistryInv => RegisteredIsAlive
  BY Zenon DEF RegistryInv, RegisteredIsAlive, Unregistered
<1>. QED BY <1>1, RegistryInvariant, PTL

-----------------------------------------------------------------------------
(* Notifications.                                                          *)

\* A message that arrives is notified or counted as one that came too early,
\* and a read takes all messages or counts all as left.
LEMMA NotifiedStep == SubsTypeOK /\ NotifiedInv /\ [Next]_vars => NotifiedInv'
<1>. SUFFICES ASSUME SubsTypeOK, NotifiedInv, [Next]_vars PROVE NotifiedInv'
  OBVIOUS
<1>0. unread \in [Subs -> Nat] /\ notified \in [Subs -> BOOLEAN] /\ left \in [Subs -> Nat]
  BY Zenon DEF SubsTypeOK
<1>1. CASE UNCHANGED <<unread, notified, left>>
  BY Zenon, <1>1 DEF NotifiedInv
<1>2. ASSUME NEW s \in Subs, Read(s) \/ DeleteSubscription(s) PROVE NotifiedInv'
  <2>1. \A t \in Subs : t # s => /\ unread'[t] = unread[t] /\ left'[t] = left[t]
                                 /\ notified'[t] = notified[t]
    BY Zenon, <1>0, <1>2 DEF Read, DeleteSubscription
  <2>2. \/ unread'[s] = 0 /\ left'[s] = 0
        \/ unread'[s] = unread[s] /\ left'[s] = unread[s]
    <3>1. \/ /\ unread' = [unread EXCEPT ![s] = 0]
             /\ left' = [left EXCEPT ![s] = 0]
          \/ unread' = unread /\ left' = [left EXCEPT ![s] = unread[s]]
      BY Zenon, <1>2 DEF Read, DeleteSubscription
    <3>2. CASE unread' = [unread EXCEPT ![s] = 0] /\ left' = [left EXCEPT ![s] = 0]
      BY Zenon, <1>0, <3>2
    <3>3. CASE unread' = unread /\ left' = [left EXCEPT ![s] = unread[s]]
      BY Zenon, <1>0, <3>3
    <3>. QED BY Zenon, <3>1, <3>2, <3>3
  <2>3. ~(unread'[s] > left'[s])
    BY <1>0, <2>2
  <2>. QED BY Zenon, <2>1, <2>3 DEF NotifiedInv
<1>3. ASSUME NEW f \in Filters, MessageArrives(f) PROVE NotifiedInv'
  <2>1. PICK taken : Receive(taken)
    BY Zenon, <1>3 DEF MessageArrives
  <2>2. SUFFICES ASSUME NEW s \in Subs, unread'[s] > left'[s] PROVE notified'[s]
    BY Zenon DEF NotifiedInv
  <2>3. CASE s \in taken /\ listener[s] # "unset"
    BY Zenon, <2>1, <2>3 DEF Receive
  <2>4. CASE s \notin taken
    <3>1. unread'[s] = unread[s] /\ left'[s] = left[s] /\ notified'[s] = notified[s]
      BY Zenon, <2>1, <2>4 DEF Receive, Enqueue
    <3>. QED BY Zenon, <2>2, <3>1 DEF NotifiedInv
  <2>5. CASE s \in taken /\ listener[s] = "unset"
    <3>1. /\ unread'[s] = IF ~RingIsFull(s) THEN unread[s] + 1 ELSE unread[s]
          /\ left'[s] = (IF RingIsFull(s) /\ left[s] > 0 THEN left[s] - 1 ELSE left[s]) + 1
          /\ notified'[s] = notified[s]
      BY Zenon, <2>1, <2>5 DEF Receive, Enqueue
    <3>2. unread[s] > left[s]
      <4>1. unread[s] \in Nat /\ left[s] \in Nat
        BY Zenon, <1>0
      <4>2. CASE RingIsFull(s) = TRUE
        BY <2>2, <3>1, <4>1, <4>2
      <4>3. CASE ~(RingIsFull(s) = TRUE)
        <5>1. ~RingIsFull(s)
          BY Zenon, <4>3 DEF RingIsFull
        <5>. QED BY <2>2, <3>1, <4>1, <5>1
      <4>. QED BY Zenon, <4>2, <4>3
    <3>. QED BY Zenon, <3>1, <3>2 DEF NotifiedInv
  <2>. QED BY Zenon, <2>3, <2>4, <2>5
<1>4. ASSUME NEW s \in Subs,
             \/ AddSubscription(s) \/ CreateRequests(s) \/ Submit(s) \/ SubmitTimesOut(s)
             \/ SetListener(s) \/ Unsubscribe(s) \/ Cancel(s) \/ CancelTimesOut(s)
             \/ DeleteRequests(s) \/ RemoveSubscription(s) \/ OperationLost(s)
      PROVE  NotifiedInv'
  BY Zenon, <1>1, <1>4 DEF AddSubscription, CreateRequests, Submit, SubmitTimesOut, SetListener,
       Unsubscribe, Cancel, CancelTimesOut, DeleteRequests, RemoveSubscription,
       OperationLost, reading
<1>5. ASSUME NEW ok \in BOOLEAN, Serve(ok) PROVE NotifiedInv'
  BY Zenon, <1>1, <1>5 DEF Serve, reading
<1>6. CASE RecoveryStep \/ LinkLost
  BY Zenon, <1>1, <1>6 DEF RecoveryStep, Reconnected, CopyParams, SubmitAll, SubmitAllFails,
       LinkLost, reading
<1>7. CASE UNCHANGED vars
  BY Zenon, <1>1, <1>7 DEF vars
<1>. QED BY Zenon, <1>2, <1>3, <1>4, <1>5, <1>6, <1>7 DEF Next, ReaderStep

\* A reader in use is notified of every message that arrives once its listener
\* is set, also when earlier ones still wait because they came too early, or
\* because a read failed or found the ring exactly full (MessageReader.c:72-92,
\* 272-279, Subscription.c:148, Message.c:684).
THEOREM UnreadNotified == Spec => []UnreadIsNotified
<1>1. Init => NotifiedInv
  BY DEF Init, NotifiedInv
<1>2. NotifiedInv => UnreadIsNotified
  BY Zenon DEF NotifiedInv, UnreadIsNotified
<1>. QED BY <1>1, <1>2, NotifiedStep, RegistryInvariant, PTL DEF Spec

-----------------------------------------------------------------------------
(* The broker.                                                             *)

\* A reader that moves without sending anything, and is not waiting for an
\* operation on its way, leaves the operations and the broker as they should
\* be.
LEMMA QuietMove ==
    ASSUME SubsTypeOK, BrokerInv, UNCHANGED session,
           NEW s \in Subs, NEW place, Go(s, place), ~Sent(s),
           place \in InUse => at[s] \in InUse, place # "submitted"
    PROVE  BrokerInv'
<1>1. \A t \in Subs : at'[t] = IF t = s THEN place ELSE at[t]
  BY Zenon DEF Go, SubsTypeOK
<1>2. UNCHANGED <<link, recovery, req_copy, wire, broker>>
  BY Zenon DEF session
<1>3. LinkInv' /\ SentOnce'
  BY Zenon, <1>2 DEF BrokerInv, LinkInv, SentOnce
<1>4. SendersInv'
  BY Zenon, <1>1, <1>2 DEF BrokerInv, SendersInv, Sent
<1>5. CancelsAreOver'
  BY <1>1, <1>2 DEF BrokerInv, CancelsAreOver
<1>6. ServedInv'
  BY Zenon, <1>1, <1>2 DEF BrokerInv, ServedInv
<1>. QED BY Zenon, <1>3, <1>4, <1>5, <1>6 DEF BrokerInv

\* A reader with an operation on its way waits for it.
LEMMA SentWaits ==
    ASSUME SubsTypeOK, BrokerInv, NEW s \in Subs, at[s] \notin {"submitted", "cancelled"}
    PROVE  ~Sent(s)
BY Zenon DEF BrokerInv, SendersInv, Sent

\* A reader with parameters has those of its filter.
LEMMA OwnParams ==
    ASSUME SubsTypeOK, RegistryInv, NEW s \in Subs, at[s] \notin Unrequested
    PROVE  params[s] = {Filter[s]} /\ {Filter[s]} \in SUBSET Filters
<1>1. params[s] = {Filter[s]}
  BY Zenon DEF RegistryInv
<1>2. Filter[s] \in Filters
  BY Zenon DEF Filters
<1>. QED BY Zenon, <1>1, <1>2

\* A reader that sends its subscription or its cancellation: what was sent
\* before is ahead, and nobody else has its filter.
LEMMA SendKeeps ==
    ASSUME SubsTypeOK, BrokerInv, OwnFilter, NEW s \in Subs, NEW op \in {"sub", "unsub"},
           link = TRUE, ~Sent(s), at[s] \notin InUse,
           Go(s, IF op = "sub" THEN "submitted" ELSE "cancelled"),
           Send(op, {Filter[s]}, s), UNCHANGED <<link, recovery, req_copy, broker>>
    PROVE  BrokerInv'
<1>. DEFINE n == Len(wire)
            place == IF op = "sub" THEN "submitted" ELSE "cancelled"
<1>1. [op |-> op, filters |-> {Filter[s]}, from |-> s] \in Operations /\ wire \in Seq(Operations)
  BY Zenon DEF Filters, SubsTypeOK, Operations
<1>2. /\ n \in Nat /\ DOMAIN wire = 1 .. n /\ DOMAIN wire' = 1 .. n + 1
      /\ \A i \in 1 .. n : wire'[i] = wire[i]
      /\ wire'[n + 1] = [op |-> op, filters |-> {Filter[s]}, from |-> s]
  BY <1>1 DEF Send
<1>. HIDE DEF n
<1>3. \A t \in Subs : at'[t] = IF t = s THEN place ELSE at[t]
  BY Zenon DEF Go, SubsTypeOK
<1>4. \A i \in 1 .. n : wire[i].from # s
  BY Zenon, <1>2 DEF Sent
<1>5. LinkInv'
  BY Zenon DEF BrokerInv, LinkInv
<1>6. SendersInv'
  <2>. SUFFICES ASSUME NEW i \in 1 .. n + 1
                PROVE  /\ wire'[i].from \in Subs =>
                            /\ wire'[i].filters = {Filter[wire'[i].from]}
                            /\ at'[wire'[i].from] = IF wire'[i].op = "sub" THEN "submitted"
                                                                           ELSE "cancelled"
                       /\ wire'[i].op = "unsub" =>
                            \E t \in Subs : wire'[i].filters = {Filter[t]}
                       /\ wire'[i].from = Recovery =>
                            /\ recovery' = "wait" /\ wire'[i].op = "sub"
                            /\ wire'[i].filters = req_copy'
    BY Zenon, <1>2 DEF SendersInv
  <2>1. CASE i = n + 1
    <3>1. wire'[i].op = op /\ wire'[i].filters = {Filter[s]} /\ wire'[i].from = s
      BY <1>2, <2>1
    <3>2. at'[s] = place /\ s # Recovery
      BY Zenon, <1>3, SenderAssumption
    <3>. QED BY Zenon, <3>1, <3>2
  <2>2. CASE i \in 1 .. n
    <3>1. wire'[i] = wire[i] /\ wire[i].from # s /\ i \in DOMAIN wire
      BY Zenon, <1>2, <1>4, <2>2
    <3>2. wire[i].from \in Subs => at'[wire[i].from] = at[wire[i].from]
      BY Zenon, <1>3, <3>1
    <3>. QED BY SMTT(30), <3>1, <3>2 DEF BrokerInv, SendersInv
  <2>. QED BY SMTT(30), <1>2, <2>1, <2>2
<1>7. SentOnce'
  <2>. SUFFICES ASSUME NEW i \in 1 .. n + 1, NEW j \in 1 .. n + 1,
                       wire'[i].from = wire'[j].from, wire'[i].from # Nobody
                PROVE  i = j
    BY Zenon, <1>2 DEF SentOnce
  <2>1. CASE i \in 1 .. n /\ j \in 1 .. n
    BY Zenon, <1>2, <2>1 DEF BrokerInv, SentOnce
  <2>2. CASE i = n + 1 \/ j = n + 1
    BY SMTT(30), <1>2, <1>4, <2>2
  <2>. QED BY <1>2, <2>1, <2>2
<1>8. CancelsAreOver'
  <2>. SUFFICES ASSUME NEW t \in Subs, NEW i \in 1 .. n + 1,
                       wire'[i].op = "unsub", Filter[t] \in wire'[i].filters
                PROVE  /\ at'[t] \notin InUse
                       /\ at'[t] = "submitted" =>
                            \A j \in 1 .. n + 1 : wire'[j].from = t => i < j
    BY Zenon, <1>2 DEF CancelsAreOver
  <2>1. CASE i = n + 1
    <3>1. op = "unsub" /\ Filter[t] = Filter[s]
      BY <1>2, <2>1
    <3>2. t = s
      BY Zenon, <3>1 DEF OwnFilter
    <3>. QED BY Zenon, <1>3, <3>1, <3>2 DEF InUse
  <2>2. CASE i \in 1 .. n
    <3>1. at[t] \notin InUse /\ (at[t] = "submitted" =>
                                   \A j \in DOMAIN wire : wire[j].from = t => i < j)
      BY Zenon, <1>2, <2>2 DEF BrokerInv, CancelsAreOver
    <3>2. CASE t = s
      BY SMTT(30), <1>2, <1>3, <1>4, <2>2, <3>2 DEF InUse
    <3>3. CASE t # s
      BY SMTT(30), <1>2, <1>3, <2>2, <3>1, <3>3
    <3>. QED BY Zenon, <3>2, <3>3
  <2>. QED BY SMTT(30), <1>2, <2>1, <2>2
<1>9. ServedInv'
  BY Zenon, <1>3 DEF BrokerInv, ServedInv, InUse
<1>. QED BY Zenon, <1>5, <1>6, <1>7, <1>8, <1>9 DEF BrokerInv

\* submit_subscriptions and cancel_subscriptions.
LEMMA RequestKeeps ==
    ASSUME SubsTypeOK, RegistryInv, BrokerInv, OwnFilter, NEW s \in Subs,
           Submit(s) \/ Cancel(s)
    PROVE  BrokerInv'
<1>1. /\ at[s] \in {"created", "cancel"}
      /\ UNCHANGED <<link, recovery, req_copy, broker>>
  BY Zenon DEF Submit, Cancel
<1>2. ~Sent(s) /\ at[s] \notin InUse
  BY Zenon, <1>1, SentWaits DEF InUse
<1>3. params[s] = {Filter[s]}
  BY Zenon, <1>1, OwnParams DEF Unrequested, Unregistered
<1>4. CASE Go(s, "delete_requests") /\ UNCHANGED wire
  <2>1. UNCHANGED session
    BY Zenon, <1>1, <1>4 DEF session
  <2>. QED BY Zenon, <1>2, <1>4, <2>1, QuietMove DEF InUse
<1>5. CASE link /\ Go(s, "submitted") /\ Send("sub", {Filter[s]}, s)
  <2>1. link = TRUE
    BY Zenon, <1>5 DEF SubsTypeOK
  <2>. QED BY Zenon, <1>1, <1>2, <1>5, <2>1, SendKeeps
<1>6. CASE link /\ Go(s, "cancelled") /\ Send("unsub", {Filter[s]}, s)
  <2>1. link = TRUE
    BY Zenon, <1>6 DEF SubsTypeOK
  <2>. QED BY Zenon, <1>1, <1>2, <1>6, <2>1, SendKeeps
<1>. QED BY Zenon, <1>3, <1>4, <1>5, <1>6 DEF Submit, Cancel, FailSubscribe

\* A request that times out stays on its way without a sender.
LEMMA TimeOutKeeps ==
    ASSUME SubsTypeOK, BrokerInv, NEW s \in Subs, SubmitTimesOut(s) \/ CancelTimesOut(s)
    PROVE  BrokerInv'
<1>1. /\ Go(s, "delete_requests") /\ Disown(s)
      /\ UNCHANGED <<link, recovery, req_copy, broker>>
  BY Zenon DEF SubmitTimesOut, CancelTimesOut, FailSubscribe
<1>2. /\ DOMAIN wire' = DOMAIN wire
      /\ \A i \in DOMAIN wire :
            /\ wire'[i].op = wire[i].op /\ wire'[i].filters = wire[i].filters
            /\ wire'[i].from = IF wire[i].from = s THEN Nobody ELSE wire[i].from
  BY Zenon, <1>1, DisownFacts DEF SubsTypeOK
<1>3. \A t \in Subs : at'[t] = IF t = s THEN "delete_requests" ELSE at[t]
  BY Zenon, <1>1 DEF Go, SubsTypeOK
<1>4. LinkInv'
  <2>1. ~link => wire' = <<>>
    BY SMTT(30), <1>1 DEF BrokerInv, LinkInv, Disown
  <2>. QED BY Zenon, <1>1, <2>1 DEF BrokerInv, LinkInv
<1>5. SendersInv'
  <2>1. ASSUME NEW i \in DOMAIN wire, wire'[i].from \in Subs
        PROVE  wire'[i].from = wire[i].from /\ wire[i].from # s
    BY Zenon, <1>2, <2>1, SenderAssumption
  <2>2. ASSUME NEW i \in DOMAIN wire, wire'[i].from = Recovery
        PROVE  wire'[i].from = wire[i].from
    BY Zenon, <1>2, <2>2 DEF Recovery, Nobody
  <2>. SUFFICES ASSUME NEW i \in DOMAIN wire
                PROVE  /\ wire'[i].from \in Subs =>
                            /\ wire'[i].filters = {Filter[wire'[i].from]}
                            /\ at'[wire'[i].from] = IF wire'[i].op = "sub" THEN "submitted"
                                                                           ELSE "cancelled"
                       /\ wire'[i].op = "unsub" =>
                            \E t \in Subs : wire'[i].filters = {Filter[t]}
                       /\ wire'[i].from = Recovery =>
                            /\ recovery' = "wait" /\ wire'[i].op = "sub"
                            /\ wire'[i].filters = req_copy'
    BY Zenon, <1>2 DEF SendersInv
  <2>3. /\ wire[i].from \in Subs =>
              /\ wire[i].filters = {Filter[wire[i].from]}
              /\ at[wire[i].from] = IF wire[i].op = "sub" THEN "submitted" ELSE "cancelled"
        /\ wire[i].op = "unsub" => \E t \in Subs : wire[i].filters = {Filter[t]}
        /\ wire[i].from = Recovery =>
              recovery = "wait" /\ wire[i].op = "sub" /\ wire[i].filters = req_copy
    BY Zenon DEF BrokerInv, SendersInv
  <2>4. wire'[i].op = wire[i].op /\ wire'[i].filters = wire[i].filters
    BY Zenon, <1>2
  <2>. QED BY ZenonT(30), <1>1, <1>3, <2>1, <2>2, <2>3, <2>4
<1>6. SentOnce'
  BY Zenon, <1>2 DEF BrokerInv, SentOnce
<1>7. CancelsAreOver'
  <2>. SUFFICES ASSUME NEW t \in Subs, NEW i \in DOMAIN wire,
                       wire'[i].op = "unsub", Filter[t] \in wire'[i].filters
                PROVE  /\ at'[t] \notin InUse
                       /\ at'[t] = "submitted" =>
                            \A j \in DOMAIN wire : wire'[j].from = t => i < j
    BY Zenon, <1>2 DEF CancelsAreOver
  <2>1. at[t] \notin InUse /\ (at[t] = "submitted" =>
                                 \A j \in DOMAIN wire : wire[j].from = t => i < j)
    BY Zenon, <1>2 DEF BrokerInv, CancelsAreOver
  <2>2. \A j \in DOMAIN wire : wire'[j].from = t => wire[j].from = t
    BY Zenon, <1>2, SenderAssumption
  <2>. QED BY Zenon, <1>3, <2>1, <2>2 DEF InUse
<1>8. ServedInv'
  BY Zenon, <1>1, <1>3 DEF BrokerInv, ServedInv, InUse
<1>. QED BY Zenon, <1>4, <1>5, <1>6, <1>7, <1>8 DEF BrokerInv

\* The broker serves the operation that was sent first.  If it is a
\* cancellation, no reader in use has its filter; if it is a reader's
\* subscription, no cancellation of that filter is left behind it.
LEMMA ServeKeeps ==
    ASSUME SubsTypeOK, BrokerInv, NEW ok \in BOOLEAN, Serve(ok)
    PROVE  BrokerInv'
<1>. DEFINE n == Len(wire)
            who == wire[1].from
<1>1. /\ wire # <<>> /\ wire \in Seq(Operations) /\ wire' = Tail(wire)
      /\ UNCHANGED <<link, req_copy>>
  BY Zenon DEF Serve, SubsTypeOK
<1>2. /\ Head(wire) = wire[1] /\ wire[1] \in Operations
      /\ n \in Nat /\ DOMAIN wire = 1 .. n /\ 1 \in 1 .. n
      /\ DOMAIN wire' = 1 .. n - 1
      /\ \A i \in 1 .. n - 1 : wire'[i] = wire[i + 1]
  BY Zenon, <1>1, ServeFacts
<1>3. /\ who \in Subs \cup {Nobody, Recovery}
      /\ wire[1].op \in {"sub", "unsub"}
  BY Zenon, <1>2 DEF Operations
<1>. HIDE DEF n
<1>4. /\ Answered(who, ok)
      /\ broker' = CASE ~ok -> broker
                     [] ok /\ wire[1].op = "sub" -> broker \cup wire[1].filters
                     [] ok /\ wire[1].op = "unsub" -> broker \ wire[1].filters
  BY Zenon, <1>2 DEF Serve
<1>5. /\ \A t \in Subs : t # who => at'[t] = at[t]
      /\ who \in Subs => /\ at'[who] \in {"subscribed", "delete_requests"}
                         /\ at'[who] = "subscribed" => ok /\ at[who] = "submitted"
                         /\ recovery' = recovery
      /\ who = Nobody => recovery' = recovery
      /\ who = Recovery => recovery' = "none" /\ ok
  BY <1>3, <1>4, SenderAssumption
     DEF Answered, FailSubscribe, Go, SubsTypeOK, Nobody, Recovery
<1>6. \A i \in 1 .. n - 1 : wire[i + 1].from = who => who = Nobody
  <2>. SUFFICES ASSUME NEW i \in 1 .. n - 1, wire[i + 1].from = wire[1].from,
                       wire[1].from # Nobody
                PROVE  FALSE
    BY Zenon
  <2>1. i + 1 \in DOMAIN wire /\ 1 \in DOMAIN wire /\ i + 1 # 1
    BY <1>2
  <2>. QED BY Zenon, <2>1 DEF BrokerInv, SentOnce
<1>7. who = Recovery => /\ recovery = "wait" /\ wire[1].op = "sub"
                        /\ wire[1].filters = req_copy
  BY Zenon, <1>2 DEF BrokerInv, SendersInv
<1>8. LinkInv'
  BY Zenon, <1>1, <1>3, <1>5, <1>7 DEF BrokerInv, LinkInv
<1>9. SendersInv'
  <2>. SUFFICES ASSUME NEW i \in 1 .. n - 1
                PROVE  /\ wire'[i].from \in Subs =>
                            /\ wire'[i].filters = {Filter[wire'[i].from]}
                            /\ at'[wire'[i].from] = IF wire'[i].op = "sub" THEN "submitted"
                                                                           ELSE "cancelled"
                       /\ wire'[i].op = "unsub" =>
                            \E t \in Subs : wire'[i].filters = {Filter[t]}
                       /\ wire'[i].from = Recovery =>
                            /\ recovery' = "wait" /\ wire'[i].op = "sub"
                            /\ wire'[i].filters = req_copy'
    BY Zenon, <1>2 DEF SendersInv
  <2>1. i + 1 \in DOMAIN wire /\ wire'[i] = wire[i + 1]
    BY <1>2
  <2>2. wire[i + 1].from \in Subs => at'[wire[i + 1].from] = at[wire[i + 1].from]
    BY Zenon, <1>5, <1>6, SenderAssumption
  <2>3. wire[i + 1].from = Recovery => recovery' = recovery
    BY Zenon, <1>3, <1>5, <1>6 DEF Nobody, Recovery
  <2>. QED BY SMTT(30), <1>1, <2>1, <2>2, <2>3 DEF BrokerInv, SendersInv
<1>10. SentOnce'
  <2>. SUFFICES ASSUME NEW i \in 1 .. n - 1, NEW j \in 1 .. n - 1,
                       wire'[i].from = wire'[j].from, wire'[i].from # Nobody
                PROVE  i = j
    BY Zenon, <1>2 DEF SentOnce
  <2>1. /\ i + 1 \in DOMAIN wire /\ j + 1 \in DOMAIN wire
        /\ wire'[i] = wire[i + 1] /\ wire'[j] = wire[j + 1]
    BY <1>2
  <2>2. i + 1 = j + 1
    BY Zenon, <2>1 DEF BrokerInv, SentOnce
  <2>. QED BY <2>2
<1>11. CancelsAreOver'
  <2>. SUFFICES ASSUME NEW t \in Subs, NEW i \in 1 .. n - 1,
                       wire'[i].op = "unsub", Filter[t] \in wire'[i].filters
                PROVE  /\ at'[t] \notin InUse
                       /\ at'[t] = "submitted" =>
                            \A j \in 1 .. n - 1 : wire'[j].from = t => i < j
    BY Zenon, <1>2 DEF CancelsAreOver
  <2>1. i + 1 \in DOMAIN wire /\ wire'[i] = wire[i + 1]
    BY <1>2
  <2>2. at[t] \notin InUse /\ (at[t] = "submitted" =>
                                 \A j \in DOMAIN wire : wire[j].from = t => i + 1 < j)
    BY Zenon, <2>1 DEF BrokerInv, CancelsAreOver
  <2>3. CASE t = who
    <3>1. at'[t] # "subscribed"
      <4>1. 1 \in DOMAIN wire /\ ~(i + 1 < 1)
        BY <1>2
      <4>. QED BY Zenon, <1>5, <2>2, <2>3, <4>1
    <3>. QED BY Zenon, <1>5, <2>3, <3>1 DEF InUse
  <2>4. CASE t # who
    <3>1. at'[t] = at[t]
      BY Zenon, <1>5, <2>4
    <3>2. ASSUME NEW j \in 1 .. n - 1, at[t] = "submitted", wire'[j].from = t
          PROVE  i < j
      <4>1. j + 1 \in DOMAIN wire /\ wire'[j] = wire[j + 1]
        BY <1>2
      <4>2. i + 1 < j + 1
        BY Zenon, <2>2, <3>2, <4>1
      <4>. QED BY <4>2
    <3>. QED BY Zenon, <2>2, <3>1, <3>2
  <2>. QED BY Zenon, <2>3, <2>4
<1>12. ServedInv'
  <2>. SUFFICES ASSUME NEW t \in Subs, at'[t] \in InUse
                PROVE  /\ recovery' = "none" => Filter[t] \in broker'
                       /\ recovery' \in {"submit", "wait"} =>
                            Filter[t] \in req_copy' \cup broker'
    BY Zenon DEF ServedInv
  <2>1. CASE t = who
    <3>1. ok /\ at[t] = "submitted"
      BY Zenon, <1>5, <2>1 DEF InUse
    <3>2. wire[1].op = "sub" /\ wire[1].filters = {Filter[t]}
      BY Zenon, <1>2, <2>1, <3>1 DEF BrokerInv, SendersInv
    <3>3. broker' = broker \cup {Filter[t]}
      BY Zenon, <1>4, <3>1, <3>2
    <3>. QED BY Zenon, <3>3
  <2>2. CASE t # who
    <3>1. at[t] \in InUse
      BY Zenon, <1>5, <2>2
    <3>2. wire[1].op = "unsub" => Filter[t] \notin wire[1].filters
      BY Zenon, <1>2, <3>1 DEF BrokerInv, CancelsAreOver
    <3>3. Filter[t] \in broker => Filter[t] \in broker'
      BY Zenon, <1>3, <1>4, <3>2
    <3>4. CASE who = Recovery
      <4>1. broker' = broker \cup req_copy
        BY Zenon, <1>4, <1>5, <1>7, <3>4
      <4>2. Filter[t] \in req_copy \cup broker
        BY Zenon, <1>7, <3>1, <3>4 DEF BrokerInv, ServedInv
      <4>. QED BY Zenon, <4>1, <4>2
    <3>5. CASE who # Recovery
      <4>1. recovery' = recovery
        BY Zenon, <1>3, <1>5, <3>5
      <4>. QED BY Zenon, <1>1, <3>1, <3>3, <4>1 DEF BrokerInv, ServedInv
    <3>. QED BY Zenon, <3>4, <3>5
  <2>. QED BY Zenon, <2>1, <2>2
<1>. QED BY Zenon, <1>8, <1>9, <1>10, <1>11, <1>12 DEF BrokerInv

\* Losing the connection, restoring it and resubmitting.
LEMMA RecoveryKeeps ==
    ASSUME SubsTypeOK, RegistryInv, BrokerInv, RecoveryStep \/ LinkLost
    PROVE  BrokerInv'
<1>1. UNCHANGED at
  BY Zenon DEF RecoveryStep, Reconnected, CopyParams, SubmitAll, SubmitAllFails, LinkLost
<1>2. CASE LinkLost \/ SubmitAllFails
  <2>1. wire' = <<>> /\ ~link' /\ recovery' = "lost"
    BY Zenon, <1>2 DEF LinkLost, SubmitAllFails
  <2>2. DOMAIN wire' = {}
    BY SMTT(30), <2>1
  <2>. QED BY Zenon, <2>1, <2>2
              DEF BrokerInv, LinkInv, SendersInv, SentOnce, CancelsAreOver, ServedInv
<1>3. CASE Reconnected
  <2>1. /\ recovery = "lost" /\ recovery' = "connected" /\ link'
        /\ UNCHANGED <<req_copy, wire, broker>> /\ wire = <<>>
    BY Zenon, <1>3 DEF Reconnected, BrokerInv, LinkInv
  <2>2. DOMAIN wire' = {}
    BY <2>1
  <2>. QED BY Zenon, <2>1, <2>2
              DEF BrokerInv, LinkInv, SendersInv, SentOnce, CancelsAreOver, ServedInv
<1>4. CASE CopyParams
  <2>1. /\ recovery = "connected" /\ req_copy' = all_params
        /\ recovery' = IF all_params = {} THEN "none" ELSE "submit"
        /\ UNCHANGED <<link, wire, broker>>
    BY Zenon, <1>4 DEF CopyParams
  <2>2. LinkInv' /\ SentOnce'
    BY Zenon, <2>1 DEF BrokerInv, LinkInv, SentOnce
  <2>3. SendersInv'
    BY Zenon, <1>1, <2>1 DEF BrokerInv, SendersInv
  <2>4. CancelsAreOver'
    BY Zenon, <1>1, <2>1 DEF BrokerInv, CancelsAreOver
  <2>5. ServedInv'
    <3>. SUFFICES ASSUME NEW t \in Subs, at[t] \in InUse PROVE Filter[t] \in all_params
      BY Zenon, <1>1, <2>1 DEF ServedInv
    <3>1. params[t] = {Filter[t]}
      BY Zenon, OwnParams DEF InUse, Unrequested, Unregistered
    <3>. QED BY Zenon, <3>1 DEF RegistryInv
  <2>. QED BY Zenon, <2>2, <2>3, <2>4, <2>5 DEF BrokerInv
<1>5. CASE SubmitAll
  <2>. DEFINE n == Len(wire)
  <2>1. /\ recovery = "submit" /\ recovery' = "wait" /\ Send("sub", req_copy, Recovery)
        /\ UNCHANGED <<link, req_copy, broker>>
    BY Zenon, <1>5 DEF SubmitAll
  <2>2. [op |-> "sub", filters |-> req_copy, from |-> Recovery] \in Operations
        /\ wire \in Seq(Operations)
    BY Zenon DEF Operations, SubsTypeOK
  <2>3. /\ n \in Nat /\ DOMAIN wire = 1 .. n /\ DOMAIN wire' = 1 .. n + 1
        /\ \A i \in 1 .. n : wire'[i] = wire[i]
        /\ wire'[n + 1] = [op |-> "sub", filters |-> req_copy, from |-> Recovery]
    BY <2>1, <2>2 DEF Send
  <2>. HIDE DEF n
  <2>4. LinkInv'
    BY Zenon, <2>1 DEF BrokerInv, LinkInv
  <2>5. \A i \in 1 .. n : wire[i].from # Recovery
    BY Zenon, <2>1, <2>3 DEF BrokerInv, SendersInv
  <2>6. SendersInv'
    <3>. SUFFICES ASSUME NEW i \in 1 .. n + 1
                  PROVE  /\ wire'[i].from \in Subs =>
                              /\ wire'[i].filters = {Filter[wire'[i].from]}
                              /\ at[wire'[i].from] = IF wire'[i].op = "sub" THEN "submitted"
                                                                            ELSE "cancelled"
                         /\ wire'[i].op = "unsub" =>
                              \E t \in Subs : wire'[i].filters = {Filter[t]}
                         /\ wire'[i].from = Recovery =>
                              wire'[i].op = "sub" /\ wire'[i].filters = req_copy
      BY Zenon, <1>1, <2>1, <2>3 DEF SendersInv
    <3>1. CASE i = n + 1
      BY SMTT(30), <2>3, <3>1, SenderAssumption
    <3>2. CASE i \in 1 .. n
      BY SMTT(30), <2>3, <3>2 DEF BrokerInv, SendersInv
    <3>. QED BY SMTT(30), <2>3, <3>1, <3>2
  <2>7. SentOnce'
    <3>. SUFFICES ASSUME NEW i \in 1 .. n + 1, NEW j \in 1 .. n + 1,
                         wire'[i].from = wire'[j].from, wire'[i].from # Nobody
                  PROVE  i = j
      BY Zenon, <2>3 DEF SentOnce
    <3>1. CASE i \in 1 .. n /\ j \in 1 .. n
      BY Zenon, <2>3, <3>1 DEF BrokerInv, SentOnce
    <3>2. CASE i = n + 1 \/ j = n + 1
      BY SMTT(30), <2>3, <2>5, <3>2
    <3>. QED BY SMTT(30), <2>3, <3>1, <3>2
  <2>8. CancelsAreOver'
    <3>. SUFFICES ASSUME NEW t \in Subs, NEW i \in 1 .. n + 1,
                         wire'[i].op = "unsub", Filter[t] \in wire'[i].filters
                  PROVE  /\ at[t] \notin InUse
                         /\ at[t] = "submitted" =>
                              \A j \in 1 .. n + 1 : wire'[j].from = t => i < j
      BY Zenon, <1>1, <2>3 DEF CancelsAreOver
    <3>1. i \in 1 .. n /\ wire'[i] = wire[i] /\ i < n + 1
      BY SMTT(30), <2>3
    <3>2. at[t] \notin InUse /\ (at[t] = "submitted" =>
                                   \A j \in DOMAIN wire : wire[j].from = t => i < j)
      BY Zenon, <2>3, <3>1 DEF BrokerInv, CancelsAreOver
    <3>. QED BY SMTT(30), <2>3, <3>1, <3>2
  <2>9. ServedInv'
    BY Zenon, <1>1, <2>1 DEF BrokerInv, ServedInv
  <2>. QED BY Zenon, <2>4, <2>6, <2>7, <2>8, <2>9 DEF BrokerInv
<1>. QED BY Zenon, <1>2, <1>3, <1>4, <1>5 DEF RecoveryStep

\* Every step keeps the operations on their way and the broker as they should
\* be, if no two readers have the same filter.
LEMMA BrokerStep ==
    OwnFilter /\ SubsTypeOK /\ RegistryInv /\ BrokerInv /\ [Next]_vars => BrokerInv'
<1>. SUFFICES ASSUME OwnFilter, SubsTypeOK, RegistryInv, BrokerInv, [Next]_vars
              PROVE  BrokerInv'
  BY Zenon
<1>1. CASE UNCHANGED <<at, session>>
  BY Zenon, <1>1 DEF session, BrokerInv, LinkInv, SendersInv, SentOnce, CancelsAreOver, ServedInv
<1>2. ASSUME NEW s \in Subs, AddSubscription(s) \/ CreateRequests(s) \/ DeleteRequests(s)
                             \/ RemoveSubscription(s) \/ DeleteSubscription(s) \/ Unsubscribe(s)
      PROVE  BrokerInv'
  <2>1. /\ UNCHANGED session
        /\ at[s] \in {"idle", "added", "delete_requests", "remove", "free", "active"}
        /\ \E place \in {"idle", "added", "created", "remove", "free", "cancel"} : Go(s, place)
    BY Zenon, <1>2 DEF AddSubscription, CreateRequests, DeleteRequests, RemoveSubscription,
         DeleteSubscription, Unsubscribe
  <2>2. ~Sent(s)
    BY Zenon, <2>1, SentWaits
  <2>. QED BY Zenon, <2>1, <2>2, QuietMove DEF InUse
<1>3. ASSUME NEW s \in Subs, SetListener(s) PROVE BrokerInv'
  <2>1. at[s] = "subscribed" /\ UNCHANGED session /\ (UNCHANGED at \/ Go(s, "active"))
    BY Zenon, <1>3 DEF SetListener
  <2>2. ~Sent(s)
    BY Zenon, <2>1, SentWaits
  <2>. QED BY Zenon, <1>1, <2>1, <2>2, QuietMove DEF InUse
<1>4. ASSUME NEW s \in Subs, OperationLost(s) PROVE BrokerInv'
  <2>1. /\ ~Sent(s) /\ Go(s, "delete_requests") /\ UNCHANGED session
    BY Zenon, <1>4, SenderAssumption DEF OperationLost, Answered, FailSubscribe, session
  <2>. QED BY Zenon, <2>1, QuietMove DEF InUse
<1>5. ASSUME NEW s \in Subs, Submit(s) \/ Cancel(s) PROVE BrokerInv'
  BY Zenon, <1>5, RequestKeeps
<1>6. ASSUME NEW s \in Subs, SubmitTimesOut(s) \/ CancelTimesOut(s) PROVE BrokerInv'
  BY Zenon, <1>6, TimeOutKeeps
<1>7. ASSUME NEW s \in Subs, Read(s) PROVE BrokerInv'
  BY Zenon, <1>1, <1>7 DEF Read
<1>8. ASSUME NEW f \in Filters, MessageArrives(f) PROVE BrokerInv'
  BY Zenon, <1>1, <1>8 DEF MessageArrives
<1>9. ASSUME NEW ok \in BOOLEAN, Serve(ok) PROVE BrokerInv'
  BY Zenon, <1>9, ServeKeeps
<1>10. CASE RecoveryStep \/ LinkLost
  BY Zenon, <1>10, RecoveryKeeps
<1>11. CASE UNCHANGED vars
  BY Zenon, <1>1, <1>11 DEF vars, session
<1>. QED BY Zenon, <1>2, <1>3, <1>4, <1>5, <1>6, <1>7, <1>8, <1>9, <1>10, <1>11
            DEF Next, ReaderStep

\* If no two readers have the same filter, then whatever timeouts, refusals and
\* lost connections there were, the broker has the filter of every reader in
\* use when the connection is up and resubmission is over (Client.c:1118-1123).
THEOREM ActiveOnBroker ==
    ASSUME OwnFilter
    PROVE  Spec => []ActiveIsOnBroker
<1>1. Init => BrokerInv
  BY DEF Init, BrokerInv, LinkInv, SendersInv, SentOnce, CancelsAreOver, ServedInv, InUse
<1>2. BrokerInv => ActiveIsOnBroker
  BY Zenon DEF BrokerInv, ServedInv, ActiveIsOnBroker, InUse
<1>3. SubsTypeOK /\ RegistryInv /\ BrokerInv /\ [Next]_vars => BrokerInv'
  BY Zenon, BrokerStep
<1>. QED BY <1>1, <1>2, <1>3, RegistryInvariant, PTL DEF Spec

============================================================================
