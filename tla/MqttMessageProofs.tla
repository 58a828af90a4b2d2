------------------------- MODULE MqttMessageProofs --------------------------
(***************************************************************************)
(* The messages of the MQTT client.  First the remainder operation that    *)
(* wraps the unsigned counters, and what the updates of the counters       *)
(* preserve, for every width of the counters; then the circular receive    *)
(* queue, for every size of its ring; the queue that grows, for any number *)
(* of messages and reads of any size; and the messages that Publication    *)
(* sends, for any number in flight.                                        *)
(***************************************************************************)
EXTENDS CircularReceiveQueue, UnboundedReceiveQueue, Publication, MessageStatus,
        SequenceTheorems, TLAPS

-----------------------------------------------------------------------------
(* Remainders. *)

\* A multiple adds nothing to a remainder.
LEMMA RemainderOfSum ==
    ASSUME NEW m \in Nat \ {0}, NEW q \in Int, NEW r \in 0 .. m - 1
    PROVE  (m * q + r) % m = r
  OBVIOUS

\* Every number has a quotient and a remainder.
LEMMA QuotientExists ==
    ASSUME NEW m \in Nat \ {0}, NEW x \in Int
    PROVE  \E q \in Int, r \in 0 .. m - 1 : x = m * q + r /\ x % m = r
<1>1. x = m * (x \div m) + (x % m)
  OBVIOUS
<1>2. x % m \in 0 .. m - 1 /\ x \div m \in Int
  OBVIOUS
<1> QED
  BY Zenon, <1>1, <1>2

\* Multiplication distributes.
LEMMA Distribute ==
    ASSUME NEW m \in Int, NEW q \in Int, NEW p \in Int
    PROVE  m * (q + p) = m * q + m * p /\ m * q \in Int /\ m * p \in Int
  OBVIOUS

\* An intermediate remainder does not change the remainder of a sum.
LEMMA RemainderInSum ==
    ASSUME NEW m \in Nat \ {0}, NEW x \in Int, NEW y \in Int
    PROVE  ((x % m) + y) % m = (x + y) % m
<1>1. PICK q \in Int, s \in 0 .. m - 1 : x = m * q + s /\ x % m = s
  BY Zenon, QuotientExists
<1>2. s + y \in Int
  OBVIOUS
<1>3. PICK p \in Int, r \in 0 .. m - 1 : s + y = m * p + r /\ (s + y) % m = r
  BY Zenon, QuotientExists, <1>2
<1>4. /\ m * (q + p) = m * q + m * p
      /\ m * q \in Int /\ m * p \in Int /\ q + p \in Int
  BY Distribute
<1>5. x + y = m * (q + p) + r
  BY <1>1, <1>3, <1>4
<1>6. (m * (q + p) + r) % m = r
  BY Zenon, RemainderOfSum, <1>4
<1> QED
  BY Zenon, <1>1, <1>3, <1>5, <1>6

\* Wrapping early does not change what a sum wraps to.
LEMMA WrapInSum ==
    ASSUME NEW x \in Int, NEW y \in Int
    PROVE  Wrap(Wrap(x) + y) = Wrap(x + y)
  BY Zenon, RemainderInSum, ModulusAssumption DEF Wrap

\* A wrapped number is a counter, and a counter wraps to itself.
LEMMA WrapType ==
    /\ \A x \in Int : Wrap(x) \in Counter /\ Wrap(x) \in Int
    /\ \A x \in Counter : Wrap(x) = x
    /\ Counter \subseteq Nat
  BY ModulusAssumption DEF Wrap, Counter

-----------------------------------------------------------------------------
(* The counters of a subscription. *)

\* The counters start balanced.
LEMMA NoMessagesBalanced == NoMessages \in Status /\ Balanced(NoMessages)
<1>1. 0 \in Counter
  BY ModulusAssumption DEF Counter
<1> QED
  BY <1>1, WrapType DEF NoMessages, Status, Balanced

\* The balance after one more message, which may push another one out.
LEMMA OneMore ==
    ASSUME NEW u \in Counter, NEW d \in Counter, NEW l \in Counter
    PROVE  /\ Wrap(Wrap(u + d + l) + 1) = Wrap(Wrap(u + 1) + d + l)
           /\ Wrap(Wrap(u + d + l) + 1) = Wrap(u + d + Wrap(l + 1))
           /\ Wrap(Wrap(u + 1) - 1) = u
<1>1. u \in Int /\ d \in Int /\ l \in Int
  BY DEF Counter
<1>2. Wrap(u + 1) \in Int /\ Wrap(l + 1) \in Int
  BY <1>1, WrapType
<1>3. Wrap(Wrap(u + d + l) + 1) = Wrap(u + d + l + 1)
  BY <1>1, WrapInSum
<1>4. Wrap(Wrap(u + 1) + (d + l)) = Wrap((u + 1) + (d + l))
  BY <1>1, WrapInSum
<1>5. Wrap(Wrap(l + 1) + (u + d)) = Wrap((l + 1) + (u + d))
  BY <1>1, WrapInSum
<1>6. Wrap(Wrap(u + 1) + (-1)) = Wrap((u + 1) + (-1))
  BY <1>1, WrapInSum
<1>7. /\ (u + 1) + (d + l) = u + d + l + 1
      /\ (l + 1) + (u + d) = u + d + l + 1
      /\ (u + 1) + (-1) = u
  BY <1>1
<1>8. /\ Wrap(u + 1) + (d + l) = Wrap(u + 1) + d + l
      /\ Wrap(l + 1) + (u + d) = u + d + Wrap(l + 1)
      /\ Wrap(u + 1) + (-1) = Wrap(u + 1) - 1
  BY <1>1, <1>2
<1> QED
  BY Zenon, <1>3, <1>4, <1>5, <1>6, <1>7, <1>8, WrapType

\* The balance after n messages moved from one counter to another.
LEMMA Moved ==
    ASSUME NEW u \in Counter, NEW d \in Counter, NEW l \in Counter, NEW n \in Int
    PROVE  Wrap(Wrap(u - n) + Wrap(d + n) + l) = Wrap(u + d + l)
<1>1. u \in Int /\ d \in Int /\ l \in Int
  BY DEF Counter
<1>2. Wrap(u - n) \in Int /\ Wrap(d + n) \in Int
  BY <1>1, WrapType
<1>3. Wrap(Wrap(u - n) + (Wrap(d + n) + l)) = Wrap((u - n) + (Wrap(d + n) + l))
  BY <1>1, <1>2, WrapInSum
<1>4. Wrap(Wrap(d + n) + (u - n + l)) = Wrap((d + n) + (u - n + l))
  BY <1>1, WrapInSum
<1>5. /\ Wrap(u - n) + Wrap(d + n) + l = Wrap(u - n) + (Wrap(d + n) + l)
      /\ (u - n) + (Wrap(d + n) + l) = Wrap(d + n) + (u - n + l)
      /\ (d + n) + (u - n + l) = u + d + l
  BY <1>1, <1>2
<1> QED
  BY Zenon, <1>3, <1>4, <1>5

\* receive() counts a message, and the one it pushes out, without upsetting
\* the balance of the counters.
LEMMA CountReceivedBalanced ==
    ASSUME NEW s \in Status, Balanced(s), NEW lost \in BOOLEAN
    PROVE  CountReceived(s, lost) \in Status /\ Balanced(CountReceived(s, lost))
<1>1. /\ s.received_count \in Counter /\ s.unread_count \in Counter
      /\ s.read_count \in Counter /\ s.lost_count \in Counter
  BY Zenon DEF Status
<1>2. /\ Wrap(s.received_count + 1) \in Counter
      /\ Wrap(s.unread_count + 1) \in Counter
      /\ Wrap(s.lost_count + 1) \in Counter
  BY <1>1, WrapType DEF Counter
<1>3. CASE lost
  <2>1. CountReceived(s, lost) = [s EXCEPT !.received_count = Wrap(@ + 1),
                                           !.unread_count = s.unread_count,
                                           !.lost_count = Wrap(@ + 1)]
    BY Zenon, <1>1, <1>3, OneMore DEF CountReceived
  <2>2. [received_count |-> Wrap(s.received_count + 1),
         unread_count |-> s.unread_count, read_count |-> s.read_count,
         lost_count |-> Wrap(s.lost_count + 1)] = CountReceived(s, lost)
    BY Zenon, <2>1 DEF Status
  <2>3. CountReceived(s, lost) \in Status
    BY <1>1, <1>2, <2>2 DEF Status
  <2>4. Wrap(s.received_count + 1) =
            Wrap(s.unread_count + s.read_count + Wrap(s.lost_count + 1))
    BY <1>1, OneMore DEF Balanced
  <2> QED
    BY <2>2, <2>3, <2>4 DEF Balanced
<1>4. CASE ~lost
  <2>1. CountReceived(s, lost) = [s EXCEPT !.received_count = Wrap(@ + 1),
                                           !.unread_count = Wrap(@ + 1),
                                           !.lost_count = @]
    BY Zenon, <1>4 DEF CountReceived
  <2>2. [received_count |-> Wrap(s.received_count + 1),
         unread_count |-> Wrap(s.unread_count + 1), read_count |-> s.read_count,
         lost_count |-> s.lost_count] = CountReceived(s, lost)
    BY Zenon, <2>1 DEF Status
  <2>3. CountReceived(s, lost) \in Status
    BY <1>1, <1>2, <2>2 DEF Status
  <2>4. Wrap(s.received_count + 1) =
            Wrap(Wrap(s.unread_count + 1) + s.read_count + s.lost_count)
    BY <1>1, OneMore DEF Balanced
  <2> QED
    BY <2>2, <2>3, <2>4 DEF Balanced
<1> QED
  BY Zenon, <1>3, <1>4

\* read() moves n messages from unread to read.
LEMMA CountReadBalanced ==
    ASSUME NEW s \in Status, Balanced(s), NEW n \in Int
    PROVE  CountRead(s, n) \in Status /\ Balanced(CountRead(s, n))
<1>1. /\ s.received_count \in Counter /\ s.unread_count \in Counter
      /\ s.read_count \in Counter /\ s.lost_count \in Counter
  BY Zenon DEF Status
<1>2. Wrap(s.unread_count - n) \in Counter /\ Wrap(s.read_count + n) \in Counter
  BY <1>1, WrapType DEF Counter
<1>3. [received_count |-> s.received_count,
       unread_count |-> Wrap(s.unread_count - n),
       read_count |-> Wrap(s.read_count + n), lost_count |-> s.lost_count]
      = CountRead(s, n)
  <2>1. CountRead(s, n) = [s EXCEPT !.unread_count = Wrap(s.unread_count - n),
                                    !.read_count = Wrap(s.read_count + n)]
    BY Zenon DEF CountRead
  <2> QED
    BY Zenon, <1>1, <2>1 DEF Status
<1>4. CountRead(s, n) \in Status
  BY <1>1, <1>2, <1>3 DEF Status
<1>5. s.received_count =
          Wrap(Wrap(s.unread_count - n) + Wrap(s.read_count + n) + s.lost_count)
  BY <1>1, Moved DEF Balanced
<1>6. /\ CountRead(s, n).received_count = s.received_count
      /\ CountRead(s, n).unread_count = Wrap(s.unread_count - n)
      /\ CountRead(s, n).read_count = Wrap(s.read_count + n)
      /\ CountRead(s, n).lost_count = s.lost_count
  BY <1>3
<1> QED
  BY Zenon, <1>4, <1>5, <1>6 DEF Balanced

\* The updates keep the counters counters.
LEMMA CountReceivedType ==
    ASSUME NEW s \in Status, NEW lost \in BOOLEAN
    PROVE  CountReceived(s, lost) \in Status
<1>1. /\ Wrap(s.received_count + 1) \in Counter
      /\ Wrap(s.unread_count + 1) \in Counter
      /\ Wrap(Wrap(s.unread_count + 1) - 1) \in Counter
      /\ Wrap(s.lost_count + 1) \in Counter
  BY WrapType DEF Status, Counter
<1> QED
  BY Zenon, <1>1 DEF CountReceived, Status

\* Counting reads keeps the counters in range.
LEMMA CountReadType ==
    ASSUME NEW s \in Status, NEW n \in Int
    PROVE  CountRead(s, n) \in Status
<1>1. Wrap(s.unread_count - n) \in Counter /\ Wrap(s.read_count + n) \in Counter
  BY WrapType DEF Status, Counter
<1> QED
  BY Zenon, <1>1 DEF CountRead, Status

\* Counting losses keeps the counters in range.
LEMMA CountLostType ==
    ASSUME NEW s \in Status, NEW n \in Int
    PROVE  CountLost(s, n) \in Status
<1>1. Wrap(s.lost_count + n) \in Counter
  BY WrapType DEF Status, Counter
<1> QED
  BY Zenon, <1>1 DEF CountLost, Status

-----------------------------------------------------------------------------
(* The backlog of a receive queue, a message being named by its arrival    *)
(* number.                                                                 *)

\* The latest n of a arrivals, oldest first.
Latest(n, a) == [i \in 1 .. n |-> a - n + i]

\* The latest n of a messages are numbered a - n + 1 to a.
LEMMA LatestType ==
    ASSUME NEW n \in Nat, NEW a \in Nat, n <= a
    PROVE  /\ Latest(n, a) \in Seq(Nat) /\ Len(Latest(n, a)) = n
           /\ DOMAIN Latest(n, a) = 1 .. n
           /\ \A i \in 1 .. n : Latest(n, a)[i] = a - n + i
<1>1. \A i \in 1 .. n : a - n + i \in Nat
  OBVIOUS
<1>. QED BY <1>1 DEF Latest

\* Only they are.
LEMMA IsLatest ==
    ASSUME NEW n \in Nat, NEW a \in Nat, n <= a, NEW s \in Seq(Nat), Len(s) = n,
           \A i \in 1 .. n : s[i] = a - n + i
    PROVE  s = Latest(n, a)
  BY LatestType, SeqEqual

\* An arrival joins the backlog ...
LEMMA LatestAppend ==
    ASSUME NEW n \in Nat, NEW a \in Nat, n <= a
    PROVE  Append(Latest(n, a), a + 1) = Latest(n + 1, a + 1)
<1>. DEFINE s == Append(Latest(n, a), a + 1)
<1>1. /\ s \in Seq(Nat) /\ Len(s) = n + 1
      /\ \A i \in 1 .. n : s[i] = a - n + i
      /\ s[n + 1] = a + 1
  <2>1. a + 1 \in Nat
    OBVIOUS
  <2>2. /\ Latest(n, a) \in Seq(Nat) /\ Len(Latest(n, a)) = n
        /\ \A i \in 1 .. n : Latest(n, a)[i] = a - n + i
    BY Zenon, LatestType
  <2>3. /\ s \in Seq(Nat) /\ Len(s) = Len(Latest(n, a)) + 1
        /\ \A i \in 1 .. Len(Latest(n, a)) : s[i] = Latest(n, a)[i]
        /\ s[Len(Latest(n, a)) + 1] = a + 1
    BY <2>1, <2>2, AppendProperties
  <2>. QED BY Zenon, <2>2, <2>3
<1>. HIDE DEF s
<1>2. \A i \in 1 .. n + 1 : s[i] = (a + 1) - (n + 1) + i
  BY <1>1
<1>3. n + 1 \in Nat /\ a + 1 \in Nat /\ n + 1 <= a + 1
  OBVIOUS
<1>4. s = Latest(n + 1, a + 1)
  BY Zenon, <1>1, <1>2, <1>3, IsLatest
<1>. QED BY Zenon, <1>4 DEF s

\* ... and may push the oldest message out.
LEMMA LatestReplace ==
    ASSUME NEW n \in Nat \ {0}, NEW a \in Nat, n <= a
    PROVE  Append(Tail(Latest(n, a)), a + 1) = Latest(n, a + 1)
<1>. DEFINE s == Tail(Latest(n, a))
<1>1. /\ s \in Seq(Nat) /\ Len(s) = n - 1
      /\ \A i \in 1 .. n - 1 : s[i] = Latest(n, a)[i + 1]
  <2>1. Latest(n, a) \in Seq(Nat) /\ Len(Latest(n, a)) = n
    BY Zenon, LatestType
  <2>2. Latest(n, a) # <<>>
    BY Zenon, <2>1
  <2>. QED BY Zenon, <2>1, <2>2, HeadTailProperties
<1>. HIDE DEF s
<1>2. \A i \in 1 .. n - 1 : s[i] = a - (n - 1) + i
  <2>. TAKE i \in 1 .. n - 1
  <2>1. i + 1 \in 1 .. n
    OBVIOUS
  <2>2. Latest(n, a)[i + 1] = a - n + (i + 1)
    BY Zenon, <2>1, LatestType
  <2>. QED BY <1>1, <2>2
<1>3. n - 1 \in Nat /\ n - 1 <= a /\ (n - 1) + 1 = n
  OBVIOUS
<1>4. s = Latest(n - 1, a)
  BY Zenon, <1>1, <1>2, <1>3, IsLatest
<1>5. Append(Latest(n - 1, a), a + 1) = Latest(n, a + 1)
  BY Zenon, <1>3, LatestAppend
<1>. QED BY Zenon, <1>4, <1>5 DEF s

\* A read takes a prefix and leaves the rest.
LEMMA LatestSplit ==
    ASSUME NEW n \in Nat, NEW a \in Nat, n <= a, NEW k \in 0 .. n
    PROVE  /\ SubSeq(Latest(n, a), k + 1, n) = Latest(n - k, a)
           /\ SubSeq(Latest(n, a), 1, k) = Latest(k, a - n + k)
<1>0. /\ \A i \in 1 .. n : Latest(n, a)[i] = a - n + i
      /\ \A i \in 1 .. n : Latest(n, a)[i] \in Nat
  <2>1. \A i \in 1 .. n : Latest(n, a)[i] = a - n + i
    BY Zenon, LatestType
  <2>2. \A i \in 1 .. n : a - n + i \in Nat
    OBVIOUS
  <2>. QED BY Zenon, <2>1, <2>2
<1>. DEFINE rest == SubSeq(Latest(n, a), k + 1, n)
            taken == SubSeq(Latest(n, a), 1, k)
<1>1. /\ rest \in Seq(Nat) /\ Len(rest) = n - k
      /\ \A i \in 1 .. n - k : rest[i] = Latest(n, a)[k + 1 + i - 1]
  <2>1. k + 1 \in Int /\ n \in Int /\ \A i \in k + 1 .. n : Latest(n, a)[i] \in Nat
    BY <1>0
  <2>2. /\ rest \in Seq(Nat) /\ Len(rest) = IF k + 1 <= n THEN n - (k + 1) + 1 ELSE 0
        /\ \A i \in 1 .. n - (k + 1) + 1 : rest[i] = Latest(n, a)[k + 1 + i - 1]
    BY <2>1, SubSeqProperties
  <2>3. n - (k + 1) + 1 = n - k
    OBVIOUS
  <2>. QED BY <2>2, <2>3
<1>2. /\ taken \in Seq(Nat) /\ Len(taken) = k
      /\ \A i \in 1 .. k : taken[i] = Latest(n, a)[1 + i - 1]
  <2>1. 1 \in Int /\ k \in Int /\ \A i \in 1 .. k : Latest(n, a)[i] \in Nat
    BY <1>0
  <2>2. /\ taken \in Seq(Nat) /\ Len(taken) = IF 1 <= k THEN k - 1 + 1 ELSE 0
        /\ \A i \in 1 .. k - 1 + 1 : taken[i] = Latest(n, a)[1 + i - 1]
    BY <2>1, SubSeqProperties
  <2>3. k - 1 + 1 = k
    OBVIOUS
  <2>. QED BY <2>2, <2>3
<1>. HIDE DEF rest, taken
<1>3. \A i \in 1 .. n - k : rest[i] = a - (n - k) + i
  <2>. TAKE i \in 1 .. n - k
  <2>1. k + 1 + i - 1 = k + i /\ k + i \in 1 .. n
    OBVIOUS
  <2>. QED BY <1>0, <1>1, <2>1
<1>4. \A i \in 1 .. k : taken[i] = (a - n + k) - k + i
  <2>. TAKE i \in 1 .. k
  <2>1. 1 + i - 1 = i /\ i \in 1 .. n
    OBVIOUS
  <2>. QED BY SMTT(30), <1>0, <1>2, <2>1
<1>5. /\ n - k \in Nat /\ n - k <= a
      /\ k \in Nat /\ a - n + k \in Nat /\ k <= a - n + k
  OBVIOUS
<1>6. rest = Latest(n - k, a)
  BY Zenon, <1>5, <1>1, <1>3, IsLatest
<1>7. taken = Latest(k, a - n + k)
  BY Zenon, <1>2, <1>4, <1>5, IsLatest
<1>. QED BY Zenon, <1>6, <1>7 DEF rest, taken

-----------------------------------------------------------------------------
(* Arithmetic of slots. *)

\* How far slot s lies after slot i.
Dist(i, s) == IF i <= s THEN s - i ELSE s - i + Capacity

\* The slot k places on, without a remainder.
LEMMA SlotIs ==
    ASSUME NEW i \in Slots, NEW k \in 0 .. Capacity
    PROVE  /\ Slot(i, k) = IF i + k < Capacity THEN i + k ELSE i + k - Capacity
           /\ Slot(i, k) \in Slots
  BY CapacityAssumption DEF Slot, Slots

\* A slot is as many places on as Dist says.
LEMMA DistType ==
    ASSUME NEW i \in Slots, NEW s \in Slots
    PROVE  Dist(i, s) \in 0 .. Capacity - 1 /\ Slot(i, Dist(i, s)) = s
<1>1. Dist(i, s) \in 0 .. Capacity - 1
  BY CapacityAssumption DEF Dist, Slots
<1>2. Dist(i, s) \in 0 .. Capacity
  BY <1>1, CapacityAssumption
<1>3. Slot(i, Dist(i, s)) = IF i + Dist(i, s) < Capacity
                            THEN i + Dist(i, s) ELSE i + Dist(i, s) - Capacity
  BY Zenon, <1>2, SlotIs
<1> QED
  BY <1>1, <1>3, CapacityAssumption DEF Dist, Slots

\* The slot k places on is k places away.
LEMMA DistOfSlot ==
    ASSUME NEW i \in Slots, NEW k \in 0 .. Capacity - 1
    PROVE  Dist(i, Slot(i, k)) = k
<1>1. k \in 0 .. Capacity
  BY CapacityAssumption
<1>2. Slot(i, k) = IF i + k < Capacity THEN i + k ELSE i + k - Capacity
  BY Zenon, <1>1, SlotIs
<1> QED
  BY <1>2, CapacityAssumption DEF Dist, Slots

\* How far a slot is when the start moves on by n places.
LEMMA DistShift ==
    ASSUME NEW i \in Slots, NEW s \in Slots, NEW n \in 0 .. Capacity
    PROVE  \/ /\ n <= Dist(i, s)
              /\ Dist(Slot(i, n), s) = Dist(i, s) - n
           \/ /\ n > Dist(i, s)
              /\ Dist(Slot(i, n), s) = Dist(i, s) - n + Capacity
<1>1. Slot(i, n) = IF i + n < Capacity THEN i + n ELSE i + n - Capacity
  BY Zenon, SlotIs
<1> QED
  BY <1>1, CapacityAssumption DEF Dist, Slots

\* Places add up.
LEMMA SlotSum ==
    ASSUME NEW i \in Slots, NEW k \in 0 .. Capacity, NEW n \in 0 .. Capacity,
           k + n <= Capacity
    PROVE  Slot(Slot(i, k), n) = Slot(i, k + n)
<1>1. Slot(i, k) = IF i + k < Capacity THEN i + k ELSE i + k - Capacity
  BY Zenon, SlotIs
<1>2. Slot(Slot(i, k), n) = IF Slot(i, k) + n < Capacity
                            THEN Slot(i, k) + n ELSE Slot(i, k) + n - Capacity
  BY Zenon, SlotIs
<1>3. Slot(i, k + n) = IF i + (k + n) < Capacity
                       THEN i + (k + n) ELSE i + (k + n) - Capacity
  BY SlotIs, CapacityAssumption
<1> QED
  BY <1>1, <1>2, <1>3, CapacityAssumption DEF Slots

\* The slots a read visits are those less than n away.
LEMMA VisitedIs ==
    ASSUME next_unread \in Slots, NEW n \in 0 .. Capacity, NEW s \in Slots
    PROVE  s \in Visited(n) <=> Dist(next_unread, s) < n
<1>1. ASSUME s \in Visited(n) PROVE Dist(next_unread, s) < n
  <2>1. PICK i \in 0 .. n - 1 : s = Slot(next_unread, i)
    BY Zenon, <1>1 DEF Visited
  <2>2. i \in 0 .. Capacity - 1
    BY CapacityAssumption
  <2>3. Dist(next_unread, s) = i
    BY Zenon, <2>1, <2>2, DistOfSlot
  <2> QED
    BY <2>3
<1>2. ASSUME Dist(next_unread, s) < n PROVE s \in Visited(n)
  <2>1. Dist(next_unread, s) \in 0 .. n - 1 /\ Slot(next_unread, Dist(next_unread, s)) = s
    BY <1>2, DistType
  <2> QED
    BY Zenon, <2>1 DEF Visited
<1> QED
  BY Zenon, <1>1, <1>2

-----------------------------------------------------------------------------
(* What holds as long as no copy has failed: every slot is determined by the *)
(* indices and the number of arrivals.                                       *)

RingInv ==
    /\ TypeOK
    /\ failures = 0
    /\ size <= arrivals
    /\ next = Slot(next_unread, size)
    /\ head % Capacity = next_unread
    /\ \A s \in Slots :
          queue[s] = IF Dist(next_unread, s) < size
                     THEN arrivals - size + 1 + Dist(next_unread, s)
                     ELSE NULL
    /\ msg_status.unread_count = size

\* The invariant has what the properties ask for.
LEMMA RingInvImplies == RingInv => RingConsistent /\ BacklogIsLatest
<1> SUFFICES ASSUME RingInv PROVE RingConsistent /\ BacklogIsLatest
  BY Zenon
<1> USE CapacityAssumption, NullAssumption DEF RingInv, TypeOK
<1>1. ASSUME NEW s \in Slots PROVE queue[s] # NULL <=> s \in Visited(size)
  <2>1. Dist(next_unread, s) \in Nat
    BY DistType
  <2>2. arrivals - size + 1 + Dist(next_unread, s) \in Nat
    BY <2>1
  <2> QED
    BY Zenon, <2>2, VisitedIs
<1>2. ASSUME NEW i \in 0 .. size - 1
      PROVE  queue[Slot(next_unread, i)] = arrivals - size + 1 + i
  <2>1. i \in 0 .. Capacity - 1 /\ i \in 0 .. Capacity
    OBVIOUS
  <2> QED
    BY <2>1, DistOfSlot, SlotIs
<1> QED
  BY Zenon, <1>1, <1>2 DEF RingConsistent, BacklogIsLatest

\* How far the read loop gets: over all messages, unless the ring is full.
LEMMA ReachIs == RingInv => Reach = IF size < Capacity THEN size ELSE 0
<1> SUFFICES ASSUME RingInv
             PROVE  Reach = IF size < Capacity THEN size ELSE 0
  BY Zenon
<1>1. next = IF next_unread + size < Capacity
             THEN next_unread + size ELSE next_unread + size - Capacity
  BY Zenon, SlotIs DEF RingInv, TypeOK
<1> QED
  BY <1>1, CapacityAssumption DEF Reach, RingInv, TypeOK, Slots

\* Small numbers do not wrap.
LEMMA SmallIsCounter == \A n \in 0 .. Capacity : n \in Counter /\ Wrap(n) = n
  BY WidthAssumption, CapacityAssumption, ModulusAssumption, WrapType DEF Counter

\* Adding to an index before or after it is brought back into the ring.
LEMMA SlotOfIndex ==
    ASSUME NEW h \in Nat, NEW n \in Nat
    PROVE  /\ (h + n) % Capacity = Slot(h % Capacity, n)
           /\ Slot(h, n) \in Nat
           /\ Slot(h, n) % Capacity = Slot(h % Capacity, n)
<1>1. (h + n) % Capacity = Slot(h % Capacity, n)
  <2>1. h \in Int /\ n \in Int
    OBVIOUS
  <2>2. ((h % Capacity) + n) % Capacity = (h + n) % Capacity
    BY <2>1, RemainderInSum, CapacityAssumption, Zenon
  <2> QED
    BY <2>2, Zenon DEF Slot
<1>2. (h + n) % Capacity \in 0 .. Capacity - 1
  BY CapacityAssumption
<1>3. ((h + n) % Capacity) % Capacity = (h + n) % Capacity
  BY <1>2, CapacityAssumption
<1> QED
  BY <1>1, <1>2, <1>3, CapacityAssumption DEF Slot

\* The ring starts empty.
LEMMA InitRing == Init => RingInv
<1> SUFFICES ASSUME Init PROVE RingInv
  BY Zenon
<1> USE CapacityAssumption DEF Init
<1>1. 0 \in Slots /\ Slot(0, 0) = 0 /\ 0 % Capacity = 0
  BY SlotIs DEF Slots
<1>2. \A s \in Slots : Dist(0, s) \in Nat
  BY <1>1, DistType
<1>3. TypeOK
  BY <1>1, NoMessagesBalanced DEF TypeOK
<1> QED
  BY <1>1, <1>2, <1>3 DEF RingInv, NoMessages

\* A message arrives while the ring has room.
LEMMA ReceiveRoom == RingInv /\ Receive /\ size < Capacity => RingInv'
<1> SUFFICES ASSUME RingInv, Receive, size < Capacity PROVE RingInv'
  BY Zenon
<1> USE CapacityAssumption, NullAssumption DEF RingInv, TypeOK
<1>1. /\ next \in Slots /\ next_unread \in Slots
      /\ Dist(next_unread, next) = size
  BY DistOfSlot, SlotIs
<1>2. queue[next] = NULL
  BY <1>1
<1>3. /\ arrivals' = arrivals + 1 /\ size' = size + 1 /\ head' = head
      /\ queue' = [queue EXCEPT ![next] = arrivals + 1]
      /\ next' = Slot(next, 1) /\ next_unread' = next_unread
      /\ UNCHANGED <<read_buffer, read_buffer_loaned, failures, misread>>
  BY Zenon, <1>2 DEF Receive, AdvanceFull
<1>4. msg_status' = CountReceived(msg_status, FALSE)
  BY <1>2, Zenon DEF Receive
<1>5. next' = Slot(next_unread, size + 1) /\ next' \in Slots
  BY <1>1, <1>3, SlotSum, SlotIs
<1>6. ASSUME NEW s \in Slots
      PROVE  queue'[s] = IF Dist(next_unread', s) < size'
                         THEN arrivals' - size' + 1 + Dist(next_unread', s)
                         ELSE NULL
  <2>1. s = next <=> Dist(next_unread, s) = size
    BY <1>1, DistType
  <2>2. Dist(next_unread, s) \in Nat
    BY <1>1, DistType
  <2> QED
    BY <1>3, <2>1, <2>2
<1>7. msg_status' \in Status /\ msg_status'.unread_count = size + 1
  <2>1. msg_status' \in Status
    BY Zenon, <1>4, CountReceivedType
  <2>2. msg_status'.unread_count = Wrap(msg_status.unread_count + 1)
    BY Zenon, <1>4 DEF CountReceived, Status
  <2> QED
    BY <2>1, <2>2, SmallIsCounter
<1>8. queue' \in [Slots -> Message \cup {NULL}]
  BY <1>3 DEF Message
<1>9. TypeOK'
  BY <1>3, <1>5, <1>7, <1>8
<1> QED
  BY <1>3, <1>5, <1>6, <1>7, <1>9

\* A message arrives and the ring is full: the oldest one is lost.
LEMMA ReceiveFull == RingInv /\ Receive /\ size = Capacity => RingInv'
<1> SUFFICES ASSUME RingInv, Receive, size = Capacity PROVE RingInv'
  BY Zenon
<1> USE CapacityAssumption, NullAssumption DEF RingInv, TypeOK
<1>1. next = next_unread /\ next_unread \in Slots
  BY SlotIs DEF Slots
<1>2. \A s \in Slots : /\ Dist(next_unread, s) \in 0 .. Capacity - 1
                       /\ queue[s] = arrivals - size + 1 + Dist(next_unread, s)
  BY <1>1, DistType
<1>3. queue[next] # NULL
  <2>1. arrivals - size + 1 + Dist(next_unread, next) \in Nat
    BY <1>1, <1>2
  <2> QED
    BY Zenon, <1>1, <1>2, <2>1
<1>4. /\ arrivals' = arrivals + 1 /\ size' = size
      /\ head' \in {Slot(head, 1), head + 1}
      /\ queue' = [queue EXCEPT ![next] = arrivals + 1]
      /\ next' = Slot(next, 1) /\ next_unread' = Slot(next_unread, 1)
      /\ UNCHANGED <<read_buffer, read_buffer_loaned, failures, misread>>
  BY <1>3 DEF Receive, AdvanceFull
<1>5. msg_status' = CountReceived(msg_status, TRUE)
  BY <1>3, Zenon DEF Receive
<1>6. next_unread' \in Slots /\ next' = Slot(next_unread', size)
  BY <1>1, <1>4, SlotIs DEF Slots
<1>7. head' \in Nat /\ head' % Capacity = next_unread'
  <2>1. /\ Slot(head, 1) \in Nat /\ Slot(head, 1) % Capacity = next_unread'
        /\ (head + 1) % Capacity = next_unread'
    BY Zenon, <1>4, SlotOfIndex
  <2> QED
    BY <1>4, <2>1
<1>8. ASSUME NEW s \in Slots
      PROVE  queue'[s] = IF Dist(next_unread', s) < size'
                         THEN arrivals' - size' + 1 + Dist(next_unread', s)
                         ELSE NULL
  <2>1. s = next <=> Dist(next_unread, s) = 0
    BY <1>1 DEF Dist, Slots
  <2>2. Dist(next_unread', s) = IF Dist(next_unread, s) = 0 THEN Capacity - 1
                                ELSE Dist(next_unread, s) - 1
    BY SMTT(30), <1>1, <1>2, <1>4, DistShift
  <2>3. CASE s = next
    BY <1>1, <1>4, <2>1, <2>2, <2>3
  <2>4. CASE s # next
    <3>1. queue'[s] = arrivals - size + 1 + Dist(next_unread, s)
      BY Zenon, <1>2, <1>4, <2>4
    <3>2. /\ Dist(next_unread', s) = Dist(next_unread, s) - 1
          /\ Dist(next_unread, s) \in 1 .. Capacity - 1
      BY <1>2, <2>1, <2>2, <2>4
    <3> QED
      BY <1>4, <3>1, <3>2
  <2> QED
    BY Zenon, <2>3, <2>4
<1>9. msg_status' \in Status /\ msg_status'.unread_count = size
  <2>1. msg_status' \in Status
    BY Zenon, <1>5, CountReceivedType
  <2>2. msg_status'.unread_count = Wrap(Wrap(msg_status.unread_count + 1) - 1)
    BY Zenon, <1>5 DEF CountReceived, Status
  <2>3. msg_status.unread_count \in Counter
    BY Zenon DEF Status
  <2>4. Wrap(Wrap(msg_status.unread_count + 1) - 1) = msg_status.unread_count
    BY Zenon, <2>3, OneMore
  <2> QED
    BY Zenon, <2>1, <2>2, <2>4
<1>10. queue' \in [Slots -> Message \cup {NULL}]
  BY <1>4 DEF Message
<1>11. TypeOK'
  BY <1>1, <1>4, <1>6, <1>7, <1>9, <1>10, SlotIs
<1> QED
  BY <1>4, <1>6, <1>7, <1>8, <1>9, <1>11

\* The bookkeeping of a read that takes n of the messages that wait.
LEMMA ConsumeRing ==
    ASSUME RingInv, NEW n \in 1 .. size, Consume(n),
           UNCHANGED <<next, arrivals, failures, misread>>,
           read_buffer' \in Seq(Message \cup {NULL}),
           read_buffer_loaned' \in BOOLEAN
    PROVE  RingInv'
<1> USE CapacityAssumption DEF RingInv, TypeOK
<1>1. n \in 0 .. Capacity /\ n \in Nat /\ size - n \in 0 .. Capacity
  OBVIOUS
<1>2. /\ queue' = Cleared(n) /\ next_unread' = Slot(next_unread, n)
      /\ size' = size - n /\ head' = Slot(head, n)
      /\ msg_status' = CountRead(msg_status, n)
  BY Zenon DEF Consume
<1>3. next_unread' \in Slots /\ next' = Slot(next_unread', size')
  BY <1>1, <1>2, SlotIs, SlotSum
<1>4. head' \in Nat /\ head' % Capacity = next_unread'
  BY Zenon, <1>1, <1>2, SlotOfIndex
<1>5. ASSUME NEW s \in Slots
      PROVE  queue'[s] = IF Dist(next_unread', s) < size'
                         THEN arrivals' - size' + 1 + Dist(next_unread', s)
                         ELSE NULL
  <2>1. Dist(next_unread, s) \in 0 .. Capacity - 1
    BY Zenon, DistType
  <2>2. next_unread \in Slots
    BY Zenon
  <2>3. \/ /\ n <= Dist(next_unread, s)
           /\ Dist(next_unread', s) = Dist(next_unread, s) - n
        \/ /\ n > Dist(next_unread, s)
           /\ Dist(next_unread', s) = Dist(next_unread, s) - n + Capacity
    BY <1>1, <1>2, <2>2, DistShift
  <2>4. queue'[s] = IF Dist(next_unread, s) < n THEN NULL ELSE queue[s]
    BY Zenon, <1>1, <1>2, VisitedIs DEF Cleared
  <2>5. CASE Dist(next_unread, s) < n
    <3>1. Dist(next_unread', s) = Dist(next_unread, s) - n + Capacity
      BY <1>1, <2>1, <2>5, <2>3
    <3> QED
      BY SMTT(30), <1>1, <1>2, <2>1, <2>4, <2>5, <3>1
  <2>6. CASE n <= Dist(next_unread, s)
    <3>1. Dist(next_unread', s) = Dist(next_unread, s) - n
      BY <1>1, <2>1, <2>6, <2>3
    <3>2. queue'[s] = queue[s]
      BY <1>1, <2>1, <2>4, <2>6
    <3> QED
      BY <1>1, <1>2, <2>1, <3>1, <3>2
  <2> QED
    BY <1>1, <2>1, <2>5, <2>6
<1>6. msg_status' \in Status /\ msg_status'.unread_count = size'
  <2>1. msg_status' \in Status
    BY <1>1, <1>2, CountReadType
  <2>2. msg_status'.unread_count = Wrap(msg_status.unread_count - n)
    BY Zenon, <1>2 DEF CountRead, Status
  <2> QED
    BY Zenon, <1>1, <1>2, <2>1, <2>2, SmallIsCounter
<1>7. queue' \in [Slots -> Message \cup {NULL}]
  BY Zenon, <1>2 DEF Cleared
<1>8. TypeOK'
  BY Zenon, <1>1, <1>2, <1>3, <1>4, <1>6, <1>7
<1> QED
  BY <1>1, <1>2, <1>3, <1>4, <1>5, <1>6, <1>8

\* What a read takes is there.
LEMMA CountIs ==
    ASSUME RingInv, NEW max \in Nat, Count(max) > 0
    PROVE  Count(max) \in 1 .. size
<1>1. Reach = IF size < Capacity THEN size ELSE 0
  BY Zenon, ReachIs
<1> QED
  BY <1>1, CapacityAssumption DEF Count, RingInv, TypeOK

\* A slot that a read reaches is not empty, so a copy that fails is one of
\* the failures.
LEMMA FailureCounted ==
    ASSUME RingInv, NEW max \in CopySizes, NEW k \in 0 .. max - 1, ReadCopyFails(max, k)
    PROVE  failures' > 0
<1>1. max \in Nat /\ k \in Nat /\ k < Count(max)
  BY CopyAssumption DEF ReadCopyFails
<1>2. Count(max) \in 1 .. size
  <2>1. Count(max) \in Int
    BY <1>1, ReachIs, CapacityAssumption DEF Count, RingInv, TypeOK
  <2> QED
    BY <1>1, <2>1, CountIs
<1>3. k \in 0 .. size - 1 /\ k \in 0 .. Capacity - 1 /\ k \in 0 .. Capacity
  BY <1>1, <1>2, CapacityAssumption DEF RingInv, TypeOK
<1>4. queue[Slot(next_unread, k)] = arrivals - size + 1 + k
  BY Zenon, <1>3, RingInvImplies DEF BacklogIsLatest, RingInv
<1>5. queue[Slot(next_unread, k)] # NULL
  BY <1>3, <1>4, NullAssumption DEF RingInv, TypeOK
<1> QED
  BY <1>5 DEF ReadCopyFails, RingInv

\* A step from a consistent ring leads to one, unless a copy fails in it.
LEMMA RingPreserved == RingInv /\ [Next]_vars => RingInv' \/ failures' > 0
<1> SUFFICES ASSUME RingInv, [Next]_vars PROVE RingInv' \/ failures' > 0
  BY Zenon
<1>1. CASE Receive
  BY <1>1, ReceiveRoom, ReceiveFull, CapacityAssumption DEF RingInv, TypeOK
<1>2. CASE ReadLoan
  <2>1. Count(Capacity) \in 1 .. size /\ Consume(Count(Capacity))
        /\ UNCHANGED <<next, arrivals, failures, misread>>
    BY Zenon, <1>2, CountIs, CapacityAssumption DEF ReadLoan
  <2>2. read_buffer' \in Seq(Message \cup {NULL})
    <3>1. ASSUME NEW i \in 1 .. Count(Capacity)
          PROVE  queue[Slot(next_unread, i - 1)] \in Message \cup {NULL}
      BY SMTT(30), <2>1, <3>1, SlotIs, CapacityAssumption DEF RingInv, TypeOK
    <3> QED
      BY <1>2, <2>1, <3>1 DEF ReadLoan, RingInv, TypeOK
  <2>3. read_buffer_loaned' \in BOOLEAN
    BY Zenon, <1>2 DEF ReadLoan
  <2> QED
    BY Zenon, <2>1, <2>2, <2>3, ConsumeRing
<1>3. ASSUME NEW max \in CopySizes, ReadCopy(max) PROVE RingInv'
  <2>1. Count(max) \in 1 .. size /\ Consume(Count(max))
        /\ UNCHANGED <<next, read_buffer, read_buffer_loaned, arrivals,
                       failures, misread>>
    BY Zenon, <1>3, CountIs, CopyAssumption DEF ReadCopy
  <2> QED
    BY Zenon, <2>1, ConsumeRing DEF RingInv, TypeOK
<1>4. ASSUME NEW max \in CopySizes, NEW k \in 0 .. max - 1, ReadCopyFails(max, k)
      PROVE  failures' > 0
  BY Zenon, <1>4, FailureCounted
<1>5. CASE ReturnLoan
  <2>1. read_buffer_loaned' \in BOOLEAN
    BY Zenon, <1>5 DEF ReturnLoan
  <2> QED
    BY <1>5, <2>1 DEF ReturnLoan, RingInv, TypeOK
<1>6. CASE UNCHANGED vars
  BY Zenon, <1>6 DEF vars, RingInv, TypeOK
<1> QED
  BY Zenon, <1>1, <1>2, <1>3, <1>4, <1>5, <1>6 DEF Next

-----------------------------------------------------------------------------
(* Types and counters, which also survive copies that fail.  A failed copy   *)
(* leaves size too large for the slots that are filled, never too small for  *)
(* the slots a read loop can reach: that is why size cannot underflow.       *)

TypeInv == TypeOK /\ Reach <= size

CountInv == misread \/ Balanced(msg_status)

\* A read that stops at `next` reaches as far as the distance to it.
LEMMA ReachIsDist == Reach = Dist(next_unread, next)
  BY Zenon DEF Reach, Dist

\* Types and counters at the start.
LEMMA InitType == Init => TypeInv /\ CountInv
<1> SUFFICES ASSUME Init PROVE TypeInv /\ CountInv
  BY Zenon
<1>1. TypeOK
  BY Zenon, InitRing DEF RingInv
<1>2. Reach <= size
  BY DEF Init, Reach
<1>3. Balanced(msg_status)
  BY Zenon, NoMessagesBalanced DEF Init
<1> QED
  BY Zenon, <1>1, <1>2, <1>3 DEF TypeInv, CountInv

\* An arrival keeps the types.
LEMMA ReceiveType == TypeInv /\ Receive => TypeInv'
<1> SUFFICES ASSUME TypeInv, Receive PROVE TypeInv'
  BY Zenon
<1> USE CapacityAssumption DEF TypeInv, TypeOK
<1>1. \A i \in Slots : Slot(i, 1) = (IF i + 1 < Capacity THEN i + 1 ELSE 0)
                       /\ Slot(i, 1) \in Slots
  <2> TAKE i \in Slots
  <2>1. i \in 0 .. Capacity - 1 /\ 1 \in 0 .. Capacity
    BY DEF Slots
  <2>2. /\ Slot(i, 1) = IF i + 1 < Capacity THEN i + 1 ELSE i + 1 - Capacity
        /\ Slot(i, 1) \in Slots
    BY Zenon, <2>1, SlotIs
  <2> QED
    BY <2>1, <2>2
<1>2. next' \in Slots /\ next_unread' \in Slots
  BY Zenon, <1>1 DEF Receive
<1>3. msg_status' \in Status
  <2>1. msg_status' = CountReceived(msg_status, queue[next] # NULL)
    BY Zenon DEF Receive
  <2>2. (queue[next] # NULL) \in BOOLEAN
    BY Zenon
  <2>3. msg_status \in Status
    BY Zenon
  <2> QED
    BY <2>1, <2>2, <2>3, CountReceivedType, Zenon
<1>4. /\ size' \in 0 .. Capacity
      /\ size' = size + 1 \/ (size' = size /\ size = Capacity)
  BY DEF Receive, AdvanceFull
<1>5. head' \in Nat
  <2>1. Slot(head, 1) \in Nat
    BY DEF Slot
  <2> QED
    BY <2>1 DEF Receive, AdvanceFull
<1>6. queue' \in [Slots -> Message \cup {NULL}] /\ arrivals' \in Nat
  BY DEF Receive, Message
<1>7. UNCHANGED <<read_buffer, read_buffer_loaned, failures, misread>>
  BY Zenon DEF Receive
<1>8. Reach' <= size'
  <2>1. next' = (IF next + 1 < Capacity THEN next + 1 ELSE 0)
    BY Zenon, <1>1 DEF Receive
  <2>2. next_unread' \in {next_unread,
                          IF next_unread + 1 < Capacity THEN next_unread + 1 ELSE 0}
    BY Zenon, <1>1 DEF Receive
  <2> QED
    BY <1>4, <2>1, <2>2 DEF Reach, Slots
<1>9. TypeOK'
  BY Zenon, <1>2, <1>3, <1>4, <1>5, <1>6, <1>7
<1> QED
  BY Zenon, <1>8, <1>9

\* So does taking n messages.
LEMMA ConsumeType ==
    ASSUME TypeInv, NEW n \in 1 .. Reach, Consume(n),
           UNCHANGED <<next, arrivals, failures, misread>>,
           read_buffer' \in Seq(Message \cup {NULL}),
           read_buffer_loaned' \in BOOLEAN
    PROVE  TypeInv'
<1> USE CapacityAssumption DEF TypeInv, TypeOK
<1>1. Reach \in 0 .. Capacity - 1 /\ n \in 0 .. Capacity /\ n \in Int
  BY DEF Reach, Slots
<1>2. /\ queue' = Cleared(n) /\ next_unread' = Slot(next_unread, n)
      /\ size' = size - n /\ head' = Slot(head, n)
      /\ msg_status' = CountRead(msg_status, n)
  BY Zenon DEF Consume
<1>3. next_unread' \in Slots
      /\ next_unread' = IF next_unread + n < Capacity
                        THEN next_unread + n ELSE next_unread + n - Capacity
  BY Zenon, <1>1, <1>2, SlotIs
<1>4. Reach' <= size'
  BY <1>1, <1>2, <1>3 DEF Reach, Slots
<1>5. msg_status' \in Status
  BY Zenon, <1>1, <1>2, CountReadType
<1>6. queue' \in [Slots -> Message \cup {NULL}]
  BY Zenon, <1>2 DEF Cleared
<1>7. head' \in Nat
  BY <1>1, <1>2, SlotOfIndex
<1>8. size' \in 0 .. Capacity
  BY <1>1, <1>2
<1>9. TypeOK'
  BY Zenon, <1>3, <1>5, <1>6, <1>7, <1>8
<1> QED
  BY Zenon, <1>4, <1>9

\* A read takes no more than it reaches.
LEMMA CountInReach ==
    ASSUME TypeInv, NEW max \in Nat, Count(max) > 0
    PROVE  Count(max) \in 1 .. Reach
  BY CapacityAssumption DEF Count, Reach, TypeInv, TypeOK, Slots

\* Every step keeps the types ...
LEMMA TypePreserved == TypeInv /\ [Next]_vars => TypeInv'
<1> SUFFICES ASSUME TypeInv, [Next]_vars PROVE TypeInv'
  BY Zenon
<1>1. CASE Receive
  BY Zenon, <1>1, ReceiveType
<1>2. CASE ReadLoan
  <2>1. Count(Capacity) \in 1 .. Reach /\ Consume(Count(Capacity))
        /\ UNCHANGED <<next, arrivals, failures, misread>>
    BY Zenon, <1>2, CountInReach, CapacityAssumption DEF ReadLoan
  <2>2. read_buffer' \in Seq(Message \cup {NULL})
    <3>1. ASSUME NEW i \in 1 .. Count(Capacity)
          PROVE  queue[Slot(next_unread, i - 1)] \in Message \cup {NULL}
      <4>1. i - 1 \in 0 .. Capacity
        BY <2>1, CapacityAssumption DEF TypeInv, TypeOK, Reach, Slots
      <4>2. Slot(next_unread, i - 1) \in Slots
        BY Zenon, <4>1, SlotIs DEF TypeInv, TypeOK
      <4> QED
        BY Zenon, <4>2 DEF TypeInv, TypeOK
    <3>2. Count(Capacity) \in Nat
      BY <2>1, CapacityAssumption DEF TypeInv, TypeOK, Reach, Slots
    <3> QED
      BY <1>2, <3>1, <3>2 DEF ReadLoan
  <2>3. read_buffer_loaned' \in BOOLEAN
    BY <1>2 DEF ReadLoan
  <2> QED
    BY Zenon, <2>1, <2>2, <2>3, ConsumeType
<1>3. ASSUME NEW max \in CopySizes, ReadCopy(max) PROVE TypeInv'
  <2>1. Count(max) \in 1 .. Reach /\ Consume(Count(max))
        /\ UNCHANGED <<next, read_buffer, read_buffer_loaned, arrivals,
                       failures, misread>>
    BY Zenon, <1>3, CountInReach, CopyAssumption DEF ReadCopy
  <2> QED
    BY Zenon, <2>1, ConsumeType DEF TypeInv, TypeOK
<1>4. ASSUME NEW max \in CopySizes, NEW k \in 0 .. max - 1, ReadCopyFails(max, k)
      PROVE  TypeInv'
  <2>1. UNCHANGED <<size, head, next, next_unread, read_buffer,
                    read_buffer_loaned, arrivals>>
    BY Zenon, <1>4 DEF ReadCopyFails
  <2>2. queue' = Cleared(k) \/ queue' = Cleared(k + 1)
    BY Zenon, <1>4 DEF ReadCopyFails
  <2>3. queue' \in [Slots -> Message \cup {NULL}]
    BY Zenon, <2>2 DEF Cleared, TypeInv, TypeOK
  <2>4. msg_status' \in Status
    <3>1. k \in Int
      OBVIOUS
    <3>2. msg_status' = CountLost(msg_status, k) \/ msg_status' = msg_status
      BY Zenon, <1>4 DEF ReadCopyFails
    <3> QED
      BY Zenon, <3>1, <3>2, CountLostType DEF TypeInv, TypeOK
  <2>5. failures' \in Nat
    BY <1>4 DEF ReadCopyFails, TypeInv, TypeOK
  <2>6. misread' \in BOOLEAN
    BY <1>4, Zenon DEF ReadCopyFails
  <2>7. TypeOK'
    BY Zenon, <2>1, <2>3, <2>4, <2>5, <2>6 DEF TypeInv, TypeOK
  <2> QED
    BY Zenon, <2>1, <2>7 DEF TypeInv, Reach
<1>5. CASE ReturnLoan
  <2>1. read_buffer_loaned' \in BOOLEAN
    BY Zenon, <1>5 DEF ReturnLoan
  <2> QED
    BY <1>5, <2>1 DEF ReturnLoan, TypeInv, TypeOK, Reach
<1>6. CASE UNCHANGED vars
  BY Zenon, <1>6 DEF vars, TypeInv, TypeOK, Reach
<1> QED
  BY Zenon, <1>1, <1>2, <1>3, <1>4, <1>5, <1>6 DEF Next

\* ... and the balance of the counters.
LEMMA CountPreserved == TypeInv /\ CountInv /\ [Next]_vars => CountInv'
<1> SUFFICES ASSUME TypeInv, CountInv, [Next]_vars PROVE CountInv'
  BY Zenon
<1>0. msg_status \in Status
  BY Zenon DEF TypeInv, TypeOK
<1>1. ASSUME NEW n \in Int, Consume(n), UNCHANGED misread PROVE CountInv'
  <2>1. msg_status' = CountRead(msg_status, n)
    BY Zenon, <1>1 DEF Consume
  <2>2. ASSUME Balanced(msg_status) PROVE Balanced(msg_status')
    BY Zenon, <1>0, <2>1, <2>2, CountReadBalanced
  <2> QED
    BY <1>1, <2>2, Zenon DEF CountInv
<1>2. ASSUME NEW max \in Nat PROVE Count(max) \in Int
  BY CapacityAssumption DEF Count, Reach, Slots, TypeInv, TypeOK
<1>3. CASE Receive
  <2>1. (queue[next] # NULL) \in BOOLEAN
    BY Zenon
  <2>2. msg_status' = CountReceived(msg_status, queue[next] # NULL) /\ UNCHANGED misread
    BY <1>3, Zenon DEF Receive
  <2>3. ASSUME Balanced(msg_status) PROVE Balanced(msg_status')
    BY <1>0, <2>1, <2>2, <2>3, CountReceivedBalanced, Zenon
  <2> QED
    BY <2>2, <2>3, Zenon DEF CountInv
<1>4. CASE ReadLoan
  BY Zenon, <1>1, <1>2, <1>4, CapacityAssumption DEF ReadLoan
<1>5. ASSUME NEW max \in CopySizes, ReadCopy(max) PROVE CountInv'
  BY Zenon, <1>1, <1>2, <1>5, CopyAssumption DEF ReadCopy
<1>6. ASSUME NEW max \in CopySizes, NEW k \in 0 .. max - 1, ReadCopyFails(max, k)
      PROVE  CountInv'
  <2>1. CASE read_buffer_loaned
    BY <1>6, <2>1, Zenon DEF ReadCopyFails, CountInv
  <2>2. CASE ~read_buffer_loaned
    <3>1. misread' <=> misread
      BY <1>6, <2>2, Zenon DEF ReadCopyFails
    <3>2. msg_status' = msg_status
      BY <1>6, <2>2, Zenon DEF ReadCopyFails
    <3> QED
      BY <3>1, <3>2, Zenon DEF CountInv
  <2> QED
    BY Zenon, <2>1, <2>2
<1>7. CASE UNCHANGED <<msg_status, misread>>
  BY <1>7, Zenon DEF CountInv
<1> QED
  BY Zenon, <1>3, <1>4, <1>5, <1>6, <1>7 DEF Next, ReturnLoan, vars

-----------------------------------------------------------------------------
(* The theorems. *)

\* Every index stays in the ring, size between 0 and the capacity, and every
\* counter within its width, for every capacity and whatever copies fail
\* (Message.c:442-452, 716-740).
THEOREM RingTypeCorrect == Spec => []TypeOK
<1>1. TypeInv => TypeOK
  BY Zenon DEF TypeInv
<1> QED
  BY <1>1, InitType, TypePreserved, PTL DEF Spec

\* Until a copy fails the ring is what RingInv says.
LEMMA RingInvariant == Spec => [](TypeInv /\ (failures = 0 => RingInv))
<1> DEFINE Inv == TypeInv /\ (failures = 0 => RingInv)
<1>1. Init => Inv
  BY Zenon, InitType, InitRing
<1>2. Inv /\ [Next]_vars => Inv'
  <2> SUFFICES ASSUME Inv, [Next]_vars PROVE Inv'
    BY Zenon
  <2>1. TypeInv'
    BY Zenon, TypePreserved
  <2>2. CASE failures = 0
    BY <2>1, <2>2, RingPreserved
  <2>3. CASE failures # 0
    <3>1. failures' = failures \/ failures' = failures + 1
      BY Zenon DEF Next, Receive, ReadLoan, ReadCopy, ReadCopyFails, ReturnLoan, vars
    <3>2. failures' # 0
      BY <2>3, <3>1 DEF TypeInv, TypeOK
    <3> QED
      BY Zenon, <2>1, <3>2
  <2> QED
    BY Zenon, <2>2, <2>3
<1> QED
  BY <1>1, <1>2, PTL DEF Spec

\* Until a copy fails, the indices, the size and the slots of the ring agree, so
\* the two tests by which receive_circular decides that the ring is full
\* (Message.c:438, 442) give the same answer, for every capacity.
THEOREM RingIsConsistent == Spec => []RingConsistent
<1>1. (failures = 0 => RingInv) => RingConsistent
  BY Zenon, RingInvImplies DEF RingConsistent
<1> QED
  BY <1>1, RingInvariant, PTL

\* Until a copy fails, the ring holds the latest arrivals, in order, and
\* unread_count counts them: no message is skipped, repeated or reordered, and
\* only the oldest is ever dropped.
THEOREM BacklogCorrect == Spec => []BacklogIsLatest
<1>1. (failures = 0 => RingInv) => BacklogIsLatest
  BY Zenon, RingInvImplies DEF BacklogIsLatest
<1> QED
  BY <1>1, RingInvariant, PTL

\* Each message received counts as unread, read or lost, although the counters
\* wrap and reads may be partial or fail halfway (Message.c:601-606, 995-999),
\* until a read fails while a loan is out.
THEOREM CountersStayBalanced == Spec => []CountersBalanced
<1>1. CountInv => CountersBalanced
  BY Zenon DEF CountInv, CountersBalanced
<1> QED
  BY <1>1, InitType, TypePreserved, CountPreserved, PTL DEF Spec

-----------------------------------------------------------------------------
(* The ring implements the queue of module MessageQueue.  Until a copy     *)
(* fails, the backlog is the latest arrivals, and each operation does to   *)
(* it what the operation of MessageQueue does.                             *)

\* A loan that is not out is empty.
LoanInv == ~read_buffer_loaned => read_buffer = <<>>

\* Nothing is on loan when the flag is off.
LEMMA LoanPreserved == LoanInv /\ [Next]_vars => LoanInv'
<1>. SUFFICES ASSUME LoanInv, [Next]_vars PROVE LoanInv'
  OBVIOUS
<1>1. CASE ReadLoan
  BY Zenon, <1>1 DEF ReadLoan, LoanInv
<1>2. CASE ReturnLoan
  BY Zenon, <1>2 DEF ReturnLoan, LoanInv
<1>3. CASE UNCHANGED <<read_buffer, read_buffer_loaned>>
  BY Zenon, <1>3 DEF LoanInv
<1>4. ASSUME NEW max, NEW k, Receive \/ ReadCopy(max) \/ ReadCopyFails(max, k)
      PROVE  UNCHANGED <<read_buffer, read_buffer_loaned>>
  BY Zenon, <1>4 DEF Receive, ReadCopy, ReadCopyFails
<1>. QED BY Zenon, <1>1, <1>2, <1>3, <1>4 DEF Next, vars

\* The backlog is the sequence of the latest arrivals.
BacklogIsSeq == Backlog = Latest(size, arrivals)

\* The backlog is a sequence of messages.
LEMMA RingBacklog == RingInv => BacklogIsSeq
<1>. SUFFICES ASSUME RingInv PROVE Backlog = Latest(size, arrivals)
  BY Zenon DEF BacklogIsSeq
<1>1. \A i \in 1 .. size : queue[Slot(next_unread, i - 1)] = arrivals - size + i
  <2>. TAKE i \in 1 .. size
  <2>1. size \in Nat /\ arrivals \in Nat
    BY CapacityAssumption DEF RingInv, TypeOK
  <2>2. i - 1 \in 0 .. size - 1
    BY <2>1
  <2>3. queue[Slot(next_unread, i - 1)] = arrivals - size + 1 + (i - 1)
    BY Zenon, <2>2, RingInvImplies DEF RingInv, BacklogIsLatest
  <2>. QED BY <2>1, <2>3
<1>. QED BY Zenon, <1>1 DEF Backlog, Latest

\* The same of the next state.
LEMMA RingBacklogNext == RingInv' => Backlog' = Latest(size', arrivals')
<1>1. RingInv' => BacklogIsSeq'
  BY RingBacklog, PTL
<1>. QED BY Zenon, <1>1 DEF BacklogIsSeq

\* The sizes of ring and backlog.
LEMMA RingSizes ==
    ASSUME RingInv
    PROVE  /\ size \in Nat /\ arrivals \in Nat /\ size <= arrivals /\ size <= Capacity
           /\ Backlog = Latest(size, arrivals) /\ Len(Backlog) = size
<1>1. size \in Nat /\ arrivals \in Nat /\ size <= arrivals /\ size <= Capacity
  BY CapacityAssumption DEF RingInv, TypeOK
<1>2. Backlog = Latest(size, arrivals)
  BY Zenon, RingBacklog DEF BacklogIsSeq
<1>. QED BY Zenon, <1>1, <1>2, LatestType

\* receive_circular drops the oldest message only, and only when it must.
LEMMA ReceiveRefines ==
    ASSUME RingInv, RingInv', Receive
    PROVE  Abstract!Receive
<1>1. /\ arrivals < MaxReceived /\ arrivals' = arrivals + 1
      /\ read_buffer' = read_buffer
      /\ size' = IF size < Capacity THEN size + 1 ELSE size
  BY Zenon DEF Receive, AdvanceFull
<1>2. CASE size < Capacity
  <2>1. Append(Backlog, arrivals') = Backlog'
    BY Zenon, <1>1, <1>2, RingSizes, RingBacklogNext, LatestAppend
  <2>. QED BY Zenon, <1>1, <1>2, <2>1, RingSizes DEF Abstract!Receive
<1>3. CASE ~(size < Capacity)
  <2>1. size = Capacity /\ size \in Nat \ {0}
    BY <1>3, RingSizes, CapacityAssumption
  <2>2. Append(Tail(Latest(size, arrivals)), arrivals + 1) = Latest(size, arrivals + 1)
    BY Zenon, <2>1, RingSizes, LatestReplace
  <2>3. Append(Tail(Backlog), arrivals') = Backlog'
    BY Zenon, <1>1, <1>3, <2>2, RingSizes, RingBacklogNext
  <2>. QED BY Zenon, <1>1, <1>3, <2>3, RingSizes DEF Abstract!Receive
<1>. QED BY Zenon, <1>2, <1>3

\* A read takes a prefix of the backlog.
LEMMA ConsumeRefines ==
    ASSUME RingInv, RingInv', NEW n \in 1 .. size, Consume(n), UNCHANGED arrivals
    PROVE  /\ Abstract!TakePrefix(n)
           /\ SubSeq(Backlog, 1, n) = Latest(n, arrivals - size + n)
<1>1. size' = size - n
  BY Zenon DEF Consume
<1>2. size \in Nat /\ n \in 0 .. size
  BY RingSizes
<1>3. /\ SubSeq(Latest(size, arrivals), n + 1, size) = Latest(size - n, arrivals)
      /\ SubSeq(Latest(size, arrivals), 1, n) = Latest(n, arrivals - size + n)
  BY Zenon, <1>2, RingSizes, LatestSplit
<1>. QED BY Zenon, <1>1, <1>3, RingSizes, RingBacklogNext DEF Abstract!TakePrefix

\* The messages on loan are the prefix that was taken.
LEMMA ReadLoanRefines ==
    ASSUME RingInv, RingInv', LoanInv, ReadLoan
    PROVE  \E n \in 1 .. Len(Backlog) : Abstract!ReadLoan(n)
<1>. DEFINE n == Count(Capacity)
<1>1. /\ ~read_buffer_loaned /\ n > 0 /\ Consume(n) /\ UNCHANGED arrivals
      /\ read_buffer' = [i \in 1 .. n |-> queue[Slot(next_unread, i - 1)]]
  BY Zenon DEF ReadLoan
<1>2. n \in 1 .. size
  BY Zenon, <1>1, CountIs, CapacityAssumption
<1>. HIDE DEF n
<1>3. Abstract!TakePrefix(n) /\ SubSeq(Backlog, 1, n) = Latest(n, arrivals - size + n)
  BY Zenon, <1>1, <1>2, ConsumeRefines
<1>4. read_buffer' = Latest(n, arrivals - size + n)
  <2>1. ASSUME NEW i \in 1 .. n
        PROVE  queue[Slot(next_unread, i - 1)] = (arrivals - size + n) - n + i
    <3>1. size \in Nat /\ arrivals \in Nat /\ n \in Nat /\ i \in Nat
      BY <1>2, RingSizes
    <3>2. i - 1 \in 0 .. size - 1
      BY SMTT(30), <1>2, <3>1
    <3>3. queue[Slot(next_unread, i - 1)] = arrivals - size + 1 + (i - 1)
      BY Zenon, <3>2, RingInvImplies DEF RingInv, BacklogIsLatest
    <3>. QED BY <3>1, <3>3
  <2>. QED BY Zenon, <1>1, <2>1 DEF Latest
<1>5. read_buffer = <<>>
  BY Zenon, <1>1 DEF LoanInv
<1>6. Abstract!ReadLoan(n)
  BY Zenon, <1>1, <1>3, <1>4, <1>5 DEF Abstract!ReadLoan
<1>. QED BY Zenon, <1>2, <1>6, RingSizes

\* Every step of the ring is one of the abstract queue, or none.
LEMMA StepRefines ==
    ASSUME TypeInv, LoanInv, failures = 0 => RingInv, [Next]_vars
    PROVE  [Abstract!Next]_(Abstract!vars)
<1>1. CASE failures' > 0
  BY Zenon, <1>1 DEF Abstract!Next
<1>2. CASE ~(failures' > 0)
  <2>1. failures = 0 /\ failures' = 0
    <3>1. failures' = failures \/ failures' = failures + 1
      BY Zenon DEF Next, Receive, ReadLoan, ReadCopy, ReadCopyFails, ReturnLoan, vars
    <3>. QED BY <1>2, <3>1 DEF TypeInv, TypeOK
  <2>2. RingInv /\ RingInv'
    BY Zenon, <1>2, <2>1, RingPreserved
  <2>3. ASSUME Abstract!Step PROVE Abstract!Next
    BY Zenon, <2>1, <2>3 DEF Abstract!Next
  <2>4. CASE Receive
    BY Zenon, <2>2, <2>3, <2>4, ReceiveRefines DEF Abstract!Step
  <2>5. CASE ReadLoan
    BY Zenon, <2>2, <2>3, <2>5, ReadLoanRefines DEF Abstract!Step
  <2>6. ASSUME NEW max \in CopySizes, ReadCopy(max) PROVE Abstract!Next
    <3>1. /\ Consume(Count(max)) /\ Count(max) > 0
          /\ UNCHANGED <<read_buffer, arrivals>>
      BY Zenon, <2>6 DEF ReadCopy
    <3>2. Count(max) \in 1 .. size
      BY Zenon, <2>2, <3>1, CountIs, CopyAssumption
    <3>3. Abstract!TakePrefix(Count(max))
      BY Zenon, <2>2, <3>1, <3>2, ConsumeRefines
    <3>4. Abstract!ReadCopy(Count(max))
      BY Zenon, <3>1, <3>3 DEF Abstract!ReadCopy
    <3>. QED BY Zenon, <2>2, <2>3, <3>2, <3>4, RingSizes DEF Abstract!Step
  <2>7. ASSUME NEW max \in CopySizes, NEW k \in 0 .. max - 1, ReadCopyFails(max, k)
        PROVE  FALSE
    <3>1. failures' > 0
      BY Zenon, <2>2, <2>7, FailureCounted
    <3>. QED BY Zenon, <1>2, <3>1
  <2>8. CASE ReturnLoan
    <3>1. read_buffer' = <<>> /\ UNCHANGED <<queue, size, next_unread, arrivals>>
      BY Zenon, <2>8 DEF ReturnLoan
    <3>2. Backlog' = Backlog
      BY Zenon, <3>1 DEF Backlog
    <3>. QED BY Zenon, <2>3, <3>1, <3>2 DEF Abstract!Step, Abstract!ReturnLoan
  <2>9. CASE UNCHANGED vars
    <3>1. UNCHANGED <<queue, size, next_unread, read_buffer, arrivals, failures>>
      BY Zenon, <2>9 DEF vars
    <3>2. Backlog' = Backlog
      BY Zenon, <3>1 DEF Backlog
    <3>. QED BY Zenon, <3>1, <3>2 DEF Abstract!vars
  <2>. QED BY Zenon, <2>4, <2>5, <2>6, <2>7, <2>8, <2>9 DEF Next
<1>. QED BY Zenon, <1>1, <1>2

\* The ring implements the first-in first-out queue of module MessageQueue for
\* every capacity: it drops the oldest message only and only when it is full,
\* a read hands out a prefix of what waits, and one loan is out at most
\* (Message.c:421-465, 625-779).
THEOREM RingImplementsQueue == Spec => ImplementsMessageQueue
<1>. DEFINE Inv == TypeInv /\ (failures = 0 => RingInv)
<1>1. Init => LoanInv /\ Abstract!Init
  <2>. SUFFICES ASSUME Init PROVE LoanInv /\ Abstract!Init
    BY Zenon
  <2>1. RingInv /\ size = 0 /\ arrivals = 0 /\ read_buffer = <<>> /\ failures = 0
    BY Zenon, InitRing DEF Init
  <2>2. Backlog = <<>>
    BY <2>1, RingSizes DEF Latest
  <2>. QED BY <2>1, <2>2 DEF LoanInv, Abstract!Init
<1>2. Inv /\ LoanInv /\ [Next]_vars => [Abstract!Next]_(Abstract!vars)
  BY Zenon, StepRefines
<1>. QED
  BY <1>1, <1>2, RingInvariant, LoanPreserved, PTL
     DEF Spec, ImplementsMessageQueue, Abstract!Spec

\* A loan read of a ring that is not full takes all of it, for every capacity
\* (the loop of read_circular, Message.c:684-714).
THEOREM PartialRingDrained == Spec => PartialRingDrains
<1>. DEFINE Inv == TypeInv /\ (failures = 0 => RingInv)
<1>1. ASSUME Inv, ReadLoan, failures = 0, size < Capacity
      PROVE  size' = 0 /\ Len(read_buffer') = size
  <2>1. RingInv /\ size \in Nat
    BY Zenon, <1>1, RingSizes
  <2>2. Count(Capacity) = size
    BY <1>1, <2>1, ReachIs, CapacityAssumption DEF Count
  <2>3. /\ size' = size - size
        /\ read_buffer' = [i \in 1 .. size |-> queue[Slot(next_unread, i - 1)]]
    BY Zenon, <1>1, <2>2 DEF ReadLoan, Consume
  <2>4. Backlog = [i \in 1 .. size |-> queue[Slot(next_unread, i - 1)]] /\ Len(Backlog) = size
    BY Zenon, <2>1, RingSizes DEF Backlog
  <2>. QED BY <2>1, <2>3, <2>4
<1>2. Inv => (ReadLoan /\ failures = 0 /\ size < Capacity
                => size' = 0 /\ Len(read_buffer') = size)
  BY Zenon, <1>1
<1>. QED BY <1>2, RingInvariant, PTL DEF PartialRingDrains

-----------------------------------------------------------------------------
(* The growing queue.  What makes its properties inductive: a queue that   *)
(* is spoiled has lost the message of its FIRST entry, and every read      *)
(* follows that entry.  So no read succeeds on it, it stays spoiled, and   *)
(* nothing needs to be known of the rest of its entries.                   *)

UnboundedTypeOK ==
    /\ u_queue \in Seq(Message \cup {NULL})
    /\ u_read_buffer \in Seq(Message \cup {NULL})
    /\ u_loaned \in BOOLEAN
    /\ u_status \in Status
    /\ u_arrivals \in Nat
    /\ u_failures \in Nat

\* The queue is the latest arrivals ...
Whole ==
    /\ Len(u_queue) <= u_arrivals
    /\ u_queue = Latest(Len(u_queue), u_arrivals)
    /\ u_status.unread_count = Wrap(Len(u_queue))

\* ... or has lost the message of its first entry.
Front == Len(u_queue) > 0 /\ u_queue[1] = NULL

\* A loan that is not out is empty.
UnboundedLoanInv == ~u_loaned => u_read_buffer = <<>>

UnboundedInv == UnboundedTypeOK /\ (Whole \/ Front) /\ UnboundedLoanInv /\ UnboundedCountersBalanced

-----------------------------------------------------------------------------
(* Spoiled queues.                                                         *)

\* The queue is as long as it has entries.
LEMMA QueueType ==
    ASSUME UnboundedTypeOK
    PROVE  Len(u_queue) \in Nat /\ \A i \in 1 .. Len(u_queue) : u_queue[i] \in Message \cup {NULL}
  BY DEF UnboundedTypeOK

\* A whole queue is not spoiled ...
LEMMA WholeIsValid == UnboundedTypeOK /\ Whole => ~Spoiled
<1>. SUFFICES ASSUME UnboundedTypeOK, Whole, NEW i \in 1 .. Len(u_queue) PROVE u_queue[i] # NULL
  BY Zenon DEF Spoiled, Valid
<1>1. Len(u_queue) \in Nat /\ u_arrivals \in Nat /\ Len(u_queue) <= u_arrivals
  BY DEF UnboundedTypeOK, Whole
<1>2. u_queue[i] = u_arrivals - Len(u_queue) + i
  BY Zenon, <1>1, LatestType DEF Whole
<1>. QED BY <1>1, <1>2, NullAssumption

\* ... and one without its first message is.
LEMMA FrontIsSpoiled ==
    ASSUME UnboundedTypeOK, Front
    PROVE  /\ Spoiled
           /\ \A n \in Nat \ {0} : ~Valid(n)
<1>1. \A n \in Nat \ {0} : ~Valid(n)
  BY DEF Valid, Front
<1>. QED BY <1>1, QueueType DEF Spoiled, Front

\* A queue that is not spoiled is whole.
LEMMA UnspoiledIsWhole ==
    ASSUME UnboundedInv, ~Spoiled
    PROVE  Whole
  BY Zenon, FrontIsSpoiled DEF UnboundedInv

-----------------------------------------------------------------------------
(* The operations.                                                         *)

\* An arrival keeps the invariant and is the last of a whole queue.
LEMMA ReceiveKeeps ==
    ASSUME UnboundedInv, ReceiveUnbounded
    PROVE  /\ UnboundedInv'
           /\ Whole => Whole' /\ u_queue' = Append(u_queue, u_arrivals')
<1>. USE DEF UnboundedInv
<1>1. /\ u_arrivals' = u_arrivals + 1 /\ u_queue' = Append(u_queue, u_arrivals + 1)
      /\ u_status' = CountReceived(u_status, FALSE)
      /\ UNCHANGED <<u_read_buffer, u_loaned, u_failures, u_crashed>>
  BY Zenon DEF ReceiveUnbounded
<1>2. /\ u_arrivals \in Nat /\ u_arrivals + 1 \in Nat /\ u_arrivals + 1 \in Message
      /\ Len(u_queue) \in Nat
  BY DEF UnboundedTypeOK, Message
<1>3. /\ u_queue' \in Seq(Message \cup {NULL}) /\ Len(u_queue') = Len(u_queue) + 1
      /\ \A i \in 1 .. Len(u_queue) : u_queue'[i] = u_queue[i]
  <2>1. u_queue \in Seq(Message \cup {NULL}) /\ u_arrivals + 1 \in Message \cup {NULL}
    BY Zenon, <1>2 DEF UnboundedTypeOK
  <2>. QED BY <1>1, <2>1, AppendProperties
<1>4. u_status' \in Status
  BY Zenon, <1>1, CountReceivedType DEF UnboundedTypeOK
<1>5. UnboundedTypeOK'
  BY Zenon, <1>1, <1>2, <1>3, <1>4 DEF UnboundedTypeOK
<1>6. ASSUME Front PROVE Front'
  BY <1>2, <1>3, <1>6 DEF Front
<1>7. ASSUME Whole PROVE Whole'
  <2>1. u_status'.unread_count = Wrap(u_status.unread_count + 1)
    BY Zenon, <1>1 DEF CountReceived, UnboundedTypeOK, Status
  <2>2. Wrap(Wrap(Len(u_queue)) + 1) = Wrap(Len(u_queue) + 1)
    BY <1>2, WrapInSum
  <2>3. Append(u_queue, u_arrivals + 1) = Latest(Len(u_queue) + 1, u_arrivals + 1)
    BY Zenon, <1>2, <1>7, LatestAppend DEF Whole
  <2>4. u_queue' = Latest(Len(u_queue'), u_arrivals')
    BY Zenon, <1>1, <1>3, <2>3
  <2>5. u_status'.unread_count = Wrap(Len(u_queue'))
    BY Zenon, <1>3, <1>7, <2>1, <2>2 DEF Whole
  <2>6. Len(u_queue') <= u_arrivals'
    BY <1>1, <1>2, <1>3, <1>7 DEF Whole
  <2>. QED BY Zenon, <2>4, <2>5, <2>6 DEF Whole
<1>8. UnboundedLoanInv'
  BY Zenon, <1>1 DEF UnboundedLoanInv
<1>9. UnboundedCountersBalanced'
  <2>1. Balanced(u_status')
    BY Zenon, <1>1, CountReceivedBalanced DEF UnboundedCountersBalanced, UnboundedTypeOK
  <2>2. u_status'.lost_count = u_status.lost_count
    BY Zenon, <1>1 DEF CountReceived, UnboundedTypeOK, Status
  <2>. QED BY Zenon, <2>1, <2>2 DEF UnboundedCountersBalanced
<1>. QED BY Zenon, <1>1, <1>5, <1>6, <1>7, <1>8, <1>9

\* A read that takes n messages: of a whole queue, and all of it or the first
\* entry is empty afterwards.
LEMMA TakeKeeps ==
    ASSUME UnboundedInv, NEW n \in 1 .. Len(u_queue), Valid(n),
           u_queue' = Remainder(n), u_status' = CountRead(u_status, n),
           UNCHANGED <<u_arrivals, u_failures>>,
           u_read_buffer' \in Seq(Message \cup {NULL}),
           u_loaned' \in BOOLEAN, UnboundedLoanInv'
    PROVE  /\ UnboundedInv'
           /\ Whole
           /\ n = Len(u_queue) => u_queue' = <<>>
           /\ n # Len(u_queue) => Front'
<1>. USE DEF UnboundedInv
<1>1. Whole
  BY FrontIsSpoiled
<1>2. Len(u_queue) \in Nat /\ n \in Nat \ {0} /\ Len(u_queue) - n \in Nat /\ u_arrivals \in Nat
  BY DEF UnboundedTypeOK
<1>3. ASSUME NEW i \in 1 .. Len(u_queue) - n
      PROVE  (IF i <= n THEN NULL ELSE u_queue[i]) \in Message \cup {NULL}
  BY <1>2, QueueType
<1>4. u_queue' \in Seq(Message \cup {NULL}) /\ Len(u_queue') = Len(u_queue) - n
  BY <1>2, <1>3 DEF Remainder
<1>5. u_status' \in Status
  BY <1>2, CountReadType DEF UnboundedTypeOK
<1>6. UnboundedTypeOK'
  BY Zenon, <1>4, <1>5 DEF UnboundedTypeOK
<1>7. n = Len(u_queue) => u_queue' = <<>>
  BY <1>2, <1>4
<1>8. n # Len(u_queue) => Front'
  <2>. SUFFICES ASSUME n # Len(u_queue) PROVE Front'
    BY Zenon
  <2>1. 1 \in 1 .. Len(u_queue) - n /\ 1 <= n
    BY <1>2
  <2>2. u_queue'[1] = NULL
    BY Zenon, <2>1 DEF Remainder
  <2>. QED BY <1>2, <1>4, <2>1, <2>2 DEF Front
<1>9. n = Len(u_queue) => Whole'
  <2>. SUFFICES ASSUME n = Len(u_queue) PROVE Whole'
    BY Zenon
  <2>1. u_queue' = <<>> /\ Len(u_queue') = 0
    BY Zenon, <1>7
  <2>2. Latest(0, u_arrivals) = <<>>
    BY <1>2, LatestType
  <2>3. u_status'.unread_count = Wrap(0)
    <3>1. u_status'.unread_count = Wrap(Wrap(n) - n)
      BY Zenon, <1>1 DEF CountRead, UnboundedTypeOK, Status, Whole
    <3>2. Wrap(Wrap(n) + (-n)) = Wrap(n + (-n))
      BY <1>2, WrapInSum
    <3>3. n + (-n) = 0 /\ Wrap(n) + (-n) = Wrap(n) - n
      BY SMTT(30), <1>2, WrapType
    <3>. QED BY Zenon, <3>1, <3>2, <3>3
  <2>. QED BY <1>2, <2>1, <2>2, <2>3 DEF Whole
<1>10. UnboundedCountersBalanced'
  <2>1. Balanced(u_status')
    BY <1>2, CountReadBalanced DEF UnboundedCountersBalanced, UnboundedTypeOK
  <2>2. u_status'.lost_count = u_status.lost_count
    BY Zenon DEF CountRead, UnboundedTypeOK, Status
  <2>. QED BY Zenon, <2>1, <2>2 DEF UnboundedCountersBalanced
<1>. QED BY Zenon, <1>1, <1>6, <1>7, <1>8, <1>9, <1>10

\* A loan takes all of a whole queue.
LEMMA ReadLoanKeeps ==
    ASSUME UnboundedInv, ReadLoanUnbounded
    PROVE  UnboundedInv' /\ Whole /\ u_queue' = <<>> /\ Len(u_queue) > 0
<1>1. /\ u_queue # <<>> /\ Valid(Len(u_queue)) /\ u_read_buffer' = u_queue
      /\ u_loaned' = TRUE /\ u_queue' = Remainder(Len(u_queue))
      /\ u_status' = CountRead(u_status, Len(u_queue))
      /\ UNCHANGED <<u_arrivals, u_failures>>
  BY Zenon DEF ReadLoanUnbounded
<1>2. u_queue \in Seq(Message \cup {NULL})
  BY Zenon DEF UnboundedInv, UnboundedTypeOK
<1>3. Len(u_queue) \in 1 .. Len(u_queue)
  BY <1>1, <1>2
<1>4. u_loaned' \in BOOLEAN /\ UnboundedLoanInv'
  BY Zenon, <1>1 DEF UnboundedLoanInv
<1>. QED BY <1>1, <1>2, <1>3, <1>4, TakeKeeps

\* A copy takes no more than there is.
LEMMA CountInQueue ==
    ASSUME UnboundedTypeOK, NEW max \in CopySizes
    PROVE  CountUnbounded(max) \in 0 .. Len(u_queue)
<1>1. max \in Nat
  BY Zenon, CopyAssumption
<1>. QED BY <1>1, QueueType DEF CountUnbounded

\* A copy empties a whole queue or spoils it.
LEMMA ReadCopyKeeps ==
    ASSUME UnboundedInv, NEW max \in CopySizes, ReadCopyUnbounded(max)
    PROVE  /\ UnboundedInv' /\ Whole /\ Len(u_queue) > 0
           /\ u_queue' = <<>> \/ Front'
<1>1. /\ CountUnbounded(max) > 0 /\ Valid(CountUnbounded(max))
      /\ u_queue' = Remainder(CountUnbounded(max))
      /\ u_status' = CountRead(u_status, CountUnbounded(max))
      /\ UNCHANGED <<u_read_buffer, u_loaned, u_arrivals, u_failures>>
  BY Zenon DEF ReadCopyUnbounded
<1>2. Len(u_queue) \in Nat /\ CountUnbounded(max) \in 0 .. Len(u_queue)
  BY Zenon, CountInQueue, QueueType DEF UnboundedInv
<1>3. CountUnbounded(max) \in 1 .. Len(u_queue)
  BY <1>1, <1>2
<1>4. /\ u_read_buffer' \in Seq(Message \cup {NULL})
      /\ u_loaned' \in BOOLEAN /\ UnboundedLoanInv'
  BY Zenon, <1>1 DEF UnboundedInv, UnboundedTypeOK, UnboundedLoanInv
<1>. QED BY <1>1, <1>2, <1>3, <1>4, TakeKeeps

\* A copy that fails changes nothing, or empties the first entry.
LEMMA ReadCopyFailsKeeps ==
    ASSUME UnboundedInv, NEW max \in CopySizes, NEW k \in 0 .. max - 1,
           ReadCopyFailsUnbounded(max, k)
    PROVE  /\ UnboundedInv'
           /\ u_queue' = u_queue \/ Front'
           /\ UNCHANGED <<u_read_buffer, u_arrivals>>
<1>. USE DEF UnboundedInv
<1>. DEFINE gone == IF u_loaned THEN k ELSE k + 1
<1>1. /\ k < CountUnbounded(max)
      /\ u_queue' = [i \in 1 .. Len(u_queue) |-> IF i <= gone THEN NULL ELSE u_queue[i]]
      /\ u_failures' = u_failures + 1
      /\ UNCHANGED <<u_read_buffer, u_loaned, u_status, u_arrivals>>
  BY Zenon DEF ReadCopyFailsUnbounded
<1>2. k \in Nat /\ CountUnbounded(max) \in 0 .. Len(u_queue) /\ Len(u_queue) \in Nat /\ gone \in Nat
  BY CountInQueue, QueueType
<1>. HIDE DEF gone
<1>3. Len(u_queue) > 0
  BY <1>1, <1>2
<1>4. \A i \in 1 .. Len(u_queue) :
          (IF i <= gone THEN NULL ELSE u_queue[i]) \in Message \cup {NULL}
  BY Zenon, QueueType
<1>5. u_queue' \in Seq(Message \cup {NULL}) /\ Len(u_queue') = Len(u_queue)
  BY <1>1, <1>2, <1>4
<1>6. UnboundedTypeOK'
  BY <1>1, <1>5 DEF UnboundedTypeOK
<1>7. UnboundedLoanInv' /\ UnboundedCountersBalanced'
  BY Zenon, <1>1 DEF UnboundedLoanInv, UnboundedCountersBalanced
<1>8. CASE gone = 0
  <2>1. u_queue' = u_queue
    <3>1. \A i \in 1 .. Len(u_queue) : u_queue'[i] = u_queue[i]
      BY <1>1, <1>2, <1>8
    <3>. QED BY Zenon, <1>5, <3>1, SeqEqual DEF UnboundedTypeOK
  <2>2. Whole \/ Front => Whole' \/ Front'
    BY Zenon, <1>1, <2>1 DEF Whole, Front
  <2>. QED BY Zenon, <1>1, <1>6, <1>7, <2>1, <2>2
<1>9. CASE gone # 0
  <2>1. 1 \in 1 .. Len(u_queue) /\ 1 <= gone
    BY <1>2, <1>3, <1>9
  <2>2. Front'
    BY Zenon, <1>1, <1>3, <1>5, <2>1 DEF Front
  <2>. QED BY Zenon, <1>1, <1>6, <1>7, <2>2
<1>. QED BY Zenon, <1>8, <1>9

\* The other steps leave the queue alone.
LEMMA OthersKeep ==
    ASSUME UnboundedInv, Crash \/ ReturnLoanUnbounded \/ UNCHANGED uvars
    PROVE  /\ UnboundedInv'
           /\ UNCHANGED <<u_queue, u_arrivals>>
           /\ u_read_buffer' = u_read_buffer \/ u_read_buffer' = <<>>
<1>1. /\ UNCHANGED <<u_queue, u_status, u_arrivals, u_failures>>
      /\ \/ UNCHANGED <<u_read_buffer, u_loaned>>
         \/ u_read_buffer' = <<>> /\ u_loaned' = FALSE
  BY Zenon DEF Crash, ReturnLoanUnbounded, uvars
<1>2. UnboundedTypeOK' /\ UnboundedLoanInv'
  <2>1. <<>> \in Seq(Message \cup {NULL})
    OBVIOUS
  <2>. QED BY Zenon, <1>1, <2>1 DEF UnboundedInv, UnboundedTypeOK, UnboundedLoanInv
<1>3. (Whole \/ Front)' /\ UnboundedCountersBalanced'
  BY Zenon, <1>1 DEF UnboundedInv, Whole, Front, UnboundedCountersBalanced
<1>. QED BY Zenon, <1>1, <1>2, <1>3 DEF UnboundedInv

\* The invariant holds of an empty queue ...
LEMMA UnboundedInitially == UnboundedInit => UnboundedInv
<1>. SUFFICES ASSUME UnboundedInit PROVE UnboundedInv
  OBVIOUS
<1>1. u_status \in Status /\ Balanced(u_status)
  BY Zenon, NoMessagesBalanced DEF UnboundedInit
<1>2. UnboundedTypeOK /\ UnboundedLoanInv
  <2>1. <<>> \in Seq(Message \cup {NULL})
    OBVIOUS
  <2>. QED BY Zenon, <1>1, <2>1 DEF UnboundedInit, UnboundedTypeOK, UnboundedLoanInv
<1>3. Whole
  <2>1. u_queue = <<>> /\ Len(u_queue) = 0 /\ u_arrivals = 0
    BY Zenon DEF UnboundedInit
  <2>2. Latest(0, 0) = <<>>
    BY LatestType
  <2>3. u_status.unread_count = 0 /\ Wrap(0) = 0
    BY ModulusAssumption, WrapType DEF UnboundedInit, NoMessages, Counter
  <2>. QED BY <2>1, <2>2, <2>3 DEF Whole
<1>4. UnboundedCountersBalanced
  BY Zenon, <1>1 DEF UnboundedCountersBalanced, UnboundedInit, NoMessages
<1>. QED BY Zenon, <1>2, <1>3, <1>4 DEF UnboundedInv

\* ... and every step preserves it.
LEMMA UnboundedStep == UnboundedInv /\ [UnboundedNext]_uvars => UnboundedInv'
  BY Zenon, ReceiveKeeps, ReadLoanKeeps, ReadCopyKeeps, ReadCopyFailsKeeps, OthersKeep
     DEF UnboundedNext

-----------------------------------------------------------------------------
(* Results about the growing queue.                                        *)

\* Until a copying read takes or fails on a part of it, the unbounded queue
\* holds the latest unread_count arrivals, in order, whatever their number and
\* although unread_count wraps (Message.c:466-531, 780-961).
THEOREM UnboundedBacklogCorrect == UnboundedSpec => []UnboundedBacklogIsLatest
<1>1. UnboundedInv => UnboundedBacklogIsLatest
  <2>. SUFFICES ASSUME UnboundedInv, ~Spoiled
                PROVE  /\ u_status.unread_count = Wrap(Len(u_queue))
                       /\ \A i \in 1 .. Len(u_queue) : u_queue[i] = u_arrivals - Len(u_queue) + i
    BY Zenon DEF UnboundedBacklogIsLatest
  <2>1. Whole /\ Len(u_queue) \in Nat /\ u_arrivals \in Nat
    BY UnspoiledIsWhole DEF UnboundedInv, UnboundedTypeOK
  <2>. QED BY Zenon, <2>1, LatestType DEF Whole
<1>. QED BY <1>1, UnboundedInitially, UnboundedStep, PTL DEF UnboundedSpec

\* The counters of the unbounded queue stay balanced across partial and failed
\* reads, and nothing is counted as lost (Message.c:601-606, 995-999).
THEOREM UnboundedBalanced == UnboundedSpec => []UnboundedCountersBalanced
<1>1. UnboundedInv => UnboundedCountersBalanced
  BY Zenon DEF UnboundedInv
<1>. QED BY <1>1, UnboundedInitially, UnboundedStep, PTL DEF UnboundedSpec

-----------------------------------------------------------------------------
(* Refinement.  A step that leaves the queue whole starts from a whole     *)
(* queue and is a step of MessageQueue; any other spoils the queue.        *)

\* A queue whose first entry has lost its message is spoiled.
LEMMA FrontSpoils == UnboundedInv /\ Front => Spoiled
  BY Zenon, FrontIsSpoiled DEF UnboundedInv

\* The same of the next state.
LEMMA FrontSpoilsNext == UnboundedInv' /\ Front' => Spoiled'
  BY FrontSpoils, PTL

\* A read of the whole queue takes the prefix of its length.
LEMMA TakeAllRefines ==
    ASSUME UnboundedInv, Len(u_queue) > 0, u_queue' = <<>>
    PROVE  /\ Len(u_queue) \in 1 .. Len(u_queue)
           /\ UnboundedAbstract!TakePrefix(Len(u_queue))
           /\ SubSeq(u_queue, 1, Len(u_queue)) = u_queue
<1>1. u_queue \in Seq(Message \cup {NULL}) /\ Len(u_queue) \in Nat
  BY DEF UnboundedInv, UnboundedTypeOK
<1>2. Len(u_queue) \in 1 .. Len(u_queue)
  BY <1>1
<1>3. SubSeq(u_queue, Len(u_queue) + 1, Len(u_queue)) = <<>>
  BY <1>1, SubSeqEmpty
<1>4. SubSeq(u_queue, 1, Len(u_queue)) = u_queue
  BY Zenon, <1>1, SubSeqFull
<1>. QED BY Zenon, <1>2, <1>3, <1>4 DEF UnboundedAbstract!TakePrefix

\* Every step of the growing queue is one of the abstract queue, or none.
LEMMA UnboundedStepRefines ==
    UnboundedInv /\ UnboundedInv' /\ [UnboundedNext]_uvars
        => [UnboundedAbstract!Next]_(UnboundedAbstract!vars)
<1>. SUFFICES ASSUME UnboundedInv, UnboundedInv', [UnboundedNext]_uvars
              PROVE  [UnboundedAbstract!Next]_(UnboundedAbstract!vars)
  BY Zenon
<1>1. CASE Spoiled'
  BY Zenon, <1>1 DEF UnboundedAbstract!Next
<1>2. CASE ~Spoiled'
  <2>1. ~Front'
    BY Zenon, <1>2, FrontSpoilsNext
  <2>2. Whole => ~Spoiled
    BY Zenon, WholeIsValid DEF UnboundedInv
  <2>3. ASSUME UnboundedAbstract!Step, Whole PROVE UnboundedAbstract!Next
    BY Zenon, <2>2, <2>3 DEF UnboundedAbstract!Next
  <2>4. CASE ReceiveUnbounded
    <3>1. Whole
      <4>1. ASSUME Front PROVE FALSE
        <5>1. /\ u_queue \in Seq(Message \cup {NULL})
              /\ u_queue' = Append(u_queue, u_arrivals + 1) /\ u_arrivals + 1 \in Message \cup {NULL}
          BY Zenon, <2>4 DEF ReceiveUnbounded, UnboundedInv, UnboundedTypeOK, Message
        <5>2. Len(u_queue') = Len(u_queue) + 1 /\ u_queue'[1] = u_queue[1]
          BY <4>1, <5>1, AppendProperties DEF Front
        <5>. QED BY <2>1, <4>1, <5>1, <5>2 DEF Front
      <4>. QED BY Zenon, <4>1 DEF UnboundedInv
    <3>2. Len(u_queue) < MaxReceived
      BY <2>4, <3>1, BoundAssumption DEF ReceiveUnbounded, Whole, UnboundedInv, UnboundedTypeOK
    <3>3. UnboundedAbstract!Receive
      BY Zenon, <2>4, <3>2 DEF ReceiveUnbounded, UnboundedAbstract!Receive
    <3>. QED BY Zenon, <2>3, <3>1, <3>3 DEF UnboundedAbstract!Step
  <2>5. CASE ReadLoanUnbounded
    <3>1. Whole /\ u_queue' = <<>> /\ Len(u_queue) > 0
      BY Zenon, <2>5, ReadLoanKeeps
    <3>2. u_read_buffer = <<>> /\ u_read_buffer' = u_queue /\ UNCHANGED u_arrivals
      BY Zenon, <2>5 DEF ReadLoanUnbounded, UnboundedInv, UnboundedLoanInv
    <3>3. UnboundedAbstract!ReadLoan(Len(u_queue)) /\ Len(u_queue) \in 1 .. Len(u_queue)
      BY Zenon, <3>1, <3>2, TakeAllRefines DEF UnboundedAbstract!ReadLoan
    <3>. QED BY Zenon, <2>3, <3>1, <3>3 DEF UnboundedAbstract!Step
  <2>6. ASSUME NEW max \in CopySizes, ReadCopyUnbounded(max) PROVE UnboundedAbstract!Next
    <3>1. Whole /\ u_queue' = <<>> /\ Len(u_queue) > 0
      BY Zenon, <2>1, <2>6, ReadCopyKeeps
    <3>2. UNCHANGED <<u_read_buffer, u_arrivals>>
      BY Zenon, <2>6 DEF ReadCopyUnbounded
    <3>3. UnboundedAbstract!ReadCopy(Len(u_queue)) /\ Len(u_queue) \in 1 .. Len(u_queue)
      BY Zenon, <3>1, <3>2, TakeAllRefines DEF UnboundedAbstract!ReadCopy
    <3>. QED BY Zenon, <2>3, <3>1, <3>3 DEF UnboundedAbstract!Step
  <2>7. ASSUME NEW max \in CopySizes, NEW k \in 0 .. max - 1, ReadCopyFailsUnbounded(max, k)
        PROVE  UNCHANGED <<u_queue, u_read_buffer, u_arrivals>>
    BY Zenon, <2>1, <2>7, ReadCopyFailsKeeps
  <2>8. ASSUME UNCHANGED <<u_queue, u_arrivals>>,
               u_read_buffer' = u_read_buffer \/ u_read_buffer' = <<>>
        PROVE  [UnboundedAbstract!Next]_(UnboundedAbstract!vars)
    <3>1. Spoiled' = Spoiled
      BY Zenon, <2>8 DEF Spoiled, Valid
    <3>2. CASE u_read_buffer' = u_read_buffer
      BY Zenon, <2>8, <3>1, <3>2 DEF UnboundedAbstract!vars
    <3>3. CASE u_read_buffer' = <<>>
      <4>1. Whole
        BY Zenon, <1>2, <3>1, UnspoiledIsWhole
      <4>. QED BY Zenon, <2>3, <2>8, <3>3, <4>1
                  DEF UnboundedAbstract!Step, UnboundedAbstract!ReturnLoan
    <3>. QED BY Zenon, <2>8, <3>2, <3>3
  <2>9. CASE \E max \in CopySizes : \E k \in 0 .. max - 1 : ReadCopyFailsUnbounded(max, k)
    BY Zenon, <2>7, <2>8, <2>9
  <2>10. CASE Crash \/ ReturnLoanUnbounded \/ UNCHANGED uvars
    BY Zenon, <2>8, <2>10, OthersKeep
  <2>. QED BY Zenon, <2>4, <2>5, <2>6, <2>9, <2>10 DEF UnboundedNext
<1>. QED BY Zenon, <1>1, <1>2

\* Until it is spoiled, the growing queue implements the first-in first-out
\* queue of module MessageQueue and drops nothing (Message.c:466-531, 780-961).
THEOREM UnboundedImplementsQueue == UnboundedSpec => UnboundedImplementsMessageQueue
<1>1. UnboundedInit => UnboundedAbstract!Init
  BY DEF UnboundedInit, UnboundedAbstract!Init, Spoiled, Valid
<1>. QED
  BY <1>1, UnboundedInitially, UnboundedStep, UnboundedStepRefines, PTL
     DEF UnboundedSpec, UnboundedImplementsMessageQueue, UnboundedAbstract!Spec

-----------------------------------------------------------------------------
(* An MQTT publication.  Until a write() times out (past = "prompt") there *)
(* is one answer at most on its way, pending_count is exact, and the       *)
(* callback, finding one message pending, counts a QoS 2 message once and  *)
(* keeps its result.  After that pending_count may be off, but the answers *)
(* are still counted as long as QoS 2, which consults pending_count, is    *)
(* not used.                                                               *)

PublicationStatus == [sent_count : Counter, pending_count : Counter,
                      ok_count : Counter, error_count : Counter]

PublicationTypeOK ==
    /\ at \in {"idle", "writing", "refused", "sent", "wait", "read"}
    /\ status \in PublicationStatus
    /\ trigger \in BOOLEAN
    /\ result \in {"OK", "ERROR"}
    /\ answer \in {"none", "awaited", "OK", "ERROR"}
    /\ late \in Nat
    /\ past \in {"prompt", "late", "mixed"}

\* Only a message that Paho took has an answer.
AnswersHaveWrites == answer = "none" <=> at \in {"idle", "writing", "refused"}

\* QoS 2 is not used once an answer was late.
QosIsCounted == past = "late" => qos # 2

\* No answer is late yet: the trigger and the result are those of the answer
\* to the message being written.
PromptInv ==
    past = "prompt" =>
        /\ late = 0
        /\ answer \in {"none", "awaited"} => ~trigger
        /\ answer \in {"OK", "ERROR"} => result = answer
        /\ at = "read" => answer \in {"OK", "ERROR"} /\ ~trigger

PublicationInv ==
    /\ PublicationTypeOK /\ AnswersHaveWrites /\ QosIsCounted /\ PromptInv
    /\ PendingIsUnanswered /\ AnswersCounted

-----------------------------------------------------------------------------
(* The updates of the counters.                                            *)

\* The record that counting an answer makes.
LEMMA CountAnswerFields ==
    ASSUME NEW s \in PublicationStatus, NEW r \in {"OK", "ERROR"}
    PROVE  /\ CountAnswer(s, r) \in PublicationStatus
           /\ CountAnswer(s, r).sent_count = s.sent_count
           /\ CountAnswer(s, r).pending_count = Wrap(s.pending_count - 1)
           /\ CountAnswer(s, r).ok_count = IF r = "OK" THEN Wrap(s.ok_count + 1) ELSE s.ok_count
           /\ CountAnswer(s, r).error_count =
                IF r = "OK" THEN s.error_count ELSE Wrap(s.error_count + 1)
<1>1. /\ s.sent_count \in Counter /\ s.pending_count \in Counter
      /\ s.ok_count \in Counter /\ s.error_count \in Counter
  BY Zenon DEF PublicationStatus
<1>2. /\ Wrap(s.pending_count - 1) \in Counter /\ Wrap(s.ok_count + 1) \in Counter
      /\ Wrap(s.error_count + 1) \in Counter
  BY <1>1, WrapType DEF Counter
<1>3. CountAnswer(s, r) =
        [sent_count |-> s.sent_count, pending_count |-> Wrap(s.pending_count - 1),
         ok_count |-> IF r = "OK" THEN Wrap(s.ok_count + 1) ELSE s.ok_count,
         error_count |-> IF r = "OK" THEN s.error_count ELSE Wrap(s.error_count + 1)]
  <2>1. CASE r = "OK"
    <3>1. CountAnswer(s, r) = [s EXCEPT !.pending_count = Wrap(@ - 1), !.ok_count = Wrap(@ + 1),
                                        !.error_count = @]
      BY Zenon, <2>1 DEF CountAnswer
    <3>. QED BY Zenon, <2>1, <3>1 DEF PublicationStatus
  <2>2. CASE r # "OK"
    <3>1. CountAnswer(s, r) = [s EXCEPT !.pending_count = Wrap(@ - 1), !.ok_count = @,
                                        !.error_count = Wrap(@ + 1)]
      BY Zenon, <2>2 DEF CountAnswer
    <3>. QED BY Zenon, <2>2, <3>1 DEF PublicationStatus
  <2>. QED BY Zenon, <2>1, <2>2
<1>. QED BY <1>1, <1>2, <1>3 DEF PublicationStatus

\* Adding the same to both sides of an equality of wrapped sums.
LEMMA WrapAdds ==
    ASSUME NEW a \in Int, NEW b \in Int, NEW d \in Int, Wrap(a) = Wrap(b)
    PROVE  Wrap(a + d) = Wrap(b + d)
<1>1. Wrap(Wrap(a) + d) = Wrap(a + d) /\ Wrap(Wrap(b) + d) = Wrap(b + d)
  BY Zenon, WrapInSum
<1>. QED BY Zenon, <1>1

\* One more answer is one message less without an answer.
LEMMA OneMoreAnswer ==
    ASSUME NEW o \in Counter, NEW e \in Counter, NEW u \in Int
    PROVE  /\ Wrap(Wrap(o + 1) + e + (u - 1)) = Wrap(o + e + u)
           /\ Wrap(o + Wrap(e + 1) + (u - 1)) = Wrap(o + e + u)
<1>1. o \in Int /\ e \in Int /\ Wrap(o + 1) \in Int /\ Wrap(e + 1) \in Int
  BY WrapType DEF Counter
<1>2. Wrap(Wrap(o + 1) + (e + (u - 1))) = Wrap((o + 1) + (e + (u - 1)))
  BY <1>1, WrapInSum
<1>3. Wrap(Wrap(e + 1) + (o + (u - 1))) = Wrap((e + 1) + (o + (u - 1)))
  BY <1>1, WrapInSum
<1>4. /\ Wrap(o + 1) + (e + (u - 1)) = Wrap(o + 1) + e + (u - 1)
      /\ Wrap(e + 1) + (o + (u - 1)) = o + Wrap(e + 1) + (u - 1)
      /\ (o + 1) + (e + (u - 1)) = o + e + u
      /\ (e + 1) + (o + (u - 1)) = o + e + u
  BY <1>1
<1>. QED BY Zenon, <1>2, <1>3, <1>4

\* A race with the writer can spoil pending_count and nothing else.
LEMMA RacedFields ==
    ASSUME PublicationTypeOK, NEW s \in PublicationStatus, NEW t \in Raced(s)
    PROVE  /\ t \in PublicationStatus
           /\ t.sent_count = s.sent_count
           /\ t.ok_count = s.ok_count /\ t.error_count = s.error_count
           /\ at \notin {"writing", "refused"} => t.pending_count = s.pending_count
<1>. DEFINE before == status.pending_count
            after == s.pending_count
            outcomes == CASE before = after -> {after}
                          [] at = "writing" -> {after, before, Wrap(after - 1)}
                          [] at = "refused" -> {after, before, Wrap(after + 1)}
                          [] OTHER -> {after}
<1>1. PICK p \in outcomes : t = [s EXCEPT !.pending_count = p]
  BY Zenon DEF Raced
<1>2. /\ before \in Counter /\ after \in Counter
      /\ Wrap(after - 1) \in Counter /\ Wrap(after + 1) \in Counter
  BY WrapType DEF PublicationTypeOK, PublicationStatus, Counter
<1>3. p \in Counter
  BY Zenon, <1>1, <1>2
<1>4. at \notin {"writing", "refused"} => p = after
  BY Zenon, <1>1
<1>5. t = [sent_count |-> s.sent_count, pending_count |-> p,
           ok_count |-> s.ok_count, error_count |-> s.error_count]
  BY Zenon, <1>1 DEF PublicationStatus
<1>. QED BY Zenon, <1>3, <1>4, <1>5 DEF PublicationStatus

\* Whatever the state, an answer leaves the counters counters.
LEMMA AnsweredType ==
    ASSUME PublicationTypeOK, NEW r \in {"OK", "ERROR"}
    PROVE  Answered(r).status \in PublicationStatus /\ Answered(r).result \in {"OK", "ERROR"}
<1>1. status \in PublicationStatus /\ CountAnswer(status, r) \in PublicationStatus
  BY Zenon, CountAnswerFields DEF PublicationTypeOK
<1>2. CountAnswer(CountAnswer(status, r), r) \in PublicationStatus
  BY Zenon, <1>1, CountAnswerFields
<1>. QED BY Zenon, <1>1, <1>2 DEF Answered, OnWriteResult

\* Unless QoS 2 meets late answers, an answer is counted once, and its result
\* is kept: for QoS 2 the one message pending is the one being answered.
LEMMA AnsweredOnce ==
    ASSUME PublicationInv, past # "mixed", answer = "awaited" \/ late > 0,
           NEW r \in {"OK", "ERROR"}
    PROVE  Answered(r).status = CountAnswer(status, r) /\ Answered(r).result = r
<1>1. CASE qos # 2
  BY Zenon, <1>1 DEF Answered, OnWriteResult
<1>2. CASE qos = 2
  <2>1. past = "prompt"
    BY Zenon, <1>2 DEF PublicationInv, PublicationTypeOK, QosIsCounted
  <2>2. late = 0 /\ answer = "awaited"
    BY <2>1 DEF PublicationInv, PromptInv
  <2>3. at # "writing"
    BY Zenon, <2>2 DEF PublicationInv, AnswersHaveWrites
  <2>4. status.pending_count = 1
    BY <2>1, <2>2, <2>3 DEF PublicationInv, PendingIsUnanswered, Unanswered
  <2>5. CountAnswer(status, r).pending_count = 0
    <3>1. CountAnswer(status, r).pending_count = Wrap(1 - 1)
      BY Zenon, <2>4, CountAnswerFields DEF PublicationInv, PublicationTypeOK
    <3>2. 1 - 1 = 0 /\ 0 \in Counter
      BY ModulusAssumption DEF Counter
    <3>. QED BY Zenon, <3>1, <3>2, WrapType
  <2>6. CASE r = "OK"
    BY <1>2, <2>4, <2>6 DEF Answered, OnWriteResult
  <2>7. CASE r = "ERROR"
    BY Zenon, <1>2, <2>5, <2>7 DEF Answered, OnWriteResult
  <2>. QED BY Zenon, <2>6, <2>7
<1>. QED BY Zenon, <1>1, <1>2

-----------------------------------------------------------------------------
(* The invariant, action by action.                                        *)

\* The fields of a status whose pending_count or sent_count is replaced.
LEMMA StatusExcept ==
    ASSUME NEW s \in PublicationStatus, NEW c \in Counter
    PROVE  /\ [s EXCEPT !.pending_count = c] \in PublicationStatus
           /\ [s EXCEPT !.pending_count = c].pending_count = c
           /\ [s EXCEPT !.pending_count = c].sent_count = s.sent_count
           /\ [s EXCEPT !.pending_count = c].ok_count = s.ok_count
           /\ [s EXCEPT !.pending_count = c].error_count = s.error_count
           /\ [s EXCEPT !.sent_count = c] \in PublicationStatus
           /\ [s EXCEPT !.sent_count = c].pending_count = s.pending_count
           /\ [s EXCEPT !.sent_count = c].sent_count = c
           /\ [s EXCEPT !.sent_count = c].ok_count = s.ok_count
           /\ [s EXCEPT !.sent_count = c].error_count = s.error_count
BY Zenon DEF PublicationStatus

\* The counters are numbers, and 0 and 1 are counters.
LEMMA CounterFacts ==
    ASSUME PublicationTypeOK
    PROVE  /\ status.sent_count \in Counter /\ status.pending_count \in Counter
           /\ status.ok_count \in Counter /\ status.error_count \in Counter
           /\ status.sent_count \in Int /\ status.pending_count \in Int
           /\ status.ok_count \in Int /\ status.error_count \in Int
           /\ Unanswered \in Nat
           /\ Wrap(0) = 0 /\ Wrap(1) = 1
<1>1. /\ status.sent_count \in Counter /\ status.pending_count \in Counter
      /\ status.ok_count \in Counter /\ status.error_count \in Counter
  BY Zenon DEF PublicationTypeOK, PublicationStatus
<1>2. Counter \subseteq Int /\ 0 \in Counter /\ 1 \in Counter
  BY ModulusAssumption DEF Counter
<1>3. Unanswered \in Nat
  BY DEF PublicationTypeOK, Unanswered
<1>. QED BY Zenon, <1>1, <1>2, <1>3, WrapType

\* write_w_params counts the message as pending.
LEMMA WriteKeeps ==
    ASSUME PublicationInv, NEW q, Write(q)
    PROVE  PublicationInv'
<1>. USE DEF PublicationInv
<1>1. /\ at = "idle" /\ at' = "writing" /\ qos' = q
      /\ past' = IF past # "prompt" /\ q = 2 THEN "mixed" ELSE past
      /\ UNCHANGED <<trigger, result, answer, late>>
  BY Zenon DEF Write
<1>2. /\ status' \in PublicationStatus
      /\ status'.pending_count = Wrap(status.pending_count + 1)
      /\ status'.sent_count = status.sent_count
      /\ status'.ok_count = status.ok_count /\ status'.error_count = status.error_count
  <2>1. Wrap(status.pending_count + 1) \in Counter
    BY CounterFacts, WrapType
  <2>2. status' = [status EXCEPT !.pending_count = Wrap(status.pending_count + 1)]
    BY Zenon DEF Write
  <2>. QED BY Zenon, <2>1, <2>2, StatusExcept DEF PublicationTypeOK
<1>3. PublicationTypeOK'
  BY Zenon, <1>1, <1>2 DEF PublicationTypeOK
<1>4. AnswersHaveWrites' /\ QosIsCounted' /\ PromptInv'
  BY Zenon, <1>1 DEF AnswersHaveWrites, QosIsCounted, PromptInv, PublicationTypeOK
<1>5. PendingIsUnanswered'
  <2>. SUFFICES ASSUME past' = "prompt" PROVE status'.pending_count = 1 /\ Unanswered' = 0
    BY <1>1 DEF PendingIsUnanswered, Unanswered
  <2>1. past = "prompt" /\ answer = "none"
    BY Zenon, <1>1 DEF AnswersHaveWrites
  <2>2. late = 0 /\ Unanswered = 0 /\ Unanswered' = 0
    BY <1>1, <2>1 DEF PromptInv, Unanswered
  <2>3. status.pending_count = 0
    BY <1>1, <2>1, <2>2 DEF PendingIsUnanswered
  <2>. QED BY <1>2, <2>2, <2>3, CounterFacts
<1>6. AnswersCounted'
  BY Zenon, <1>1, <1>2 DEF AnswersCounted, Unanswered
<1>. QED BY Zenon, <1>3, <1>4, <1>5, <1>6

\* Paho takes the message, or it is pending no longer.
LEMMA SendMessageKeeps ==
    ASSUME PublicationInv, SendMessage
    PROVE  PublicationInv'
<1>. USE DEF PublicationInv
<1>1. at = "writing" /\ answer = "none" /\ UNCHANGED <<qos, trigger, result, late, past>>
  BY Zenon DEF SendMessage, AnswersHaveWrites
<1>2. Unanswered = late /\ late \in Nat
  BY <1>1 DEF Unanswered, PublicationTypeOK
<1>3. CASE at' = "sent" /\ answer' = "awaited" /\ status' = status
  <2>1. Unanswered' = Unanswered + 1
    BY Zenon, <1>1, <1>2, <1>3 DEF Unanswered
  <2>2. PublicationTypeOK' /\ AnswersHaveWrites' /\ QosIsCounted' /\ PromptInv'
    BY Zenon, <1>1, <1>3
       DEF PublicationTypeOK, AnswersHaveWrites, QosIsCounted, PromptInv
  <2>3. PendingIsUnanswered'
    BY <1>1, <1>2, <1>3, <2>1 DEF PendingIsUnanswered
  <2>4. AnswersCounted'
    <3>. SUFFICES ASSUME past # "mixed"
                  PROVE  Wrap(status.sent_count + 1) =
                           Wrap(status.ok_count + status.error_count + (Unanswered + 1))
      BY Zenon, <1>1, <1>3, <2>1 DEF AnswersCounted
    <3>. DEFINE a == status.sent_count
                b == status.ok_count + status.error_count + Unanswered
    <3>1. a \in Int /\ b \in Int
      BY CounterFacts
    <3>2. Wrap(a) = Wrap(b)
      BY <1>1, <3>1, CounterFacts DEF AnswersCounted
    <3>3. Wrap(a + 1) = Wrap(b + 1)
      BY <3>1, <3>2, WrapAdds
    <3>4. b + 1 = status.ok_count + status.error_count + (Unanswered + 1)
      BY CounterFacts
    <3>. QED BY Zenon, <3>3, <3>4
  <2>. QED BY Zenon, <2>2, <2>3, <2>4
<1>4. CASE /\ at' = "refused" /\ answer' = answer
           /\ status' = [status EXCEPT !.pending_count = Wrap(@ - 1)]
  <2>1. Unanswered' = Unanswered
    BY Zenon, <1>1, <1>4 DEF Unanswered
  <2>2. /\ status' \in PublicationStatus
        /\ status'.pending_count = Wrap(status.pending_count - 1)
        /\ status'.sent_count = status.sent_count
        /\ status'.ok_count = status.ok_count /\ status'.error_count = status.error_count
    <3>1. Wrap(status.pending_count - 1) \in Counter
      BY CounterFacts, WrapType
    <3>2. status' = [status EXCEPT !.pending_count = Wrap(status.pending_count - 1)]
      BY Zenon, <1>4
    <3>. QED BY Zenon, <3>1, <3>2, StatusExcept DEF PublicationTypeOK
  <2>3. PublicationTypeOK' /\ AnswersHaveWrites' /\ QosIsCounted' /\ PromptInv'
    BY Zenon, <1>1, <1>4, <2>2
       DEF PublicationTypeOK, AnswersHaveWrites, QosIsCounted, PromptInv
  <2>4. PendingIsUnanswered'
    <3>. SUFFICES ASSUME past = "prompt" PROVE status'.pending_count = 0 /\ Unanswered = 0
      BY <1>1, <1>4, <2>1 DEF PendingIsUnanswered
    <3>1. Unanswered = 0 /\ status.pending_count = 1
      BY <1>1, <1>2 DEF PromptInv, PendingIsUnanswered
    <3>2. 1 - 1 = 0
      OBVIOUS
    <3>. QED BY Zenon, <2>2, <3>1, <3>2, CounterFacts
  <2>5. AnswersCounted'
    BY Zenon, <1>1, <1>4, <2>1, <2>2 DEF AnswersCounted
  <2>. QED BY <2>3, <2>4, <2>5
<1>. QED BY Zenon, <1>3, <1>4 DEF SendMessage

\* Returning from a refused write, and waking up.
LEMMA QuietKeeps ==
    ASSUME PublicationInv, WriteFails \/ Wake
    PROVE  PublicationInv'
<1>. USE DEF PublicationInv
<1>1. /\ \/ at = "refused" /\ at' = "idle" /\ trigger' = trigger
         \/ at = "wait" /\ trigger /\ at' = "read" /\ trigger' = FALSE
      /\ UNCHANGED <<qos, status, result, answer, late, past>>
  BY Zenon DEF WriteFails, Wake
<1>2. PublicationTypeOK' /\ AnswersHaveWrites' /\ QosIsCounted'
  BY Zenon, <1>1 DEF PublicationTypeOK, AnswersHaveWrites, QosIsCounted
<1>3. PromptInv'
  BY Zenon, <1>1 DEF PromptInv, PublicationTypeOK, AnswersHaveWrites
<1>4. PendingIsUnanswered' /\ AnswersCounted'
  BY Zenon, <1>1 DEF PendingIsUnanswered, AnswersCounted, Unanswered
<1>. QED BY Zenon, <1>2, <1>3, <1>4

\* The message Paho took is counted as sent.
LEMMA CountSentKeeps ==
    ASSUME PublicationInv, CountSent
    PROVE  PublicationInv'
<1>. USE DEF PublicationInv
<1>1. /\ at = "sent" /\ at' = "wait"
      /\ UNCHANGED <<qos, trigger, result, answer, late, past>>
  BY Zenon DEF CountSent
<1>2. /\ status' \in PublicationStatus
      /\ status'.sent_count = Wrap(status.sent_count + 1)
      /\ status'.pending_count = status.pending_count
      /\ status'.ok_count = status.ok_count /\ status'.error_count = status.error_count
  <2>1. Wrap(status.sent_count + 1) \in Counter
    BY CounterFacts, WrapType
  <2>2. status' = [status EXCEPT !.sent_count = Wrap(status.sent_count + 1)]
    BY Zenon DEF CountSent
  <2>. QED BY Zenon, <2>1, <2>2, StatusExcept DEF PublicationTypeOK
<1>3. PublicationTypeOK' /\ AnswersHaveWrites' /\ QosIsCounted' /\ PromptInv'
  BY Zenon, <1>1, <1>2 DEF PublicationTypeOK, AnswersHaveWrites, QosIsCounted, PromptInv
<1>4. PendingIsUnanswered'
  BY Zenon, <1>1, <1>2 DEF PendingIsUnanswered, Unanswered
<1>5. AnswersCounted'
  <2>1. Wrap(Wrap(status.sent_count + 1)) = Wrap(status.sent_count + 1)
    BY CounterFacts, WrapType
  <2>2. Wrap(Wrap(status.sent_count + 1) + 0) = Wrap(status.sent_count + 1)
    <3>1. Wrap(status.sent_count + 1) \in Int
      BY CounterFacts, WrapType DEF Counter
    <3>. QED BY <2>1, <3>1
  <2>. QED BY Zenon, <1>1, <1>2, <2>2 DEF AnswersCounted, Unanswered
<1>. QED BY <1>3, <1>4, <1>5

\* write() returns, with the answer or without it.
LEMMA LeaveKeeps ==
    ASSUME PublicationInv, TimeOut \/ ReturnResult
    PROVE  PublicationInv'
<1>. USE DEF PublicationInv
<1>1. /\ at \in {"wait", "read"} /\ at' = "idle" /\ answer' = "none"
      /\ late' = late + IF answer = "awaited" THEN 1 ELSE 0
      /\ UNCHANGED <<qos, status, trigger, result>>
      /\ at = "wait" => ~trigger
  BY Zenon DEF TimeOut, ReturnResult, Leave
<1>2. /\ past' \in {"prompt", "late", "mixed"}
      /\ past' = "prompt" => past = "prompt" /\ answer # "awaited"
      /\ past' # "mixed" => past # "mixed"
      /\ past' = "late" => qos # 2
  BY Zenon DEF TimeOut, ReturnResult, Leave, PublicationTypeOK, QosIsCounted
<1>3. Unanswered' = Unanswered
  BY <1>1 DEF Unanswered, PublicationTypeOK
<1>4. PublicationTypeOK' /\ AnswersHaveWrites' /\ QosIsCounted'
  BY <1>1, <1>2 DEF PublicationTypeOK, AnswersHaveWrites, QosIsCounted
<1>5. PromptInv'
  BY <1>1, <1>2 DEF PromptInv, PublicationTypeOK
<1>6. PendingIsUnanswered'
  BY Zenon, <1>1, <1>2, <1>3 DEF PendingIsUnanswered
<1>7. AnswersCounted'
  BY Zenon, <1>1, <1>2, <1>3 DEF AnswersCounted
<1>. QED BY Zenon, <1>4, <1>5, <1>6, <1>7

\* The callback, for the message being written or for one written before.
LEMMA CallbackKeeps ==
    ASSUME PublicationInv, NEW r \in {"OK", "ERROR"}, Answer(r) \/ LateAnswer(r)
    PROVE  PublicationInv'
<1>. USE DEF PublicationInv
<1>1. /\ status' \in Raced(Answered(r).status) /\ result' = Answered(r).result
      /\ trigger' = TRUE /\ UNCHANGED <<at, qos, past>>
      /\ \/ answer = "awaited" /\ answer' = r /\ late' = late
         \/ late > 0 /\ late' = late - 1 /\ answer' = answer
  BY Zenon DEF Answer, LateAnswer, Callback
<1>2. Answered(r).status \in PublicationStatus /\ result' \in {"OK", "ERROR"}
  BY Zenon, <1>1, AnsweredType
<1>3. /\ status' \in PublicationStatus
      /\ status'.sent_count = Answered(r).status.sent_count
      /\ status'.ok_count = Answered(r).status.ok_count
      /\ status'.error_count = Answered(r).status.error_count
      /\ at \notin {"writing", "refused"} =>
            status'.pending_count = Answered(r).status.pending_count
  BY Zenon, <1>1, <1>2, RacedFields
<1>4. PublicationTypeOK'
  BY <1>1, <1>2, <1>3 DEF PublicationTypeOK
<1>5. AnswersHaveWrites' /\ QosIsCounted'
  BY Zenon, <1>1 DEF AnswersHaveWrites, QosIsCounted
<1>6. Unanswered' = Unanswered - 1
  BY <1>1 DEF Unanswered, PublicationTypeOK
<1>7. past # "mixed" => Answered(r).status = CountAnswer(status, r) /\ result' = r
  BY Zenon, <1>1, AnsweredOnce
<1>8. past = "prompt" =>
        /\ late = 0 /\ late' = 0 /\ answer = "awaited" /\ answer' = r
        /\ at \in {"sent", "wait"}
  BY <1>1 DEF PromptInv, AnswersHaveWrites, PublicationTypeOK
<1>9. PromptInv'
  BY Zenon, <1>1, <1>7, <1>8 DEF PromptInv
<1>10. PendingIsUnanswered'
  <2>. SUFFICES ASSUME past = "prompt" PROVE status'.pending_count = 0 /\ Unanswered' = 0
    BY <1>1, <1>8 DEF PendingIsUnanswered
  <2>1. Unanswered = 1 /\ status.pending_count = 1
    BY <1>8 DEF Unanswered, PendingIsUnanswered
  <2>2. status'.pending_count = CountAnswer(status, r).pending_count
    BY Zenon, <1>3, <1>7, <1>8
  <2>3. CountAnswer(status, r).pending_count = Wrap(1 - 1)
    BY Zenon, <2>1, CountAnswerFields DEF PublicationTypeOK
  <2>4. 1 - 1 = 0
    OBVIOUS
  <2>. QED BY Zenon, <1>6, <2>1, <2>2, <2>3, <2>4, CounterFacts
<1>11. AnswersCounted'
  <2>. SUFFICES ASSUME past # "mixed"
                PROVE  Wrap(status'.sent_count + IF at = "sent" THEN 1 ELSE 0) =
                         Wrap(status'.ok_count + status'.error_count + (Unanswered - 1))
    BY Zenon, <1>1, <1>6 DEF AnswersCounted
  <2>1. /\ status'.sent_count = status.sent_count
        /\ status'.ok_count = IF r = "OK" THEN Wrap(status.ok_count + 1) ELSE status.ok_count
        /\ status'.error_count =
             IF r = "OK" THEN status.error_count ELSE Wrap(status.error_count + 1)
    BY <1>3, <1>7, CountAnswerFields DEF PublicationTypeOK
  <2>2. Wrap(status'.ok_count + status'.error_count + (Unanswered - 1)) =
          Wrap(status.ok_count + status.error_count + Unanswered)
    <3>. Unanswered \in Int
      BY CounterFacts
    <3>1. CASE r = "OK"
      BY SMTT(30), <2>1, <3>1, CounterFacts, OneMoreAnswer
    <3>2. CASE r # "OK"
      BY <2>1, <3>2, CounterFacts, OneMoreAnswer
    <3>. QED BY Zenon, <3>1, <3>2
  <2>. QED BY Zenon, <2>1, <2>2 DEF AnswersCounted
<1>. QED BY Zenon, <1>4, <1>5, <1>9, <1>10, <1>11

\* The invariant holds of a new publication ...
LEMMA PublicationInitially == PublicationInit => PublicationInv
<1>. SUFFICES ASSUME PublicationInit PROVE PublicationInv
  OBVIOUS
<1>1. status = [sent_count |-> 0, pending_count |-> 0, ok_count |-> 0, error_count |-> 0]
  BY Zenon DEF PublicationInit
<1>2. 0 \in Counter
  BY ModulusAssumption DEF Counter
<1>3. PublicationTypeOK
  <2>1. status \in PublicationStatus
    BY Zenon, <1>1, <1>2 DEF PublicationStatus
  <2>. QED BY Zenon, <2>1 DEF PublicationInit, PublicationTypeOK
<1>4. AnswersHaveWrites /\ QosIsCounted /\ PromptInv
  BY Zenon DEF PublicationInit, AnswersHaveWrites, QosIsCounted, PromptInv
<1>5. PendingIsUnanswered /\ AnswersCounted
  <2>1. /\ status.sent_count = 0 /\ status.pending_count = 0
        /\ status.ok_count = 0 /\ status.error_count = 0
    BY Zenon, <1>1
  <2>2. Unanswered = 0 /\ at = "idle"
    BY DEF PublicationInit, Unanswered
  <2>. QED BY <2>1, <2>2 DEF PendingIsUnanswered, AnswersCounted
<1>. QED BY Zenon, <1>3, <1>4, <1>5 DEF PublicationInv

\* ... and every step preserves it.
LEMMA PublicationStep == PublicationInv /\ [PublicationNext]_pubvars => PublicationInv'
<1>. SUFFICES ASSUME PublicationInv, [PublicationNext]_pubvars PROVE PublicationInv'
  OBVIOUS
<1>1. ASSUME NEW q \in QosLevels, Write(q) PROVE PublicationInv'
  BY Zenon, <1>1, WriteKeeps
<1>2. CASE SendMessage
  BY Zenon, <1>2, SendMessageKeeps
<1>3. CASE WriteFails \/ Wake
  BY Zenon, <1>3, QuietKeeps
<1>4. CASE CountSent
  BY <1>4, CountSentKeeps
<1>5. CASE TimeOut \/ ReturnResult
  BY Zenon, <1>5, LeaveKeeps
<1>6. ASSUME NEW r \in {"OK", "ERROR"}, Answer(r) \/ LateAnswer(r) PROVE PublicationInv'
  BY Zenon, <1>6, CallbackKeeps
<1>7. CASE UNCHANGED pubvars
  <2>1. PublicationTypeOK' /\ AnswersHaveWrites' /\ QosIsCounted' /\ PromptInv'
    BY <1>7
       DEF pubvars, PublicationInv, PublicationTypeOK, AnswersHaveWrites, QosIsCounted, PromptInv
  <2>2. PendingIsUnanswered' /\ AnswersCounted'
    BY Zenon, <1>7 DEF pubvars, PublicationInv, PendingIsUnanswered, AnswersCounted, Unanswered
  <2>. QED BY Zenon, <2>1, <2>2 DEF PublicationInv
<1>. QED BY <1>1, <1>2, <1>3, <1>4, <1>5, <1>6, <1>7 DEF PublicationNext, WriterStep

-----------------------------------------------------------------------------
(* Results about a publication.                                            *)

\* Every message Paho took is counted once as OK or as failed, or is still in
\* flight, until QoS 2 meets a late answer (Publication.c:216-289).
THEOREM AnswersCountedCorrect == PublicationSpec => []AnswersCounted
<1>1. PublicationInv => AnswersCounted
  BY Zenon DEF PublicationInv
<1>. QED BY <1>1, PublicationInitially, PublicationStep, PTL DEF PublicationSpec

\* pending_count is the number of messages without an answer until a write()
\* times out (Publication.c:429, 445, 227, 277).
THEOREM PendingCorrect == PublicationSpec => []PendingIsUnanswered
<1>1. PublicationInv => PendingIsUnanswered
  BY Zenon DEF PublicationInv
<1>. QED BY <1>1, PublicationInitially, PublicationStep, PTL DEF PublicationSpec

\* write() returns the answer to its own message until one times out
\* (Publication.c:452, Client.c:368).
THEOREM WriteReportCorrect == PublicationSpec => WriteReportsItsAnswer
<1>1. PublicationInv =>
        (past = "prompt" /\ at = "read" /\ at' # "read" => (result = "OK" <=> answer = "OK"))
  BY Zenon DEF PublicationInv, PromptInv
<1>. QED BY <1>1, PublicationInitially, PublicationStep, PTL
            DEF PublicationSpec, WriteReportsItsAnswer
=============================================================================
