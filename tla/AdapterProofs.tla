--------------------------- MODULE AdapterProofs ----------------------------
(***************************************************************************)
(* Kafka's stream reader, which polls from a thread of its own, for any    *)
(* messages and any number of faults; and the entities of the MQTT         *)
(* adapter, for any number of connections, readers and writers.            *)
(***************************************************************************)
EXTENDS KafkaReader, MqttAdapter, TLAPS

-----------------------------------------------------------------------------
(* KafkaOneTurn and KafkaPayloadIsLive.  What makes them inductive: who    *)
(* has the turn is counted over five places at once; a reader that does    *)
(* not exist has no thread and no read; a read is only under way on a      *)
(* reader that is ready; and the payload is that of the last message from  *)
(* the moment it was fetched, not only while it is read.                   *)

KafkaTypeOK ==
    /\ kr_reader \in {"none", "ready", "joining"}
    /\ poll_pc \in {"none", "top", "take", "poll", "notify", "give", "ended"}
    /\ session_pc \in {"idle", "wait", "copy", "loaned"}
    /\ run_thread \in BOOLEAN /\ poll_sem \in BOOLEAN /\ read_sem \in BOOLEAN
    /\ kr_lost \in BOOLEAN
    /\ kr_fetched \in Nat

\* The five places the turn may be at.
ThreadHasTurn == poll_pc \in {"poll", "notify", "give"}
SessionHasTurn == session_pc \in {"copy", "loaned"}

TurnExists ==
    poll_sem \/ ThreadHasTurn \/ read_sem \/ SessionHasTurn \/ kr_lost

TurnIsOne ==
    /\ poll_sem => ~ThreadHasTurn /\ ~read_sem /\ ~SessionHasTurn /\ ~kr_lost
    /\ ThreadHasTurn => ~read_sem /\ ~SessionHasTurn /\ ~kr_lost
    /\ read_sem => ~SessionHasTurn /\ ~kr_lost
    /\ SessionHasTurn => ~kr_lost

\* A reader that does not exist has nothing under way; a read is only under
\* way on a reader that is ready.
NothingWithoutReader ==
    /\ kr_reader = "none" => /\ poll_pc = "none" /\ session_pc = "idle"
                             /\ ~poll_sem /\ ~read_sem /\ ~kr_lost
    /\ session_pc # "idle" => kr_reader = "ready"

\* From fetching to returning the loan the payload is the last message's.
PayloadFollows ==
    /\ \/ poll_pc \in {"notify", "give"} \/ read_sem \/ SessionHasTurn
       => payload = rkm /\ rkm \in kr_live /\ rkm = kr_fetched
    /\ session_pc = "loaned" => kr_sample = rkm

KafkaInvariant ==
    /\ KafkaTypeOK
    /\ kr_reader # "none" => TurnExists
    /\ TurnIsOne /\ NothingWithoutReader /\ PayloadFollows

-----------------------------------------------------------------------------

\* The invariant holds before a reader is created (KafkaConnection.c).
LEMMA KafkaInitially == KafkaReaderInit => KafkaInvariant
<1>1. KafkaReaderInit => KafkaTypeOK
  <2>1. KafkaReaderInit =>
            /\ run_thread \in BOOLEAN /\ poll_sem \in BOOLEAN
            /\ read_sem \in BOOLEAN /\ kr_lost \in BOOLEAN
    BY Zenon DEF KafkaReaderInit
  <2>2. KafkaReaderInit => kr_fetched \in Nat
    BY SMT DEF KafkaReaderInit
  <2>3. KafkaReaderInit =>
            kr_reader = "none" /\ poll_pc = "none" /\ session_pc = "idle"
    BY Zenon DEF KafkaReaderInit
  <2>. QED BY Zenon, <2>1, <2>2, <2>3 DEF KafkaTypeOK
<1>2. KafkaReaderInit => TurnIsOne /\ NothingWithoutReader /\ PayloadFollows
  BY Zenon DEF KafkaReaderInit, TurnIsOne, ThreadHasTurn, SessionHasTurn,
         NothingWithoutReader, PayloadFollows
<1>3. KafkaReaderInit => kr_reader = "none"
  BY Zenon DEF KafkaReaderInit
<1>. QED BY Zenon, <1>1, <1>2, <1>3 DEF KafkaInvariant

\* Creating, deleting and joining keep the invariant (KafkaConnection.c).
LEMMA LifecycleKeeps ==
    KafkaInvariant /\ (CreateStreamReader \/ DeleteStreamReader \/ JoinPollingThread)
        => KafkaInvariant'
<1>. SUFFICES ASSUME KafkaInvariant,
                     CreateStreamReader \/ DeleteStreamReader \/ JoinPollingThread
              PROVE  KafkaInvariant'
  BY Zenon
<1>. USE DEF KafkaInvariant, KafkaTypeOK, TurnExists, TurnIsOne, ThreadHasTurn,
             SessionHasTurn, NothingWithoutReader, PayloadFollows, topic
<1>1. CASE CreateStreamReader
  BY Zenon, <1>1 DEF CreateStreamReader, StartPolling
<1>2. CASE DeleteStreamReader
  BY Zenon, <1>2 DEF DeleteStreamReader
<1>3. CASE JoinPollingThread
  BY Zenon, <1>3 DEF JoinPollingThread, CleanupStreamReader
<1>. QED BY Zenon, <1>1, <1>2, <1>3

\* The polling thread keeps the invariant (KafkaStreamReader.c:42).
LEMMA PollingKeeps == KafkaInvariant /\ PollingThread => KafkaInvariant'
<1>. SUFFICES ASSUME KafkaInvariant, PollingThread
              PROVE  KafkaInvariant'
  BY Zenon
<1>. USE DEF KafkaInvariant, KafkaTypeOK, TurnExists, TurnIsOne, ThreadHasTurn,
             SessionHasTurn, NothingWithoutReader, PayloadFollows, topic
<1>1. CASE PollTop
  BY Zenon, <1>1 DEF PollTop
<1>2. CASE PollTake
  BY Zenon, <1>2 DEF PollTake
<1>3. CASE PollTimeout
  BY Zenon, <1>3 DEF PollTimeout
<1>4. CASE PollError
  BY <1>4 DEF PollError, ErrorCleanup, AfterError
<1>5. CASE PollMessage
  BY <1>5 DEF PollMessage
<1>6. CASE PollNotify
  BY Zenon, <1>6 DEF PollNotify
<1>7. CASE PollGive
  BY Zenon, <1>7 DEF PollGive
<1>. QED BY Zenon, <1>1, <1>2, <1>3, <1>4, <1>5, <1>6, <1>7 DEF PollingThread

\* The session, and producers, keep the invariant (KafkaStreamReader.c:142).
LEMMA SessionKeeps == KafkaInvariant /\ (SessionThread \/ Produce) => KafkaInvariant'
<1>. SUFFICES ASSUME KafkaInvariant, SessionThread \/ Produce
              PROVE  KafkaInvariant'
  BY Zenon
<1>. USE DEF KafkaInvariant, KafkaTypeOK, TurnExists, TurnIsOne, ThreadHasTurn,
             SessionHasTurn, NothingWithoutReader, PayloadFollows, topic
<1>1. CASE ReadCall
  BY Zenon, <1>1 DEF ReadCall
<1>2. CASE ReadTake
  BY Zenon, <1>2 DEF ReadTake
<1>3. CASE CopyPayload
  BY Zenon, <1>3 DEF CopyPayload
<1>4. CASE CopyFails
  BY Zenon, <1>4 DEF CopyFails
<1>5. CASE KafkaReturnLoan
  BY Zenon, <1>5 DEF KafkaReturnLoan
<1>6. CASE Produce
  BY Zenon, <1>6 DEF Produce
<1>. QED BY Zenon, <1>1, <1>2, <1>3, <1>4, <1>5, <1>6 DEF SessionThread

\* Every behaviour of the Kafka reader satisfies the invariant.
THEOREM KafkaInvariantHolds == KafkaReaderSpec => []KafkaInvariant
<1>1. KafkaInvariant /\ [KafkaReaderNext]_kreader => KafkaInvariant'
  <2>. SUFFICES ASSUME KafkaInvariant, [KafkaReaderNext]_kreader
                PROVE  KafkaInvariant'
    BY Zenon
  <2>1. CASE KafkaReaderNext
    BY Zenon, <2>1, LifecycleKeeps, PollingKeeps, SessionKeeps DEF KafkaReaderNext
  <2>2. CASE UNCHANGED kreader
    BY Zenon, <2>2 DEF kreader, KafkaInvariant, KafkaTypeOK, TurnExists, TurnIsOne,
                ThreadHasTurn, SessionHasTurn, NothingWithoutReader, PayloadFollows
  <2>. QED BY Zenon, <2>1, <2>2
<1>. QED BY <1>1, KafkaInitially, PTL DEF KafkaReaderSpec

-----------------------------------------------------------------------------

\* The two semaphores pass a single turn between the polling thread and the
\* session, for any messages and faults (KafkaStreamReader.c:53-136, 168-190,
\* 193-220).
THEOREM OneTurn == KafkaReaderSpec => []KafkaOneTurn
<1>1. KafkaInvariant => KafkaOneTurn
  <2>. SUFFICES ASSUME KafkaInvariant, kr_reader # "none"
                PROVE  \E h \in KafkaTurn : KafkaTurn = {h}
    BY Zenon DEF KafkaOneTurn
  <2>. USE DEF KafkaTurn, KafkaInvariant, TurnIsOne, ThreadHasTurn, SessionHasTurn
  <2>1. CASE poll_sem
    <3>1. KafkaTurn = {"poll_sem"}
      BY Zenon, <2>1
    <3>. QED BY Zenon, <3>1
  <2>2. CASE ThreadHasTurn
    <3>1. KafkaTurn = {"thread"}
      BY Zenon, <2>2
    <3>. QED BY Zenon, <3>1
  <2>3. CASE read_sem
    <3>1. KafkaTurn = {"read_sem"}
      BY Zenon, <2>3
    <3>. QED BY Zenon, <3>1
  <2>4. CASE SessionHasTurn
    <3>1. KafkaTurn = {"session"}
      BY Zenon, <2>4
    <3>. QED BY Zenon, <3>1
  <2>5. CASE kr_lost
    <3>1. KafkaTurn = {"lost"}
      BY Zenon, <2>5
    <3>. QED BY Zenon, <3>1
  <2>. QED BY Zenon, <2>1, <2>2, <2>3, <2>4, <2>5 DEF TurnExists
<1>. QED BY <1>1, KafkaInvariantHolds, PTL

\* The bytes a read copies are those of the last message fetched, which is not
\* destroyed before its loan is returned, for any messages and faults
\* (KafkaStreamReader.c:176-220).
THEOREM PayloadIsLive == KafkaReaderSpec => []KafkaPayloadIsLive
<1>1. KafkaInvariant => KafkaPayloadIsLive
  BY Zenon DEF KafkaInvariant, PayloadFollows, SessionHasTurn, KafkaPayloadIsLive
<1>. QED BY <1>1, KafkaInvariantHolds, PTL

-----------------------------------------------------------------------------
(* MqttEntitiesAreListed.  The invariant adds to it what a creation relies *)
(* on while it waits for the broker: it is the only call on its owner, the *)
(* length it has read is still that of the list, and its owner exists.     *)

MqttTypeOK ==
    /\ mq_plugin \in BOOLEAN
    /\ mq_list \in [Owners -> Seq(Objects)]
    /\ mq_owner \in [Objects -> Owners \cup {NoOwner}]
    /\ mq_call \in [Objects -> [owner : Owners \cup {NoOwner}, length : Nat]]

\* An object is of the kind its owner keeps, and its owner exists.
OwnersExist ==
    \A x \in Objects : mq_owner[x] # NoOwner =>
        x \in Kept(mq_owner[x]) /\ Exists(mq_owner[x])

\* A creation in progress is the only call on an owner that exists, and the
\* list has the length it has read.
CallsAreCurrent ==
    \A x \in Objects : mq_call[x].owner # NoOwner =>
        /\ x \in Kept(mq_call[x].owner) /\ Exists(mq_call[x].owner)
        /\ mq_call[x].length = Len(mq_list[mq_call[x].owner])
        /\ mq_owner[x] = NoOwner
        /\ \A y \in Objects : mq_call[y].owner = mq_call[x].owner => y = x

ListsAreExact ==
    \A o \in Owners :
        /\ IsInjective(mq_list[o])
        /\ Exists(o) => Range(mq_list[o]) = {x \in Kept(o) : mq_owner[x] = o}

EntitiesInv == MqttTypeOK /\ OwnersExist /\ CallsAreCurrent /\ ListsAreExact

-----------------------------------------------------------------------------
(* The owners and the operations on a list.                                *)

\* An owner is the plugin or a list of a connection, and keeps objects.
LEMMA OwnerFacts ==
    /\ NoOwner \notin Owners /\ Plugin \in Owners
    /\ \A o \in Owners : /\ Kept(o) \subseteq Objects
                         /\ o # Plugin => o[1] \in MqttConnections
                         /\ o = Plugin \/ o[2] \in {"readers", "writers"}
                         /\ o = <<o[1], o[2]>>
    /\ \A o \in Owners, x \in Objects : o[1] = x => x \in MqttConnections /\ o # Plugin
    /\ Kept(Plugin) = MqttConnections
BY MqttAssumption DEF Owners, Plugin, NoOwner, Kept, Objects

\* Writing an object behind the last entry adds it.
LEMMA StoreAdds ==
    ASSUME NEW list \in Seq(Objects), IsInjective(list),
           NEW x \in Objects, x \notin Range(list)
    PROVE  /\ StoreAt(list, Len(list), x) \in Seq(Objects)
           /\ IsInjective(StoreAt(list, Len(list), x))
           /\ Range(StoreAt(list, Len(list), x)) = Range(list) \cup {x}
<1>. DEFINE n == Len(list)
            new == StoreAt(list, n, x)
<1>1. n \in Nat /\ DOMAIN list = 1 .. n /\ \A i \in 1 .. n : list[i] \in Objects
  OBVIOUS
<1>2. /\ DOMAIN new = 1 .. n + 1
      /\ \A i \in 1 .. n : new[i] = list[i]
      /\ new[n + 1] = x
  BY <1>1 DEF StoreAt
<1>3. new \in [1 .. n + 1 -> Objects]
  BY <1>1 DEF StoreAt
<1>4. new \in Seq(Objects)
  BY <1>1, <1>3
<1>5. \A i \in 1 .. n : list[i] # x
  BY Zenon, <1>1 DEF Range
<1>6. ASSUME NEW i \in 1 .. n + 1, NEW j \in 1 .. n + 1, new[i] = new[j] PROVE i = j
  <2>1. CASE i \in 1 .. n /\ j \in 1 .. n
    BY Zenon, <1>1, <1>2, <1>6, <2>1 DEF IsInjective
  <2>2. CASE i = n + 1 \/ j = n + 1
    BY <1>1, <1>2, <1>5, <1>6, <2>2
  <2>. QED BY <1>1, <2>1, <2>2
<1>7. IsInjective(new)
  BY Zenon, <1>2, <1>6 DEF IsInjective
<1>8. Range(new) = Range(list) \cup {x}
  BY <1>1, <1>2 DEF Range
<1>. QED BY Zenon, <1>4, <1>7, <1>8

\* Moving the entries behind an object to the left removes it, and only it.
LEMMA ShiftRemoves ==
    ASSUME NEW list \in Seq(Objects), IsInjective(list),
           NEW x \in Objects, x \in Range(list)
    PROVE  /\ ShiftLeft(list, x) \in Seq(Objects)
           /\ IsInjective(ShiftLeft(list, x))
           /\ Range(ShiftLeft(list, x)) = Range(list) \ {x}
<1>. DEFINE n == Len(list)
            First(i) == list[i] = x /\ \A j \in 1 .. i - 1 : list[j] # x
            rm == CHOOSE i \in DOMAIN list : First(i)
            new == ShiftLeft(list, x)
<1>1. n \in Nat /\ DOMAIN list = 1 .. n /\ \A i \in 1 .. n : list[i] \in Objects
  OBVIOUS
<1>2. PICK k \in 1 .. n : list[k] = x
  BY DEF Range
<1>3. \A j \in 1 .. n : list[j] = x => j = k
  BY Zenon, <1>1, <1>2 DEF IsInjective
<1>4. First(k)
  BY <1>1, <1>2, <1>3
<1>5. rm \in DOMAIN list /\ First(rm)
  BY Zenon, <1>1, <1>4
<1>6. rm = k
  BY Zenon, <1>1, <1>3, <1>5
<1>7. new = [i \in 1 .. n - 1 |-> IF i < k THEN list[i] ELSE list[i + 1]]
  BY Zenon, <1>6 DEF ShiftLeft
<1>. HIDE DEF new, rm
<1>8. new \in [1 .. n - 1 -> Objects] /\ n - 1 \in Nat
  BY <1>1, <1>7
<1>9. new \in Seq(Objects)
  BY <1>8
<1>10. /\ DOMAIN new = 1 .. n - 1
       /\ \A i \in 1 .. n - 1 : new[i] = IF i < k THEN list[i] ELSE list[i + 1]
  BY Zenon, <1>7
<1>11. ASSUME NEW i \in 1 .. n - 1, NEW j \in 1 .. n - 1, new[i] = new[j] PROVE i = j
  <2>. DEFINE Old(m) == IF m < k THEN m ELSE m + 1
  <2>1. Old(i) \in 1 .. n /\ Old(j) \in 1 .. n
    BY <1>1
  <2>2. list[Old(i)] = list[Old(j)]
    BY Zenon, <1>10, <1>11
  <2>3. Old(i) = Old(j)
    BY Zenon, <1>1, <2>1, <2>2 DEF IsInjective
  <2>. QED BY <1>1, <2>3
<1>12. IsInjective(new)
  BY Zenon, <1>10, <1>11 DEF IsInjective
<1>13. ASSUME NEW y \in Range(new) PROVE y \in Range(list) \ {x}
  <2>1. PICK i \in 1 .. n - 1 : y = new[i]
    BY Zenon, <1>10 DEF Range
  <2>2. CASE i < k
    BY SMTT(30), <1>1, <1>3, <1>10, <2>1, <2>2 DEF Range
  <2>3. CASE i >= k
    <3>1. y = list[i + 1] /\ i + 1 \in 1 .. n /\ i + 1 # k
      BY <1>1, <1>10, <2>1, <2>3
    <3>. QED BY Zenon, <1>1, <1>3, <3>1 DEF Range
  <2>. QED BY <1>1, <2>2, <2>3
<1>14. ASSUME NEW y \in Range(list) \ {x} PROVE y \in Range(new)
  <2>1. PICK i \in 1 .. n : y = list[i]
    BY Zenon, <1>1 DEF Range
  <2>2. i # k
    BY Zenon, <1>2, <1>14, <2>1
  <2>3. CASE i < k
    <3>1. i \in 1 .. n - 1 /\ new[i] = y
      BY <1>1, <1>10, <2>1, <2>3
    <3>. QED BY Zenon, <1>10, <3>1 DEF Range
  <2>4. CASE i > k
    <3>1. i - 1 \in 1 .. n - 1 /\ new[i - 1] = list[(i - 1) + 1] /\ (i - 1) + 1 = i
      BY <1>1, <1>10, <2>4
    <3>. QED BY Zenon, <1>10, <2>1, <3>1 DEF Range
  <2>. QED BY <1>1, <2>2, <2>3, <2>4
<1>. QED BY Zenon, <1>9, <1>12, <1>13, <1>14 DEF new

-----------------------------------------------------------------------------
(* The invariant, action by action.                                        *)

\* Initially nothing exists.
LEMMA MqttInitially == MqttInit => EntitiesInv
<1>. SUFFICES ASSUME MqttInit PROVE EntitiesInv
  BY Zenon
<1>1. MqttTypeOK
  <2>1. mq_plugin \in BOOLEAN
    BY Zenon DEF MqttInit
  <2>2. mq_list \in [Owners -> Seq(Objects)]
    BY DEF MqttInit
  <2>3. mq_owner \in [Objects -> Owners \cup {NoOwner}]
    BY Zenon DEF MqttInit
  <2>4. mq_call \in [Objects -> [owner : Owners \cup {NoOwner}, length : Nat]]
    BY Zenon DEF MqttInit, NoCall
  <2>. QED BY Zenon, <2>1, <2>2, <2>3, <2>4 DEF MqttTypeOK
<1>2. OwnersExist /\ CallsAreCurrent
  BY Zenon DEF MqttInit, OwnersExist, CallsAreCurrent, NoCall
<1>3. ASSUME NEW o \in Owners PROVE IsInjective(mq_list[o]) /\ ~Exists(o)
  <2>1. mq_list[o] = <<>>
    BY Zenon DEF MqttInit
  <2>2. IsInjective(mq_list[o])
    BY <2>1 DEF IsInjective
  <2>3. ~Exists(o)
    <3>1. CASE o = Plugin
      BY Zenon, <3>1 DEF MqttInit, Exists
    <3>2. CASE o # Plugin
      <4>1. o[1] \in Objects /\ NoOwner # Plugin
        BY Zenon, <3>2, OwnerFacts DEF Objects
      <4>. QED BY Zenon, <3>2, <4>1 DEF MqttInit, Exists
    <3>. QED BY Zenon, <3>1, <3>2
  <2>. QED BY Zenon, <2>2, <2>3
<1>. QED BY Zenon, <1>1, <1>2, <1>3 DEF EntitiesInv, ListsAreExact

\* A creation that begins is the only one on its owner.
LEMMA BeginKeeps ==
    ASSUME EntitiesInv, NEW o \in Owners, NEW x \in Kept(o), BeginCreate(o, x)
    PROVE  EntitiesInv'
<1>. USE DEF EntitiesInv
<1>1. x \in Objects
  BY Zenon, OwnerFacts
<1>2. /\ Exists(o) /\ ~Calling(o) /\ mq_owner[x] = NoOwner /\ mq_call[x] = NoCall
      /\ mq_call' = [mq_call EXCEPT ![x] = [owner |-> o, length |-> Len(mq_list[o])]]
      /\ UNCHANGED <<mq_plugin, mq_list, mq_owner>>
  BY Zenon DEF BeginCreate, Vacant
<1>3. Len(mq_list[o]) \in Nat
  BY DEF MqttTypeOK
<1>4. MqttTypeOK'
  BY Zenon, <1>1, <1>2, <1>3 DEF MqttTypeOK
<1>5. \A p \in Owners : Exists(p)' <=> Exists(p)
  BY Zenon, <1>2 DEF Exists
<1>6. OwnersExist' /\ ListsAreExact'
  BY Zenon, <1>2, <1>5 DEF OwnersExist, ListsAreExact, Exists
<1>7. /\ mq_call'[x] = [owner |-> o, length |-> Len(mq_list[o])]
      /\ \A y \in Objects \ {x} : mq_call'[y] = mq_call[y]
  BY Zenon, <1>1, <1>2 DEF MqttTypeOK
<1>8. \A y \in Objects \ {x} : mq_call[y].owner # o
  BY Zenon, <1>2 DEF Calling
<1>9. ASSUME NEW y \in Objects, mq_call'[y].owner # NoOwner
      PROVE  /\ y \in Kept(mq_call'[y].owner) /\ Exists(mq_call'[y].owner)
             /\ mq_call'[y].length = Len(mq_list[mq_call'[y].owner])
             /\ mq_owner[y] = NoOwner
             /\ \A z \in Objects : mq_call'[z].owner = mq_call'[y].owner => z = y
  <2>1. CASE y = x
    <3>1. mq_call'[y].owner = o /\ mq_call'[y].length = Len(mq_list[o])
      BY <1>7, <2>1
    <3>2. \A z \in Objects : mq_call'[z].owner = o => z = y
      BY Zenon, <1>7, <1>8, <2>1
    <3>. QED BY Zenon, <1>2, <2>1, <3>1, <3>2
  <2>2. CASE y # x
    <3>1. mq_call'[y] = mq_call[y] /\ mq_call[y].owner # o
      BY Zenon, <1>7, <1>8, <2>2
    <3>. QED BY SMTT(30), <1>7, <1>9, <3>1 DEF CallsAreCurrent
  <2>. QED BY Zenon, <2>1, <2>2
<1>10. CallsAreCurrent'
  BY Zenon, <1>2, <1>9 DEF CallsAreCurrent, Exists
<1>. QED BY Zenon, <1>4, <1>6, <1>10

\* A creation that fails leaves everything else as it was.
LEMMA FailKeeps ==
    ASSUME EntitiesInv, NEW o \in Owners, NEW x \in Kept(o), FailCreate(o, x)
    PROVE  EntitiesInv'
<1>. USE DEF EntitiesInv
<1>1. x \in Objects
  BY OwnerFacts
<1>2. /\ mq_call' = [mq_call EXCEPT ![x] = NoCall]
      /\ UNCHANGED <<mq_plugin, mq_list, mq_owner>>
  BY Zenon DEF FailCreate
<1>3. MqttTypeOK'
  BY Zenon, <1>1, <1>2 DEF MqttTypeOK, NoCall
<1>4. OwnersExist' /\ ListsAreExact'
  BY Zenon, <1>2 DEF OwnersExist, ListsAreExact, Exists
<1>5. mq_call'[x] = NoCall /\ \A y \in Objects \ {x} : mq_call'[y] = mq_call[y]
  BY Zenon, <1>1, <1>2 DEF MqttTypeOK
<1>6. CallsAreCurrent'
  BY <1>2, <1>5 DEF CallsAreCurrent, Exists, NoCall
<1>. QED BY <1>3, <1>4, <1>6

\* OwnersExist and CallsAreCurrent after a step, owner by owner.
LEMMA OwnersStay ==
    ASSUME MqttTypeOK',
           \A y \in Objects, p \in Owners :
               mq_owner'[y] = p => y \in Kept(p) /\ Exists(p)'
    PROVE  OwnersExist'
BY Zenon DEF MqttTypeOK, OwnersExist, Exists

\* What is left to show of the calls in progress.
LEMMA CallsStay ==
    ASSUME MqttTypeOK',
           \A y \in Objects, p \in Owners : mq_call'[y].owner = p =>
               /\ y \in Kept(p) /\ Exists(p)'
               /\ mq_call'[y].length = Len(mq_list'[p])
               /\ mq_owner'[y] = NoOwner
               /\ \A z \in Objects : mq_call'[z].owner = p => z = y
    PROVE  CallsAreCurrent'
BY DEF MqttTypeOK, CallsAreCurrent, Exists

\* A creation that succeeds writes behind the last entry of the list, which
\* has not changed since its length was read.
LEMMA EndKeeps ==
    ASSUME EntitiesInv, NEW o \in Owners, NEW x \in Kept(o), EndCreate(o, x)
    PROVE  EntitiesInv'
<1>. USE DEF EntitiesInv
<1>. DEFINE new == StoreAt(mq_list[o], Len(mq_list[o]), x)
<1>1. x \in Objects
  BY OwnerFacts
<1>2. /\ mq_call[x].owner = o /\ o # NoOwner
      /\ mq_call[x].length = Len(mq_list[o]) /\ Exists(o)
      /\ mq_owner[x] = NoOwner
      /\ \A y \in Objects \ {x} : mq_call[y].owner # o
  <2>1. mq_call[x].owner = o /\ o # NoOwner
    BY Zenon, OwnerFacts DEF EndCreate
  <2>. QED BY Zenon, <1>1, <2>1 DEF CallsAreCurrent
<1>3. /\ mq_list' = [p \in Owners |->
                        IF p = o THEN new ELSE IF p[1] = x THEN <<>> ELSE mq_list[p]]
      /\ mq_owner' = [mq_owner EXCEPT ![x] = o]
      /\ mq_call' = [mq_call EXCEPT ![x] = NoCall]
      /\ UNCHANGED mq_plugin
  BY Zenon, <1>2 DEF EndCreate
<1>4. mq_list[o] \in Seq(Objects) /\ IsInjective(mq_list[o])
  BY Zenon DEF MqttTypeOK, ListsAreExact
<1>5. Range(mq_list[o]) = {y \in Kept(o) : mq_owner[y] = o} /\ x \notin Range(mq_list[o])
  BY Zenon, <1>2 DEF ListsAreExact
<1>6. new \in Seq(Objects) /\ IsInjective(new) /\ Range(new) = Range(mq_list[o]) \cup {x}
  BY Zenon, <1>1, <1>4, <1>5, StoreAdds
<1>. HIDE DEF new
<1>7. MqttTypeOK'
  <2>1. mq_list' \in [Owners -> Seq(Objects)]
    <3>1. \A p \in Owners : mq_list'[p] \in Seq(Objects)
      BY <1>3, <1>6 DEF MqttTypeOK
    <3>. QED BY Zenon, <1>3, <3>1
  <2>2. mq_owner' \in [Objects -> Owners \cup {NoOwner}]
    BY Zenon, <1>1, <1>3 DEF MqttTypeOK
  <2>3. mq_call' \in [Objects -> [owner : Owners \cup {NoOwner}, length : Nat]]
    BY Zenon, <1>1, <1>3 DEF MqttTypeOK, NoCall
  <2>. QED BY Zenon, <1>3, <2>1, <2>2, <2>3 DEF MqttTypeOK
<1>8. /\ mq_owner'[x] = o /\ mq_call'[x] = NoCall
      /\ \A y \in Objects \ {x} : mq_owner'[y] = mq_owner[y] /\ mq_call'[y] = mq_call[y]
  BY Zenon, <1>1, <1>3 DEF MqttTypeOK
<1>9. \A p \in Owners : Exists(p) => Exists(p)'
  <2>. SUFFICES ASSUME NEW p \in Owners, Exists(p) PROVE Exists(p)'
    BY Zenon
  <2>1. CASE p = Plugin
    BY Zenon, <1>3, <2>1 DEF Exists
  <2>2. CASE p # Plugin
    <3>1. p[1] \in Objects /\ mq_owner[p[1]] = Plugin /\ Plugin # NoOwner
      BY Zenon, <2>2, OwnerFacts DEF Exists, Objects
    <3>. QED BY Zenon, <1>2, <1>8, <2>2, <3>1 DEF Exists
  <2>. QED BY Zenon, <2>1, <2>2
<1>10. OwnersExist'
  <2>1. ASSUME NEW y \in Objects, NEW p \in Owners, mq_owner'[y] = p
        PROVE  y \in Kept(p) /\ Exists(p)'
    <3>1. CASE y = x
      BY Zenon, <1>2, <1>8, <1>9, <2>1, <3>1
    <3>2. CASE y # x
      <4>1. mq_owner[y] = p /\ p # NoOwner
        BY Zenon, <1>8, <2>1, <3>2, OwnerFacts
      <4>2. y \in Kept(p) /\ Exists(p)
        BY Zenon, <4>1 DEF OwnersExist
      <4>. QED BY Zenon, <1>9, <4>2
    <3>. QED BY Zenon, <3>1, <3>2
  <2>. QED BY Zenon, <1>7, <2>1, OwnersStay
<1>11. \A p \in Owners : p # o /\ Exists(p) => mq_list'[p] = mq_list[p]
  <2>. SUFFICES ASSUME NEW p \in Owners, p # o, Exists(p) PROVE p[1] # x
    BY Zenon, <1>3
  <2>1. Plugin # NoOwner
    BY Zenon, OwnerFacts
  <2>. QED BY Zenon, <1>1, <1>2, <2>1, OwnerFacts DEF Exists
<1>12. CallsAreCurrent'
  <2>1. ASSUME NEW y \in Objects, NEW p \in Owners, mq_call'[y].owner = p
        PROVE  /\ y \in Kept(p) /\ Exists(p)'
               /\ mq_call'[y].length = Len(mq_list'[p])
               /\ mq_owner'[y] = NoOwner
               /\ \A z \in Objects : mq_call'[z].owner = p => z = y
    <3>1. p # NoOwner
      BY Zenon, OwnerFacts
    <3>2. y # x
      BY <1>8, <2>1, <3>1 DEF NoCall
    <3>3. mq_call'[y] = mq_call[y] /\ mq_call[y].owner = p /\ p # o
      BY Zenon, <1>2, <1>8, <2>1, <3>2
    <3>4. /\ y \in Kept(p) /\ Exists(p) /\ mq_call[y].length = Len(mq_list[p])
          /\ mq_owner[y] = NoOwner
          /\ \A z \in Objects : mq_call[z].owner = p => z = y
      BY Zenon, <3>1, <3>3 DEF CallsAreCurrent
    <3>5. \A z \in Objects : mq_call'[z].owner = p => z = y
      BY SMTT(30), <1>8, <3>1, <3>4 DEF NoCall
    <3>. QED BY Zenon, <1>8, <1>9, <1>11, <3>2, <3>3, <3>4, <3>5
  <2>. QED BY Zenon, <1>7, <2>1, CallsStay
<1>13. ListsAreExact'
  <2>. SUFFICES ASSUME NEW p \in Owners
                PROVE  /\ IsInjective(mq_list'[p])
                       /\ Exists(p)' =>
                              Range(mq_list'[p]) = {y \in Kept(p) : mq_owner'[y] = p}
    BY Zenon DEF ListsAreExact, Exists
  <2>1. Kept(p) \subseteq Objects
    BY Zenon, OwnerFacts
  <2>2. CASE p = o
    BY <1>3, <1>5, <1>6, <1>8, <2>1, <2>2
  <2>3. CASE p # o /\ p[1] = x
    <3>1. mq_list'[p] = <<>>
      BY Zenon, <1>3, <2>3
    <3>2. IsInjective(<<>>) /\ Range(<<>>) = {}
      BY DEF IsInjective, Range
    <3>3. p # Plugin /\ Plugin # NoOwner
      BY Zenon, <1>1, <2>3, OwnerFacts
    <3>4. ~Exists(p)
      BY Zenon, <1>2, <2>3, <3>3 DEF Exists
    <3>5. \A y \in Kept(p) : mq_owner[y] # p
      BY <2>1, <3>4, OwnerFacts DEF OwnersExist
    <3>6. \A y \in Kept(p) : mq_owner'[y] # p
      BY Zenon, <1>8, <2>1, <2>3, <3>5
    <3>. QED BY Zenon, <3>1, <3>2, <3>6
  <2>4. CASE p # o /\ p[1] # x
    <3>1. mq_list'[p] = mq_list[p]
      BY Zenon, <1>3, <2>4
    <3>2. IsInjective(mq_list[p])
      BY Zenon DEF ListsAreExact
    <3>3. Exists(p)' => Exists(p)
      <4>1. p = Plugin \/ p[1] \in Objects
        BY Zenon, OwnerFacts DEF Objects
      <4>. QED BY Zenon, <1>3, <1>8, <2>4, <4>1 DEF Exists
    <3>4. \A y \in Kept(p) : mq_owner'[y] = p <=> mq_owner[y] = p
      BY Zenon, <1>2, <1>8, <2>1, <2>4, OwnerFacts
    <3>5. Exists(p) => Range(mq_list[p]) = {y \in Kept(p) : mq_owner[y] = p}
      BY Zenon DEF ListsAreExact
    <3>. QED BY Zenon, <3>1, <3>2, <3>3, <3>4, <3>5
  <2>. QED BY Zenon, <2>2, <2>3, <2>4
<1>. QED BY Zenon, <1>7, <1>10, <1>12, <1>13

\* A deletion takes its object, and nothing else, from the list of its owner.
\* A connection is deleted when it has no streams.
LEMMA DeleteKeeps ==
    ASSUME EntitiesInv, NEW o \in Owners, NEW x \in Kept(o), DeleteEntry(o, x),
           x \in MqttConnections => ~HasStreams(x)
    PROVE  EntitiesInv'
<1>. USE DEF EntitiesInv
<1>. DEFINE new == ShiftLeft(mq_list[o], x)
<1>1. x \in Objects /\ o # NoOwner
  BY Zenon, OwnerFacts
<1>2. /\ mq_owner[x] = o /\ x \in Range(mq_list[o])
      /\ \A y \in Objects : mq_call[y].owner # o
      /\ mq_list' = [mq_list EXCEPT ![o] = new]
      /\ mq_owner' = [mq_owner EXCEPT ![x] = NoOwner]
      /\ UNCHANGED <<mq_plugin, mq_call>>
  BY Zenon DEF DeleteEntry, Vacant, Calling
<1>3. mq_list[o] \in Seq(Objects) /\ IsInjective(mq_list[o])
  BY Zenon DEF MqttTypeOK, ListsAreExact
<1>4. new \in Seq(Objects) /\ IsInjective(new) /\ Range(new) = Range(mq_list[o]) \ {x}
  BY Zenon, <1>1, <1>2, <1>3, ShiftRemoves
<1>. HIDE DEF new
<1>5. MqttTypeOK'
  BY Zenon, <1>1, <1>2, <1>4 DEF MqttTypeOK
<1>6. /\ mq_owner'[x] = NoOwner
      /\ \A y \in Objects \ {x} : mq_owner'[y] = mq_owner[y]
  BY Zenon, <1>1, <1>2 DEF MqttTypeOK
<1>7. mq_list'[o] = new /\ \A p \in Owners \ {o} : mq_list'[p] = mq_list[p]
  BY Zenon, <1>2 DEF MqttTypeOK
<1>8. \A p \in Owners : p[1] # x /\ Exists(p) => Exists(p)'
  <2>. SUFFICES ASSUME NEW p \in Owners, p[1] # x, Exists(p) PROVE Exists(p)'
    BY Zenon
  <2>1. CASE p = Plugin
    BY Zenon, <1>2, <2>1 DEF Exists
  <2>2. CASE p # Plugin
    <3>1. p[1] \in Objects
      BY Zenon, <2>2, OwnerFacts DEF Objects
    <3>. QED BY Zenon, <1>6, <2>2, <3>1 DEF Exists
  <2>. QED BY Zenon, <2>1, <2>2
<1>9. \A p \in Owners : Exists(p)' => Exists(p)
  <2>. SUFFICES ASSUME NEW p \in Owners, Exists(p)' PROVE Exists(p)
    BY Zenon
  <2>1. CASE p = Plugin
    BY Zenon, <1>2, <2>1 DEF Exists
  <2>2. CASE p # Plugin
    <3>1. p[1] \in Objects /\ Plugin # NoOwner
      BY Zenon, <2>2, OwnerFacts DEF Objects
    <3>2. mq_owner'[p[1]] = Plugin
      BY Zenon, <2>2 DEF Exists
    <3>. QED BY Zenon, <1>6, <2>2, <3>1, <3>2 DEF Exists
  <2>. QED BY Zenon, <2>1, <2>2
<1>10. \A y \in Objects, p \in Owners :
           mq_owner[y] = p \/ mq_call[y].owner = p => p[1] # x
  <2>. SUFFICES ASSUME NEW y \in Objects, NEW p \in Owners,
                       mq_owner[y] = p \/ mq_call[y].owner = p, p[1] = x
                PROVE  FALSE
    BY Zenon
  <2>1. /\ x \in MqttConnections /\ p # NoOwner
        /\ p = <<x, p[2]>> /\ p[2] \in {"readers", "writers"}
    BY Zenon, <1>1, OwnerFacts
  <2>2. ~HasStreams(x)
    BY Zenon, <2>1
  <2>. QED BY Zenon, <2>1, <2>2 DEF HasStreams, Calling
<1>11. OwnersExist'
  <2>1. ASSUME NEW y \in Objects, NEW p \in Owners, mq_owner'[y] = p
        PROVE  y \in Kept(p) /\ Exists(p)'
    <3>1. mq_owner[y] = p /\ p # NoOwner
      BY Zenon, <1>6, <2>1, OwnerFacts
    <3>2. y \in Kept(p) /\ Exists(p)
      BY Zenon, <3>1 DEF OwnersExist
    <3>. QED BY Zenon, <1>8, <1>10, <3>1, <3>2
  <2>. QED BY Zenon, <1>5, <2>1, OwnersStay
<1>12. CallsAreCurrent'
  <2>1. ASSUME NEW y \in Objects, NEW p \in Owners, mq_call'[y].owner = p
        PROVE  /\ y \in Kept(p) /\ Exists(p)'
               /\ mq_call'[y].length = Len(mq_list'[p])
               /\ mq_owner'[y] = NoOwner
               /\ \A z \in Objects : mq_call'[z].owner = p => z = y
    <3>1. mq_call' = mq_call /\ mq_call[y].owner = p /\ p # NoOwner /\ p # o
      BY Zenon, <1>2, <2>1, OwnerFacts
    <3>2. /\ y \in Kept(p) /\ Exists(p) /\ mq_call[y].length = Len(mq_list[p])
          /\ mq_owner[y] = NoOwner
          /\ \A z \in Objects : mq_call[z].owner = p => z = y
      BY Zenon, <3>1 DEF CallsAreCurrent
    <3>. QED BY Zenon, <1>6, <1>7, <1>8, <1>10, <3>1, <3>2
  <2>. QED BY Zenon, <1>5, <2>1, CallsStay
<1>13. ListsAreExact'
  <2>. SUFFICES ASSUME NEW p \in Owners
                PROVE  /\ IsInjective(mq_list'[p])
                       /\ Exists(p)' =>
                              Range(mq_list'[p]) = {y \in Kept(p) : mq_owner'[y] = p}
    BY Zenon DEF ListsAreExact, Exists
  <2>1. Kept(p) \subseteq Objects /\ p # NoOwner
    BY Zenon, OwnerFacts
  <2>2. /\ IsInjective(mq_list[p])
        /\ Exists(p) => Range(mq_list[p]) = {y \in Kept(p) : mq_owner[y] = p}
    BY Zenon DEF ListsAreExact
  <2>3. CASE p = o
    BY Zenon, <1>4, <1>6, <1>7, <1>9, <2>1, <2>2, <2>3
  <2>4. CASE p # o
    BY <1>2, <1>6, <1>7, <1>9, <2>1, <2>2, <2>4
  <2>. QED BY Zenon, <2>3, <2>4
<1>. QED BY Zenon, <1>5, <1>11, <1>12, <1>13

\* Without a plugin there is nothing.
LEMMA NothingWithoutPlugin ==
    ASSUME EntitiesInv, ~mq_plugin
    PROVE  /\ \A x \in Objects : mq_owner[x] = NoOwner /\ mq_call[x].owner = NoOwner
           /\ \A p \in Owners : ~Exists(p)
<1>. USE DEF EntitiesInv
<1>1. ASSUME NEW p \in Owners PROVE ~Exists(p)
  <2>1. CASE p = Plugin
    BY Zenon, <2>1 DEF Exists
  <2>2. CASE p # Plugin
    <3>. SUFFICES ASSUME mq_owner[p[1]] = Plugin PROVE FALSE
      BY Zenon, <2>2 DEF Exists
    <3>1. p[1] \in Objects /\ Plugin # NoOwner
      BY Zenon, <2>2, OwnerFacts DEF Objects
    <3>2. Exists(Plugin)
      BY Zenon, <3>1 DEF OwnersExist
    <3>. QED BY Zenon, <3>2 DEF Exists
  <2>. QED BY Zenon, <2>1, <2>2
<1>. QED BY Zenon, <1>1 DEF MqttTypeOK, OwnersExist, CallsAreCurrent

\* A plugin begins without connections.
LEMMA PluginCreateKeeps ==
    ASSUME EntitiesInv, AdapterPluginCreate
    PROVE  EntitiesInv'
<1>. USE DEF EntitiesInv
<1>1. /\ ~mq_plugin /\ mq_plugin' = TRUE
      /\ mq_list' = [mq_list EXCEPT ![Plugin] = <<>>]
      /\ UNCHANGED <<mq_call, mq_owner>>
  BY Zenon DEF AdapterPluginCreate
<1>2. \A x \in Objects : mq_owner'[x] = NoOwner /\ mq_call'[x].owner = NoOwner
  BY Zenon, <1>1, NothingWithoutPlugin
<1>3. MqttTypeOK'
  <2>1. mq_list' \in [Owners -> Seq(Objects)]
    BY <1>1, OwnerFacts DEF MqttTypeOK
  <2>. QED BY Zenon, <1>1, <2>1 DEF MqttTypeOK
<1>4. OwnersExist' /\ CallsAreCurrent'
  BY Zenon, <1>2 DEF OwnersExist, CallsAreCurrent
<1>5. ListsAreExact'
  <2>. SUFFICES ASSUME NEW p \in Owners
                PROVE  /\ IsInjective(mq_list'[p])
                       /\ Exists(p)' =>
                              Range(mq_list'[p]) = {y \in Kept(p) : mq_owner'[y] = p}
    BY Zenon DEF ListsAreExact, Exists
  <2>1. Kept(p) \subseteq Objects /\ p # NoOwner /\ Plugin # NoOwner
    BY Zenon, OwnerFacts
  <2>2. CASE p = Plugin
    <3>1. mq_list'[p] = <<>>
      BY Zenon, <1>1, <2>2 DEF MqttTypeOK
    <3>2. IsInjective(<<>>) /\ Range(<<>>) = {}
      BY DEF IsInjective, Range
    <3>. QED BY Zenon, <1>2, <2>1, <3>1, <3>2
  <2>3. CASE p # Plugin
    <3>1. mq_list'[p] = mq_list[p] /\ p[1] \in Objects
      BY Zenon, <1>1, <2>3, OwnerFacts DEF MqttTypeOK, Objects
    <3>2. ~Exists(p)'
      BY Zenon, <1>2, <2>1, <2>3, <3>1 DEF Exists
    <3>. QED BY Zenon, <3>1, <3>2 DEF ListsAreExact
  <2>. QED BY Zenon, <2>2, <2>3
<1>. QED BY Zenon, <1>3, <1>4, <1>5

\* Deleting the plugin deletes every connection there is.
LEMMA PluginDeleteKeeps ==
    ASSUME EntitiesInv, AdapterPluginDelete
    PROVE  EntitiesInv'
<1>. USE DEF EntitiesInv
<1>1. /\ mq_plugin /\ mq_plugin' = FALSE /\ ~Calling(Plugin)
      /\ \A c \in MqttConnections : ~HasStreams(c)
      /\ mq_owner' = [x \in Objects |->
                         IF x \in Range(mq_list[Plugin]) THEN NoOwner ELSE mq_owner[x]]
      /\ mq_list' = [mq_list EXCEPT ![Plugin] = <<>>]
      /\ mq_call' = mq_call
  BY Zenon DEF AdapterPluginDelete
<1>2. ASSUME NEW x \in Objects, NEW p \in Owners,
             mq_owner[x] = p \/ mq_call[x].owner = p
      PROVE  p = Plugin /\ mq_owner[x] = Plugin
  <2>1. p # NoOwner
    BY Zenon, OwnerFacts
  <2>2. ASSUME p # Plugin PROVE FALSE
    <3>1. /\ p[1] \in MqttConnections /\ p[2] \in {"readers", "writers"}
          /\ p = <<p[1], p[2]>>
      BY Zenon, <2>2, OwnerFacts
    <3>2. ~HasStreams(p[1])
      BY Zenon, <1>1, <3>1
    <3>. QED BY Zenon, <1>2, <2>1, <3>1, <3>2 DEF HasStreams, Calling
  <2>. QED BY Zenon, <1>1, <1>2, <2>2 DEF Calling
<1>3. ASSUME NEW x \in Objects
      PROVE  mq_owner'[x] = NoOwner /\ mq_call'[x].owner = NoOwner
  <2>1. mq_call[x].owner = NoOwner
    <3>1. mq_call[x].owner \in Owners \cup {NoOwner}
      BY Zenon DEF MqttTypeOK
    <3>2. ~Calling(Plugin)
      BY Zenon, <1>1
    <3>. QED BY Zenon, <1>2, <3>1, <3>2 DEF Calling
  <2>2. CASE mq_owner[x] = NoOwner
    BY Zenon, <1>1, <2>1, <2>2
  <2>3. CASE mq_owner[x] # NoOwner
    <3>1. mq_owner[x] = Plugin
      BY Zenon, <1>2, <2>3 DEF MqttTypeOK
    <3>2. x \in Kept(Plugin) /\ Exists(Plugin)
      BY Zenon, <2>3, <3>1 DEF OwnersExist
    <3>3. x \in Range(mq_list[Plugin])
      BY <3>1, <3>2, OwnerFacts DEF ListsAreExact
    <3>4. mq_list[Plugin] \in Seq(Objects)
      BY Zenon, OwnerFacts DEF MqttTypeOK
    <3>5. x \in Range(mq_list[Plugin])
      BY Zenon, <3>3, <3>4 DEF Range
    <3>. QED BY Zenon, <1>1, <2>1, <3>5
  <2>. QED BY Zenon, <2>2, <2>3
<1>4. MqttTypeOK'
  <2>1. mq_list' \in [Owners -> Seq(Objects)]
    BY <1>1, OwnerFacts DEF MqttTypeOK
  <2>2. mq_owner' \in [Objects -> Owners \cup {NoOwner}]
    BY Zenon, <1>1 DEF MqttTypeOK
  <2>. QED BY Zenon, <1>1, <2>1, <2>2 DEF MqttTypeOK
<1>5. OwnersExist' /\ CallsAreCurrent'
  BY Zenon, <1>3 DEF OwnersExist, CallsAreCurrent
<1>6. ListsAreExact'
  <2>. SUFFICES ASSUME NEW p \in Owners PROVE IsInjective(mq_list'[p]) /\ ~Exists(p)'
    BY Zenon DEF ListsAreExact, Exists
  <2>1. CASE p = Plugin
    <3>1. mq_list'[p] = <<>>
      BY Zenon, <1>1, <2>1 DEF MqttTypeOK
    <3>2. IsInjective(<<>>)
      BY DEF IsInjective
    <3>. QED BY Zenon, <1>1, <2>1, <3>1, <3>2 DEF Exists
  <2>2. CASE p # Plugin
    <3>1. mq_list'[p] = mq_list[p] /\ p[1] \in Objects /\ Plugin # NoOwner
      BY Zenon, <1>1, <2>2, OwnerFacts DEF MqttTypeOK, Objects
    <3>2. ~Exists(p)'
      BY Zenon, <1>3, <2>2, <3>1 DEF Exists
    <3>. QED BY Zenon, <3>1, <3>2 DEF ListsAreExact
  <2>. QED BY Zenon, <2>1, <2>2
<1>. QED BY <1>4, <1>5, <1>6

\* Every step keeps the invariant.
LEMMA EntitiesStep == EntitiesInv /\ [MqttNext]_mqvars => EntitiesInv'
<1>. SUFFICES ASSUME EntitiesInv, [MqttNext]_mqvars PROVE EntitiesInv'
  OBVIOUS
<1>1. CASE AdapterPluginCreate
  BY Zenon, <1>1, PluginCreateKeeps
<1>2. CASE AdapterPluginDelete
  BY Zenon, <1>2, PluginDeleteKeeps
<1>3. ASSUME NEW c \in MqttConnections, CreateConnection(c) PROVE EntitiesInv'
  <2>1. Plugin \in Owners /\ c \in Kept(Plugin)
    BY Zenon, OwnerFacts
  <2>. QED BY Zenon, <1>3, <2>1, BeginKeeps, EndKeeps, FailKeeps DEF CreateConnection
<1>4. ASSUME NEW c \in MqttConnections, DeleteConnection(c) PROVE EntitiesInv'
  <2>1. Plugin \in Owners /\ c \in Kept(Plugin)
    BY OwnerFacts
  <2>. QED BY Zenon, <1>4, <2>1, DeleteKeeps DEF DeleteConnection
<1>5. ASSUME NEW c \in MqttConnections, NEW r \in MqttReaders,
             CreateMqttReader(c, r) \/ DeleteMqttReader(c, r)
      PROVE  EntitiesInv'
  <2>. DEFINE o == <<c, "readers">>
  <2>1. o \in Owners /\ r \in Kept(o) /\ r \notin MqttConnections
    BY Zenon, MqttAssumption DEF Owners, Kept
  <2>2. BeginCreate(o, r) \/ EndCreate(o, r) \/ FailCreate(o, r) \/ DeleteEntry(o, r)
    BY Zenon, <1>5 DEF CreateMqttReader, DeleteMqttReader
  <2>. HIDE DEF o
  <2>. QED BY Zenon, <2>1, <2>2, BeginKeeps, EndKeeps, FailKeeps, DeleteKeeps
<1>6. ASSUME NEW c \in MqttConnections, NEW w \in MqttWriters,
             CreateMqttWriter(c, w) \/ DeleteMqttWriter(c, w)
      PROVE  EntitiesInv'
  <2>. DEFINE o == <<c, "writers">>
  <2>1. o \in Owners /\ w \in Kept(o) /\ w \notin MqttConnections
    BY Zenon, MqttAssumption DEF Owners, Kept
  <2>2. BeginCreate(o, w) \/ EndCreate(o, w) \/ FailCreate(o, w) \/ DeleteEntry(o, w)
    BY Zenon, <1>6 DEF CreateMqttWriter, DeleteMqttWriter
  <2>. HIDE DEF o
  <2>. QED BY <2>1, <2>2, BeginKeeps, EndKeeps, FailKeeps, DeleteKeeps
<1>7. CASE UNCHANGED mqvars
  BY Zenon, <1>7 DEF mqvars, EntitiesInv, MqttTypeOK, OwnersExist, CallsAreCurrent,
              ListsAreExact, Exists
<1>. QED BY Zenon, <1>1, <1>2, <1>3, <1>4, <1>5, <1>6, <1>7 DEF MqttNext

\* However many connections, readers and writers come and go, with creations
\* that wait, fail or overlap with calls on other owners, every list of the
\* adapter holds exactly the objects created in it and not deleted, and
\* without a plugin no object is left.
THEOREM EntitiesAreListed == MqttSpec => []MqttEntitiesAreListed
<1>1. EntitiesInv => MqttEntitiesAreListed
  BY Zenon, NothingWithoutPlugin DEF EntitiesInv, ListsAreExact, MqttEntitiesAreListed
<1>. QED BY <1>1, MqttInitially, EntitiesStep, PTL DEF MqttSpec

=============================================================================
