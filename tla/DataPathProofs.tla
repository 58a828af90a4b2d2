--------------------------- MODULE DataPathProofs ---------------------------
(***************************************************************************)
(* Proofs about what happens to a sample between an adapter and DDS: the   *)
(* list of a plugin's transformations, the pool and the buffer of one      *)
(* transformation, and the forwarding processor.                           *)
(***************************************************************************)
EXTENDS Transformation, TransformationPlugin, ForwardingProcessor, Integers,
        SequenceTheorems, FiniteSetTheorems, WellFoundedInduction, TLAPS

-----------------------------------------------------------------------------
(* Induction.                                                              *)

\* A set of natural numbers that has an element has a least one.
LEMMA LeastNumber ==
    ASSUME NEW T, T \subseteq Nat, T # {}
    PROVE  \E x \in T : \A y \in T : x <= y
<1>. DEFINE R == {ss \in Nat \X Nat : ss[1] < ss[2]}
<1>1. IsWellFoundedOn(R, Nat)
  BY Zenon, NatLessThanWellFounded DEF OpToRel
<1>. HIDE DEF R
<1>2. PICK x \in T : \A y \in T : ~(<<y, x>> \in R)
  BY Zenon, <1>1, WFMin
<1>3. \A y \in T : ~(y < x)
  BY Zenon, <1>2 DEF R
<1>. QED BY <1>3

\* Induction up to n: a set that has 0, and k with k - 1, has 0 .. n.
LEMMA InductionUpTo ==
    ASSUME NEW n \in Nat, NEW S,
           0 \in S, \A k \in 1 .. n : k - 1 \in S => k \in S
    PROVE  0 .. n \subseteq S
<1>. DEFINE T == (0 .. n) \ S
<1>. SUFFICES ASSUME T # {} PROVE FALSE
  BY Zenon
<1>1. T \subseteq Nat
  OBVIOUS
<1>2. PICK k \in T : \A y \in T : k <= y
  <2>. HIDE DEF T
  <2>. QED BY Zenon, <1>1, LeastNumber
<1>3. k \in 1 .. n /\ k \notin S
  BY <1>2
<1>4. k - 1 \notin T
  <2>1. k - 1 < k
    BY <1>3
  <2>. HIDE DEF T
  <2>. QED BY <1>2, <1>3, <2>1
<1>5. k - 1 \in S
  BY <1>3, <1>4
<1>. QED BY Zenon, <1>3, <1>5

\* A loop: the values v that a loop over 1 .. n has after each of its steps,
\* when it starts with z and step k makes F[k][v] of v.
LoopRuns(n, V, z, F) ==
    \E g \in [0 .. n -> V] : g[0] = z /\ \A k \in 1 .. n : g[k] = F[k][g[k - 1]]

\* A loop has the values its body gives.
LEMMA LoopValues ==
    ASSUME NEW n \in Nat, NEW V, NEW z \in V, NEW F \in [1 .. n -> [V -> V]]
    PROVE  LoopRuns(n, V, z, F)
<1>. DEFINE Loop(m, g) == g[0] = z /\ \A k \in 1 .. m : g[k] = F[k][g[k - 1]]
            S == {m \in 0 .. n : \E g \in [0 .. m -> V] : Loop(m, g)}
<1>1. 0 \in S
  <2>1. [k \in 0 .. 0 |-> z] \in [0 .. 0 -> V]
    BY Zenon
  <2>2. Loop(0, [k \in 0 .. 0 |-> z])
    OBVIOUS
  <2>3. \E g \in [0 .. 0 -> V] : Loop(0, g)
    <3>. HIDE DEF Loop
    <3>. QED BY Zenon, <2>1, <2>2
  <2>. QED BY <2>3
<1>2. ASSUME NEW m \in 1 .. n, m - 1 \in S
      PROVE  m \in S
  <2>1. PICK g \in [0 .. m - 1 -> V] : Loop(m - 1, g)
    BY Zenon, <1>2
  <2>. DEFINE h == [k \in 0 .. m |-> IF k = m THEN F[m][g[m - 1]] ELSE g[k]]
  <2>2. F[m][g[m - 1]] \in V
    <3>1. g[m - 1] \in V
      BY <2>1
    <3>. QED BY Zenon, <3>1
  <2>3. h \in [0 .. m -> V]
    <3>1. ASSUME NEW k \in 0 .. m, k # m
          PROVE  g[k] \in V
      <4>1. k \in 0 .. m - 1
        BY <3>1
      <4>. QED BY Zenon, <2>1, <4>1
    <3>. QED BY Zenon, <2>2, <3>1
  <2>4. h[0] = z
    BY <2>1
  <2>5. ASSUME NEW k \in 1 .. m
        PROVE  h[k] = F[k][h[k - 1]]
    <3>1. h[k - 1] = g[k - 1]
      OBVIOUS
    <3>2. CASE k = m
      BY <3>1, <3>2
    <3>3. CASE k # m
      <4>1. k \in 1 .. m - 1 /\ h[k] = g[k]
        BY <3>3
      <4>. QED BY Zenon, <2>1, <3>1, <4>1
    <3>. QED BY Zenon, <3>2, <3>3
  <2>6. Loop(m, h)
    BY Zenon, <2>4, <2>5
  <2>7. \E f \in [0 .. m -> V] : Loop(m, f)
    <3>. HIDE DEF Loop, h
    <3>. QED BY Zenon, <2>3, <2>6
  <2>8. m \in 0 .. n
    OBVIOUS
  <2>. HIDE DEF Loop, h
  <2>. QED BY Zenon, <2>7, <2>8
<1>3. 0 .. n \subseteq S
  <2>. HIDE DEF S
  <2>. QED BY Zenon, <1>1, <1>2, InductionUpTo
<1>. QED BY <1>3 DEF LoopRuns

-----------------------------------------------------------------------------
(* The plugin's list.                                                      *)

\* Append adds one transformation, which is there once if it was not before.
LEMMA ListAdds ==
    ASSUME NEW list \in Seq(Transforms), NEW t \in Transforms,
           IsInjective(list), t \notin Range(list)
    PROVE  /\ AddToList(list, t) \in Seq(Transforms)
           /\ IsInjective(AddToList(list, t))
           /\ Range(AddToList(list, t)) = Range(list) \cup {t}
<1>. DEFINE new == AddToList(list, t)
<1>1. /\ new \in Seq(Transforms) /\ Len(new) = Len(list) + 1
      /\ \A i \in 1 .. Len(list) : new[i] = list[i]
      /\ new[Len(list) + 1] = t
  BY AppendProperties DEF AddToList
<1>. HIDE DEF new
<1>2. /\ DOMAIN list = 1 .. Len(list) /\ DOMAIN new = 1 .. Len(list) + 1
      /\ Len(list) \in Nat
  BY Zenon, <1>1, LenProperties
<1>3. \A i \in 1 .. Len(list) : list[i] # t
  BY Zenon, <1>2 DEF Range
<1>4. IsInjective(new)
  <2>. SUFFICES ASSUME NEW i \in 1 .. Len(list) + 1, NEW j \in 1 .. Len(list) + 1,
                       new[i] = new[j]
                PROVE  i = j
    BY Zenon, <1>2 DEF IsInjective
  <2>1. CASE i \in 1 .. Len(list) /\ j \in 1 .. Len(list)
    BY Zenon, <1>1, <1>2, <2>1 DEF IsInjective
  <2>2. CASE i \notin 1 .. Len(list) \/ j \notin 1 .. Len(list)
    BY <1>1, <1>2, <1>3, <2>2
  <2>. QED BY Zenon, <2>1, <2>2
<1>5. Range(new) = Range(list) \cup {t}
  <2>1. 1 .. Len(list) + 1 = (1 .. Len(list)) \cup {Len(list) + 1}
    BY <1>2
  <2>. QED BY <1>1, <1>2, <2>1 DEF Range
<1>. QED BY Zenon, <1>1, <1>4, <1>5 DEF new

\* A transformation that is in the list is found there.
LEMMA PlaceFound ==
    ASSUME NEW list \in Seq(Transforms), NEW t \in Range(list),
           IsInjective(list)
    PROVE  PlaceOf(list, t) \in 1 .. Len(list) /\ list[PlaceOf(list, t)] = t
<1>1. DOMAIN list = 1 .. Len(list) /\ Len(list) \in Nat
  BY Zenon, LenProperties
<1>2. PICK k \in DOMAIN list : list[k] = t
  BY Zenon DEF Range
<1>3. \A j \in 1 .. k - 1 : list[j] # t
  BY <1>1, <1>2 DEF IsInjective
<1>4. PlaceOf(list, t) = CHOOSE i \in DOMAIN list :
                             list[i] = t /\ \A j \in 1 .. i - 1 : list[j] # t
  BY Zenon, <1>2 DEF PlaceOf
<1>. QED BY Zenon, <1>1, <1>2, <1>3, <1>4

\* Moving what comes after place i one place down removes what was there, and
\* nothing else.
LEMMA ListRemoves ==
    ASSUME NEW list \in Seq(Transforms), NEW i \in 1 .. Len(list),
           IsInjective(list)
    PROVE  /\ RemoveFromList(list, i) \in Seq(Transforms)
           /\ IsInjective(RemoveFromList(list, i))
           /\ Range(RemoveFromList(list, i)) = Range(list) \ {list[i]}
<1>. DEFINE n == Len(list)
            new == RemoveFromList(list, i)
<1>1. DOMAIN list = 1 .. n /\ n \in Nat /\ \A j \in 1 .. n : list[j] \in Transforms
  BY Zenon, LenProperties
<1>2. /\ DOMAIN new = 1 .. n - 1
      /\ \A j \in 1 .. n - 1 : new[j] = IF j >= i THEN list[j + 1] ELSE list[j]
  BY Zenon DEF RemoveFromList
<1>3. new \in Seq(Transforms)
  <2>1. \A j \in 1 .. n - 1 :
            (IF j >= i THEN list[j + 1] ELSE list[j]) \in Transforms
    BY <1>1
  <2>2. new \in [1 .. n - 1 -> Transforms]
    BY Zenon, <2>1 DEF RemoveFromList
  <2>3. n - 1 \in Nat
    BY <1>1
  <2>. QED BY Zenon, <2>2, <2>3, SeqDef
<1>. HIDE DEF n, new
<1>4. IsInjective(new)
  <2>1. \A j, k \in 1 .. n : list[j] = list[k] => j = k
    BY Zenon, <1>1 DEF IsInjective
  <2>. SUFFICES ASSUME NEW j \in 1 .. n - 1, NEW k \in 1 .. n - 1, new[j] = new[k]
                PROVE  j = k
    BY Zenon, <1>2 DEF IsInjective
  <2>2. PICK a \in 1 .. n : a = IF j >= i THEN j + 1 ELSE j
    BY <1>1
  <2>3. PICK b \in 1 .. n : b = IF k >= i THEN k + 1 ELSE k
    BY <1>1
  <2>4. list[a] = list[b]
    BY Zenon, <1>2, <2>2, <2>3
  <2>5. a = b
    BY Zenon, <2>1, <2>4
  <2>. QED BY <2>2, <2>3, <2>5 DEF n
<1>5. ASSUME NEW t \in Range(new)
      PROVE  t \in Range(list) \ {list[i]}
  <2>1. PICK j \in 1 .. n - 1 : new[j] = t
    BY Zenon, <1>2 DEF Range
  <2>2. PICK a \in 1 .. n : a # i /\ a = IF j >= i THEN j + 1 ELSE j
    BY <1>1 DEF n
  <2>3. t = list[a]
    BY Zenon, <1>2, <2>1, <2>2
  <2>. QED BY Zenon, <1>1, <2>2, <2>3 DEF IsInjective, Range, n
<1>6. ASSUME NEW t \in Range(list) \ {list[i]}
      PROVE  t \in Range(new)
  <2>1. PICK a \in 1 .. n : list[a] = t
    BY Zenon, <1>1 DEF Range
  <2>2. a # i
    BY Zenon, <2>1
  <2>3. PICK j \in 1 .. n - 1 : j = IF a > i THEN a - 1 ELSE a
    BY <1>1, <2>2 DEF n
  <2>4. new[j] = t
    BY <1>1, <1>2, <2>1, <2>2, <2>3 DEF n
  <2>. QED BY Zenon, <1>2, <2>4 DEF Range
<1>. QED BY Zenon, <1>3, <1>4, <1>5, <1>6 DEF new

\* The list is one of transformations, and what TransformationsAreListed says.
PluginInv == tp_transforms \in Seq(Transforms) /\ TransformationsAreListed

\* Every step keeps PluginInv.
LEMMA PluginInvNext == PluginInv /\ [TransformationPluginNext]_tpvars => PluginInv'
<1>. SUFFICES ASSUME PluginInv, [TransformationPluginNext]_tpvars PROVE PluginInv'
  BY Zenon
<1>. USE DEF PluginInv, TransformationsAreListed
<1>1. ASSUME NEW ok \in BOOLEAN, TPlugin_new(ok) PROVE PluginInv'
  BY Zenon, <1>1 DEF TPlugin_new
<1>2. ASSUME NEW t \in Transforms, NEW ok \in BOOLEAN, CreateTransformation(t, ok)
      PROVE  PluginInv'
  <2>1. t \notin Range(tp_transforms)
    BY Zenon, <1>2 DEF CreateTransformation
  <2>2. /\ AddToList(tp_transforms, t) \in Seq(Transforms)
        /\ IsInjective(AddToList(tp_transforms, t))
        /\ Range(AddToList(tp_transforms, t)) = Range(tp_transforms) \cup {t}
    BY Zenon, <2>1, ListAdds
  <2>3. CASE ok
    BY Zenon, <1>2, <2>2, <2>3 DEF CreateTransformation, T_new
  <2>4. CASE ~ok
    BY Zenon, <1>2, <2>4 DEF CreateTransformation, T_new
  <2>. QED BY Zenon, <2>3, <2>4
<1>3. ASSUME NEW t \in Transforms, DeleteTransformation(t) PROVE PluginInv'
  <2>. DEFINE i == PlaceOf(tp_transforms, t)
  <2>1. t \in Range(tp_transforms)
    BY Zenon, <1>3 DEF DeleteTransformation
  <2>2. i \in 1 .. Len(tp_transforms) /\ tp_transforms[i] = t
    BY Zenon, <2>1, PlaceFound
  <2>3. i # 0
    BY <2>2, LenProperties
  <2>4. /\ RemoveFromList(tp_transforms, i) \in Seq(Transforms)
        /\ IsInjective(RemoveFromList(tp_transforms, i))
        /\ Range(RemoveFromList(tp_transforms, i))
               = Range(tp_transforms) \ {tp_transforms[i]}
    BY Zenon, <2>2, ListRemoves
  <2>5. /\ tp_transforms' = RemoveFromList(tp_transforms, i)
        /\ tp_live' = tp_live \ {t} /\ tp_handles' = tp_handles \ {t}
        /\ tp_plugin' = tp_plugin
    BY Zenon, <1>3, <2>3 DEF DeleteTransformation, T_delete
  <2>. HIDE DEF i
  <2>. QED BY Zenon, <2>2, <2>4, <2>5
<1>4. CASE TPlugin_delete
  BY Zenon, <1>4 DEF TPlugin_delete
<1>5. CASE UNCHANGED tpvars
  BY Zenon, <1>5 DEF tpvars
<1>. QED BY Zenon, <1>1, <1>2, <1>3, <1>4, <1>5 DEF TransformationPluginNext

\* The plugin's list has every transformation Routing Service holds once and
\* no other, for any number of transformations: the search of
\* finalize_transformation always finds its transformation, whatever was
\* created, refused and deleted before.
THEOREM TransformationsListed ==
    TransformationPluginSpec => []TransformationsAreListed
<1>1. TransformationPluginInit => PluginInv
  <2>1. <<>> \in Seq(Transforms) /\ DOMAIN <<>> = {}
    OBVIOUS
  <2>. QED BY Zenon, <2>1 DEF TransformationPluginInit, PluginInv,
              TransformationsAreListed, IsInjective, Range
<1>2. PluginInv => TransformationsAreListed
  BY Zenon DEF PluginInv
<1>. QED BY <1>1, <1>2, PluginInvNext, PTL DEF TransformationPluginSpec

-----------------------------------------------------------------------------
(* The buffer of a transformation.                                         *)

Slots == [SampleMembers -> {"unset", "new", "cut", "padded", "old", "null"}]

\* A transformation's types.
TransformTypeInv ==
    /\ tf_kind \in TransformKinds /\ tf_bound \in BufferBounds
    /\ tf_member \in {"string", "array", "sequence"}
    /\ tf_member = "array" => tf_bound # UnboundedMember
    /\ tf_size \in Nat /\ tf_count \in Nat
    /\ tf_pool \in Seq(Slots) /\ tf_batch \in Seq(SampleInputs)
    /\ tf_loaned \in BOOLEAN /\ tf_clean \in BOOLEAN

\* The fields of an input.
LEMMA InputFields ==
    ASSUME NEW in \in SampleInputs
    PROVE  /\ in.valid \in BOOLEAN /\ in.wellformed \in BOOLEAN
           /\ in.text \in Nat /\ in.members \subseteq SampleMembers
<1>1. in \in [valid : BOOLEAN, text : Nat, wellformed : BOOLEAN,
              members : SUBSET SampleMembers]
  BY Zenon, TransformationAssumption
<1>. QED BY Zenon, <1>1

\* A batch is a sequence of inputs.
LEMMA BatchIsSeq ==
    ASSUME NEW batch \in Batches
    PROVE  batch \in Seq(SampleInputs)
<1>1. PICK n \in 1 .. MaxBatch : batch \in [1 .. n -> SampleInputs]
  BY Zenon DEF Batches
<1>. QED BY <1>1, SeqDef

\* What the plugin does to the size of its buffer.
LEMMA PluginSizes ==
    ASSUME TransformTypeInv, NEW in \in SampleInputs, NEW size \in Nat
    PROVE  /\ PluginSize(in, size) \in Nat
           /\ IsJson /\ tf_bound # UnboundedMember => PluginSize(in, size) = size
           /\ IsJson => PluginSize(in, size) >= size
           /\ HasBuffer /\ IsTerminated /\ ~PluginRefuses(in, size)
                  => SizeNeeded(in) <= PluginSize(in, size)
<1>1. in.text \in Nat /\ in.wellformed \in BOOLEAN
  BY Zenon, InputFields
<1>2. CASE IsJson
  <2>1. PluginSize(in, size) = JsonSize(in, size)
    BY Zenon, <1>2 DEF PluginSize, IsJson
  <2>2. ASSUME HasBuffer, IsTerminated, ~PluginRefuses(in, size)
        PROVE  ~(SizeNeeded(in) > size /\ tf_bound # UnboundedMember)
    <3>1. tf_kind = "json serializer" \/ tf_member = "string"
      BY Zenon, <2>2 DEF HasBuffer, IsJson, IsTerminated, TransformTypeInv
    <3>2. JsonTextRefused(in, size) = (SizeNeeded(in) > size /\ tf_bound # UnboundedMember)
      <4>1. ~(tf_kind = "json deserializer" /\ tf_member = "array")
        BY Zenon, <2>2 DEF IsTerminated
      <4>2. ~(tf_kind = "json deserializer" /\ tf_member = "sequence")
        BY Zenon, <2>2 DEF HasBuffer
      <4>. QED BY Zenon, <3>1, <4>1, <4>2 DEF JsonTextRefused
    <3>3. CASE tf_kind = "json serializer"
      BY Zenon, <2>2, <3>2, <3>3 DEF PluginRefuses
    <3>4. CASE tf_kind = "json deserializer"
      BY Zenon, <2>2, <3>2, <3>4 DEF PluginRefuses
    <3>. QED BY Zenon, <1>2, <3>3, <3>4 DEF IsJson
  <2>3. SizeNeeded(in) \in Nat
    BY <1>1 DEF SizeNeeded
  <2>4. /\ JsonSize(in, size) \in Nat /\ JsonSize(in, size) >= size
        /\ tf_bound # UnboundedMember => JsonSize(in, size) = size
    BY <2>3 DEF JsonSize, SizeIncrement
  <2>5. ASSUME HasBuffer, ~(SizeNeeded(in) > size /\ tf_bound # UnboundedMember)
        PROVE  SizeNeeded(in) <= JsonSize(in, size)
    BY <2>3, <2>5 DEF JsonSize, SizeIncrement
  <2>. QED BY Zenon, <2>1, <2>2, <2>4, <2>5
<1>3. CASE tf_kind = "field serializer"
  BY Zenon, <1>3 DEF PluginSize, IsJson, HasBuffer
<1>4. CASE tf_kind = "field deserializer"
  BY Zenon, <1>1, <1>4 DEF PluginSize, FieldSize, IsJson, HasBuffer
<1>. QED BY Zenon, <1>2, <1>3, <1>4, TransformationAssumption DEF TransformTypeInv, IsJson

\* The buffer before the first input is the transformation's; every valid
\* input does to it what the plugin does.
LEMMA SizeAfterEach ==
    ASSUME TransformTypeInv, NEW batch \in Seq(SampleInputs)
    PROVE  /\ SizeAfter(batch, 0) = tf_size
           /\ \A i \in 0 .. Len(batch) : SizeAfter(batch, i) \in Nat
           /\ \A i \in 1 .. Len(batch) :
                  SizeAfter(batch, i) =
                      IF batch[i].valid
                      THEN PluginSize(batch[i], SizeAfter(batch, i - 1))
                      ELSE SizeAfter(batch, i - 1)
<1>. DEFINE n == Len(batch)
            F == [i \in 1 .. n |-> [v \in Nat |->
                     IF batch[i].valid THEN PluginSize(batch[i], v) ELSE v]]
            Sizes(g) == g = [i \in 0 .. n |->
                                IF i = 0 THEN tf_size
                                ELSE IF batch[i].valid
                                THEN PluginSize(batch[i], g[i - 1]) ELSE g[i - 1]]
<1>1. n \in Nat /\ \A i \in 1 .. n : batch[i] \in SampleInputs
  BY Zenon, LenProperties, ElementOfSeq
<1>2. F \in [1 .. n -> [Nat -> Nat]]
  <2>1. \A i \in 1 .. n, v \in Nat : PluginSize(batch[i], v) \in Nat
    BY Zenon, <1>1, PluginSizes
  <2>2. ASSUME NEW i \in 1 .. n
        PROVE  [v \in Nat |-> IF batch[i].valid THEN PluginSize(batch[i], v) ELSE v]
                   \in [Nat -> Nat]
    BY Zenon, <2>1
  <2>. QED BY Zenon, <2>2
<1>3. PICK g \in [0 .. n -> Nat] :
          g[0] = tf_size /\ \A i \in 1 .. n : g[i] = F[i][g[i - 1]]
  <2>. DEFINE V == Nat
  <2>1. tf_size \in V
    BY Zenon DEF TransformTypeInv
  <2>2. n \in Nat
    BY Zenon, <1>1
  <2>3. F \in [1 .. n -> [V -> V]]
    BY Zenon, <1>2
  <2>. HIDE DEF F, n, Sizes, V
  <2>4. LoopRuns(n, V, tf_size, F)
    BY Zenon, <2>1, <2>2, <2>3, LoopValues
  <2>. QED BY Zenon, <2>4 DEF V, LoopRuns
<1>4. ASSUME NEW i \in 1 .. n
      PROVE  g[i - 1] \in Nat /\ g[i] = IF batch[i].valid
                    THEN PluginSize(batch[i], g[i - 1]) ELSE g[i - 1]
  <2>1. g[i - 1] \in Nat
    BY <1>1
  <2>. QED BY Zenon, <1>3, <2>1
<1>5. Sizes(g)
  BY <1>1, <1>3, <1>4
<1>6. \A h : Sizes(h) => h = g
  <2>. SUFFICES ASSUME NEW h, Sizes(h) PROVE h = g
    BY Zenon
  <2>. DEFINE S == {i \in 0 .. n : h[i] = g[i]}
  <2>1. 0 \in S
    BY <1>1, <1>3
  <2>2. ASSUME NEW i \in 1 .. n, i - 1 \in S PROVE i \in S
    BY SMTT(30), <1>1, <1>4, <2>2
  <2>3. 0 .. n \subseteq S
    <3>. HIDE DEF S, n
    <3>. QED BY Zenon, <1>1, <2>1, <2>2, InductionUpTo
  <2>4. \A i \in 0 .. n : h[i] = g[i]
    BY Zenon, <2>3
  <2>5. h = [i \in 0 .. n |-> h[i]] /\ g = [i \in 0 .. n |-> g[i]]
    BY Zenon
  <2>. HIDE DEF Sizes
  <2>. QED BY Zenon, <2>4, <2>5
<1>7. \A i : SizeAfter(batch, i) = (CHOOSE h : Sizes(h))[i]
  BY Zenon DEF SizeAfter
<1>8. (CHOOSE h : Sizes(h)) = g
  <2>. HIDE DEF Sizes
  <2>. QED BY Zenon, <1>5, <1>6
<1>9. \A i : SizeAfter(batch, i) = g[i]
  <2>. HIDE DEF Sizes
  <2>. QED BY Zenon, <1>7, <1>8
<1>. HIDE DEF Sizes, F
<1>10. SizeAfter(batch, 0) = tf_size
  BY Zenon, <1>3, <1>9
<1>11. \A i \in 0 .. n : SizeAfter(batch, i) \in Nat
  BY Zenon, <1>9
<1>12. ASSUME NEW i \in 1 .. n
       PROVE  SizeAfter(batch, i) =
                  IF batch[i].valid
                  THEN PluginSize(batch[i], SizeAfter(batch, i - 1))
                  ELSE SizeAfter(batch, i - 1)
  <2>1. SizeAfter(batch, i) = g[i] /\ SizeAfter(batch, i - 1) = g[i - 1]
    BY Zenon, <1>9
  <2>. QED BY Zenon, <1>4, <2>1
<1>. QED BY Zenon, <1>10, <1>11, <1>12

\* Where no input is the first that is refused, none is.
LEMMA NoneRefused ==
    ASSUME NEW batch \in Seq(SampleInputs),
           \A i \in DOMAIN batch : ~FirstRefused(batch, i)
    PROVE  \A i \in ValidUpTo(batch, Len(batch)) :
               ~PluginRefuses(batch[i], SizeAfter(batch, i - 1))
<1>. DEFINE T == {i \in ValidUpTo(batch, Len(batch)) :
                     PluginRefuses(batch[i], SizeAfter(batch, i - 1))}
<1>. SUFFICES ASSUME T # {} PROVE FALSE
  BY Zenon
<1>1. /\ DOMAIN batch = 1 .. Len(batch) /\ Len(batch) \in Nat
      /\ T \subseteq 1 .. Len(batch)
  BY Zenon, LenProperties DEF ValidUpTo
<1>2. PICK i \in T : \A j \in T : i <= j
  <2>1. T \subseteq Nat
    BY <1>1
  <2>. HIDE DEF T
  <2>. QED BY Zenon, <2>1, LeastNumber
<1>3. i \in DOMAIN batch /\ i \in 1 .. Len(batch)
  BY Zenon, <1>1, <1>2
<1>4. ASSUME NEW j \in ValidUpTo(batch, i - 1)
      PROVE  ~PluginRefuses(batch[j], SizeAfter(batch, j - 1))
  <2>1. j \in ValidUpTo(batch, Len(batch)) /\ j < i /\ j \in Nat
    BY <1>1, <1>3 DEF ValidUpTo
  <2>2. j \notin T
    <3>. HIDE DEF T
    <3>. QED BY <1>2, <1>3, <2>1
  <2>. QED BY Zenon, <2>1, <2>2
<1>5. batch[i].valid /\ PluginRefuses(batch[i], SizeAfter(batch, i - 1))
  BY Zenon, <1>2 DEF ValidUpTo
<1>6. FirstRefused(batch, i)
  BY Zenon, <1>4, <1>5 DEF FirstRefused
<1>. QED BY Zenon, <1>3, <1>6

\* The JSON plugin's buffer never shrinks within a batch, a bounded one stays
\* as it is, and at the end of a batch that was not refused the buffer is
\* large enough for each of its texts.
LEMMA JsonSizes ==
    ASSUME TransformTypeInv, NEW batch \in Seq(SampleInputs), IsJson
    PROVE  /\ tf_bound # UnboundedMember =>
                  \A i \in 0 .. Len(batch) : SizeAfter(batch, i) = tf_size
           /\ HasBuffer /\ IsTerminated /\ (\A i \in DOMAIN batch : ~FirstRefused(batch, i)) =>
                  \A i \in ValidUpTo(batch, Len(batch)) :
                      SizeNeeded(batch[i]) <= SizeAfter(batch, Len(batch))
<1>. DEFINE n == Len(batch)
<1>1. n \in Nat /\ \A i \in 1 .. n : batch[i] \in SampleInputs
  BY Zenon, LenProperties, ElementOfSeq
<1>2. /\ SizeAfter(batch, 0) = tf_size
      /\ \A i \in 0 .. n : SizeAfter(batch, i) \in Nat
      /\ \A i \in 1 .. n : SizeAfter(batch, i) =
                               IF batch[i].valid
                               THEN PluginSize(batch[i], SizeAfter(batch, i - 1))
                               ELSE SizeAfter(batch, i - 1)
  BY Zenon, SizeAfterEach
<1>3. ASSUME NEW i \in 1 .. n
      PROVE  /\ SizeAfter(batch, i - 1) \in Nat /\ SizeAfter(batch, i) \in Nat
             /\ SizeAfter(batch, i - 1) <= SizeAfter(batch, i)
             /\ tf_bound # UnboundedMember =>
                    SizeAfter(batch, i) = SizeAfter(batch, i - 1)
             /\ HasBuffer /\ IsTerminated /\ batch[i].valid
                    /\ ~PluginRefuses(batch[i], SizeAfter(batch, i - 1)) =>
                    SizeNeeded(batch[i]) <= SizeAfter(batch, i)
  <2>1. SizeAfter(batch, i - 1) \in Nat /\ SizeAfter(batch, i) \in Nat
    BY <1>1, <1>2
  <2>2. CASE batch[i].valid
    <3>. DEFINE before == SizeAfter(batch, i - 1)
    <3>1. SizeAfter(batch, i) = PluginSize(batch[i], before)
      BY Zenon, <1>2, <2>2
    <3>2. before \in Nat /\ batch[i] \in SampleInputs
      BY Zenon, <1>1, <2>1
    <3>. HIDE DEF before
    <3>3. /\ tf_bound # UnboundedMember => PluginSize(batch[i], before) = before
          /\ PluginSize(batch[i], before) >= before
          /\ HasBuffer /\ IsTerminated /\ ~PluginRefuses(batch[i], before)
                 => SizeNeeded(batch[i]) <= PluginSize(batch[i], before)
      BY Zenon, <3>2, PluginSizes
    <3>. QED BY Zenon, <2>1, <3>1, <3>3 DEF before
  <2>3. CASE ~batch[i].valid
    BY <1>2, <2>1, <2>3
  <2>. QED BY Zenon, <2>2, <2>3
<1>. HIDE DEF n
<1>4. ASSUME tf_bound # UnboundedMember
      PROVE  \A i \in 0 .. n : SizeAfter(batch, i) = tf_size
  <2>. DEFINE S == {i \in 0 .. n : SizeAfter(batch, i) = tf_size}
  <2>1. 0 \in S
    BY <1>1, <1>2
  <2>2. ASSUME NEW i \in 1 .. n, i - 1 \in S PROVE i \in S
    BY <1>1, <1>3, <1>4, <2>2
  <2>3. 0 .. n \subseteq S
    <3>. HIDE DEF S
    <3>. QED BY Zenon, <1>1, <2>1, <2>2, InductionUpTo
  <2>. QED BY Zenon, <2>3
<1>5. ASSUME NEW i \in 1 .. n
      PROVE  SizeAfter(batch, i) <= SizeAfter(batch, n)
  <2>. DEFINE S == {k \in 0 .. n : i <= k => SizeAfter(batch, i) <= SizeAfter(batch, k)}
  <2>1. 0 \in S
    BY <1>1
  <2>2. ASSUME NEW k \in 1 .. n, k - 1 \in S PROVE k \in S
    <3>1. CASE i <= k - 1
      <4>1. /\ SizeAfter(batch, k - 1) \in Nat /\ SizeAfter(batch, k) \in Nat
            /\ SizeAfter(batch, k - 1) <= SizeAfter(batch, k)
        BY Zenon, <1>3
      <4>2. SizeAfter(batch, i) <= SizeAfter(batch, k - 1) /\ SizeAfter(batch, i) \in Nat
        BY Zenon, <1>3, <2>2, <3>1
      <4>. QED BY <1>1, <4>1, <4>2
    <3>2. CASE ~(i <= k - 1)
      <4>1. i = k \/ ~(i <= k)
        BY <3>2
      <4>2. SizeAfter(batch, i) <= SizeAfter(batch, i)
        BY <1>3
      <4>. QED BY <1>1, <4>1, <4>2
    <3>. QED BY Zenon, <3>1, <3>2
  <2>3. 0 .. n \subseteq S
    <3>. HIDE DEF S
    <3>. QED BY Zenon, <1>1, <2>1, <2>2, InductionUpTo
  <2>. QED BY <1>1, <2>3
<1>6. ASSUME HasBuffer, IsTerminated, \A i \in DOMAIN batch : ~FirstRefused(batch, i),
             NEW i \in ValidUpTo(batch, n)
      PROVE  SizeNeeded(batch[i]) <= SizeAfter(batch, n)
  <2>1. i \in 1 .. n /\ batch[i].valid
    BY Zenon DEF ValidUpTo
  <2>2. ~PluginRefuses(batch[i], SizeAfter(batch, i - 1))
    BY Zenon, <1>6, NoneRefused DEF n
  <2>3. SizeNeeded(batch[i]) <= SizeAfter(batch, i)
    BY Zenon, <1>3, <1>6, <2>1, <2>2
  <2>4. SizeAfter(batch, i) <= SizeAfter(batch, n)
    BY Zenon, <1>5, <2>1
  <2>5. SizeNeeded(batch[i]) \in Nat
    BY <1>1, <2>1, InputFields DEF SizeNeeded
  <2>6. SizeAfter(batch, i) \in Nat /\ SizeAfter(batch, n) \in Nat
    BY <1>1, <1>2, <2>1
  <2>. QED BY <2>3, <2>4, <2>5, <2>6
<1>. QED BY Zenon, <1>4, <1>6 DEF n

-----------------------------------------------------------------------------
(* The pool of a transformation.                                           *)

\* The two slots that hold no value of a sample.
LEMMA SlotTypes ==
    EmptySample \in Slots /\ NullSlot \in Slots /\ EmptySample # NullSlot
<1>1. EmptySample \in Slots /\ NullSlot \in Slots
  BY Zenon DEF Slots, EmptySample, NullSlot
<1>2. EmptySample[BufferMember] = "unset" /\ NullSlot[BufferMember] = "null"
  BY Zenon, TransformationAssumption DEF EmptySample, NullSlot
<1>. QED BY Zenon, <1>1, <1>2

\* An older slot is a slot.
LEMMA AgedType ==
    ASSUME NEW slot \in Slots
    PROVE  Aged(slot) \in Slots
BY Zenon DEF Aged, Slots

\* What a plugin makes of an input is a slot.
LEMMA OutputType ==
    ASSUME TransformTypeInv, NEW in \in SampleInputs, NEW slot \in Slots
    PROVE  PluginOutput(in, slot) \in Slots
<1>1. CASE tf_kind = "json serializer"
  BY Zenon, <1>1 DEF PluginOutput, JsonSerialize, Slots
<1>2. CASE tf_kind = "json deserializer"
  BY Zenon, <1>2 DEF PluginOutput, JsonDeserialize, Slots
<1>3. CASE tf_kind = "field serializer"
  BY Zenon, <1>3 DEF PluginOutput, FieldSerialize, Slots
<1>4. CASE tf_kind = "field deserializer"
  BY Zenon, <1>4 DEF PluginOutput, FieldDeserialize, Slots
<1>. QED BY Zenon, <1>1, <1>2, <1>3, <1>4, TransformationAssumption DEF TransformTypeInv

\* The pool of n transformed inputs, slot by slot.
LEMMA PoolSlots ==
    ASSUME TransformTypeInv, NEW batch \in Seq(SampleInputs), NEW n \in 0 .. Len(batch)
    PROVE  /\ PoolLength(batch) \in Nat /\ PoolLength(batch) >= Len(batch)
           /\ PoolAfter(batch, n) \in [1 .. PoolLength(batch) -> Slots]
           /\ PoolAfter(batch, n) \in Seq(Slots)
           /\ Len(PoolAfter(batch, n)) = PoolLength(batch)
           /\ \A i \in 1 .. PoolLength(batch) : Created(PoolSlot(i)) \in Slots
<1>1. Len(tf_pool) \in Nat /\ Len(batch) \in Nat /\ tf_pool \in Seq(Slots)
  BY Zenon, LenProperties DEF TransformTypeInv
<1>2. PoolLength(batch) \in Nat /\ PoolLength(batch) >= Len(batch)
  BY <1>1 DEF PoolLength
<1>3. ASSUME NEW i \in 1 .. PoolLength(batch)
      PROVE  PoolSlot(i) \in Slots /\ Created(PoolSlot(i)) \in Slots
  <2>1. CASE i <= Len(tf_pool)
    <3>1. tf_pool[i] \in Slots
      BY <1>1, <1>2, <2>1, ElementOfSeq
    <3>. QED BY Zenon, <2>1, <3>1, SlotTypes DEF PoolSlot, Created
  <2>2. CASE ~(i <= Len(tf_pool))
    BY Zenon, <2>2, SlotTypes DEF PoolSlot, Created
  <2>. QED BY Zenon, <2>1, <2>2
<1>4. ASSUME NEW i \in ValidUpTo(batch, n)
      PROVE  batch[i] \in SampleInputs
  BY <1>1, ElementOfSeq DEF ValidUpTo
<1>5. ASSUME NEW i \in 1 .. PoolLength(batch)
      PROVE  (IF i \in ValidUpTo(batch, n)
              THEN PluginOutput(batch[i], Created(PoolSlot(i))) ELSE PoolSlot(i)) \in Slots
  BY Zenon, <1>3, <1>4, OutputType
<1>6. PoolAfter(batch, n) \in [1 .. PoolLength(batch) -> Slots]
  BY Zenon, <1>5 DEF PoolAfter
<1>7. PoolAfter(batch, n) \in Seq(Slots)
  BY Zenon, <1>2, <1>6, SeqDef
<1>8. Len(PoolAfter(batch, n)) = PoolLength(batch)
  BY <1>2, <1>6, <1>7, LenProperties
<1>. QED BY Zenon, <1>2, <1>3, <1>6, <1>7, <1>8

\* Every step keeps the types.
LEMMA TransformTypeNext ==
    TransformTypeInv /\ [TransformationNext]_tfvars => TransformTypeInv'
<1>. SUFFICES ASSUME TransformTypeInv, [TransformationNext]_tfvars
              PROVE  TransformTypeInv'
  OBVIOUS
<1>1. ASSUME NEW batch \in Batches, TransformSucceeds(batch)
      PROVE  TransformTypeInv'
  <2>1. batch \in Seq(SampleInputs) /\ Len(batch) \in Nat
    BY Zenon, BatchIsSeq, LenProperties
  <2>2. tf_pool' \in Seq(Slots)
    BY SMTT(30), <1>1, <2>1, PoolSlots DEF TransformSucceeds
  <2>3. tf_size' \in Nat
    BY SMTT(30), <1>1, <2>1, SizeAfterEach DEF TransformSucceeds
  <2>4. tf_count' \in Nat
    <3>1. IsFiniteSet(1 .. Len(batch))
      BY <2>1, FS_Interval
    <3>2. IsFiniteSet(ValidUpTo(batch, Len(batch)))
      BY Zenon, <3>1, FS_Subset DEF ValidUpTo
    <3>. QED BY Zenon, <1>1, <3>2, FS_CardinalityType DEF TransformSucceeds
  <2>5. tf_clean' \in BOOLEAN /\ tf_loaned' \in BOOLEAN /\ tf_batch' \in Seq(SampleInputs)
    BY Zenon, <1>1, <2>1 DEF TransformSucceeds
  <2>. QED BY Zenon, <1>1, <2>2, <2>3, <2>4, <2>5 DEF tftypes, TransformSucceeds, TransformTypeInv
<1>2. ASSUME NEW batch \in Batches, TransformFails(batch)
      PROVE  TransformTypeInv'
  <2>1. batch \in Seq(SampleInputs) /\ Len(batch) \in Nat /\ DOMAIN batch = 1 .. Len(batch)
    BY Zenon, BatchIsSeq, LenProperties
  <2>2. PICK i \in 1 .. Len(batch) : \E set \in SUBSET batch[i].members :
            /\ LET pool == PoolAfter(batch, i - 1)
                   part == [m \in SampleMembers |->
                               IF m \in set THEN "old" ELSE Created(pool[i])[m]]
               IN  tf_pool' = [j \in DOMAIN pool |->
                                  Aged(IF j = i THEN part ELSE pool[j])]
            /\ tf_size' = PluginSize(batch[i], SizeAfter(batch, i - 1))
    BY Zenon, <1>2, <2>1 DEF TransformFails
  <2>. DEFINE pool == PoolAfter(batch, i - 1)
  <2>3. /\ pool \in [1 .. PoolLength(batch) -> Slots]
        /\ PoolLength(batch) \in Nat /\ i \in 1 .. PoolLength(batch)
    <3>1. i - 1 \in 0 .. Len(batch)
      BY <2>1
    <3>2. /\ PoolLength(batch) \in Nat /\ PoolLength(batch) >= Len(batch)
          /\ pool \in [1 .. PoolLength(batch) -> Slots]
      BY Zenon, <2>1, <3>1, PoolSlots
    <3>. QED BY <2>1, <3>2
  <2>. HIDE DEF pool
  <2>4. PICK set \in SUBSET batch[i].members :
            tf_pool' = [j \in DOMAIN pool |->
                           Aged(IF j = i
                                THEN [m \in SampleMembers |-> IF m \in set THEN "old"
                                          ELSE Created(pool[i])[m]]
                                ELSE pool[j])]
    BY Zenon, <2>2 DEF pool
  <2>5. Created(pool[i]) \in Slots
    BY Zenon, <2>3, SlotTypes DEF Created
  <2>6. [m \in SampleMembers |-> IF m \in set THEN "old" ELSE Created(pool[i])[m]] \in Slots
    BY Zenon, <2>5 DEF Slots
  <2>7. ASSUME NEW j \in 1 .. PoolLength(batch)
        PROVE  Aged(IF j = i
                    THEN [m \in SampleMembers |-> IF m \in set THEN "old"
                              ELSE Created(pool[i])[m]]
                    ELSE pool[j]) \in Slots
    BY Zenon, <2>3, <2>6, AgedType
  <2>8. tf_pool' \in [1 .. PoolLength(batch) -> Slots]
    BY Zenon, <2>3, <2>4, <2>7
  <2>9. tf_pool' \in Seq(Slots)
    BY SMTT(30), <2>3, <2>8, SeqDef
  <2>10. tf_size' \in Nat
    <3>1. SizeAfter(batch, i - 1) \in Nat
      BY <2>1, SizeAfterEach
    <3>2. batch[i] \in SampleInputs
      BY Zenon, <2>1, ElementOfSeq
    <3>. QED BY Zenon, <2>2, <3>1, <3>2, PluginSizes
  <2>. QED BY Zenon, <1>2, <2>9, <2>10 DEF tftypes, TransformFails, TransformTypeInv
<1>3. CASE TransformReturnLoan
  <2>1. DOMAIN tf_pool = 1 .. Len(tf_pool) /\ Len(tf_pool) \in Nat
    BY Zenon, LenProperties DEF TransformTypeInv
  <2>2. ASSUME NEW i \in 1 .. Len(tf_pool)
        PROVE  (IF i <= tf_count /\ tf_pool[i] # NullSlot THEN EmptySample
                ELSE Aged(tf_pool[i])) \in Slots
    <3>1. tf_pool[i] \in Slots
      BY Zenon, ElementOfSeq DEF TransformTypeInv
    <3>. QED BY Zenon, <3>1, SlotTypes, AgedType
  <2>3. tf_pool' \in [1 .. Len(tf_pool) -> Slots]
    BY Zenon, <1>3, <2>1, <2>2 DEF TransformReturnLoan
  <2>4. tf_pool' \in Seq(Slots) /\ <<>> \in Seq(SampleInputs)
    BY SMTT(30), <2>1, <2>3, SeqDef
  <2>. QED BY Zenon, <1>3, <2>4 DEF tftypes, TransformReturnLoan, TransformTypeInv
<1>4. ASSUME NEW batch \in Batches, TransformOnLoan(batch)
      PROVE  TransformTypeInv'
  BY Zenon, <1>4 DEF TransformOnLoan, tfvars, tftypes, TransformTypeInv
<1>5. CASE UNCHANGED tfvars
  BY Zenon, <1>5 DEF tfvars, tftypes, TransformTypeInv
<1>. QED BY Zenon, <1>1, <1>2, <1>3, <1>4, <1>5 DEF TransformationNext

\* The types at the start.
LEMMA TransformTypeInit == TransformationInit => TransformTypeInv
<1>. SUFFICES ASSUME TransformationInit PROVE TransformTypeInv
  BY Zenon
<1>1. tf_size \in Nat
  BY Zenon, TransformationAssumption DEF TransformationInit, PreallocatedSize
<1>2. <<>> \in Seq(Slots) /\ <<>> \in Seq(SampleInputs)
  OBVIOUS
<1>. QED BY Zenon, <1>1, <1>2 DEF TransformationInit, TransformTypeInv

-----------------------------------------------------------------------------
(* Results about a transformation.                                         *)

\* A transformation's configuration does not change.
LEMMA TransformTypesKept == [TransformationNext]_tfvars => tftypes' = tftypes
BY Zenon DEF TransformationNext, TransformSucceeds, TransformFails, TransformOnLoan,
         TransformReturnLoan, tfvars

JsonInv == TransformTypeInv /\ JsonTextFits

\* The batch's texts fit a buffer of that size.
TextsFit(batch, size) ==
    \A i \in ValidUpTo(batch, Len(batch)) :
        IF IsTerminated THEN SizeNeeded(batch[i]) <= size ELSE batch[i].text <= size

\* The texts of a batch that is not refused fit the buffer after it.
LEMMA BatchFits ==
    ASSUME JsonInv, HasBuffer, NEW batch \in Batches, HoldsTexts(batch),
           \A i \in DOMAIN batch : ~FirstRefused(batch, i)
    PROVE  TextsFit(batch, SizeAfter(batch, Len(batch)))
<1>1. TransformTypeInv /\ IsJson /\ batch \in Seq(SampleInputs)
  BY Zenon, BatchIsSeq DEF JsonInv, HasBuffer
<1>2. CASE IsTerminated
  BY Zenon, <1>1, <1>2, JsonSizes DEF TextsFit
<1>3. CASE ~IsTerminated
  <2>1. tf_kind = "json deserializer" /\ tf_bound # UnboundedMember
    BY Zenon, <1>1, <1>3 DEF IsTerminated, TransformTypeInv
  <2>2. tf_size = tf_bound
    BY Zenon, <2>1 DEF JsonInv, JsonTextFits
  <2>3. Len(batch) \in Nat /\ DOMAIN batch = 1 .. Len(batch)
    BY Zenon, <1>1, LenProperties
  <2>4. Len(batch) \in 0 .. Len(batch)
    BY <2>3
  <2>5. SizeAfter(batch, Len(batch)) = tf_bound
    BY Zenon, <1>1, <2>1, <2>2, <2>4, JsonSizes
  <2>6. \A i \in ValidUpTo(batch, Len(batch)) : batch[i].text <= tf_bound
    BY Zenon, <2>1, <2>3 DEF HoldsTexts, ValidUpTo
  <2>. QED BY Zenon, <1>3, <2>5, <2>6 DEF TextsFit
<1>. QED BY Zenon, <1>2, <1>3

\* Every step keeps JsonInv.
LEMMA JsonInvNext == JsonInv /\ [TransformationNext]_tfvars => JsonInv'
<1>. SUFFICES ASSUME JsonInv, [TransformationNext]_tfvars PROVE JsonInv'
  OBVIOUS
<1>1. TransformTypeInv /\ TransformTypeInv'
  BY Zenon, TransformTypeNext DEF JsonInv
<1>2. tf_kind' = tf_kind /\ tf_member' = tf_member /\ tf_bound' = tf_bound
  BY Zenon, TransformTypesKept DEF tftypes
<1>. SUFFICES ASSUME HasBuffer
              PROVE  /\ tf_loaned' => TextsFit(tf_batch', tf_size')
                     /\ tf_bound # UnboundedMember => tf_size' = tf_bound
  BY Zenon, <1>1, <1>2 DEF JsonInv, JsonTextFits, TextsFit, ValidUpTo, SizeNeeded,
         HasBuffer, IsJson, IsTerminated
<1>3. IsJson
  BY Zenon DEF HasBuffer
<1>4. /\ tf_loaned => TextsFit(tf_batch, tf_size)
      /\ tf_bound # UnboundedMember => tf_size = tf_bound
  BY Zenon DEF JsonInv, JsonTextFits, TextsFit
<1>5. ASSUME NEW batch \in Batches, HoldsTexts(batch), TransformSucceeds(batch)
      PROVE  /\ TextsFit(tf_batch', tf_size')
             /\ tf_bound # UnboundedMember => tf_size' = tf_bound
  <2>1. batch \in Seq(SampleInputs) /\ Len(batch) \in 0 .. Len(batch)
    BY BatchIsSeq, LenProperties
  <2>2. /\ tf_batch' = batch /\ tf_size' = SizeAfter(batch, Len(batch))
        /\ \A i \in DOMAIN batch : ~FirstRefused(batch, i)
    BY Zenon, <1>5 DEF TransformSucceeds
  <2>3. TextsFit(batch, SizeAfter(batch, Len(batch)))
    BY Zenon, <1>5, <2>2, BatchFits
  <2>4. tf_bound # UnboundedMember => SizeAfter(batch, Len(batch)) = tf_size
    BY Zenon, <1>1, <1>3, <2>1, JsonSizes
  <2>. QED BY Zenon, <1>4, <2>2, <2>3, <2>4
<1>6. ASSUME NEW batch \in Batches, TransformFails(batch)
      PROVE  ~tf_loaned' /\ (tf_bound # UnboundedMember => tf_size' = tf_bound)
  <2>1. batch \in Seq(SampleInputs) /\ DOMAIN batch = 1 .. Len(batch) /\ Len(batch) \in Nat
    BY Zenon, BatchIsSeq, LenProperties
  <2>2. PICK i \in 1 .. Len(batch) :
            tf_size' = PluginSize(batch[i], SizeAfter(batch, i - 1))
    BY Zenon, <1>6, <2>1 DEF TransformFails
  <2>3. tf_bound # UnboundedMember => SizeAfter(batch, i - 1) = tf_size
    BY SMTT(30), <1>1, <1>3, <2>1, JsonSizes
  <2>4. batch[i] \in SampleInputs /\ tf_size \in Nat
    BY Zenon, <1>1, <2>1, ElementOfSeq DEF TransformTypeInv
  <2>5. tf_bound # UnboundedMember => PluginSize(batch[i], tf_size) = tf_size
    BY Zenon, <1>1, <1>3, <2>4, PluginSizes
  <2>. QED BY Zenon, <1>4, <1>6, <2>2, <2>3, <2>5 DEF TransformFails
<1>7. CASE TransformReturnLoan
  BY Zenon, <1>4, <1>7 DEF TransformReturnLoan
<1>8. ASSUME UNCHANGED tfvars
      PROVE  /\ tf_loaned' => TextsFit(tf_batch', tf_size')
             /\ tf_bound # UnboundedMember => tf_size' = tf_bound
  BY Zenon, <1>4, <1>8 DEF tfvars
<1>. QED BY Zenon, <1>5, <1>6, <1>7, <1>8 DEF TransformationNext, TransformOnLoan

\* The buffer at the start.
LEMMA JsonInvInit == TransformationInit => JsonInv
<1>. SUFFICES ASSUME TransformationInit PROVE JsonInv
  OBVIOUS
<1>1. HasBuffer /\ tf_bound # UnboundedMember => tf_size = tf_bound
  BY Zenon DEF TransformationInit, PreallocatedSize
<1>. QED BY Zenon, <1>1, TransformTypeInit DEF TransformationInit, JsonInv, JsonTextFits

\* Every text the JSON plugin put in its buffer fits it, with its terminator
\* unless it was read from an array, for batches of any length and members of
\* any bound, and the buffer of a bounded member is never anything but its
\* bound.
THEOREM JsonTextFitsBuffer == TransformationSpec => []JsonTextFits
<1>1. JsonInv => JsonTextFits
  BY Zenon DEF JsonInv
<1>. QED BY <1>1, JsonInvInit, JsonInvNext, PTL DEF TransformationSpec

\* What the JSON plugin makes of an empty sample is the input's own output.
LEMMA OutputIsOwn ==
    ASSUME JsonInv, IsJson, NEW in \in SampleInputs
    PROVE  /\ PluginOutput(in, EmptySample) = OwnOutput(in)
           /\ OwnOutput(in) # NullSlot
<1>1. ASSUME tf_kind = "json serializer"
      PROVE  PluginOutput(in, EmptySample) = OwnOutput(in)
  <2>1. PluginOutput(in, EmptySample) = JsonSerialize(in, EmptySample)
    BY Zenon, <1>1 DEF PluginOutput
  <2>2. OwnMembers(in) = {BufferMember}
    BY Zenon, <1>1 DEF OwnMembers
  <2>3. tf_member = "array" => tf_size = tf_bound
    <3>1. HasBuffer
      BY Zenon, <1>1 DEF HasBuffer
    <3>. QED BY Zenon, <3>1 DEF JsonInv, JsonTextFits, TransformTypeInv
  <2>4. CASE tf_member = "array" /\ SizeNeeded(in) < tf_size
    BY Zenon, <1>1, <2>1, <2>2, <2>3, <2>4 DEF JsonSerialize, OwnOutput, EmptySample
  <2>5. CASE ~(tf_member = "array" /\ SizeNeeded(in) < tf_size)
    BY Zenon, <2>1, <2>2, <2>3, <2>5 DEF JsonSerialize, OwnOutput, EmptySample
  <2>. QED BY Zenon, <2>4, <2>5
<1>2. ASSUME tf_kind = "json deserializer"
      PROVE  PluginOutput(in, EmptySample) = OwnOutput(in)
  <2>1. PluginOutput(in, EmptySample) = JsonDeserialize(in, EmptySample)
    BY Zenon, <1>2 DEF PluginOutput
  <2>2. OwnMembers(in) = in.members /\ tf_kind # "json serializer"
    BY Zenon, <1>2 DEF OwnMembers
  <2>. QED BY Zenon, <2>1, <2>2 DEF JsonDeserialize, OwnOutput, EmptySample
<1>3. OwnOutput(in)[BufferMember] # NullSlot[BufferMember]
  BY Zenon, TransformationAssumption DEF OwnOutput, NullSlot
<1>. QED BY Zenon, <1>1, <1>2, <1>3 DEF IsJson

\* Every slot that is not on loan is NULL or empty: what makes the next
\* batch's outputs its own.
OutputsInv ==
    IsJson /\ tf_clean =>
        /\ \A i \in 1 .. Len(tf_pool) :
               (tf_loaned /\ i <= tf_count) \/ tf_pool[i] \in {EmptySample, NullSlot}
        /\ tf_loaned => /\ tf_count = Len(tf_batch) /\ tf_count <= Len(tf_pool)
                        /\ \A i \in 1 .. tf_count : tf_pool[i] = OwnOutput(tf_batch[i])
PoolInv == JsonInv /\ OutputsInv

\* Every step keeps PoolInv.
LEMMA PoolInvNext == PoolInv /\ [TransformationNext]_tfvars => PoolInv'
<1>. SUFFICES ASSUME PoolInv, [TransformationNext]_tfvars PROVE PoolInv'
  OBVIOUS
<1>1. JsonInv /\ JsonInv' /\ TransformTypeInv /\ TransformTypeInv'
  BY Zenon, JsonInvNext DEF PoolInv, JsonInv
<1>2. tf_kind' = tf_kind /\ tf_member' = tf_member /\ tf_bound' = tf_bound
  BY Zenon, TransformTypesKept DEF tftypes
<1>3. ASSUME NEW in PROVE OwnOutput(in)' = OwnOutput(in)
  BY Zenon, <1>2 DEF OwnOutput, OwnMembers
<1>4. ASSUME NEW batch \in Batches, TransformSucceeds(batch), IsJson, tf_clean'
      PROVE  /\ \A i \in 1 .. Len(tf_pool') :
                    i <= tf_count' \/ tf_pool'[i] \in {EmptySample, NullSlot}
             /\ tf_count' = Len(tf_batch') /\ tf_count' <= Len(tf_pool')
             /\ \A i \in 1 .. tf_count' : tf_pool'[i] = OwnOutput(tf_batch'[i])
  <2>. DEFINE n == Len(batch)
  <2>1. /\ batch \in Seq(SampleInputs) /\ n \in Nat /\ DOMAIN batch = 1 .. n
        /\ n \in 0 .. n /\ \A i \in 1 .. n : batch[i] \in SampleInputs
    BY SMTT(30), BatchIsSeq, LenProperties, ElementOfSeq
  <2>2. tf_clean /\ ~tf_loaned /\ \A i \in 1 .. n : batch[i].valid
    BY Zenon, <1>4, <2>1 DEF TransformSucceeds
  <2>3. ValidUpTo(batch, n) = 1 .. n
    BY Zenon, <2>2 DEF ValidUpTo
  <2>4. tf_count' = n
    <3>1. Cardinality(1 .. n) = n
      <4>1. n \in Int /\ n >= 0
        BY <2>1
      <4>. HIDE DEF n
      <4>2. Cardinality(1 .. n) = IF 1 > n THEN 0 ELSE n - 1 + 1
        BY <4>1, FS_Interval
      <4>. QED BY <4>1, <4>2
    <3>. QED BY Zenon, <1>4, <2>3, <3>1 DEF TransformSucceeds
  <2>5. tf_pool' = PoolAfter(batch, n) /\ tf_batch' = batch
    BY Zenon, <1>4 DEF TransformSucceeds
  <2>. HIDE DEF n
  <2>6. \A i \in 1 .. Len(tf_pool) : tf_pool[i] \in {EmptySample, NullSlot}
    BY Zenon, <1>4, <2>2 DEF PoolInv, OutputsInv
  <2>7. /\ PoolLength(batch) \in Nat /\ PoolLength(batch) >= n
        /\ Len(PoolAfter(batch, n)) = PoolLength(batch)
    BY Zenon, <1>1, <2>1, PoolSlots DEF n
  <2>8. ASSUME NEW i \in 1 .. PoolLength(batch)
        PROVE  PoolSlot(i) \in {EmptySample, NullSlot} /\ Created(PoolSlot(i)) = EmptySample
    <3>1. PoolSlot(i) \in {EmptySample, NullSlot}
      <4>1. CASE i <= Len(tf_pool)
        <5>1. Len(tf_pool) \in Nat
          BY Zenon, <1>1, LenProperties DEF TransformTypeInv
        <5>2. i \in 1 .. Len(tf_pool)
          BY <2>7, <4>1, <5>1
        <5>. QED BY Zenon, <2>6, <4>1, <5>2 DEF PoolSlot
      <4>2. CASE ~(i <= Len(tf_pool))
        BY Zenon, <4>2 DEF PoolSlot
      <4>. QED BY Zenon, <4>1, <4>2
    <3>. QED BY Zenon, <3>1 DEF Created
  <2>9. ASSUME NEW i \in 1 .. n
        PROVE  tf_pool'[i] = OwnOutput(tf_batch'[i])
    <3>1. i \in 1 .. PoolLength(batch)
      BY <2>1, <2>7
    <3>2. PoolAfter(batch, n)[i] = PluginOutput(batch[i], Created(PoolSlot(i)))
      BY Zenon, <2>3, <3>1 DEF PoolAfter
    <3>. QED BY Zenon, <1>1, <1>4, <2>1, <2>5, <2>8, <3>1, <3>2, OutputIsOwn
  <2>10. ASSUME NEW i \in 1 .. PoolLength(batch), ~(i <= n)
         PROVE  tf_pool'[i] \in {EmptySample, NullSlot}
    <3>1. i \notin ValidUpTo(batch, n)
      BY SMTT(30), <2>1, <2>3, <2>10
    <3>2. PoolAfter(batch, n)[i] = PoolSlot(i)
      BY Zenon, <3>1 DEF PoolAfter
    <3>. QED BY Zenon, <2>5, <2>8, <3>2
  <2>11. n = Len(tf_batch') /\ Len(tf_pool') = PoolLength(batch)
    BY Zenon, <2>5, <2>7 DEF n
  <2>. QED BY Zenon, <2>4, <2>7, <2>9, <2>10, <2>11
<1>5. ASSUME NEW batch \in Batches, TransformSucceeds(batch) PROVE OutputsInv'
  <2>1. tf_loaned'
    BY Zenon, <1>5 DEF TransformSucceeds
  <2>2. IsJson' => IsJson
    BY ZenonT(30), <1>2 DEF IsJson
  <2>. QED BY Zenon, <1>3, <1>4, <1>5, <2>1, <2>2 DEF OutputsInv
<1>6. ASSUME NEW batch \in Batches, TransformFails(batch) PROVE OutputsInv'
  BY Zenon, <1>6 DEF TransformFails, OutputsInv
<1>7. ASSUME TransformReturnLoan PROVE OutputsInv'
  <2>. SUFFICES ASSUME IsJson, tf_clean, NEW i \in 1 .. Len(tf_pool')
                PROVE  tf_pool'[i] \in {EmptySample, NullSlot}
    BY Zenon, <1>2, <1>7 DEF TransformReturnLoan, OutputsInv, IsJson
  <2>1. /\ DOMAIN tf_pool = 1 .. Len(tf_pool) /\ Len(tf_pool) \in Nat
        /\ DOMAIN tf_pool' = 1 .. Len(tf_pool') /\ tf_count \in Nat
    BY Zenon, <1>1, LenProperties DEF TransformTypeInv
  <2>2. /\ i \in 1 .. Len(tf_pool)
        /\ tf_pool'[i] = IF i <= tf_count /\ tf_pool[i] # NullSlot THEN EmptySample
                         ELSE Aged(tf_pool[i])
    BY Zenon, <1>7, <2>1 DEF TransformReturnLoan
  <2>3. Aged(EmptySample) = EmptySample /\ Aged(NullSlot) = NullSlot
    BY Zenon DEF Aged, EmptySample, NullSlot
  <2>4. CASE i <= tf_count
    <3>1. i \in 1 .. tf_count /\ tf_count = Len(tf_batch)
      BY SMTT(30), <1>7, <2>1, <2>2, <2>4 DEF PoolInv, OutputsInv, TransformReturnLoan
    <3>2. tf_batch[i] \in SampleInputs
      BY Zenon, <1>1, <3>1, ElementOfSeq DEF TransformTypeInv
    <3>3. tf_pool[i] = OwnOutput(tf_batch[i])
      BY Zenon, <1>7, <3>1 DEF PoolInv, OutputsInv, TransformReturnLoan
    <3>4. tf_pool[i] # NullSlot
      BY Zenon, <1>1, <3>2, <3>3, OutputIsOwn
    <3>. QED BY Zenon, <2>2, <2>4, <3>4
  <2>5. CASE ~(i <= tf_count)
    <3>1. tf_pool[i] \in {EmptySample, NullSlot}
      BY Zenon, <2>2, <2>5 DEF PoolInv, OutputsInv
    <3>. QED BY Zenon, <2>2, <2>3, <2>5, <3>1
  <2>. QED BY Zenon, <2>4, <2>5
<1>8. ASSUME UNCHANGED tfvars PROVE OutputsInv'
  BY ZenonT(30), <1>2, <1>3, <1>8 DEF tfvars, PoolInv, OutputsInv, IsJson
<1>. QED BY Zenon, <1>1, <1>5, <1>6, <1>7, <1>8 DEF TransformationNext, TransformOnLoan, PoolInv

\* The JSON plugin's outputs are those of the batch, for batches of any
\* length, inputs with any members and every type of the buffer member,
\* however the pool grew and was reused before, until a batch fails or has a
\* sample without data.
THEOREM OutputsCorrect == TransformationSpec => []OutputsAreTheInputs
<1>1. TransformationInit => PoolInv
  <2>. SUFFICES ASSUME TransformationInit PROVE PoolInv
    OBVIOUS
  <2>1. Len(tf_pool) = 0 /\ ~tf_loaned
    BY Zenon DEF TransformationInit
  <2>. QED BY <2>1, JsonInvInit DEF PoolInv, OutputsInv
<1>2. PoolInv => OutputsAreTheInputs
  BY Zenon DEF PoolInv, OutputsInv, OutputsAreTheInputs
<1>. QED BY <1>1, <1>2, PoolInvNext, PTL DEF TransformationSpec

-----------------------------------------------------------------------------
(* The tables of the forwarding processor.                                 *)

Entries == [in_key : STRING, out_name : STRING]

\* find returns the first entry that matches, and that is the one the
\* configuration names.
LEMMA FindFirst ==
    ASSUME NEW table \in Seq(Entries), NEW string
    PROVE  \/ /\ find(table, string) = 0 /\ Configured(table, string) = {}
              /\ \A k \in 1 .. Len(table) : ~Matches(table[k], string)
           \/ /\ find(table, string) \in 1 .. Len(table)
              /\ Matches(table[find(table, string)], string)
              /\ Configured(table, string) = {table[find(table, string)].out_name}
<1>. DEFINE hits == {k \in DOMAIN table : Matches(table[k], string)}
<1>1. DOMAIN table = 1 .. Len(table) /\ Len(table) \in Nat
  BY Zenon, LenProperties
<1>2. CASE hits = {}
  BY Zenon, <1>1, <1>2 DEF find, Configured
<1>3. CASE hits # {}
  <2>1. hits \subseteq Nat
    BY <1>1
  <2>2. \E k \in hits : \A j \in hits : k <= j
    <3>. HIDE DEF hits
    <3>. QED BY Zenon, <1>3, <2>1, LeastNumber
  <2>3. find(table, string) = CHOOSE k \in hits : \A j \in hits : k <= j
    BY Zenon, <1>3 DEF find
  <2>4. PICK k : k = find(table, string) /\ k \in hits /\ \A j \in hits : k <= j
    <3>. HIDE DEF hits
    <3>. QED BY Zenon, <2>2, <2>3
  <2>5. k \in 1 .. Len(table) /\ Matches(table[k], string)
    BY Zenon, <1>1, <2>4
  <2>6. \A j \in 1 .. k - 1 : ~Matches(table[j], string)
    <3>. SUFFICES ASSUME NEW j \in 1 .. k - 1, Matches(table[j], string) PROVE FALSE
      BY Zenon
    <3>1. j \in hits /\ j < k
      BY <1>1, <2>5
    <3>. HIDE DEF hits
    <3>. QED BY <2>4, <2>5, <3>1
  <2>7. ASSUME NEW j \in DOMAIN table, Matches(table[j], string),
               \A l \in 1 .. j - 1 : ~Matches(table[l], string)
        PROVE  j = k
    <3>1. k <= j /\ j \in 1 .. Len(table)
      BY Zenon, <1>1, <2>4, <2>7
    <3>. QED BY SMTT(30), <2>5, <2>7, <3>1
  <2>8. {j \in DOMAIN table : /\ Matches(table[j], string)
                              /\ \A l \in 1 .. j - 1 : ~Matches(table[l], string)} = {k}
    BY Zenon, <1>1, <2>5, <2>6, <2>7
  <2>9. Configured(table, string) = {table[k].out_name}
    BY Zenon, <2>8 DEF Configured
  <2>. QED BY Zenon, <2>4, <2>5, <2>9
<1>. QED BY Zenon, <1>2, <1>3

\* The table of a configuration whose keys are apart is the configuration:
\* add finds no earlier entry to change.
LEMMA TableIsConfig ==
    ASSUME NEW config \in Seq(Entries), KeysAreApart(config)
    PROVE  from_matching_table(config) = config
<1>. DEFINE n == Len(config)
            Table(h) == h = [k \in 0 .. n |->
                                IF k = 0 THEN <<>> ELSE add(h[k - 1], config[k])]
            g == [k \in 0 .. n |-> SubSeq(config, 1, k)]
<1>1. n \in Nat /\ DOMAIN config = 1 .. n /\ \A k \in 1 .. n : config[k] \in Entries
  BY Zenon, LenProperties, ElementOfSeq
<1>2. ASSUME NEW k \in 0 .. n
      PROVE  /\ SubSeq(config, 1, k) \in Seq(Entries) /\ Len(SubSeq(config, 1, k)) = k
             /\ \A j \in 1 .. k : SubSeq(config, 1, k)[j] = config[j]
  <2>. HIDE DEF n
  <2>1. CASE k = 0
    BY <2>1, SubSeqEmpty
  <2>2. CASE k # 0
    <3>1. k \in 1 .. Len(config)
      BY <1>1, <2>2 DEF n
    <3>2. \A j \in 1 .. k : j \in 1 .. Len(config)
      BY <1>1, <3>1 DEF n
    <3>. QED BY <3>1, <3>2, <1>1, SubSeqProperties DEF n
  <2>. QED BY Zenon, <2>1, <2>2
<1>3. ASSUME NEW k \in 1 .. n
      PROVE  add(SubSeq(config, 1, k - 1), config[k]) = SubSeq(config, 1, k)
  <2>. DEFINE before == SubSeq(config, 1, k - 1)
              after == SubSeq(config, 1, k)
  <2>1. /\ before \in Seq(Entries) /\ Len(before) = k - 1
        /\ \A j \in 1 .. k - 1 : before[j] = config[j]
        /\ after \in Seq(Entries) /\ Len(after) = k
        /\ \A j \in 1 .. k : after[j] = config[j]
    BY SMTT(30), <1>1, <1>2
  <2>. HIDE DEF before, after
  <2>2. find(before, config[k].in_key) = 0
    <3>1. ASSUME NEW j \in 1 .. k - 1 PROVE ~Matches(before[j], config[k].in_key)
      BY <1>1, <2>1 DEF KeysAreApart
    <3>2. find(before, config[k].in_key) \notin 1 .. k - 1
          \/ ~Matches(before[find(before, config[k].in_key)], config[k].in_key)
      BY Zenon, <3>1
    <3>. QED BY Zenon, <2>1, <3>2, FindFirst
  <2>3. add(before, config[k]) = Append(before, config[k])
    BY Zenon, <2>2 DEF add
  <2>4. /\ Append(before, config[k]) \in Seq(Entries)
        /\ Len(Append(before, config[k])) = k
        /\ \A j \in 1 .. k : Append(before, config[k])[j] = config[j]
    <3>1. config[k] \in Entries
      BY Zenon, <1>1
    <3>. QED BY <2>1, <3>1, AppendProperties
  <2>5. Append(before, config[k]) = after
    BY Zenon, <2>1, <2>4, SeqEqual
  <2>. QED BY Zenon, <2>3, <2>5 DEF before, after
<1>4. Table(g)
  <2>1. ASSUME NEW k \in 0 .. n
        PROVE  g[k] = IF k = 0 THEN <<>> ELSE add(g[k - 1], config[k])
    <3>1. CASE k = 0
      <4>1. SubSeq(config, 1, 0) = <<>>
        BY SubSeqEmpty
      <4>. QED BY Zenon, <3>1, <4>1
    <3>2. CASE k # 0
      <4>1. k \in 1 .. n /\ g[k - 1] = SubSeq(config, 1, k - 1)
        BY <1>1, <3>2
      <4>. QED BY Zenon, <1>3, <3>2, <4>1
    <3>. QED BY Zenon, <3>1, <3>2
  <2>. QED BY Zenon, <2>1
<1>5. ASSUME NEW h, Table(h) PROVE h = g
  <2>. DEFINE S == {k \in 0 .. n : h[k] = g[k]}
  <2>1. 0 \in S
    BY SMTT(30), <1>1, <1>4, <1>5
  <2>2. ASSUME NEW k \in 1 .. n, k - 1 \in S PROVE k \in S
    <3>1. h[k] = add(h[k - 1], config[k]) /\ g[k] = add(g[k - 1], config[k])
      <4>. HIDE DEF g
      <4>. QED BY <1>1, <1>4, <1>5
    <3>. HIDE DEF g
    <3>. QED BY SMTT(30), <1>1, <2>2, <3>1
  <2>3. 0 .. n \subseteq S
    <3>. HIDE DEF S, n
    <3>. QED BY Zenon, <1>1, <2>1, <2>2, InductionUpTo
  <2>4. \A k \in 0 .. n : h[k] = g[k]
    BY Zenon, <2>3
  <2>5. h = [k \in 0 .. n |-> h[k]] /\ g = [k \in 0 .. n |-> g[k]]
    BY Zenon, <1>5
  <2>. HIDE DEF Table, g
  <2>. QED BY Zenon, <2>4, <2>5
<1>6. from_matching_table(config) = (CHOOSE h : Table(h))[n]
  BY Zenon DEF from_matching_table
<1>7. (CHOOSE h : Table(h)) = g
  <2>. HIDE DEF Table, g
  <2>. QED BY Zenon, <1>4, <1>5
<1>8. g[n] = config
  BY <1>1, SubSeqFull
<1>. HIDE DEF Table, g
<1>. QED BY Zenon, <1>6, <1>7, <1>8

-----------------------------------------------------------------------------
(* Forwarding.                                                             *)

\* The tables are those of the configuration, and the cache of members never
\* has one that is not in the input's type.
ForwardingInv ==
    /\ fw_by \in {"name", "value"} /\ fw_state \in {"new", "refused", "running"}
    /\ fw_config.forward \in Seq(Entries) /\ fw_config.members \in Seq(Entries)
    /\ \A i \in RouteInputSet : fw_cache[i] \subseteq InputMembers[i]
    /\ fw_state = "running" =>
           /\ fw_table = from_matching_table(fw_config.forward)
           /\ fw_by = "value" =>
                  /\ fw_members = from_matching_table(fw_config.members)
                  /\ ~TableIsRefused(fw_config.members)
    /\ fw_state # "running" => fw_taken = Nothing /\ fw_written = Nothing

\* Both tables of the configuration have keys that are apart.
RunsApart == /\ fw_state = "running" /\ KeysAreApart(fw_config.forward)
             /\ KeysAreApart(fw_config.members)

\* A member that is found in the cache is one of the input's type.
LEMMA KeyMemberKnown ==
    ASSUME ForwardingInv, NEW i \in RouteInputSet, KeyMember(i) # NoString
    PROVE  KeyMember(i) \in InputMembers[i]
BY Zenon DEF ForwardingInv, KeyMember

\* get_forwarding_key is the key the configuration names.
LEMMA KeyIsConfigured ==
    ASSUME ForwardingInv, RunsApart, NEW i \in RouteInputSet, NEW s
    PROVE  ConfiguredKeys(i, s) = {get_forwarding_key(i, s)} \ {NoKey}
<1>1. CASE fw_by = "name"
  BY Zenon, <1>1 DEF ConfiguredKeys, get_forwarding_key
<1>2. CASE fw_by = "value"
  <2>. DEFINE table == fw_config.members
              k == find(table, i)
  <2>1. fw_members = table /\ table \in Seq(Entries)
    BY Zenon, <1>2, TableIsConfig DEF ForwardingInv, RunsApart
  <2>2. ConfiguredKeys(i, s) =
            {s.members[m] : m \in Configured(table, i) \cap InputMembers[i]} \ {NoKey}
    BY Zenon, <1>2 DEF ConfiguredKeys
  <2>3. get_forwarding_key(i, s) = IF KeyMember(i) = NoString THEN NoKey
                                   ELSE s.members[KeyMember(i)]
    BY Zenon, <1>2 DEF get_forwarding_key
  <2>4. KeyMember(i) = IF k = 0 THEN NoString
                       ELSE IF table[k].out_name \in fw_cache[i] \cup InputMembers[i]
                       THEN table[k].out_name ELSE NoString
    BY Zenon, <2>1 DEF KeyMember
  <2>5. fw_cache[i] \cup InputMembers[i] = InputMembers[i]
    BY Zenon DEF ForwardingInv
  <2>6. \/ k = 0 /\ Configured(table, i) = {}
        \/ k \in 1 .. Len(table) /\ Configured(table, i) = {table[k].out_name}
    BY Zenon, <2>1, FindFirst
  <2>. HIDE DEF k
  <2>7. CASE k = 0 /\ Configured(table, i) = {}
    <3>1. get_forwarding_key(i, s) = NoKey
      BY Zenon, <2>3, <2>4, <2>7
    <3>2. ConfiguredKeys(i, s) = {}
      BY Zenon, <2>2, <2>7
    <3>. QED BY Zenon, <3>1, <3>2
  <2>8. CASE k \in 1 .. Len(table) /\ Configured(table, i) = {table[k].out_name}
    <3>. DEFINE name == table[k].out_name
    <3>1. name # NoString /\ k # 0
      <4>1. k \in DOMAIN table
        BY Zenon, <2>1, <2>8, LenProperties
      <4>2. k # 0
        BY SMTT(30), <2>1, <2>8, LenProperties
      <4>. QED BY Zenon, <1>2, <4>1, <4>2 DEF ForwardingInv, RunsApart, TableIsRefused
    <3>2. CASE name \in InputMembers[i]
      <4>1. KeyMember(i) = name
        BY Zenon, <2>4, <2>5, <3>1, <3>2
      <4>2. Configured(table, i) \cap InputMembers[i] = {name}
        BY Zenon, <2>8, <3>2
      <4>3. {s.members[m] : m \in {name}} = {s.members[name]}
        BY Zenon
      <4>. QED BY Zenon, <2>2, <2>3, <3>1, <4>1, <4>2, <4>3
    <3>3. CASE name \notin InputMembers[i]
      <4>1. get_forwarding_key(i, s) = NoKey
        BY Zenon, <2>3, <2>4, <2>5, <3>1, <3>3
      <4>2. ConfiguredKeys(i, s) = {}
        BY Zenon, <2>2, <2>8, <3>3
      <4>. QED BY SMTT(30), <4>1, <4>2
    <3>. QED BY Zenon, <3>2, <3>3
  <2>. QED BY Zenon, <2>6, <2>7, <2>8
<1>. QED BY Zenon, <1>1, <1>2 DEF ForwardingInv

\* forward_data writes a sample to the output the configuration names, or to
\* none when it names none of the route's or the write throws.
LEMMA DataGoesWhereConfigured ==
    ASSUME ForwardingInv, RunsApart, NEW i \in RouteInputSet, NEW s
    PROVE  \/ forward_data(i, s) = <<>> /\ OutputsReached(i, s) = {}
           \/ \E o \in OutputsReached(i, s) : forward_data(i, s) = <<o>>
<1>. DEFINE key == get_forwarding_key(i, s)
            table == fw_config.forward
            k == find(table, key)
<1>1. fw_table = table /\ table \in Seq(Entries)
  BY Zenon, TableIsConfig DEF ForwardingInv, RunsApart
<1>2. ConfiguredKeys(i, s) = {key} \ {NoKey}
  BY Zenon, KeyIsConfigured
<1>3. CASE s.refused
  BY Zenon, <1>3 DEF forward_data, OutputsReached
<1>4. ASSUME ~s.refused PROVE OutputsReached(i, s) = ConfiguredOutputs(i, s)
  BY Zenon, <1>4 DEF OutputsReached
<1>5. CASE ~s.refused /\ key = NoKey
  <2>1. ConfiguredOutputs(i, s) = {}
    BY Zenon, <1>2, <1>5 DEF ConfiguredOutputs
  <2>2. forward_data(i, s) = <<>>
    BY Zenon, <1>5 DEF forward_data
  <2>. QED BY Zenon, <1>5, <1>4, <2>1, <2>2
<1>6. CASE ~s.refused /\ key # NoKey
  <2>1. forward_data(i, s) = IF k # 0 /\ table[k].out_name \in RouteOutputs
                             THEN <<table[k].out_name>> ELSE <<>>
    BY Zenon, <1>1, <1>6 DEF forward_data
  <2>2. ConfiguredOutputs(i, s) = Configured(table, key) \cap RouteOutputs
    <3>1. ConfiguredKeys(i, s) = {key}
      BY Zenon, <1>2, <1>6
    <3>2. ConfiguredOutputs(i, s) =
              (UNION {Configured(table, q) : q \in {key}}) \cap RouteOutputs
      BY Zenon, <3>1 DEF ConfiguredOutputs
    <3>. HIDE DEF key, table
    <3>3. UNION {Configured(table, q) : q \in {key}} = Configured(table, key)
      BY Zenon
    <3>. QED BY Zenon, <3>2, <3>3
  <2>3. \/ k = 0 /\ Configured(table, key) = {}
        \/ k # 0 /\ Configured(table, key) = {table[k].out_name}
    <3>. HIDE DEF key
    <3>. QED BY SMTT(30), <1>1, LenProperties, FindFirst
  <2>. HIDE DEF k, key
  <2>4. CASE k = 0 /\ Configured(table, key) = {}
    BY Zenon, <1>6, <1>4, <2>1, <2>2, <2>4
  <2>5. CASE k # 0 /\ Configured(table, key) = {table[k].out_name}
    BY Zenon, <1>6, <1>4, <2>1, <2>2, <2>5
  <2>. QED BY Zenon, <2>3, <2>4, <2>5
<1>. QED BY Zenon, <1>5, <1>6, <1>3

\* The loop over the samples of an input.
LEMMA ForwardLoop ==
    ASSUME ForwardingInv, RunsApart, NEW i \in RouteInputSet,
           NEW samples \in Seq(SamplesOf(i))
    PROVE  \E out \in [0 .. Len(samples) -> Seq(RouteOutputs)] :
               /\ out[0] = <<>> /\ ForwardInput(i, samples) = out[Len(samples)]
               /\ \A k \in 1 .. Len(samples) :
                      out[k] = IF samples[k].valid
                               THEN out[k - 1] \o forward_data(i, samples[k])
                               ELSE out[k - 1]
<1>. DEFINE n == Len(samples)
            V == Seq(RouteOutputs)
            z == <<>>
            C(k, v) == IF samples[k].valid THEN v \o forward_data(i, samples[k]) ELSE v
            F == [k \in 1 .. n |-> [v \in V |-> C(k, v)]]
            Loop(h) == h = [k \in 0 .. n |-> IF k = 0 THEN z ELSE C(k, h[k - 1])]
<1>1. n \in Nat
  BY Zenon, LenProperties
<1>2. ForwardInput(i, samples) = (CHOOSE h : Loop(h))[n]
  BY Zenon DEF ForwardInput
<1>3. ASSUME NEW k \in 1 .. n, NEW v \in V PROVE C(k, v) \in V
  <2>. DEFINE d == forward_data(i, samples[k])
  <2>1. d \in V
    <3>1. CASE d = <<>>
      <4>1. <<>> \in Seq(RouteOutputs)
        OBVIOUS
      <4>. QED BY Zenon, <3>1, <4>1
    <3>2. CASE \E o \in OutputsReached(i, samples[k]) : d = <<o>>
      <4>1. PICK o \in RouteOutputs : d = <<o>>
        BY Zenon, <3>2 DEF ConfiguredOutputs, OutputsReached
      <4>2. <<o>> \in Seq(RouteOutputs)
        BY SMTT(30)
      <4>. QED BY Zenon, <4>1, <4>2
    <3>. QED BY Zenon, <3>1, <3>2, DataGoesWhereConfigured
  <2>. HIDE DEF d
  <2>2. v \o d \in V
    BY Zenon, <2>1, ConcatProperties
  <2>. QED BY Zenon, <2>2 DEF d
<1>4. z \in V
  OBVIOUS
<1>. HIDE DEF C, z, V
<1>5. F \in [1 .. n -> [V -> V]]
  <2>1. ASSUME NEW k \in 1 .. n PROVE [v \in V |-> C(k, v)] \in [V -> V]
    BY Zenon, <1>3
  <2>. QED BY Zenon, <2>1
<1>6. PICK g \in [0 .. n -> V] : g[0] = z /\ \A k \in 1 .. n : g[k] = F[k][g[k - 1]]
  <2>1. n \in Nat /\ z \in V /\ F \in [1 .. n -> [V -> V]]
    BY Zenon, <1>1, <1>4, <1>5
  <2>. HIDE DEF F, n, Loop
  <2>2. LoopRuns(n, V, z, F)
    BY Zenon, <2>1, LoopValues
  <2>. QED BY Zenon, <2>2 DEF LoopRuns
<1>. HIDE DEF n
<1>7. ASSUME NEW k \in 1 .. n PROVE g[k] = C(k, g[k - 1])
  <2>1. g[k - 1] \in V
    BY <1>1
  <2>. QED BY Zenon, <1>6, <2>1
<1>. HIDE DEF F
<1>8. Loop(g)
  <2>1. \A k \in 0 .. n : g[k] = IF k = 0 THEN z ELSE C(k, g[k - 1])
    BY <1>1, <1>6, <1>7
  <2>. QED BY Zenon, <2>1
<1>9. ASSUME NEW h, Loop(h) PROVE h = g
  <2>. DEFINE S == {k \in 0 .. n : h[k] = g[k]}
  <2>1. 0 \in S
    BY SMTT(30), <1>1, <1>6, <1>9
  <2>2. ASSUME NEW k \in 1 .. n, k - 1 \in S PROVE k \in S
    <3>1. h[k] = C(k, h[k - 1])
      BY <1>1, <1>9
    <3>. QED BY SMTT(30), <1>1, <1>7, <2>2, <3>1
  <2>3. 0 .. n \subseteq S
    <3>. HIDE DEF S
    <3>. QED BY Zenon, <1>1, <2>1, <2>2, InductionUpTo
  <2>4. \A k \in 0 .. n : h[k] = g[k]
    BY Zenon, <2>3
  <2>5. h = [k \in 0 .. n |-> h[k]] /\ g = [k \in 0 .. n |-> g[k]]
    BY Zenon, <1>9
  <2>. HIDE DEF Loop
  <2>. QED BY Zenon, <2>4, <2>5
<1>10. (CHOOSE h : Loop(h)) = g
  <2>. HIDE DEF Loop
  <2>. QED BY Zenon, <1>8, <1>9
<1>11. g[0] = z /\ ForwardInput(i, samples) = g[n] /\ \A k \in 1 .. n : g[k] = C(k, g[k - 1])
  <2>. HIDE DEF Loop
  <2>. QED BY Zenon, <1>2, <1>6, <1>7, <1>10
<1>12. \E out \in [0 .. n -> V] :
           /\ out[0] = z /\ ForwardInput(i, samples) = out[n]
           /\ \A k \in 1 .. n : out[k] = C(k, out[k - 1])
  BY Zenon, <1>11
<1>. QED BY Zenon, <1>12 DEF V, n, z, C

\* The samples to send are a finite set, and those up to one of them are
\* fewer than all.
LEMMA ToSendCounts ==
    ASSUME NEW i, NEW samples, NEW k \in Nat
    PROVE  /\ IsFiniteSet(ToSend(i, samples, k))
           /\ Cardinality(ToSend(i, samples, k)) \in Nat
           /\ \A j \in ToSend(i, samples, k) :
                  Cardinality(ToSend(i, samples, j))
                      \in 1 .. Cardinality(ToSend(i, samples, k))
<1>1. ASSUME NEW l \in Nat
      PROVE  /\ IsFiniteSet(ToSend(i, samples, l))
             /\ Cardinality(ToSend(i, samples, l)) \in Nat
  <2>1. IsFiniteSet(1 .. l)
    BY FS_Interval
  <2>2. ToSend(i, samples, l) \subseteq 1 .. l
    BY Zenon DEF ToSend
  <2>3. IsFiniteSet(ToSend(i, samples, l))
    BY Zenon, <2>1, <2>2, FS_Subset
  <2>. QED BY Zenon, <2>3, FS_CardinalityType
<1>2. ASSUME NEW j \in ToSend(i, samples, k)
      PROVE  Cardinality(ToSend(i, samples, j)) \in 1 .. Cardinality(ToSend(i, samples, k))
  <2>1. /\ j \in Nat /\ j \in ToSend(i, samples, j)
        /\ ToSend(i, samples, j) \subseteq ToSend(i, samples, k)
    BY DEF ToSend
  <2>2. Cardinality(ToSend(i, samples, j)) <= Cardinality(ToSend(i, samples, k))
    BY Zenon, <1>1, <2>1, FS_Subset
  <2>3. Cardinality(ToSend(i, samples, j)) # 0
    BY Zenon, <1>1, <2>1, FS_EmptySet
  <2>. QED BY SMTT(30), <1>1, <2>1, <2>2, <2>3
<1>. QED BY Zenon, <1>1, <1>2

\* One more sample that ought to be sent.
OneMore(i, samples, k) ==
    /\ ToSend(i, samples, k) = ToSend(i, samples, k - 1) \cup {k}
    /\ Cardinality(ToSend(i, samples, k)) = Cardinality(ToSend(i, samples, k - 1)) + 1

\* A valid sample with outputs is one more to send.
LEMMA ToSendAdds ==
    ASSUME NEW i, NEW samples, NEW k \in Nat, k # 0,
           samples[k].valid, OutputsReached(i, samples[k]) # {}
    PROVE  OneMore(i, samples, k)
<1>1. ToSend(i, samples, k) = ToSend(i, samples, k - 1) \cup {k}
  BY DEF ToSend
<1>2. k \notin ToSend(i, samples, k - 1)
  BY DEF ToSend
<1>3. k - 1 \in Nat
  OBVIOUS
<1>4. IsFiniteSet(ToSend(i, samples, k - 1))
  BY Zenon, <1>3, ToSendCounts
<1>5. Cardinality(ToSend(i, samples, k - 1) \cup {k})
          = Cardinality(ToSend(i, samples, k - 1)) + 1
  BY Zenon, <1>2, <1>4, FS_AddElement
<1>6. Cardinality(ToSend(i, samples, k)) = Cardinality(ToSend(i, samples, k - 1)) + 1
  BY <1>1, <1>5, Zenon
<1>. QED BY <1>1, <1>6, Zenon DEF OneMore

\* One more that ought not to be.
LEMMA ToSendKeeps ==
    ASSUME NEW i, NEW samples, NEW k \in Nat, k # 0,
           ~samples[k].valid \/ OutputsReached(i, samples[k]) = {}
    PROVE  ToSend(i, samples, k) = ToSend(i, samples, k - 1)
BY SMTT(30) DEF ToSend

\* What was written for the first n samples of an input.
Forwarded(i, samples, n, written) ==
    /\ Len(written) = Cardinality(ToSend(i, samples, n))
    /\ \A k \in ToSend(i, samples, n) :
           written[Cardinality(ToSend(i, samples, k))] \in OutputsReached(i, samples[k])

\* A batch of an input goes where its samples are to go.
LEMMA InputForwarded ==
    ASSUME ForwardingInv, RunsApart, NEW i \in RouteInputSet,
           NEW samples \in Seq(SamplesOf(i))
    PROVE  Forwarded(i, samples, Len(samples), ForwardInput(i, samples))
<1>. DEFINE n == Len(samples)
<1>1. n \in Nat /\ \A k \in 1 .. n : samples[k].valid \in BOOLEAN
  <2>1. \A k \in 1 .. n : samples[k] \in SamplesOf(i)
    BY Zenon, ElementOfSeq
  <2>. QED BY Zenon, <2>1, LenProperties DEF SamplesOf
<1>2. PICK out \in [0 .. n -> Seq(RouteOutputs)] :
          /\ out[0] = <<>> /\ ForwardInput(i, samples) = out[n]
          /\ \A k \in 1 .. n : out[k] = IF samples[k].valid
                                        THEN out[k - 1] \o forward_data(i, samples[k])
                                        ELSE out[k - 1]
  BY Zenon, ForwardLoop
<1>. HIDE DEF n
<1>. DEFINE S == {k \in 0 .. n : Forwarded(i, samples, k, out[k])}
<1>3. 0 \in S
  <2>1. ToSend(i, samples, 0) = {} /\ Cardinality({}) = 0 /\ Len(<<>>) = 0
    BY SMTT(30), FS_EmptySet DEF ToSend
  <2>2. out[0] = <<>>
    BY Zenon, <1>2
  <2>3. Len(out[0]) = Cardinality(ToSend(i, samples, 0))
    <3>1. out[0] \in Seq(RouteOutputs)
      BY <1>1
    <3>2. Len(out[0]) = 0
      BY Zenon, <2>2, <3>1, EmptySeq
    <3>3. Cardinality(ToSend(i, samples, 0)) = 0
      BY <2>1, Zenon
    <3>. QED BY Zenon, <3>2, <3>3
  <2>4. Forwarded(i, samples, 0, out[0])
    BY Zenon, <2>1, <2>3 DEF Forwarded
  <2>. QED BY <1>1, <2>4
<1>4. ASSUME NEW k \in 1 .. n, k - 1 \in S PROVE k \in S
  <2>. DEFINE before == out[k - 1]
              after == out[k]
              d == forward_data(i, samples[k])
  <2>1. /\ k \in Nat /\ k # 0 /\ k - 1 \in Nat /\ k \in 0 .. n
        /\ before \in Seq(RouteOutputs)
    BY <1>1
  <2>2. Forwarded(i, samples, k - 1, before)
    BY Zenon, <1>4
  <2>3. after = IF samples[k].valid THEN before \o d ELSE before
    BY Zenon, <1>2
  <2>4. \/ d = <<>> /\ OutputsReached(i, samples[k]) = {}
        \/ \E o \in OutputsReached(i, samples[k]) : d = <<o>>
    BY Zenon, DataGoesWhereConfigured
  <2>. HIDE DEF before, after, d, S
  <2>5. CASE samples[k].valid /\ \E o \in OutputsReached(i, samples[k]) : d = <<o>>
    <3>1. PICK o \in OutputsReached(i, samples[k]) : d = <<o>>
      BY Zenon, <2>5
    <3>2. o \in RouteOutputs
      BY Zenon DEF ConfiguredOutputs, OutputsReached
    <3>3. /\ Len(before \o <<o>>) = Len(before) + 1
          /\ \A j \in 1 .. Len(before) : (before \o <<o>>)[j] = before[j]
          /\ (before \o <<o>>)[Len(before) + 1] = o
          /\ Len(before) \in Nat
      <4>1. <<o>> \in Seq(RouteOutputs) /\ Len(<<o>>) = 1 /\ <<o>>[1] = o
        BY <3>2
      <4>. QED BY SMTT(30), <2>1, <4>1, ConcatProperties, LenProperties
    <3>4. after = before \o <<o>>
      BY Zenon, <2>3, <2>5, <3>1
    <3>. DEFINE was == ToSend(i, samples, k - 1)
                now == ToSend(i, samples, k)
    <3>5. now = was \cup {k} /\ Cardinality(now) = Cardinality(was) + 1
      <4>1. OutputsReached(i, samples[k]) # {}
        BY Zenon, <3>1
      <4>2. samples[k].valid
        BY Zenon, <2>5
      <4>3. k \in Nat /\ k # 0
        BY Zenon, <2>1
      <4>4. OneMore(i, samples, k)
        BY <4>1, <4>2, <4>3, ToSendAdds, Zenon
      <4>. QED BY Zenon, <4>4 DEF OneMore
    <3>6. ASSUME NEW j \in was
          PROVE  /\ Cardinality(ToSend(i, samples, j)) \in 1 .. Len(before)
                 /\ before[Cardinality(ToSend(i, samples, j))]
                        \in OutputsReached(i, samples[j])
      <4>1. Cardinality(ToSend(i, samples, j)) \in 1 .. Cardinality(was)
        BY Zenon, <2>1, ToSendCounts
      <4>. QED BY Zenon, <2>2, <4>1 DEF Forwarded
    <3>7. Len(after) = Cardinality(now) /\ Cardinality(now) = Len(before) + 1
      BY Zenon, <2>2, <3>3, <3>4, <3>5 DEF Forwarded
    <3>. HIDE DEF was
    <3>8. ASSUME NEW j \in now
          PROVE  after[Cardinality(ToSend(i, samples, j))]
                     \in OutputsReached(i, samples[j])
      <4>1. CASE j \in was
        <5>1. after[Cardinality(ToSend(i, samples, j))]
                  = before[Cardinality(ToSend(i, samples, j))]
          BY Zenon, <3>3, <3>4, <3>6, <4>1
        <5>. QED BY Zenon, <3>6, <4>1, <5>1
      <4>2. CASE j = k
        <5>1. after[Cardinality(ToSend(i, samples, k))] = o
          BY Zenon, <3>3, <3>4, <3>7
        <5>. QED BY Zenon, <4>2, <5>1
      <4>. QED BY Zenon, <3>5, <4>1, <4>2
    <3>9. Forwarded(i, samples, k, after)
      BY Zenon, <3>7, <3>8 DEF Forwarded
    <3>. QED BY Zenon, <2>1, <3>9 DEF S, after
  <2>6. CASE ~samples[k].valid \/ (d = <<>> /\ OutputsReached(i, samples[k]) = {})
    <3>1. after = before
      <4>1. before \o <<>> = before
        BY Zenon, <2>1, ConcatEmptySeq
      <4>2. CASE samples[k].valid
        <5>1. d = <<>> /\ after = before \o d
          BY Zenon, <2>3, <2>6, <4>2
        <5>. QED BY Zenon, <4>1, <5>1
      <4>3. CASE ~samples[k].valid
        BY Zenon, <2>3, <4>3
      <4>. QED BY Zenon, <4>2, <4>3
    <3>2. ToSend(i, samples, k) = ToSend(i, samples, k - 1)
      BY Zenon, <2>1, <2>6, ToSendKeeps
    <3>3. Forwarded(i, samples, k, after)
      BY Zenon, <2>2, <3>1, <3>2 DEF Forwarded
    <3>. QED BY Zenon, <2>1, <3>3 DEF S, after
  <2>. QED BY Zenon, <2>4, <2>5, <2>6
<1>5. 0 .. n \subseteq S
  <2>. HIDE DEF S
  <2>1. n \in Nat /\ \A k \in 1 .. n : k - 1 \in S => k \in S
    BY Zenon, <1>1, <1>4
  <2>. QED BY <1>3, <2>1, InductionUpTo, Zenon
<1>6. Forwarded(i, samples, n, out[n])
  BY <1>1, <1>5
<1>. QED BY Zenon, <1>2, <1>6 DEF n

\* The samples the processor takes of its inputs.
LEMMA TakenIsSeq ==
    ASSUME NEW j \in RouteInputSet, NEW samples \in TakenOf(j), NEW i \in RouteInputSet
    PROVE  [Nothing EXCEPT ![j] = samples][i] \in Seq(SamplesOf(i))
<1>1. PICK n \in 0 .. MaxTaken : samples \in [1 .. n -> SamplesOf(j)]
  BY Zenon DEF TakenOf
<1>2. samples \in Seq(SamplesOf(j))
  BY <1>1, SeqDef
<1>3. <<>> \in Seq(SamplesOf(i))
  OBVIOUS
<1>4. CASE i = j
  <2>1. [Nothing EXCEPT ![j] = samples][j] \in Seq(SamplesOf(j))
    <3>1. j \in DOMAIN Nothing
      BY Zenon DEF Nothing
    <3>2. [Nothing EXCEPT ![j] = samples][j] = samples
      BY Zenon, <3>1
    <3>. QED BY <1>2, <3>2, Zenon
  <2>. QED BY <1>4, <2>1, Zenon
<1>5. CASE i # j
  <2>1. Nothing[i] = <<>> /\ i \in DOMAIN Nothing
    BY Zenon DEF Nothing
  <2>2. [Nothing EXCEPT ![j] = samples][i] = <<>>
    BY Zenon, <1>5, <2>1
  <2>. QED BY <1>3, <2>2, Zenon
<1>. QED BY Zenon, <1>4, <1>5

ForwardingFullInv == ForwardingInv /\ SamplesGoWhereConfigured

\* What SamplesGoWhereConfigured says after a step that leaves the
\* configuration as it is.
LEMMA ForwardedNext ==
    ASSUME fw_by' = fw_by, fw_config' = fw_config,
           fw_state' = "running" /\ KeysAreApart(fw_config.forward)
                                 /\ KeysAreApart(fw_config.members) =>
               \A i \in RouteInputSet :
                   Forwarded(i, fw_taken'[i], Len(fw_taken'[i]), fw_written'[i])
    PROVE  SamplesGoWhereConfigured'
<1>1. ASSUME NEW i, NEW s PROVE OutputsReached(i, s)' = OutputsReached(i, s)
  BY SMTT(30) DEF OutputsReached, ConfiguredOutputs, ConfiguredKeys
<1>2. ASSUME NEW i, NEW samples, NEW n
      PROVE  ToSend(i, samples, n)' = ToSend(i, samples, n)
  BY Zenon, <1>1 DEF ToSend
<1>3. ASSUME NEW i, NEW samples, NEW n, NEW written
      PROVE  Forwarded(i, samples, n, written)' <=> Forwarded(i, samples, n, written)
  BY Zenon, <1>1, <1>2 DEF Forwarded
<1>. SUFFICES ASSUME fw_state' = "running", KeysAreApart(fw_config.forward),
                     KeysAreApart(fw_config.members), NEW i \in RouteInputSet
              PROVE  Forwarded(i, fw_taken[i], Len(fw_taken[i]), fw_written[i])'
  BY Zenon DEF SamplesGoWhereConfigured, Forwarded
<1>. QED BY Zenon, <1>3

\* Every step keeps the invariant of forwarding.
LEMMA ForwardingInvNext ==
    ForwardingFullInv /\ [ForwardingNext]_fwvars => ForwardingFullInv'
<1>. SUFFICES ASSUME ForwardingFullInv, [ForwardingNext]_fwvars
              PROVE  ForwardingFullInv'
  OBVIOUS
<1>1. ForwardingInv
  BY Zenon DEF ForwardingFullInv
<1>2. ASSUME CreateProcessor PROVE ForwardingFullInv'
  <2>1. /\ fw_by' = fw_by /\ fw_config' = fw_config /\ fw_cache' = fw_cache
        /\ fw_taken' = Nothing /\ fw_written' = Nothing
    BY Zenon, <1>1, <1>2 DEF CreateProcessor, ForwardingInv
  <2>2. ForwardingInv'
    <3>1. \/ fw_state' = "refused"
          \/ /\ fw_state' = "running"
             /\ fw_table' = from_matching_table(fw_config.forward)
             /\ fw_by = "value" =>
                    /\ fw_members' = from_matching_table(fw_config.members)
                    /\ ~TableIsRefused(fw_config.members)
      BY Zenon, <1>2 DEF CreateProcessor
    <3>. QED BY Zenon, <1>1, <2>1, <3>1 DEF ForwardingInv
  <2>3. ASSUME NEW i \in RouteInputSet
        PROVE  Forwarded(i, fw_taken'[i], Len(fw_taken'[i]), fw_written'[i])
    <3>1. fw_taken'[i] = <<>> /\ fw_written'[i] = <<>> /\ Len(<<>>) = 0
      BY Zenon, <2>1 DEF Nothing
    <3>2. ToSend(i, <<>>, 0) = {}
      BY DEF ToSend
    <3>3. Cardinality({}) = 0
      BY Zenon, FS_EmptySet
    <3>4. Cardinality(ToSend(i, <<>>, 0)) = 0
      BY <3>2, <3>3, Zenon
    <3>5. Forwarded(i, <<>>, 0, <<>>)
      BY Zenon, <3>1, <3>2, <3>4 DEF Forwarded
    <3>. QED BY Zenon, <3>1, <3>5
  <2>4. SamplesGoWhereConfigured'
    BY <2>1, <2>3, ForwardedNext
  <2>. QED BY Zenon, <2>2, <2>4 DEF ForwardingFullInv
<1>3. ASSUME DataAvailable PROVE ForwardingFullInv'
  <2>0. PICK j \in RouteInputSet : \E samples \in TakenOf(j) :
            on_data_available([Nothing EXCEPT ![j] = samples])
    BY Zenon, <1>3 DEF DataAvailable
  <2>1. PICK samples \in TakenOf(j) :
            on_data_available([Nothing EXCEPT ![j] = samples])
    BY Zenon, <2>0
  <2>. DEFINE taken == [Nothing EXCEPT ![j] = samples]
  <2>2. \A i \in RouteInputSet : taken[i] \in Seq(SamplesOf(i))
    BY Zenon, TakenIsSeq
  <2>3. on_data_available(taken)
    BY Zenon, <2>1
  <2>. HIDE DEF taken
  <2>4. /\ fw_by' = fw_by /\ fw_config' = fw_config /\ fw_table' = fw_table
        /\ fw_members' = fw_members /\ fw_state' = fw_state
        /\ fw_state = "running" /\ fw_taken' = taken
        /\ \A i \in RouteInputSet : fw_written'[i] = ForwardInput(i, taken[i])
    BY Zenon, <2>3 DEF on_data_available
  <2>5. \A i \in RouteInputSet : fw_cache'[i] \subseteq InputMembers[i]
    <3>. SUFFICES ASSUME NEW i \in RouteInputSet PROVE fw_cache'[i] \subseteq InputMembers[i]
      BY Zenon
    <3>1. \/ fw_cache'[i] = fw_cache[i]
          \/ KeyMember(i) # NoString /\ fw_cache'[i] = fw_cache[i] \cup {KeyMember(i)}
      BY Zenon, <2>3 DEF on_data_available
    <3>2. fw_cache[i] \subseteq InputMembers[i]
      BY Zenon, <1>1 DEF ForwardingInv
    <3>3. KeyMember(i) # NoString => KeyMember(i) \in InputMembers[i]
      BY Zenon, <1>1, KeyMemberKnown
    <3>. QED BY SMTT(30), <3>1, <3>2, <3>3
  <2>6. ForwardingInv'
    BY Zenon, <1>1, <2>4, <2>5 DEF ForwardingInv
  <2>7. ASSUME KeysAreApart(fw_config.forward), KeysAreApart(fw_config.members),
               NEW i \in RouteInputSet
        PROVE  Forwarded(i, fw_taken'[i], Len(fw_taken'[i]), fw_written'[i])
    <3>1. RunsApart
      BY Zenon, <2>4, <2>7 DEF RunsApart
    <3>2. Forwarded(i, taken[i], Len(taken[i]), ForwardInput(i, taken[i]))
      BY SMTT(30), <1>1, <2>2, <3>1, InputForwarded
    <3>. QED BY Zenon, <2>4, <3>2
  <2>8. SamplesGoWhereConfigured'
    BY SMTT(30), <2>4, <2>7, ForwardedNext
  <2>. QED BY Zenon, <2>6, <2>8 DEF ForwardingFullInv
<1>4. ASSUME UNCHANGED fwvars PROVE ForwardingFullInv'
  <2>1. ForwardingInv'
    BY Zenon, <1>1, <1>4 DEF fwvars, ForwardingInv
  <2>2. SamplesGoWhereConfigured'
    <3>1. fw_state = "running" /\ KeysAreApart(fw_config.forward)
                               /\ KeysAreApart(fw_config.members) =>
              \A i \in RouteInputSet :
                  Forwarded(i, fw_taken[i], Len(fw_taken[i]), fw_written[i])
      BY SMTT(30) DEF ForwardingFullInv, SamplesGoWhereConfigured, Forwarded
    <3>. QED BY Zenon, <1>4, <3>1, ForwardedNext DEF fwvars
  <2>. QED BY SMTT(30), <2>1, <2>2 DEF ForwardingFullInv
<1>. QED BY Zenon, <1>2, <1>3, <1>4 DEF ForwardingNext

\* Samples go where the configuration says, for tables of any length, any
\* relation of patterns to keys and any number of samples, as long as no key
\* of a table is matched by an earlier one: the table that add builds is then
\* the configuration, and the cache of members never changes the key.
THEOREM SamplesForwarded == ForwardingSpec => []SamplesGoWhereConfigured
<1>1. ForwardingInit => ForwardingFullInv
  <2>. SUFFICES ASSUME ForwardingInit PROVE ForwardingFullInv
    OBVIOUS
  <2>1. fw_config.forward \in Seq(Entries) /\ fw_config.members \in Seq(Entries)
    BY Zenon, ForwardingAssumption DEF ForwardingInit, Entries
  <2>. QED BY Zenon, <2>1 DEF ForwardingInit, ForwardingFullInv, ForwardingInv,
              SamplesGoWhereConfigured
<1>2. ForwardingFullInv => SamplesGoWhereConfigured
  BY DEF ForwardingFullInv
<1>. QED BY <1>1, <1>2, ForwardingInvNext, PTL DEF ForwardingSpec
=============================================================================
