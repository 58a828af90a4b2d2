---------------------- MODULE MqttConfigurationProofs ----------------------
(***************************************************************************)
(* The configuration of an MQTT client, subscription or publication is     *)
(* what its properties say, for every choice of texts.                     *)
(*                                                                         *)
(* The loops of the code are recursive functions.  That such a function    *)
(* satisfies its own equation is shown first, and what a loop establishes  *)
(* then follows by looking at the first iteration that would not.          *)
(***************************************************************************)
EXTENDS MqttConfiguration, WellFoundedInduction, TLAPS

-----------------------------------------------------------------------------
(* Loops.                                                                  *)

\* A set of natural numbers that has an element has a least one.
LEMMA LeastNumber ==
    ASSUME NEW T, T \subseteq Nat, T # {}
    PROVE  \E x \in T : \A y \in T : x <= y
<1>. DEFINE R == {ss \in Nat \X Nat : ss[1] < ss[2]}
<1>1. IsWellFoundedOn(R, Nat)
  BY Zenon, NatLessThanWellFounded DEF OpToRel
<1>. HIDE DEF R
<1>2. PICK x \in T : \A y \in T : ~(<<y, x>> \in R)
  BY Zenon, <1>1, WFMin
<1>3. \A y \in T : ~(y < x)
  BY Zenon, <1>2 DEF R
<1>. QED BY <1>3

-----------------------------------------------------------------------------
(* The recursive functions of the model satisfy their own equations.       *)

\* The loop of DDS_StringSeq_from_string begins here.
LoopStart == [consumed |-> 0, seq |-> <<>>]

\* The states of the loop that splits a text, up to iteration n.
LoopRuns(text, f, n) ==
    /\ DOMAIN f = 0 .. n /\ f[0] = LoopStart
    /\ \A k \in 1 .. n : f[k] = NextElement(text, f[k - 1])

\* That function exists.
LEMMA LoopExists ==
    ASSUME NEW text, NEW n \in Nat
    PROVE  \E f : LoopRuns(text, f, n)
<1>. DEFINE T == {k \in 0 .. n : ~\E f : LoopRuns(text, f, k)}
<1>. SUFFICES ASSUME T # {} PROVE FALSE
  OBVIOUS
<1>1. PICK k \in T : \A y \in T : k <= y
  <2>1. T \subseteq Nat
    OBVIOUS
  <2>. QED BY Zenon, <2>1, LeastNumber
<1>2. CASE k = 0
  <2>1. LoopRuns(text, [i \in 0 .. 0 |-> LoopStart], 0)
    BY DEF LoopRuns
  <2>. QED BY Zenon, <1>2, <2>1
<1>3. CASE k > 0
  <2>0. k \in Nat /\ k - 1 \in 0 .. n /\ k <= n
    BY <1>3
  <2>1. PICK f : LoopRuns(text, f, k - 1)
    BY <1>1, <2>0
  <2>. DEFINE next == NextElement(text, f[k - 1])
              g == [i \in 0 .. k |-> IF i = k THEN next ELSE f[i]]
  <2>2. DOMAIN g = 0 .. k /\ g[k] = next /\ \A i \in 0 .. k - 1 : g[i] = f[i]
    <3>. HIDE DEF next
    <3>. QED BY <1>3, <2>0
  <2>. HIDE DEF g
  <2>3. g[0] = LoopStart
    <3>1. 0 \in 0 .. k - 1
      BY <1>3, <2>0
    <3>. QED BY Zenon, <2>1, <2>2, <3>1 DEF LoopRuns
  <2>4. ASSUME NEW i \in 1 .. k
        PROVE  g[i] = NextElement(text, g[i - 1])
    <3>1. i - 1 \in 0 .. k - 1 /\ g[i - 1] = f[i - 1]
      BY <2>0, <2>2
    <3>2. CASE i = k
      BY Zenon, <2>2, <3>1, <3>2
    <3>3. CASE i # k
      <4>1. i \in 1 .. k - 1 /\ i \in 0 .. k - 1
        BY <2>0, <3>3
      <4>2. g[i] = f[i]
        BY Zenon, <2>2, <4>1
      <4>3. f[i] = NextElement(text, f[i - 1])
        BY Zenon, <2>1, <4>1 DEF LoopRuns
      <4>. QED BY Zenon, <3>1, <4>2, <4>3
    <3>. QED BY Zenon, <3>2, <3>3
  <2>5. LoopRuns(text, g, k)
    BY Zenon, <2>2, <2>3, <2>4 DEF LoopRuns
  <2>. QED BY Zenon, <2>5
<1>. QED BY <1>2, <1>3

\* Elements computes with it.
LEMMA LoopIs ==
    ASSUME NEW text, Len(text) \in Nat
    PROVE  \E f : LoopRuns(text, f, Len(text)) /\ Elements(text) = f[Len(text)].seq
<1>. DEFINE n == Len(text)
            P(f) == f = [k \in 0 .. n |-> IF k = 0 THEN LoopStart ELSE NextElement(text, f[k - 1])]
            run == CHOOSE f : P(f)
<1>1. PICK f : LoopRuns(text, f, n)
  BY Zenon, LoopExists
<1>. DEFINE h == [k \in 0 .. n |-> f[k]]
<1>2. P(h)
  <2>1. \A k \in 0 .. n : h[k] = IF k = 0 THEN LoopStart ELSE NextElement(text, h[k - 1])
    <3>. SUFFICES ASSUME NEW k \in 0 .. n
                  PROVE  h[k] = IF k = 0 THEN LoopStart ELSE NextElement(text, h[k - 1])
      BY Zenon
    <3>1. k # 0 => k - 1 \in 0 .. n /\ k \in 1 .. n
      OBVIOUS
    <3>2. h[k] = f[k] /\ (k # 0 => h[k - 1] = f[k - 1])
      BY Zenon, <3>1
    <3>3. f[k] = IF k = 0 THEN LoopStart ELSE NextElement(text, f[k - 1])
      BY Zenon, <1>1, <3>1 DEF LoopRuns
    <3>. HIDE DEF h
    <3>. QED BY Zenon, <3>2, <3>3
  <2>2. h = [k \in 0 .. n |-> h[k]]
    BY Zenon
  <2>. HIDE DEF h
  <2>. QED BY Zenon, <2>1, <2>2
<1>. HIDE DEF h
<1>3. P(run)
  BY Zenon, <1>2
<1>4. Elements(text) = run[n].seq
  BY Zenon DEF Elements, LoopStart
<1>. HIDE DEF run, n
<1>5. DOMAIN run = 0 .. n
  BY <1>3, Zenon
<1>6. \A k \in 0 .. n : run[k] = IF k = 0 THEN LoopStart ELSE NextElement(text, run[k - 1])
  BY <1>3, Zenon
<1>7. LoopRuns(text, run, n)
  <2>1. 0 \in 0 .. n /\ \A k \in 1 .. n : k \in 0 .. n /\ k # 0
    BY DEF n
  <2>. QED BY Zenon, <1>5, <1>6, <2>1 DEF LoopRuns
<1>. QED BY Zenon, <1>4, <1>7 DEF n

\* The configurations after each of the first n settings.
ParseRuns(settings, props, configs, f, n) ==
    /\ DOMAIN f = 0 .. n /\ f[0] = configs
    /\ \A k \in 1 .. n : f[k] = Lookup(props, f[k - 1], settings[k])

\* That function exists.
LEMMA ParseExists ==
    ASSUME NEW settings, NEW props, NEW configs, NEW n \in Nat
    PROVE  \E f : ParseRuns(settings, props, configs, f, n)
<1>. DEFINE T == {k \in 0 .. n : ~\E f : ParseRuns(settings, props, configs, f, k)}
<1>. SUFFICES ASSUME T # {} PROVE FALSE
  OBVIOUS
<1>1. PICK k \in T : \A y \in T : k <= y
  <2>1. T \subseteq Nat
    OBVIOUS
  <2>. QED BY Zenon, <2>1, LeastNumber
<1>2. CASE k = 0
  <2>1. ParseRuns(settings, props, configs, [i \in 0 .. 0 |-> configs], 0)
    BY DEF ParseRuns
  <2>. QED BY Zenon, <1>2, <2>1
<1>3. CASE k > 0
  <2>0. k \in Nat /\ k - 1 \in 0 .. n /\ k <= n
    BY <1>3
  <2>1. PICK f : ParseRuns(settings, props, configs, f, k - 1)
    BY <1>1, <2>0
  <2>. DEFINE next == Lookup(props, f[k - 1], settings[k])
              g == [i \in 0 .. k |-> IF i = k THEN next ELSE f[i]]
  <2>2. DOMAIN g = 0 .. k /\ g[k] = next /\ \A i \in 0 .. k - 1 : g[i] = f[i]
    <3>. HIDE DEF next
    <3>. QED BY <1>3, <2>0
  <2>. HIDE DEF g
  <2>3. g[0] = configs
    <3>1. 0 \in 0 .. k - 1
      BY <1>3, <2>0
    <3>. QED BY Zenon, <2>1, <2>2, <3>1 DEF ParseRuns
  <2>4. ASSUME NEW i \in 1 .. k
        PROVE  g[i] = Lookup(props, g[i - 1], settings[i])
    <3>1. i - 1 \in 0 .. k - 1 /\ g[i - 1] = f[i - 1]
      BY <2>0, <2>2
    <3>2. CASE i = k
      BY Zenon, <2>2, <3>1, <3>2
    <3>3. CASE i # k
      <4>1. i \in 1 .. k - 1 /\ i \in 0 .. k - 1
        BY <2>0, <3>3
      <4>2. g[i] = f[i]
        BY Zenon, <2>2, <4>1
      <4>3. f[i] = Lookup(props, f[i - 1], settings[i])
        BY Zenon, <2>1, <4>1 DEF ParseRuns
      <4>. QED BY Zenon, <3>1, <4>2, <4>3
    <3>. QED BY Zenon, <3>2, <3>3
  <2>5. ParseRuns(settings, props, configs, g, k)
    BY Zenon, <2>2, <2>3, <2>4 DEF ParseRuns
  <2>. QED BY Zenon, <2>5
<1>. QED BY <1>2, <1>3

\* ParseSettings computes with it.
LEMMA ParseIs ==
    ASSUME NEW settings, NEW props, NEW configs, Len(settings) \in Nat
    PROVE  \E f : /\ ParseRuns(settings, props, configs, f, Len(settings))
                  /\ ParseSettings(settings, props, configs) = f[Len(settings)]
<1>. DEFINE n == Len(settings)
            P(f) == f = [k \in 0 .. n |-> IF k = 0 THEN configs
                                           ELSE Lookup(props, f[k - 1], settings[k])]
            run == CHOOSE f : P(f)
<1>1. PICK f : ParseRuns(settings, props, configs, f, n)
  BY Zenon, ParseExists
<1>. DEFINE h == [k \in 0 .. n |-> f[k]]
<1>2. P(h)
  <2>1. \A k \in 0 .. n : h[k] = IF k = 0 THEN configs ELSE Lookup(props, h[k - 1], settings[k])
    <3>. SUFFICES ASSUME NEW k \in 0 .. n
                  PROVE  h[k] = IF k = 0 THEN configs ELSE Lookup(props, h[k - 1], settings[k])
      BY Zenon
    <3>1. k # 0 => k - 1 \in 0 .. n /\ k \in 1 .. n
      OBVIOUS
    <3>2. h[k] = f[k] /\ (k # 0 => h[k - 1] = f[k - 1])
      BY <3>1
    <3>3. f[k] = IF k = 0 THEN configs ELSE Lookup(props, f[k - 1], settings[k])
      BY Zenon, <1>1, <3>1 DEF ParseRuns
    <3>. HIDE DEF h
    <3>. QED BY Zenon, <3>2, <3>3
  <2>2. h = [k \in 0 .. n |-> h[k]]
    OBVIOUS
  <2>. HIDE DEF h
  <2>. QED BY Zenon, <2>1, <2>2
<1>. HIDE DEF h
<1>3. P(run)
  BY Zenon, <1>2
<1>4. ParseSettings(settings, props, configs) = run[n]
  BY Zenon DEF ParseSettings
<1>. HIDE DEF run, n
<1>5. DOMAIN run = 0 .. n
  BY <1>3, Zenon
<1>6. \A k \in 0 .. n : run[k] = IF k = 0 THEN configs ELSE Lookup(props, run[k - 1], settings[k])
  BY <1>3, Zenon
<1>7. ParseRuns(settings, props, configs, run, n)
  <2>1. 0 \in 0 .. n /\ \A k \in 1 .. n : k \in 0 .. n /\ k # 0
    BY DEF n
  <2>. QED BY Zenon, <1>5, <1>6, <2>1 DEF ParseRuns
<1>. QED BY Zenon, <1>4, <1>7 DEF n

\* The texts of the first n elements of a list.
JoinRuns(list, f, n) ==
    /\ DOMAIN f = 0 .. n /\ f[0] = <<>>
    /\ \A k \in 1 .. n : f[k] = JoinElement(list, k, f[k - 1])

\* Joined computes with that function, which is the only one.
LEMMA JoinedIs ==
    ASSUME NEW list, Len(list) \in Nat, NEW f, JoinRuns(list, f, Len(list))
    PROVE  Joined(list) = f[Len(list)]
<1>. DEFINE n == Len(list)
            P(g) == g = [k \in 0 .. n |-> IF k = 0 THEN <<>> ELSE JoinElement(list, k, g[k - 1])]
            run == CHOOSE g : P(g)
            h == [k \in 0 .. n |-> f[k]]
<1>2. P(h)
  <2>1. \A k \in 0 .. n : h[k] = IF k = 0 THEN <<>> ELSE JoinElement(list, k, h[k - 1])
    <3>. SUFFICES ASSUME NEW k \in 0 .. n
                  PROVE  h[k] = IF k = 0 THEN <<>> ELSE JoinElement(list, k, h[k - 1])
      BY Zenon
    <3>1. k # 0 => k - 1 \in 0 .. n /\ k \in 1 .. n
      OBVIOUS
    <3>2. h[k] = f[k] /\ (k # 0 => h[k - 1] = f[k - 1])
      BY Zenon, <3>1
    <3>3. f[k] = IF k = 0 THEN <<>> ELSE JoinElement(list, k, f[k - 1])
      BY Zenon, <3>1 DEF JoinRuns
    <3>. HIDE DEF h
    <3>. QED BY Zenon, <3>2, <3>3
  <2>2. h = [k \in 0 .. n |-> h[k]]
    BY Zenon
  <2>. HIDE DEF h
  <2>. QED BY Zenon, <2>1, <2>2
<1>. HIDE DEF h
<1>3. P(run)
  BY Zenon, <1>2
<1>4. Joined(list) = run[n]
  BY Zenon DEF Joined
<1>. HIDE DEF run, n
<1>5. \A k \in 0 .. n : run[k] = IF k = 0 THEN <<>> ELSE JoinElement(list, k, run[k - 1])
  BY <1>3, Zenon
<1>. DEFINE T == {k \in 0 .. n : run[k] # f[k]}
<1>6. T = {}
  <2>. SUFFICES ASSUME T # {} PROVE FALSE
    BY Zenon
  <2>1. PICK k \in T : \A y \in T : k <= y
    <3>1. T \subseteq Nat
      BY DEF n
    <3>. QED BY Zenon, <3>1, LeastNumber
  <2>2. k \in 0 .. n /\ run[k] # f[k]
    BY Zenon, <2>1
  <2>3. CASE k = 0
    BY Zenon, <1>5, <2>2, <2>3 DEF JoinRuns
  <2>4. CASE k # 0
    <3>1. k - 1 \in 0 .. n /\ k \in 1 .. n /\ ~(k <= k - 1)
      BY <2>2, <2>4 DEF n
    <3>2. run[k - 1] = f[k - 1]
      BY Zenon, <2>1, <3>1
    <3>3. run[k] = JoinElement(list, k, run[k - 1])
      BY Zenon, <1>5, <2>2, <2>4
    <3>4. f[k] = JoinElement(list, k, f[k - 1])
      BY Zenon, <3>1 DEF JoinRuns, n
    <3>. QED BY Zenon, <2>2, <3>2, <3>3, <3>4
  <2>. QED BY Zenon, <2>3, <2>4
<1>7. n \in 0 .. n
  BY DEF n
<1>. QED BY Zenon, <1>4, <1>6, <1>7 DEF n

\* A list with one more element.
LEMMA JoinGrows ==
    ASSUME NEW C, NEW list \in Seq(C), NEW w \in C, NEW f, JoinRuns(list, f, Len(list))
    PROVE  \E g : /\ JoinRuns(Append(list, w), g, Len(list) + 1)
                  /\ g[Len(list) + 1] =
                         JoinElement(Append(list, w), Len(list) + 1, f[Len(list)])
<1>. DEFINE n == Len(list)
            longer == Append(list, w)
            next == JoinElement(longer, n + 1, f[n])
            g == [i \in 0 .. n + 1 |-> IF i = n + 1 THEN next ELSE f[i]]
<1>0. n \in Nat
  OBVIOUS
<1>1. \A i \in 1 .. n : longer[i] = list[i]
  OBVIOUS
<1>. HIDE DEF n, longer
<1>2. DOMAIN g = 0 .. n + 1 /\ g[n + 1] = next /\ \A i \in 0 .. n : g[i] = f[i]
  <2>. HIDE DEF next
  <2>. QED BY <1>0
<1>. HIDE DEF g
<1>3. g[0] = <<>>
  <2>1. 0 \in 0 .. n
    BY <1>0
  <2>. QED BY Zenon, <1>2, <2>1 DEF JoinRuns
<1>4. ASSUME NEW i \in 1 .. n + 1
      PROVE  g[i] = JoinElement(longer, i, g[i - 1])
  <2>1. CASE i = n + 1
    <3>1. i - 1 = n /\ n \in 0 .. n
      BY <1>0, <2>1
    <3>. QED BY Zenon, <1>2, <2>1, <3>1
  <2>2. CASE i # n + 1
    <3>1. i \in 1 .. n /\ i \in 0 .. n /\ i - 1 \in 0 .. n
      BY <1>0, <2>2
    <3>2. g[i] = f[i] /\ g[i - 1] = f[i - 1]
      BY Zenon, <1>2, <3>1
    <3>3. f[i] = JoinElement(list, i, f[i - 1])
      BY Zenon, <3>1 DEF JoinRuns, n
    <3>4. JoinElement(longer, i, f[i - 1]) = JoinElement(list, i, f[i - 1])
      BY Zenon, <1>1, <3>1 DEF JoinElement
    <3>. QED BY Zenon, <3>2, <3>3, <3>4
  <2>. QED BY Zenon, <2>1, <2>2
<1>5. JoinRuns(longer, g, n + 1)
  BY Zenon, <1>2, <1>3, <1>4 DEF JoinRuns
<1>. QED BY Zenon, <1>2, <1>5 DEF longer, n

-----------------------------------------------------------------------------
(* Lists.                                                                  *)

\* Sequences with the same elements are equal.
LEMMA SameElements ==
    ASSUME NEW C, NEW s \in Seq(C), NEW t \in Seq(C), Len(s) = Len(t),
           \A i \in 1 .. Len(s) : s[i] = t[i]
    PROVE  s = t
  OBVIOUS

\* A prefix of a sequence has its first elements.
LEMMA Prefix ==
    ASSUME NEW C, NEW s \in Seq(C), NEW m \in 0 .. Len(s)
    PROVE  /\ SubSeq(s, 1, m) \in Seq(C) /\ Len(SubSeq(s, 1, m)) = m
           /\ \A i \in 1 .. m : SubSeq(s, 1, m)[i] = s[i]
  OBVIOUS

\* A prefix with one more element.
LEMMA PrefixGrows ==
    ASSUME NEW C, NEW s \in Seq(C), NEW m \in 0 .. Len(s), m < Len(s)
    PROVE  SubSeq(s, 1, m) \o <<s[m + 1]>> = SubSeq(s, 1, m + 1)
<1>. DEFINE p == SubSeq(s, 1, m)
            q == SubSeq(s, 1, m + 1)
<1>0. Len(s) \in Nat /\ m \in Nat /\ m + 1 \in 0 .. Len(s) /\ m + 1 \in 1 .. Len(s)
  OBVIOUS
<1>1. p \in Seq(C) /\ Len(p) = m /\ \A i \in 1 .. m : p[i] = s[i]
  BY Zenon, Prefix
<1>2. q \in Seq(C) /\ Len(q) = m + 1 /\ \A i \in 1 .. m + 1 : q[i] = s[i]
  BY Zenon, <1>0, Prefix
<1>. DEFINE x == s[m + 1]
<1>3. x \in C
  BY <1>0
<1>. HIDE DEF p, q, x
<1>4. /\ p \o <<x>> \in Seq(C) /\ Len(p \o <<x>>) = m + 1
      /\ \A i \in 1 .. m : (p \o <<x>>)[i] = p[i]
      /\ (p \o <<x>>)[m + 1] = x
  BY <1>0, <1>1, <1>3
<1>5. \A i \in 1 .. m + 1 : (p \o <<x>>)[i] = q[i]
  <2>1. \A i \in 1 .. m + 1 : i \in 1 .. m \/ i = m + 1
    BY <1>0
  <2>. QED BY Zenon, <1>1, <1>2, <1>4, <2>1 DEF x
<1>6. p \o <<x>> = q
  BY Zenon, <1>2, <1>4, <1>5, SameElements
<1>. QED BY Zenon, <1>6 DEF p, q, x

\* What a list may have for an element.
Elem == Words \cup {NoWord}

\* A text that is a list.
IsList(text) ==
    /\ text \in Seq(Words) /\ NoWord \notin Range(text)
    /\ \A i \in 1 .. Len(text) - 1 : Separator \in {text[i], text[i + 1]}

\* How much of the text the elements found so far stand for.
Before(l) == IF l.consumed = 0 THEN 0 ELSE l.consumed - 1

\* What the loop has established when it has consumed a part of the text.
Splits(text, l) ==
    /\ l.consumed \in 0 .. Len(text) + 1 /\ l.seq \in Seq(Elem)
    /\ l.consumed = 0 <=> Len(l.seq) = 0
    /\ l.consumed \in 1 .. Len(text) => text[l.consumed] = Separator
    /\ \E f : /\ JoinRuns(l.seq, f, Len(l.seq))
              /\ f[Len(l.seq)] = SubSeq(text, 1, Before(l))
    /\ \A w : w \notin {NoWord, Separator} =>
           (w \in Range(l.seq) <=> \E j \in 1 .. Len(text) : j <= l.consumed /\ text[j] = w)

\* Where an element ends.
LEMMA ElementEndIs ==
    ASSUME NEW text, IsList(text), NEW c \in 0 .. Len(text), c < Len(text)
    PROVE  LET e == ElementEnd(text, c)
           IN  /\ e \in {c + 1, c + 2} /\ e <= Len(text) + 1
               /\ e = Len(text) + 1 \/ text[e] = Separator
               /\ e = c + 2 => text[c + 1] # Separator
<1>. DEFINE L == Len(text)
            T == {k \in c + 1 .. L + 1 : k > L \/ text[k] = Separator}
            e == ElementEnd(text, c)
<1>0. L \in Nat /\ c \in Nat /\ c < L
  BY DEF IsList
<1>1. PICK k \in T : \A y \in T : k <= y
  <2>1. T \subseteq Nat
    BY <1>0
  <2>2. L + 1 \in T
    BY <1>0
  <2>. QED BY Zenon, <2>1, <2>2, LeastNumber
<1>2. \A j \in c + 1 .. k - 1 : text[j] # Separator
  <2>1. k \in c + 1 .. L + 1
    BY Zenon, <1>1
  <2>. SUFFICES ASSUME NEW j \in c + 1 .. k - 1, text[j] = Separator PROVE FALSE
    BY Zenon
  <2>2. j \in c + 1 .. L + 1 /\ ~(k <= j)
    BY <1>0, <2>1
  <2>. QED BY Zenon, <1>1, <2>2
<1>3. /\ e \in c + 1 .. L + 1
      /\ e > L \/ text[e] = Separator
      /\ \A j \in c + 1 .. e - 1 : text[j] # Separator
  BY Zenon, <1>1, <1>2 DEF ElementEnd
<1>. HIDE DEF e, L
<1>4. e \in Nat /\ c + 1 <= e /\ e <= L + 1
  BY <1>0, <1>3
<1>5. ~(c + 2 < e)
  <2>. SUFFICES ASSUME c + 2 < e PROVE FALSE
    BY Zenon
  <2>1. c + 1 \in c + 1 .. e - 1 /\ c + 2 \in c + 1 .. e - 1 /\ c + 1 \in 1 .. L - 1
    BY <1>0, <1>4
  <2>2. text[c + 1] # Separator /\ text[c + 2] # Separator
    BY Zenon, <1>3, <2>1
  <2>3. Separator \in {text[c + 1], text[(c + 1) + 1]}
    BY Zenon, <2>1 DEF IsList, L
  <2>4. (c + 1) + 1 = c + 2
    BY <1>0
  <2>. QED BY Zenon, <2>2, <2>3, <2>4
<1>6. e \in {c + 1, c + 2}
  BY <1>0, <1>4, <1>5
<1>7. e = c + 2 => text[c + 1] # Separator
  <2>1. e = c + 2 => c + 1 \in c + 1 .. e - 1
    BY <1>0
  <2>. QED BY Zenon, <1>3, <2>1
<1>8. e = L + 1 \/ text[e] = Separator
  <2>1. e > L => e = L + 1
    BY <1>0, <1>4
  <2>. QED BY Zenon, <1>3, <2>1
<1>. QED BY Zenon, <1>4, <1>6, <1>7, <1>8 DEF e, L

\* The part of a sequence from one place to the same place.
LEMMA OneOfThem ==
    ASSUME NEW C, NEW s \in Seq(C), NEW a \in 1 .. Len(s)
    PROVE  SubSeq(s, a, a) = <<s[a]>>
<1>. DEFINE p == SubSeq(s, a, a)
            v == s[a]
<1>0. a \in Nat /\ Len(s) \in Nat /\ v \in C
  OBVIOUS
<1>1. p \in Seq(C) /\ Len(p) = 1 /\ p[1] = v
  <2>1. p \in Seq(C) /\ Len(p) = a - a + 1 /\ (1 \in 1 .. a - a + 1 => p[1] = s[a + 1 - 1])
    OBVIOUS
  <2>2. a - a + 1 = 1 /\ a + 1 - 1 = a
    BY <1>0
  <2>. QED BY <2>1, <2>2
<1>. HIDE DEF p, v
<1>2. <<v>> \in Seq(C) /\ Len(<<v>>) = 1 /\ <<v>>[1] = v
  BY <1>0
<1>3. \A i \in 1 .. 1 : p[i] = <<v>>[i]
  BY <1>1, <1>2
<1>4. p = <<v>>
  BY Zenon, <1>1, <1>2, <1>3, SameElements
<1>. QED BY Zenon, <1>4 DEF p, v

\* An iteration.
LEMMA SplitsNext ==
    ASSUME NEW text, IsList(text), NEW l, Splits(text, l), l.consumed < Len(text)
    PROVE  Splits(text, NextElement(text, l)) /\ NextElement(text, l).consumed > l.consumed
<1>. DEFINE L == Len(text)
            c == l.consumed
            e == ElementEnd(text, c)
            words == SubSeq(text, c + 1, e - 1)
            w == Word(words)
            x == l.seq
            y == Append(x, w)
            n == Len(x)
            m == NextElement(text, l)
<1>0. /\ text \in Seq(Words) /\ L \in Nat /\ c \in Nat /\ c < L /\ x \in Seq(Elem) /\ n \in Nat
      /\ c \in 0 .. L
  BY DEF IsList, Splits
<1>1. /\ e \in {c + 1, c + 2} /\ e <= L + 1
      /\ e = L + 1 \/ text[e] = Separator
      /\ e = c + 2 => text[c + 1] # Separator
  BY Zenon, <1>0, ElementEndIs
<1>2. m.consumed = e /\ m.seq = y
  BY <1>0 DEF NextElement
<1>. HIDE DEF e
<1>3. e \in Nat /\ c < e /\ e # 0
  BY <1>0, <1>1
<1>4. /\ e = c + 1 => w = NoWord
      /\ e = c + 2 => w = text[c + 1]
  <2>1. CASE e = c + 1
    <3>1. words = <<>>
      BY <1>0, <2>1
    <3>2. w = NoWord
      BY Zenon, <3>1 DEF Word
    <3>3. e # c + 2
      BY <1>0, <2>1
    <3>. QED BY Zenon, <3>2, <3>3
  <2>2. CASE e = c + 2
    <3>1. c + 1 \in 1 .. L
      BY <1>0
    <3>2. words = <<text[c + 1]>>
      <4>1. e - 1 = c + 1
        BY <1>0, <2>2
      <4>2. words = SubSeq(text, c + 1, c + 1)
        BY Zenon, <4>1
      <4>3. SubSeq(text, c + 1, c + 1) = <<text[c + 1]>>
        BY Zenon, <1>0, <3>1, OneOfThem
      <4>. QED BY Zenon, <4>2, <4>3
    <3>3. w = text[c + 1]
      <4>. DEFINE v == text[c + 1]
      <4>. HIDE DEF words, v
      <4>1. words = <<v>>
        BY Zenon, <3>2 DEF v
      <4>2. words # <<>> /\ words[1] = v
        BY Zenon, <4>1
      <4>3. w = words[1]
        BY Zenon, <4>2 DEF Word
      <4>. QED BY Zenon, <4>2, <4>3 DEF v
    <3>4. e # c + 1
      BY <1>0, <2>2
    <3>. QED BY Zenon, <3>3, <3>4
  <2>. QED BY Zenon, <1>1, <2>1, <2>2
<1>. HIDE DEF words, w
<1>5. c + 1 \in 1 .. L /\ text[c + 1] \in Words /\ text[c + 1] # NoWord
  <2>1. c + 1 \in 1 .. L
    BY <1>0
  <2>2. text[c + 1] \in Words /\ text[c + 1] \in Range(text)
    BY <1>0, <2>1 DEF Range
  <2>. QED BY Zenon, <2>1, <2>2 DEF IsList
<1>6. w \in Elem
  BY Zenon, <1>1, <1>4, <1>5 DEF Elem
<1>7. /\ y \in Seq(Elem) /\ Len(y) = n + 1 /\ y[n + 1] = w
      /\ \A i \in 1 .. n : y[i] = x[i]
  BY <1>0, <1>6
<1>8. e \in 1 .. L => text[e] = Separator
  BY <1>0, <1>1, <1>3
<1>9. \E f : JoinRuns(y, f, n + 1) /\ f[n + 1] = SubSeq(text, 1, e - 1)
  <2>1. PICK f : JoinRuns(x, f, n) /\ f[n] = SubSeq(text, 1, Before(l))
    BY Zenon DEF Splits
  <2>2. PICK g : JoinRuns(y, g, n + 1) /\ g[n + 1] = JoinElement(y, n + 1, f[n])
    BY Zenon, <1>0, <1>6, <2>1, JoinGrows
  <2>. HIDE DEF y, n, x
  <2>3. f[n] \o (IF n + 1 = 1 THEN <<>> ELSE <<Separator>>) = SubSeq(text, 1, c)
    <3>1. CASE c = 0
      <4>1. n + 1 = 1 /\ Before(l) = 0
        BY <1>0, <3>1 DEF Splits, Before, n, x
      <4>2. f[n] = SubSeq(text, 1, c)
        BY Zenon, <2>1, <3>1, <4>1
      <4>3. SubSeq(text, 1, c) \in Seq(Words)
        BY Zenon, <1>0, Prefix
      <4>. HIDE DEF c
      <4>4. SubSeq(text, 1, c) \o <<>> = SubSeq(text, 1, c)
        BY <4>3
      <4>. QED BY Zenon, <4>1, <4>2, <4>4
    <3>2. CASE c # 0
      <4>1. n + 1 # 1 /\ Before(l) = c - 1
        BY <1>0, <3>2 DEF Splits, Before, n, x
      <4>2. c \in 1 .. L /\ c - 1 \in 0 .. L /\ c - 1 < L /\ (c - 1) + 1 = c
        BY <1>0, <3>2
      <4>3. text[c] = Separator
        BY Zenon, <4>2 DEF Splits
      <4>4. SubSeq(text, 1, c - 1) \o <<text[(c - 1) + 1]>> = SubSeq(text, 1, (c - 1) + 1)
        BY Zenon, <1>0, <4>2, PrefixGrows
      <4>. QED BY Zenon, <2>1, <4>1, <4>2, <4>3, <4>4
    <3>. QED BY Zenon, <3>1, <3>2
  <2>4. SubSeq(text, 1, c) \o (IF w = NoWord THEN <<>> ELSE <<w>>) = SubSeq(text, 1, e - 1)
    <3>1. CASE e = c + 1
      <4>1. w = NoWord /\ e - 1 = c
        BY <1>0, <1>4, <3>1
      <4>2. SubSeq(text, 1, c) \in Seq(Words)
        BY <1>0, Prefix
      <4>. DEFINE p == SubSeq(text, 1, c)
      <4>. HIDE DEF p
      <4>3. p \o <<>> = p
        BY <4>2 DEF p
      <4>. QED BY Zenon, <4>1, <4>3 DEF p
    <3>2. CASE e = c + 2
      <4>1. w = text[c + 1] /\ w # NoWord /\ e - 1 = c + 1
        BY SMTT(30), <1>0, <1>4, <1>5, <3>2
      <4>2. SubSeq(text, 1, c) \o <<text[c + 1]>> = SubSeq(text, 1, c + 1)
        BY Zenon, <1>0, PrefixGrows
      <4>. QED BY Zenon, <4>1, <4>2
    <3>. QED BY Zenon, <1>1, <3>1, <3>2
  <2>5. JoinElement(y, n + 1, f[n]) =
            f[n] \o (IF n + 1 = 1 THEN <<>> ELSE <<Separator>>)
                 \o (IF y[n + 1] = NoWord THEN <<>> ELSE <<y[n + 1]>>)
    BY Zenon DEF JoinElement
  <2>6. y[n + 1] = w
    BY Zenon, <1>7 DEF y, n
  <2>. QED BY Zenon, <2>2, <2>3, <2>4, <2>5, <2>6
<1>10. ASSUME NEW u, u \notin {NoWord, Separator}
       PROVE  u \in Range(y) <=> \E j \in 1 .. L : j <= e /\ text[j] = u
  <2>1. u \in Range(x) <=> \E j \in 1 .. L : j <= c /\ text[j] = u
    BY Zenon, <1>10 DEF Splits
  <2>2. u \in Range(y) <=> u \in Range(x) \/ u = w
    <3>1. Range(x) = {x[i] : i \in 1 .. n} /\ Range(y) = {y[i] : i \in 1 .. n + 1}
      <4>1. DOMAIN x = 1 .. n /\ DOMAIN y = 1 .. n + 1
        BY SMTT(30), <1>0, <1>7
      <4>. HIDE DEF x, y, n
      <4>. QED BY Zenon, <4>1 DEF Range
    <3>. HIDE DEF x, y, n
    <3>2. 1 .. n + 1 = (1 .. n) \cup {n + 1}
      BY <1>0 DEF n, x
    <3>. QED BY <1>7, <3>1, <3>2 DEF n, x, y
  <2>3. u = w <=> e = c + 2 /\ u = text[c + 1]
    BY Zenon, <1>0, <1>1, <1>4, <1>10
  <2>4. ASSUME NEW j \in 1 .. L
        PROVE  (j <= e /\ text[j] = u) <=> \/ (j <= c /\ text[j] = u)
                                           \/ (j = c + 1 /\ e = c + 2 /\ text[j] = u)
    <3>1. j = e => text[j] # u
      BY Zenon, <1>8, <1>10
    <3>2. (j <= e /\ j # e) <=> (j <= c \/ (j = c + 1 /\ e = c + 2))
      BY SMTT(30), <1>0, <1>1
    <3>3. j <= c => j <= e
      BY <1>0, <1>3
    <3>. QED BY Zenon, <3>1, <3>2, <3>3
  <2>. QED BY Zenon, <1>5, <2>1, <2>2, <2>3, <2>4
<1>11. Before(m) = e - 1
  BY Zenon, <1>2, <1>3 DEF Before
<1>12. e \in 0 .. L + 1 /\ (e = 0 <=> n + 1 = 0)
  BY <1>0, <1>1, <1>3
<1>. HIDE DEF m, y, n, x, L
<1>13. Len(m.seq) = n + 1 /\ m.seq = y /\ m.consumed = e
  BY Zenon, <1>2, <1>7
<1>14. \E f : JoinRuns(m.seq, f, Len(m.seq)) /\ f[Len(m.seq)] = SubSeq(text, 1, Before(m))
  BY Zenon, <1>9, <1>11, <1>13
<1>15. Splits(text, m)
  BY Zenon, <1>7, <1>8, <1>10, <1>12, <1>13, <1>14 DEF Splits, L
<1>16. m.consumed > c
  BY Zenon, <1>0, <1>3, <1>13
<1>. QED BY Zenon, <1>15, <1>16 DEF m

\* A text that is not empty is split into the elements that it lists, and a
\* URI is an element exactly when it is a word of the text.
LEMMA ElementsAreListed ==
    ASSUME NEW text, IsList(text), text # <<>>
    PROVE  /\ Len(Elements(text)) > 0
           /\ text \in {Joined(Elements(text)), Joined(Elements(text)) \o <<Separator>>}
           /\ Range(Elements(text)) \cap SslUris # {}
                  <=> \E i \in DOMAIN text : text[i] \in SslUris
<1>. DEFINE L == Len(text)
<1>0. text \in Seq(Words) /\ L \in Nat /\ L # 0
  BY DEF IsList
<1>1. PICK f : LoopRuns(text, f, L) /\ Elements(text) = f[L].seq
  BY Zenon, <1>0, LoopIs
<1>. DEFINE Good(k) == Splits(text, f[k]) /\ (f[k].consumed >= k \/ f[k].consumed >= L)
            T == {k \in 0 .. L : ~Good(k)}
<1>2. T = {}
  <2>. SUFFICES ASSUME T # {} PROVE FALSE
    BY Zenon
  <2>1. PICK k \in T : \A y \in T : k <= y
    <3>1. T \subseteq Nat
      BY <1>0
    <3>. QED BY Zenon, <3>1, LeastNumber
  <2>2. k \in 0 .. L /\ ~Good(k)
    BY Zenon, <2>1
  <2>3. CASE k = 0
    <3>1. f[0] = [consumed |-> 0, seq |-> <<>>]
      BY Zenon, <1>1 DEF LoopRuns, LoopStart
    <3>2. f[0].consumed = 0 /\ f[0].seq = <<>>
      BY <3>1
    <3>. DEFINE l == f[0]
                e == <<>>
    <3>3. e \in Seq(Elem) /\ Len(e) = 0 /\ Range(e) = {}
      BY DEF Range
    <3>4. JoinRuns(e, [i \in 0 .. 0 |-> <<>>], 0)
      BY DEF JoinRuns
    <3>5. SubSeq(text, 1, 0) = <<>>
      BY <1>0
    <3>. DEFINE g == [i \in 0 .. 0 |-> <<>>]
    <3>6. g[0] = <<>>
      OBVIOUS
    <3>. HIDE DEF l, e, g
    <3>7. l.consumed = 0 /\ l.seq = e
      BY Zenon, <3>2 DEF l, e
    <3>8. Before(l) = 0
      BY Zenon, <3>7 DEF Before
    <3>9. \E h : JoinRuns(e, h, 0) /\ h[0] = SubSeq(text, 1, Before(l))
      BY Zenon, <3>4, <3>5, <3>6, <3>8 DEF g
    <3>10. \A j \in 1 .. Len(text) : ~(j <= 0)
      OBVIOUS
    <3>11. Splits(text, l)
      BY <1>0, <3>3, <3>7, <3>9, <3>10 DEF Splits
    <3>. QED BY <2>2, <2>3, <3>2, <3>11 DEF l
  <2>4. CASE k # 0
    <3>1. k - 1 \in 0 .. L /\ k \in 1 .. L /\ ~(k <= k - 1) /\ k \in Nat
      BY <1>0, <2>2, <2>4
    <3>2. Good(k - 1)
      BY Zenon, <2>1, <3>1
    <3>3. f[k] = NextElement(text, f[k - 1])
      BY Zenon, <1>1, <3>1 DEF LoopRuns
    <3>. DEFINE l == f[k - 1]
    <3>. HIDE DEF l
    <3>4. Splits(text, l) /\ (l.consumed >= k - 1 \/ l.consumed >= L)
      BY Zenon, <3>2 DEF l
    <3>5. l.consumed \in Nat
      BY <1>0, <3>4 DEF Splits
    <3>6. CASE l.consumed >= L
      <4>1. f[k] = l
        BY Zenon, <3>3, <3>6 DEF NextElement, l
      <4>. QED BY Zenon, <2>2, <3>4, <3>6, <4>1
    <3>7. CASE l.consumed < L
      <4>. DEFINE m == f[k]
      <4>. HIDE DEF m
      <4>1. Splits(text, m) /\ m.consumed > l.consumed
        BY Zenon, <3>3, <3>4, <3>7, SplitsNext DEF l, m
      <4>2. m.consumed \in Nat
        BY <1>0, <4>1 DEF Splits
      <4>3. m.consumed >= k
        BY <3>1, <3>4, <3>5, <3>7, <4>1, <4>2
      <4>. QED BY Zenon, <2>2, <4>1, <4>3 DEF m
    <3>. QED BY <1>0, <3>5, <3>6, <3>7
  <2>. QED BY Zenon, <2>3, <2>4
<1>. DEFINE l == f[L]
            x == Elements(text)
            c == l.consumed
            n == Len(x)
<1>3. Splits(text, l) /\ c >= L
  <2>1. L \in 0 .. L
    BY <1>0
  <2>. QED BY Zenon, <1>2, <2>1
<1>4. x = l.seq
  BY Zenon, <1>1
<1>. HIDE DEF l, x
<1>5. /\ c \in 0 .. L + 1 /\ x \in Seq(Elem)
      /\ c = 0 <=> n = 0
      /\ c \in 1 .. L => text[c] = Separator
  BY Zenon, <1>3, <1>4 DEF Splits
<1>6. c \in Nat /\ n \in Nat /\ c \in {L, L + 1} /\ n > 0 /\ Before(l) = c - 1
  <2>1. c \in Nat /\ n \in Nat /\ c \in {L, L + 1}
    BY <1>0, <1>3, <1>5
  <2>2. c # 0
    BY <1>0, <2>1
  <2>. QED BY <1>5, <2>1, <2>2 DEF Before
<1>7. Joined(x) = SubSeq(text, 1, c - 1)
  <2>1. PICK g : JoinRuns(x, g, n) /\ g[n] = SubSeq(text, 1, Before(l))
    BY Zenon, <1>3, <1>4 DEF Splits
  <2>. QED BY Zenon, <1>6, <2>1, JoinedIs
<1>8. SubSeq(text, 1, L) = text
  <2>1. L \in 0 .. L
    BY <1>0
  <2>2. /\ SubSeq(text, 1, L) \in Seq(Words) /\ Len(SubSeq(text, 1, L)) = L
        /\ \A i \in 1 .. L : SubSeq(text, 1, L)[i] = text[i]
    BY Zenon, <1>0, <2>1, Prefix
  <2>. QED BY Zenon, <1>0, <2>2, SameElements
<1>9. text \in {Joined(x), Joined(x) \o <<Separator>>}
  <2>1. CASE c = L + 1
    <3>1. c - 1 = L
      BY SMTT(30), <1>0, <2>1
    <3>. QED BY Zenon, <1>7, <1>8, <3>1
  <2>2. CASE c = L
    <3>1. L \in 1 .. L /\ L - 1 \in 0 .. L /\ L - 1 < L /\ (L - 1) + 1 = L
      BY <1>0
    <3>2. text[L] = Separator
      BY Zenon, <1>5, <2>2, <3>1
    <3>3. SubSeq(text, 1, L - 1) \o <<text[(L - 1) + 1]>> = SubSeq(text, 1, (L - 1) + 1)
      BY Zenon, <1>0, <3>1, PrefixGrows
    <3>4. SubSeq(text, 1, L - 1) \o <<Separator>> = text
      BY Zenon, <1>8, <3>1, <3>2, <3>3
    <3>. QED BY Zenon, <1>7, <2>2, <3>4
  <2>. QED BY Zenon, <1>6, <2>1, <2>2
<1>10. \A w \in SslUris : w \in Range(x) <=> \E j \in 1 .. L : text[j] = w
  <2>. SUFFICES ASSUME NEW w \in SslUris
                PROVE  w \in Range(x) <=> \E j \in 1 .. L : text[j] = w
    BY Zenon
  <2>1. w \notin {NoWord, Separator}
    BY Zenon, UriAssumption
  <2>2. w \in Range(x) <=> \E j \in 1 .. L : j <= c /\ text[j] = w
    BY Zenon, <1>3, <1>4, <2>1 DEF Splits
  <2>3. \A j \in 1 .. L : j <= c
    BY <1>0, <1>6
  <2>. QED BY Zenon, <2>2, <2>3
<1>11. DOMAIN text = 1 .. L
  BY <1>0
<1>12. Range(x) \cap SslUris # {} <=> \E i \in DOMAIN text : text[i] \in SslUris
  BY Zenon, <1>10, <1>11
<1>. QED BY Zenon, <1>6, <1>9, <1>12 DEF x

-----------------------------------------------------------------------------
(* The tables of settings.                                                 *)

\* The fields that two settings have.
Timeouts == {"connect_timeout.seconds", "connect_timeout.nanoseconds"}

\* The fields that the settings for SSL are read into, and the structure.
SslFields == {"ca", "identity", "private_key", "private_key_password", "cypher_suites",
              "ssl_tls_config.protocol_version", "verify_server_certificate",
              "ssl_tls_config"}

\* No other setting has the field of setting i.
Sole(settings, i) ==
    \A j \in 1 .. Len(settings) : settings[j].field = settings[i].field => j = i

\* The settings of a client: only the two timeouts have a field in common, and
\* only the servers are a list.
LEMMA ClientTable ==
    /\ Len(ClientSettings) = 18 /\ Range(ClientSettings) = {ClientSettings[i] : i \in 1 .. 18}
    /\ \A i \in 1 .. 18 :
           /\ ClientSettings[i].field \notin SslFields
           /\ ClientSettings[i].field # "keep_alive_period"
           /\ ClientSettings[i].kind = "list" <=> i = 3
           /\ ClientSettings[i].name = "servers" <=> i = 3
           /\ ClientSettings[i].field \notin Timeouts => Sole(ClientSettings, i)
    /\ ClientSettings[3].field = "server_uris" /\ ClientSettings[3].default = <<>>
<1>1. Len(ClientSettings) = 18 /\ DOMAIN ClientSettings = 1 .. 18
  BY SMTT(30) DEF ClientSettings
<1>2. /\ ClientSettings[1].field = "id"
      /\ ClientSettings[2].field = "protocol_version"
      /\ ClientSettings[3].field = "server_uris"
      /\ ClientSettings[4].field = "connect_timeout.seconds"
      /\ ClientSettings[5].field = "connect_timeout.nanoseconds"
      /\ ClientSettings[6].field = "max_connection_retries"
      /\ ClientSettings[7].field = "connect_timeout.seconds"
      /\ ClientSettings[8].field = "connect_timeout.nanoseconds"
      /\ ClientSettings[9].field = "clean_session"
      /\ ClientSettings[10].field = "unsubscribe_on_disconnect"
      /\ ClientSettings[11].field = "max_reply_timeout.seconds"
      /\ ClientSettings[12].field = "max_reply_timeout.nanoseconds"
      /\ ClientSettings[13].field = "reconnect"
      /\ ClientSettings[14].field = "max_unack_messages"
      /\ ClientSettings[15].field = "persistence_level"
      /\ ClientSettings[16].field = "persistence_storage"
      /\ ClientSettings[17].field = "username"
      /\ ClientSettings[18].field = "password"
  BY Zenon DEF ClientSettings, Setting
<1>3. \A i, j \in 1 .. 18 : ClientSettings[i].field = ClientSettings[j].field =>
          i = j \/ ClientSettings[i].field \in Timeouts
  BY <1>2 DEF Timeouts
<1>4. \A i \in 1 .. 18 : /\ ClientSettings[i].field \notin SslFields
                         /\ ClientSettings[i].field # "keep_alive_period"
  BY <1>2 DEF SslFields
<1>5. \A i \in 1 .. 18 : ClientSettings[i].kind = "list" <=> i = 3
  BY DEF ClientSettings, Setting
<1>6. \A i \in 1 .. 18 : ClientSettings[i].name = "servers" <=> i = 3
  BY SMTT(30) DEF ClientSettings, Setting
<1>7. ClientSettings[3].default = <<>>
  BY Zenon DEF ClientSettings, Setting
<1>8. \A i \in 1 .. 18 : ClientSettings[i].field \notin Timeouts => Sole(ClientSettings, i)
  BY Zenon, <1>1, <1>3 DEF Sole
<1>9. Range(ClientSettings) = {ClientSettings[i] : i \in 1 .. 18}
  BY Zenon, <1>1 DEF Range
<1>. QED BY <1>1, <1>2, <1>4, <1>5, <1>6, <1>7, <1>8, <1>9

\* The settings for SSL, none of which has a field of the others.
LEMMA SslTable ==
    /\ Len(SslSettings) = 7 /\ Range(SslSettings) = {SslSettings[i] : i \in 1 .. 7}
    /\ \A i \in 1 .. 7 :
           /\ SslSettings[i].field \in SslFields /\ SslSettings[i].field # "ssl_tls_config"
           /\ SslSettings[i].kind # "list" /\ SslSettings[i].name # "servers"
           /\ Sole(SslSettings, i)
           /\ SslSettings[i].field = "verify_server_certificate" <=> i = 7
    /\ SslSettings[7].name = "ssl.verify_server_certificate" /\ SslSettings[7].default = No
<1>1. Len(SslSettings) = 7 /\ DOMAIN SslSettings = 1 .. 7
  BY DEF SslSettings
<1>2. /\ SslSettings[1].field = "ca"
      /\ SslSettings[2].field = "identity"
      /\ SslSettings[3].field = "private_key"
      /\ SslSettings[4].field = "private_key_password"
      /\ SslSettings[5].field = "cypher_suites"
      /\ SslSettings[6].field = "ssl_tls_config.protocol_version"
      /\ SslSettings[7].field = "verify_server_certificate"
  BY Zenon DEF SslSettings, Setting
<1>3. \A i, j \in 1 .. 7 : SslSettings[i].field = SslSettings[j].field => i = j
  BY <1>2
<1>4. \A i \in 1 .. 7 : /\ SslSettings[i].field \in SslFields
                        /\ SslSettings[i].field # "ssl_tls_config"
                        /\ SslSettings[i].field = "verify_server_certificate" <=> i = 7
  BY <1>2 DEF SslFields
<1>5. \A i \in 1 .. 7 : SslSettings[i].kind # "list"
  BY DEF SslSettings, Setting
<1>6. CypherSuites # "servers"
  BY Zenon DEF CypherSuites
<1>7. \A i \in 1 .. 7 : SslSettings[i].name # "servers"
  BY <1>6 DEF SslSettings, Setting
<1>8. SslSettings[7].name = "ssl.verify_server_certificate" /\ SslSettings[7].default = No
  BY Zenon DEF SslSettings, Setting
<1>9. \A i \in 1 .. 7 : Sole(SslSettings, i)
  BY Zenon, <1>1, <1>3 DEF Sole
<1>10. Range(SslSettings) = {SslSettings[i] : i \in 1 .. 7}
  BY Zenon, <1>1 DEF Range
<1>. QED BY Zenon, <1>1, <1>4, <1>5, <1>7, <1>8, <1>9, <1>10

\* The settings of a subscription: only the topics are a list.
LEMMA SubscriptionTable ==
    /\ Len(SubscriptionSettings) = 3
    /\ Range(SubscriptionSettings) = {SubscriptionSettings[i] : i \in 1 .. 3}
    /\ \A i \in 1 .. 3 :
           /\ SubscriptionSettings[i].field \notin SslFields
           /\ SubscriptionSettings[i].kind = "list" <=> i = 1
           /\ SubscriptionSettings[i].name = "topics" <=> i = 1
           /\ Sole(SubscriptionSettings, i)
<1>1. Len(SubscriptionSettings) = 3 /\ DOMAIN SubscriptionSettings = 1 .. 3
  BY DEF SubscriptionSettings
<1>2. /\ SubscriptionSettings[1].field = "topic_filters"
      /\ SubscriptionSettings[2].field = "max_qos"
      /\ SubscriptionSettings[3].field = "message_queue_size"
  BY Zenon DEF SubscriptionSettings, Setting
<1>3. \A i, j \in 1 .. 3 : SubscriptionSettings[i].field = SubscriptionSettings[j].field => i = j
  BY <1>2
<1>4. \A i \in 1 .. 3 : SubscriptionSettings[i].field \notin SslFields
  BY <1>2 DEF SslFields
<1>5. \A i \in 1 .. 3 : SubscriptionSettings[i].kind = "list" <=> i = 1
  BY DEF SubscriptionSettings, Setting
<1>6. \A i \in 1 .. 3 : SubscriptionSettings[i].name = "topics" <=> i = 1
  BY DEF SubscriptionSettings, Setting
<1>7. \A i \in 1 .. 3 : Sole(SubscriptionSettings, i)
  BY Zenon, <1>1, <1>3 DEF Sole
<1>8. Range(SubscriptionSettings) = {SubscriptionSettings[i] : i \in 1 .. 3}
  BY Zenon, <1>1 DEF Range
<1>. QED BY Zenon, <1>1, <1>4, <1>5, <1>6, <1>7, <1>8

\* The settings of a publication.
LEMMA PublicationTable ==
    /\ Len(PublicationSettings) = 6
    /\ Range(PublicationSettings) = {PublicationSettings[i] : i \in 1 .. 6}
    /\ \A i \in 1 .. 6 :
           /\ PublicationSettings[i].field \notin SslFields
           /\ PublicationSettings[i].kind # "list" /\ PublicationSettings[i].name # "topics"
           /\ Sole(PublicationSettings, i)
<1>1. Len(PublicationSettings) = 6 /\ DOMAIN PublicationSettings = 1 .. 6
  BY DEF PublicationSettings
<1>2. /\ PublicationSettings[1].field = "topic"
      /\ PublicationSettings[2].field = "qos"
      /\ PublicationSettings[3].field = "retained"
      /\ PublicationSettings[4].field = "use_message_info"
      /\ PublicationSettings[5].field = "max_wait_time.seconds"
      /\ PublicationSettings[6].field = "max_wait_time.nanoseconds"
  BY Zenon DEF PublicationSettings, Setting
<1>3. \A i, j \in 1 .. 6 : PublicationSettings[i].field = PublicationSettings[j].field => i = j
  BY <1>2
<1>4. \A i \in 1 .. 6 : PublicationSettings[i].field \notin SslFields
  BY <1>2 DEF SslFields
<1>5. \A i \in 1 .. 6 : /\ PublicationSettings[i].kind # "list"
                        /\ PublicationSettings[i].name # "topics"
  BY DEF PublicationSettings, Setting
<1>6. \A i \in 1 .. 6 : Sole(PublicationSettings, i)
  BY Zenon, <1>1, <1>3 DEF Sole
<1>7. Range(PublicationSettings) = {PublicationSettings[i] : i \in 1 .. 6}
  BY Zenon, <1>1 DEF Range
<1>. QED BY Zenon, <1>1, <1>4, <1>5, <1>6, <1>7

\* A field that only one setting has starts with its default.
LEMMA DefaultIs ==
    ASSUME NEW settings, NEW s \in settings,
           \A t \in settings : t.field = s.field => t = s
    PROVE  Defaults(settings)[s.field] = s.default
<1>1. s.field \in {t.field : t \in settings}
  BY Zenon
<1>2. (CHOOSE t \in settings : t.field = s.field) = s
  BY Zenon
<1>. QED BY Zenon, <1>1, <1>2 DEF Defaults

\* The fields that have a default.
LEMMA DefaultsDomain ==
    ASSUME NEW settings
    PROVE  DOMAIN Defaults(settings) = {t.field : t \in settings}
  BY Zenon DEF Defaults

\* What a lookup makes of a configuration.
LEMMA LookupIs ==
    ASSUME NEW props, NEW cs, NEW s, NEW c \in Lookup(props, cs, s)
    PROVE  \/ s.name \notin DOMAIN props /\ c \in cs
           \/ /\ s.name \in DOMAIN props
              /\ \E b \in cs : \E x \in ConvertText(s.kind, props[s.name]) :
                     /\ DOMAIN c = DOMAIN LookupSsl(b, s)
                     /\ s.field \in DOMAIN c => c[s.field] = x
                     /\ \A f \in DOMAIN c : f # s.field => c[f] = LookupSsl(b, s)[f]
<1>1. CASE s.name \notin DOMAIN props
  BY <1>1 DEF Lookup
<1>2. CASE s.name \in DOMAIN props
  <2>1. PICK b \in cs, x \in ConvertText(s.kind, props[s.name]) :
            c = [LookupSsl(b, s) EXCEPT ![s.field] = x]
    BY <1>2 DEF Lookup
  <2>. DEFINE a == LookupSsl(b, s)
  <2>. HIDE DEF a
  <2>2. c = [a EXCEPT ![s.field] = x]
    BY Zenon, <2>1 DEF a
  <2>3. /\ DOMAIN c = DOMAIN a
        /\ s.field \in DOMAIN c => c[s.field] = x
        /\ \A f \in DOMAIN c : f # s.field => c[f] = a[f]
    BY Zenon, <2>2
  <2>. QED BY Zenon, <1>2, <2>3 DEF a
<1>. QED BY Zenon, <1>1, <1>2

\* The structure for SSL exists from then on.
LEMMA AllocateSslIs ==
    ASSUME NEW c, "ssl_tls_config" \in DOMAIN c, "verify_server_certificate" \in DOMAIN c
    PROVE  LET a == AllocateSsl(c)
           IN  /\ DOMAIN a = DOMAIN c /\ a["ssl_tls_config"] # NoValue
               /\ \A f \in DOMAIN c :
                      f \notin {"ssl_tls_config", "verify_server_certificate"} => a[f] = c[f]
               /\ a["verify_server_certificate"] =
                      IF c["ssl_tls_config"] # NoValue THEN c["verify_server_certificate"] ELSE Yes
<1>1. <<"allocated">> # NoValue
  BY Zenon DEF NoValue
<1>. QED BY Zenon, <1>1 DEF AllocateSsl

\* What the property of a setting makes of its field, whose value was v.
Parsed(props, s, v, x) ==
    IF s.name \in DOMAIN props THEN x \in ConvertText(s.kind, props[s.name]) ELSE x = v

\* The first k settings are parsed, starting from configuration d.
ParsedTo(settings, props, d, k, c) ==
    /\ DOMAIN c = DOMAIN d
    /\ \A i \in 1 .. k : Sole(settings, i) =>
           Parsed(props, settings[i], d[settings[i].field], c[settings[i].field])
    /\ \A f \in DOMAIN d : (\A i \in 1 .. k : settings[i].field # f) => c[f] = d[f]

\* One setting more, by the lookup of its property.
LEMMA ParseOne ==
    ASSUME NEW settings, NEW props, NEW d, NEW n \in Nat, n = Len(settings), NEW k \in 1 .. n,
           \A i \in 1 .. n : settings[i].field \in DOMAIN d,
           settings[k] \notin Range(SslSettings),
           NEW cs, \A b \in cs : ParsedTo(settings, props, d, k - 1, b),
           NEW c \in Lookup(props, cs, settings[k])
    PROVE  ParsedTo(settings, props, d, k, c)
<1>. DEFINE s == settings[k]
<1>0. k \in Nat /\ k - 1 \in Nat /\ \A i \in 1 .. k : i = k \/ i \in 1 .. k - 1
  OBVIOUS
<1>00. \A i \in 1 .. k - 1 : i \in 1 .. k /\ i # k /\ i \in 1 .. n
  OBVIOUS
<1>01. k \in 1 .. k
  OBVIOUS
<1>02. \A i \in 1 .. k - 1 : (Sole(settings, i) \/ Sole(settings, k)) => settings[i].field # s.field
  BY Zenon, <1>00 DEF Sole
<1>1. CASE s.name \notin DOMAIN props
  <2>1. c \in cs
    BY Zenon, <1>1, LookupIs
  <2>2. ParsedTo(settings, props, d, k - 1, c)
    BY Zenon, <2>1
  <2>3. ASSUME NEW i \in 1 .. k, Sole(settings, i)
        PROVE  Parsed(props, settings[i], d[settings[i].field], c[settings[i].field])
    <3>1. CASE i = k
      <4>1. \A j \in 1 .. k - 1 : settings[j].field # s.field
        BY Zenon, <1>02, <2>3, <3>1
      <4>2. c[s.field] = d[s.field]
        BY Zenon, <2>2, <4>1 DEF ParsedTo
      <4>. QED BY Zenon, <1>1, <3>1, <4>2 DEF Parsed
    <3>2. CASE i \in 1 .. k - 1
      BY Zenon, <2>2, <2>3, <3>2 DEF ParsedTo
    <3>. QED BY Zenon, <1>0, <3>1, <3>2
  <2>4. ASSUME NEW f \in DOMAIN d, \A i \in 1 .. k : settings[i].field # f
        PROVE  c[f] = d[f]
    BY Zenon, <1>00, <2>2, <2>4 DEF ParsedTo
  <2>. QED BY Zenon, <2>2, <2>3, <2>4 DEF ParsedTo
<1>2. CASE s.name \in DOMAIN props
  <2>1. PICK b \in cs, x \in ConvertText(s.kind, props[s.name]) :
            /\ DOMAIN c = DOMAIN b
            /\ s.field \in DOMAIN c => c[s.field] = x
            /\ \A f \in DOMAIN c : f # s.field => c[f] = b[f]
    <3>1. \A b : LookupSsl(b, s) = b
      BY Zenon DEF LookupSsl
    <3>2. PICK b \in cs, x \in ConvertText(s.kind, props[s.name]) :
              /\ DOMAIN c = DOMAIN LookupSsl(b, s)
              /\ s.field \in DOMAIN c => c[s.field] = x
              /\ \A f \in DOMAIN c : f # s.field => c[f] = LookupSsl(b, s)[f]
      <4>. HIDE DEF s
      <4>1. c \in Lookup(props, cs, s)
        BY Zenon DEF s
      <4>. QED BY <1>2, <4>1, LookupIs
    <3>3. LookupSsl(b, s) = b
      BY Zenon, <3>1
    <3>. QED BY Zenon, <3>2, <3>3
  <2>2. ParsedTo(settings, props, d, k - 1, b)
    BY Zenon, <2>1
  <2>3. DOMAIN c = DOMAIN d
    BY Zenon, <2>1, <2>2 DEF ParsedTo
  <2>4. ASSUME NEW i \in 1 .. k, Sole(settings, i)
        PROVE  Parsed(props, settings[i], d[settings[i].field], c[settings[i].field])
    <3>1. CASE i = k
      BY Zenon, <1>2, <2>1, <2>3, <3>1 DEF Parsed
    <3>2. CASE i \in 1 .. k - 1
      <4>1. settings[i].field # s.field
        BY Zenon, <1>02, <2>4, <3>2
      <4>2. Parsed(props, settings[i], d[settings[i].field], b[settings[i].field])
        BY Zenon, <2>2, <2>4, <3>2 DEF ParsedTo
      <4>3. settings[i].field \in DOMAIN c
        BY Zenon, <1>00, <2>3, <3>2
      <4>. QED BY Zenon, <2>1, <4>1, <4>2, <4>3
    <3>. QED BY Zenon, <1>0, <3>1, <3>2
  <2>5. ASSUME NEW f \in DOMAIN d, \A i \in 1 .. k : settings[i].field # f
        PROVE  c[f] = d[f]
    <3>1. b[f] = d[f]
      BY Zenon, <1>00, <2>2, <2>5 DEF ParsedTo
    <3>2. f # s.field
      BY Zenon, <1>01, <2>5
    <3>. QED BY Zenon, <2>1, <2>3, <3>1, <3>2
  <2>. QED BY Zenon, <2>3, <2>4, <2>5 DEF ParsedTo
<1>. QED BY Zenon, <1>1, <1>2

\* After the settings that are not for SSL, a field is what the property says
\* or what it was.
LEMMA PlainParse ==
    ASSUME NEW settings, NEW props, NEW d, Len(settings) \in Nat,
           \A i \in 1 .. Len(settings) :
               settings[i].field \in DOMAIN d /\ settings[i] \notin Range(SslSettings),
           NEW c \in ParseSettings(settings, props, {d})
    PROVE  ParsedTo(settings, props, d, Len(settings), c)
<1>. DEFINE n == Len(settings)
<1>1. PICK f : ParseRuns(settings, props, {d}, f, n) /\ ParseSettings(settings, props, {d}) = f[n]
  BY Zenon, ParseIs
<1>. DEFINE T == {k \in 0 .. n : \E b \in f[k] : ~ParsedTo(settings, props, d, k, b)}
<1>2. T = {}
  <2>. SUFFICES ASSUME T # {} PROVE FALSE
    BY Zenon
  <2>1. PICK k \in T : \A y \in T : k <= y
    <3>1. T \subseteq Nat
      OBVIOUS
    <3>. QED BY Zenon, <3>1, LeastNumber
  <2>2. PICK b \in f[k] : ~ParsedTo(settings, props, d, k, b)
    BY Zenon, <2>1
  <2>3. CASE k = 0
    <3>1. b = d
      BY Zenon, <1>1, <2>2, <2>3 DEF ParseRuns
    <3>2. ParsedTo(settings, props, d, 0, d)
      BY DEF ParsedTo
    <3>. QED BY Zenon, <2>2, <2>3, <3>1, <3>2
  <2>4. CASE k # 0
    <3>1. k \in 1 .. n /\ k - 1 \in 0 .. n /\ ~(k <= k - 1)
      BY <2>1, <2>4
    <3>2. k - 1 \notin T
      BY Zenon, <2>1, <3>1
    <3>3. \A a \in f[k - 1] : ParsedTo(settings, props, d, k - 1, a)
      BY Zenon, <3>1, <3>2
    <3>4. b \in Lookup(props, f[k - 1], settings[k])
      BY Zenon, <1>1, <2>2, <3>1 DEF ParseRuns
    <3>5. ParsedTo(settings, props, d, k, b)
      <4>. HIDE DEF T
      <4>. QED BY Zenon, <3>1, <3>3, <3>4, ParseOne
    <3>. QED BY Zenon, <2>2, <3>5
  <2>. QED BY Zenon, <2>3, <2>4
<1>3. n \in 0 .. n
  OBVIOUS
<1>. QED BY Zenon, <1>1, <1>2, <1>3

\* The configuration that parsing starts from.
LEMMA ClientDefaults ==
    LET d == BrokerConnectionConfig_default
    IN  /\ \A i \in 1 .. 18 :
               /\ ClientSettings[i].field \in DOMAIN d
               /\ ClientSettings[i].field \notin Timeouts =>
                      d[ClientSettings[i].field] = ClientSettings[i].default
        /\ \A i \in 1 .. 7 : /\ SslSettings[i].field \in DOMAIN d
                             /\ d[SslSettings[i].field] = SslSettings[i].default
        /\ "ssl_tls_config" \in DOMAIN d /\ d["ssl_tls_config"] = NoValue
<1>. DEFINE d == BrokerConnectionConfig_default
            own == {ClientSettings[i] : i \in 1 .. 18}
            ssl == {SslSettings[i] : i \in 1 .. 7}
            ka == Setting("none", "keep_alive_period", "none", <<"10">>)
            tls == Setting("none", "ssl_tls_config", "none", NoValue)
            all == (own \cup ssl) \cup {ka, tls}
<1>1. d = Defaults(all)
  BY Zenon, ClientTable, SslTable DEF BrokerConnectionConfig_default, SettingsOf
<1>2. ka.field = "keep_alive_period" /\ tls.field = "ssl_tls_config" /\ tls.default = NoValue
  BY Zenon DEF Setting
<1>3. "keep_alive_period" \notin SslFields /\ "ssl_tls_config" \in SslFields
  BY Zenon DEF SslFields
<1>. HIDE DEF ka, tls, d
<1>d. \A i \in 1 .. 18, j \in 1 .. 7 : ClientSettings[i].field # SslSettings[j].field
  BY Zenon, ClientTable, SslTable
<1>4. ASSUME NEW i \in 1 .. 18, ClientSettings[i].field \notin Timeouts
      PROVE  d[ClientSettings[i].field] = ClientSettings[i].default
  <2>1. \A t \in own : t.field = ClientSettings[i].field => t = ClientSettings[i]
    BY ZenonT(30), <1>4, ClientTable DEF Sole
  <2>2. \A t \in ssl : t.field # ClientSettings[i].field
    BY Zenon, <1>d
  <2>3. ka.field # ClientSettings[i].field /\ tls.field # ClientSettings[i].field
    BY Zenon, <1>2, <1>3, ClientTable
  <2>4. ClientSettings[i] \in all
    BY Zenon
  <2>5. \A t \in all : t.field = ClientSettings[i].field => t = ClientSettings[i]
    BY Zenon, <2>1, <2>2, <2>3
  <2>. HIDE DEF all
  <2>. QED BY Zenon, <1>1, <2>4, <2>5, DefaultIs
<1>5. ASSUME NEW i \in 1 .. 7
      PROVE  d[SslSettings[i].field] = SslSettings[i].default
  <2>1. \A t \in ssl : t.field = SslSettings[i].field => t = SslSettings[i]
    BY Zenon, SslTable DEF Sole
  <2>2. \A t \in own : t.field # SslSettings[i].field
    BY Zenon, <1>d
  <2>3. ka.field # SslSettings[i].field /\ tls.field # SslSettings[i].field
    BY Zenon, <1>2, <1>3, SslTable
  <2>4. SslSettings[i] \in all
    BY Zenon
  <2>5. \A t \in all : t.field = SslSettings[i].field => t = SslSettings[i]
    BY Zenon, <2>1, <2>2, <2>3
  <2>. HIDE DEF all
  <2>. QED BY Zenon, <1>1, <2>4, <2>5, DefaultIs
<1>6. d[tls.field] = tls.default
  <2>1. \A t \in own : t.field # tls.field
    BY Zenon, <1>2, <1>3, ClientTable
  <2>2. \A t \in ssl : t.field # tls.field
    BY Zenon, <1>2, SslTable
  <2>3. ka.field # tls.field
    BY Zenon, <1>2
  <2>4. tls \in all
    BY Zenon
  <2>5. \A t \in all : t.field = tls.field => t = tls
    BY Zenon, <2>1, <2>2, <2>3
  <2>. HIDE DEF all
  <2>. QED BY Zenon, <1>1, <2>4, <2>5, DefaultIs
<1>7. DOMAIN d = {t.field : t \in all}
  BY Zenon, <1>1, DefaultsDomain
<1>8. /\ \A i \in 1 .. 18 : ClientSettings[i].field \in DOMAIN d
      /\ \A i \in 1 .. 7 : SslSettings[i].field \in DOMAIN d
      /\ tls.field \in DOMAIN d
  BY Zenon, <1>7
<1>. QED BY Zenon, <1>2, <1>4, <1>5, <1>6, <1>8 DEF d

\* Whether a server asks for SSL.
ServersAsk(props) ==
    /\ "servers" \in DOMAIN props
    /\ \E i \in DOMAIN props["servers"] : props["servers"][i] \in SslUris

\* There is a structure for SSL.
Allocated(c) == c["ssl_tls_config"] # NoValue

\* What holds of a client's configuration when its own settings and the first
\* k of those for SSL are parsed.
ClientParsed(props, k, c) ==
    /\ DOMAIN c = DOMAIN BrokerConnectionConfig_default
    /\ \A i \in 1 .. 18 : ClientSettings[i].field \notin Timeouts =>
           Parsed(props, ClientSettings[i], ClientSettings[i].default,
                  c[ClientSettings[i].field])
    /\ \A i \in 1 .. 6 :
           IF i <= k
           THEN Parsed(props, SslSettings[i], SslSettings[i].default, c[SslSettings[i].field])
           ELSE c[SslSettings[i].field] = SslSettings[i].default
    /\ Allocated(c) <=>
           (ServersAsk(props) \/ \E i \in 1 .. k : SslSettings[i].name \in DOMAIN props)
    /\ IF k = 7 /\ SslSettings[7].name \in DOMAIN props
       THEN c["verify_server_certificate"]
                \in ConvertText(SslSettings[7].kind, props[SslSettings[7].name])
       ELSE c["verify_server_certificate"] = IF Allocated(c) THEN Yes ELSE No

\* Where it stands when the servers have been looked at.
LEMMA ScannedIs ==
    ASSUME NEW props, "servers" \in DOMAIN props => IsList(props["servers"]),
           NEW b \in ParseSettings(ClientSettings, props, {BrokerConnectionConfig_default})
    PROVE  ClientParsed(props, 0, ScanServers(b))
<1>. DEFINE d == BrokerConnectionConfig_default
            c == ScanServers(b)
<1>. HIDE DEF d, c
<1>1. ParsedTo(ClientSettings, props, d, 18, b)
  <2>1. \A i \in 1 .. 18 : ClientSettings[i].field \in DOMAIN d
    BY Zenon, ClientDefaults DEF d
  <2>2. \A i \in 1 .. 18 : ClientSettings[i] \notin Range(SslSettings)
    <3>1. \A i \in 1 .. 18, j \in 1 .. 7 : ClientSettings[i].field # SslSettings[j].field
      BY Zenon, ClientTable, SslTable
    <3>2. Range(SslSettings) = {SslSettings[j] : j \in 1 .. 7}
      BY Zenon, SslTable
    <3>. QED BY Zenon, <3>1, <3>2
  <2>3. Len(ClientSettings) = 18 /\ Len(ClientSettings) \in Nat
    BY ClientTable
  <2>4. ParsedTo(ClientSettings, props, d, Len(ClientSettings), b)
    BY Zenon, <2>1, <2>2, <2>3, PlainParse DEF d
  <2>. QED BY Zenon, <2>3, <2>4
<1>2. DOMAIN b = DOMAIN d
  BY Zenon, <1>1 DEF ParsedTo
<1>3. \A i \in 1 .. 18 : ClientSettings[i].field \notin Timeouts =>
          Parsed(props, ClientSettings[i], ClientSettings[i].default, b[ClientSettings[i].field])
  BY Zenon, <1>1, ClientTable, ClientDefaults DEF ParsedTo, d
<1>4. \A f \in DOMAIN d : f \in SslFields => b[f] = d[f]
  BY Zenon, <1>1, ClientTable DEF ParsedTo
<1>5. /\ "ssl_tls_config" \in DOMAIN d /\ "ssl_tls_config" \in SslFields
      /\ "verify_server_certificate" \in DOMAIN d /\ "verify_server_certificate" \in SslFields
  <2>1. SslSettings[7].field = "verify_server_certificate"
    BY SslTable
  <2>2. SslSettings[7].field \in DOMAIN d
    BY ClientDefaults DEF d
  <2>. QED BY Zenon, <2>1, <2>2, ClientDefaults DEF d, SslFields
<1>6. b["ssl_tls_config"] = NoValue /\ b["verify_server_certificate"] = No
  <2>1. d["verify_server_certificate"] = No
    <3>1. SslSettings[7].field = "verify_server_certificate" /\ SslSettings[7].default = No
      BY SMTT(30), SslTable
    <3>2. d[SslSettings[7].field] = SslSettings[7].default
      BY SMTT(30), ClientDefaults DEF d
    <3>. QED BY Zenon, <3>1, <3>2
  <2>. QED BY Zenon, <1>4, <1>5, <2>1, ClientDefaults DEF d
<1>7. \A i \in 1 .. 7 : b[SslSettings[i].field] = SslSettings[i].default
  BY Zenon, <1>4, SslTable, ClientDefaults DEF d
<1>8. Range(b["server_uris"]) \cap SslUris # {} <=> ServersAsk(props)
  <2>. DEFINE v == b["server_uris"]
  <2>1. ClientSettings[3].field = "server_uris" /\ ClientSettings[3].name = "servers"
        /\ ClientSettings[3].kind = "list" /\ ClientSettings[3].default = <<>>
    BY SMTT(30), ClientTable
  <2>2. Parsed(props, ClientSettings[3], <<>>, v)
    <3>1. ClientSettings[3].field \notin Timeouts
      BY Zenon, <2>1 DEF Timeouts
    <3>. QED BY <1>3, <2>1, <3>1
  <2>. HIDE DEF v
  <2>3. CASE "servers" \in DOMAIN props
    <3>1. v \in StringSeq_from_string(props["servers"])
      BY Zenon, <2>1, <2>2, <2>3 DEF Parsed, ConvertText
    <3>2. props["servers"] # <<>> /\ v = Elements(props["servers"])
      BY Zenon, <3>1 DEF StringSeq_from_string
    <3>3. Range(v) \cap SslUris # {}
              <=> \E i \in DOMAIN props["servers"] : props["servers"][i] \in SslUris
      BY Zenon, <2>3, <3>2, ElementsAreListed
    <3>. QED BY Zenon, <2>3, <3>3 DEF ServersAsk, v
  <2>4. CASE "servers" \notin DOMAIN props
    <3>1. v = <<>>
      BY Zenon, <2>1, <2>2, <2>4 DEF Parsed
    <3>2. Range(v) = {}
      BY SMTT(30), <3>1 DEF Range
    <3>. QED BY Zenon, <2>4, <3>2 DEF ServersAsk, v
  <2>. QED BY Zenon, <2>3, <2>4
<1>9. /\ DOMAIN c = DOMAIN b
      /\ \A f \in DOMAIN b :
             f \notin {"ssl_tls_config", "verify_server_certificate"} => c[f] = b[f]
      /\ Allocated(c) <=> ServersAsk(props)
      /\ c["verify_server_certificate"] = IF Allocated(c) THEN Yes ELSE No
  <2>1. CASE ServersAsk(props)
    <3>1. c = AllocateSsl(b)
      BY Zenon, <1>8, <2>1 DEF ScanServers, c
    <3>2. "ssl_tls_config" \in DOMAIN b /\ "verify_server_certificate" \in DOMAIN b
      BY Zenon, <1>2, <1>5
    <3>. QED BY Zenon, <1>6, <2>1, <3>1, <3>2, AllocateSslIs DEF Allocated
  <2>2. CASE ~ServersAsk(props)
    <3>1. c = b
      BY Zenon, <1>8, <2>2 DEF ScanServers, c
    <3>. QED BY Zenon, <1>6, <2>2, <3>1 DEF Allocated
  <2>. QED BY Zenon, <2>1, <2>2
<1>10. \A i \in 1 .. 18 : c[ClientSettings[i].field] = b[ClientSettings[i].field]
  <2>1. \A i \in 1 .. 18 : /\ ClientSettings[i].field \in DOMAIN b
                           /\ ClientSettings[i].field \notin SslFields
    BY Zenon, <1>2, ClientTable, ClientDefaults DEF d
  <2>. QED BY Zenon, <1>5, <1>9, <2>1
<1>11. \A i \in 1 .. 6 : c[SslSettings[i].field] = SslSettings[i].default
  <2>. SUFFICES ASSUME NEW i \in 1 .. 6
                PROVE  c[SslSettings[i].field] = SslSettings[i].default
    BY Zenon
  <2>1. /\ SslSettings[i].field \in DOMAIN b /\ SslSettings[i].field # "ssl_tls_config"
        /\ SslSettings[i].field # "verify_server_certificate"
    BY SMTT(30), <1>2, SslTable, ClientDefaults DEF d
  <2>. QED BY <1>7, <1>9, <2>1
<1>12. ClientParsed(props, 0, c)
  <2>1. DOMAIN c = DOMAIN BrokerConnectionConfig_default
    BY Zenon, <1>2, <1>9 DEF d
  <2>2. \A i \in 1 .. 18 : ClientSettings[i].field \notin Timeouts =>
            Parsed(props, ClientSettings[i], ClientSettings[i].default,
                   c[ClientSettings[i].field])
    BY Zenon, <1>3, <1>10
  <2>3. \A i \in 1 .. 6 : ~(i <= 0)
    OBVIOUS
  <2>4. 1 .. 0 = {} /\ 0 # 7
    OBVIOUS
  <2>. QED BY Zenon, <1>9, <1>11, <2>1, <2>2, <2>3, <2>4 DEF ClientParsed
<1>. QED BY Zenon, <1>12 DEF c

\* One setting for SSL more.
LEMMA SslParseOne ==
    ASSUME NEW props, NEW k \in 1 .. 7,
           NEW cs, \A b \in cs : ClientParsed(props, k - 1, b),
           NEW c \in Lookup(props, cs, SslSettings[k])
    PROVE  ClientParsed(props, k, c)
<1>. DEFINE s == SslSettings[k]
            d == BrokerConnectionConfig_default
            verify == "verify_server_certificate"
            Own(a) == \A i \in 1 .. 18 : ClientSettings[i].field \notin Timeouts =>
                          Parsed(props, ClientSettings[i], ClientSettings[i].default,
                                 a[ClientSettings[i].field])
            Ssl(a, n) == \A i \in 1 .. 6 :
                             IF i <= n
                             THEN Parsed(props, SslSettings[i], SslSettings[i].default,
                                         a[SslSettings[i].field])
                             ELSE a[SslSettings[i].field] = SslSettings[i].default
            Asked(n) == ServersAsk(props) \/ \E i \in 1 .. n : SslSettings[i].name \in DOMAIN props
<1>0. k \in Nat /\ k - 1 \in Nat /\ k - 1 # 7 /\ (k = 7 <=> ~(k \in 1 .. 6))
  OBVIOUS
<1>1. \A i \in 1 .. k : i = k \/ i \in 1 .. k - 1
  OBVIOUS
<1>2. \A i \in 1 .. k - 1 : i \in 1 .. k
  OBVIOUS
<1>3. k \in 1 .. k
  OBVIOUS
<1>4. s.name \notin DOMAIN props => (Asked(k) <=> Asked(k - 1))
  BY Zenon, <1>1, <1>2
<1>5. s.name \in DOMAIN props => Asked(k)
  BY Zenon, <1>3
<1>6. \A i \in 1 .. 6 : i # k => (i <= k <=> i <= k - 1)
  BY SMTT(30), <1>0
<1>7. \A b \in cs : /\ DOMAIN b = DOMAIN d /\ Own(b) /\ Ssl(b, k - 1)
                    /\ Allocated(b) <=> Asked(k - 1)
                    /\ b[verify] = IF Allocated(b) THEN Yes ELSE No
  BY ZenonT(30), <1>0 DEF ClientParsed
<1>8. SUFFICES /\ DOMAIN c = DOMAIN d /\ Own(c) /\ Ssl(c, k)
               /\ Allocated(c) <=> Asked(k)
               /\ IF k = 7 /\ SslSettings[7].name \in DOMAIN props
                  THEN c[verify] \in ConvertText(SslSettings[7].kind, props[SslSettings[7].name])
                  ELSE c[verify] = IF Allocated(c) THEN Yes ELSE No
  BY Zenon DEF ClientParsed
<1>9. CASE s.name \notin DOMAIN props
  <2>1. c \in cs
    BY Zenon, <1>9, LookupIs
  <2>2. Ssl(c, k)
    <3>. SUFFICES ASSUME NEW i \in 1 .. 6
                  PROVE  IF i <= k
                         THEN Parsed(props, SslSettings[i], SslSettings[i].default,
                                     c[SslSettings[i].field])
                         ELSE c[SslSettings[i].field] = SslSettings[i].default
      BY Zenon
    <3>1. Ssl(c, k - 1)
      BY Zenon, <1>7, <2>1
    <3>2. CASE i = k
      <4>1. ~(i <= k - 1)
        BY <1>0, <3>2
      <4>2. c[SslSettings[i].field] = SslSettings[i].default
        BY Zenon, <3>1, <4>1
      <4>. QED BY Zenon, <1>9, <3>2, <4>2 DEF Parsed
    <3>3. CASE i # k
      BY Zenon, <1>6, <3>1, <3>3
    <3>. QED BY Zenon, <3>2, <3>3
  <2>. HIDE DEF Own, Ssl, Asked
  <2>3. k = 7 => ~(SslSettings[7].name \in DOMAIN props)
    BY Zenon, <1>9
  <2>. QED BY Zenon, <1>4, <1>7, <1>9, <2>1, <2>2, <2>3
<1>10. CASE s.name \in DOMAIN props
  <2>1. PICK b \in cs, x \in ConvertText(s.kind, props[s.name]) :
            /\ DOMAIN c = DOMAIN LookupSsl(b, s)
            /\ s.field \in DOMAIN c => c[s.field] = x
            /\ \A f \in DOMAIN c : f # s.field => c[f] = LookupSsl(b, s)[f]
    <3>. HIDE DEF s
    <3>1. c \in Lookup(props, cs, s)
      BY Zenon DEF s
    <3>. QED BY <1>10, <3>1, LookupIs
  <2>. DEFINE a == AllocateSsl(b)
  <2>2. LookupSsl(b, s) = a
    <3>1. s \in Range(SslSettings)
      BY Zenon, SslTable
    <3>. QED BY Zenon, <3>1 DEF LookupSsl
  <2>3. DOMAIN b = DOMAIN d
    BY Zenon, <1>7
  <2>4. "ssl_tls_config" \in DOMAIN b /\ verify \in DOMAIN b /\ s.field \in DOMAIN b
    <3>1. SslSettings[7].field = verify
      BY SMTT(30), SslTable
    <3>2. SslSettings[7].field \in DOMAIN d
      BY SMTT(30), ClientDefaults
    <3>. QED BY Zenon, <2>3, <3>1, <3>2, ClientDefaults
  <2>5. /\ DOMAIN a = DOMAIN b /\ a["ssl_tls_config"] # NoValue
        /\ \A f \in DOMAIN b : f \notin {"ssl_tls_config", verify} => a[f] = b[f]
        /\ a[verify] = IF Allocated(b) THEN b[verify] ELSE Yes
    BY Zenon, <2>4, AllocateSslIs DEF Allocated
  <2>. HIDE DEF a
  <2>6. a[verify] = Yes
    BY Zenon, <1>7, <2>5
  <2>7. DOMAIN c = DOMAIN d /\ c[s.field] = x /\ \A f \in DOMAIN b : f # s.field => c[f] = a[f]
    BY Zenon, <2>1, <2>2, <2>3, <2>4, <2>5
  <2>8. s.field # "ssl_tls_config" /\ (s.field = verify <=> k = 7)
    BY Zenon, SslTable
  <2>9. Allocated(c)
    BY Zenon, <2>4, <2>5, <2>7, <2>8 DEF Allocated
  <2>10. IF k = 7 /\ SslSettings[7].name \in DOMAIN props
         THEN c[verify] \in ConvertText(SslSettings[7].kind, props[SslSettings[7].name])
         ELSE c[verify] = IF Allocated(c) THEN Yes ELSE No
    <3>1. CASE k = 7
      BY Zenon, <1>10, <2>1, <2>7, <2>8, <3>1
    <3>2. CASE k # 7
      BY Zenon, <2>4, <2>6, <2>7, <2>8, <2>9, <3>2
    <3>. QED BY Zenon, <3>1, <3>2
  <2>11. Own(c)
    <3>1. \A i \in 1 .. 18 : /\ ClientSettings[i].field \in DOMAIN b
                             /\ ClientSettings[i].field \notin SslFields
      BY Zenon, <2>3, ClientTable, ClientDefaults
    <3>2. s.field \in SslFields
      BY Zenon, SslTable
    <3>3. "ssl_tls_config" \in SslFields /\ verify \in SslFields
      BY Zenon DEF SslFields
    <3>4. \A i \in 1 .. 18 : c[ClientSettings[i].field] = b[ClientSettings[i].field]
      BY Zenon, <2>5, <2>7, <3>1, <3>2, <3>3
    <3>. QED BY ZenonT(30), <1>7, <3>4
  <2>12. Ssl(c, k)
    <3>. SUFFICES ASSUME NEW i \in 1 .. 6
                  PROVE  IF i <= k
                         THEN Parsed(props, SslSettings[i], SslSettings[i].default,
                                     c[SslSettings[i].field])
                         ELSE c[SslSettings[i].field] = SslSettings[i].default
      BY Zenon
    <3>1. Ssl(b, k - 1)
      BY Zenon, <1>7, <2>1
    <3>2. CASE i = k
      <4>1. i <= k
        BY SMTT(30), <1>0, <3>2
      <4>. QED BY Zenon, <1>10, <2>1, <2>7, <3>2, <4>1 DEF Parsed
    <3>3. CASE i # k
      <4>1. SslSettings[i].field # s.field
        <5>1. Sole(SslSettings, k) /\ Len(SslSettings) = 7
          BY Zenon, SslTable
        <5>. QED BY SMTT(30), <3>3, <5>1 DEF Sole
      <4>2. /\ SslSettings[i].field # "ssl_tls_config" /\ SslSettings[i].field # verify
            /\ SslSettings[i].field \in DOMAIN b
        BY SMTT(30), <2>3, SslTable, ClientDefaults
      <4>3. c[SslSettings[i].field] = b[SslSettings[i].field]
        BY Zenon, <2>5, <2>7, <4>1, <4>2
      <4>. QED BY Zenon, <1>6, <3>1, <3>3, <4>3
    <3>. QED BY Zenon, <3>2, <3>3
  <2>. QED BY ZenonT(30), <1>5, <1>10, <2>7, <2>9, <2>10, <2>11, <2>12
<1>. QED BY Zenon, <1>9, <1>10

\* What parsing the properties of a connection results in.
LEMMA ClientIsParsed ==
    ASSUME NEW props, "servers" \in DOMAIN props => IsList(props["servers"]),
           NEW c \in ClientConfig_parse(props)
    PROVE  ClientParsed(props, 7, c)
<1>. DEFINE plain == ParseSettings(ClientSettings, props, {BrokerConnectionConfig_default})
            scanned == {ScanServers(b) : b \in plain}
<1>1. c \in ParseSettings(SslSettings, props, scanned)
  BY Zenon DEF ClientConfig_parse
<1>2. \A b \in scanned : ClientParsed(props, 0, b)
  BY Zenon, ScannedIs
<1>3. Len(SslSettings) = 7 /\ Len(SslSettings) \in Nat
  BY SslTable
<1>. HIDE DEF scanned
<1>4. PICK f : /\ ParseRuns(SslSettings, props, scanned, f, 7)
               /\ ParseSettings(SslSettings, props, scanned) = f[7]
  <2>1. \E f : /\ ParseRuns(SslSettings, props, scanned, f, Len(SslSettings))
               /\ ParseSettings(SslSettings, props, scanned) = f[Len(SslSettings)]
    BY Zenon, <1>3, ParseIs
  <2>. QED BY Zenon, <1>3, <2>1
<1>. DEFINE T == {k \in 0 .. 7 : \E b \in f[k] : ~ClientParsed(props, k, b)}
<1>5. T = {}
  <2>. SUFFICES ASSUME T # {} PROVE FALSE
    BY Zenon
  <2>1. PICK k \in T : \A y \in T : k <= y
    <3>1. T \subseteq Nat
      OBVIOUS
    <3>. QED BY Zenon, <3>1, LeastNumber
  <2>2. PICK b \in f[k] : ~ClientParsed(props, k, b)
    BY Zenon, <2>1
  <2>3. CASE k = 0
    BY Zenon, <1>2, <1>4, <2>2, <2>3 DEF ParseRuns
  <2>4. CASE k # 0
    <3>1. k \in 1 .. 7 /\ k - 1 \in 0 .. 7 /\ ~(k <= k - 1)
      BY <2>1, <2>4
    <3>2. k - 1 \notin T
      BY Zenon, <2>1, <3>1
    <3>3. \A a \in f[k - 1] : ClientParsed(props, k - 1, a)
      BY Zenon, <3>1, <3>2
    <3>4. b \in Lookup(props, f[k - 1], SslSettings[k])
      BY Zenon, <1>4, <2>2, <3>1 DEF ParseRuns
    <3>5. ClientParsed(props, k, b)
      <4>. HIDE DEF T
      <4>. QED BY Zenon, <3>1, <3>3, <3>4, SslParseOne
    <3>. QED BY Zenon, <2>2, <3>5
  <2>. QED BY Zenon, <2>3, <2>4
<1>. QED BY <1>1, <1>4, <1>5

\* The text of a property that is a list is one.
LEMMA GivenLists ==
    ASSUME NEW entity, NEW name, NEW props \in PropertySets(entity), name \in DOMAIN props,
           \A s \in SettingsOf(entity) : s.name = name => s.kind = "list"
    PROVE  IsList(props[name])
<1>. DEFINE settings == SettingsOf(entity)
            texts(n) == PropertyTexts[(CHOOSE s \in settings : s.name = n).kind]
            names == {s.name : s \in settings}
            given == UNION {SUBSET g : g \in {h \in PropertyGroups : h \subseteq names}}
            Props(N) == {p \in [N -> UNION {texts(n) : n \in N}] : \A n \in N : p[n] \in texts(n)}
<1>1. props \in UNION {Props(N) : N \in given}
  BY Zenon DEF PropertySets
<1>2. PICK N \in given : props \in Props(N)
  <2>. HIDE DEF Props, given
  <2>. QED BY Zenon, <1>1
<1>3. name \in N
  BY Zenon, <1>2
<1>4. name \in names
  <2>1. N \subseteq names
    BY Zenon
  <2>. QED BY Zenon, <1>3, <2>1
<1>5. (CHOOSE s \in settings : s.name = name).kind = "list"
  BY Zenon, <1>4
<1>6. props[name] \in texts(name)
  <2>. HIDE DEF texts
  <2>. QED BY Zenon, <1>2, <1>3
<1>7. props[name] \in PropertyTexts["list"]
  BY Zenon, <1>5, <1>6
<1>. QED BY Zenon, <1>7, ListAssumption DEF IsList

\* A field that is parsed has the value that its property says.
LEMMA ParsedSays ==
    ASSUME NEW props, NEW s, NEW v, NEW x, Parsed(props, s, v, x), s.name \in DOMAIN props,
           s.kind = "list" => IsList(props[s.name])
    PROVE  Says(s.kind, props[s.name], x)
<1>1. x \in ConvertText(s.kind, props[s.name])
  BY Zenon DEF Parsed
<1>2. CASE s.kind = "list"
  <2>1. x \in StringSeq_from_string(props[s.name])
    BY Zenon, <1>1, <1>2 DEF ConvertText
  <2>2. props[s.name] # <<>> /\ x = Elements(props[s.name])
    BY Zenon, <2>1 DEF StringSeq_from_string
  <2>. QED BY Zenon, <1>2, <2>2, ElementsAreListed DEF Says
<1>3. CASE s.kind # "list"
  BY Zenon, <1>1, <1>3 DEF Says
<1>. QED BY Zenon, <1>2, <1>3

\* What a client's configuration has is what its properties say.
LEMMA ClientHolds ==
    ASSUME cf_entity = "client", cf_props \in PropertySets("client"),
           cf_config = ParseEntity("client", cf_props)
    PROVE  MqttSettingsHold
<1>. DEFINE all == Range(ClientSettings) \cup Range(SslSettings)
<1>1. SettingsOf("client") = all
  BY Zenon DEF SettingsOf
<1>2. \A s \in all : s.kind = "list" <=> s.name = "servers"
  <2>1. \A i \in 1 .. 18 : ClientSettings[i].kind = "list" <=> ClientSettings[i].name = "servers"
    BY Zenon, ClientTable
  <2>2. \A i \in 1 .. 7 : SslSettings[i].kind # "list" /\ SslSettings[i].name # "servers"
    BY Zenon, SslTable
  <2>3. all = {ClientSettings[i] : i \in 1 .. 18} \cup {SslSettings[i] : i \in 1 .. 7}
    BY Zenon, ClientTable, SslTable
  <2>. QED BY Zenon, <2>1, <2>2, <2>3
<1>3. "servers" \in DOMAIN cf_props => IsList(cf_props["servers"])
  BY Zenon, <1>1, <1>2, GivenLists
<1>4. SUFFICES ASSUME NEW c \in cf_config
               PROVE  /\ \A s \in all :
                             IF s.name \in DOMAIN cf_props
                             THEN Says(s.kind, cf_props[s.name], c[s.field])
                                      \/ s.field \in Timeouts
                             ELSE \/ c[s.field] = s.default \/ s.field \in Timeouts
                                  \/ s.field = "verify_server_certificate"
                      /\ Allocated(c) <=> AsksForSsl
                      /\ "ssl.verify_server_certificate" \notin DOMAIN cf_props =>
                             c["verify_server_certificate"] = IF AsksForSsl THEN Yes ELSE No
  <2>. HIDE DEF all
  <2>. QED BY Zenon, <1>1 DEF MqttSettingsHold, Allocated, Timeouts
<1>5. ClientParsed(cf_props, 7, c)
  <2>1. c \in ClientConfig_parse(cf_props)
    BY Zenon, <1>4 DEF ParseEntity, BrokerConnectionConfig_parse
  <2>. QED BY Zenon, <1>3, <2>1, ClientIsParsed
<1>6. AsksForSsl <=>
          (ServersAsk(cf_props) \/ \E i \in 1 .. 7 : SslSettings[i].name \in DOMAIN cf_props)
  <2>1. (\E s \in Range(SslSettings) : s.name \in DOMAIN cf_props)
            <=> \E i \in 1 .. 7 : SslSettings[i].name \in DOMAIN cf_props
    BY Zenon, SslTable
  <2>. QED BY Zenon, <2>1 DEF AsksForSsl, ServersAsk
<1>7. Allocated(c) <=> AsksForSsl
  BY Zenon, <1>5, <1>6 DEF ClientParsed
<1>8. "ssl.verify_server_certificate" \notin DOMAIN cf_props =>
          c["verify_server_certificate"] = IF AsksForSsl THEN Yes ELSE No
  BY Zenon, <1>5, <1>7, SslTable DEF ClientParsed
<1>9. ASSUME NEW s \in all
      PROVE  IF s.name \in DOMAIN cf_props
             THEN Says(s.kind, cf_props[s.name], c[s.field]) \/ s.field \in Timeouts
             ELSE \/ c[s.field] = s.default \/ s.field \in Timeouts
                  \/ s.field = "verify_server_certificate"
  <2>0. s.name \in DOMAIN cf_props /\ s.kind = "list" => IsList(cf_props[s.name])
    BY Zenon, <1>2, <1>3
  <2>1. CASE s \in Range(ClientSettings)
    <3>1. PICK i \in 1 .. 18 : s = ClientSettings[i]
      BY Zenon, <2>1, ClientTable
    <3>2. s.field \in Timeouts \/ Parsed(cf_props, s, s.default, c[s.field])
      BY Zenon, <1>5, <3>1 DEF ClientParsed
    <3>3. CASE s.name \in DOMAIN cf_props
      BY Zenon, <2>0, <3>2, <3>3, ParsedSays
    <3>4. CASE s.name \notin DOMAIN cf_props
      BY Zenon, <3>2, <3>4 DEF Parsed
    <3>. QED BY Zenon, <3>3, <3>4
  <2>2. CASE s \in Range(SslSettings)
    <3>1. PICK i \in 1 .. 7 : s = SslSettings[i]
      BY Zenon, <2>2, SslTable
    <3>2. CASE i \in 1 .. 6
      <4>1. Parsed(cf_props, s, s.default, c[s.field])
        <5>1. i <= 7
          BY SMTT(30)
        <5>. QED BY Zenon, <1>5, <3>1, <3>2, <5>1 DEF ClientParsed
      <4>2. CASE s.name \in DOMAIN cf_props
        BY Zenon, <2>0, <4>1, <4>2, ParsedSays
      <4>3. CASE s.name \notin DOMAIN cf_props
        BY Zenon, <4>1, <4>3 DEF Parsed
      <4>. QED BY Zenon, <4>2, <4>3
    <3>3. CASE i = 7
      <4>1. s.field = "verify_server_certificate" /\ s = SslSettings[7] /\ s.kind # "list"
        BY Zenon, <3>1, <3>3, SslTable
      <4>2. s.name \in DOMAIN cf_props => c[s.field] \in ConvertText(s.kind, cf_props[s.name])
        BY Zenon, <1>5, <4>1 DEF ClientParsed
      <4>. QED BY Zenon, <4>1, <4>2 DEF Says
    <3>. QED BY SMTT(30), <3>2, <3>3
  <2>. QED BY Zenon, <2>1, <2>2
<1>. QED BY Zenon, <1>7, <1>8, <1>9

\* The same for an entity whose settings are not for SSL.
LEMMA PlainHolds ==
    ASSUME NEW settings, Len(settings) \in Nat,
           Range(settings) = {settings[i] : i \in 1 .. Len(settings)},
           SettingsOf(cf_entity) = Range(settings), cf_entity # "client",
           \A i \in 1 .. Len(settings) :
               Sole(settings, i) /\ settings[i].field \notin SslFields,
           \A s \in Range(settings) : s.kind = "list" <=> s.name = "topics",
           cf_props \in PropertySets(cf_entity),
           cf_config = ParseSettings(settings, cf_props, {Defaults(Range(settings))})
    PROVE  MqttSettingsHold
<1>. DEFINE d == Defaults(Range(settings))
<1>1. \A i \in 1 .. Len(settings) : settings[i].field \in DOMAIN d
  <2>1. DOMAIN d = {t.field : t \in Range(settings)}
    BY Zenon, DefaultsDomain
  <2>2. \A i \in 1 .. Len(settings) : settings[i] \in Range(settings)
    BY Zenon
  <2>. HIDE DEF d
  <2>. QED BY Zenon, <2>1, <2>2
<1>2. \A i \in 1 .. Len(settings) : settings[i] \notin Range(SslSettings)
  <2>1. \A s \in Range(SslSettings) : s.field \in SslFields
    BY Zenon, SslTable
  <2>. QED BY Zenon, <2>1
<1>3. "topics" \in DOMAIN cf_props => IsList(cf_props["topics"])
  BY SMTT(30), GivenLists
<1>4. \A s \in Range(settings) : d[s.field] = s.default
  <2>. SUFFICES ASSUME NEW i \in 1 .. Len(settings)
                PROVE  d[settings[i].field] = settings[i].default
    BY Zenon
  <2>1. \A t \in Range(settings) : t.field = settings[i].field => t = settings[i]
    BY Zenon DEF Sole
  <2>. QED BY Zenon, <2>1, DefaultIs
<1>. HIDE DEF d
<1>5. SUFFICES ASSUME NEW c \in cf_config, NEW s \in Range(settings)
               PROVE  IF s.name \in DOMAIN cf_props
                      THEN Says(s.kind, cf_props[s.name], c[s.field])
                      ELSE c[s.field] = s.default
  BY Zenon DEF MqttSettingsHold
<1>6. ParsedTo(settings, cf_props, d, Len(settings), c)
  <2>1. c \in ParseSettings(settings, cf_props, {d})
    BY Zenon, <1>5 DEF d
  <2>. QED BY Zenon, <1>1, <1>2, <2>1, PlainParse
<1>7. PICK i \in 1 .. Len(settings) : s = settings[i]
  BY Zenon, <1>5
<1>8. Parsed(cf_props, s, s.default, c[s.field])
  BY Zenon, <1>4, <1>5, <1>6, <1>7 DEF ParsedTo
<1>9. CASE s.name \in DOMAIN cf_props
  BY Zenon, <1>3, <1>5, <1>8, <1>9, ParsedSays
<1>10. CASE s.name \notin DOMAIN cf_props
  BY Zenon, <1>8, <1>10 DEF Parsed
<1>. QED BY Zenon, <1>9, <1>10

\* A configuration is what parsing the properties made it.
ConfigInv ==
    /\ cf_entity \in {"client", "subscription", "publication"}
    /\ cf_config # {} => /\ cf_props \in PropertySets(cf_entity)
                         /\ cf_config = ParseEntity(cf_entity, cf_props)

\* ConfigInv is enough.
LEMMA ConfigInvHolds == ConfigInv => MqttSettingsHold
<1>. SUFFICES ASSUME ConfigInv, cf_config # {} PROVE MqttSettingsHold
  BY Zenon DEF MqttSettingsHold
<1>1. cf_props \in PropertySets(cf_entity) /\ cf_config = ParseEntity(cf_entity, cf_props)
  BY Zenon DEF ConfigInv
<1>2. CASE cf_entity = "client"
  BY Zenon, <1>1, <1>2, ClientHolds
<1>3. CASE cf_entity = "subscription"
  <2>1. /\ SettingsOf(cf_entity) = Range(SubscriptionSettings)
        /\ cf_config = ParseSettings(SubscriptionSettings, cf_props,
                                     {Defaults(Range(SubscriptionSettings))})
    BY Zenon, <1>1, <1>3 DEF SettingsOf, ParseEntity, MessageReaderConfig_parse,
                      MessageReaderConfig_default
  <2>2. \A s \in Range(SubscriptionSettings) : s.kind = "list" <=> s.name = "topics"
    BY Zenon, SubscriptionTable
  <2>3. cf_entity # "client" /\ Len(SubscriptionSettings) \in Nat
    BY <1>3, SubscriptionTable
  <2>4. Range(SubscriptionSettings)
            = {SubscriptionSettings[i] : i \in 1 .. Len(SubscriptionSettings)}
    BY Zenon, SubscriptionTable
  <2>5. \A i \in 1 .. Len(SubscriptionSettings) :
            Sole(SubscriptionSettings, i) /\ SubscriptionSettings[i].field \notin SslFields
    BY Zenon, SubscriptionTable
  <2>. QED BY Zenon, <1>1, <2>1, <2>2, <2>3, <2>4, <2>5, PlainHolds
<1>4. CASE cf_entity = "publication"
  <2>1. /\ SettingsOf(cf_entity) = Range(PublicationSettings)
        /\ cf_config = ParseSettings(PublicationSettings, cf_props,
                                     {Defaults(Range(PublicationSettings))})
    BY Zenon, <1>1, <1>4 DEF SettingsOf, ParseEntity, MessageWriterConfig_parse,
                      MessageWriterConfig_default
  <2>2. \A s \in Range(PublicationSettings) : s.kind = "list" <=> s.name = "topics"
    BY Zenon, PublicationTable
  <2>3. cf_entity # "client" /\ Len(PublicationSettings) \in Nat
    BY <1>4, PublicationTable
  <2>4. Range(PublicationSettings)
            = {PublicationSettings[i] : i \in 1 .. Len(PublicationSettings)}
    BY Zenon, PublicationTable
  <2>5. \A i \in 1 .. Len(PublicationSettings) :
            Sole(PublicationSettings, i) /\ PublicationSettings[i].field \notin SslFields
    BY Zenon, PublicationTable
  <2>. QED BY SMTT(30), <1>1, <2>1, <2>2, <2>3, <2>4, <2>5, PlainHolds
<1>. QED BY Zenon, <1>2, <1>3, <1>4 DEF ConfigInv

\* Whatever properties a connection, an input or an output is given, of
\* whichever texts, parsing them (Properties.c, *_parse_from_properties) either
\* fails or makes a configuration in which each setting is what its property
\* says, or its default; there is a configuration for SSL exactly when a server
\* or a property asks for one, and the certificate of the server is verified
\* unless a property says otherwise.
THEOREM SettingsHold == ConfigurationSpec => []MqttSettingsHold
<1>1. ConfigurationInit => ConfigInv
  BY Zenon DEF ConfigurationInit, ConfigInv
<1>2. ConfigInv /\ [ConfigurationNext]_cfvars => ConfigInv'
  <2>. SUFFICES ASSUME ConfigInv, [ConfigurationNext]_cfvars PROVE ConfigInv'
    BY Zenon
  <2>1. CASE ParseProperties
    BY Zenon, <2>1 DEF ParseProperties, ConfigInv
  <2>2. CASE DeleteConfig
    BY Zenon, <2>2 DEF DeleteConfig, ConfigInv
  <2>3. CASE UNCHANGED cfvars
    BY Zenon, <2>3 DEF ConfigInv, cfvars
  <2>. QED BY Zenon, <2>1, <2>2, <2>3 DEF ConfigurationNext
<1>. QED BY <1>1, <1>2, ConfigInvHolds, PTL DEF ConfigurationSpec
=============================================================================
