------------------------- MODULE TopicFilterProofs --------------------------
(***************************************************************************)
(* RTI_MQTT_TopicFilter_match, for any levels of filters and topics and    *)
(* any number of them.                                                     *)
(***************************************************************************)
EXTENDS TopicFilter, WellFoundedInduction, TLAPS

\* A set of natural numbers that has an element has a least one.
LEMMA LeastNumber ==
    ASSUME NEW T, T \subseteq Nat, T # {}
    PROVE  \E x \in T : \A y \in T : x <= y
<1>. DEFINE R == {ss \in Nat \X Nat : ss[1] < ss[2]}
<1>1. IsWellFoundedOn(R, Nat)
  BY Zenon, NatLessThanWellFounded DEF OpToRel
<1>. HIDE DEF R
<1>2. PICK x \in T : \A y \in T : ~(<<y, x>> \in R)
  BY Zenon, <1>1, WFMin
<1>3. \A y \in T : ~(y < x)
  BY Zenon, <1>2 DEF R
<1>. QED BY <1>3

-----------------------------------------------------------------------------
(* The strings that match() compares. *)

\* s is made of the first n parts: part k begins at index st[k], and a slash
\* comes after each but the last.
Layout(parts, n, s, st) ==
    /\ st \in [1 .. n -> Nat] /\ st[1] = 0 /\ s \in Seq(Chars)
    /\ Len(s) = st[n] + Len(parts[n])
    /\ \A k \in 1 .. n - 1 : /\ st[k + 1] = st[k] + Len(parts[k]) + 1
                             /\ st[k] + Len(parts[k]) < Len(s)
                             /\ CharAt(s, st[k] + Len(parts[k])) = "/"
    /\ \A k \in 1 .. n : \A o \in 0 .. Len(parts[k]) - 1 :
           st[k] + o < Len(s) /\ CharAt(s, st[k] + o) = parts[k][o + 1]

\* What is joined.
LEMMA Concat ==
    ASSUME NEW C, NEW s \in Seq(C), NEW t \in Seq(C)
    PROVE  /\ s \o t \in Seq(C) /\ Len(s \o t) = Len(s) + Len(t)
           /\ \A i \in 1 .. Len(s) : (s \o t)[i] = s[i]
           /\ \A i \in 1 .. Len(t) : (s \o t)[Len(s) + i] = t[i]
<1>1. s \o t \in Seq(C)
  OBVIOUS
<1>2. Len(s \o t) = Len(s) + Len(t)
  OBVIOUS
<1>3. \A i \in 1 .. Len(s) : (s \o t)[i] = s[i]
  OBVIOUS
<1>4. \A i \in 1 .. Len(t) : (s \o t)[Len(s) + i] = t[i]
  OBVIOUS
<1>. QED BY Zenon, <1>1, <1>2, <1>3, <1>4

\* One part more.
LEMMA LayoutGrows ==
    ASSUME NEW parts \in Seq(Seq(Chars)), NEW n \in 1 .. Len(parts) - 1, NEW s, NEW st,
           Layout(parts, n, s, st)
    PROVE  \E u : Layout(parts, n + 1, s \o <<"/">> \o parts[n + 1], u)
<1>. DEFINE p == parts[n + 1]
            q == s \o <<"/">>
            r == q \o p
            size(k) == Len(parts[k])
            u == [k \in 1 .. n + 1 |-> IF k = n + 1 THEN Len(s) + 1 ELSE st[k]]
<1>0. n \in Nat /\ n >= 1 /\ p \in Seq(Chars) /\ Len(p) \in Nat /\ size(n + 1) = Len(p)
  OBVIOUS
<1>1. \A k \in 1 .. n + 1 : size(k) \in Nat
  OBVIOUS
<1>2. /\ st \in [1 .. n -> Nat] /\ st[1] = 0 /\ s \in Seq(Chars) /\ Len(s) \in Nat
      /\ Len(s) = st[n] + size(n)
  BY DEF Layout
<1>3. /\ q \in Seq(Chars) /\ Len(q) = Len(s) + 1 /\ q[Len(s) + 1] = "/"
      /\ \A i \in 1 .. Len(s) : q[i] = s[i]
  <2>1. "/" \in Chars
    BY Zenon DEF Chars
  <2>. DEFINE slash == <<"/">>
  <2>2. slash \in Seq(Chars) /\ Len(slash) = 1 /\ slash[1] = "/"
    BY <2>1
  <2>3. q = s \o slash
    BY Zenon
  <2>. HIDE DEF q, slash
  <2>4. /\ q \in Seq(Chars) /\ Len(q) = Len(s) + Len(slash)
        /\ \A i \in 1 .. Len(s) : q[i] = s[i]
        /\ \A i \in 1 .. Len(slash) : q[Len(s) + i] = slash[i]
    <3>1. s \in Seq(Chars) /\ slash \in Seq(Chars)
      BY Zenon, <1>2, <2>2
    <3>. QED BY <2>3, <3>1, Concat
  <2>5. q[Len(s) + 1] = "/"
    BY <2>2, <2>4
  <2>. QED BY Zenon, <2>2, <2>4, <2>5
<1>. HIDE DEF p, q
<1>4. /\ r \in Seq(Chars) /\ Len(r) = Len(q) + Len(p)
      /\ \A i \in 1 .. Len(q) : r[i] = q[i]
      /\ \A i \in 1 .. Len(p) : r[Len(q) + i] = p[i]
  <2>1. q \in Seq(Chars) /\ p \in Seq(Chars)
    BY Zenon, <1>0, <1>3
  <2>. QED BY <2>1, Concat
<1>. HIDE DEF r
<1>5. /\ u \in [1 .. n + 1 -> Nat] /\ u[1] = 0 /\ u[n + 1] = Len(s) + 1
      /\ \A k \in 1 .. n : u[k] = st[k]
  <2>1. n \in Nat /\ n >= 1 /\ st \in [1 .. n -> Nat] /\ st[1] = 0 /\ Len(s) + 1 \in Nat
    BY SMTT(30), <1>0, <1>2
  <2>2. u \in [1 .. n + 1 -> Nat]
    BY <2>1
  <2>3. u[1] = 0 /\ u[n + 1] = Len(s) + 1
    BY <2>1
  <2>4. \A k \in 1 .. n : u[k] = st[k]
    BY <2>1
  <2>. QED BY Zenon, <2>2, <2>3, <2>4
<1>. HIDE DEF u, size
<1>6. /\ Len(r) = Len(s) + 1 + Len(p) /\ Len(r) \in Nat
      /\ Len(q) = Len(s) + 1 /\ Len(s) \in Nat /\ Len(p) \in Nat
  BY <1>0, <1>2, <1>3, <1>4
<1>7. ASSUME NEW i \in Nat, i < Len(s)
      PROVE  i < Len(r) /\ CharAt(r, i) = CharAt(s, i)
  <2>1. i + 1 \in 1 .. Len(s) /\ i + 1 \in 1 .. Len(q) /\ i < Len(s) /\ i < Len(r)
    BY <1>6, <1>7
  <2>2. r[i + 1] = s[i + 1]
    BY Zenon, <1>3, <1>4, <2>1
  <2>. QED BY Zenon, <2>1, <2>2 DEF CharAt
<1>8. Len(s) < Len(r) /\ CharAt(r, Len(s)) = "/"
  <2>1. Len(s) + 1 \in 1 .. Len(q) /\ Len(s) < Len(r)
    BY <1>6
  <2>2. r[Len(s) + 1] = "/"
    BY Zenon, <1>3, <1>4, <2>1
  <2>. QED BY Zenon, <2>1, <2>2 DEF CharAt
<1>9. ASSUME NEW k \in 1 .. n
      PROVE  /\ u[k + 1] = u[k] + size(k) + 1
             /\ u[k] + size(k) < Len(r) /\ CharAt(r, u[k] + size(k)) = "/"
  <2>1. CASE k = n
    <3>1. u[k] + size(k) = Len(s) /\ k + 1 = n + 1
      BY Zenon, <1>0, <1>2, <1>5, <2>1
    <3>. QED BY Zenon, <1>0, <1>5, <1>8, <3>1
  <2>2. CASE k # n
    <3>1. k \in 1 .. n - 1 /\ k + 1 \in 1 .. n
      BY <1>0, <2>2
    <3>2. /\ st[k + 1] = st[k] + size(k) + 1
          /\ st[k] + size(k) < Len(s)
          /\ CharAt(s, st[k] + size(k)) = "/"
      BY Zenon, <3>1 DEF Layout, size
    <3>3. st[k] \in Nat /\ size(k) \in Nat
      BY SMTT(30), <1>1, <1>2, <3>1
    <3>4. st[k] + size(k) \in Nat
      BY SMTT(30), <3>3
    <3>. QED BY Zenon, <1>5, <1>7, <3>1, <3>2, <3>4
  <2>. QED BY Zenon, <2>1, <2>2
<1>10. ASSUME NEW k \in 1 .. n + 1, NEW o \in 0 .. size(k) - 1
       PROVE  u[k] + o < Len(r) /\ CharAt(r, u[k] + o) = parts[k][o + 1]
  <2>1. CASE k = n + 1
    <3>1. o + 1 \in 1 .. Len(p) /\ u[k] + o + 1 = Len(q) + (o + 1)
      <4>1. u[k] = Len(s) + 1 /\ size(k) = Len(p)
        BY Zenon, <1>0, <1>5, <2>1
      <4>. QED BY <1>6, <4>1
    <3>2. r[u[k] + o + 1] = p[o + 1]
      BY SMTT(30), <1>4, <3>1
    <3>3. u[k] + o < Len(r)
      <4>1. u[k] = Len(s) + 1
        BY Zenon, <1>5, <2>1
      <4>. QED BY <1>6, <3>1, <4>1
    <3>. QED BY Zenon, <2>1, <3>2, <3>3 DEF CharAt, p
  <2>2. CASE k # n + 1
    <3>1. k \in 1 .. n
      BY <1>0, <2>2
    <3>2. st[k] + o < Len(s) /\ CharAt(s, st[k] + o) = parts[k][o + 1]
      BY Zenon, <3>1 DEF Layout, size
    <3>3. st[k] \in Nat /\ o \in Nat
      BY <1>1, <1>2, <3>1
    <3>4. st[k] + o \in Nat
      BY <3>3
    <3>. QED BY Zenon, <1>5, <1>7, <3>1, <3>2, <3>4
  <2>. QED BY Zenon, <2>1, <2>2
<1>11. Layout(parts, n + 1, r, u)
  <2>1. \A k \in 1 .. (n + 1) - 1 : k \in 1 .. n
    BY <1>0
  <2>2. Len(r) = u[n + 1] + size(n + 1)
    BY Zenon, <1>0, <1>2, <1>5, <1>6
  <2>. QED BY Zenon, <1>4, <1>5, <1>9, <1>10, <2>1, <2>2 DEF Layout, size
<1>. QED BY Zenon, <1>11 DEF r, q, p

\* The first n values of the function that Join computes with.
Joined(parts, f, n) ==
    /\ DOMAIN f = 1 .. n
    /\ \A k \in 1 .. n : f[k] = IF k = 1 THEN parts[1] ELSE f[k - 1] \o <<"/">> \o parts[k]

\* That function exists, so that it satisfies its own equation.
LEMMA JoinedExists ==
    ASSUME NEW parts, NEW n \in Nat
    PROVE  \E f : Joined(parts, f, n)
<1>. DEFINE T == {k \in 0 .. n : ~\E f : Joined(parts, f, k)}
<1>. SUFFICES ASSUME T # {} PROVE FALSE
  OBVIOUS
<1>1. PICK k \in T : \A y \in T : k <= y
  <2>1. T \subseteq Nat
    OBVIOUS
  <2>. QED BY Zenon, <2>1, LeastNumber
<1>2. CASE k = 0
  <2>1. Joined(parts, [i \in 1 .. 0 |-> 0], 0)
    BY DEF Joined
  <2>. QED BY Zenon, <1>2, <2>1
<1>3. CASE k > 0
  <2>0. k \in Nat /\ k - 1 \in 0 .. n /\ k <= n
    BY <1>3
  <2>1. PICK f : Joined(parts, f, k - 1)
    BY <1>1, <2>0
  <2>. DEFINE next == IF k = 1 THEN parts[1] ELSE f[k - 1] \o <<"/">> \o parts[k]
              g == [i \in 1 .. k |-> IF i = k THEN next ELSE f[i]]
  <2>2. DOMAIN g = 1 .. k /\ g[k] = next /\ \A i \in 1 .. k - 1 : g[i] = f[i]
    <3>. HIDE DEF next
    <3>. QED BY <1>3, <2>0
  <2>. HIDE DEF g
  <2>3. ASSUME NEW i \in 1 .. k
        PROVE  g[i] = IF i = 1 THEN parts[1] ELSE g[i - 1] \o <<"/">> \o parts[i]
    <3>1. CASE i = k
      <4>1. k # 1 => g[k - 1] = f[k - 1]
        BY <2>0, <2>2, <1>3
      <4>. QED BY Zenon, <2>2, <3>1, <4>1
    <3>2. CASE i # k
      <4>1. i \in 1 .. k - 1 /\ (i # 1 => i - 1 \in 1 .. k - 1)
        BY <2>0, <3>2
      <4>2. g[i] = f[i] /\ (i # 1 => g[i - 1] = f[i - 1])
        BY Zenon, <2>2, <4>1
      <4>3. f[i] = IF i = 1 THEN parts[1] ELSE f[i - 1] \o <<"/">> \o parts[i]
        BY Zenon, <2>1, <4>1 DEF Joined
      <4>. QED BY Zenon, <4>2, <4>3
    <3>. QED BY Zenon, <3>1, <3>2
  <2>5. Joined(parts, g, k)
    BY Zenon, <2>2, <2>3 DEF Joined
  <2>. QED BY Zenon, <2>5
<1>. QED BY <1>2, <1>3

\* Join computes with it.
LEMMA JoinIs ==
    ASSUME NEW parts, Len(parts) \in Nat
    PROVE  \E f : /\ \A k \in 1 .. Len(parts) :
                         f[k] = IF k = 1 THEN parts[1] ELSE f[k - 1] \o <<"/">> \o parts[k]
                  /\ Join(parts) = f[Len(parts)]
<1>. DEFINE n == Len(parts)
            P(f) == f = [k \in 1 .. n |-> IF k = 1 THEN parts[1]
                                          ELSE f[k - 1] \o <<"/">> \o parts[k]]
            joined == CHOOSE f : P(f)
<1>1. PICK f : Joined(parts, f, n)
  BY Zenon, JoinedExists
<1>. DEFINE h == [k \in 1 .. n |-> f[k]]
<1>2. P(h)
  <2>1. \A k \in 1 .. n : h[k] = IF k = 1 THEN parts[1] ELSE h[k - 1] \o <<"/">> \o parts[k]
    <3>. SUFFICES ASSUME NEW k \in 1 .. n
                  PROVE  h[k] = IF k = 1 THEN parts[1] ELSE h[k - 1] \o <<"/">> \o parts[k]
      BY Zenon
    <3>1. k # 1 => k - 1 \in 1 .. n
      OBVIOUS
    <3>2. h[k] = f[k] /\ (k # 1 => h[k - 1] = f[k - 1])
      BY Zenon, <3>1
    <3>3. f[k] = IF k = 1 THEN parts[1] ELSE f[k - 1] \o <<"/">> \o parts[k]
      BY Zenon, <1>1 DEF Joined
    <3>. HIDE DEF h
    <3>. QED BY Zenon, <3>2, <3>3
  <2>2. h = [k \in 1 .. n |-> h[k]]
    BY Zenon
  <2>. HIDE DEF h
  <2>. QED BY Zenon, <2>1, <2>2
<1>. HIDE DEF h
<1>3. P(joined)
  BY Zenon, <1>2
<1>4. Join(parts) = joined[n]
  BY Zenon DEF Join
<1>. HIDE DEF joined, n
<1>5. \A k \in 1 .. n : joined[k] = IF k = 1 THEN parts[1]
                                    ELSE joined[k - 1] \o <<"/">> \o parts[k]
  BY <1>3, Zenon
<1>. QED BY Zenon, <1>4, <1>5 DEF n

\* Join puts a slash after every part but the last.
LEMMA JoinHasLayout ==
    ASSUME NEW parts \in Seq(Seq(Chars)), Len(parts) >= 1
    PROVE  \E st : Layout(parts, Len(parts), Join(parts), st)
<1>0. Len(parts) \in Nat
  OBVIOUS
<1>1. PICK f : /\ \A k \in 1 .. Len(parts) :
                      f[k] = IF k = 1 THEN parts[1] ELSE f[k - 1] \o <<"/">> \o parts[k]
               /\ Join(parts) = f[Len(parts)]
  BY Zenon, <1>0, JoinIs
<1>. DEFINE T == {k \in 1 .. Len(parts) : ~\E st : Layout(parts, k, f[k], st)}
<1>2. T = {}
  <2>. SUFFICES ASSUME T # {} PROVE FALSE
    BY Zenon
  <2>1. PICK k \in T : \A y \in T : k <= y
    <3>1. T \subseteq Nat
      OBVIOUS
    <3>. QED BY Zenon, <3>1, LeastNumber
  <2>2. k \in 1 .. Len(parts) /\ k \in Nat
    BY <1>0
  <2>3. CASE k = 1
    <3>. DEFINE st == [i \in 1 .. 1 |-> 0]
    <3>1. f[1] = parts[1] /\ parts[1] \in Seq(Chars) /\ Len(parts[1]) \in Nat
      BY <1>0, <1>1, <2>2, <2>3
    <3>2. \A o \in 0 .. Len(f[1]) - 1 : 0 + o < Len(f[1]) /\ CharAt(f[1], 0 + o) = f[1][o + 1]
      BY <3>1 DEF CharAt
    <3>3. st \in [1 .. 1 -> Nat] /\ st[1] = 0
      OBVIOUS
    <3>. HIDE DEF st
    <3>4. Layout(parts, 1, f[1], st)
      BY <3>1, <3>2, <3>3 DEF Layout
    <3>. QED BY Zenon, <2>3, <3>4
  <2>4. CASE k # 1
    <3>1. k - 1 \in 1 .. Len(parts) /\ k - 1 \in 1 .. Len(parts) - 1 /\ (k - 1) + 1 = k /\ ~(k <= k - 1)
      BY <1>0, <2>2, <2>4
    <3>2. k - 1 \notin T
      BY Zenon, <2>1, <3>1
    <3>3. PICK st : Layout(parts, k - 1, f[k - 1], st)
      BY Zenon, <3>1, <3>2
    <3>4. f[k] = f[k - 1] \o <<"/">> \o parts[k]
      BY Zenon, <1>1, <2>2, <2>4
    <3>5. \E u : Layout(parts, (k - 1) + 1, f[k - 1] \o <<"/">> \o parts[(k - 1) + 1], u)
      BY Zenon, <3>1, <3>3, LayoutGrows
    <3>. QED BY Zenon, <3>1, <3>4, <3>5
  <2>. QED BY Zenon, <2>3, <2>4
<1>. QED BY SMTT(30), <1>0, <1>1, <1>2

\* Levels: at least one, and none with a slash or NUL in it.
AreLevels(parts) ==
    /\ parts \in Seq(Seq(Chars)) /\ Len(parts) >= 1
    /\ \A k \in 1 .. Len(parts) : \A i \in 1 .. Len(parts[k]) : parts[k][i] \notin {"/", NUL}

\* The character at offset o of level k, which may be the end of the level.
LEMMA CharOfLevel ==
    ASSUME NEW parts, AreLevels(parts), NEW s, NEW st, Layout(parts, Len(parts), s, st),
           NEW k \in 1 .. Len(parts), NEW o \in 0 .. Len(parts[k])
    PROVE  /\ st[k] + o \in Nat /\ st[k] + o <= Len(s)
           /\ st[k] + o = Len(s) <=> k = Len(parts) /\ o = Len(parts[k])
           /\ o < Len(parts[k]) => CharAt(s, st[k] + o) = parts[k][o + 1]
           /\ o = Len(parts[k]) /\ k < Len(parts) => CharAt(s, st[k] + o) = "/"
           /\ o = Len(parts[k]) /\ k = Len(parts) => CharAt(s, st[k] + o) = NUL
<1>. DEFINE n == Len(parts)
            l == Len(parts[k])
<1>1. n \in Nat /\ l \in Nat /\ k \in Nat /\ o \in Nat /\ k <= n /\ o <= l
  <2>1. n \in Nat /\ parts[k] \in Seq(Chars)
    BY DEF AreLevels
  <2>2. l \in Nat
    BY <2>1
  <2>. HIDE DEF n, l
  <2>3. k \in 1 .. n /\ o \in 0 .. l
    BY Zenon DEF n, l
  <2>. QED BY <2>1, <2>2, <2>3
<1>2. st[k] \in Nat /\ Len(s) \in Nat
  <2>1. st \in [1 .. n -> Nat] /\ s \in Seq(Chars)
    BY Zenon DEF Layout
  <2>. QED BY <2>1
<1>3. CASE o < l
  <2>1. o \in 0 .. l - 1
    BY <1>1, <1>3
  <2>2. st[k] + o < Len(s) /\ CharAt(s, st[k] + o) = parts[k][o + 1]
    BY Zenon, <2>1 DEF Layout
  <2>. HIDE DEF n, l
  <2>3. st[k] + o \in Nat /\ st[k] + o <= Len(s) /\ st[k] + o # Len(s) /\ o # l
    BY SMTT(30), <1>1, <1>2, <1>3, <2>2
  <2>. QED BY Zenon, <2>2, <2>3 DEF l
<1>4. CASE o = l /\ k < n
  <2>1. k \in 1 .. n - 1
    BY <1>1, <1>4
  <2>2. st[k] + l < Len(s) /\ CharAt(s, st[k] + l) = "/"
    BY Zenon, <2>1 DEF Layout
  <2>. HIDE DEF n, l
  <2>3. /\ st[k] + o \in Nat /\ st[k] + o <= Len(s) /\ st[k] + o # Len(s) /\ k # n
        /\ ~(o < l)
    BY <1>1, <1>2, <1>4, <2>2
  <2>. QED BY Zenon, <1>4, <2>2, <2>3 DEF l, n
<1>5. CASE o = l /\ k = n
  <2>1. st[k] + o = Len(s)
    BY Zenon, <1>5 DEF Layout
  <2>2. CharAt(s, st[k] + o) = NUL
    BY <1>2, <2>1 DEF CharAt
  <2>. HIDE DEF n, l
  <2>3. st[k] + o \in Nat /\ st[k] + o <= Len(s) /\ ~(o < l) /\ ~(k < n)
    BY <1>1, <1>2, <1>5, <2>1
  <2>. QED BY Zenon, <1>5, <2>1, <2>2, <2>3 DEF l, n
<1>. QED BY <1>1, <1>3, <1>4, <1>5

\* The next level begins after a slash.
LEMMA NextLevel ==
    ASSUME NEW parts, AreLevels(parts), NEW s, NEW st, Layout(parts, Len(parts), s, st),
           NEW k \in 1 .. Len(parts), k < Len(parts)
    PROVE  k + 1 \in 1 .. Len(parts) /\ st[k + 1] = st[k] + Len(parts[k]) + 1
<1>1. Len(parts) \in Nat
  BY DEF AreLevels
<1>2. k \in 1 .. Len(parts) - 1 /\ k + 1 \in 1 .. Len(parts)
  BY <1>1
<1>. QED BY Zenon, <1>2 DEF Layout

\* The scan for a slash from the start of a level stops at the level's end.
LEMMA SlashEndsLevel ==
    ASSUME NEW parts, AreLevels(parts), NEW st, Layout(parts, Len(parts), value, st),
           NEW k \in 1 .. Len(parts)
    PROVE  SlashFrom(st[k], Len(value)) = st[k] + Len(parts[k])
<1>. DEFINE a == st[k]
            e == st[k] + Len(parts[k])
            last == Len(value)
            Is(j) == /\ j = last \/ CharAt(value, j) = "/"
                     /\ \A i \in a .. j - 1 : CharAt(value, i) # "/"
<1>1. /\ Len(parts) \in Nat /\ Len(parts[k]) \in Nat /\ a \in Nat /\ last \in Nat
      /\ k \in Nat /\ k <= Len(parts)
  BY DEF AreLevels, Layout
<1>2. e \in Nat /\ e <= last /\ (e = last \/ CharAt(value, e) = "/")
  <2>1. Len(parts[k]) \in 0 .. Len(parts[k]) /\ (k = Len(parts) \/ k < Len(parts))
    BY <1>1
  <2>. QED BY <2>1, CharOfLevel
<1>3. ASSUME NEW i \in a .. e - 1
      PROVE  CharAt(value, i) # "/"
  <2>. DEFINE o == i - a
              l == Len(parts[k])
  <2>1. o \in 0 .. l /\ o < l /\ a + o = i /\ o + 1 \in 1 .. l
    <3>1. a \in Nat /\ l \in Nat /\ i \in a .. (a + l) - 1
      BY Zenon, <1>1
    <3>. HIDE DEF a, l
    <3>. QED BY <3>1
  <2>. HIDE DEF o
  <2>2. CharAt(value, a + o) = parts[k][o + 1]
    BY <2>1, CharOfLevel
  <2>3. parts[k][o + 1] # "/"
    BY Zenon, <2>1 DEF AreLevels
  <2>. QED BY Zenon, <2>1, <2>2, <2>3
<1>4. e \in a .. last /\ Is(e)
  BY <1>1, <1>2, <1>3
<1>5. ASSUME NEW j \in a .. last, Is(j) PROVE j = e
  <2>1. CASE j < e
    <3>1. j \in a .. e - 1 /\ j # last
      BY <1>1, <1>2, <2>1
    <3>. QED BY Zenon, <1>3, <1>5, <3>1
  <2>2. CASE j > e
    <3>1. e \in a .. j - 1 /\ e # last
      BY <1>1, <1>2, <2>2
    <3>. QED BY Zenon, <1>2, <1>5, <3>1
  <2>3. j \in Nat
    BY <1>1
  <2>. HIDE DEF e
  <2>. QED BY <1>2, <2>1, <2>2, <2>3
<1>6. SlashFrom(a, last) = CHOOSE j \in a .. last : Is(j)
  BY Zenon DEF SlashFrom
<1>. HIDE DEF a, e, last, Is
<1>7. (CHOOSE j \in a .. last : Is(j)) = e
  BY Zenon, <1>4, <1>5
<1>. QED BY Zenon, <1>6, <1>7 DEF a, e, last

-----------------------------------------------------------------------------
(* MatchesAreFound and MatchesAreJustified.  While the loop runs, both     *)
(* indices are at the same offset of the same level, the levels before are *)
(* covered and the characters of this one agree; what the loop leaves      *)
(* decides the outcome.  Levels are only found again in the strings        *)
(* because they have no slash, which is where joining them comes in.       *)

Wanted == levels.filter
Given == levels.topic

\* The loop has compared the levels before level k, and o characters of it.
Aligned(fs, vs, k, o) ==
    /\ k \in 1 .. Len(Wanted) /\ k \in 1 .. Len(Given)
    /\ o \in 0 .. Len(Wanted[k]) /\ o \in 0 .. Len(Given[k])
    /\ f_i = fs[k] + o /\ v_i = vs[k] + o
    /\ \A i \in 1 .. k - 1 : Covers(Wanted[i], Given[i])
    /\ \A i \in 1 .. o : Wanted[k][i] = Given[k][i]
    /\ o # 0 => Wanted[k] # AnyLevel /\ Wanted[k] # AllLevels

\* What MatchesAreFound and MatchesAreJustified want of an outcome.
Excused == PlusMeetsLastLevel \/ ~MqttMatches(Wanted, Given)
Justified ==
    \E k \in 1 .. Len(Wanted) :
        \/ MqttMatches(SubSeq(Wanted, 1, k), Given)
        \/ /\ Len(Given) = k
           /\ \A i \in 1 .. k - 1 : Covers(Wanted[i], Given[i])
           /\ StartsWith(Wanted[k], Given[k])

\* Where the loop is, or how it ended.
Progress(fs, vs) ==
    \/ /\ outcome = "running" /\ match = TRUE /\ match_done = FALSE
       /\ \E k, o \in Nat : Aligned(fs, vs, k, o)
    \/ /\ outcome = "running" /\ match = TRUE /\ match_done = TRUE /\ v_i = Len(value)
       /\ MqttMatches(Wanted, Given)
    \/ /\ outcome = "running" /\ Excused
       /\ match = FALSE \/ (match_done = TRUE /\ v_i # Len(value))
    \/ outcome = "match" /\ Justified
    \/ outcome = "no match" /\ Excused

\* Where the levels begin in the two strings.
Strings(fs, vs) ==
    /\ Layout(Wanted, Len(Wanted), filter, fs)
    /\ Layout(Given, Len(Given), value, vs)

\* The inductive invariant.
TopicInv ==
    /\ levels \in [filter : Filters, topic : Topics]
    /\ WellFormed => \E fs, vs : Strings(fs, vs) /\ Progress(fs, vs)

\* Filters and topics are made of levels.
LEMMA LevelsAre ==
    ASSUME levels \in [filter : Filters, topic : Topics]
    PROVE  AreLevels(Wanted) /\ AreLevels(Given)
<1>1. ASSUME NEW L, L \subseteq FilterLevels \cup TopicLevels, NEW n \in 1 .. MaxLevels,
             NEW parts \in [1 .. n -> L]
      PROVE  AreLevels(parts)
  <2>1. n \in Nat /\ n >= 1
    BY MaxLevelsAssumption
  <2>2. \A k \in 1 .. n : parts[k] \in Seq(Chars) /\ Range(parts[k]) \cap {"/", NUL} = {}
    BY Zenon, <1>1, LevelAssumption DEF NUL
  <2>3. parts \in [1 .. n -> Seq(Chars)]
    BY Zenon, <2>2
  <2>4. parts \in Seq(Seq(Chars)) /\ Len(parts) = n
    BY <2>1, <2>3
  <2>5. ASSUME NEW k \in 1 .. n, NEW i \in 1 .. Len(parts[k])
        PROVE  parts[k][i] \notin {"/", NUL}
    <3>1. parts[k][i] \in Range(parts[k])
      BY <2>2 DEF Range
    <3>. QED BY Zenon, <2>2, <3>1
  <2>. QED BY Zenon, <2>1, <2>4, <2>5 DEF AreLevels
<1>2. PICK n \in 1 .. MaxLevels : Wanted \in [1 .. n -> FilterLevels]
  BY Zenon DEF Filters, Wanted
<1>3. PICK m \in 1 .. MaxLevels : Given \in [1 .. m -> TopicLevels]
  BY Zenon DEF Topics, Given
<1>. QED BY Zenon, <1>1, <1>2, <1>3

\* A level of a well-formed filter.
LEMMA FilterLevel ==
    ASSUME WellFormed, AreLevels(Wanted), NEW k \in 1 .. Len(Wanted)
    PROVE  \/ Wanted[k] = AnyLevel /\ Len(Wanted[k]) = 1 /\ Wanted[k][1] = "+"
           \/ /\ Wanted[k] = AllLevels /\ Len(Wanted[k]) = 1 /\ Wanted[k][1] = "#"
              /\ k = Len(Wanted) /\ Wanted[k] # AnyLevel
           \/ /\ Wanted[k] # AnyLevel /\ Wanted[k] # AllLevels /\ Len(Wanted[k]) # 0
              /\ \A i \in 1 .. Len(Wanted[k]) : Wanted[k][i] \notin {"+", "#", "/", NUL}
<1>. DEFINE w == Wanted[k]
<1>1. w \in Seq(Chars) /\ \A i \in 1 .. Len(w) : w[i] \notin {"/", NUL}
  BY DEF AreLevels
<1>2. \/ w = AnyLevel
      \/ w = AllLevels /\ k = Len(Wanted)
      \/ w # <<>> /\ Range(w) \cap {"+", "#"} = {}
  BY Zenon DEF WellFormed, Wanted
<1>3. AnyLevel # AllLevels
  BY Zenon DEF AnyLevel, AllLevels
<1>4. CASE w = AnyLevel
  BY <1>4 DEF AnyLevel
<1>5. CASE w = AllLevels /\ k = Len(Wanted)
  BY <1>3, <1>5 DEF AllLevels
<1>6. CASE w # <<>> /\ Range(w) \cap {"+", "#"} = {}
  <2>1. \A i \in 1 .. Len(w) : w[i] \in Range(w)
    BY <1>1 DEF Range
  <2>2. \A i \in 1 .. Len(w) : w[i] \notin {"+", "#", "/", NUL}
    BY Zenon, <1>1, <1>6, <2>1
  <2>3. Len(w) # 0
    BY <1>1, <1>6
  <2>4. 1 \in 1 .. Len(w)
    BY <1>1, <2>3
  <2>5. w[1] # "+" /\ w[1] # "#"
    BY Zenon, <2>2, <2>4
  <2>6. w # AnyLevel /\ w # AllLevels
    BY <2>5 DEF AnyLevel, AllLevels
  <2>. QED BY Zenon, <2>2, <2>3, <2>6
<1>. QED BY Zenon, <1>2, <1>4, <1>5, <1>6

\* A level of the topic has a character, and is no wildcard's.
LEMMA TopicLevel ==
    ASSUME WellFormed, AreLevels(Given), NEW k \in 1 .. Len(Given)
    PROVE  /\ Given[k] \in Seq(Chars) /\ Len(Given[k]) \in Nat /\ Len(Given[k]) >= 1
           /\ \A i \in 1 .. Len(Given[k]) : Given[k][i] \notin {"/", NUL}
<1>1. Given[k] \in Seq(Chars) /\ Given[k] # <<>>
  BY DEF AreLevels, WellFormed, Given
<1>2. Len(Given[k]) \in Nat /\ Len(Given[k]) >= 1
  BY <1>1
<1>. QED BY Zenon, <1>1, <1>2 DEF AreLevels

\* A step of the loop changes neither string.
LEMMA StringsStay ==
    ASSUME levels' = levels, filter' = filter, value' = value, NEW fs, NEW vs
    PROVE  /\ Wanted' = Wanted /\ Given' = Given
           /\ WellFormed' <=> WellFormed
           /\ Excused' <=> Excused
           /\ Justified' <=> Justified
           /\ Strings(fs, vs)' <=> Strings(fs, vs)
<1>1. Wanted' = Wanted /\ Given' = Given
  BY Zenon DEF Wanted, Given
<1>2. WellFormed' <=> WellFormed
  BY Zenon DEF WellFormed
<1>3. Excused' <=> Excused
  BY Zenon, <1>1 DEF Excused, PlusMeetsLastLevel
<1>4. Justified' <=> Justified
  BY Zenon, <1>1 DEF Justified
<1>5. Strings(fs, vs)' <=> Strings(fs, vs)
  BY Zenon, <1>1 DEF Strings
<1>. QED BY Zenon, <1>1, <1>2, <1>3, <1>4, <1>5

\* A level that is not covered by the filter's: the topic does not match.
LEMMA NotCovered ==
    ASSUME AreLevels(Wanted), NEW k \in 1 .. Len(Wanted),
           Wanted[k] # AnyLevel, Wanted[k] # AllLevels, Wanted[k] # Given[k]
    PROVE  Excused
<1>. DEFINE n == Len(Wanted)
<1>1. n \in Nat /\ ~Covers(Wanted[k], Given[k])
  BY DEF AreLevels, Covers
<1>2. CASE Wanted[n] = AllLevels
  <2>1. k \in 1 .. n - 1
    BY <1>1, <1>2
  <2>. QED BY Zenon, <1>1, <1>2, <2>1 DEF Excused, MqttMatches
<1>3. CASE Wanted[n] # AllLevels
  BY Zenon, <1>1, <1>3 DEF Excused, MqttMatches
<1>. QED BY Zenon, <1>2, <1>3

\* The next two characters and where the indices are.
LEMMA Here ==
    ASSUME WellFormed, AreLevels(Wanted), AreLevels(Given), NEW fs, NEW vs, Strings(fs, vs),
           NEW k \in Nat, NEW o \in Nat, Aligned(fs, vs, k, o)
    PROVE  /\ k \in 1 .. Len(Wanted) /\ k \in 1 .. Len(Given) /\ o \in 0 .. Len(Given[k])
           /\ Len(Wanted[k]) \in Nat /\ Len(Given[k]) \in Nat /\ Len(Given[k]) >= 1
           /\ o <= Len(Wanted[k]) /\ o <= Len(Given[k])
           /\ f_i \in Nat /\ v_i \in Nat /\ f_i <= Len(filter) /\ v_i <= Len(value)
           /\ f_i = Len(filter) <=> k = Len(Wanted) /\ o = Len(Wanted[k])
           /\ v_i = Len(value) <=> k = Len(Given) /\ o = Len(Given[k])
           /\ o < Len(Wanted[k]) => CharAt(filter, f_i) = Wanted[k][o + 1]
           /\ o = Len(Wanted[k]) /\ k < Len(Wanted) => CharAt(filter, f_i) = "/"
           /\ o < Len(Given[k]) => CharAt(value, v_i) = Given[k][o + 1]
           /\ o = Len(Given[k]) /\ k < Len(Given) => CharAt(value, v_i) = "/"
           /\ o = Len(Given[k]) /\ k = Len(Given) => CharAt(value, v_i) = NUL
<1>1. /\ k \in 1 .. Len(Wanted) /\ k \in 1 .. Len(Given)
      /\ o \in 0 .. Len(Wanted[k]) /\ o \in 0 .. Len(Given[k])
      /\ f_i = fs[k] + o /\ v_i = vs[k] + o
  BY Zenon DEF Aligned
<1>2. Len(Wanted[k]) \in Nat /\ Len(Given[k]) \in Nat /\ Len(Given[k]) >= 1
  <2>1. Wanted[k] \in Seq(Chars)
    BY <1>1 DEF AreLevels
  <2>2. Len(Wanted[k]) \in Nat
    BY <2>1
  <2>3. Len(Given[k]) \in Nat /\ Len(Given[k]) >= 1
    BY Zenon, <1>1, TopicLevel
  <2>. QED BY Zenon, <2>2, <2>3
<1>3. o <= Len(Wanted[k]) /\ o <= Len(Given[k])
  BY <1>1, <1>2
<1>4. Layout(Wanted, Len(Wanted), filter, fs) /\ Layout(Given, Len(Given), value, vs)
  BY Zenon DEF Strings
<1>5. /\ f_i \in Nat /\ f_i <= Len(filter)
      /\ f_i = Len(filter) <=> k = Len(Wanted) /\ o = Len(Wanted[k])
      /\ o < Len(Wanted[k]) => CharAt(filter, f_i) = Wanted[k][o + 1]
      /\ o = Len(Wanted[k]) /\ k < Len(Wanted) => CharAt(filter, f_i) = "/"
  BY SMTT(30), <1>1, <1>4, CharOfLevel
<1>6. /\ v_i \in Nat /\ v_i <= Len(value)
      /\ v_i = Len(value) <=> k = Len(Given) /\ o = Len(Given[k])
      /\ o < Len(Given[k]) => CharAt(value, v_i) = Given[k][o + 1]
      /\ o = Len(Given[k]) /\ k < Len(Given) => CharAt(value, v_i) = "/"
      /\ o = Len(Given[k]) /\ k = Len(Given) => CharAt(value, v_i) = NUL
  BY SMTT(30), <1>1, <1>4, CharOfLevel
<1>. QED BY Zenon, <1>1, <1>2, <1>3, <1>5, <1>6

\* Both strings continue with the next level.
LEMMA AlignedNext ==
    ASSUME WellFormed, AreLevels(Wanted), AreLevels(Given), NEW fs, NEW vs, Strings(fs, vs),
           NEW k \in Nat, NEW o \in Nat, Aligned(fs, vs, k, o), Covers(Wanted[k], Given[k]),
           k < Len(Wanted), k < Len(Given),
           levels' = levels,
           f_i' = fs[k] + Len(Wanted[k]) + 1, v_i' = vs[k] + Len(Given[k]) + 1
    PROVE  Aligned(fs, vs, k + 1, 0)'
<1>1. Wanted' = Wanted /\ Given' = Given
  BY Zenon DEF Wanted, Given
<1>2. /\ k \in 1 .. Len(Wanted) /\ k \in 1 .. Len(Given)
      /\ \A i \in 1 .. k - 1 : Covers(Wanted[i], Given[i])
  BY Zenon DEF Aligned
<1>3. Layout(Wanted, Len(Wanted), filter, fs) /\ Layout(Given, Len(Given), value, vs)
  BY Zenon DEF Strings
<1>4. k + 1 \in 1 .. Len(Wanted) /\ fs[k + 1] = fs[k] + Len(Wanted[k]) + 1
  BY <1>2, <1>3, NextLevel
<1>5. k + 1 \in 1 .. Len(Given) /\ vs[k + 1] = vs[k] + Len(Given[k]) + 1
  BY <1>2, <1>3, NextLevel
<1>6. \A i \in 1 .. (k + 1) - 1 : Covers(Wanted[i], Given[i])
  <2>1. \A i \in 1 .. (k + 1) - 1 : i \in 1 .. k - 1 \/ i = k
    OBVIOUS
  <2>. QED BY Zenon, <1>2, <2>1
<1>7. fs[k + 1] + 0 = fs[k + 1] /\ vs[k + 1] + 0 = vs[k + 1]
  <2>1. fs[k + 1] \in Nat /\ vs[k + 1] \in Nat
    BY Zenon, <1>3, <1>4, <1>5 DEF Layout
  <2>. QED BY SMTT(30), <2>1
<1>8. 0 \in 0 .. Len(Wanted[k + 1]) /\ 0 \in 0 .. Len(Given[k + 1])
  <2>1. Wanted[k + 1] \in Seq(Chars) /\ Given[k + 1] \in Seq(Chars)
    BY SMTT(30), <1>4, <1>5 DEF AreLevels
  <2>. QED BY SMTT(30), <2>1
<1>9. \A i \in 1 .. 0 : Wanted[k + 1][i] = Given[k + 1][i]
  OBVIOUS
<1>. QED BY Zenon, <1>1, <1>4, <1>5, <1>6, <1>7, <1>8, <1>9 DEF Aligned

\* A character of the filter is compared with one of the topic.
LEMMA LiteralProgresses ==
    ASSUME WellFormed, AreLevels(Wanted), AreLevels(Given), NEW fs, NEW vs, Strings(fs, vs),
           NEW k \in Nat, NEW o \in Nat, Aligned(fs, vs, k, o), Literal
    PROVE  Progress(fs, vs)'
<1>. DEFINE w == Wanted[k]
            g == Given[k]
            c == CharAt(filter, f_i)
            d == CharAt(value, v_i)
<1>1. /\ outcome' = "running" /\ f_i' = f_i + 1 /\ v_i' = v_i + 1
      /\ match' = (c = d) /\ match_done' = ~(c = d)
      /\ f_i < Len(filter) /\ v_i < Len(value) /\ c \notin {"#", "+"}
      /\ levels' = levels /\ filter' = filter /\ value' = value
  BY Zenon DEF Literal, Iterate, InLoop
<1>2. Wanted' = Wanted /\ Given' = Given /\ (Excused' <=> Excused)
  BY Zenon, <1>1, StringsStay
<1>3. /\ k \in 1 .. Len(Wanted) /\ k \in 1 .. Len(Given)
      /\ Len(w) \in Nat /\ Len(g) \in Nat /\ o <= Len(w) /\ o <= Len(g)
      /\ f_i \in Nat /\ v_i \in Nat /\ Len(filter) # f_i /\ Len(value) # v_i
  BY SMTT(30), <1>1, Here
<1>4. /\ f_i = Len(filter) <=> k = Len(Wanted) /\ o = Len(w)
      /\ v_i = Len(value) <=> k = Len(Given) /\ o = Len(g)
      /\ o < Len(w) => c = w[o + 1]
      /\ o = Len(w) /\ k < Len(Wanted) => c = "/"
      /\ o < Len(g) => d = g[o + 1]
      /\ o = Len(g) /\ k < Len(Given) => d = "/"
  BY SMTT(30), Here
<1>5. Len(Wanted) \in Nat /\ Len(Given) \in Nat
  BY DEF AreLevels
<1>6. k <= Len(Wanted) /\ k <= Len(Given)
  BY <1>3, <1>5
<1>7. /\ w # AnyLevel /\ w # AllLevels
      /\ \A i \in 1 .. Len(w) : w[i] \notin {"+", "#", "/", NUL}
  <2>1. CASE o # 0
    <3>1. w # AnyLevel /\ w # AllLevels
      BY Zenon, <2>1 DEF Aligned
    <3>. QED BY Zenon, <1>3, <3>1, FilterLevel
  <2>2. CASE o = 0
    <3>1. Len(w) = 1 => c = w[1]
      BY <1>4, <2>2
    <3>. QED BY Zenon, <1>1, <1>3, <3>1, FilterLevel
  <2>. QED BY Zenon, <2>1, <2>2
<1>8. \A i \in 1 .. Len(g) : g[i] \notin {"/", NUL}
  BY Zenon, <1>3, TopicLevel
<1>. HIDE DEF w, g, c, d
<1>9. CASE c # d
  <2>1. w # g
    <3>. SUFFICES ASSUME w = g PROVE FALSE
      BY Zenon
    <3>1. CASE o < Len(w)
      BY Zenon, <1>4, <1>9, <3>1
    <3>2. CASE o = Len(w)
      <4>1. k # Len(Wanted) /\ k # Len(Given)
        BY Zenon, <1>3, <1>4, <3>2
      <4>2. k < Len(Wanted) /\ k < Len(Given)
        BY <1>5, <1>6, <4>1
      <4>. QED BY Zenon, <1>4, <1>9, <3>2, <4>2
    <3>. QED BY <1>3, <3>1, <3>2
  <2>2. Excused
    BY Zenon, <1>3, <1>7, <2>1, NotCovered DEF w, g
  <2>. QED BY Zenon, <1>1, <1>2, <1>9, <2>2 DEF Progress
<1>10. CASE c = d
  <2>1. \E j, p \in Nat : Aligned(fs, vs, j, p)'
    <3>1. CASE o < Len(w)
      <4>1. c \notin {"/", NUL} /\ o + 1 \in 1 .. Len(w) /\ o + 1 \in Nat /\ c = w[o + 1]
        <5>1. o + 1 \in 1 .. Len(w)
          BY <1>3, <3>1
        <5>. QED BY <1>4, <1>7, <3>1, <5>1
      <4>2. o < Len(g)
        <5>. SUFFICES ASSUME o = Len(g) PROVE FALSE
          BY <1>3
        <5>1. k # Len(Given)
          BY Zenon, <1>3, <1>4
        <5>2. k < Len(Given)
          BY <1>5, <1>6, <5>1
        <5>. QED BY Zenon, <1>4, <1>10, <4>1, <5>2
      <4>3. o + 1 \in 0 .. Len(w) /\ o + 1 \in 0 .. Len(g) /\ o + 1 # 0
        BY <1>3, <3>1, <4>2
      <4>4. w[o + 1] = g[o + 1]
        BY Zenon, <1>4, <1>10, <4>1, <4>2
      <4>5. \A i \in 1 .. o + 1 : w[i] = g[i]
        <5>1. \A i \in 1 .. o : w[i] = g[i]
          BY Zenon DEF Aligned, w, g
        <5>2. \A i \in 1 .. o + 1 : i \in 1 .. o \/ i = o + 1
          OBVIOUS
        <5>. QED BY Zenon, <4>4, <5>1, <5>2
      <4>6. f_i' = fs[k] + (o + 1) /\ v_i' = vs[k] + (o + 1)
        <5>1. f_i = fs[k] + o /\ v_i = vs[k] + o
          BY Zenon DEF Aligned
        <5>2. fs[k] \in Nat /\ vs[k] \in Nat
          BY Zenon, <1>3 DEF Strings, Layout
        <5>3. f_i' = f_i + 1 /\ v_i' = v_i + 1
          BY Zenon, <1>1
        <5>. QED BY <5>1, <5>2, <5>3
      <4>7. \A i \in 1 .. k - 1 : Covers(Wanted[i], Given[i])
        BY Zenon DEF Aligned
      <4>8. Aligned(fs, vs, k, o + 1)'
        BY Zenon, <1>2, <1>3, <1>7, <4>3, <4>5, <4>6, <4>7 DEF Aligned, w, g
      <4>. QED BY Zenon, <4>1, <4>8
    <3>2. CASE o = Len(w)
      <4>1. k # Len(Wanted)
        BY Zenon, <1>3, <1>4, <3>2
      <4>2. k < Len(Wanted) /\ c = "/"
        BY <1>4, <1>5, <1>6, <3>2, <4>1
      <4>3. o = Len(g)
        <5>. SUFFICES ASSUME o < Len(g) PROVE FALSE
          BY <1>3
        <5>1. o + 1 \in 1 .. Len(g)
          BY <1>3
        <5>. QED BY Zenon, <1>4, <1>8, <1>10, <4>2, <5>1
      <4>4. k # Len(Given)
        BY Zenon, <1>3, <1>4, <4>3
      <4>5. k < Len(Given)
        BY <1>5, <1>6, <4>4
      <4>6. w = g
        <5>1. w \in Seq(Chars) /\ g \in Seq(Chars) /\ Len(w) = Len(g)
          BY <1>3, <3>2, <4>3 DEF AreLevels, w, g
        <5>2. \A i \in 1 .. Len(w) : w[i] = g[i]
          BY Zenon, <3>2 DEF Aligned, w, g
        <5>. QED BY <5>1, <5>2
      <4>7. f_i' = fs[k] + Len(w) + 1 /\ v_i' = vs[k] + Len(g) + 1
        BY Zenon, <1>1, <3>2, <4>3 DEF Aligned
      <4>8. Aligned(fs, vs, k + 1, 0)'
        BY Zenon, <1>1, <4>2, <4>5, <4>6, <4>7, AlignedNext DEF Covers, w, g
      <4>. QED BY <4>8
    <3>. QED BY <1>3, <3>1, <3>2
  <2>. QED BY Zenon, <1>1, <1>10, <2>1 DEF Progress
<1>. QED BY Zenon, <1>9, <1>10

\* What comes after a level of the filter.
LEMMA AfterLevel ==
    ASSUME AreLevels(Wanted), NEW fs, NEW vs, Strings(fs, vs), NEW k \in 1 .. Len(Wanted)
    PROVE  /\ k < Len(Wanted) => CharAt(filter, fs[k] + Len(Wanted[k])) = "/"
           /\ k = Len(Wanted) => CharAt(filter, fs[k] + Len(Wanted[k])) = NUL
<1>1. Layout(Wanted, Len(Wanted), filter, fs)
  BY Zenon DEF Strings
<1>2. Wanted[k] \in Seq(Chars)
  BY DEF AreLevels
<1>3. Len(Wanted[k]) \in 0 .. Len(Wanted[k])
  BY <1>2
<1>. QED BY SMTT(30), <1>1, <1>3, CharOfLevel

\* The wildcard '#' is the filter's last level: the rest of the topic matches.
LEMMA HashProgresses ==
    ASSUME WellFormed, AreLevels(Wanted), AreLevels(Given), NEW fs, NEW vs, Strings(fs, vs),
           NEW k \in Nat, NEW o \in Nat, Aligned(fs, vs, k, o), match = TRUE, Hash
    PROVE  Progress(fs, vs)'
<1>. DEFINE w == Wanted[k]
            g == Given[k]
            c == CharAt(filter, f_i)
<1>1. c = "#" /\ f_i < Len(filter) /\ v_i < Len(value)
  BY Zenon DEF Hash, InLoop
<1>2. /\ k \in 1 .. Len(Wanted) /\ k \in 1 .. Len(Given)
      /\ Len(w) \in Nat /\ Len(g) \in Nat /\ Len(g) >= 1 /\ o <= Len(w) /\ o <= Len(g)
      /\ f_i \in Nat /\ v_i \in Nat
      /\ o < Len(w) => c = w[o + 1]
      /\ o = Len(w) /\ k < Len(Wanted) => c = "/"
      /\ o < Len(g) => CharAt(value, v_i) = g[o + 1]
  BY Here
<1>3. f_i = Len(filter) <=> k = Len(Wanted) /\ o = Len(w)
  BY Here
<1>4. Len(Wanted) \in Nat /\ Len(Given) \in Nat /\ k <= Len(Wanted) /\ k <= Len(Given)
  BY <1>2 DEF AreLevels
<1>5. o < Len(w)
  <2>. SUFFICES ASSUME o = Len(w) PROVE FALSE
    BY <1>2
  <2>1. k # Len(Wanted)
    BY <1>1, <1>2, <1>3
  <2>2. k < Len(Wanted)
    BY <1>4, <2>1
  <2>. QED BY Zenon, <1>1, <1>2, <2>2
<1>6. o + 1 \in 1 .. Len(w) /\ w[o + 1] = "#"
  BY SMTT(30), <1>1, <1>2, <1>5
<1>7. w = AllLevels /\ k = Len(Wanted) /\ Len(w) = 1
  <2>1. w[1] = "+" /\ Len(w) = 1 => w[o + 1] # "#"
    BY <1>2, <1>5
  <2>. QED BY Zenon, <1>2, <1>6, <2>1, FilterLevel
<1>8. o = 0 /\ f_i = fs[k] /\ v_i = vs[k] /\ fs[k] \in Nat /\ vs[k] \in Nat
  <2>0. Len(w) = 1
    BY Zenon, <1>7
  <2>1. o = 0
    BY <1>5, <2>0
  <2>2. fs[k] \in Nat /\ vs[k] \in Nat
    BY Zenon, <1>2 DEF Strings, Layout
  <2>. QED BY <2>1, <2>2 DEF Aligned
<1>9. CharAt(filter, f_i + 1) = NUL
  <2>0. Len(w) = 1 /\ k = Len(Wanted)
    BY Zenon, <1>7
  <2>1. f_i + 1 = fs[k] + Len(w)
    BY Zenon, <1>2, <1>8, <2>0
  <2>2. /\ k < Len(Wanted) => CharAt(filter, fs[k] + Len(w)) = "/"
        /\ k = Len(Wanted) => CharAt(filter, fs[k] + Len(w)) = NUL
    BY Zenon, <1>2, AfterLevel
  <2>. QED BY Zenon, <2>0, <2>1, <2>2
<1>10. CharAt(value, v_i) # "/"
  <2>1. CharAt(value, v_i) = g[1] /\ 1 \in 1 .. Len(g)
    BY <1>2, <1>8
  <2>. QED BY Zenon, <1>2, <2>1, TopicLevel
<1>11. Iterate(2, Len(value) - 1, match, TRUE)
  BY Zenon, <1>9, <1>10 DEF Hash, WildcardEnds
<1>12. /\ outcome' = "running" /\ match' = TRUE /\ match_done' = TRUE
       /\ v_i' = Len(value) - 1 + 1
       /\ levels' = levels /\ filter' = filter /\ value' = value
  BY Zenon, <1>11 DEF Iterate, Hash, InLoop
<1>13. Len(value) - 1 + 1 = Len(value)
  <2>1. Len(value) \in Nat
    BY DEF Strings, Layout
  <2>. QED BY <1>1, <1>2, <2>1
<1>14. MqttMatches(Wanted, Given)
  <2>1. \A i \in 1 .. k - 1 : Covers(Wanted[i], Given[i])
    BY Zenon DEF Aligned
  <2>2. Len(Given) >= k - 1
    BY <1>4
  <2>. QED BY Zenon, <1>7, <2>1, <2>2 DEF MqttMatches
<1>15. Wanted' = Wanted /\ Given' = Given
  BY Zenon, <1>12, StringsStay
<1>. QED BY Zenon, <1>12, <1>13, <1>14, <1>15 DEF Progress

\* The wildcard '+' stands for one level of the topic; at the topic's last
\* level the index runs past the end.
LEMMA PlusProgresses ==
    ASSUME WellFormed, AreLevels(Wanted), AreLevels(Given), NEW fs, NEW vs, Strings(fs, vs),
           NEW k \in Nat, NEW o \in Nat, Aligned(fs, vs, k, o), Plus
    PROVE  Progress(fs, vs)'
<1>. DEFINE w == Wanted[k]
            g == Given[k]
            c == CharAt(filter, f_i)
            e == vs[k] + Len(g)
<1>1. c = "+" /\ f_i < Len(filter) /\ v_i < Len(value)
  BY Zenon DEF Plus, InLoop
<1>2. /\ k \in 1 .. Len(Wanted) /\ k \in 1 .. Len(Given)
      /\ Len(w) \in Nat /\ Len(g) \in Nat /\ Len(g) >= 1 /\ o <= Len(w) /\ o <= Len(g)
      /\ f_i \in Nat /\ v_i \in Nat
      /\ o < Len(w) => c = w[o + 1]
      /\ o = Len(w) /\ k < Len(Wanted) => c = "/"
      /\ o < Len(g) => CharAt(value, v_i) = g[o + 1]
  BY Here
<1>3. f_i = Len(filter) <=> k = Len(Wanted) /\ o = Len(w)
  BY Here
<1>4. Len(Wanted) \in Nat /\ Len(Given) \in Nat /\ k <= Len(Wanted) /\ k <= Len(Given)
  BY <1>2 DEF AreLevels
<1>5. o < Len(w)
  <2>. SUFFICES ASSUME o = Len(w) PROVE FALSE
    BY <1>2
  <2>1. k # Len(Wanted)
    BY <1>1, <1>2, <1>3
  <2>2. k < Len(Wanted)
    BY <1>4, <2>1
  <2>. QED BY Zenon, <1>1, <1>2, <2>2
<1>6. o + 1 \in 1 .. Len(w) /\ w[o + 1] = "+"
  BY SMTT(30), <1>1, <1>2, <1>5
<1>7. w = AnyLevel /\ Len(w) = 1
  <2>1. w[1] = "#" /\ Len(w) = 1 => w[o + 1] # "+"
    BY <1>2, <1>5
  <2>. QED BY Zenon, <1>2, <1>6, <2>1, FilterLevel
<1>8. o = 0 /\ f_i = fs[k] /\ v_i = vs[k] /\ fs[k] \in Nat /\ vs[k] \in Nat
  <2>1. o = 0
    BY <1>5, <1>7
  <2>2. fs[k] \in Nat /\ vs[k] \in Nat
    BY Zenon, <1>2 DEF Strings, Layout
  <2>. QED BY <2>1, <2>2 DEF Aligned
<1>9. /\ k < Len(Wanted) => CharAt(filter, f_i + 1) = "/"
      /\ k = Len(Wanted) => CharAt(filter, f_i + 1) = NUL
  <2>1. f_i + 1 = fs[k] + Len(w)
    BY Zenon, <1>2, <1>7, <1>8
  <2>2. /\ k < Len(Wanted) => CharAt(filter, fs[k] + Len(w)) = "/"
        /\ k = Len(Wanted) => CharAt(filter, fs[k] + Len(w)) = NUL
    BY Zenon, <1>2, AfterLevel
  <2>. QED BY Zenon, <2>1, <2>2
<1>10. CharAt(value, v_i) # "/"
  <2>1. CharAt(value, v_i) = g[1] /\ 1 \in 1 .. Len(g)
    BY SMTT(30), <1>2, <1>8
  <2>. QED BY Zenon, <1>2, <2>1, TopicLevel
<1>11. SlashFrom(v_i, Len(value)) = e
  BY Zenon, <1>2, <1>8, SlashEndsLevel DEF Strings
<1>12. /\ k < Len(Given) => CharAt(value, e) = "/"
       /\ k = Len(Given) => CharAt(value, e) = NUL
       /\ e \in Nat /\ e <= Len(value) /\ (e = Len(value) <=> k = Len(Given))
  <2>1. Len(g) \in 0 .. Len(g)
    BY <1>2
  <2>. QED BY SMTT(30), <1>2, <2>1, CharOfLevel DEF Strings
<1>. HIDE DEF e
<1>13. k = Len(Given) => Excused
  BY Zenon, <1>4, <1>7 DEF Excused, PlusMeetsLastLevel, Wanted, Given
<1>14. CASE k = Len(Wanted)
  <2>1. Iterate(2, e, CharAt(value, e) = NUL, TRUE)
    BY Zenon, <1>9, <1>10, <1>11, <1>14 DEF Plus, WildcardEnds
  <2>2. /\ outcome' = "running" /\ match' = (CharAt(value, e) = NUL) /\ match_done' = TRUE
        /\ v_i' = e + 1 /\ levels' = levels /\ filter' = filter /\ value' = value
    BY Zenon, <2>1 DEF Iterate, Plus, InLoop
  <2>3. Excused' <=> Excused
    BY Zenon, <2>2, StringsStay
  <2>4. CASE k = Len(Given)
    <3>1. v_i' # Len(value')
      BY <1>12, <2>2, <2>4
    <3>. QED BY Zenon, <1>13, <2>2, <2>3, <2>4, <3>1 DEF Progress
  <2>5. CASE k # Len(Given)
    <3>1. k < Len(Given) /\ Len(Given) # Len(Wanted)
      BY <1>4, <1>14, <2>5
    <3>2. match' = FALSE
      BY Zenon, <1>12, <2>2, <3>1 DEF NUL
    <3>3. Wanted[Len(Wanted)] # AllLevels
      BY <1>7, <1>14 DEF AnyLevel, AllLevels
    <3>4. Excused
      BY Zenon, <3>1, <3>3 DEF Excused, MqttMatches
    <3>. QED BY Zenon, <2>2, <2>3, <3>2, <3>4 DEF Progress
  <2>. QED BY Zenon, <2>4, <2>5
<1>15. CASE k # Len(Wanted)
  <2>0. k < Len(Wanted)
    BY <1>4, <1>15
  <2>. DEFINE found == CharAt(value, e) = "/"
  <2>1. Iterate(2, e, found, ~found)
    BY Zenon, <1>9, <1>10, <1>11, <2>0 DEF Plus, WildcardEnds, NUL
  <2>2. /\ outcome' = "running" /\ match' = found /\ match_done' = ~found
        /\ f_i' = f_i + 2 /\ v_i' = e + 1
        /\ levels' = levels /\ filter' = filter /\ value' = value
    BY Zenon, <2>1 DEF Iterate, Plus, InLoop
  <2>3. Excused' <=> Excused
    BY Zenon, <2>2, StringsStay
  <2>4. CASE k = Len(Given)
    <3>1. ~found
      BY Zenon, <1>12, <2>4 DEF NUL
    <3>. QED BY Zenon, <1>13, <2>2, <2>3, <2>4, <3>1 DEF Progress
  <2>5. CASE k # Len(Given)
    <3>1. k < Len(Given)
      BY <1>4, <2>5
    <3>2. found
      BY Zenon, <1>12, <3>1
    <3>3. f_i' = fs[k] + Len(w) + 1 /\ v_i' = vs[k] + Len(g) + 1
      <4>1. f_i' = f_i + 2 /\ v_i' = e + 1
        BY Zenon, <2>2
      <4>. QED BY <1>7, <1>8, <4>1 DEF e
    <3>4. Aligned(fs, vs, k + 1, 0)'
      BY Zenon, <1>7, <2>0, <2>2, <3>1, <3>3, AlignedNext DEF Covers
    <3>5. match' = TRUE /\ match_done' = FALSE /\ outcome' = "running"
      BY Zenon, <2>2, <3>2
    <3>6. k + 1 \in Nat /\ 0 \in Nat
      OBVIOUS
    <3>. QED BY <3>4, <3>5, <3>6, Zenon DEF Progress
  <2>. QED BY <2>4, <2>5
<1>. QED BY Zenon, <1>14, <1>15

\* The function returns what the loop has established.
LEMMA FinishEnds ==
    ASSUME WellFormed, AreLevels(Wanted), AreLevels(Given), NEW fs, NEW vs, Strings(fs, vs),
           Progress(fs, vs), Finish
    PROVE  Progress(fs, vs)'
<1>1. /\ outcome = "running" /\ ~InLoop
      /\ outcome' = IF match /\ v_i = Len(value) THEN "match" ELSE "no match"
      /\ levels' = levels /\ filter' = filter /\ value' = value
  BY Zenon DEF Finish
<1>2. (Excused' <=> Excused) /\ (Justified' <=> Justified)
  BY Zenon, <1>1, StringsStay
<1>3. Len(Wanted) \in Nat /\ Len(Given) \in Nat /\ Len(Wanted) >= 1
  BY DEF AreLevels
<1>4. CASE /\ match = TRUE /\ match_done = FALSE
           /\ \E k, o \in Nat : Aligned(fs, vs, k, o)
  <2>1. PICK k \in Nat, o \in Nat : Aligned(fs, vs, k, o)
    BY Zenon, <1>4
  <2>. DEFINE w == Wanted[k]
              g == Given[k]
  <2>2. /\ k \in 1 .. Len(Wanted) /\ k \in 1 .. Len(Given)
        /\ Len(w) \in Nat /\ Len(g) \in Nat /\ Len(g) >= 1 /\ o <= Len(w) /\ o <= Len(g)
        /\ f_i \in Nat /\ v_i \in Nat /\ f_i <= Len(filter) /\ v_i <= Len(value)
    BY Zenon, <2>1, Here
  <2>3. /\ f_i = Len(filter) <=> k = Len(Wanted) /\ o = Len(w)
        /\ v_i = Len(value) <=> k = Len(Given) /\ o = Len(g)
    BY <2>1, Here
  <2>4. /\ \A i \in 1 .. k - 1 : Covers(Wanted[i], Given[i])
        /\ \A i \in 1 .. o : w[i] = g[i]
        /\ o # 0 => w # AnyLevel /\ w # AllLevels
    BY Zenon, <2>1 DEF Aligned
  <2>5. w \in Seq(Chars) /\ g \in Seq(Chars)
    BY SMTT(30), <2>2 DEF AreLevels
  <2>. HIDE DEF w, g
  <2>6. CASE v_i = Len(value)
    <3>1. k = Len(Given) /\ o = Len(g)
      BY Zenon, <2>3, <2>6
    <3>2. StartsWith(w, g)
      <4>1. DOMAIN g = 1 .. o
        BY <2>5, <3>1
      <4>2. Len(g) <= Len(w)
        BY Zenon, <2>2, <3>1
      <4>. QED BY Zenon, <2>4, <4>1, <4>2 DEF StartsWith
    <3>3. Justified
      BY Zenon, <2>2, <2>4, <3>1, <3>2 DEF Justified, w, g
    <3>4. outcome' = "match"
      BY Zenon, <1>1, <1>4, <2>6
    <3>. QED BY Zenon, <1>2, <3>3, <3>4 DEF Progress
  <2>7. CASE v_i # Len(value)
    <3>1. v_i < Len(value) /\ f_i = Len(filter)
      <4>1. Len(value) \in Nat /\ Len(filter) \in Nat
        BY DEF Strings, Layout
      <4>2. v_i < Len(value)
        BY <2>2, <2>7, <4>1
      <4>3. ~(f_i < Len(filter))
        BY Zenon, <1>1, <1>4, <4>2 DEF InLoop
      <4>. QED BY <2>2, <4>1, <4>2, <4>3
    <3>2. k = Len(Wanted) /\ o = Len(w)
      BY Zenon, <2>3, <3>1
    <3>3. Len(w) # 0
      BY <2>2, FilterLevel DEF w
    <3>4. w # AnyLevel /\ w # AllLevels
      BY Zenon, <2>4, <3>2, <3>3
    <3>5. Excused
      <4>1. CASE w # g
        BY Zenon, <2>2, <3>4, <4>1, NotCovered DEF w, g
      <4>2. CASE w = g
        <5>1. Len(Given) # Len(Wanted)
          BY Zenon, <2>3, <2>7, <3>2, <4>2
        <5>. QED BY Zenon, <3>2, <3>4, <5>1 DEF Excused, MqttMatches, w
      <4>. QED BY Zenon, <4>1, <4>2
    <3>6. outcome' = "no match"
      BY Zenon, <1>1, <2>7
    <3>. QED BY Zenon, <1>2, <3>5, <3>6 DEF Progress
  <2>. QED BY Zenon, <2>6, <2>7
<1>5. CASE match = TRUE /\ match_done = TRUE /\ v_i = Len(value) /\ MqttMatches(Wanted, Given)
  <2>1. SubSeq(Wanted, 1, Len(Wanted)) = Wanted
    <3>1. Wanted \in Seq(Seq(Chars))
      BY Zenon DEF AreLevels
    <3>. QED BY <1>3, <3>1
  <2>2. Len(Wanted) \in 1 .. Len(Wanted)
    BY <1>3
  <2>3. MqttMatches(SubSeq(Wanted, 1, Len(Wanted)), Given)
    BY Zenon, <1>5, <2>1
  <2>4. Justified
    BY Zenon, <2>2, <2>3 DEF Justified
  <2>5. outcome' = "match"
    BY Zenon, <1>1, <1>5
  <2>. QED BY Zenon, <1>2, <2>4, <2>5 DEF Progress
<1>6. CASE Excused /\ (match = FALSE \/ (match_done = TRUE /\ v_i # Len(value)))
  <2>1. outcome' = "no match"
    BY Zenon, <1>1, <1>6
  <2>. QED BY Zenon, <1>2, <1>6, <2>1 DEF Progress
<1>. QED BY Zenon, <1>1, <1>4, <1>5, <1>6 DEF Progress

\* The two strings at the beginning.
LEMMA TopicInvInit == Init => TopicInv
<1>. SUFFICES ASSUME Init, WellFormed
              PROVE  \E fs, vs : Strings(fs, vs) /\ Progress(fs, vs)
  BY Zenon DEF Init, TopicInv
<1>1. AreLevels(Wanted) /\ AreLevels(Given)
  BY Zenon, LevelsAre DEF Init
<1>2. filter = Join(Wanted) /\ value = Join(Given)
  BY Zenon DEF Init, Wanted, Given
<1>3. PICK fs : Layout(Wanted, Len(Wanted), filter, fs)
  BY Zenon, <1>1, <1>2, JoinHasLayout DEF AreLevels
<1>4. PICK vs : Layout(Given, Len(Given), value, vs)
  BY Zenon, <1>1, <1>2, JoinHasLayout DEF AreLevels
<1>5. /\ Len(Wanted) \in Nat /\ Len(Given) \in Nat
      /\ 1 \in 1 .. Len(Wanted) /\ 1 \in 1 .. Len(Given)
  BY <1>1 DEF AreLevels
<1>6. fs[1] = 0 /\ vs[1] = 0
  BY Zenon, <1>3, <1>4 DEF Layout
<1>7. f_i = fs[1] + 0 /\ v_i = vs[1] + 0
  BY <1>6 DEF Init
<1>8. 0 \in 0 .. Len(Wanted[1]) /\ 0 \in 0 .. Len(Given[1])
  <2>1. Wanted[1] \in Seq(Chars) /\ Given[1] \in Seq(Chars)
    BY <1>1, <1>5 DEF AreLevels
  <2>. QED BY <2>1
<1>9. /\ \A i \in 1 .. 1 - 1 : Covers(Wanted[i], Given[i])
      /\ \A i \in 1 .. 0 : Wanted[1][i] = Given[1][i]
  OBVIOUS
<1>10. Aligned(fs, vs, 1, 0)
  BY Zenon, <1>5, <1>7, <1>8, <1>9 DEF Aligned
<1>11. Progress(fs, vs)
  <2>1. outcome = "running" /\ match = TRUE /\ match_done = FALSE
    BY Zenon DEF Init
  <2>2. 1 \in Nat /\ 0 \in Nat
    BY Zenon
  <2>. QED BY <1>10, <2>1, <2>2, Zenon DEF Progress
<1>. QED BY Zenon, <1>3, <1>4, <1>11 DEF Strings

\* Every iteration, and the return, keep the two indices at the same place of
\* the same level.
LEMMA TopicInvNext == TopicInv /\ [Next]_vars => TopicInv'
<1>. SUFFICES ASSUME TopicInv, [Next]_vars PROVE TopicInv'
  BY Zenon
<1>1. levels' = levels /\ filter' = filter /\ value' = value
  BY Zenon DEF Next, Hash, Plus, Literal, Finish, Iterate, Invalid, vars
<1>2. AreLevels(Wanted) /\ AreLevels(Given) /\ levels \in [filter : Filters, topic : Topics]
  BY Zenon, LevelsAre DEF TopicInv
<1>. SUFFICES ASSUME WellFormed'
              PROVE  \E fs, vs : Strings(fs, vs)' /\ Progress(fs, vs)'
  BY Zenon, <1>1, <1>2 DEF TopicInv
<1>3. WellFormed
  BY Zenon, <1>1, StringsStay
<1>4. PICK fs, vs : Strings(fs, vs) /\ Progress(fs, vs)
  BY Zenon, <1>3 DEF TopicInv
<1>5. Strings(fs, vs)'
  BY Zenon, <1>1, <1>4, StringsStay
<1>6. Progress(fs, vs)'
  <2>1. ASSUME InLoop PROVE match = TRUE /\ \E k, o \in Nat : Aligned(fs, vs, k, o)
    <3>1. outcome = "running" /\ match # FALSE /\ match_done # TRUE
      BY Zenon, <2>1 DEF InLoop
    <3>. QED BY Zenon, <1>4, <3>1 DEF Progress
  <2>2. CASE Hash
    <3>1. InLoop
      BY Zenon, <2>2 DEF Hash
    <3>2. PICK k \in Nat, o \in Nat : Aligned(fs, vs, k, o)
      BY Zenon, <2>1, <3>1
    <3>. QED BY Zenon, <1>2, <1>3, <1>4, <2>1, <2>2, <3>1, <3>2, HashProgresses
  <2>3. CASE Plus
    <3>1. InLoop
      BY Zenon, <2>3 DEF Plus
    <3>2. PICK k \in Nat, o \in Nat : Aligned(fs, vs, k, o)
      BY <2>1, <3>1
    <3>. QED BY Zenon, <1>2, <1>3, <1>4, <2>3, <3>2, PlusProgresses
  <2>4. CASE Literal
    <3>1. InLoop
      BY Zenon, <2>4 DEF Literal
    <3>2. PICK k \in Nat, o \in Nat : Aligned(fs, vs, k, o)
      BY <2>1, <3>1
    <3>. QED BY <1>2, <1>3, <1>4, <2>4, <3>2, LiteralProgresses
  <2>5. CASE Finish
    BY Zenon, <1>2, <1>3, <1>4, <2>5, FinishEnds
  <2>6. CASE UNCHANGED vars
    <3>1. /\ Wanted' = Wanted /\ Given' = Given
          /\ Excused' <=> Excused
          /\ Justified' <=> Justified
      BY Zenon, <1>1, StringsStay
    <3>2. /\ outcome' = outcome /\ match' = match /\ match_done' = match_done
          /\ f_i' = f_i /\ v_i' = v_i /\ value' = value
      BY Zenon, <2>6 DEF vars
    <3>3. \A k, o \in Nat : Aligned(fs, vs, k, o)' <=> Aligned(fs, vs, k, o)
      BY <3>1, <3>2 DEF Aligned
    <3>. QED BY Zenon, <1>4, <3>1, <3>2, <3>3 DEF Progress
  <2>. QED BY Zenon, <2>2, <2>3, <2>4, <2>5, <2>6 DEF Next
<1>. QED BY Zenon, <1>5, <1>6

\* The invariant holds in every state of the function.
LEMMA TopicInvHolds == Spec => []TopicInv
<1>. QED BY TopicInvInit, TopicInvNext, PTL DEF Spec

\* RTI_MQTT_TopicFilter_match recognises every topic that matches by MQTT's
\* rule unless a '+' meets the topic's last level, for any levels and any
\* number of them (Infrastructure.c:273-370).
THEOREM MatchesFound == Spec => []MatchesAreFound
<1>1. TopicInv => MatchesAreFound
  BY Zenon DEF TopicInv, Progress, MatchesAreFound, Excused, Wanted, Given
<1>. QED BY <1>1, TopicInvHolds, PTL

\* A topic that RTI_MQTT_TopicFilter_match takes to match is matched by the
\* filter or by the part of it that was looked at, for any levels and any
\* number of them (Infrastructure.c:372).
THEOREM MatchesJustified == Spec => []MatchesAreJustified
<1>1. TopicInv => MatchesAreJustified
  BY Zenon DEF TopicInv, Progress, MatchesAreJustified, Justified, Wanted, Given
<1>. QED BY <1>1, TopicInvHolds, PTL

\* The part of MatchingSucceeds that is not liveness: with a well-formed
\* filter and topic RTI_MQTT_TopicFilter_match never takes an error path,
\* which would put the client in the ERROR state (Client.c:705-713).
THEOREM NoMatchingError == Spec => [](WellFormed => outcome # "ERROR")
<1>1. TopicInv => (WellFormed => outcome # "ERROR")
  BY Zenon DEF TopicInv, Progress
<1>. QED BY <1>1, TopicInvHolds, PTL
=============================================================================
