-------------------------- MODULE SessionStoreProofs --------------------------
(***************************************************************************)
(* What SessionStore promises, for any sessions, transcripts, hooks,       *)
(* imports, kills and damages, and for every cap.                          *)
(***************************************************************************)
EXTENDS SessionStore, SequenceTheorems, FiniteSetTheorems, WellFoundedInduction, TLAPS

(* Induction, and the sequences that are built by it.                        *)

LEMMA LeastNumber ==
  ASSUME NEW S, S \subseteq Nat, S # {}
  PROVE  \E x \in S : \A y \in S : ~(y < x)
<1> DEFINE R == OpToRel(<, Nat)
<1>1. IsWellFoundedOn(R, Nat)
  BY NatLessThanWellFounded, Zenon
<1>2. \A x, y \in Nat : y < x => <<y, x>> \in R
  BY DEF OpToRel
<1> HIDE DEF R
<1>3. PICK x \in S : \A y \in S : ~ (<<y, x>> \in R)
    BY <1>1, WFMin
<1>4. \A y \in S : ~(y < x)
  BY <1>2, <1>3
<1> QED BY <1>4

\* Induction, over a set: the library's theorem takes a predicate as a parameter.
LEMMA Induction ==
  ASSUME NEW S, 0 \in S, \A n \in Nat : n \in S => n + 1 \in S
  PROVE  Nat \subseteq S
<1> SUFFICES ASSUME Nat \ S # {} PROVE FALSE
  OBVIOUS
<1>1. PICK x \in Nat \ S : \A y \in Nat \ S : ~(y < x)
  <2> DEFINE T == Nat \ S
  <2>1. T \subseteq Nat /\ T # {}
    OBVIOUS
  <2> HIDE DEF T
  <2>2. \E x \in T : \A y \in T : ~(y < x)
    BY <2>1, LeastNumber
  <2> QED BY <2>2 DEF T
<1>2. x # 0 /\ x \in Nat
  OBVIOUS
<1>3. x - 1 \in Nat /\ x - 1 < x /\ x = (x - 1) + 1
  BY <1>2
<1>4. x - 1 \in S
  BY <1>1, <1>3
<1> QED BY <1>3, <1>4

\* The sequence with its n-th member, if that is in S.
PickStep(s, S, v, n) == IF s[n] \in S THEN Append(v, s[n]) ELSE v

\* f is the function that Picked builds, up to m.
IsPicking(f, s, S, m) ==
  f = [n \in 0..m |-> IF n = 0 THEN <<>> ELSE PickStep(s, S, f[n - 1], n)]

LEMMA PickingExists ==
  ASSUME NEW s, NEW S, NEW m \in Nat
  PROVE  \E f : IsPicking(f, s, S, m)
<1> DEFINE K == {k \in Nat : \E f : IsPicking(f, s, S, k)}
<1>1. 0 \in K
  <2>1. IsPicking([k \in 0..0 |-> <<>>], s, S, 0)
    BY DEF IsPicking
  <2> QED BY <2>1
<1>2. ASSUME NEW k \in Nat, k \in K PROVE k + 1 \in K
  <2>1. PICK f : IsPicking(f, s, S, k)
    BY <1>2
  <2> DEFINE g == [i \in 0..(k + 1) |-> IF i = k + 1 THEN PickStep(s, S, f[k], k + 1) ELSE f[i]]
             h == [i \in 0..(k + 1) |-> IF i = 0 THEN <<>> ELSE PickStep(s, S, g[i - 1], i)]
  <2>2. ASSUME NEW i \in 0..(k + 1) PROVE g[i] = h[i]
    <3>1. CASE i = 0
      BY <2>1, <3>1 DEF IsPicking
    <3>2. CASE i = k + 1
      <4>1. k \in 0..(k + 1) /\ k # k + 1
        OBVIOUS
      <4>2. g[i] = PickStep(s, S, f[k], k + 1) /\ g[k] = f[k]
        BY <3>2, <4>1
      <4>3. h[i] = PickStep(s, S, g[k], k + 1)
        BY <3>2
      <4> QED BY <4>2, <4>3
    <3>3. CASE i # 0 /\ i # k + 1
      <4>1. i \in 0..k /\ i - 1 \in 0..k /\ i - 1 # k + 1 /\ i - 1 \in 0..(k + 1)
        BY <3>3
      <4>2. g[i] = f[i] /\ g[i - 1] = f[i - 1]
        BY <3>3, <4>1
      <4>3. f[i] = PickStep(s, S, f[i - 1], i)
        BY <2>1, <4>1, <3>3 DEF IsPicking
      <4> QED BY <4>2, <4>3, <3>3
    <3> QED BY <3>1, <3>2, <3>3
  <2>3. g = h
    <3> HIDE DEF g
    <3>1. g = [i \in 0..(k + 1) |-> g[i]] BY DEF g
    <3> QED BY <2>2, <3>1
  <2>4. IsPicking(g, s, S, k + 1)
    <3> HIDE DEF g
    <3> QED BY <2>3 DEF IsPicking
  <2> QED BY <2>4
<1> HIDE DEF K
<1>3. Nat \subseteq K
  BY <1>1, <1>2, Induction
<1> QED BY <1>3 DEF K

LEMMA PickedIsPicking ==
  ASSUME NEW s, NEW S, Len(s) \in Nat
  PROVE  \E f : IsPicking(f, s, S, Len(s)) /\ Picked(s, S) = f[Len(s)]
<1> DEFINE f == CHOOSE g : IsPicking(g, s, S, Len(s))
<1>1. IsPicking(f, s, S, Len(s))
  <2>1. \E g : IsPicking(g, s, S, Len(s))
    BY PickingExists
  <2> QED BY <2>1
<1>2. Picked(s, S) = f[Len(s)]
  BY DEF Picked, IsPicking, PickStep
<1> QED BY <1>1, <1>2

\* v is what has been picked from the first n members.
PickedFrom(v, n, s, S, T) ==
  /\ v \in Seq(T)
  /\ \A i \in 1..Len(v) : v[i] \in S /\ \E a \in 1..n : s[a] = v[i]
  /\ \A a \in 1..n : s[a] \in S => \E i \in 1..Len(v) : v[i] = s[a]
  /\ \A i, j \in 1..Len(v) : i < j =>
       \E a, b \in 1..n : a < b /\ s[a] = v[i] /\ s[b] = v[j]

\* What is picked is from S, is there and keeps its order; nothing of S is left out.
LEMMA PickedMembers ==
  ASSUME NEW T, NEW s \in Seq(T), NEW S
  PROVE  /\ Picked(s, S) \in Seq(T)
         /\ ToSet(Picked(s, S)) = ToSet(s) \cap S
         /\ \A i, j \in DOMAIN Picked(s, S) : i < j =>
              \E a, b \in DOMAIN s : a < b /\ s[a] = Picked(s, S)[i] /\ s[b] = Picked(s, S)[j]
<1> DEFINE m == Len(s)
<1>1. m \in Nat /\ DOMAIN s = 1..m /\ \A n \in 1..m : s[n] \in T
  OBVIOUS
<1>2. PICK f : IsPicking(f, s, S, m) /\ Picked(s, S) = f[m]
  BY <1>1, PickedIsPicking
<1> DEFINE K == {n \in Nat : n <= m => PickedFrom(f[n], n, s, S, T)}
<1>3. 0 \in K
  <2>1. f[0] = <<>>
    BY <1>1, <1>2 DEF IsPicking
  <2>2. <<>> \in Seq(T) /\ Len(<<>>) = 0
    OBVIOUS
  <2>3. PickedFrom(f[0], 0, s, S, T)
    BY <2>1, <2>2 DEF PickedFrom
  <2> QED BY <2>3
<1>4. ASSUME NEW n \in Nat, n \in K PROVE n + 1 \in K
  <2> SUFFICES ASSUME n + 1 <= m PROVE PickedFrom(f[n + 1], n + 1, s, S, T)
    OBVIOUS
  <2> DEFINE v == f[n]
  <2>1. PickedFrom(v, n, s, S, T)
    BY <1>1, <1>4
  <2>0. /\ v \in Seq(T)
        /\ \A i \in 1..Len(v) : v[i] \in S /\ \E a \in 1..n : s[a] = v[i]
        /\ \A a \in 1..n : s[a] \in S => \E i \in 1..Len(v) : v[i] = s[a]
        /\ \A i, j \in 1..Len(v) : i < j =>
             \E a, b \in 1..n : a < b /\ s[a] = v[i] /\ s[b] = v[j]
    BY <2>1 DEF PickedFrom
  <2>2. f[n + 1] = PickStep(s, S, v, n + 1)
    <3>1. n + 1 \in 0..m /\ n + 1 # 0 /\ (n + 1) - 1 = n
      BY <1>1
    <3> QED BY <1>2, <3>1 DEF IsPicking
  <2>3. s[n + 1] \in T
    BY <1>1
  <2> HIDE DEF v, m
  <2>4. CASE s[n + 1] \notin S
    <3>1. f[n + 1] = v
      BY <2>2, <2>4 DEF PickStep
    <3>2. 1..n \subseteq 1..(n + 1) /\ \A a \in 1..(n + 1) : a \in 1..n \/ a = n + 1
      OBVIOUS
    <3>3. \A i \in 1..Len(v) : v[i] \in S /\ \E a \in 1..(n + 1) : s[a] = v[i]
      BY <2>0, <3>2
    <3>4. \A a \in 1..(n + 1) : s[a] \in S => \E i \in 1..Len(v) : v[i] = s[a]
      BY <2>0, <2>4, <3>2
    <3>5. \A i, j \in 1..Len(v) : i < j =>
            \E a, b \in 1..(n + 1) : a < b /\ s[a] = v[i] /\ s[b] = v[j]
      BY <2>0, <3>2
    <3> QED BY <2>0, <3>1, <3>3, <3>4, <3>5 DEF PickedFrom
  <2>5. CASE s[n + 1] \in S
    <3> DEFINE w == Append(v, s[n + 1])
    <3>1. f[n + 1] = w
      BY <2>2, <2>5 DEF PickStep
    <3>2. /\ w \in Seq(T) /\ Len(v) \in Nat /\ Len(w) = Len(v) + 1
          /\ w[Len(v) + 1] = s[n + 1]
          /\ \A i \in 1..Len(v) : w[i] = v[i]
      BY <2>0, <2>3
    <3> HIDE DEF w
    <3>3. \A i \in 1..Len(w) : w[i] \in S /\ \E a \in 1..(n + 1) : s[a] = w[i]
      <4> TAKE i \in 1..Len(w)
      <4>1. CASE i = Len(v) + 1
        BY <2>5, <3>2, <4>1
      <4>2. CASE i # Len(v) + 1
        <5>1. i \in 1..Len(v) /\ w[i] = v[i]
          BY <3>2, <4>2
        <5>2. PICK a \in 1..n : s[a] = v[i]
          BY <2>0, <5>1
        <5> QED BY <2>0, <5>1, <5>2
      <4> QED BY <4>1, <4>2
    <3>4. \A a \in 1..(n + 1) : s[a] \in S => \E i \in 1..Len(w) : w[i] = s[a]
      <4> TAKE a \in 1..(n + 1)
      <4>1. CASE a = n + 1
        BY <3>2, <4>1
      <4>2. CASE a # n + 1
        <5> HAVE s[a] \in S
        <5>1. PICK i \in 1..Len(v) : v[i] = s[a]
          BY <2>0, <4>2
        <5> QED BY <3>2, <5>1
      <4> QED BY <4>1, <4>2
    <3>5. \A i, j \in 1..Len(w) : i < j =>
            \E a, b \in 1..(n + 1) : a < b /\ s[a] = w[i] /\ s[b] = w[j]
      <4> TAKE i, j \in 1..Len(w)
      <4> HAVE i < j
      <4>1. i \in 1..Len(v) /\ w[i] = v[i]
        BY <3>2
      <4>2. CASE j = Len(v) + 1
        <5>1. PICK a \in 1..n : s[a] = v[i]
          BY <2>0, <4>1
        <5>2. a < n + 1 /\ a \in 1..(n + 1) /\ n + 1 \in 1..(n + 1) /\ s[n + 1] = w[j]
          BY <3>2, <4>2
        <5> QED BY <4>1, <5>1, <5>2
      <4>3. CASE j # Len(v) + 1
        <5>1. j \in 1..Len(v) /\ w[j] = v[j]
          BY <3>2, <4>3
        <5>2. PICK a, b \in 1..n : a < b /\ s[a] = v[i] /\ s[b] = v[j]
          BY <2>0, <4>1, <5>1
        <5> QED BY <4>1, <5>1, <5>2
      <4> QED BY <4>2, <4>3
    <3> QED BY <3>1, <3>2, <3>3, <3>4, <3>5 DEF PickedFrom
  <2> QED BY <2>4, <2>5
<1> HIDE DEF K
<1>5. m \in K
  BY <1>1, <1>3, <1>4, Induction
<1>6. PickedFrom(Picked(s, S), m, s, S, T)
  BY <1>2, <1>5, <1>1 DEF K
<1> DEFINE v == Picked(s, S)
<1> HIDE DEF v, m
<1>7. v \in Seq(T) /\ DOMAIN v = 1..Len(v)
  BY <1>6 DEF v, PickedFrom
<1>8. /\ \A i \in 1..Len(v) : v[i] \in S /\ \E a \in 1..m : s[a] = v[i]
      /\ \A a \in 1..m : s[a] \in S => \E i \in 1..Len(v) : v[i] = s[a]
      /\ \A i, j \in 1..Len(v) : i < j =>
           \E a, b \in 1..m : a < b /\ s[a] = v[i] /\ s[b] = v[j]
  BY <1>6 DEF v, PickedFrom
<1>9. ToSet(v) = ToSet(s) \cap S
  <2>1. ToSet(v) = {v[i] : i \in 1..Len(v)} /\ ToSet(s) = {s[a] : a \in 1..m}
    BY <1>1, <1>7 DEF ToSet
  <2>2. ASSUME NEW x \in ToSet(v) PROVE x \in ToSet(s) \cap S
    <3>1. PICK i \in 1..Len(v) : x = v[i]
      BY <2>1
    <3>2. v[i] \in S /\ \E a \in 1..m : s[a] = v[i]
      BY <1>8
    <3> QED BY <2>1, <3>1, <3>2
  <2>3. ASSUME NEW x \in ToSet(s), x \in S PROVE x \in ToSet(v)
    <3>1. PICK a \in 1..m : x = s[a]
      BY <2>1
    <3>2. \E i \in 1..Len(v) : v[i] = s[a]
      BY <1>8, <2>3, <3>1
    <3> QED BY <2>1, <3>1, <3>2
  <2> QED BY <2>2, <2>3
<1>10. \A i, j \in DOMAIN v : i < j =>
         \E a, b \in DOMAIN s : a < b /\ s[a] = v[i] /\ s[b] = v[j]
  BY <1>1, <1>7, <1>8
<1> QED BY <1>7, <1>9, <1>10 DEF v

LEMMA PickedConcat ==
  ASSUME NEW T, NEW s \in Seq(T), NEW t \in Seq(T), NEW S
  PROVE  Picked(s \o t, S) = Picked(s, S) \o Picked(t, S)
<1> DEFINE l == Len(s)
           m == Len(t)
           r == s \o t
<1>1. /\ l \in Nat /\ m \in Nat /\ Len(r) = l + m
      /\ \A n \in 1..l : r[n] = s[n]
      /\ \A n \in 1..m : r[l + n] = t[n] /\ t[n] \in T
  OBVIOUS
<1> HIDE DEF r
<1>2. PICK f : IsPicking(f, s, S, l) /\ Picked(s, S) = f[l]
  BY <1>1, PickedIsPicking
<1>3. PICK g : IsPicking(g, t, S, m) /\ Picked(t, S) = g[m]
  BY <1>1, PickedIsPicking
<1>4. PICK h : IsPicking(h, r, S, l + m) /\ Picked(r, S) = h[l + m]
  BY <1>1, PickedIsPicking
<1>5. Picked(s, S) \in Seq(T)
  BY PickedMembers
<1> HIDE DEF l, m
<1>6. /\ f[0] = <<>> /\ g[0] = <<>> /\ h[0] = <<>>
      /\ \A n \in Nat : n + 1 <= l => f[n + 1] = PickStep(s, S, f[n], n + 1)
      /\ \A n \in Nat : n + 1 <= m => g[n + 1] = PickStep(t, S, g[n], n + 1)
      /\ \A n \in Nat : n + 1 <= l + m => h[n + 1] = PickStep(r, S, h[n], n + 1)
  <2>1. ASSUME NEW e, NEW q, NEW k \in Nat, IsPicking(e, q, S, k)
        PROVE  e[0] = <<>> /\ \A n \in Nat : n + 1 <= k => e[n + 1] = PickStep(q, S, e[n], n + 1)
    <3>1. \A n \in Nat : n + 1 <= k => n + 1 \in 0..k /\ n + 1 # 0 /\ (n + 1) - 1 = n
      BY <2>1
    <3> QED BY <2>1, <3>1 DEF IsPicking
  <2>2. l + m \in Nat
    BY <1>1
  <2> QED BY <1>1, <1>2, <1>3, <1>4, <2>1, <2>2
<1> DEFINE K == {n \in Nat : n <= l => h[n] = f[n]}
<1>7. l \in K
  <2>1. 0 \in K
    BY <1>6
  <2>2. ASSUME NEW n \in Nat, n \in K PROVE n + 1 \in K
    <3> SUFFICES ASSUME n + 1 <= l PROVE h[n + 1] = f[n + 1]
      OBVIOUS
    <3>1. n + 1 <= l + m /\ n + 1 \in 1..l /\ h[n] = f[n]
      BY <1>1, <2>2
    <3> QED BY <1>1, <1>6, <3>1 DEF PickStep
  <2> HIDE DEF K
  <2> QED BY <1>1, <2>1, <2>2, Induction
<1>8. h[l] = f[l]
  BY <1>1, <1>7
<1> DEFINE Both(n) == g[n] \in Seq(T) /\ h[l + n] = f[l] \o g[n]
           J == {n \in Nat : n <= m => Both(n)}
<1>9. m \in J
  <2>1. 0 \in J
    <3>1. l + 0 = l /\ f[l] \o <<>> = f[l] /\ <<>> \in Seq(T)
      BY <1>1, <1>2, <1>5
    <3>2. Both(0)
      BY <1>6, <1>8, <3>1
    <3> HIDE DEF Both
    <3> QED BY <3>2
  <2>2. ASSUME NEW n \in Nat, n \in J PROVE n + 1 \in J
    <3> HIDE DEF Both
    <3> SUFFICES ASSUME n + 1 <= m PROVE Both(n + 1)
      OBVIOUS
    <3>0. Both(n)
      BY <1>1, <2>2
    <3> USE DEF Both
    <3> DEFINE x == t[n + 1]
               u == f[l]
               v == g[n]
    <3>1. /\ l + n \in Nat /\ (l + n) + 1 = l + (n + 1) /\ (l + n) + 1 <= l + m
          /\ n + 1 \in 1..m
      BY <1>1
    <3>2. v \in Seq(T) /\ h[l + n] = u \o v
      BY <3>0
    <3>3. g[n + 1] = PickStep(t, S, v, n + 1)
      BY <1>6
    <3>4. h[(l + n) + 1] = PickStep(r, S, u \o v, (l + n) + 1)
      BY <1>6, <3>1, <3>2
    <3>5. r[(l + n) + 1] = x /\ x \in T /\ u \in Seq(T)
      BY <1>1, <1>2, <1>5, <3>1
    <3> HIDE DEF x, u, v
    <3>6. CASE x \in S
      <4>1. g[n + 1] = Append(v, x)
        BY <3>3, <3>6 DEF PickStep, x
      <4>2. h[(l + n) + 1] = Append(u \o v, x)
        BY <3>4, <3>5, <3>6 DEF PickStep
      <4>3. Append(u \o v, x) = u \o Append(v, x) /\ Append(v, x) \in Seq(T)
        <5>1. <<x>> \in Seq(T) /\ u \o v \in Seq(T) /\ Append(v, x) \in Seq(T)
          BY <3>2, <3>5
        <5>2. Append(u \o v, x) = (u \o v) \o <<x>>
          BY <3>5, <5>1, AppendIsConcat
        <5>3. Append(v, x) = v \o <<x>>
          BY <3>2, <3>5, AppendIsConcat
        <5>4. (u \o v) \o <<x>> = u \o (v \o <<x>>)
          BY <3>2, <3>5, <5>1, ConcatAssociative
        <5> QED BY <5>1, <5>2, <5>3, <5>4
      <4> QED BY <3>1, <4>1, <4>2, <4>3 DEF u
    <3>7. CASE x \notin S
      <4>1. g[n + 1] = v
        BY <3>3, <3>7 DEF PickStep, x
      <4>2. h[(l + n) + 1] = u \o v
        BY <3>4, <3>5, <3>7 DEF PickStep
      <4> QED BY <3>1, <3>2, <4>1, <4>2 DEF u
    <3> QED BY <3>6, <3>7
  <2> HIDE DEF J
  <2> QED BY <1>1, <2>1, <2>2, Induction
<1>10. h[l + m] = f[l] \o g[m]
  <2>1. Both(m)
    <3> HIDE DEF Both
    <3> QED BY <1>1, <1>9
  <2> QED BY <2>1
<1> QED BY <1>2, <1>3, <1>4, <1>10 DEF r

-----------------------------------------------------------------------------
(* Lines and turns.                                                          *)

LEMMA LinesAreNumbers ==
  /\ Line \subseteq Int /\ Header \in Line /\ Torn \in Line
  /\ \A k \in Keys : Len(Transcript[k]) \in Nat /\ 1..Len(Transcript[k]) \subseteq Line
<1>1. \A k \in Keys : Len(Transcript[k]) \in Nat
  BY SessionAssumption
<1> QED BY <1>1 DEF Line, Header, Torn

LEMMA TurnsAmongLines ==
  ASSUME NEW s \in Seq(Line)
  PROVE  /\ TurnsIn(s) \in Seq(Line) /\ TurnsIn(s) \in Seq(Nat)
         /\ ToSet(TurnsIn(s)) = {line \in ToSet(s) : line > Header}
         /\ \A i, j \in DOMAIN TurnsIn(s) : i < j =>
              \E a, b \in DOMAIN s : a < b /\ s[a] = TurnsIn(s)[i] /\ s[b] = TurnsIn(s)[j]
<1> DEFINE v == TurnsIn(s)
<1>1. /\ v \in Seq(Line) /\ ToSet(v) = ToSet(s) \cap (Nat \ {Header})
      /\ \A i, j \in DOMAIN v : i < j =>
           \E a, b \in DOMAIN s : a < b /\ s[a] = v[i] /\ s[b] = v[j]
  <2> DEFINE S == Nat \ {Header}
  <2>1. v = Picked(s, S)
    BY DEF TurnsIn
  <2> HIDE DEF S, v
  <2>2. /\ v \in Seq(Line) /\ ToSet(v) = ToSet(s) \cap S
        /\ \A i, j \in DOMAIN v : i < j =>
             \E a, b \in DOMAIN s : a < b /\ s[a] = v[i] /\ s[b] = v[j]
    BY <2>1, PickedMembers
  <2> QED BY <2>2 DEF S
<1>2. ToSet(s) \subseteq Int
  <2>1. \A i \in DOMAIN s : s[i] \in Line
    OBVIOUS
  <2> QED BY <2>1, LinesAreNumbers DEF ToSet
<1>3. ToSet(v) = {line \in ToSet(s) : line > Header}
  BY <1>1, <1>2 DEF Header
<1> HIDE DEF v
<1>4. v \in Seq(Nat)
  <2>1. DOMAIN v = 1..Len(v) /\ Len(v) \in Nat /\ v = [i \in 1..Len(v) |-> v[i]]
    BY <1>1
  <2>2. \A i \in 1..Len(v) : v[i] \in ToSet(v)
    BY <2>1 DEF ToSet
  <2>3. \A i \in 1..Len(v) : v[i] \in Nat
    BY <1>1, <2>2
  <2>4. v \in [1..Len(v) -> Nat]
    BY <2>1, <2>3
  <2> QED BY <2>1, <2>4, SeqDef
<1> QED BY <1>1, <1>3, <1>4 DEF v

LEMMA TurnsOfConcat ==
  ASSUME NEW s \in Seq(Line), NEW t \in Seq(Line)
  PROVE  TurnsIn(s \o t) = TurnsIn(s) \o TurnsIn(t)
BY PickedConcat DEF TurnsIn

LEMMA MembersOfConcat ==
  ASSUME NEW T, NEW s \in Seq(T), NEW t \in Seq(T)
  PROVE  ToSet(s \o t) = ToSet(s) \cup ToSet(t)
<1>1. /\ Len(s) \in Nat /\ Len(t) \in Nat /\ Len(s \o t) = Len(s) + Len(t)
      /\ DOMAIN s = 1..Len(s) /\ DOMAIN t = 1..Len(t) /\ DOMAIN (s \o t) = 1..(Len(s) + Len(t))
      /\ \A i \in 1..Len(s) : (s \o t)[i] = s[i]
      /\ \A i \in 1..Len(t) : (s \o t)[Len(s) + i] = t[i]
  OBVIOUS
<1> DEFINE l == Len(s)
           m == Len(t)
           r == s \o t
<1> HIDE DEF l, m, r
<1>2. ASSUME NEW x \in ToSet(r) PROVE x \in ToSet(s) \cup ToSet(t)
  <2>1. PICK i \in 1..(l + m) : x = r[i]
    BY <1>1 DEF ToSet, l, m, r
  <2>2. CASE i <= l
    BY <1>1, <2>1, <2>2 DEF ToSet, l, m, r
  <2>3. CASE i > l
    <3>1. i - l \in 1..m /\ l + (i - l) = i
      BY <1>1, <2>1, <2>3 DEF l, m
    <3> QED BY <1>1, <2>1, <3>1 DEF ToSet, l, m, r
  <2> QED BY <1>1, <2>2, <2>3 DEF l
<1>3. ASSUME NEW x \in ToSet(s) PROVE x \in ToSet(r)
  BY <1>1, <1>3 DEF ToSet, r
<1>4. ASSUME NEW x \in ToSet(t) PROVE x \in ToSet(r)
  <2>1. PICK i \in 1..m : x = t[i]
    BY <1>1, <1>4 DEF ToSet, m
  <2>2. l + i \in 1..(l + m)
    BY <1>1, <2>1 DEF l, m
  <2> QED BY <1>1, <2>1, <2>2 DEF ToSet, r, l, m
<1> QED BY <1>2, <1>3, <1>4 DEF r

-----------------------------------------------------------------------------
(* The invariants.                                                           *)

File == [start : Nat, lines : Seq(Line), ended : BOOLEAN]

Entries == UNION {[S -> [start : Nat, turns : Seq(Nat), bytes : Nat]] : S \in SUBSET Keys}

Job == [call : {"none", "append", "forget", "clear"}, key : Keys, start : Nat, turns : Seq(Line),
        entries : Entries, victims : SUBSET Keys]

\* The types of the variables, as functions.
DiskShape ==
  /\ file \in [Keys -> File \cup {NoFile}]
  /\ copies \in [Keys -> Seq(Seq(Line))]
  /\ index \in Entries \cup {NoIndex}

Shape ==
  /\ DiskShape
  /\ said \in [Keys -> Nat]
  /\ \A k \in Keys : said[k] <= Len(Transcript[k])
  /\ lock \in Procs \cup {Free}
  /\ pc \in [Procs -> Steps]
  /\ \A p \in Procs : pc[p] \notin {"idle", "waiting"} => lock = p
  /\ job \in [Procs -> Job]
  /\ \A p \in Procs : pc[p] = "waiting" => job[p].call # "none"
  /\ stale \subseteq Keys

\* Lines of a file: of the first n turns, each at most once.
SoundLines(n, lines) ==
  /\ \A i \in DOMAIN lines : lines[i] \in {Header, Torn} \cup 1..n
  /\ \A i, j \in DOMAIN lines : lines[i] = lines[j] /\ lines[i] > Header => i = j

AllDiffer(s) == \A i, j \in DOMAIN s : i < j => s[i] # s[j]

\* Turns in the order of their times, and none before start; a header has no time.
InOrder(k, s) ==
  \A i, j \in DOMAIN s : i < j /\ s[i] > Header /\ s[j] > Header => Time(k, s[i]) <= Time(k, s[j])
Early(k, start, s) == \A t \in ToSet(s) : t > Header => start <= Time(k, t)

\* The steps of an append that follow its write.
Indexing == {"evict", "evictCopies", "index"}

\* What a process is about to write, in its steps.
Batch(p) ==
  pc[p] \in {"waiting", "inspect"} =>
    /\ AllDiffer(job[p].turns)
    /\ \A i \in DOMAIN job[p].turns : job[p].turns[i] \in 1..said[job[p].key]

Prepared(p) ==
  pc[p] = "append" =>
    LET k == job[p].key
        turns == job[p].turns
    IN /\ AllDiffer(turns)
       /\ Readable(k) \/ (Lines(k) = <<>> /\ turns # <<>> /\ turns[1] = Header)
       /\ \A i \in DOMAIN turns :
            /\ turns[i] \in 0..said[k]
            /\ turns[i] > Header => Text(k, turns[i]) \notin Texts(k, Stored(k))

Written(p) ==
  pc[p] \in Indexing =>
    /\ ToSet(TurnsIn(job[p].turns)) \subseteq ToSet(Stored(job[p].key))
    /\ job[p].victims \subseteq DOMAIN job[p].entries \ {job[p].key}
    /\ pc[p] # "index" => job[p].victims # {}

Writing ==
  /\ Shape
  /\ \A k \in Keys : SoundLines(said[k], Lines(k))
  /\ \A p \in Procs : Batch(p) /\ Prepared(p) /\ Written(p)

-----------------------------------------------------------------------------
(* Types.                                                                    *)

LEMMA LinesTyped ==
  DiskShape => \A k \in Keys :
    /\ Lines(k) \in Seq(Line)
    /\ Exists(k) => file[k] \in File /\ Lines(k) = file[k].lines
    /\ ~Exists(k) => Lines(k) = <<>>
    /\ Stored(k) \in Seq(Nat) /\ ToSet(Stored(k)) \subseteq Nat
    /\ Readable(k) => Entry(k) \in [start : Nat, turns : Seq(Nat), bytes : Nat]
<1> SUFFICES ASSUME DiskShape, NEW k \in Keys
             PROVE  /\ Lines(k) \in Seq(Line)
                    /\ Exists(k) => file[k] \in File /\ Lines(k) = file[k].lines
                    /\ ~Exists(k) => Lines(k) = <<>>
                    /\ Stored(k) \in Seq(Nat) /\ ToSet(Stored(k)) \subseteq Nat
                    /\ Readable(k) => Entry(k) \in [start : Nat, turns : Seq(Nat), bytes : Nat]
  OBVIOUS
<1>1. file[k] \in File \cup {NoFile}
  BY DEF DiskShape
<1>2. Exists(k) => file[k] \in File /\ Lines(k) = file[k].lines
  BY <1>1 DEF Exists, Lines
<1>3. ~Exists(k) => Lines(k) = <<>>
  BY DEF Lines
<1>4. Lines(k) \in Seq(Line)
  <2>1. \A f \in File : f.lines \in Seq(Line)
    BY DEF File
  <2>2. <<>> \in Seq(Line)
    OBVIOUS
  <2> QED BY <1>2, <1>3, <2>1, <2>2
<1>5. Stored(k) \in Seq(Nat)
  <2>1. TurnsIn(Lines(k)) \in Seq(Nat)
    BY <1>4, TurnsAmongLines
  <2> QED BY <2>1 DEF Stored
<1>6. ToSet(Stored(k)) \subseteq Nat
  BY <1>5 DEF ToSet
<1>7. Readable(k) => Entry(k) \in [start : Nat, turns : Seq(Nat), bytes : Nat]
  BY <1>2, <1>3, <1>4, <1>5 DEF Entry, File, Readable
<1> QED BY <1>2, <1>3, <1>4, <1>5, <1>6, <1>7

LEMMA LinesTypedAfter ==
  DiskShape' => \A k \in Keys :
    /\ Lines(k)' \in Seq(Line)
    /\ Exists(k)' => file'[k] \in File /\ Lines(k)' = file'[k].lines
    /\ ~Exists(k)' => Lines(k)' = <<>>
    /\ Stored(k)' \in Seq(Nat) /\ ToSet(Stored(k)') \subseteq Nat
    /\ Readable(k)' => Entry(k)' \in [start : Nat, turns : Seq(Nat), bytes : Nat]
<1>1. (DiskShape => \A k \in Keys :
         /\ Lines(k) \in Seq(Line)
         /\ Exists(k) => file[k] \in File /\ Lines(k) = file[k].lines
         /\ ~Exists(k) => Lines(k) = <<>>
         /\ Stored(k) \in Seq(Nat) /\ ToSet(Stored(k)) \subseteq Nat
         /\ Readable(k) => Entry(k) \in [start : Nat, turns : Seq(Nat), bytes : Nat])'
  BY LinesTyped, PTL
<1> QED BY <1>1

LEMMA EntriesAreEntries ==
  /\ <<>> \in Entries
  /\ \A e \in Entries : DOMAIN e \subseteq Keys /\
       \A k \in DOMAIN e : e[k] \in [start : Nat, turns : Seq(Nat), bytes : Nat]
  /\ \A e \in Entries : e # NoIndex
<1> DEFINE R == [start : Nat, turns : Seq(Nat), bytes : Nat]
<1> HIDE DEF R
<1>1. <<>> \in [{} -> R] /\ {} \in SUBSET Keys
  OBVIOUS
<1>2. <<>> \in Entries
  BY <1>1 DEF Entries, R
<1>3. ASSUME NEW e \in Entries
      PROVE  DOMAIN e \subseteq Keys /\ (\A k \in DOMAIN e : e[k] \in R) /\ e # NoIndex
  <2>1. PICK S \in SUBSET Keys : e \in [S -> R]
    BY <1>3 DEF Entries, R
  <2>2. NoIndex \notin [S -> R]
    BY <2>1, SessionAssumption DEF R
  <2> QED BY <2>1, <2>2
<1> QED BY <1>2, <1>3 DEF R

LEMMA EntriesOver ==
  ASSUME NEW S \in SUBSET Keys, NEW e, e = [k \in S |-> e[k]],
         \A k \in S : e[k] \in [start : Nat, turns : Seq(Nat), bytes : Nat]
  PROVE  e \in Entries
<1>1. e \in [S -> [start : Nat, turns : Seq(Nat), bytes : Nat]]
  OBVIOUS
<1> QED BY <1>1 DEF Entries

LEMMA ListingTyped == DiskShape => Listing \in Entries
<1> SUFFICES ASSUME DiskShape PROVE Listing \in Entries
  OBVIOUS
<1>1. CASE index = NoIndex
  <2> DEFINE S == {k \in Keys : Readable(k)}
             e == [k \in S |-> Entry(k)]
  <2>1. \A k \in S : e[k] \in [start : Nat, turns : Seq(Nat), bytes : Nat]
    BY LinesTyped
  <2>2. e = [k \in S |-> e[k]] /\ S \in SUBSET Keys
    OBVIOUS
  <2>3. Listing = e
    BY <1>1 DEF Listing
  <2> HIDE DEF e, S
  <2> QED BY <2>1, <2>2, <2>3, EntriesOver
<1>2. CASE index # NoIndex
  <2> DEFINE S == {k \in DOMAIN index : Exists(k)}
             e == [k \in S |-> index[k]]
  <2>1. index \in Entries
    BY <1>2 DEF DiskShape
  <2>2. S \in SUBSET Keys /\ \A k \in S : e[k] \in [start : Nat, turns : Seq(Nat), bytes : Nat]
    BY <2>1, EntriesAreEntries
  <2>3. e = [k \in S |-> e[k]]
    OBVIOUS
  <2>4. Listing = e
    BY <1>2 DEF Listing
  <2> HIDE DEF e, S
  <2> QED BY <2>2, <2>3, <2>4, EntriesOver
<1> QED BY <1>1, <1>2

LEMMA ListingTypedAfter == DiskShape' => Listing' \in Entries
<1>1. (DiskShape => Listing \in Entries)'
  BY ListingTyped, PTL
<1> QED BY <1>1

LEMMA RefreshedTyped == DiskShape => \A k \in Keys : Refreshed(k) \in Entries
<1> SUFFICES ASSUME DiskShape, NEW k \in Keys PROVE Refreshed(k) \in Entries
  OBVIOUS
<1> DEFINE S == (DOMAIN Listing \ {k}) \cup IF Readable(k) THEN {k} ELSE {}
           e == [l \in S |-> IF l = k THEN Entry(k) ELSE Listing[l]]
<1>1. Listing \in Entries
  BY ListingTyped
<1>2. S \in SUBSET Keys /\ \A l \in S : e[l] \in [start : Nat, turns : Seq(Nat), bytes : Nat]
  BY <1>1, EntriesAreEntries, LinesTyped
<1>3. e = [l \in S |-> e[l]]
  OBVIOUS
<1>4. Refreshed(k) = e
  BY DEF Refreshed
<1> HIDE DEF e, S
<1> QED BY <1>2, <1>3, <1>4, EntriesOver

LEMMA RefreshedTypedAfter == DiskShape' => \A k \in Keys : Refreshed(k)' \in Entries
<1>1. (DiskShape => \A k \in Keys : Refreshed(k) \in Entries)'
  BY RefreshedTyped, PTL
<1> QED BY <1>1

\* A call as it begins.
Begun(call, k, start, turns) ==
  [Idle EXCEPT !.call = call, !.key = k, !.start = start, !.turns = turns]

LEMMA IdleTyped == Idle \in Job
<1>1. (CHOOSE k \in Keys : TRUE) \in Keys
  BY SessionAssumption
<1>2. <<>> \in Entries /\ <<>> \in Seq(Line)
  BY EntriesAreEntries
<1> QED BY <1>1, <1>2 DEF Idle, Job

LEMMA BegunTyped ==
  ASSUME NEW c \in {"append", "forget", "clear"}, NEW k \in Keys, NEW s \in Nat, NEW t \in Seq(Line)
  PROVE  /\ Begun(c, k, s, t) \in Job
         /\ Begun(c, k, s, t).call = c /\ Begun(c, k, s, t).key = k
         /\ Begun(c, k, s, t).start = s /\ Begun(c, k, s, t).turns = t
<1>1. <<>> \in Entries
  BY EntriesAreEntries
<1> QED BY <1>1 DEF Begun, Idle, Job

LEMMA TurnsTyped ==
  ASSUME NEW j \in Job, NEW t \in Seq(Line)
  PROVE  /\ [j EXCEPT !.turns = t] \in Job
         /\ [j EXCEPT !.turns = t].turns = t
         /\ [j EXCEPT !.turns = t].key = j.key /\ [j EXCEPT !.turns = t].call = j.call
         /\ [j EXCEPT !.turns = t].start = j.start
BY DEF Job

LEMMA VictimsTyped ==
  ASSUME NEW j \in Job, NEW v \in SUBSET Keys
  PROVE  /\ [j EXCEPT !.victims = v] \in Job
         /\ [j EXCEPT !.victims = v].victims = v
         /\ [j EXCEPT !.victims = v].key = j.key /\ [j EXCEPT !.victims = v].call = j.call
         /\ [j EXCEPT !.victims = v].turns = j.turns
         /\ [j EXCEPT !.victims = v].entries = j.entries
BY DEF Job

\* The jobs of the others do not change.
LEMMA JobUpdate ==
  ASSUME NEW p \in Procs, NEW j, job \in [Procs -> Job], j \in Job
  PROVE  /\ [job EXCEPT ![p] = j] \in [Procs -> Job]
         /\ [job EXCEPT ![p] = j][p] = j
         /\ \A q \in Procs : q # p => [job EXCEPT ![p] = j][q] = job[q]
OBVIOUS

\* The missing newline is always supplied, so nothing is spliced.
LEMMA JoinedPlain ==
  \A k \in Keys : \A lines : Joined(k, lines, NeedsNewline(k)) = Lines(k) \o lines
BY DEF Joined, NeedsNewline, Lines, Exists

LEMMA SaidTurns ==
  ASSUME Shape, NEW k \in Keys
  PROVE  /\ said[k] \in Nat /\ 1..said[k] \subseteq Line
         /\ [t \in 1..said[k] |-> t] \in Seq(1..said[k])
         /\ [t \in 1..said[k] |-> t] \in Seq(Line)
         /\ AllDiffer([t \in 1..said[k] |-> t])
<1>1. said[k] \in Nat /\ said[k] <= Len(Transcript[k])
  BY DEF Shape
<1>2. 1..said[k] \subseteq Line
  BY <1>1, LinesAreNumbers
<1> QED BY <1>1, <1>2 DEF AllDiffer

LEMMA TimesAreNumbers ==
  ASSUME NEW k \in Keys, NEW t \in 1..Len(Transcript[k])
  PROVE  Time(k, t) \in Nat /\ 1 \in 1..Len(Transcript[k])
<1> DEFINE Said == [user : BOOLEAN, text : STRING, time : Nat, size : Nat]
           s == Transcript[k]
<1>1. s \in Seq(Said) /\ t \in 1..Len(s)
  BY SessionAssumption, Zenon
<1> HIDE DEF s, Said
<1>2. s[t] \in Said /\ 1 \in 1..Len(s)
  BY <1>1
<1>3. s[t].time \in Nat
  BY <1>2 DEF Said
<1> QED BY <1>2, <1>3 DEF Time, s

LEMMA FreshTyped ==
  ASSUME NEW k, NEW turns \in Seq(Line)
  PROVE  Fresh(k, turns) \in Seq(Line) /\ ToAppend(k, turns) \in Seq(Line)
<1>1. Fresh(k, turns) \in Seq(Line)
  BY PickedMembers DEF Fresh
<1>2. <<Header>> \in Seq(Line) /\ <<>> \in Seq(Line)
  BY LinesAreNumbers
<1> HIDE DEF Fresh
<1> QED BY <1>1, <1>2 DEF ToAppend

LEMMA WritesTyped ==
  ASSUME Shape, NEW k \in Keys, NEW start \in Nat, NEW lines \in Seq(Line), NEW ended \in BOOLEAN
  PROVE  /\ Grown(k, start, lines, ended) \in File
         /\ Grown(k, start, lines, ended).lines = Lines(k) \o lines
         /\ Grown(k, start, lines, ended).start = IF Readable(k) THEN file[k].start ELSE start
<1>1. Lines(k) \o lines \in Seq(Line)
  BY LinesTyped DEF Shape
<1>2. Readable(k) => file[k].start \in Nat
  BY LinesTyped DEF Shape, Readable, Exists, File
<1> QED BY <1>1, <1>2, JoinedPlain DEF File, Grown

LEMMA FilesAreFiles == NoFile \notin File
<1> DEFINE F == [start : Nat, lines : Seq(Int), ended : BOOLEAN]
<1>1. NoFile \notin F
  BY SessionAssumption, Zenon
<1>2. ASSUME NEW f \in File PROVE f \in F
  <2>1. PICK start \in Nat, lines \in Seq(Line), ended \in BOOLEAN :
          f = [start |-> start, lines |-> lines, ended |-> ended]
    BY DEF File
  <2>2. lines \in Seq(Int)
    <3>1. Line \subseteq Int
      BY LinesAreNumbers
    <3>2. lines \in [1..Len(lines) -> Line] /\ Len(lines) \in Nat
      OBVIOUS
    <3>3. lines \in [1..Len(lines) -> Int]
      BY <3>1, <3>2
    <3> QED BY <3>2, <3>3, SeqDef
  <2>3. [start |-> start, lines |-> lines, ended |-> ended] \in F
    BY <2>2
  <2> QED BY <2>1, <2>3
<1> QED BY <1>1, <1>2

LEMMA RemovedTyped ==
  ASSUME Shape, NEW files, NEW quarantined, NEW withIndex \in BOOLEAN,
         RemoveTree(files, quarantined, withIndex)
  PROVE  DiskShape'
<1>1. \A k \in Keys : ToSet(Stored(k)) \subseteq Nat
  BY LinesTyped DEF Shape
<1>2. <<>> \in Seq(Seq(Line))
  OBVIOUS
<1>4. file' \in [Keys -> File \cup {NoFile}] /\ copies' \in [Keys -> Seq(Seq(Line))]
  BY <1>2 DEF RemoveTree, Shape, DiskShape
<1>5. index' \in Entries \cup {NoIndex}
  BY DEF RemoveTree, Shape, DiskShape
<1> QED BY <1>4, <1>5 DEF DiskShape

\* What a step leaves as it is.
LEMMA FailsShape ==
  ASSUME Shape, NEW p \in Procs, Fails(p), lock = p
  PROVE  /\ pc' \in [Procs -> Steps] /\ job' \in [Procs -> Job] /\ lock' \in Procs \cup {Free}
         /\ \A q \in Procs : pc'[q] \notin {"idle", "waiting"} => lock' = q
         /\ \A q \in Procs : pc'[q] = "waiting" => job'[q].call # "none"
         /\ pc'[p] = "idle" /\ job'[p] = Idle /\ lock' = Free
         /\ \A q \in Procs : q # p => pc'[q] = pc[q] /\ job'[q] = job[q]
<1>1. /\ job' \in [Procs -> Job] /\ job'[p] = Idle
      /\ \A q \in Procs : q # p => job'[q] = job[q]
  <2>1. job \in [Procs -> Job] /\ Idle \in Job /\ job' = [job EXCEPT ![p] = Idle]
    BY IdleTyped DEF Fails, Shape
  <2> QED BY <2>1, JobUpdate
<1>2. /\ pc' \in [Procs -> Steps] /\ pc'[p] = "idle" /\ lock' = Free
      /\ \A q \in Procs : q # p => pc'[q] = pc[q]
  BY DEF Fails, Shape, Steps
<1>3. \A q \in Procs : q # p => pc[q] \in {"idle", "waiting"}
  BY SessionAssumption DEF Shape
<1> QED BY <1>1, <1>2, <1>3 DEF Shape

LEMMA BeginShape ==
  ASSUME Shape, NEW p \in Procs, NEW call \in {"append", "forget", "clear"},
         NEW k \in Keys, NEW start \in Nat, NEW turns \in Seq(Line), Begin(p, call, k, start, turns)
  PROVE  /\ pc' \in [Procs -> Steps] /\ job' \in [Procs -> Job]
         /\ pc'[p] = "waiting" /\ job'[p] = Begun(call, k, start, turns)
         /\ \A q \in Procs : q # p => pc'[q] = pc[q] /\ job'[q] = job[q]
         /\ Shape'
<1>1. job' = [job EXCEPT ![p] = Begun(call, k, start, turns)] /\ job \in [Procs -> Job]
  BY DEF Begin, Begun, Shape
<1>2. Begun(call, k, start, turns) \in Job /\ Begun(call, k, start, turns).call = call
  BY BegunTyped
<1>3. /\ job' \in [Procs -> Job] /\ job'[p] = Begun(call, k, start, turns)
      /\ \A q \in Procs : q # p => job'[q] = job[q]
  BY <1>1, <1>2, JobUpdate
<1>4. /\ pc' \in [Procs -> Steps] /\ pc'[p] = "waiting"
      /\ \A q \in Procs : q # p => pc'[q] = pc[q]
  BY DEF Begin, Shape, Steps
<1>5. UNCHANGED <<said, disk, lock, stale>>
  BY DEF Begin
<1>6. \A q \in Procs : pc'[q] = "waiting" => job'[q].call # "none"
  BY <1>2, <1>3, <1>4 DEF Shape
<1>7. \A q \in Procs : pc'[q] \notin {"idle", "waiting"} => lock' = q
  BY <1>4, <1>5 DEF Shape
<1> QED
  BY <1>3, <1>4, <1>5, <1>6, <1>7 DEF Shape, DiskShape, disk

\* The holder of the lock goes to its next step.
LEMMA HolderMoves ==
  ASSUME Shape, NEW p \in Procs, pc[p] \notin {"idle", "waiting"}, lock' = lock,
         NEW step \in Steps \ {"waiting"}, pc' = [pc EXCEPT ![p] = step]
  PROVE  /\ pc' \in [Procs -> Steps] /\ pc'[p] = step /\ lock = p
         /\ \A q \in Procs : q # p => pc'[q] = pc[q] /\ pc[q] \in {"idle", "waiting"}
         /\ \A q \in Procs : pc'[q] \notin {"idle", "waiting"} => lock' = q
         /\ \A q \in Procs \ {p} : pc'[q] = "waiting" => job[q].call # "none"
<1>1. pc \in [Procs -> Steps] /\ lock = p
  BY DEF Shape
<1>2. pc' \in [Procs -> Steps] /\ pc'[p] = step /\ \A q \in Procs : q # p => pc'[q] = pc[q]
  BY <1>1
<1>3. \A q \in Procs : q # p => pc[q] \in {"idle", "waiting"}
  BY <1>1 DEF Shape
<1> QED BY <1>1, <1>2, <1>3 DEF Shape

LEMMA InitShape == Init => Shape
<1> SUFFICES ASSUME Init PROVE Shape
  OBVIOUS
<1>1. \A k \in Keys : Beginning[k] \in Nat /\ Beginning[k] <= Len(Transcript[k])
  <2>1. Beginning \in [Keys -> Nat] /\ \A k \in Keys : Beginning[k] \in 1..Len(Transcript[k])
    BY SessionAssumption, Zenon
  <2> QED BY <2>1, LinesAreNumbers
<1>2. said \in [Keys -> Nat] /\ \A k \in Keys : said[k] <= Len(Transcript[k])
  <2>1. Beginning \in [Keys -> Nat]
    BY SessionAssumption, Zenon
  <2> QED BY <1>1, <2>1 DEF Init
<1>3. DiskShape
  BY DEF Init, DiskShape
<1>4. /\ pc \in [Procs -> Steps] /\ lock \in Procs \cup {Free}
      /\ \A p \in Procs : pc[p] \notin {"idle", "waiting"} => lock = p
      /\ \A p \in Procs : pc[p] = "waiting" => job[p].call # "none"
  BY DEF Init, Steps
<1>5. job \in [Procs -> Job]
  BY IdleTyped DEF Init
<1>6. stale \subseteq Keys
  BY DEF Init
<1> QED BY <1>2, <1>3, <1>4, <1>5, <1>6 DEF Shape

\* The batch of a call.
LEMMA CaptureShape ==
  ASSUME Shape, NEW p \in Procs, NEW k \in Keys, Capture(p, k)
  PROVE  \E start \in Nat, turns \in Seq(Line) :
           /\ Begin(p, "append", k, start, turns) /\ AllDiffer(turns)
           /\ ToSet(turns) \subseteq 1..said[k]
           /\ InOrder(k, turns) /\ Early(k, start, turns)
<1>1. PICK from \in 1..said[k] :
        LET window == from..said[k]
            kept == WithinBudget(k, {t \in window : Time(k, t) >= Floor(k)})
        IN \E start \in {Time(k, t) : t \in window}, turns \in InTimeOrder(k, kept) :
             /\ \A t \in window : start <= Time(k, t)
             /\ Begin(p, "append", k, start, turns)
  BY DEF Capture
<1> DEFINE window == from..said[k]
           kept == WithinBudget(k, {t \in window : Time(k, t) >= Floor(k)})
<1>2. PICK start \in {Time(k, t) : t \in window}, turns \in InTimeOrder(k, kept) :
        /\ \A t \in window : start <= Time(k, t)
        /\ Begin(p, "append", k, start, turns)
  BY <1>1
<1>3. said[k] \in Nat /\ 1..said[k] \subseteq Line /\ window \subseteq 1..said[k]
  <2>1. PICK m \in Nat : m = said[k] /\ 1..said[k] \subseteq Line
    BY SaidTurns
  <2>2. from..m \subseteq 1..m
    BY <1>1, <2>1
  <2> QED BY <2>1, <2>2
<1>4. kept \subseteq window
  BY DEF WithinBudget
<1>5. IsFiniteSet(kept)
  <2>1. IsFiniteSet(1..said[k])
    BY <1>3, FS_Interval
  <2> QED BY <1>3, <1>4, <2>1, FS_Subset
<1>6. \A t \in window : Time(k, t) \in Nat
  <2> TAKE t \in window
  <2>1. t \in 1..Len(Transcript[k])
    BY <1>3 DEF Shape
  <2> QED BY <2>1, TimesAreNumbers
<1>7. start \in Nat
  BY <1>2, <1>6
<1> HIDE DEF kept
<1> DEFINE n == Cardinality(kept)
<1>8. /\ turns \in [1..n -> kept]
      /\ \A i, j \in 1..n : i < j =>
           \/ Time(k, turns[i]) < Time(k, turns[j])
           \/ Time(k, turns[i]) = Time(k, turns[j]) /\ turns[i] < turns[j]
  BY <1>2 DEF InTimeOrder
<1>9. n \in Nat
  BY <1>5, FS_CardinalityType
<1> HIDE DEF n, window
<1>10. /\ turns \in Seq(Line) /\ DOMAIN turns = 1..n
       /\ ToSet(turns) \subseteq window
  <2>1. turns \in [1..n -> Line] /\ \A i \in 1..n : turns[i] \in window
    BY <1>3, <1>4, <1>8
  <2> QED BY <1>8, <1>9, <2>1, SeqDef DEF ToSet
<1>11. \A i \in 1..n : turns[i] \in window /\ turns[i] \in Nat /\ Time(k, turns[i]) \in Nat
  <2>1. window \subseteq Nat
    BY <1>3
  <2> QED BY <1>4, <1>6, <1>8, <2>1
<1>12. AllDiffer(turns) /\ InOrder(k, turns)
  BY <1>8, <1>10, <1>11 DEF AllDiffer, InOrder
<1>13. Early(k, start, turns)
  BY <1>2, <1>10 DEF Early
<1> QED BY <1>2, <1>3, <1>7, <1>10, <1>12, <1>13

\* A step of the process that holds the lock, which writes something.
LEMMA InspectShape ==
  ASSUME Shape, NEW p \in Procs, Inspect(p)
  PROVE  /\ Shape' /\ pc'[p] = "append" /\ lock = p
         /\ job'[p] \in Job /\ job'[p].key = job[p].key
         /\ job'[p].call = job[p].call /\ job'[p].start = job[p].start
         /\ job'[p].turns = ToAppend(job[p].key, job[p].turns)
         /\ \A q \in Procs : q # p => pc'[q] = pc[q] /\ job'[q] = job[q] /\ pc[q] \in {"idle", "waiting"}
<1> DEFINE k == job[p].key
           t == ToAppend(k, job[p].turns)
<1>1. job[p] \in Job /\ k \in Keys /\ job[p].turns \in Seq(Line) /\ job \in [Procs -> Job]
  BY DEF Shape, Job
<1>2. t \in Seq(Line)
  BY <1>1, FreshTyped
<1> HIDE DEF t
<1> DEFINE j == [job[p] EXCEPT !.turns = t]
<1>3. j \in Job /\ j.turns = t /\ j.key = k /\ j.call = job[p].call /\ j.start = job[p].start
  BY <1>1, <1>2, TurnsTyped
<1>4. job' = [job EXCEPT ![p] = j]
  BY DEF Inspect, t
<1> HIDE DEF j
<1>5. /\ job' \in [Procs -> Job] /\ job'[p] = j
      /\ \A q \in Procs : q # p => job'[q] = job[q]
  BY <1>1, <1>3, <1>4, JobUpdate
<1>6. pc[p] = "inspect" /\ lock' = lock /\ pc' = [pc EXCEPT ![p] = "append"]
  BY DEF Inspect
<1>7. /\ pc' \in [Procs -> Steps] /\ pc'[p] = "append" /\ lock = p
      /\ \A q \in Procs : q # p => pc'[q] = pc[q] /\ pc[q] \in {"idle", "waiting"}
      /\ \A q \in Procs : pc'[q] \notin {"idle", "waiting"} => lock' = q
  BY <1>6, HolderMoves DEF Steps
<1>8. Lines(k) \in Seq(Line)
  BY <1>1, LinesTyped DEF Shape
<1>9. DiskShape'
  <2>1. CASE Unreadable(k)
    <3>1. /\ file' = [file EXCEPT ![k] = NoFile] /\ index' = index
          /\ copies' = [copies EXCEPT ![k] = Append(@, Lines(k))]
      BY <2>1 DEF Inspect, Quarantine
    <3>2. Append(copies[k], Lines(k)) \in Seq(Seq(Line))
      BY <1>1, <1>8 DEF Shape, DiskShape
    <3> QED BY <1>1, <3>1, <3>2 DEF Shape, DiskShape
  <2>2. CASE ~Unreadable(k)
    BY <2>2 DEF Inspect, Shape, DiskShape
  <2> QED BY <2>1, <2>2
<1>10. \A q \in Procs : pc'[q] = "waiting" => job'[q].call # "none"
  BY <1>5, <1>7 DEF Shape
<1>11. UNCHANGED <<said, lock, stale>>
  BY DEF Inspect
<1>12. Shape'
  BY <1>5, <1>7, <1>9, <1>10, <1>11 DEF Shape
<1> QED BY <1>3, <1>5, <1>7, <1>12 DEF t

LEMMA AppendShape ==
  ASSUME Shape, NEW p \in Procs, AppendTurns(p), NEW k, k = job[p].key
  PROVE  /\ Shape' /\ lock = p /\ pc[p] = "append" /\ said' = said
         /\ k \in Keys
         /\ Lines(k)' = Lines(k) \o job[p].turns
         /\ \A l \in Keys : l # k => file'[l] = file[l]
         /\ job'[p].key = k /\ job'[p].turns = job[p].turns
         /\ job'[p].entries = Refreshed(k)'
         /\ job'[p].victims \subseteq DOMAIN job'[p].entries \ {k}
         /\ job'[p].victims = IF Fits(Refreshed(k)') THEN {} ELSE Victims(Refreshed(k)', k)
         /\ \/ pc'[p] = "index" /\ job'[p].victims = {}
            \/ pc'[p] = "evict" /\ job'[p].victims # {}
         /\ \A q \in Procs : q # p => pc'[q] = pc[q] /\ job'[q] = job[q] /\ pc[q] \in {"idle", "waiting"}
<1> DEFINE turns == job[p].turns
           f == Grown(k, job[p].start, turns, TRUE)
           e == Refreshed(k)'
           v == IF Fits(Refreshed(k)') THEN {} ELSE Victims(e, k)
<1>1. /\ job[p] \in Job /\ k \in Keys /\ turns \in Seq(Line) /\ job \in [Procs -> Job]
      /\ job[p].start \in Nat
  BY DEF Shape, Job
<1>2. f \in File /\ f.lines = Lines(k) \o turns
  BY <1>1, WritesTyped
<1>3. /\ file' = IF turns = <<>> THEN file ELSE [file EXCEPT ![k] = f]
      /\ index' = index /\ copies' = copies
      /\ job' = [job EXCEPT ![p].entries = e, ![p].victims = v]
      /\ pc' = [pc EXCEPT ![p] = IF v = {} THEN "index" ELSE "evict"]
      /\ pc[p] = "append" /\ UNCHANGED <<said, lock, stale>>
  BY DEF AppendTurns
<1> HIDE DEF f
<1>4. DiskShape' /\ \A l \in Keys : l # k => file'[l] = file[l]
  BY <1>1, <1>2, <1>3 DEF Shape, DiskShape
<1>5. Lines(k)' = Lines(k) \o turns
  <2>1. Lines(k) \in Seq(Line)
    BY <1>1, LinesTyped DEF Shape
  <2>2. CASE turns = <<>>
    BY <1>3, <2>1, <2>2 DEF Lines, Exists
  <2>3. CASE turns # <<>>
    <3>1. file'[k] = f
      BY <1>1, <1>3, <2>3 DEF Shape, DiskShape
    <3>2. f # NoFile
      BY <1>2, FilesAreFiles
    <3> QED BY <1>2, <3>1, <3>2 DEF Lines, Exists
  <2> QED BY <2>2, <2>3
<1>6. e \in Entries
  BY <1>1, <1>4, RefreshedTypedAfter
<1>7. v \in SUBSET Keys /\ v \subseteq DOMAIN e \ {k}
  <2>1. DOMAIN e \subseteq Keys
    BY <1>6, EntriesAreEntries
  <2>2. Victims(e, k) \subseteq DOMAIN e \ {k}
    BY DEF Victims
  <2> QED BY <2>1, <2>2
<1> HIDE DEF e, v
<1> DEFINE j == [job[p] EXCEPT !.entries = e, !.victims = v]
<1> HIDE DEF turns
<1>8. j \in Job /\ j.entries = e /\ j.victims = v /\ j.key = k /\ j.turns = turns
  <2>1. \A i \in Job : /\ [i EXCEPT !.entries = e, !.victims = v] \in Job
                       /\ [i EXCEPT !.entries = e, !.victims = v].entries = e
                       /\ [i EXCEPT !.entries = e, !.victims = v].victims = v
                       /\ [i EXCEPT !.entries = e, !.victims = v].key = i.key
                       /\ [i EXCEPT !.entries = e, !.victims = v].turns = i.turns
    BY <1>6, <1>7 DEF Job
  <2> QED BY <1>1, <2>1 DEF turns
<1>9. job' = [job EXCEPT ![p] = j]
  BY <1>1, <1>3
<1> HIDE DEF j
<1>10. /\ job' \in [Procs -> Job] /\ job'[p] = j
       /\ \A q \in Procs : q # p => job'[q] = job[q]
  BY <1>1, <1>8, <1>9, JobUpdate
<1> DEFINE step == IF v = {} THEN "index" ELSE "evict"
<1>11. /\ pc' \in [Procs -> Steps] /\ pc'[p] = step /\ lock = p
       /\ \A q \in Procs : q # p => pc'[q] = pc[q] /\ pc[q] \in {"idle", "waiting"}
       /\ \A q \in Procs : pc'[q] \notin {"idle", "waiting"} => lock' = q
  <2>1. step \in Steps \ {"waiting"}
    BY DEF Steps
  <2> HIDE DEF step
  <2>2. pc[p] \notin {"idle", "waiting"} /\ pc' = [pc EXCEPT ![p] = step] /\ lock' = lock
    BY <1>3 DEF step
  <2> QED BY <2>1, <2>2, HolderMoves
<1>12. \A q \in Procs : pc'[q] = "waiting" => job'[q].call # "none"
  BY <1>10, <1>11 DEF Shape
<1>13. Shape'
  BY <1>3, <1>4, <1>10, <1>11, <1>12 DEF Shape
<1>14. \/ pc'[p] = "index" /\ v = {}
       \/ pc'[p] = "evict" /\ v # {}
  BY <1>11
<1>15. v = IF Fits(Refreshed(k)') THEN {} ELSE Victims(Refreshed(k)', k)
  BY DEF v, e
<1> QED BY <1>1, <1>3, <1>4, <1>5, <1>7, <1>8, <1>10, <1>11, <1>13, <1>14, <1>15 DEF e, turns

\* The lines an append that is cut off adds.
Cuts(p, k) ==
  \E n \in 0..Len(job[p].turns) - 1, rest \in {<<>>, <<Torn>>} :
    Lines(k)' = Lines(k) \o (SubSeq(job[p].turns, 1, n) \o rest)

LEMMA CutShape ==
  ASSUME Shape, NEW p \in Procs, AppendCut(p), NEW k, k = job[p].key
  PROVE  /\ Shape' /\ lock = p /\ lock' = Free /\ pc'[p] = "idle" /\ job'[p] = Idle
         /\ pc[p] = "append" /\ said' = said /\ k \in Keys /\ stale' = stale \cup {k}
         /\ Cuts(p, k)
         /\ file'[k].start = IF Readable(k) THEN file[k].start ELSE job[p].start
         /\ \A l \in Keys : l # k => file'[l] = file[l]
         /\ \A q \in Procs : q # p => pc'[q] = pc[q] /\ job'[q] = job[q] /\ pc[q] \in {"idle", "waiting"}
<1>1. job[p] \in Job /\ k \in Keys /\ job[p].turns \in Seq(Line) /\ job[p].start \in Nat
  BY DEF Shape, Job
<1>2. PICK n \in 0..Len(job[p].turns) - 1, rest \in {<<>>, <<Torn>>}, ended \in BOOLEAN :
        LET lines == SubSeq(job[p].turns, 1, n) \o rest IN
        file' = [file EXCEPT ![k] = Grown(k, job[p].start, lines, ended)]
  BY DEF AppendCut
<1> DEFINE lines == SubSeq(job[p].turns, 1, n) \o rest
           f == Grown(k, job[p].start, lines, ended)
<1>3. lines \in Seq(Line)
  <2>1. SubSeq(job[p].turns, 1, n) \in Seq(Line)
    BY <1>1, <1>2
  <2>2. rest \in Seq(Line)
    <3>1. <<>> \in Seq(Line) /\ <<Torn>> \in Seq(Line)
      BY LinesAreNumbers
    <3> QED BY <1>2, <3>1
  <2> QED BY <2>1, <2>2
<1> HIDE DEF lines
<1>4. /\ f \in File /\ f.lines = Lines(k) \o lines
      /\ f.start = IF Readable(k) THEN file[k].start ELSE job[p].start
  <2>1. ended \in BOOLEAN /\ job[p].start \in Nat
    BY <1>1, <1>2
  <2>2. \A start \in Nat, s \in Seq(Line), e \in BOOLEAN :
          /\ Grown(k, start, s, e) \in File
          /\ Grown(k, start, s, e).lines = Lines(k) \o s
          /\ Grown(k, start, s, e).start = IF Readable(k) THEN file[k].start ELSE start
    BY <1>1, WritesTyped
  <2> QED BY <1>3, <2>1, <2>2, Zenon
<1>5. file' = [file EXCEPT ![k] = f]
  BY <1>2 DEF lines
<1> HIDE DEF f
<1>6. /\ index' = index /\ copies' = copies /\ pc[p] = "append" /\ Fails(p)
      /\ UNCHANGED <<said>> /\ stale' = stale \cup {k}
  BY <1>1 DEF AppendCut
<1>7. DiskShape' /\ (\A l \in Keys : l # k => file'[l] = file[l]) /\ file'[k] = f
  BY <1>1, <1>4, <1>5, <1>6 DEF Shape, DiskShape
<1>8. Lines(k)' = Lines(k) \o lines
  BY <1>4, <1>7, FilesAreFiles DEF Lines, Exists
<1>9. lock = p /\ \A q \in Procs : q # p => pc[q] \in {"idle", "waiting"}
  BY <1>6, SessionAssumption DEF Shape
<1>10. /\ pc' \in [Procs -> Steps] /\ job' \in [Procs -> Job] /\ lock' \in Procs \cup {Free}
       /\ \A q \in Procs : pc'[q] \notin {"idle", "waiting"} => lock' = q
       /\ \A q \in Procs : pc'[q] = "waiting" => job'[q].call # "none"
       /\ pc'[p] = "idle" /\ job'[p] = Idle /\ lock' = Free
       /\ \A q \in Procs : q # p => pc'[q] = pc[q] /\ job'[q] = job[q]
  BY <1>6, <1>9, FailsShape
<1>11. Shape'
  BY <1>1, <1>6, <1>7, <1>10 DEF Shape
<1>12. Cuts(p, k)
  BY <1>2, <1>8 DEF lines, Cuts
<1> QED BY <1>1, <1>4, <1>6, <1>7, <1>9, <1>10, <1>11, <1>12

\* The keys are in an order, by which one of several is the oldest.
LEMMA OldestFirst ==
  ASSUME NEW E \in Entries, NEW keys \in SUBSET DOMAIN E, keys # {}
  PROVE  \E k \in keys : \A l \in keys \ {k} : Older(E, k, l)
<1>1. \A k \in DOMAIN E : E[k].start \in Nat /\ k \in Nat
  BY EntriesAreEntries, LinesAreNumbers, SessionAssumption
<1> DEFINE times == {E[k].start : k \in keys}
<1>2. PICK t \in times : \A u \in times : ~(u < t)
  <2>1. times \subseteq Nat /\ times # {}
    BY <1>1
  <2> HIDE DEF times
  <2> QED BY <2>1, LeastNumber
<1> DEFINE first == {k \in keys : E[k].start = t}
<1>3. PICK k \in first : \A l \in first : ~(l < k)
  <2>1. first \subseteq Nat /\ first # {}
    BY <1>1, <1>2
  <2> HIDE DEF first
  <2> QED BY <2>1, LeastNumber
<1>4. \A l \in keys \ {k} : Older(E, k, l)
  <2> TAKE l \in keys \ {k}
  <2>1. ~(E[l].start < E[k].start) /\ E[k].start = t
    BY <1>2, <1>3
  <2>2. E[k].start \in Nat /\ E[l].start \in Nat /\ k \in Nat /\ l \in Nat
    BY <1>1, <1>3
  <2>3. E[l].start = E[k].start => ~(l < k)
    BY <1>3, <2>1
  <2> HIDE DEF first, times
  <2> QED BY <2>1, <2>2, <2>3 DEF Older
<1> QED BY <1>3, <1>4

LEMMA OldestIsIn ==
  ASSUME NEW E \in Entries, NEW keys \in SUBSET DOMAIN E, keys # {}
  PROVE  Oldest(E, keys) \in keys
BY OldestFirst DEF Oldest

\* The steps of the holder that remove files or write the index.
LEMMA HolderShape ==
  ASSUME Shape, NEW p \in Procs, pc[p] \notin {"idle", "waiting"},
         UNCHANGED <<said, lock>>, NEW step \in Steps \ {"waiting"}, pc' = [pc EXCEPT ![p] = step],
         DiskShape', job' \in [Procs -> Job], \A q \in Procs : q # p => job'[q] = job[q],
         stale' \subseteq Keys
  PROVE  /\ Shape' /\ lock = p /\ pc'[p] = step
         /\ \A q \in Procs : q # p => pc'[q] = pc[q] /\ pc[q] \in {"idle", "waiting"}
<1>1. /\ pc' \in [Procs -> Steps] /\ pc'[p] = step /\ lock = p
      /\ \A q \in Procs : q # p => pc'[q] = pc[q] /\ pc[q] \in {"idle", "waiting"}
      /\ \A q \in Procs : pc'[q] \notin {"idle", "waiting"} => lock' = q
      /\ \A q \in Procs \ {p} : pc'[q] = "waiting" => job[q].call # "none"
  BY HolderMoves
<1> QED BY <1>1 DEF Shape

\* The step the holder takes after this one.
StepAfter(p) ==
  CASE pc[p] = "evict" -> "evictCopies"
    [] pc[p] = "evictCopies" ->
         IF job[p].victims \ {Oldest(job[p].entries, job[p].victims)} = {} THEN "index" ELSE "evict"
    [] pc[p] = "forgetCopies" -> IF Exists(job[p].key) THEN "forgetFile" ELSE "release"
    [] pc[p] = "forgetFile" -> "forgetIndex"
    [] OTHER -> "release"

\* What the holder has left to drop.
VictimsAfter(p) ==
  IF pc[p] = "evictCopies" THEN job[p].victims \ {Oldest(job[p].entries, job[p].victims)} ELSE job[p].victims

HolderStep(p) ==
  \/ Evict(p) \/ EvictCopies(p) \/ IndexAppend(p)
  \/ ForgetCopies(p) \/ ForgetFile(p) \/ ForgetIndex(p) \/ ClearNamespace(p)

LEMMA HolderStepShape ==
  ASSUME Shape, NEW p \in Procs, HolderStep(p)
  PROVE  /\ Shape' /\ lock = p /\ UNCHANGED <<said, lock>>
         /\ pc[p] \notin {"idle", "waiting", "inspect", "append"}
         /\ pc'[p] = StepAfter(p) /\ job'[p] = [job[p] EXCEPT !.victims = VictimsAfter(p)]
         /\ \A q \in Procs : q # p => pc'[q] = pc[q] /\ job'[q] = job[q] /\ pc[q] \in {"idle", "waiting"}
<1>1. /\ job[p] \in Job /\ job[p].key \in Keys /\ job[p].victims \in SUBSET Keys
      /\ job[p].entries \in Entries /\ job \in [Procs -> Job] /\ job[p] = [job[p] EXCEPT !.victims = @]
  BY DEF Shape, Job
<1>2. <<>> \in Seq(Seq(Line)) /\ copies \in [Keys -> Seq(Seq(Line))]
  BY DEF Shape, DiskShape
<1>3. Listing \in Entries
  BY ListingTyped DEF Shape
<1>4. CASE Evict(p)
  <2>1. /\ pc[p] = "evict" /\ pc' = [pc EXCEPT ![p] = "evictCopies"]
        /\ UNCHANGED <<said, copies, index, lock, job, stale>>
        /\ Unlink(Oldest(job[p].entries, job[p].victims))
    BY <1>4 DEF Evict
  <2>2. DiskShape'
    BY <2>1 DEF Unlink, Shape, DiskShape
  <2>3. Shape' /\ lock = p /\ pc'[p] = "evictCopies"
        /\ \A q \in Procs : q # p => pc'[q] = pc[q] /\ pc[q] \in {"idle", "waiting"}
    BY <2>1, <2>2, HolderShape DEF Shape, Steps
  <2> QED BY <1>1, <2>1, <2>3 DEF StepAfter, VictimsAfter
<1>5. CASE EvictCopies(p)
  <2> DEFINE v == job[p].victims \ {Oldest(job[p].entries, job[p].victims)}
             step == IF v = {} THEN "index" ELSE "evict"
             j == [job[p] EXCEPT !.victims = v]
  <2>1. /\ pc[p] = "evictCopies" /\ pc' = [pc EXCEPT ![p] = step]
        /\ UNCHANGED <<said, file, index, lock, stale>>
        /\ copies' = [copies EXCEPT ![Oldest(job[p].entries, job[p].victims)] = <<>>]
        /\ job' = [job EXCEPT ![p] = j]
    BY <1>5 DEF EvictCopies
  <2>2. j \in Job
    BY <1>1, VictimsTyped
  <2>3. DiskShape'
    BY <1>2, <2>1 DEF Shape, DiskShape
  <2>4. StepAfter(p) = step /\ VictimsAfter(p) = v /\ step \in Steps \ {"waiting"}
    BY <2>1 DEF StepAfter, VictimsAfter, Steps
  <2> HIDE DEF j, v
  <2>5. /\ job' \in [Procs -> Job] /\ job'[p] = j
        /\ \A q \in Procs : q # p => job'[q] = job[q]
    BY <1>1, <2>1, <2>2, JobUpdate
  <2> HIDE DEF step
  <2>6. Shape' /\ lock = p /\ pc'[p] = step
        /\ \A q \in Procs : q # p => pc'[q] = pc[q] /\ pc[q] \in {"idle", "waiting"}
    BY <2>1, <2>3, <2>4, <2>5, HolderShape DEF Shape
  <2> QED BY <2>1, <2>4, <2>5, <2>6 DEF j
<1>6. CASE IndexAppend(p)
  <2> DEFINE e == job[p].entries
             S == {k \in DOMAIN e : k = job[p].key \/ Exists(k)}
             i == [k \in S |-> e[k]]
  <2>1. /\ pc[p] = "index" /\ pc' = [pc EXCEPT ![p] = "release"]
        /\ UNCHANGED <<said, file, copies, lock, job>>
        /\ index' = i /\ stale' = IF index = NoIndex THEN {} ELSE stale \ {job[p].key}
    BY <1>6 DEF IndexAppend, WriteIndex
  <2>2. S \in SUBSET Keys /\ (\A k \in S : i[k] \in [start : Nat, turns : Seq(Nat), bytes : Nat]) /\ i = [k \in S |-> i[k]]
    BY <1>1, EntriesAreEntries
  <2> HIDE DEF i, S
  <2>3. i \in Entries
    BY <2>2, EntriesOver
  <2>4. DiskShape' /\ stale' \subseteq Keys
    BY <2>1, <2>3 DEF Shape, DiskShape
  <2>5. Shape' /\ lock = p /\ pc'[p] = "release"
        /\ \A q \in Procs : q # p => pc'[q] = pc[q] /\ pc[q] \in {"idle", "waiting"}
    BY <2>1, <2>4, HolderShape DEF Shape, Steps
  <2> QED BY <1>1, <2>1, <2>5 DEF StepAfter, VictimsAfter
<1>7. CASE ForgetCopies(p)
  <2> DEFINE step == IF Exists(job[p].key) THEN "forgetFile" ELSE "release"
  <2>1. /\ pc[p] = "forgetCopies" /\ pc' = [pc EXCEPT ![p] = step]
        /\ UNCHANGED <<said, file, index, lock, job, stale>>
        /\ copies' = [copies EXCEPT ![job[p].key] = <<>>]
    BY <1>7 DEF ForgetCopies
  <2>2. DiskShape'
    BY <1>2, <2>1 DEF Shape, DiskShape
  <2>3. StepAfter(p) = step /\ VictimsAfter(p) = job[p].victims /\ step \in Steps \ {"waiting"}
    BY <2>1 DEF StepAfter, VictimsAfter, Steps
  <2> HIDE DEF step
  <2>4. Shape' /\ lock = p /\ pc'[p] = step
        /\ \A q \in Procs : q # p => pc'[q] = pc[q] /\ pc[q] \in {"idle", "waiting"}
    BY <2>1, <2>2, <2>3, HolderShape DEF Shape
  <2> QED BY <1>1, <2>1, <2>3, <2>4
<1>8. CASE ForgetFile(p)
  <2>1. /\ pc[p] = "forgetFile" /\ pc' = [pc EXCEPT ![p] = "forgetIndex"]
        /\ UNCHANGED <<said, copies, index, lock, job, stale>>
        /\ Unlink(job[p].key)
    BY <1>8 DEF ForgetFile
  <2>2. DiskShape'
    BY <2>1 DEF Unlink, Shape, DiskShape
  <2>3. Shape' /\ lock = p /\ pc'[p] = "forgetIndex"
        /\ \A q \in Procs : q # p => pc'[q] = pc[q] /\ pc[q] \in {"idle", "waiting"}
    BY <2>1, <2>2, HolderShape DEF Shape, Steps
  <2> QED BY <1>1, <2>1, <2>3 DEF StepAfter, VictimsAfter
<1>9. CASE ForgetIndex(p)
  <2> DEFINE S == DOMAIN Listing \ {job[p].key}
             i == [k \in S |-> Listing[k]]
  <2>1. /\ pc[p] = "forgetIndex" /\ pc' = [pc EXCEPT ![p] = "release"]
        /\ UNCHANGED <<said, file, copies, lock, job>>
        /\ index' = i /\ stale' = IF index = NoIndex THEN {} ELSE stale \ {job[p].key}
    BY <1>9 DEF ForgetIndex, WriteIndex
  <2>2. S \in SUBSET Keys /\ (\A k \in S : i[k] \in [start : Nat, turns : Seq(Nat), bytes : Nat]) /\ i = [k \in S |-> i[k]]
    BY <1>3, EntriesAreEntries
  <2> HIDE DEF i, S
  <2>3. i \in Entries
    BY <2>2, EntriesOver
  <2>4. DiskShape' /\ stale' \subseteq Keys
    BY <2>1, <2>3 DEF Shape, DiskShape
  <2>5. Shape' /\ lock = p /\ pc'[p] = "release"
        /\ \A q \in Procs : q # p => pc'[q] = pc[q] /\ pc[q] \in {"idle", "waiting"}
    BY <2>1, <2>4, HolderShape DEF Shape, Steps
  <2> QED BY <1>1, <2>1, <2>5 DEF StepAfter, VictimsAfter
<1>10. CASE ClearNamespace(p)
  <2>1. /\ pc[p] = "clear" /\ pc' = [pc EXCEPT ![p] = "release"]
        /\ UNCHANGED <<said, lock, job>> /\ stale' = {}
        /\ RemoveTree(Keys, Keys, TRUE)
    BY <1>10 DEF ClearNamespace
  <2>2. DiskShape'
    BY <2>1, RemovedTyped
  <2>3. Shape' /\ lock = p /\ pc'[p] = "release"
        /\ \A q \in Procs : q # p => pc'[q] = pc[q] /\ pc[q] \in {"idle", "waiting"}
    BY <2>1, <2>2, HolderShape DEF Shape, Steps
  <2> QED BY <1>1, <2>1, <2>3 DEF StepAfter, VictimsAfter
<1> QED BY <1>4, <1>5, <1>6, <1>7, <1>8, <1>9, <1>10 DEF HolderStep

\* The lock is taken, or its holder ends.
LEMMA LockShape ==
  ASSUME Shape, NEW p \in Procs, Lock(p)
  PROVE  /\ Shape' /\ pc[p] = "waiting" /\ lock = Free
         /\ pc'[p] \in {"inspect", "forgetCopies", "clear"}
         /\ \A q \in Procs : q # p => pc'[q] = pc[q] /\ pc[q] \in {"idle", "waiting"}
<1>1. /\ pc[p] = "waiting" /\ lock = Free /\ lock' = p
      /\ UNCHANGED <<said, disk, job, stale>>
      /\ pc' = [pc EXCEPT ![p] = CASE job[p].call = "append" -> "inspect"
                                   [] job[p].call = "forget" -> "forgetCopies"
                                   [] job[p].call = "clear" -> "clear"]
  BY DEF Lock
<1>2. job[p].call \in {"append", "forget", "clear"}
  BY <1>1 DEF Shape, Job
<1>3. pc' \in [Procs -> Steps] /\ pc'[p] \in {"inspect", "forgetCopies", "clear"}
      /\ \A q \in Procs : q # p => pc'[q] = pc[q]
  BY <1>1, <1>2 DEF Shape, Steps
<1>4. \A q \in Procs : pc[q] \in {"idle", "waiting"}
  BY <1>1, SessionAssumption DEF Shape
<1>5. DiskShape'
  BY <1>1 DEF Shape, DiskShape, disk
<1>6. Shape'
  BY <1>1, <1>3, <1>4, <1>5 DEF Shape
<1> QED BY <1>1, <1>3, <1>4, <1>6

\* The steps in which a process is done, or given up.
Ends(p) == TimeOut(p) \/ Release(p) \/ Killed(p)

LEMMA EndsShape ==
  ASSUME Shape, NEW p \in Procs, Ends(p)
  PROVE  /\ Shape' /\ pc[p] # "idle" /\ pc'[p] = "idle" /\ UNCHANGED <<said, disk>>
         /\ stale' = IF Killed(p) /\ pc[p] \in Indexing THEN stale \cup {job[p].key} ELSE stale
         /\ \A q \in Procs : q # p => pc'[q] = pc[q] /\ job'[q] = job[q]
<1>1. /\ pc' = [pc EXCEPT ![p] = "idle"] /\ job' = [job EXCEPT ![p] = Idle]
      /\ UNCHANGED <<said, disk>> /\ pc[p] # "idle"
      /\ lock' = IF lock = p THEN Free ELSE lock
  <2>1. CASE TimeOut(p)
    BY <2>1 DEF TimeOut
  <2>2. CASE Release(p)
    BY <2>2 DEF Release
  <2>3. CASE Killed(p)
    BY <2>3 DEF Killed, Fails
  <2> QED BY <2>1, <2>2, <2>3 DEF Ends
<1>2. stale' = IF Killed(p) /\ pc[p] \in Indexing THEN stale \cup {job[p].key} ELSE stale
  <2>1. CASE Killed(p)
    BY <2>1 DEF Killed, Indexing
  <2>2. CASE ~Killed(p)
    BY <2>2 DEF Ends, TimeOut, Release
  <2> QED BY <2>1, <2>2
<1>3. /\ job' \in [Procs -> Job] /\ job'[p] = Idle
      /\ \A q \in Procs : q # p => job'[q] = job[q]
  <2>1. job \in [Procs -> Job] /\ Idle \in Job
    BY IdleTyped DEF Shape
  <2> QED BY <1>1, <2>1, JobUpdate
<1>4. /\ pc' \in [Procs -> Steps] /\ pc'[p] = "idle"
      /\ \A q \in Procs : q # p => pc'[q] = pc[q]
  BY <1>1 DEF Shape, Steps
<1>5. \A q \in Procs : pc'[q] \notin {"idle", "waiting"} => lock' = q
  BY <1>1, <1>4 DEF Shape
<1>6. DiskShape' /\ stale' \subseteq Keys
  BY <1>1, <1>2 DEF Shape, DiskShape, disk, Job
<1>7. lock' \in Procs \cup {Free}
  BY <1>1 DEF Shape
<1>8. Shape'
  BY <1>1, <1>3, <1>4, <1>5, <1>6, <1>7 DEF Shape
<1> QED BY <1>1, <1>2, <1>3, <1>4, <1>8

LEMMA ClearCutShape ==
  ASSUME Shape, NEW p \in Procs, ClearCut(p)
  PROVE  /\ Shape' /\ said' = said /\ pc[p] = "clear" /\ pc'[p] = "idle"
         /\ \A q \in Procs : q # p => pc'[q] = pc[q] /\ job'[q] = job[q] /\ pc[q] \in {"idle", "waiting"}
<1>1. /\ pc[p] = "clear" /\ Fails(p) /\ said' = said
      /\ stale' = IF index' = NoIndex THEN {} ELSE stale
  BY DEF ClearCut
<1>2. PICK files, quarantined \in SUBSET Keys, withIndex \in BOOLEAN :
        RemoveTree(files, quarantined, withIndex)
  BY DEF ClearCut
<1>3. DiskShape'
  BY <1>2, RemovedTyped
<1>4. lock = p /\ \A q \in Procs : q # p => pc[q] \in {"idle", "waiting"}
  BY <1>1, SessionAssumption DEF Shape
<1>5. /\ pc' \in [Procs -> Steps] /\ job' \in [Procs -> Job] /\ lock' \in Procs \cup {Free}
      /\ \A q \in Procs : pc'[q] \notin {"idle", "waiting"} => lock' = q
      /\ \A q \in Procs : pc'[q] = "waiting" => job'[q].call # "none"
      /\ pc'[p] = "idle" /\ job'[p] = Idle /\ lock' = Free
      /\ \A q \in Procs : q # p => pc'[q] = pc[q] /\ job'[q] = job[q]
  BY <1>1, <1>4, FailsShape
<1>6. Shape'
  BY <1>1, <1>3, <1>5 DEF Shape
<1> QED BY <1>1, <1>4, <1>5, <1>6

LEMMA DamageShape ==
  ASSUME Shape, NEW k \in Keys, Damage(k)
  PROVE  /\ Shape' /\ UNCHANGED <<said, copies, index, calls>> /\ lock = Free
         /\ Lines(k)' = <<Torn>> \o Tail(Lines(k)) /\ Lines(k) # <<>>
         /\ \A l \in Keys : l # k => file'[l] = file[l]
<1>1. /\ UNCHANGED <<said, copies, index, calls>> /\ lock = Free /\ Readable(k)
      /\ file' = [file EXCEPT ![k].lines = <<Torn>> \o Tail(@)] /\ stale' = stale \cup {k}
  BY DEF Damage
<1>2. Lines(k) \in Seq(Line) /\ Lines(k) # <<>> /\ Exists(k) /\ file[k] \in File
      /\ Lines(k) = file[k].lines
  BY <1>1, LinesTyped DEF Shape, Readable
<1>3. <<Torn>> \o Tail(Lines(k)) \in Seq(Line)
  BY <1>2, LinesAreNumbers
<1> DEFINE f == [file[k] EXCEPT !.lines = <<Torn>> \o Tail(Lines(k))]
<1>4. f \in File /\ f.lines = <<Torn>> \o Tail(Lines(k))
  <2> DEFINE t == <<Torn>> \o Tail(Lines(k))
  <2> HIDE DEF t
  <2>1. t \in Seq(Line)
    BY <1>3 DEF t
  <2>2. [file[k] EXCEPT !.lines = t] \in File /\ [file[k] EXCEPT !.lines = t].lines = t
    BY <1>2, <2>1 DEF File
  <2> QED BY <2>2 DEF t
<1>5. file' = [file EXCEPT ![k] = f]
  BY <1>1, <1>2
<1> HIDE DEF f
<1>6. file' \in [Keys -> File \cup {NoFile}] /\ file'[k] = f /\ \A l \in Keys : l # k => file'[l] = file[l]
  BY <1>4, <1>5 DEF Shape, DiskShape
<1>7. Lines(k)' = f.lines
  BY <1>4, <1>6, FilesAreFiles DEF Lines, Exists
<1>9. Shape'
  BY <1>1, <1>6 DEF Shape, DiskShape, calls
<1> QED BY <1>1, <1>2, <1>4, <1>6, <1>7, <1>9

LEMMA SayShape ==
  ASSUME Shape, NEW k \in Keys, Say(k)
  PROVE  /\ Shape' /\ UNCHANGED <<disk, calls, stale>>
         /\ \A l \in Keys : said[l] \in Nat /\ said'[l] \in Nat /\ said[l] <= said'[l]
<1>1. /\ said[k] < Len(Transcript[k]) /\ said' = [said EXCEPT ![k] = @ + 1]
      /\ UNCHANGED <<disk, calls, stale>>
  BY DEF Say
<1>2. \A l \in Keys : Len(Transcript[l]) \in Nat
  BY LinesAreNumbers
<1>3. said' \in [Keys -> Nat] /\ \A l \in Keys : said'[l] <= Len(Transcript[l])
  BY <1>1, <1>2 DEF Shape
<1>4. \A l \in Keys : said[l] \in Nat /\ said'[l] \in Nat /\ said[l] <= said'[l]
  BY <1>1 DEF Shape
<1>5. Shape'
  BY <1>1, <1>3 DEF Shape, DiskShape, disk, calls
<1> QED BY <1>1, <1>4, <1>5

\* The steps in which a call begins.
Begins(p) == (\E k \in Keys : Capture(p, k) \/ Import(p, k) \/ Forget(p, k)) \/ Clear(p)

LEMMA BeginsShape ==
  ASSUME Shape, NEW p \in Procs, Begins(p)
  PROVE  \E call \in {"append", "forget", "clear"}, k \in Keys, start \in Nat, turns \in Seq(Line) :
           /\ Begin(p, call, k, start, turns)
           /\ AllDiffer(turns) /\ ToSet(turns) \subseteq 1..said[k]
           /\ k \in Captured /\ call = "append" => InOrder(k, turns) /\ Early(k, start, turns)
<1>0. 0 \in Nat /\ <<>> \in Seq(Line) /\ AllDiffer(<<>>) /\ ToSet(<<>>) = {}
  BY DEF AllDiffer, ToSet
<1>1. ASSUME NEW k \in Keys, Capture(p, k)
      PROVE  \E start \in Nat, turns \in Seq(Line) :
               /\ Begin(p, "append", k, start, turns)
               /\ AllDiffer(turns) /\ ToSet(turns) \subseteq 1..said[k]
               /\ InOrder(k, turns) /\ Early(k, start, turns)
  BY <1>1, CaptureShape
<1>2. ASSUME NEW k \in Keys, Import(p, k)
      PROVE  k \notin Captured /\ \E start \in Nat, turns \in Seq(Line) :
               /\ Begin(p, "append", k, start, turns)
               /\ AllDiffer(turns) /\ ToSet(turns) \subseteq 1..said[k]
  <2> DEFINE turns == [t \in 1..said[k] |-> t]
  <2>1. Time(k, 1) \in Nat
    <3>1. Transcript[k] \in Seq([user : BOOLEAN, text : STRING, time : Nat, size : Nat]) \ {<<>>}
      BY SessionAssumption
    <3>2. 1 \in 1..Len(Transcript[k])
      BY <3>1
    <3> QED BY <3>2, TimesAreNumbers
  <2>2. turns \in Seq(Line) /\ AllDiffer(turns)
    BY SaidTurns
  <2>3. ToSet(turns) \subseteq 1..said[k]
    BY DEF ToSet
  <2>4. k \notin Captured /\ Begin(p, "append", k, Time(k, 1), turns)
    BY <1>2 DEF Import
  <2> HIDE DEF turns
  <2> QED BY <2>1, <2>2, <2>3, <2>4
<1>3. ASSUME NEW k \in Keys, Forget(p, k) PROVE Begin(p, "forget", k, 0, <<>>)
  BY <1>3 DEF Forget
<1>4. ASSUME Clear(p) PROVE Idle.key \in Keys /\ Begin(p, "clear", Idle.key, 0, <<>>)
  BY <1>4, IdleTyped DEF Clear, Job
<1>5. CASE Clear(p)
  BY <1>0, <1>4, <1>5
<1>6. CASE ~Clear(p)
  <2>1. PICK k \in Keys : Capture(p, k) \/ Import(p, k) \/ Forget(p, k)
    BY <1>6 DEF Begins
  <2>2. CASE Capture(p, k)
    BY <1>1, <2>2
  <2>3. CASE Import(p, k)
    BY <1>2, <2>3
  <2>4. CASE Forget(p, k)
    BY <1>0, <1>3, <2>4
  <2> QED BY <2>1, <2>2, <2>3, <2>4
<1> QED BY <1>5, <1>6

\* The steps, by what they do.
LEMMA StepKinds ==
  Next => \/ \E k \in Keys : Say(k) \/ Damage(k)
          \/ \E p \in Procs : \/ Begins(p) \/ Lock(p) \/ Ends(p)
                              \/ Inspect(p) \/ AppendTurns(p) \/ AppendCut(p)
                              \/ HolderStep(p) \/ ClearCut(p)
BY DEF Next, Appending, Forgetting, Begins, Ends, HolderStep

LEMMA ShapeStep == Shape /\ [Next]_vars => Shape'
<1> SUFFICES ASSUME Shape, [Next]_vars PROVE Shape'
  OBVIOUS
<1>1. ASSUME NEW k \in Keys, Say(k) \/ Damage(k) PROVE Shape'
  BY <1>1, SayShape, DamageShape
<1>2. ASSUME NEW p \in Procs, Begins(p) PROVE Shape'
  BY <1>2, BeginsShape, BeginShape
<1>3. ASSUME NEW p \in Procs, Lock(p) \/ Ends(p) PROVE Shape'
  BY <1>3, LockShape, EndsShape
<1>4. ASSUME NEW p \in Procs, Inspect(p) \/ AppendTurns(p) \/ AppendCut(p) PROVE Shape'
  BY <1>4, InspectShape, AppendShape, CutShape
<1>5. ASSUME NEW p \in Procs, HolderStep(p) \/ ClearCut(p) PROVE Shape'
  BY <1>5, HolderStepShape, ClearCutShape
<1>6. CASE UNCHANGED vars
  BY <1>6 DEF vars, disk, calls, Shape, DiskShape
<1> QED BY <1>1, <1>2, <1>3, <1>4, <1>5, <1>6, StepKinds

-----------------------------------------------------------------------------
(* Lines are sound.                                                          *)

LEMMA SoundMore ==
  ASSUME NEW n \in Nat, NEW m \in Nat, n <= m, NEW lines, SoundLines(n, lines)
  PROVE  SoundLines(m, lines)
<1>1. 1..n \subseteq 1..m
  OBVIOUS
<1> QED BY <1>1 DEF SoundLines

LEMMA SoundConcat ==
  ASSUME NEW n \in Nat, NEW s \in Seq(Line), NEW t \in Seq(Line),
         SoundLines(n, s), SoundLines(n, t),
         \A i \in DOMAIN s, j \in DOMAIN t : s[i] > Header => s[i] # t[j]
  PROVE  SoundLines(n, s \o t)
<1> DEFINE r == s \o t
           l == Len(s)
           m == Len(t)
<1>1. /\ l \in Nat /\ m \in Nat /\ DOMAIN s = 1..l /\ DOMAIN t = 1..m /\ DOMAIN r = 1..(l + m)
      /\ \A i \in 1..l : r[i] = s[i]
      /\ \A i \in 1..m : r[l + i] = t[i]
  OBVIOUS
<1> HIDE DEF r, l, m
<1>2. \A i \in 1..(l + m) : \/ i \in 1..l /\ r[i] = s[i]
                            \/ i > l /\ i - l \in 1..m /\ r[i] = t[i - l]
  <2> TAKE i \in 1..(l + m)
  <2>1. CASE i <= l
    BY <1>1, <2>1
  <2>2. CASE i > l
    <3>1. i - l \in 1..m /\ l + (i - l) = i
      BY <1>1, <2>2
    <3> QED BY <1>1, <2>2, <3>1
  <2> QED BY <1>1, <2>1, <2>2
<1>3. \A i \in DOMAIN r : r[i] \in {Header, Torn} \cup 1..n
  BY <1>1, <1>2 DEF SoundLines
<1>4. ASSUME NEW i \in DOMAIN r, NEW j \in DOMAIN r, r[i] = r[j], r[i] > Header PROVE i = j
  <2>1. CASE i \in 1..l /\ j \in 1..l
    BY <1>1, <1>4, <2>1 DEF SoundLines
  <2>2. CASE i \notin 1..l /\ j \notin 1..l
    <3>1. i - l \in 1..m /\ j - l \in 1..m /\ r[i] = t[i - l] /\ r[j] = t[j - l]
      BY <1>1, <1>2, <2>2
    <3>2. i - l = j - l
      BY <1>1, <1>4, <3>1 DEF SoundLines
    <3> QED BY <1>1, <3>2
  <2>3. CASE i \in 1..l /\ j \notin 1..l
    <3>1. r[i] = s[i] /\ j - l \in 1..m /\ r[j] = t[j - l]
      BY <1>1, <1>2, <2>3
    <3>2. i \in DOMAIN s /\ j - l \in DOMAIN t
      BY <1>1, <2>3, <3>1
    <3> QED BY <1>4, <3>1, <3>2
  <2>4. CASE i \notin 1..l /\ j \in 1..l
    <3>1. r[j] = s[j] /\ i - l \in 1..m /\ r[i] = t[i - l]
      BY <1>1, <1>2, <2>4
    <3>2. j \in DOMAIN s /\ i - l \in DOMAIN t
      BY <1>1, <2>4, <3>1
    <3> QED BY <1>4, <3>1, <3>2
  <2> QED BY <2>1, <2>2, <2>3, <2>4
<1> QED BY <1>3, <1>4 DEF SoundLines, r

LEMMA SoundSplit ==
  ASSUME NEW n \in Nat, NEW s \in Seq(Line), s # <<>>, SoundLines(n, s)
  PROVE  SoundLines(n, <<Torn>> \o Tail(s))
<1> DEFINE r == <<Torn>> \o Tail(s)
<1>1. /\ Len(s) \in Nat /\ DOMAIN s = 1..Len(s) /\ DOMAIN r = 1..Len(s) /\ r[1] = Torn
      /\ \A i \in 2..Len(s) : r[i] = s[i]
  OBVIOUS
<1> HIDE DEF r
<1>2. \A i \in DOMAIN r : (i = 1 /\ r[i] = Torn) \/ (i \in DOMAIN s /\ r[i] = s[i])
  <2>1. \A i \in 1..Len(s) : i = 1 \/ i \in 2..Len(s)
    BY <1>1
  <2> QED BY <1>1, <2>1
<1>3. \A i \in DOMAIN r : r[i] \in {Header, Torn} \cup 1..n
  BY <1>2 DEF SoundLines
<1>4. ASSUME NEW i \in DOMAIN r, NEW j \in DOMAIN r, r[i] = r[j], r[i] > Header PROVE i = j
  <2>1. ~(Torn > Header)
    BY DEF Torn, Header
  <2>2. i \in DOMAIN s /\ r[i] = s[i] /\ j \in DOMAIN s /\ r[j] = s[j]
    BY <1>2, <1>4, <2>1
  <2> QED BY <1>4, <2>2 DEF SoundLines
<1> QED BY <1>3, <1>4 DEF SoundLines, r

LEMMA SoundPlain ==
  ASSUME NEW n \in Nat
  PROVE  SoundLines(n, <<>>) /\ SoundLines(n, <<Torn>>)
<1>1. DOMAIN <<>> = {} /\ DOMAIN <<Torn>> = {1} /\ <<Torn>>[1] = Torn
  OBVIOUS
<1> QED BY <1>1 DEF SoundLines, Torn, Header

\* The first lines of a batch.
LEMMA SoundBatch ==
  ASSUME NEW n \in Nat, NEW s \in Seq(Line), AllDiffer(s), NEW m \in 0..Len(s),
         \A i \in DOMAIN s : s[i] \in 0..n
  PROVE  SoundLines(n, SubSeq(s, 1, m))
<1> DEFINE r == SubSeq(s, 1, m)
<1>1. Len(s) \in Nat /\ DOMAIN s = 1..Len(s) /\ DOMAIN r = 1..m /\ \A i \in 1..m : r[i] = s[i]
  OBVIOUS
<1> HIDE DEF r
<1>2. \A i \in DOMAIN r : i \in DOMAIN s /\ r[i] = s[i] /\ s[i] \in Int
  BY <1>1
<1>3. ASSUME NEW i \in DOMAIN r, NEW j \in DOMAIN r, r[i] = r[j] PROVE i = j
  <2>1. i < j => s[i] # s[j]
    BY <1>2 DEF AllDiffer
  <2>2. j < i => s[j] # s[i]
    BY <1>2 DEF AllDiffer
  <2> QED BY <1>1, <1>2, <1>3, <2>1, <2>2
<1>4. \A i \in DOMAIN r : r[i] \in {Header, Torn} \cup 1..n
  BY <1>2 DEF Header
<1> QED BY <1>3, <1>4 DEF SoundLines, r

LEMMA StoredMembers ==
  DiskShape => \A k \in Keys :
    /\ Readable(k) => ToSet(Stored(k)) = {line \in ToSet(Lines(k)) : line > Header}
    /\ ~Readable(k) => Stored(k) = <<>> /\ ToSet(Stored(k)) = {}
<1> SUFFICES ASSUME DiskShape, NEW k \in Keys
             PROVE  /\ Readable(k) => ToSet(Stored(k)) = {line \in ToSet(Lines(k)) : line > Header}
                    /\ ~Readable(k) => Stored(k) = <<>> /\ ToSet(Stored(k)) = {}
  OBVIOUS
<1>1. Lines(k) \in Seq(Line)
  BY LinesTyped
<1>2. ToSet(TurnsIn(Lines(k))) = {line \in ToSet(Lines(k)) : line > Header}
  BY <1>1, TurnsAmongLines
<1>3. ToSet(<<>>) = {}
  BY DEF ToSet
<1> QED BY <1>2, <1>3 DEF Stored

LEMMA StoredMembersAfter ==
  DiskShape' => \A k \in Keys :
    /\ Readable(k)' => ToSet(Stored(k)') = {line \in ToSet(Lines(k)') : line > Header}
    /\ ~Readable(k)' => Stored(k)' = <<>> /\ ToSet(Stored(k)') = {}
<1>1. (DiskShape => \A k \in Keys :
         /\ Readable(k) => ToSet(Stored(k)) = {line \in ToSet(Lines(k)) : line > Header}
         /\ ~Readable(k) => Stored(k) = <<>> /\ ToSet(Stored(k)) = {})'
  BY StoredMembers, PTL
<1> QED BY <1>1

\* A file is left as it was.
LEMMA SameFile ==
  ASSUME NEW k, file'[k] = file[k]
  PROVE  /\ Lines(k)' = Lines(k) /\ Stored(k)' = Stored(k) /\ Entry(k)' = Entry(k)
         /\ Exists(k)' = Exists(k) /\ Readable(k)' = Readable(k)
<1>1. Lines(k)' = Lines(k) /\ Exists(k)' = Exists(k)
  BY DEF Lines, Exists
<1>2. Readable(k)' = Readable(k)
  BY <1>1 DEF Readable
<1>3. Stored(k)' = Stored(k)
  BY <1>1, <1>2 DEF Stored
<1> QED BY <1>1, <1>2, <1>3 DEF Entry

\* A file is removed.
LEMMA NoFileLeft ==
  ASSUME NEW k, file'[k] = NoFile
  PROVE  Lines(k)' = <<>> /\ Stored(k)' = <<>> /\ ~Exists(k)' /\ ~Readable(k)' /\ ToSet(Stored(k)') = {}
<1>1. Lines(k)' = <<>> /\ ~Exists(k)'
  BY DEF Lines, Exists
<1>2. ~Readable(k)'
  BY <1>1 DEF Readable
<1>3. Stored(k)' = <<>>
  BY <1>2 DEF Stored
<1> QED BY <1>1, <1>2, <1>3 DEF ToSet

-----------------------------------------------------------------------------
(* Appends.                                                                  *)

\* The turns among the first n lines.
FirstTurns(lines, n) == {lines[i] : i \in {i \in 1..n : lines[i] > Header}}

\* These turns are stored, and nothing else.
Gains(k, turns) == ToSet(Stored(k)') = ToSet(Stored(k)) \cup turns

\* What an append of the first n lines of the batch, and perhaps of a torn one, makes
\* of the file.
LEMMA Appended ==
  ASSUME Writing, NEW p \in Procs, pc[p] = "append", NEW k, k = job[p].key,
         NEW n \in 0..Len(job[p].turns), NEW rest \in {<<>>, <<Torn>>},
         n = 0 => rest = <<Torn>> \/ job[p].turns = <<>>,
         DiskShape', Lines(k)' = Lines(k) \o (SubSeq(job[p].turns, 1, n) \o rest)
  PROVE  /\ SoundLines(said[k], Lines(k)')
         /\ Readable(k) => /\ Readable(k)'
                           /\ Stored(k)' = Stored(k) \o TurnsIn(SubSeq(job[p].turns, 1, n) \o rest)
         /\ n = Len(job[p].turns) => Readable(k)'
         /\ ToSet(Lines(k)) \subseteq ToSet(Lines(k)')
         /\ Gains(k, FirstTurns(job[p].turns, n))
<1> DEFINE turns == job[p].turns
           batch == SubSeq(turns, 1, n)
           lines == batch \o rest
           old == Lines(k)
<1>1. k \in Keys /\ turns \in Seq(Line) /\ said[k] \in Nat /\ SoundLines(said[k], old)
  BY DEF Writing, Shape, Job
<1>2. /\ AllDiffer(turns)
      /\ Readable(k) \/ (old = <<>> /\ turns # <<>> /\ turns[1] = Header)
      /\ \A i \in DOMAIN turns :
           /\ turns[i] \in 0..said[k]
           /\ turns[i] > Header => Text(k, turns[i]) \notin Texts(k, Stored(k))
  BY DEF Writing, Prepared
<1>3. old \in Seq(Line)
  BY <1>1, LinesTyped DEF Writing, Shape
<1> HIDE DEF turns
<1>4. /\ batch \in Seq(Line) /\ rest \in Seq(Line) /\ Len(batch) = n /\ n \in Nat
      /\ DOMAIN batch = 1..n /\ \A i \in 1..n : i \in DOMAIN turns /\ batch[i] = turns[i]
  <2>1. <<>> \in Seq(Line) /\ <<Torn>> \in Seq(Line)
    BY LinesAreNumbers
  <2>2. n \in 0..Len(turns)
    BY DEF turns
  <2>3. rest \in Seq(Line)
    BY <2>1
  <2>4. n \in Nat /\ n <= Len(turns) /\ DOMAIN turns = 1..Len(turns) /\ Len(turns) \in Nat
    BY <1>1, <2>2
  <2>5. /\ batch \in Seq(Line) /\ Len(batch) = n
        /\ DOMAIN batch = 1..n /\ \A i \in 1..n : batch[i] = turns[i]
    BY <1>1, <2>4
  <2> QED BY <2>3, <2>4, <2>5
<1> HIDE DEF batch
<1>5. lines \in Seq(Line) /\ ToSet(lines) = ToSet(batch) \cup ToSet(rest)
  BY <1>4, MembersOfConcat
<1>6. SoundLines(said[k], batch) /\ SoundLines(said[k], rest)
  <2>1. n \in 0..Len(turns)
    BY DEF turns
  <2>2. SoundLines(said[k], batch)
    BY <1>1, <1>2, <2>1, SoundBatch DEF batch
  <2> QED BY <1>1, <2>2, SoundPlain
<1>7. ToSet(rest) \subseteq {Torn}
  BY DEF ToSet
<1>8. SoundLines(said[k], lines)
  <2>1. \A i \in DOMAIN batch, j \in DOMAIN rest : batch[i] > Header => batch[i] # rest[j]
    BY <1>4, <1>7 DEF ToSet, Torn, Header
  <2> QED BY <1>1, <1>4, <1>6, <2>1, SoundConcat
<1>9. \A x \in ToSet(lines) : x = Torn \/ \E i \in 1..n : x = turns[i]
  BY <1>4, <1>5, <1>7 DEF ToSet
<1>10. \A i \in DOMAIN old, j \in DOMAIN lines : old[i] > Header => old[i] # lines[j]
  <2> SUFFICES ASSUME NEW i \in DOMAIN old, NEW j \in DOMAIN lines, old[i] > Header,
                      old[i] = lines[j]
               PROVE  FALSE
    OBVIOUS
  <2>1. Readable(k)
    BY <1>2 DEF Header
  <2>2. old[i] \in ToSet(Stored(k))
    <3>1. old[i] \in ToSet(old)
      BY DEF ToSet
    <3> QED BY <1>1, <2>1, <3>1, StoredMembers DEF Writing, Shape
  <2>3. lines[j] \in ToSet(lines) /\ lines[j] # Torn
    BY DEF ToSet, Torn, Header
  <2>4. PICK a \in 1..n : lines[j] = turns[a]
    BY <1>9, <2>3
  <2>5. Text(k, old[i]) \in Texts(k, Stored(k))
    BY <2>2 DEF Texts
  <2> QED BY <1>2, <1>4, <2>4, <2>5
<1> HIDE DEF lines, old
<1> DEFINE after == Lines(k)'
<1>11. after = old \o lines
  BY DEF old, lines, batch, turns
<1> HIDE DEF after
<1>12. SoundLines(said[k], old \o lines)
  BY <1>1, <1>3, <1>5, <1>8, <1>10, SoundConcat
<1>13. ToSet(after) = ToSet(old) \cup ToSet(lines)
  BY <1>3, <1>5, <1>11, MembersOfConcat
<1>14. ASSUME Readable(k) PROVE Readable(k)' /\ Stored(k)' = Stored(k) \o TurnsIn(lines)
  <2>1. old # <<>> /\ Head(old) = Header
    BY <1>14 DEF Readable, old
  <2>2. after # <<>> /\ Head(after) = Header
    BY <1>3, <1>5, <1>11, <2>1
  <2>3. Readable(k)'
    BY <2>2 DEF Readable, after
  <2>4. Stored(k)' = TurnsIn(after) /\ Stored(k) = TurnsIn(old)
    BY <1>14, <2>3 DEF Stored, old, after
  <2> QED BY <1>3, <1>5, <1>11, <2>3, <2>4, TurnsOfConcat
<1>15. ASSUME ~Readable(k), n # 0 PROVE Readable(k)'
  <2>1. old = <<>> /\ turns[1] = Header
    BY <1>2, <1>15
  <2>2. lines # <<>> /\ Head(lines) = Header
    BY <1>4, <1>15, <2>1 DEF lines
  <2>3. after = lines
    BY <1>5, <1>11, <2>1
  <2> QED BY <2>2, <2>3 DEF Readable, after
<1>16. ASSUME ~Readable(k), n = 0 PROVE ~Readable(k)' /\ n # Len(turns)
  <2>1. old = <<>> /\ turns # <<>>
    BY <1>2, <1>16
  <2>2. rest = <<Torn>>
    BY <1>16, <2>1 DEF turns
  <2>3. lines = <<Torn>>
    BY <1>4, <1>16, <2>2 DEF lines
  <2>4. after = <<Torn>>
    BY <1>11, <2>1, <2>3
  <2>5. n # Len(turns)
    BY <1>1, <1>16, <2>1
  <2>6. Head(after) = Torn /\ Torn # Header
    BY <2>4 DEF Torn, Header
  <2>7. ~Readable(k)'
    BY <2>6 DEF Readable, after
  <2> QED BY <2>5, <2>7
<1> DEFINE new == FirstTurns(turns, n)
<1>17. {x \in ToSet(lines) : x > Header} = new
  <2>1. \A i \in 1..n : turns[i] \in ToSet(lines)
    BY <1>4, <1>5 DEF ToSet
  <2>2. ~(Torn > Header)
    BY DEF Torn, Header
  <2> QED BY <1>9, <2>1, <2>2 DEF FirstTurns
<1>18. ToSet(Stored(k)') = ToSet(Stored(k)) \cup new
  <2>1. CASE Readable(k)
    <3>1. ToSet(Stored(k)') = {x \in ToSet(after) : x > Header}
      BY <1>1, <1>14, <2>1, StoredMembersAfter DEF after
    <3>2. ToSet(Stored(k)) = {x \in ToSet(old) : x > Header}
      BY <1>1, <2>1, StoredMembers DEF Writing, Shape, old
    <3> HIDE DEF new
    <3> QED BY <1>13, <1>17, <3>1, <3>2
  <2>2. CASE ~Readable(k) /\ n # 0
    <3>1. ToSet(Stored(k)') = {x \in ToSet(after) : x > Header}
      BY <1>1, <1>15, <2>2, StoredMembersAfter DEF after
    <3>2. ToSet(old) = {}
      BY <1>2, <2>2 DEF ToSet
    <3>3. ToSet(Stored(k)) = {}
      BY <1>1, <2>2, StoredMembers DEF Writing, Shape
    <3> HIDE DEF new
    <3> QED BY <1>13, <1>17, <3>1, <3>2, <3>3
  <2>3. CASE ~Readable(k) /\ n = 0
    <3>1. ToSet(Stored(k)') = {} /\ ToSet(Stored(k)) = {}
      BY <1>1, <1>16, <2>3, StoredMembers, StoredMembersAfter DEF Writing, Shape
    <3>2. new = {}
      BY <2>3 DEF FirstTurns
    <3> QED BY <3>1, <3>2
  <2> QED BY <2>1, <2>2, <2>3
<1>19. n = Len(turns) => Readable(k)'
  BY <1>14, <1>15, <1>16
<1> HIDE DEF new
<1>20. SoundLines(said[k], after) /\ ToSet(old) \subseteq ToSet(after)
  BY <1>11, <1>12, <1>13
<1> QED BY <1>14, <1>18, <1>19, <1>20 DEF after, old, lines, batch, turns, new, Gains

-----------------------------------------------------------------------------
(* Every step keeps what is written, and about to be written, sound.         *)

LEMMA StoredSaid ==
  ASSUME Writing, NEW k \in Keys
  PROVE  ToSet(Stored(k)) \subseteq 1..said[k]
<1>1. SoundLines(said[k], Lines(k)) /\ DiskShape
  BY DEF Writing, Shape
<1>2. \A x \in ToSet(Lines(k)) : x > Header => x \in 1..said[k]
  BY <1>1 DEF SoundLines, ToSet, Torn, Header
<1> QED BY <1>1, <1>2, StoredMembers

\* A step of q's neighbour leaves q's call as it is.
LEMMA OthersReady ==
  ASSUME Writing, Shape', NEW q \in Procs, pc'[q] = pc[q], job'[q] = job[q],
         \A l \in Keys : said[l] <= said'[l],
         pc[q] \in {"idle", "waiting"} \/ file'[job[q].key] = file[job[q].key]
  PROVE  Batch(q)' /\ Prepared(q)' /\ Written(q)'
<1> DEFINE turns == job[q].turns
<1>1. PICK k \in Keys : k = job[q].key
  BY DEF Writing, Shape, Job
<1>2. said[k] \in Nat /\ said'[k] \in Nat /\ said[k] <= said'[k]
  BY <1>1 DEF Writing, Shape
<1>3. 1..said[k] \subseteq 1..said'[k] /\ 0..said[k] \subseteq 0..said'[k]
  BY <1>2
<1>4. Batch(q) /\ Prepared(q) /\ Written(q)
  BY DEF Writing
<1>5. Batch(q)'
  BY <1>1, <1>3, <1>4 DEF Batch
<1>6. CASE pc[q] \in {"idle", "waiting"}
  BY <1>5, <1>6 DEF Prepared, Written, Indexing
<1>7. CASE file'[k] = file[k]
  <2>1. Lines(k)' = Lines(k) /\ Stored(k)' = Stored(k) /\ Readable(k)' = Readable(k)
    BY <1>7, SameFile
  <2>2. Prepared(q)'
    BY <1>1, <1>3, <1>4, <2>1 DEF Prepared, Texts
  <2>3. Written(q)'
    BY <1>1, <1>4, <2>1 DEF Written
  <2> QED BY <1>5, <2>2, <2>3
<1> QED BY <1>1, <1>6, <1>7

\* What is to be appended of a batch.
LEMMA AppendReady ==
  ASSUME NEW k \in Keys, NEW n \in Nat, NEW turns \in Seq(Line), AllDiffer(turns),
         \A i \in DOMAIN turns : turns[i] \in 1..n, NEW v, v = ToAppend(k, turns)
  PROVE  /\ v \in Seq(Line) /\ AllDiffer(v)
         /\ \A i \in DOMAIN v :
              v[i] \in 0..n /\ (v[i] > Header => Text(k, v[i]) \notin Texts(k, Stored(k)))
         /\ ~Readable(k) => v # <<>> /\ v[1] = Header
         /\ \A t \in ToSet(turns) : Text(k, t) \in Texts(k, Stored(k)) \/ t \in ToSet(v)
         /\ \A t \in ToSet(v) : t = Header \/ t \in ToSet(turns)
<1> DEFINE new == {t \in ToSet(turns) : Text(k, t) \notin Texts(k, Stored(k))}
           w == Picked(turns, new)
           head == IF Readable(k) THEN <<>> ELSE <<Header>>
<1>1. v = head \o w
  BY DEF ToAppend, Fresh
<1> HIDE DEF new
<1>2. /\ w \in Seq(Line) /\ ToSet(w) = ToSet(turns) \cap new
      /\ \A i, j \in DOMAIN w : i < j =>
           \E a, b \in DOMAIN turns : a < b /\ turns[a] = w[i] /\ turns[b] = w[j]
  BY PickedMembers
<1> HIDE DEF w
<1>3. AllDiffer(w)
  BY <1>2 DEF AllDiffer
<1>4. ToSet(turns) \subseteq 1..n /\ new \subseteq ToSet(turns)
  BY DEF ToSet, new
<1>5. \A i \in DOMAIN w : w[i] \in ToSet(w) /\ w[i] \in new /\ w[i] \in 1..n
  BY <1>2, <1>4 DEF ToSet
<1>6. CASE Readable(k)
  <2>1. v = w
    BY <1>1, <1>2, <1>6
  <2>2. \A i \in DOMAIN v :
          v[i] \in 0..n /\ (v[i] > Header => Text(k, v[i]) \notin Texts(k, Stored(k)))
    BY <1>5, <2>1 DEF new
  <2>3. \A t \in ToSet(turns) : Text(k, t) \in Texts(k, Stored(k)) \/ t \in ToSet(v)
    BY <1>2, <2>1 DEF new
  <2>4. \A t \in ToSet(v) : t \in ToSet(turns)
    BY <1>2, <2>1
  <2> QED BY <1>2, <1>3, <1>6, <2>1, <2>2, <2>3, <2>4
<1>7. CASE ~Readable(k)
  <2>0. head = <<Header>> /\ <<Header>> \in Seq(Line)
    BY <1>7, LinesAreNumbers
  <2> HIDE DEF head
  <2>1. /\ v \in Seq(Line) /\ Len(w) \in Nat /\ DOMAIN v = 1..(Len(w) + 1) /\ v[1] = Header
        /\ DOMAIN w = 1..Len(w) /\ \A i \in 1..Len(w) : v[i + 1] = w[i]
    BY <1>1, <1>2, <2>0
  <2>2. \A i \in DOMAIN v : i = 1 \/ (i - 1 \in DOMAIN w /\ v[i] = w[i - 1])
    <3> TAKE i \in DOMAIN v
    <3>1. i # 1 => i - 1 \in 1..Len(w) /\ (i - 1) + 1 = i
      BY <2>1
    <3> QED BY <2>1, <3>1
  <2>3. AllDiffer(v)
    <3> SUFFICES ASSUME NEW i \in DOMAIN v, NEW j \in DOMAIN v, i < j PROVE v[i] # v[j]
      BY DEF AllDiffer
    <3>1. j # 1 /\ j - 1 \in DOMAIN w /\ v[j] = w[j - 1] /\ w[j - 1] \in 1..n
      BY <1>5, <2>1, <2>2
    <3>2. CASE i = 1
      BY <2>1, <3>1, <3>2 DEF Header
    <3>3. CASE i # 1
      <4>1. i - 1 \in DOMAIN w /\ v[i] = w[i - 1] /\ i - 1 < j - 1
        BY <2>1, <2>2, <3>3
      <4> QED BY <1>3, <3>1, <4>1 DEF AllDiffer
    <3> QED BY <3>2, <3>3
  <2>4. \A i \in DOMAIN v :
          v[i] \in 0..n /\ (v[i] > Header => Text(k, v[i]) \notin Texts(k, Stored(k)))
    <3> TAKE i \in DOMAIN v
    <3>1. CASE i = 1
      BY <2>1, <3>1 DEF Header
    <3>2. CASE i # 1
      BY <1>5, <2>2, <3>2 DEF new
    <3> QED BY <3>1, <3>2
  <2>5. ToSet(v) = {Header} \cup ToSet(w)
    <3>1. ToSet(<<Header>>) = {Header}
      BY DEF ToSet
    <3>2. v = <<Header>> \o w /\ w \in Seq(Line) /\ <<Header>> \in Seq(Line)
      BY <1>1, <1>2, <2>0
    <3>3. ToSet(<<Header>> \o w) = ToSet(<<Header>>) \cup ToSet(w)
      BY <3>2, MembersOfConcat
    <3> QED BY <3>1, <3>2, <3>3
  <2>6. \A t \in ToSet(turns) : Text(k, t) \in Texts(k, Stored(k)) \/ t \in ToSet(v)
    BY <1>2, <2>5 DEF new
  <2>7. \A t \in ToSet(v) : t = Header \/ t \in ToSet(turns)
    BY <1>2, <2>5
  <2> QED BY <2>1, <2>3, <2>4, <2>6, <2>7
<1> QED BY <1>6, <1>7

\* What the steps that remove files do to each of them.
Removes(p) == HolderStep(p) \/ ClearCut(p)

LEMMA RemovesFiles ==
  ASSUME Writing, NEW p \in Procs, Removes(p), NEW k \in Keys
  PROVE  /\ file'[k] = file[k] \/ file'[k] = NoFile
         /\ pc[p] = "evict" => file'[job[p].key] = file[job[p].key]
         /\ pc[p] \in {"evictCopies", "index", "forgetCopies", "forgetIndex"} => file' = file
<1> USE DEF Writing
<1>1. file \in [Keys -> File \cup {NoFile}]
  BY DEF Shape, DiskShape
<1>2. ASSUME NEW l, Unlink(l)
      PROVE  /\ file'[k] = file[k] \/ file'[k] = NoFile
  <2>1. file' = [file EXCEPT ![l] = NoFile]
    BY <1>2 DEF Unlink
  <2>2. k = l \/ file'[k] = file[k]
    BY <1>1, <2>1
  <2> QED BY <1>1, <2>1, <2>2
<1>3. ASSUME NEW files, NEW quarantined, NEW withIndex, RemoveTree(files, quarantined, withIndex)
      PROVE  /\ file'[k] = file[k] \/ file'[k] = NoFile
  BY <1>3 DEF RemoveTree
<1>4. CASE Evict(p)
  <2>1. /\ job[p].victims \subseteq DOMAIN job[p].entries \ {job[p].key} /\ job[p].victims # {}
        /\ job[p].key \in Keys /\ job[p].entries \in Entries
    BY <1>4 DEF Evict, Written, Indexing, Shape, Job
  <2>2. Oldest(job[p].entries, job[p].victims) # job[p].key
    BY <2>1, OldestIsIn
  <2>3. file'[job[p].key] = file[job[p].key]
    BY <1>1, <1>4, <2>1, <2>2 DEF Evict, Unlink
  <2> QED BY <1>2, <1>4, <2>3 DEF Evict
<1>5. CASE EvictCopies(p) \/ IndexAppend(p) \/ ForgetCopies(p) \/ ForgetIndex(p)
  BY <1>5 DEF EvictCopies, IndexAppend, ForgetCopies, ForgetIndex
<1>6. CASE ForgetFile(p)
  BY <1>2, <1>6 DEF ForgetFile
<1>7. CASE ClearNamespace(p)
  BY <1>3, <1>7 DEF ClearNamespace
<1>8. CASE ClearCut(p)
  BY <1>3, <1>8 DEF ClearCut
<1> QED BY <1>4, <1>5, <1>6, <1>7, <1>8 DEF Removes, HolderStep

\* Inspecting a session leaves what is stored of it.
LEMMA Inspected ==
  ASSUME Writing, NEW p \in Procs, Inspect(p), NEW l \in Keys
  PROVE  /\ Stored(l)' = Stored(l) /\ (Readable(l)' <=> Readable(l))
         /\ Lines(l)' = IF file'[l] = file[l] THEN Lines(l) ELSE <<>>
         /\ file'[l] = file[l] \/ (file'[l] = NoFile /\ ~Readable(l) /\ l = job[p].key)
         /\ l = job[p].key => Readable(l) \/ Lines(l)' = <<>>
<1>1. file \in [Keys -> File \cup {NoFile}]
  BY DEF Writing, Shape, DiskShape
<1>2. CASE file'[l] = file[l]
  <2>1. Lines(l)' = Lines(l) /\ Stored(l)' = Stored(l) /\ Readable(l)' = Readable(l)
    BY <1>2, SameFile
  <2>2. l = job[p].key => Readable(l) \/ Lines(l)' = <<>>
    <3>1. CASE Unreadable(job[p].key)
      BY <1>1, <1>2, <3>1 DEF Inspect, Quarantine, Lines, Exists
    <3>2. CASE ~Unreadable(job[p].key)
      BY <2>1, <3>2 DEF Unreadable, Readable
    <3> QED BY <3>1, <3>2
  <2> QED BY <1>2, <2>1, <2>2
<1>3. CASE file'[l] # file[l]
  <2>1. Unreadable(job[p].key) /\ file' = [file EXCEPT ![job[p].key] = NoFile]
    BY <1>3 DEF Inspect, Quarantine
  <2>2. l = job[p].key /\ file'[l] = NoFile /\ ~Readable(l)
    BY <1>1, <1>3, <2>1 DEF Unreadable, Readable
  <2>3. Stored(l) = <<>>
    BY <2>2 DEF Stored
  <2>4. Lines(l)' = <<>> /\ Stored(l)' = <<>> /\ ~Readable(l)'
    BY <2>2, NoFileLeft
  <2> QED BY <1>3, <2>2, <2>3, <2>4
<1> QED BY <1>2, <1>3

LEMMA InspectWriting ==
  ASSUME Writing, NEW p \in Procs, Inspect(p)
  PROVE  Writing'
<1>1. PICK k \in Keys : k = job[p].key
  BY DEF Writing, Shape, Job
<1>2. /\ Shape' /\ pc'[p] = "append" /\ lock = p /\ pc[p] = "inspect" /\ UNCHANGED <<said>>
      /\ job'[p].key = k /\ job'[p].turns = ToAppend(k, job[p].turns)
      /\ \A q \in Procs : q # p => pc'[q] = pc[q] /\ job'[q] = job[q] /\ pc[q] \in {"idle", "waiting"}
  BY <1>1, InspectShape DEF Writing, Inspect
<1>3. said[k] \in Nat /\ job[p].turns \in Seq(Line) /\ AllDiffer(job[p].turns)
      /\ \A i \in DOMAIN job[p].turns : job[p].turns[i] \in 1..said[k]
  BY <1>1, <1>2 DEF Writing, Shape, Job, Batch
<1> DEFINE v == job'[p].turns
<1>4. /\ AllDiffer(v)
      /\ \A i \in DOMAIN v :
           v[i] \in 0..said[k] /\ (v[i] > Header => Text(k, v[i]) \notin Texts(k, Stored(k)))
      /\ ~Readable(k) => v # <<>> /\ v[1] = Header
  BY <1>2, <1>3, AppendReady
<1>5. \A l \in Keys : /\ Stored(l)' = Stored(l) /\ (Readable(l)' <=> Readable(l))
                      /\ Lines(l)' \in {Lines(l), <<>>}
                      /\ l = k => Readable(l) \/ Lines(l)' = <<>>
  BY <1>1, Inspected
<1> HIDE DEF v
<1>6. Prepared(p)'
  <2>1. Stored(k)' = Stored(k) /\ (Readable(k)' <=> Readable(k)) /\ (Readable(k) \/ Lines(k)' = <<>>)
    BY <1>5
  <2>2. v = job'[p].turns /\ job'[p].key = k /\ said' = said
    BY <1>2 DEF v
  <2>3. \A i \in DOMAIN v :
          v[i] \in 0..said'[k] /\ (v[i] > Header => Text(k, v[i]) \notin Texts(k, Stored(k)'))
    BY <1>4, <2>1, <2>2
  <2>4. Readable(k)' \/ (Lines(k)' = <<>> /\ v # <<>> /\ v[1] = Header)
    BY <1>4, <2>1
  <2> QED BY <1>4, <2>2, <2>3, <2>4 DEF Prepared, Texts
<1>7. Batch(p)' /\ Written(p)'
  BY <1>2 DEF Batch, Written, Indexing
<1>8. \A q \in Procs : q # p => Batch(q)' /\ Prepared(q)' /\ Written(q)'
  <2>1. \A l \in Keys : said[l] <= said'[l]
    BY <1>2 DEF Writing, Shape
  <2> QED BY <1>2, <2>1, OthersReady
<1>9. \A l \in Keys : SoundLines(said'[l], Lines(l)')
  BY <1>2, <1>5, SoundPlain DEF Writing, Shape
<1> QED BY <1>2, <1>6, <1>7, <1>8, <1>9 DEF Writing

\* The answered append's turns are stored.
LEMMA AppendWriting ==
  ASSUME Writing, NEW p \in Procs, AppendTurns(p)
  PROVE  /\ Writing'
         /\ \E k \in Keys :
              /\ k = job[p].key /\ Readable(k)' /\ (Readable(k) => \E new \in Seq(Nat) : Stored(k)' = Stored(k) \o new)
              /\ ToSet(Lines(k)) \subseteq ToSet(Lines(k)')
              /\ ToSet(Stored(k)') = ToSet(Stored(k)) \cup {t \in ToSet(job[p].turns) : t > Header}
<1>1. PICK k \in Keys : k = job[p].key
  BY DEF Writing, Shape, Job
<1>2. /\ Shape' /\ lock = p /\ pc[p] = "append" /\ UNCHANGED <<said>>
      /\ Lines(k)' = Lines(k) \o job[p].turns
      /\ \A l \in Keys : l # k => file'[l] = file[l]
      /\ job'[p].key = k /\ job'[p].turns = job[p].turns
      /\ job'[p].victims \subseteq DOMAIN job'[p].entries \ {k}
      /\ \/ pc'[p] = "index"
         \/ pc'[p] = "evict" /\ job'[p].victims # {}
      /\ \A q \in Procs : q # p => pc'[q] = pc[q] /\ job'[q] = job[q] /\ pc[q] \in {"idle", "waiting"}
  BY <1>1, AppendShape DEF Writing, AppendTurns
<1> DEFINE turns == job[p].turns
<1>3. turns \in Seq(Line) /\ Len(turns) \in 0..Len(turns) /\ turns = SubSeq(turns, 1, Len(turns)) \o <<>>
      /\ DOMAIN turns = 1..Len(turns) /\ (Len(turns) = 0 => turns = <<>>)
  <2>1. turns \in Seq(Line)
    BY DEF Writing, Shape, Job
  <2> HIDE DEF turns
  <2> QED BY <2>1
<1>4. /\ SoundLines(said[k], Lines(k)') /\ Readable(k)'
      /\ Readable(k) => Stored(k)' = Stored(k) \o TurnsIn(turns)
      /\ ToSet(Lines(k)) \subseteq ToSet(Lines(k)')
      /\ ToSet(Stored(k)') = ToSet(Stored(k)) \cup FirstTurns(turns, Len(turns))
  <2>0. PICK n \in 0..Len(job[p].turns) : n = Len(turns)
    BY <1>3
  <2>1. PICK none \in {<<>>, <<Torn>>} : none = <<>>
    OBVIOUS
  <2>2. Lines(k)' = Lines(k) \o (SubSeq(job[p].turns, 1, n) \o none) /\ DiskShape'
    BY <1>2, <1>3, <2>0, <2>1 DEF Shape
  <2>3. n = 0 => none = <<Torn>> \/ job[p].turns = <<>>
    BY <1>3, <2>0
  <2>4. /\ SoundLines(said[k], Lines(k)')
        /\ Readable(k) => /\ Readable(k)'
                          /\ Stored(k)' = Stored(k) \o TurnsIn(SubSeq(job[p].turns, 1, n) \o none)
        /\ n = Len(job[p].turns) => Readable(k)'
        /\ ToSet(Lines(k)) \subseteq ToSet(Lines(k)')
        /\ Gains(k, FirstTurns(job[p].turns, n))
    <3>1. Writing /\ pc[p] = "append" /\ k = job[p].key
      BY <1>1, <1>2
    <3> QED BY <3>1, <2>2, <2>3, Appended
  <2> QED BY <1>3, <2>0, <2>1, <2>4 DEF Gains
<1>5. FirstTurns(turns, Len(turns)) = {t \in ToSet(turns) : t > Header}
  BY <1>3 DEF ToSet, FirstTurns
<1>6. ToSet(TurnsIn(turns)) = {t \in ToSet(turns) : t > Header}
  BY <1>3, TurnsAmongLines
<1> HIDE DEF turns
<1>7. Written(p)' /\ Batch(p)' /\ Prepared(p)'
  <2>1. ToSet(TurnsIn(turns)) \subseteq ToSet(Stored(k)')
    BY <1>4, <1>5, <1>6
  <2>2. job'[p].turns = turns
    BY <1>2 DEF turns
  <2> QED BY <1>2, <2>1, <2>2 DEF Written, Batch, Prepared
<1>8. \A q \in Procs : q # p => Batch(q)' /\ Prepared(q)' /\ Written(q)'
  <2>1. \A l \in Keys : said[l] <= said'[l]
    BY <1>2 DEF Writing, Shape
  <2> QED BY <1>2, <2>1, OthersReady
<1>9. ASSUME NEW l \in Keys PROVE SoundLines(said'[l], Lines(l)')
  <2>1. CASE l = k
    BY <1>2, <1>4, <2>1
  <2>2. CASE l # k
    BY <1>2, <2>2, SameFile DEF Writing
  <2> QED BY <2>1, <2>2
<1>11. Writing'
  BY <1>2, <1>7, <1>8, <1>9 DEF Writing
<1>12. TurnsIn(turns) \in Seq(Nat)
  BY <1>3, TurnsAmongLines DEF turns
<1>13. ToSet(Stored(k)') = ToSet(Stored(k)) \cup {t \in ToSet(turns) : t > Header}
  BY <1>4, <1>5
<1> QED BY <1>1, <1>4, <1>11, <1>12, <1>13 DEF turns

\* An append that is cut off.
LEMMA CutWriting ==
  ASSUME Writing, NEW p \in Procs, AppendCut(p)
  PROVE  /\ Writing'
         /\ \E k \in Keys, n \in 0..Len(job[p].turns) :
              /\ k = job[p].key /\ (Readable(k) => Readable(k)' /\ \E new \in Seq(Nat) : Stored(k)' = Stored(k) \o new)
              /\ ToSet(Lines(k)) \subseteq ToSet(Lines(k)')
              /\ Gains(k, FirstTurns(job[p].turns, n))
<1>1. PICK k \in Keys : k = job[p].key
  BY DEF Writing, Shape, Job
<1>2. /\ Shape' /\ lock = p /\ pc[p] = "append" /\ pc'[p] = "idle" /\ UNCHANGED <<said>>
      /\ Cuts(p, k)
      /\ \A l \in Keys : l # k => file'[l] = file[l]
      /\ \A q \in Procs : q # p => pc'[q] = pc[q] /\ job'[q] = job[q] /\ pc[q] \in {"idle", "waiting"}
  <2>1. Writing /\ AppendCut(p) /\ Shape
    BY DEF Writing
  <2>3. /\ Shape' /\ lock = p /\ pc[p] = "append" /\ pc'[p] = "idle" /\ UNCHANGED said
        /\ Cuts(p, k)
        /\ \A l \in Keys : l # k => file'[l] = file[l]
        /\ \A q \in Procs : q # p => pc'[q] = pc[q] /\ job'[q] = job[q] /\ pc[q] \in {"idle", "waiting"}
    BY <1>1, <2>1, CutShape
  <2> QED BY <2>3
<1>3. job[p].turns \in Seq(Line) /\ Len(job[p].turns) \in Nat
  BY DEF Writing, Shape, Job
<1>4. \/ \E n \in 0..Len(job[p].turns), rest \in {<<>>, <<Torn>>} :
           /\ n = 0 => rest = <<Torn>> \/ job[p].turns = <<>>
           /\ Lines(k)' = Lines(k) \o (SubSeq(job[p].turns, 1, n) \o rest)
      \/ Lines(k)' = Lines(k)
  <2>1. PICK n \in 0..Len(job[p].turns) - 1, rest \in {<<>>, <<Torn>>} :
          Lines(k)' = Lines(k) \o (SubSeq(job[p].turns, 1, n) \o rest)
    BY <1>2 DEF Cuts
  <2>2. n \in 0..Len(job[p].turns)
    BY <1>3, <2>1
  <2>3. CASE n = 0 /\ rest = <<>>
    <3>1. SubSeq(job[p].turns, 1, n) \o rest = <<>> /\ Lines(k) \in Seq(Line)
      BY <1>1, <1>3, <2>3, LinesTyped DEF Writing, Shape
    <3>2. Lines(k) \o <<>> = Lines(k)
      BY <3>1
    <3> QED BY <2>1, <3>1, <3>2
  <2>4. CASE n # 0 \/ rest = <<Torn>>
    BY <2>1, <2>2, <2>4
  <2> QED BY <2>1, <2>3, <2>4
<1>5. /\ SoundLines(said[k], Lines(k)')
      /\ \E n \in 0..Len(job[p].turns) :
           /\ Readable(k) => Readable(k)' /\ \E new \in Seq(Nat) : Stored(k)' = Stored(k) \o new
           /\ ToSet(Lines(k)) \subseteq ToSet(Lines(k)')
           /\ Gains(k, FirstTurns(job[p].turns, n))
  <2>1. CASE Lines(k)' = Lines(k)
    <3>1. (Readable(k)' <=> Readable(k)) /\ Stored(k)' = Stored(k)
      BY <2>1 DEF Readable, Stored
    <3>2. FirstTurns(job[p].turns, 0) = {} /\ 0 \in 0..Len(job[p].turns)
      BY <1>3 DEF FirstTurns
    <3>3. Gains(k, FirstTurns(job[p].turns, 0))
      BY <3>1, <3>2 DEF Gains
    <3>4. Stored(k) \o <<>> = Stored(k) /\ <<>> \in Seq(Nat)
      BY <1>1, LinesTyped DEF Writing, Shape
    <3> QED BY <1>1, <2>1, <3>1, <3>2, <3>3, <3>4 DEF Writing
  <2>2. CASE Lines(k)' # Lines(k)
    <3>1. PICK n \in 0..Len(job[p].turns), rest \in {<<>>, <<Torn>>} :
            /\ n = 0 => rest = <<Torn>> \/ job[p].turns = <<>>
            /\ Lines(k)' = Lines(k) \o (SubSeq(job[p].turns, 1, n) \o rest)
      BY <1>4, <2>2
    <3>2. DiskShape'
      BY <1>2 DEF Shape
    <3>3. /\ SoundLines(said[k], Lines(k)')
          /\ Readable(k) => /\ Readable(k)'
                            /\ Stored(k)' = Stored(k) \o TurnsIn(SubSeq(job[p].turns, 1, n) \o rest)
          /\ ToSet(Lines(k)) \subseteq ToSet(Lines(k)')
          /\ Gains(k, FirstTurns(job[p].turns, n))
      <4>1. Writing /\ pc[p] = "append" /\ k = job[p].key
        BY <1>1, <1>2
      <4> QED BY <3>1, <3>2, <4>1, Appended
    <3>4. TurnsIn(SubSeq(job[p].turns, 1, n) \o rest) \in Seq(Nat)
      <4>1. SubSeq(job[p].turns, 1, n) \in Seq(Line)
        BY <1>3, <3>1
      <4>2. rest \in Seq(Line)
        <5>1. <<>> \in Seq(Line) /\ <<Torn>> \in Seq(Line)
          BY LinesAreNumbers
        <5> QED BY <3>1, <5>1
      <4>3. SubSeq(job[p].turns, 1, n) \o rest \in Seq(Line)
        BY <4>1, <4>2
      <4> QED BY <4>3, TurnsAmongLines
    <3> QED BY <3>3, <3>4
  <2> QED BY <2>1, <2>2
<1>6. Batch(p)' /\ Prepared(p)' /\ Written(p)'
  BY <1>2 DEF Batch, Prepared, Written, Indexing
<1>7. \A q \in Procs : q # p => Batch(q)' /\ Prepared(q)' /\ Written(q)'
  <2>1. \A l \in Keys : said[l] <= said'[l]
    BY <1>2 DEF Writing, Shape
  <2> QED BY <1>2, <2>1, OthersReady
<1>8. ASSUME NEW l \in Keys PROVE SoundLines(said'[l], Lines(l)')
  <2>1. CASE l = k
    BY <1>2, <1>5, <2>1
  <2>2. CASE l # k
    BY <1>2, <2>2, SameFile DEF Writing
  <2> QED BY <2>1, <2>2
<1>10. Writing'
  BY <1>2, <1>6, <1>7, <1>8 DEF Writing
<1> QED BY <1>1, <1>5, <1>10

LEMMA RemovesWriting ==
  ASSUME Writing, NEW p \in Procs, Removes(p)
  PROVE  Writing'
<1>1. /\ Shape' /\ said' = said
      /\ \A q \in Procs : q # p => pc'[q] = pc[q] /\ job'[q] = job[q] /\ pc[q] \in {"idle", "waiting"}
  BY HolderStepShape, ClearCutShape DEF Removes, Writing
<1>2. ASSUME NEW k \in Keys PROVE SoundLines(said'[k], Lines(k)')
  <2>1. Lines(k)' \in {Lines(k), <<>>}
    BY RemovesFiles, SameFile, NoFileLeft
  <2>2. said[k] \in Nat
    BY DEF Writing, Shape
  <2> QED BY <1>1, <2>1, <2>2, SoundPlain DEF Writing
<1>4. \A q \in Procs : q # p => Batch(q)' /\ Prepared(q)' /\ Written(q)'
  <2>1. \A l \in Keys : said[l] <= said'[l]
    BY <1>1 DEF Writing, Shape
  <2> QED BY <1>1, <2>1, OthersReady
<1>5. Batch(p)' /\ Prepared(p)' /\ Written(p)'
  <2>1. CASE ClearCut(p)
    <3>1. pc'[p] = "idle"
      BY <2>1, ClearCutShape DEF Writing
    <3> QED BY <3>1 DEF Batch, Prepared, Written, Indexing
  <2>2. CASE HolderStep(p)
    <3>1. /\ pc[p] \notin {"idle", "waiting", "inspect", "append"}
          /\ pc'[p] = StepAfter(p) /\ job'[p] = [job[p] EXCEPT !.victims = VictimsAfter(p)]
      BY <2>2, HolderStepShape DEF Writing
    <3>2. PICK k \in Keys : k = job[p].key
      BY DEF Writing, Shape, Job
    <3>3. /\ job[p] \in Job /\ VictimsAfter(p) \subseteq job[p].victims /\ VictimsAfter(p) \in SUBSET Keys
      BY DEF Writing, Shape, Job, VictimsAfter
    <3>4. /\ job'[p].key = k /\ job'[p].turns = job[p].turns /\ job'[p].victims = VictimsAfter(p)
          /\ job'[p].entries = job[p].entries
      BY <3>1, <3>2, <3>3, VictimsTyped
    <3>5. pc'[p] \notin {"waiting", "inspect", "append"}
      BY <3>1 DEF StepAfter
    <3>6. Written(p)'
      <4> SUFFICES ASSUME pc'[p] \in Indexing
                   PROVE  /\ ToSet(TurnsIn(job'[p].turns)) \subseteq ToSet(Stored(k)')
                          /\ job'[p].victims \subseteq DOMAIN job[p].entries \ {k}
                          /\ pc'[p] # "index" => job'[p].victims # {}
        BY <3>4 DEF Written
      <4>1. pc[p] \in {"evict", "evictCopies"}
        BY <3>1 DEF StepAfter, Indexing
      <4>2. file'[k] = file[k]
        BY <3>2, <4>1, RemovesFiles DEF Removes
      <4>3. Stored(k)' = Stored(k)
        BY <4>2, SameFile
      <4>4. /\ ToSet(TurnsIn(job[p].turns)) \subseteq ToSet(Stored(k))
            /\ job[p].victims \subseteq DOMAIN job[p].entries \ {k} /\ job[p].victims # {}
        BY <3>2, <4>1 DEF Writing, Written, Indexing
      <4>5. pc'[p] # "index" => VictimsAfter(p) # {}
        BY <3>1, <4>1, <4>4 DEF StepAfter, VictimsAfter
      <4> QED BY <3>3, <3>4, <4>3, <4>4, <4>5
    <3> QED BY <3>5, <3>6 DEF Batch, Prepared
  <2> QED BY <2>1, <2>2 DEF Removes
<1> QED BY <1>1, <1>2, <1>4, <1>5 DEF Writing

LEMMA DamageWriting ==
  ASSUME Writing, NEW k \in Keys, Damage(k)
  PROVE  Writing'
<1>1. /\ Shape' /\ UNCHANGED <<said, copies, index, calls>> /\ lock = Free
      /\ Lines(k)' = <<Torn>> \o Tail(Lines(k)) /\ Lines(k) # <<>>
      /\ \A l \in Keys : l # k => file'[l] = file[l]
  BY DamageShape DEF Writing
<1>2. Lines(k) \in Seq(Line) /\ said[k] \in Nat
  BY LinesTyped DEF Damage, Writing, Shape
<1>3. ASSUME NEW l \in Keys PROVE SoundLines(said'[l], Lines(l)')
  <2>1. CASE l = k
    BY <1>1, <1>2, <2>1, SoundSplit DEF Writing
  <2>2. CASE l # k
    BY <1>1, <2>2, SameFile DEF Writing
  <2> QED BY <2>1, <2>2
<1>5. ASSUME NEW q \in Procs PROVE Batch(q)' /\ Prepared(q)' /\ Written(q)'
  <2>1. \A l \in Keys : said[l] <= said'[l]
    BY <1>1 DEF Writing, Shape
  <2>2. pc[q] \in {"idle", "waiting"}
    BY <1>1, SessionAssumption DEF Writing, Shape
  <2> QED BY <1>1, <2>1, <2>2, OthersReady DEF calls
<1> QED BY <1>1, <1>3, <1>5 DEF Writing

\* The steps that leave the files as they are.
LEMMA StillWriting ==
  ASSUME Writing, Shape', file' = file, \A l \in Keys : said[l] <= said'[l],
         \A q \in Procs : \/ pc'[q] = pc[q] /\ job'[q] = job[q]
                          \/ Batch(q)' /\ Prepared(q)' /\ Written(q)'
  PROVE  Writing'
<1>1. ASSUME NEW k \in Keys PROVE SoundLines(said'[k], Lines(k)') /\ 1..said[k] \subseteq 1..said'[k]
  <2>1. said[k] \in Nat /\ said'[k] \in Nat /\ said[k] <= said'[k]
    BY DEF Writing, Shape
  <2>2. Lines(k)' = Lines(k)
    BY SameFile
  <2> QED BY <2>1, <2>2, SoundMore DEF Writing
<1>3. \A q \in Procs : Batch(q)' /\ Prepared(q)' /\ Written(q)'
  BY OthersReady
<1> QED BY <1>1, <1>3 DEF Writing

LEMMA WritingStep == Writing /\ [Next]_vars => Writing'
<1> SUFFICES ASSUME Writing, [Next]_vars PROVE Writing'
  OBVIOUS
<1>0. Shape' /\ \A l \in Keys : said[l] <= said[l]
  BY ShapeStep DEF Writing, Shape
<1>1. ASSUME NEW k \in Keys, Say(k) PROVE Writing'
  BY <1>0, <1>1, SayShape, StillWriting DEF Writing, disk, calls
<1>2. ASSUME NEW p \in Procs, Begins(p) PROVE Writing'
  <2>1. PICK call \in {"append", "forget", "clear"}, k \in Keys, start \in Nat, turns \in Seq(Line) :
          /\ Begin(p, call, k, start, turns)
          /\ AllDiffer(turns) /\ ToSet(turns) \subseteq 1..said[k]
    BY <1>2, BeginsShape DEF Writing
  <2>2. /\ pc'[p] = "waiting" /\ job'[p] = Begun(call, k, start, turns)
        /\ \A q \in Procs : q # p => pc'[q] = pc[q] /\ job'[q] = job[q]
    BY <2>1, BeginShape DEF Writing
  <2>3. job'[p].key = k /\ job'[p].turns = turns
    BY <2>1, <2>2, BegunTyped
  <2>4. UNCHANGED <<said, file>>
    BY <2>1 DEF Begin, disk
  <2>5. Batch(p)' /\ Prepared(p)' /\ Written(p)'
    BY <2>1, <2>2, <2>3, <2>4 DEF Batch, Prepared, Written, Indexing, ToSet
  <2> QED BY <1>0, <2>2, <2>4, <2>5, StillWriting
<1>3. ASSUME NEW p \in Procs, Lock(p) PROVE Writing'
  <2>1. /\ pc[p] = "waiting" /\ pc'[p] \in {"inspect", "forgetCopies", "clear"}
        /\ \A q \in Procs : q # p => pc'[q] = pc[q]
        /\ UNCHANGED <<said, file, job>>
    BY <1>3, LockShape DEF Writing, Lock, disk
  <2>2. Batch(p)' /\ Prepared(p)' /\ Written(p)'
    BY <2>1 DEF Writing, Batch, Prepared, Written, Indexing
  <2> QED BY <1>0, <2>1, <2>2, StillWriting
<1>4. ASSUME NEW p \in Procs, Ends(p) PROVE Writing'
  <2>1. /\ pc'[p] = "idle" /\ UNCHANGED <<said, file>>
        /\ \A q \in Procs : q # p => pc'[q] = pc[q] /\ job'[q] = job[q]
    BY <1>4, EndsShape DEF Writing, disk
  <2>2. Batch(p)' /\ Prepared(p)' /\ Written(p)'
    BY <2>1 DEF Batch, Prepared, Written, Indexing
  <2> QED BY <1>0, <2>1, <2>2, StillWriting
<1>5. ASSUME NEW p \in Procs, Inspect(p) \/ AppendTurns(p) \/ AppendCut(p) PROVE Writing'
  BY <1>5, InspectWriting, AppendWriting, CutWriting
<1>6. ASSUME NEW p \in Procs, HolderStep(p) \/ ClearCut(p) PROVE Writing'
  BY <1>6, RemovesWriting DEF Removes
<1>7. ASSUME NEW k \in Keys, Damage(k) PROVE Writing'
  BY <1>7, DamageWriting
<1>8. CASE UNCHANGED vars
  BY <1>0, <1>8, StillWriting DEF vars, disk, calls
<1> QED BY <1>1, <1>2, <1>3, <1>4, <1>5, <1>6, <1>7, <1>8, StepKinds

LEMMA InitWriting == Init => Writing
<1> SUFFICES ASSUME Init PROVE Writing
  OBVIOUS
<1>1. Shape
  BY InitShape
<1>2. \A k \in Keys : SoundLines(said[k], Lines(k))
  BY <1>1, SoundPlain DEF Init, Lines, Exists, Shape
<1>4. \A p \in Procs : Batch(p) /\ Prepared(p) /\ Written(p)
  BY DEF Init, Batch, Prepared, Written, Indexing
<1> QED BY <1>1, <1>2, <1>4 DEF Writing

LEMMA AlwaysWriting == Spec => []Writing
BY InitWriting, WritingStep, PTL DEF Spec

-----------------------------------------------------------------------------
(* What the stored turns promise.                                            *)

\* The variables keep their types.
THEOREM SessionTypes == Spec => []TypeOK
<1>1. Writing => TypeOK
  <2> SUFFICES ASSUME Writing PROVE TypeOK
    OBVIOUS
  <2>1. ASSUME NEW k \in Keys
        PROVE  /\ said[k] <= Len(Transcript[k])
               /\ Exists(k) => file[k] \in [start : Nat, lines : Seq(Line), ended : BOOLEAN]
               /\ copies[k] \in Seq(Seq(Line))
    BY LinesTyped DEF Writing, Shape, DiskShape, File
  <2>2. index # NoIndex => /\ DOMAIN index \subseteq Keys
                           /\ \A k \in DOMAIN index : index[k] \in [start : Nat, turns : Seq(Nat), bytes : Nat]
    <3>1. index \in Entries \cup {NoIndex}
      BY DEF Writing, Shape, DiskShape
    <3> QED BY <3>1, EntriesAreEntries
  <2> QED BY <2>1, <2>2 DEF TypeOK, Writing, Shape
<1> QED BY <1>1, AlwaysWriting, PTL

\* When an append answers, every turn of its batch can be read, whatever an
\* earlier crash left in the file.
THEOREM TurnsAnswered == Spec => []AnswerStored
<1>1. Writing => AnswerStored
  <2> SUFFICES ASSUME Writing, NEW p \in Procs, pc[p] \in Indexing, NEW k, k = job[p].key
               PROVE  Texts(k, TurnsIn(job[p].turns)) \subseteq Texts(k, Stored(k))
    BY DEF AnswerStored, Indexing
  <2>1. ToSet(TurnsIn(job[p].turns)) \subseteq ToSet(Stored(k))
    BY DEF Writing, Written
  <2> QED BY <2>1 DEF Texts
<1> QED BY <1>1, AlwaysWriting, PTL

\* A turn is stored once.
LEMMA StoredDistinct ==
  ASSUME Writing, NEW k \in Keys, NEW i \in DOMAIN Stored(k), NEW j \in DOMAIN Stored(k),
         Stored(k)[i] = Stored(k)[j]
  PROVE  i = j
<1> DEFINE s == Lines(k)
           v == TurnsIn(s)
<1>1. s \in Seq(Line) /\ SoundLines(said[k], s)
  BY LinesTyped DEF Writing, Shape
<1>2. Stored(k) = v
  <2>1. Stored(k) \in {v, <<>>}
    BY DEF Stored
  <2>2. Stored(k) # <<>>
    OBVIOUS
  <2> QED BY <2>1, <2>2
<1> HIDE DEF s
<1>3. /\ v \in Seq(Nat) /\ ToSet(v) = {line \in ToSet(s) : line > Header}
      /\ \A a, b \in DOMAIN v : a < b =>
           \E x, y \in DOMAIN s : x < y /\ s[x] = v[a] /\ s[y] = v[b]
  BY <1>1, TurnsAmongLines
<1> HIDE DEF v
<1>4. ASSUME NEW a \in DOMAIN v, NEW b \in DOMAIN v, a < b PROVE v[a] # v[b]
  <2>1. PICK x, y \in DOMAIN s : x < y /\ s[x] = v[a] /\ s[y] = v[b]
    BY <1>3, <1>4
  <2>2. v[a] > Header
    BY <1>3 DEF ToSet
  <2>3. x # y
    BY <1>1, <2>1
  <2> QED BY <1>1, <2>1, <2>2, <2>3 DEF SoundLines
<1>5. i \in DOMAIN v /\ j \in DOMAIN v /\ DOMAIN v \subseteq Nat
  BY <1>2, <1>3
<1> QED BY <1>2, <1>4, <1>5

\* No text is stored more often than it was said, however many hooks hand over
\* overlapping tails and however often a cut-off append is retried.
THEOREM StoredAtMostOnce == Spec => []StoredOnce
<1>1. Writing => StoredOnce
  <2> SUFFICES ASSUME Writing, NEW k \in Keys, NEW t \in ToSet(Stored(k))
               PROVE  Cardinality({i \in DOMAIN Stored(k) : Text(k, Stored(k)[i]) = Text(k, t)})
                        <= Cardinality({u \in 1..said[k] : Text(k, u) = Text(k, t)})
    BY DEF StoredOnce
  <2> DEFINE v == Stored(k)
             A == {i \in DOMAIN v : Text(k, v[i]) = Text(k, t)}
             B == {u \in 1..said[k] : Text(k, u) = Text(k, t)}
             f == [i \in A |-> v[i]]
  <2>1. ToSet(v) \subseteq 1..said[k] /\ said[k] \in Nat
    BY StoredSaid DEF Writing, Shape
  <2>2. \A i, j \in DOMAIN v : v[i] = v[j] => i = j
    BY StoredDistinct
  <2> HIDE DEF v
  <2>3. f \in Injection(A, B)
    <3>1. \A i \in A : v[i] \in B
      BY <2>1 DEF ToSet
    <3> QED BY <2>2, <3>1 DEF Injection, IsInjective
  <2>4. IsFiniteSet(B)
    <3>1. IsFiniteSet(1..said[k])
      BY <2>1, FS_Interval
    <3> QED BY <3>1, FS_Subset
  <2> HIDE DEF A, B, f
  <2>5. Cardinality(A) <= Cardinality(B)
    BY <2>3, <2>4, FS_Injection
  <2> QED BY <2>5 DEF A, B, v
<1> QED BY <1>1, AlwaysWriting, PTL

-----------------------------------------------------------------------------
(* What the index tells.                                                     *)

\* The listing shows the session as it is.
Shown(k) ==
  /\ k \in DOMAIN Listing <=> Readable(k)
  /\ Readable(k) => Listing[k] = Entry(k)

\* Somebody has written the session's file and not yet the index.
Busy(k) == \E p \in Procs : pc[p] \in Indexing /\ job[p].key = k

\* The entries to be written show the session as it is, if it still has a file.
Gathered(p, k) ==
  /\ k \in DOMAIN job[p].entries /\ Exists(k) <=> Readable(k)
  /\ Readable(k) => job[p].entries[k] = Entry(k)
  /\ k = job[p].key => Readable(k)

GatheredAll(p) ==
  pc[p] \in Indexing =>
    \A k \in Keys : k \notin stale \/ k = job[p].key \/ index = NoIndex => Gathered(p, k)

Unlinked(p) == pc[p] = "forgetIndex" => ~Exists(job[p].key)

Indexed ==
  /\ \A k \in Keys \ stale : Busy(k) \/ Shown(k)
  /\ \A p \in Procs : GatheredAll(p) /\ Unlinked(p)

LEMMA ReadableExists ==
  \A k : Readable(k) => Exists(k)
BY DEF Readable, Lines

LEMMA ListingAt ==
  \A k \in Keys :
    /\ index = NoIndex => /\ k \in DOMAIN Listing <=> Readable(k)
                          /\ Readable(k) => Listing[k] = Entry(k)
    /\ index # NoIndex => /\ k \in DOMAIN Listing <=> k \in DOMAIN index /\ Exists(k)
                          /\ k \in DOMAIN Listing => Listing[k] = index[k]
BY DEF Listing

LEMMA ListingAtAfter ==
  \A k \in Keys :
    /\ index' = NoIndex => /\ k \in DOMAIN Listing' <=> Readable(k)'
                           /\ Readable(k)' => Listing'[k] = Entry(k)'
    /\ index' # NoIndex => /\ k \in DOMAIN Listing' <=> k \in DOMAIN index' /\ Exists(k)'
                           /\ k \in DOMAIN Listing' => Listing'[k] = index'[k]
<1>1. (\A k \in Keys :
         /\ index = NoIndex => /\ k \in DOMAIN Listing <=> Readable(k)
                               /\ Readable(k) => Listing[k] = Entry(k)
         /\ index # NoIndex => /\ k \in DOMAIN Listing <=> k \in DOMAIN index /\ Exists(k)
                               /\ k \in DOMAIN Listing => Listing[k] = index[k])'
  BY ListingAt, PTL
<1> QED BY <1>1

\* A session whose file is as it was, or gone, is shown as it was.
LEMMA ShownKept ==
  ASSUME NEW k \in Keys, index' = index, Shown(k), file'[k] = file[k] \/ file'[k] = NoFile
  PROVE  Shown(k)'
<1>1. CASE file'[k] = file[k]
  <2>1. (Readable(k)' <=> Readable(k)) /\ (Exists(k)' <=> Exists(k)) /\ Entry(k)' = Entry(k)
    BY <1>1, SameFile
  <2>2. (k \in DOMAIN Listing' <=> k \in DOMAIN Listing)
        /\ (k \in DOMAIN Listing => Listing'[k] = Listing[k])
    BY <2>1, ListingAt, ListingAtAfter
  <2> QED BY <2>1, <2>2 DEF Shown
<1>2. CASE file'[k] = NoFile
  <2>1. ~Readable(k)' /\ ~Exists(k)'
    BY <1>2, NoFileLeft
  <2>2. k \notin DOMAIN Listing'
    BY <2>1, ListingAtAfter
  <2> QED BY <2>1, <2>2 DEF Shown
<1> QED BY <1>1, <1>2

LEMMA GoneShown ==
  ASSUME NEW k \in Keys, file'[k] = NoFile
  PROVE  Shown(k)'
<1>1. ~Readable(k)' /\ ~Exists(k)'
  BY NoFileLeft
<1>2. k \notin DOMAIN Listing'
  BY <1>1, ListingAtAfter
<1> QED BY <1>1, <1>2 DEF Shown

\* Before the holder writes, no session is busy.
LEMMA NobodyBusy ==
  ASSUME Writing, Indexed, NEW p \in Procs, pc[p] \notin Indexing,
         pc[p] \notin {"idle", "waiting"} \/ lock = Free
  PROVE  \A k \in Keys \ stale : Shown(k)
<1>1. \A q \in Procs : pc[q] \notin Indexing
  BY SessionAssumption DEF Writing, Shape, Indexing
<1> QED BY <1>1 DEF Indexed, Busy

\* A call that touches neither the files nor the index.
LEMMA IndexedStill ==
  ASSUME Indexed, file' = file, index' = index, stale' = stale,
         \A q \in Procs : \/ pc'[q] = pc[q] /\ job'[q] = job[q]
                          \/ {pc[q], pc'[q]} \cap (Indexing \cup {"forgetIndex"}) = {}
  PROVE  Indexed'
<1>1. \A k : /\ (Readable(k)' <=> Readable(k)) /\ (Exists(k)' <=> Exists(k))
             /\ Entry(k)' = Entry(k)
  BY SameFile
<1>2. ASSUME NEW k \in Keys \ stale' PROVE Busy(k)' \/ Shown(k)'
  <2>1. CASE Busy(k)
    BY <2>1 DEF Busy
  <2>2. CASE Shown(k)
    BY <2>2, ShownKept
  <2> QED BY <2>1, <2>2 DEF Indexed
<1>3. ASSUME NEW q \in Procs PROVE GatheredAll(q)' /\ Unlinked(q)'
  <2>1. CASE pc'[q] = pc[q] /\ job'[q] = job[q]
    BY <1>1, <2>1 DEF Indexed, GatheredAll, Gathered, Unlinked
  <2>2. CASE {pc[q], pc'[q]} \cap (Indexing \cup {"forgetIndex"}) = {}
    BY <2>2 DEF GatheredAll, Unlinked
  <2> QED BY <2>1, <2>2
<1> QED BY <1>2, <1>3 DEF Indexed

\* The holder moves to a step in which nothing is gathered.
LEMMA IndexedAtRest ==
  ASSUME NEW p \in Procs, pc'[p] \notin Indexing, Unlinked(p)',
         \A q \in Procs : q # p => pc'[q] = pc[q] /\ pc[q] \in {"idle", "waiting"},
         \A k \in Keys \ stale' : Shown(k)'
  PROVE  Indexed'
BY DEF Indexed, GatheredAll, Unlinked, Indexing

LEMMA InspectIndexed ==
  ASSUME Writing, Indexed, NEW p \in Procs, Inspect(p)
  PROVE  Indexed'
<1>1. /\ pc[p] = "inspect" /\ pc'[p] = "append" /\ UNCHANGED <<index, stale>>
      /\ \A q \in Procs : q # p => pc'[q] = pc[q] /\ pc[q] \in {"idle", "waiting"}
  BY InspectShape DEF Writing, Inspect
<1>2. \A k \in Keys \ stale : Shown(k)
  BY <1>1, NobodyBusy DEF Indexing
<1>3. \A k \in Keys \ stale' : Shown(k)'
  BY <1>1, <1>2, Inspected, ShownKept
<1>4. pc'[p] \notin Indexing /\ Unlinked(p)'
  BY <1>1 DEF Indexing, Unlinked
<1> QED BY <1>1, <1>3, <1>4, IndexedAtRest

\* Once the file is written, the entries show what is in the files.
LEMMA AppendIndexed ==
  ASSUME Writing, Indexed, NEW p \in Procs, AppendTurns(p)
  PROVE  Indexed'
<1>1. PICK l \in Keys : l = job[p].key /\ Readable(l)'
  BY AppendWriting
<1>2. /\ pc[p] = "append" /\ pc'[p] \in Indexing /\ job'[p].key = l
      /\ \A k \in Keys : k # l => file'[k] = file[k]
      /\ job'[p].entries = Refreshed(l)'
      /\ \A q \in Procs : q # p => pc'[q] = pc[q] /\ pc[q] \in {"idle", "waiting"}
      /\ UNCHANGED <<index, stale>>
  BY <1>1, AppendShape DEF Writing, AppendTurns, Indexing
<1>3. \A k \in Keys \ stale : k # l => Shown(k)'
  BY <1>2, NobodyBusy, ShownKept DEF Indexing
<1>4. Busy(l)'
  BY <1>2 DEF Busy
<1>5. \A k : Readable(k)' => Exists(k)'
  <2>1. (\A k : Readable(k) => Exists(k))'
    BY ReadableExists, PTL
  <2> QED BY <2>1
<1>6. ASSUME NEW k \in Keys, k \notin stale' \/ k = l \/ index' = NoIndex PROVE Gathered(p, k)'
  <2>1. CASE k = l
    <3>1. k \in DOMAIN Refreshed(l)' /\ Refreshed(l)'[k] = Entry(k)'
      BY <1>1, <2>1 DEF Refreshed
    <3> QED BY <1>1, <1>2, <1>5, <2>1, <3>1 DEF Gathered
  <2>2. CASE k # l
    <3>1. /\ k \in DOMAIN Refreshed(l)' <=> k \in DOMAIN Listing'
          /\ k \in DOMAIN Listing' => Refreshed(l)'[k] = Listing'[k]
      BY <2>2 DEF Refreshed
    <3>2. Shown(k)'
      BY <1>2, <1>3, <1>6, <2>2, ListingAtAfter DEF Shown
    <3> QED BY <1>2, <1>5, <2>2, <3>1, <3>2 DEF Gathered, Shown
  <2> QED BY <2>1, <2>2
<1>7. GatheredAll(p)' /\ Unlinked(p)'
  BY <1>2, <1>6 DEF GatheredAll, Unlinked, Indexing
<1>8. \A q \in Procs : q # p => GatheredAll(q)' /\ Unlinked(q)'
  BY <1>2 DEF GatheredAll, Unlinked, Indexing
<1>9. \A k \in Keys \ stale' : Busy(k)' \/ Shown(k)'
  BY <1>2, <1>3, <1>4
<1> QED BY <1>7, <1>8, <1>9 DEF Indexed

LEMMA CutIndexed ==
  ASSUME Writing, Indexed, NEW p \in Procs, AppendCut(p)
  PROVE  Indexed'
<1>1. PICK l \in Keys : l = job[p].key
  BY DEF Writing, Shape, Job
<1>2. /\ pc[p] = "append" /\ pc'[p] = "idle" /\ stale' = stale \cup {l}
      /\ \A k \in Keys : k # l => file'[k] = file[k]
      /\ \A q \in Procs : q # p => pc'[q] = pc[q] /\ pc[q] \in {"idle", "waiting"}
  BY <1>1, CutShape DEF Writing
<1>3. index' = index
  BY DEF AppendCut
<1>4. \A k \in Keys \ stale' : Shown(k)'
  BY <1>2, <1>3, NobodyBusy, ShownKept DEF Indexing
<1>5. pc'[p] \notin Indexing /\ Unlinked(p)'
  BY <1>2 DEF Indexing, Unlinked
<1> QED BY <1>2, <1>4, <1>5, IndexedAtRest

LEMMA DamageIndexed ==
  ASSUME Writing, Indexed, NEW l \in Keys, Damage(l)
  PROVE  Indexed'
<1>1. /\ lock = Free /\ UNCHANGED <<index, pc, job>> /\ stale' = stale \cup {l}
      /\ \A k \in Keys : k # l => file'[k] = file[k]
  BY DamageShape DEF Writing, Damage, calls
<1>2. \A q \in Procs : pc[q] \in {"idle", "waiting"}
  BY <1>1, SessionAssumption DEF Writing, Shape
<1>3. \A k \in Keys \ stale : Shown(k)
  BY <1>2 DEF Indexed, Busy, Indexing
<1>4. \A k \in Keys \ stale' : Shown(k)'
  BY <1>1, <1>3, ShownKept
<1>5. \A q \in Procs : GatheredAll(q)' /\ Unlinked(q)'
  BY <1>1, <1>2 DEF GatheredAll, Unlinked, Indexing
<1> QED BY <1>4, <1>5 DEF Indexed

\* The file of a session dropped.
LEMMA EvictIndexed ==
  ASSUME Writing, Indexed, NEW p \in Procs, Evict(p) \/ EvictCopies(p)
  PROVE  Indexed'
<1>1. PICK l \in Keys : l = job[p].key
  BY DEF Writing, Shape, Job
<1>2. HolderStep(p) /\ Removes(p) /\ pc[p] \in {"evict", "evictCopies"} /\ UNCHANGED <<index, stale>>
  BY DEF HolderStep, Removes, Evict, EvictCopies
<1>3. /\ pc'[p] \in Indexing /\ job'[p].entries = job[p].entries /\ job'[p].key = l
      /\ \A q \in Procs : q # p => pc'[q] = pc[q] /\ pc[q] \in {"idle", "waiting"}
  <2>1. /\ pc'[p] = StepAfter(p) /\ job'[p] = [job[p] EXCEPT !.victims = VictimsAfter(p)]
        /\ \A q \in Procs : q # p => pc'[q] = pc[q] /\ pc[q] \in {"idle", "waiting"}
    BY <1>2, HolderStepShape DEF Writing
  <2>2. job[p] \in Job /\ VictimsAfter(p) \in SUBSET Keys
    BY DEF Writing, Shape, Job, VictimsAfter
  <2>3. job'[p].entries = job[p].entries /\ job'[p].key = l
    BY <1>1, <2>1, <2>2, VictimsTyped
  <2> QED BY <1>2, <2>1, <2>3 DEF StepAfter, Indexing
<1>4. /\ \A k \in Keys : file'[k] = file[k] \/ file'[k] = NoFile
      /\ file'[l] = file[l]
  BY <1>1, <1>2, RemovesFiles
<1>5. ASSUME NEW k \in Keys \ stale' PROVE Busy(k)' \/ Shown(k)'
  <2>1. CASE k = l
    BY <1>3, <2>1 DEF Busy
  <2>2. CASE k # l
    <3>1. ~Busy(k)
      BY <1>1, <1>3, <2>2 DEF Busy, Indexing
    <3>2. Shown(k)
      BY <1>2, <3>1 DEF Indexed
    <3> QED BY <1>2, <1>4, <3>2, ShownKept
  <2> QED BY <2>1, <2>2
<1>6. ASSUME NEW k \in Keys, k \notin stale' \/ k = l \/ index' = NoIndex PROVE Gathered(p, k)'
  <2>1. Gathered(p, k)
    BY <1>1, <1>2, <1>6 DEF Indexed, GatheredAll, Indexing
  <2>2. CASE file'[k] = file[k]
    BY <1>1, <1>3, <2>1, <2>2, SameFile DEF Gathered
  <2>3. CASE file'[k] # file[k]
    <3>1. ~Readable(k)' /\ ~Exists(k)' /\ k # l
      BY <1>4, <2>3, NoFileLeft
    <3> QED BY <1>3, <3>1 DEF Gathered
  <2> QED BY <2>2, <2>3
<1>7. GatheredAll(p)' /\ Unlinked(p)'
  BY <1>3, <1>6 DEF GatheredAll, Unlinked, Indexing
<1>8. \A q \in Procs : q # p => GatheredAll(q)' /\ Unlinked(q)'
  BY <1>3 DEF GatheredAll, Unlinked, Indexing
<1> QED BY <1>5, <1>7, <1>8 DEF Indexed

\* The index is written from the entries.
LEMMA RewriteIndexed ==
  ASSUME Writing, Indexed, NEW p \in Procs, IndexAppend(p)
  PROVE  \A k \in Keys \ stale' : Shown(k)'
<1> SUFFICES ASSUME NEW k \in Keys \ stale' PROVE Shown(k)'
  OBVIOUS
<1>1. PICK l \in Keys : l = job[p].key
  BY DEF Writing, Shape, Job
<1>2. /\ pc[p] = "index" /\ file' = file
      /\ index' = [m \in {m \in DOMAIN job[p].entries : m = l \/ Exists(m)} |-> job[p].entries[m]]
      /\ stale' = IF index = NoIndex THEN {} ELSE stale \ {l}
  BY <1>1 DEF IndexAppend, WriteIndex
<1>3. index' # NoIndex
  <2>3. {m \in DOMAIN job[p].entries : m = l \/ Exists(m)} \in SUBSET Keys
        /\ \A m \in DOMAIN job[p].entries : job[p].entries[m] \in [start : Nat, turns : Seq(Nat), bytes : Nat]
    BY EntriesAreEntries DEF Writing, Shape, Job
  <2>4. PICK S \in SUBSET Keys : S = {m \in DOMAIN job[p].entries : m = l \/ Exists(m)}
    BY <2>3
  <2>5. index' = [m \in S |-> index'[m]] /\ \A m \in S : index'[m] \in [start : Nat, turns : Seq(Nat), bytes : Nat]
    BY <1>2, <2>3, <2>4
  <2>6. index' \in Entries
    BY <2>5, EntriesOver
  <2> QED BY <2>6, EntriesAreEntries
<1>4. Gathered(p, k)
  BY <1>1, <1>2 DEF Indexed, GatheredAll, Indexing
<1>5. (Readable(k)' <=> Readable(k)) /\ (Exists(k)' <=> Exists(k)) /\ Entry(k)' = Entry(k)
  BY <1>2, SameFile
<1>6. k \in DOMAIN index' /\ Exists(k)' <=> Readable(k)'
  BY <1>2, <1>4, <1>5 DEF Gathered
<1>7. k \in DOMAIN index' => index'[k] = job[p].entries[k]
  BY <1>2
<1> QED BY <1>3, <1>4, <1>5, <1>6, <1>7, ListingAtAfter DEF Shown, Gathered

LEMMA ForgetIndexed ==
  ASSUME Writing, Indexed, NEW p \in Procs, ForgetIndex(p)
  PROVE  \A k \in Keys \ stale' : Shown(k)'
<1> SUFFICES ASSUME NEW k \in Keys \ stale' PROVE Shown(k)'
  OBVIOUS
<1>1. PICK l \in Keys : l = job[p].key
  BY DEF Writing, Shape, Job
<1>2. /\ pc[p] = "forgetIndex" /\ file' = file
      /\ index' = [m \in DOMAIN Listing \ {l} |-> Listing[m]]
      /\ stale' = IF index = NoIndex THEN {} ELSE stale \ {l}
  BY <1>1 DEF ForgetIndex, WriteIndex
<1>3. index' # NoIndex
  <2>1. DOMAIN Listing \ {l} \in SUBSET Keys
        /\ \A m \in DOMAIN Listing : Listing[m] \in [start : Nat, turns : Seq(Nat), bytes : Nat]
    BY ListingTyped, EntriesAreEntries DEF Writing, Shape
  <2>2. index' \in Entries
    BY <1>2, <2>1, EntriesOver
  <2> QED BY <2>2, EntriesAreEntries
<1>4. (Readable(k)' <=> Readable(k)) /\ (Exists(k)' <=> Exists(k)) /\ Entry(k)' = Entry(k)
  BY <1>2, SameFile
<1>5. CASE k = l
  <2>1. ~Exists(k)
    BY <1>1, <1>2, <1>5 DEF Indexed, Unlinked
  <2>2. ~Exists(k)' /\ ~Readable(k)'
    BY <1>4, <2>1, ReadableExists
  <2> QED BY <1>3, <2>2, ListingAtAfter DEF Shown
<1>6. CASE k # l
  <2>1. Shown(k)
    <3>1. CASE index = NoIndex
      BY <3>1, ListingAt DEF Shown
    <3>2. CASE index # NoIndex
      <4>1. k \in Keys \ stale
        BY <1>2, <1>6, <3>2
      <4>2. pc[p] \notin Indexing /\ pc[p] \notin {"idle", "waiting"}
        BY <1>2 DEF Indexing
      <4> QED BY <4>1, <4>2, NobodyBusy
    <3> QED BY <3>1, <3>2
  <2>2. k \in DOMAIN index' <=> k \in DOMAIN Listing
    BY <1>2, <1>6
  <2>3. k \in DOMAIN index' => index'[k] = Listing[k]
    BY <1>2
  <2>4. k \in DOMAIN Listing => Exists(k)
    BY <2>1, ReadableExists DEF Shown
  <2> QED BY <1>3, <1>4, <2>1, <2>2, <2>3, <2>4, ListingAtAfter DEF Shown
<1> QED BY <1>5, <1>6

\* A file removed, or all of them.
LEMMA ForgottenIndexed ==
  ASSUME Writing, Indexed, NEW p \in Procs, ForgetFile(p)
  PROVE  Indexed'
<1>1. PICK l \in Keys : l = job[p].key
  BY DEF Writing, Shape, Job
<1>2. /\ HolderStep(p) /\ Removes(p) /\ pc[p] = "forgetFile" /\ pc'[p] = "forgetIndex"
      /\ UNCHANGED <<index, stale, job>> /\ file' = [file EXCEPT ![l] = NoFile]
      /\ pc' = [pc EXCEPT ![p] = "forgetIndex"]
  BY <1>1 DEF ForgetFile, Unlink, HolderStep, Removes, Writing, Shape
<1>3. \A q \in Procs : q # p => pc'[q] = pc[q] /\ pc[q] \in {"idle", "waiting"}
  BY <1>2, HolderStepShape DEF Writing
<1>4. \A k \in Keys \ stale' : Shown(k)'
  BY <1>2, NobodyBusy, RemovesFiles, ShownKept DEF Indexing
<1>5. Unlinked(p)' /\ pc'[p] \notin Indexing
  <2>1. file'[l] = NoFile
    BY <1>2 DEF Writing, Shape, DiskShape
  <2> QED BY <1>1, <1>2, <2>1 DEF Unlinked, Indexing, Exists
<1> QED BY <1>3, <1>4, <1>5, IndexedAtRest

LEMMA ClearIndexed ==
  ASSUME Writing, Indexed, NEW p \in Procs, ClearNamespace(p) \/ ClearCut(p)
  PROVE  Indexed'
<1>1. /\ pc[p] = "clear" /\ pc'[p] \in {"release", "idle"}
      /\ \A q \in Procs : q # p => pc'[q] = pc[q] /\ pc[q] \in {"idle", "waiting"}
  <2>1. CASE ClearNamespace(p)
    <3>1. HolderStep(p) /\ pc[p] = "clear"
      BY <2>1 DEF HolderStep, ClearNamespace
    <3>2. /\ pc'[p] = StepAfter(p)
          /\ \A q \in Procs : q # p => pc'[q] = pc[q] /\ pc[q] \in {"idle", "waiting"}
      BY <3>1, HolderStepShape DEF Writing
    <3> QED BY <3>1, <3>2 DEF StepAfter
  <2>2. CASE ClearCut(p)
    BY <2>2, ClearCutShape DEF Writing
  <2> QED BY <2>1, <2>2
<1>2. PICK files \in SUBSET Keys, quarantined \in SUBSET Keys, withIndex \in BOOLEAN :
        /\ RemoveTree(files, quarantined, withIndex)
        /\ stale' = stale \/ index' = NoIndex
  BY DEF ClearNamespace, ClearCut, RemoveTree
<1>3. ASSUME NEW k \in Keys \ stale' PROVE Shown(k)'
  <2>1. file'[k] = file[k] \/ file'[k] = NoFile
    BY <1>2 DEF RemoveTree
  <2>2. CASE index' = NoIndex
    BY <2>2, ListingAtAfter DEF Shown
  <2>3. CASE index' # NoIndex
    <3>1. index' = index /\ k \in Keys \ stale
      BY <1>2, <2>3 DEF RemoveTree
    <3>2. Shown(k)
      BY <1>1, <3>1, NobodyBusy DEF Indexing
    <3> QED BY <2>1, <3>1, <3>2, ShownKept
  <2> QED BY <2>2, <2>3
<1>4. pc'[p] \notin Indexing /\ Unlinked(p)'
  BY <1>1 DEF Indexing, Unlinked
<1> QED BY <1>1, <1>3, <1>4, IndexedAtRest

LEMMA RewrittenIndexed ==
  ASSUME Writing, Indexed, NEW p \in Procs, IndexAppend(p) \/ ForgetIndex(p)
  PROVE  Indexed'
<1>1. \A k \in Keys \ stale' : Shown(k)'
  BY RewriteIndexed, ForgetIndexed
<1>2. /\ pc'[p] = "release"
      /\ \A q \in Procs : q # p => pc'[q] = pc[q] /\ pc[q] \in {"idle", "waiting"}
  <2>1. HolderStep(p) /\ pc[p] \in {"index", "forgetIndex"}
    BY DEF HolderStep, IndexAppend, ForgetIndex
  <2>2. /\ pc'[p] = StepAfter(p)
        /\ \A q \in Procs : q # p => pc'[q] = pc[q] /\ pc[q] \in {"idle", "waiting"}
    BY <2>1, HolderStepShape DEF Writing
  <2> QED BY <2>1, <2>2 DEF StepAfter
<1>3. pc'[p] \notin Indexing /\ Unlinked(p)'
  BY <1>2 DEF Indexing, Unlinked
<1> QED BY <1>1, <1>2, <1>3, IndexedAtRest

\* A call that ends leaves its session's last write out of the index, or has
\* written it.
LEMMA EndsIndexed ==
  ASSUME Writing, Indexed, NEW p \in Procs, Ends(p)
  PROVE  Indexed'
<1>1. /\ pc'[p] = "idle" /\ UNCHANGED <<file, index>>
      /\ stale' = IF Killed(p) /\ pc[p] \in Indexing THEN stale \cup {job[p].key} ELSE stale
      /\ \A q \in Procs : q # p => pc'[q] = pc[q] /\ job'[q] = job[q]
  BY EndsShape DEF Writing, disk
<1>2. pc[p] \in Indexing \cup {"forgetIndex"} => lock = p /\ Killed(p)
  BY DEF Writing, Shape, Ends, TimeOut, Release, Indexing
<1>3. CASE pc[p] \in Indexing \cup {"forgetIndex"}
  <2>1. \A q \in Procs : q # p => pc[q] \in {"idle", "waiting"}
    BY <1>2, <1>3, SessionAssumption DEF Writing, Shape
  <2>2. ASSUME NEW k \in Keys \ stale' PROVE Shown(k)'
    <3>1. k \notin stale /\ ~Busy(k)
      BY <1>1, <1>2, <1>3, <2>1 DEF Busy, Indexing
    <3>2. Shown(k)
      BY <3>1 DEF Indexed
    <3> QED BY <1>1, <3>2, ShownKept
  <2>3. pc'[p] \notin Indexing /\ Unlinked(p)'
    BY <1>1 DEF Indexing, Unlinked
  <2> QED BY <1>1, <2>1, <2>2, <2>3, IndexedAtRest
<1>4. CASE pc[p] \notin Indexing \cup {"forgetIndex"}
  <2>1. stale' = stale /\ {pc[p], pc'[p]} \cap (Indexing \cup {"forgetIndex"}) = {}
    BY <1>1, <1>4 DEF Indexing
  <2> QED BY <1>1, <2>1, IndexedStill
<1> QED BY <1>3, <1>4

LEMMA IndexedStep ==
  ASSUME Writing, Indexed, [Next]_vars
  PROVE  Indexed'
<1>1. ASSUME NEW k \in Keys, Say(k) PROVE Indexed'
  BY <1>1, IndexedStill DEF Say, disk, calls
<1>2. ASSUME NEW p \in Procs, Begins(p) PROVE Indexed'
  <2>1. PICK call \in {"append", "forget", "clear"}, k \in Keys, start \in Nat, turns \in Seq(Line) :
          Begin(p, call, k, start, turns)
    BY <1>2, BeginsShape DEF Writing
  <2>2. /\ pc[p] = "idle" /\ pc'[p] = "waiting"
        /\ \A q \in Procs : q # p => pc'[q] = pc[q] /\ job'[q] = job[q]
    BY <2>1, BeginShape DEF Writing, Begin
  <2>3. UNCHANGED <<file, index, stale>>
    BY <2>1 DEF Begin, disk
  <2>4. {pc[p], pc'[p]} \cap (Indexing \cup {"forgetIndex"}) = {}
    BY <2>2 DEF Indexing
  <2> QED BY <2>2, <2>3, <2>4, IndexedStill
<1>3. ASSUME NEW p \in Procs, Lock(p) PROVE Indexed'
  <2>1. /\ pc[p] = "waiting" /\ pc'[p] \in {"inspect", "forgetCopies", "clear"}
        /\ \A q \in Procs : q # p => pc'[q] = pc[q]
        /\ UNCHANGED <<file, index, stale, job>>
    BY <1>3, LockShape DEF Writing, Lock, disk
  <2>2. {pc[p], pc'[p]} \cap (Indexing \cup {"forgetIndex"}) = {}
    BY <2>1 DEF Indexing
  <2> QED BY <2>1, <2>2, IndexedStill
<1>4. ASSUME NEW p \in Procs, Ends(p) PROVE Indexed'
  BY <1>4, EndsIndexed
<1>5. ASSUME NEW p \in Procs, Inspect(p) \/ AppendTurns(p) \/ AppendCut(p) PROVE Indexed'
  BY <1>5, InspectIndexed, AppendIndexed, CutIndexed
<1>6. ASSUME NEW p \in Procs, ForgetCopies(p) PROVE Indexed'
  <2>1. HolderStep(p) /\ pc[p] = "forgetCopies" /\ UNCHANGED <<file, index, stale, job>>
    BY <1>6 DEF HolderStep, ForgetCopies
  <2>2. pc'[p] = StepAfter(p) /\ \A q \in Procs : q # p => pc'[q] = pc[q]
    BY <2>1, HolderStepShape DEF Writing
  <2>3. {pc[p], pc'[p]} \cap (Indexing \cup {"forgetIndex"}) = {}
    BY <2>1, <2>2 DEF StepAfter, Indexing
  <2> QED BY <2>1, <2>2, <2>3, IndexedStill
<1>7. ASSUME NEW p \in Procs, HolderStep(p) \/ ClearCut(p) PROVE Indexed'
  BY <1>6, <1>7, EvictIndexed, RewrittenIndexed, ForgottenIndexed, ClearIndexed DEF HolderStep
<1>8. ASSUME NEW k \in Keys, Damage(k) PROVE Indexed'
  BY <1>8, DamageIndexed
<1>9. CASE UNCHANGED vars
  BY <1>9, IndexedStill DEF vars, disk, calls
<1> QED BY <1>1, <1>2, <1>3, <1>4, <1>5, <1>7, <1>8, <1>9, StepKinds

LEMMA AlwaysIndexed == Spec => [](Writing /\ Indexed)
<1>1. Init => Writing /\ Indexed
  <2> SUFFICES ASSUME Init PROVE Indexed
    BY InitWriting
  <2>1. \A k \in Keys : Shown(k)
    BY ListingAt DEF Init, Shown
  <2> QED BY <2>1 DEF Init, Indexed, GatheredAll, Unlinked, Indexing
<1>2. (Writing /\ Indexed) /\ [Next]_vars => (Writing /\ Indexed)'
  BY WritingStep, IndexedStep
<1> QED BY <1>1, <1>2, PTL DEF Spec

\* While nobody writes, the listing shows exactly the readable sessions, as they
\* are, but for those whose last write was cut off before the index.
THEOREM IndexIsExact == Spec => []IndexExact
<1>1. Writing /\ Indexed => IndexExact
  <2> SUFFICES ASSUME Writing, Indexed, lock = Free, NEW k \in Keys \ stale
               PROVE  /\ k \in DOMAIN Listing <=> Readable(k)
                      /\ Readable(k) => Listing[k] = Entry(k)
    BY DEF IndexExact
  <2>1. \A q \in Procs : pc[q] \in {"idle", "waiting"}
    BY SessionAssumption DEF Writing, Shape
  <2>2. Shown(k)
    BY <2>1 DEF Indexed, Busy, Indexing
  <2> QED BY <2>2 DEF Shown
<1> QED BY <1>1, AlwaysIndexed, PTL

-----------------------------------------------------------------------------
(* Nothing stored is lost.                                                   *)

LEMMA KeptGrows ==
  ASSUME DiskShape, DiskShape', NEW k \in Keys, copies'[k] = copies[k],
         \A line \in ToSet(Lines(k)) : line > Header => line \in ToSet(Lines(k)')
  PROVE  Kept(k) \subseteq Kept(k)'
<1>1. Lines(k) \in Seq(Line) /\ Lines(k)' \in Seq(Line)
  BY LinesTyped, LinesTypedAfter
<1>2. PICK s \in Seq(Line), t \in Seq(Line) : s = Lines(k) /\ t = Lines(k)'
  BY <1>1
<1>3. ToSet(TurnsIn(s)) \subseteq ToSet(TurnsIn(t))
  <2>1. /\ ToSet(TurnsIn(s)) = {line \in ToSet(s) : line > Header}
        /\ ToSet(TurnsIn(t)) = {line \in ToSet(t) : line > Header}
    BY TurnsAmongLines
  <2> QED BY <1>2, <2>1
<1> QED BY <1>2, <1>3 DEF Kept

\* An unreadable file is kept as a copy.
LEMMA QuarantineKeeps ==
  ASSUME Shape, NEW k \in Keys, Quarantine(k)
  PROVE  Kept(k) \subseteq Kept(k)'
<1>1. Lines(k) \in Seq(Line) /\ copies[k] \in Seq(Seq(Line)) /\ copies \in [Keys -> Seq(Seq(Line))]
  BY LinesTyped DEF Shape, DiskShape
<1>2. copies'[k] = Append(copies[k], Lines(k))
  BY <1>1 DEF Quarantine
<1>3. PICK c \in Seq(Seq(Line)), s \in Seq(Line) : c = copies[k] /\ s = Lines(k)
  BY <1>1
<1>4. ToSet(c) \subseteq ToSet(Append(c, s)) /\ s \in ToSet(Append(c, s))
  <2>1. /\ Len(c) \in Nat /\ DOMAIN Append(c, s) = 1..(Len(c) + 1) /\ DOMAIN c = 1..Len(c)
        /\ Append(c, s)[Len(c) + 1] = s /\ \A i \in 1..Len(c) : Append(c, s)[i] = c[i]
    OBVIOUS
  <2> QED BY <2>1 DEF ToSet
<1>5. copies'[k] = Append(c, s)
  BY <1>2, <1>3
<1> DEFINE Of(all) == UNION {ToSet(TurnsIn(x)) : x \in all}
<1>6. Of(ToSet(c)) \subseteq Of(ToSet(Append(c, s))) /\ ToSet(TurnsIn(s)) \subseteq Of(ToSet(Append(c, s)))
  <2>1. ASSUME NEW all, NEW x \in all PROVE ToSet(TurnsIn(x)) \subseteq Of(all)
    OBVIOUS
  <2>2. ASSUME NEW all, NEW more, all \subseteq more PROVE Of(all) \subseteq Of(more)
    BY <2>2
  <2> HIDE DEF Of
  <2> QED BY <1>4, <2>1, <2>2
<1>7. Kept(k) = ToSet(TurnsIn(s)) \cup Of(ToSet(c))
  BY <1>3 DEF Kept
<1>8. Of(ToSet(Append(c, s))) \subseteq Kept(k)'
  BY <1>5 DEF Kept
<1> HIDE DEF Of
<1> QED BY <1>6, <1>7, <1>8

\* What TurnsKept asks of a step.
StepKeeps(k) ==
  \/ UNCHANGED <<file[k], copies[k]>>
  \/ Kept(k) \subseteq Kept(k)'
  \/ \E p \in Procs : Removing(p, k)

LEMMA KeepsStep ==
  ASSUME Writing, [Next]_vars, NEW k \in Keys
  PROVE  StepKeeps(k)
<1>0. Shape /\ Shape' /\ DiskShape /\ DiskShape'
  BY ShapeStep DEF Writing, Shape
<1>1. ASSUME UNCHANGED <<file, copies>> PROVE StepKeeps(k)
  BY <1>1 DEF StepKeeps
<1>2. ASSUME NEW l \in Keys, Say(l) PROVE StepKeeps(k)
  BY <1>1, <1>2 DEF Say, disk
<1>3. ASSUME NEW p \in Procs, Begins(p) PROVE StepKeeps(k)
  BY <1>1, <1>3, BeginsShape DEF Begin, disk, Writing
<1>4. ASSUME NEW p \in Procs, Lock(p) PROVE StepKeeps(k)
  BY <1>1, <1>4 DEF Lock, disk
<1>5. ASSUME NEW p \in Procs, Ends(p) PROVE StepKeeps(k)
  BY <1>1, <1>5, EndsShape DEF disk, Writing
<1>6. ASSUME NEW p \in Procs, Inspect(p) PROVE StepKeeps(k)
  <2>1. CASE ~Unreadable(job[p].key)
    BY <1>1, <1>6, <2>1 DEF Inspect
  <2>2. CASE Unreadable(job[p].key) /\ k = job[p].key
    <3>1. Quarantine(k)
      BY <1>6, <2>2 DEF Inspect
    <3> QED BY <1>0, <3>1, QuarantineKeeps DEF StepKeeps
  <2>3. CASE Unreadable(job[p].key) /\ k # job[p].key
    <3>1. Quarantine(job[p].key)
      BY <1>6, <2>3 DEF Inspect
    <3> QED BY <1>0, <2>3, <3>1 DEF Quarantine, StepKeeps, DiskShape
  <2> QED BY <2>1, <2>2, <2>3
<1>7. ASSUME NEW p \in Procs, AppendTurns(p) \/ AppendCut(p) PROVE StepKeeps(k)
  <2>1. PICK l \in Keys : l = job[p].key /\ ToSet(Lines(l)) \subseteq ToSet(Lines(l)')
    BY <1>7, AppendWriting, CutWriting
  <2>2. copies' = copies /\ \A m \in Keys : m # l => file'[m] = file[m]
    <3>1. copies' = copies
      BY <1>7 DEF AppendTurns, AppendCut
    <3>2. CASE AppendTurns(p)
      BY <1>0, <2>1, <3>1, <3>2, AppendShape
    <3>3. CASE AppendCut(p)
      BY <1>0, <2>1, <3>1, <3>3, CutShape
    <3> QED BY <1>7, <3>2, <3>3
  <2>3. CASE k = l
    <3>1. Kept(k) \subseteq Kept(k)'
      BY <1>0, <2>1, <2>2, <2>3, KeptGrows
    <3> QED BY <3>1 DEF StepKeeps
  <2>4. CASE k # l
    BY <2>2, <2>4 DEF StepKeeps
  <2> QED BY <2>3, <2>4
<1>8. ASSUME NEW l \in Keys, Damage(l) PROVE StepKeeps(k)
  <2>1. /\ copies' = copies /\ Lines(l)' = <<Torn>> \o Tail(Lines(l)) /\ Lines(l) # <<>>
        /\ \A m \in Keys : m # l => file'[m] = file[m]
    BY <1>0, <1>8, DamageShape
  <2>2. CASE k = l
    <3>1. Lines(l) \in Seq(Line) /\ Head(Lines(l)) = Header
      BY <1>0, <1>8, LinesTyped DEF Damage, Readable
    <3>2. PICK s \in Seq(Line) : s = Lines(l)
      BY <3>1
    <3>3. /\ <<Torn>> \in Seq(Line) /\ Tail(s) \in Seq(Line)
          /\ DOMAIN s = 1..Len(s) /\ DOMAIN Tail(s) = 1..(Len(s) - 1) /\ Len(s) \in Nat
          /\ \A i \in 1..(Len(s) - 1) : Tail(s)[i] = s[i + 1]
          /\ s[1] = Header
      BY <2>1, <3>1, <3>2, LinesAreNumbers
    <3>4. ASSUME NEW line \in ToSet(s), line > Header PROVE line \in ToSet(Tail(s))
      <4>1. PICK i \in 1..Len(s) : line = s[i]
        BY <3>3 DEF ToSet
      <4>2. i # 1
        BY <3>3, <3>4, <4>1 DEF Header
      <4>3. i - 1 \in 1..(Len(s) - 1) /\ (i - 1) + 1 = i
        BY <3>3, <4>1, <4>2
      <4>4. line = Tail(s)[i - 1]
        BY <3>3, <4>1, <4>3
      <4> QED BY <3>3, <4>3, <4>4 DEF ToSet
    <3>5. ToSet(Tail(s)) \subseteq ToSet(<<Torn>> \o Tail(s))
      <4>1. ToSet(<<Torn>> \o Tail(s)) = ToSet(<<Torn>>) \cup ToSet(Tail(s))
        BY <3>3, MembersOfConcat
      <4> QED BY <4>1
    <3>6. \A line \in ToSet(Lines(k)) : line > Header => line \in ToSet(Lines(k)')
      BY <2>1, <2>2, <3>2, <3>4, <3>5
    <3>7. Kept(k) \subseteq Kept(k)'
      BY <1>0, <2>1, <3>6, KeptGrows
    <3> QED BY <3>7 DEF StepKeeps
  <2>3. CASE k # l
    BY <2>1, <2>3 DEF StepKeeps
  <2> QED BY <2>2, <2>3
<1>9. ASSUME NEW p \in Procs, HolderStep(p) \/ ClearCut(p) PROVE StepKeeps(k)
  <2>1. CASE Evict(p) \/ EvictCopies(p)
    <3>1. CASE k = Oldest(job[p].entries, job[p].victims)
      BY <2>1, <3>1 DEF Evict, EvictCopies, StepKeeps, Removing
    <3>2. CASE k # Oldest(job[p].entries, job[p].victims)
      BY <1>0, <2>1, <3>2 DEF Evict, EvictCopies, Unlink, StepKeeps, DiskShape
    <3> QED BY <3>1, <3>2
  <2>2. CASE ForgetCopies(p) \/ ForgetFile(p)
    <3>1. CASE k = job[p].key
      BY <2>2, <3>1 DEF ForgetCopies, ForgetFile, StepKeeps, Removing
    <3>2. CASE k # job[p].key
      BY <1>0, <2>2, <3>2 DEF ForgetCopies, ForgetFile, Unlink, StepKeeps, DiskShape
    <3> QED BY <3>1, <3>2
  <2>3. CASE ClearNamespace(p) \/ ClearCut(p)
    BY <2>3 DEF ClearNamespace, ClearCut, StepKeeps, Removing
  <2>4. CASE IndexAppend(p) \/ ForgetIndex(p)
    BY <1>1, <2>4 DEF IndexAppend, ForgetIndex
  <2> QED BY <1>9, <2>1, <2>2, <2>3, <2>4 DEF HolderStep
<1>10. CASE UNCHANGED vars
  BY <1>1, <1>10 DEF vars, disk
<1> QED BY <1>2, <1>3, <1>4, <1>5, <1>6, <1>7, <1>8, <1>9, <1>10, StepKinds

\* No step loses a stored turn, from the file and its quarantined copies
\* together, unless it forgets or drops that session.
THEOREM TurnsAreKept == Spec => TurnsKept
<1>1. Writing /\ [Next]_vars
        => [\A k \in Keys : \/ UNCHANGED <<file[k], copies[k]>>
                            \/ Kept(k) \subseteq Kept(k)'
                            \/ \E p \in Procs : Removing(p, k)]_disk
  BY KeepsStep DEF StepKeeps
<1> QED BY <1>1, AlwaysWriting, PTL DEF Spec, TurnsKept

-----------------------------------------------------------------------------
(* The windows of a session.                                                 *)

\* f is the function that Windows builds, up to m.
IsWindowing(f, k, s, m) ==
  f = [n \in 0..m |-> IF n = 0 THEN <<>> ELSE WithTurn(k, f[n - 1], s[n])]

LEMMA WindowingExists ==
  ASSUME NEW k, NEW s, NEW m \in Nat
  PROVE  \E f : IsWindowing(f, k, s, m)
<1> DEFINE K == {j \in Nat : \E f : IsWindowing(f, k, s, j)}
<1>1. 0 \in K
  <2>1. IsWindowing([j \in 0..0 |-> <<>>], k, s, 0)
    BY DEF IsWindowing
  <2> QED BY <2>1
<1>2. ASSUME NEW j \in Nat, j \in K PROVE j + 1 \in K
  <2>1. PICK f : IsWindowing(f, k, s, j)
    BY <1>2
  <2> DEFINE g == [i \in 0..(j + 1) |-> IF i = j + 1 THEN WithTurn(k, f[j], s[j + 1]) ELSE f[i]]
             h == [i \in 0..(j + 1) |-> IF i = 0 THEN <<>> ELSE WithTurn(k, g[i - 1], s[i])]
  <2>2. ASSUME NEW i \in 0..(j + 1) PROVE g[i] = h[i]
    <3>1. CASE i = 0
      BY <2>1, <3>1 DEF IsWindowing
    <3>2. CASE i = j + 1
      <4>1. j \in 0..(j + 1) /\ j # j + 1
        OBVIOUS
      <4>2. g[i] = WithTurn(k, f[j], s[j + 1]) /\ g[j] = f[j]
        BY <3>2, <4>1
      <4>3. h[i] = WithTurn(k, g[j], s[j + 1])
        BY <3>2
      <4> QED BY <4>2, <4>3
    <3>3. CASE i # 0 /\ i # j + 1
      <4>1. i \in 0..j /\ i - 1 \in 0..j /\ i - 1 # j + 1 /\ i - 1 \in 0..(j + 1)
        BY <3>3
      <4>2. g[i] = f[i] /\ g[i - 1] = f[i - 1]
        BY <3>3, <4>1
      <4>3. f[i] = WithTurn(k, f[i - 1], s[i])
        BY <2>1, <4>1, <3>3 DEF IsWindowing
      <4> QED BY <4>2, <4>3, <3>3
    <3> QED BY <3>1, <3>2, <3>3
  <2>3. g = h
    <3> HIDE DEF g
    <3>1. g = [i \in 0..(j + 1) |-> g[i]] BY DEF g
    <3> QED BY <2>2, <3>1
  <2>4. IsWindowing(g, k, s, j + 1)
    <3> HIDE DEF g
    <3> QED BY <2>3 DEF IsWindowing
  <2> QED BY <2>4
<1> HIDE DEF K
<1>3. Nat \subseteq K
  BY <1>1, <1>2, Induction
<1> QED BY <1>3 DEF K

LEMMA WindowsIsWindowing ==
  ASSUME NEW k, NEW s, Len(s) \in Nat
  PROVE  \E f : IsWindowing(f, k, s, Len(s)) /\ Windows(k, s) = f[Len(s)]
<1> DEFINE f == CHOOSE g : IsWindowing(g, k, s, Len(s))
<1>1. IsWindowing(f, k, s, Len(s))
  <2>1. \E g : IsWindowing(g, k, s, Len(s))
    BY WindowingExists
  <2> QED BY <2>1
<1>2. Windows(k, s) = f[Len(s)]
  BY DEF Windows, IsWindowing
<1> QED BY <1>1, <1>2

\* Every window of ws is one of more, but for the last, which more may extend.
Extends(more, ws) ==
  /\ Len(ws) <= Len(more)
  /\ \A i \in 1..Len(ws) : i < Len(ws) => more[i] = ws[i]
  /\ ws # <<>> => /\ Len(ws[Len(ws)]) <= Len(more[Len(ws)])
                  /\ \A j \in 1..Len(ws[Len(ws)]) : more[Len(ws)][j] = ws[Len(ws)][j]

AllWindows == Seq(Seq(Nat))

LEMMA ExtendsItself ==
  ASSUME NEW ws \in AllWindows
  PROVE  Extends(ws, ws)
<1>1. Len(ws) \in Nat /\ (ws # <<>> => ws[Len(ws)] \in Seq(Nat))
  BY DEF AllWindows
<1> QED BY <1>1 DEF Extends

LEMMA ExtendsOnce ==
  ASSUME NEW k, NEW ws \in AllWindows, NEW t \in Nat
  PROVE  WithTurn(k, ws, t) \in AllWindows /\ Extends(WithTurn(k, ws, t), ws)
<1> DEFINE n == Len(ws)
<1>1. n \in Nat /\ DOMAIN ws = 1..n /\ \A i \in 1..n : ws[i] \in Seq(Nat)
  BY DEF AllWindows
<1>2. ASSUME ws = <<>> \/ OpensWindow(k, Last(ws), t)
      PROVE  WithTurn(k, ws, t) \in AllWindows /\ Extends(WithTurn(k, ws, t), ws)
  <2> DEFINE v == Append(ws, <<t>>)
  <2>1. v \in AllWindows /\ Len(v) = n + 1 /\ \A i \in 1..n : v[i] = ws[i]
    BY DEF AllWindows
  <2>2. WithTurn(k, ws, t) = v
    BY <1>2 DEF WithTurn
  <2> HIDE DEF v
  <2>3. ws # <<>> => n \in 1..n
    BY <1>1 DEF AllWindows
  <2>4. Extends(v, ws)
    BY <1>1, <2>1, <2>3 DEF Extends
  <2> QED BY <2>1, <2>2, <2>4
<1>3. ASSUME ~(ws = <<>> \/ OpensWindow(k, Last(ws), t))
      PROVE  WithTurn(k, ws, t) \in AllWindows /\ Extends(WithTurn(k, ws, t), ws)
  <2> DEFINE w == Append(ws[n], t)
             v == [ws EXCEPT ![n] = w]
  <2>1. n \in 1..n /\ ws[n] \in Seq(Nat)
    BY <1>1, <1>3 DEF AllWindows
  <2>2. /\ w \in Seq(Nat) /\ Len(w) = Len(ws[n]) + 1 /\ Len(ws[n]) \in Nat
        /\ \A j \in 1..Len(ws[n]) : w[j] = ws[n][j]
    BY <2>1
  <2>3. WithTurn(k, ws, t) = v
    BY <1>3 DEF WithTurn
  <2> HIDE DEF w
  <2>4. v \in AllWindows /\ Len(v) = n /\ v[n] = w /\ \A i \in 1..n : i # n => v[i] = ws[i]
    <3>1. ws \in Seq(Seq(Nat)) /\ n \in 1..Len(ws)
      BY <2>1 DEF AllWindows
    <3>2. /\ v \in Seq(Seq(Nat)) /\ Len(v) = Len(ws) /\ v[n] = w
          /\ \A i \in 1..Len(ws) : i # n => v[i] = ws[i]
      BY <2>2, <3>1, ExceptSeq
    <3> QED BY <3>2 DEF AllWindows
  <2> HIDE DEF v
  <2>5. Extends(v, ws)
    <3>1. Len(ws) <= Len(v)
      <4>1. n \in Nat /\ Len(v) = n
        BY <1>1, <2>4
      <4> QED BY <4>1
    <3>2. \A i \in 1..Len(ws) : i < Len(ws) => v[i] = ws[i]
      <4>1. \A i \in 1..n : i < n => i # n
        <5>1. PICK x \in Nat : x = n
          BY <1>1
        <5>2. \A i \in 1..x : i < x => i # x
          OBVIOUS
        <5> QED BY <5>1, <5>2
      <4>2. \A i \in 1..n : i # n => v[i] = ws[i]
        BY <2>4
      <4> QED BY <4>1, <4>2
    <3>3. Len(ws[Len(ws)]) <= Len(v[Len(ws)]) /\ \A j \in 1..Len(ws[Len(ws)]) : v[Len(ws)][j] = ws[Len(ws)][j]
      BY <2>2, <2>4
    <3> QED BY <3>1, <3>2, <3>3 DEF Extends
  <2> QED BY <2>3, <2>4, <2>5
<1> QED BY <1>2, <1>3

LEMMA ExtendsMore ==
  ASSUME NEW a \in AllWindows, NEW b \in AllWindows, NEW c \in AllWindows,
         Extends(b, a), Extends(c, b)
  PROVE  Extends(c, a)
<1> DEFINE l == Len(a)
           m == Len(b)
           n == Len(c)
<1>1. /\ l \in Nat /\ m \in Nat /\ n \in Nat /\ l <= m /\ m <= n
      /\ a # <<>> => l \in 1..l
      /\ \A i \in 1..l : a[i] \in Seq(Nat)
      /\ \A i \in 1..m : b[i] \in Seq(Nat)
      /\ \A i \in 1..n : c[i] \in Seq(Nat)
  BY DEF AllWindows, Extends
<1>2. \A i \in 1..l : i < l => c[i] = a[i]
  <2> SUFFICES ASSUME NEW i \in 1..l, i < l PROVE c[i] = a[i]
    OBVIOUS
  <2>1. i \in 1..m /\ i < m
    BY <1>1
  <2>2. b[i] = a[i]
    BY DEF Extends
  <2>3. c[i] = b[i]
    BY <2>1 DEF Extends
  <2> QED BY <2>2, <2>3
<1>3. ASSUME a # <<>>
      PROVE  Len(a[l]) <= Len(c[l]) /\ \A j \in 1..Len(a[l]) : c[l][j] = a[l][j]
  <2>1. Len(a[l]) <= Len(b[l]) /\ \A j \in 1..Len(a[l]) : b[l][j] = a[l][j]
    BY <1>3 DEF Extends
  <2>2. CASE l < m
    <3>1. c[l] = b[l]
      BY <1>1, <1>3, <2>2 DEF Extends
    <3> QED BY <2>1, <3>1
  <2>3. CASE l = m
    <3>1. b # <<>>
      BY <1>1, <1>3, <2>3
    <3>2. Len(b[l]) <= Len(c[l]) /\ \A j \in 1..Len(b[l]) : c[l][j] = b[l][j]
      BY <2>3, <3>1 DEF Extends
    <3>3. Len(a[l]) \in Nat /\ Len(b[l]) \in Nat /\ Len(c[l]) \in Nat
      BY <1>1, <1>3, <2>3
    <3> QED BY <2>1, <3>2, <3>3
  <2> QED BY <1>1, <2>2, <2>3
<1> QED BY <1>1, <1>2, <1>3 DEF Extends

\* More turns after those of s extend the windows of s.
LEMMA WindowsExtend ==
  ASSUME NEW k, NEW s \in Seq(Nat), NEW t \in Seq(Nat)
  PROVE  /\ Windows(k, s) \in AllWindows /\ Windows(k, s \o t) \in AllWindows
         /\ Extends(Windows(k, s \o t), Windows(k, s))
<1> DEFINE l == Len(s)
           m == Len(t)
           r == s \o t
<1>1. /\ l \in Nat /\ m \in Nat /\ Len(r) = l + m /\ l + m \in Nat
      /\ \A n \in 1..l : r[n] = s[n]
      /\ \A n \in 1..(l + m) : r[n] \in Nat
  <2>1. r \in Seq(Nat) /\ Len(r) = l + m /\ DOMAIN r = 1..(l + m)
    OBVIOUS
  <2>2. \A n \in 1..(l + m) : r[n] \in Nat
    <3> HIDE DEF r
    <3> QED BY <2>1
  <2> QED BY <2>1, <2>2
<1> HIDE DEF r
<1>2. PICK f : IsWindowing(f, k, s, l) /\ Windows(k, s) = f[l]
  BY <1>1, WindowsIsWindowing
<1>3. PICK h : IsWindowing(h, k, r, l + m) /\ Windows(k, r) = h[l + m]
  BY <1>1, WindowsIsWindowing
<1> HIDE DEF l, m
<1>4. /\ f[0] = <<>> /\ h[0] = <<>>
      /\ \A n \in Nat : n + 1 <= l => f[n + 1] = WithTurn(k, f[n], s[n + 1])
      /\ \A n \in Nat : n + 1 <= l + m => h[n + 1] = WithTurn(k, h[n], r[n + 1])
  <2>1. ASSUME NEW e, NEW q, NEW j \in Nat, IsWindowing(e, k, q, j)
        PROVE  e[0] = <<>> /\ \A n \in Nat : n + 1 <= j => e[n + 1] = WithTurn(k, e[n], q[n + 1])
    <3>1. \A n \in Nat : n + 1 <= j => n + 1 \in 0..j /\ n + 1 # 0 /\ (n + 1) - 1 = n
      BY <2>1
    <3> QED BY <2>1, <3>1 DEF IsWindowing
  <2> QED BY <1>1, <1>2, <1>3, <2>1
<1> DEFINE K == {n \in Nat : n <= l => h[n] = f[n]}
<1>5. l \in K
  <2>1. 0 \in K
    BY <1>4
  <2>2. ASSUME NEW n \in Nat, n \in K PROVE n + 1 \in K
    <3> SUFFICES ASSUME n + 1 <= l PROVE h[n + 1] = f[n + 1]
      OBVIOUS
    <3>1. n + 1 <= l + m /\ n + 1 \in 1..l /\ h[n] = f[n]
      BY <1>1, <2>2
    <3> QED BY <1>1, <1>4, <3>1
  <2> HIDE DEF K
  <2> QED BY <1>1, <2>1, <2>2, Induction
<1>6. h[l] = f[l]
  BY <1>1, <1>5
<1> DEFINE I == {n \in Nat : n <= l + m => h[n] \in AllWindows}
<1>7. Nat \subseteq I
  <2>1. 0 \in I
    <3>1. <<>> \in AllWindows
      BY DEF AllWindows
    <3> QED BY <1>4, <3>1
  <2>2. ASSUME NEW n \in Nat, n \in I PROVE n + 1 \in I
    <3> SUFFICES ASSUME n + 1 <= l + m PROVE h[n + 1] \in AllWindows
      OBVIOUS
    <3>1. h[n] \in AllWindows /\ n + 1 \in 1..(l + m)
      BY <1>1, <2>2
    <3>2. r[n + 1] \in Nat
      BY <1>1, <3>1
    <3> QED BY <1>4, <3>1, <3>2, ExtendsOnce
  <2> HIDE DEF I
  <2> QED BY <2>1, <2>2, Induction
<1>8. \A n \in Nat : n <= l + m => h[n] \in AllWindows
  BY <1>7
<1> DEFINE J == {n \in Nat : n <= m => Extends(h[l + n], h[l])}
<1>9. m \in J
  <2>1. 0 \in J
    <3>1. l + 0 = l /\ h[l] \in AllWindows
      BY <1>1, <1>8
    <3> QED BY <3>1, ExtendsItself
  <2>2. ASSUME NEW n \in Nat, n \in J PROVE n + 1 \in J
    <3> SUFFICES ASSUME n + 1 <= m PROVE Extends(h[l + (n + 1)], h[l])
      OBVIOUS
    <3>1. /\ l + n \in Nat /\ (l + n) + 1 = l + (n + 1) /\ (l + n) + 1 <= l + m
          /\ l <= l + m /\ l + n <= l + m /\ (l + n) + 1 \in 1..(l + m) /\ (l + n) + 1 \in Nat
      BY <1>1
    <3>2. h[l] \in AllWindows /\ h[l + n] \in AllWindows /\ h[(l + n) + 1] \in AllWindows
      BY <1>1, <1>8, <3>1
    <3>3. Extends(h[l + n], h[l])
      BY <1>1, <2>2
    <3>4. Extends(h[(l + n) + 1], h[l + n])
      <4>1. h[(l + n) + 1] = WithTurn(k, h[l + n], r[(l + n) + 1]) /\ r[(l + n) + 1] \in Nat
        BY <1>1, <1>4, <3>1
      <4> QED BY <3>2, <4>1, ExtendsOnce
    <3>5. Extends(h[(l + n) + 1], h[l])
      BY <3>2, <3>3, <3>4, ExtendsMore
    <3> QED BY <3>1, <3>5
  <2> HIDE DEF J
  <2> QED BY <1>1, <2>1, <2>2, Induction
<1>10. Extends(h[l + m], h[l])
  BY <1>9
<1>11. h[l] \in AllWindows /\ h[l + m] \in AllWindows
  BY <1>1, <1>8
<1> QED BY <1>2, <1>3, <1>6, <1>10, <1>11 DEF r

\* In the words of the property.
LEMMA ExtendsPrefixes ==
  ASSUME NEW old \in AllWindows, NEW new \in AllWindows, Extends(new, old), old # <<>>
  PROVE  /\ Len(old) <= Len(new)
         /\ IsPrefix(Front(old), new)
         /\ IsPrefix(Last(old), new[Len(old)])
<1> DEFINE l == Len(old)
           n == Len(new)
<1>1. /\ l \in Nat /\ n \in Nat /\ l <= n /\ l \in 1..l /\ l - 1 \in Nat /\ l - 1 <= n
      /\ \A i \in 1..(l - 1) : new[i] = old[i]
      /\ old[l] \in Seq(Nat) /\ new[l] \in Seq(Nat)
      /\ Len(old[l]) <= Len(new[l]) /\ \A j \in 1..Len(old[l]) : new[l][j] = old[l][j]
  <2>1. l \in Nat /\ n \in Nat /\ l <= n /\ l \in 1..l
    BY DEF AllWindows, Extends
  <2>2. l - 1 \in Nat /\ l - 1 <= n /\ l \in 1..n
    BY <2>1
  <2>3. old[l] \in Seq(Nat) /\ new[l] \in Seq(Nat)
    BY <2>1, <2>2 DEF AllWindows
  <2>4. \A i \in 1..(l - 1) : new[i] = old[i]
    <3>1. \A i \in 1..(l - 1) : i \in 1..l /\ i < l
      BY <2>1
    <3> QED BY <3>1 DEF Extends
  <2>5. Len(old[l]) <= Len(new[l]) /\ \A j \in 1..Len(old[l]) : new[l][j] = old[l][j]
    BY DEF Extends
  <2> QED BY <2>1, <2>2, <2>3, <2>4, <2>5
<1>2. IsPrefix(Front(old), new)
  <2>1. Front(old) = SubSeq(old, 1, l - 1) /\ Len(Front(old)) = l - 1
    <3>1. Front(old) = SubSeq(old, 1, l - 1)
      BY DEF Front
    <3>2. Len(SubSeq(old, 1, l - 1)) = l - 1
      <4>1. l - 1 \in Int /\ \A i \in 1..(l - 1) : old[i] \in Seq(Nat)
        BY <1>1 DEF AllWindows
      <4>2. Len(SubSeq(old, 1, l - 1)) = IF 1 <= l - 1 THEN (l - 1) - 1 + 1 ELSE 0
        BY <4>1, SubSeqProperties
      <4>3. PICK x \in Nat : x = l /\ x \in 1..x
        BY <1>1
      <4>4. (IF 1 <= x - 1 THEN (x - 1) - 1 + 1 ELSE 0) = x - 1
        BY <4>3
      <4> QED BY <4>2, <4>3, <4>4
    <3> QED BY <3>1, <3>2
  <2>2. SubSeq(Front(old), 1, l - 1) = SubSeq(old, 1, l - 1)
    BY <1>1, <2>1 DEF AllWindows
  <2>3. SubSeq(old, 1, l - 1) = SubSeq(new, 1, l - 1)
    BY <1>1 DEF AllWindows
  <2> QED BY <1>1, <2>1, <2>2, <2>3 DEF IsPrefix
<1>3. IsPrefix(Last(old), new[l])
  <2> DEFINE a == old[l]
             b == new[l]
  <2>1. a \in Seq(Nat) /\ b \in Seq(Nat) /\ Len(a) <= Len(b) /\ \A j \in 1..Len(a) : b[j] = a[j]
    BY <1>1
  <2>2. Last(old) = a
    BY DEF Last
  <2> HIDE DEF a, b
  <2>3. SubSeq(a, 1, Len(a)) = SubSeq(b, 1, Len(a))
    BY <2>1
  <2> QED BY <2>1, <2>2, <2>3 DEF IsPrefix, b
<1> QED BY <1>1, <1>2, <1>3

\* Windows that were handed out keep their numbers and their turns: a write
\* extends the last one or opens new ones.
THEOREM WindowsAreStable == Spec => WindowsStable
<1>1. ASSUME Writing, [Next]_vars, NEW k \in Keys, file'[k] # file[k], Readable(k), Readable(k)',
             NEW old, old = Windows(k, Stored(k)), NEW new, new = Windows(k, Stored(k)'), old # <<>>
      PROVE  /\ Len(old) <= Len(new)
             /\ IsPrefix(Front(old), new)
             /\ IsPrefix(Last(old), new[Len(old)])
  <2>0. Next
    BY <1>1 DEF vars, disk
  <2>1. \E more \in Seq(Nat) : Stored(k)' = Stored(k) \o more
    <3>1. ASSUME NEW l \in Keys, Say(l) PROVE FALSE
      BY <1>1, <3>1 DEF Say, disk
    <3>2. ASSUME NEW p \in Procs, Begins(p) PROVE FALSE
      BY <1>1, <3>2, BeginsShape DEF Begin, disk, Writing
    <3>3. ASSUME NEW p \in Procs, Lock(p) PROVE FALSE
      BY <1>1, <3>3 DEF Lock, disk
    <3>4. ASSUME NEW p \in Procs, Ends(p) PROVE FALSE
      BY <1>1, <3>4, EndsShape DEF disk, Writing
    <3>5. ASSUME NEW p \in Procs, Inspect(p) PROVE FALSE
      BY <1>1, <3>5, Inspected
    <3>6. ASSUME NEW p \in Procs, AppendTurns(p) \/ AppendCut(p)
          PROVE  \E more \in Seq(Nat) : Stored(k)' = Stored(k) \o more
      <4>1. PICK l \in Keys :
              l = job[p].key /\ (Readable(l) => \E more \in Seq(Nat) : Stored(l)' = Stored(l) \o more)
        BY <1>1, <3>6, AppendWriting, CutWriting
      <4>2. \A m \in Keys : m # l => file'[m] = file[m]
        <5>1. CASE AppendTurns(p)
          BY <1>1, <4>1, <5>1, AppendShape DEF Writing
        <5>2. CASE AppendCut(p)
          BY <1>1, <4>1, <5>2, CutShape DEF Writing
        <5> QED BY <3>6, <5>1, <5>2
      <4>3. k = l
        BY <1>1, <4>2
      <4> QED BY <1>1, <4>1, <4>3
    <3>7. ASSUME NEW l \in Keys, Damage(l) PROVE FALSE
      <4>1. k = l
        BY <1>1, <3>7, DamageShape DEF Writing
      <4>2. ~Readable(k)'
        <5>1. Lines(k)' = <<Torn>> \o Tail(Lines(k)) /\ Lines(k) \in Seq(Line) /\ Lines(k) # <<>>
          BY <1>1, <3>7, <4>1, DamageShape, LinesTyped DEF Writing, Shape
        <5>2. Head(Lines(k)') = Torn
          <6>1. <<Torn>> \in Seq(Line) /\ Tail(Lines(k)) \in Seq(Line)
            BY <5>1, LinesAreNumbers
          <6> QED BY <5>1, <6>1
        <5> QED BY <5>2 DEF Readable, Torn, Header
      <4> QED BY <1>1, <4>2
    <3>8. ASSUME NEW p \in Procs, HolderStep(p) \/ ClearCut(p) PROVE FALSE
      <4>1. file'[k] = NoFile
        BY <1>1, <3>8, RemovesFiles DEF Removes
      <4> QED BY <1>1, <4>1, NoFileLeft
    <3> QED BY <2>0, <3>1, <3>2, <3>3, <3>4, <3>5, <3>6, <3>7, <3>8, StepKinds
  <2>2. PICK s \in Seq(Nat), more \in Seq(Nat) : s = Stored(k) /\ Stored(k)' = s \o more
    BY <1>1, <2>1, LinesTyped DEF Writing, Shape
  <2>3. old = Windows(k, s) /\ new = Windows(k, s \o more)
    BY <1>1, <2>2
  <2>4. old \in AllWindows /\ new \in AllWindows /\ Extends(new, old)
    BY <2>3, WindowsExtend
  <2> QED BY <1>1, <2>4, ExtendsPrefixes
<1>2. Writing /\ [Next]_vars
        => [\A k \in Keys : file'[k] # file[k] /\ Readable(k) /\ Readable(k)' =>
              LET old == Windows(k, Stored(k))
                  new == Windows(k, Stored(k)')
              IN old # <<>> => /\ Len(old) <= Len(new)
                               /\ IsPrefix(Front(old), new)
                               /\ IsPrefix(Last(old), new[Len(old)])]_file
  BY <1>1
<1> QED BY <1>2, AlwaysWriting, PTL DEF Spec, WindowsStable
-----------------------------------------------------------------------------
(* The cap.                                                                  *)

\* Fewer entries have fewer bytes.
LEMMA FitsLess ==
  ASSUME NEW E \in Entries, NEW T, T \subseteq DOMAIN E, NEW S, S \subseteq T,
         Fits([k \in T |-> E[k]])
  PROVE  Fits([k \in S |-> E[k]])
<1> DEFINE bytes(k) == {k} \X (1..E[k].bytes)
           all == {bytes(k) : k \in T}
           some == {bytes(k) : k \in S}
<1>1. T \subseteq Keys /\ \A k \in T : E[k].bytes \in Nat
  BY EntriesAreEntries
<1>2. IsFiniteSet(T)
  BY <1>1, SessionAssumption, FS_Subset
<1>3. IsFiniteSet(all)
  <2>1. [k \in T |-> bytes(k)] \in Surjection(T, all)
    BY DEF Surjection
  <2> HIDE DEF bytes
  <2> QED BY <1>2, <2>1, FS_Surjection
<1>4. \A k \in T : IsFiniteSet(bytes(k))
  <2> TAKE k \in T
  <2>1. PICK n \in Nat : n = E[k].bytes
    BY <1>1
  <2>2. 1 \in Int /\ n \in Int
    OBVIOUS
  <2>3. IsFiniteSet(1..n)
    BY <2>2, FS_Interval
  <2>4. IsFiniteSet({k})
    BY FS_Singleton
  <2> QED BY <2>1, <2>3, <2>4, FS_Product
<1>5. IsFiniteSet(UNION all)
  <2>1. \A B \in all : IsFiniteSet(B)
    BY <1>4
  <2> HIDE DEF all
  <2> QED BY <1>3, <2>1, FS_UNION
<1>6. UNION some \subseteq UNION all
  <2> HIDE DEF bytes
  <2> QED OBVIOUS
<1>7. /\ Total([k \in T |-> E[k]]) = Cardinality(UNION all)
      /\ Total([k \in S |-> E[k]]) = Cardinality(UNION some)
  BY DEF Total
<1> HIDE DEF all, some
<1>8. /\ Cardinality(UNION some) <= Cardinality(UNION all)
      /\ Cardinality(UNION some) \in Nat /\ Cardinality(UNION all) \in Nat
  BY <1>5, <1>6, FS_Subset, FS_CardinalityType
<1>9. CapBytes \in Nat
  BY SessionAssumption
<1> QED BY <1>7, <1>8, <1>9 DEF Fits

LEMMA FitsNothing == Fits([k \in {} |-> Entry(k)])
<1>1. UNION {{k} \X (1..[l \in {} |-> Entry(l)][k].bytes) : k \in DOMAIN [l \in {} |-> Entry(l)]} = {}
  OBVIOUS
<1>2. Total([k \in {} |-> Entry(k)]) = 0
  BY <1>1, FS_EmptySet DEF Total
<1>3. CapBytes \in Nat
  BY SessionAssumption
<1> QED BY <1>2, <1>3 DEF Fits

\* byStartedAt orders the sessions, one after the other.
LEMMA OlderOrders ==
  ASSUME NEW E \in Entries
  PROVE  /\ \A k, l \in DOMAIN E : k # l => Older(E, k, l) \/ Older(E, l, k)
         /\ \A k, l \in DOMAIN E : Older(E, k, l) => k # l /\ ~Older(E, l, k)
         /\ \A k, l, m \in DOMAIN E : Older(E, k, l) /\ Older(E, l, m) => Older(E, k, m)
<1>1. \A k \in DOMAIN E : E[k].start \in Nat /\ k \in Nat
  BY EntriesAreEntries, LinesAreNumbers, SessionAssumption
<1> QED BY <1>1 DEF Older

\* The sessions an append drops.
ToDrop(entries, own) == IF Fits(entries) THEN {} ELSE Victims(entries, own)

\* What is left fits, or nothing but the session just written is left.
LEMMA RestFits ==
  ASSUME NEW E \in Entries, NEW own \in DOMAIN E, NEW S,
         S \subseteq DOMAIN E \ ToDrop(E, own)
  PROVE  Fits([k \in S |-> E[k]]) \/ S \subseteq {own}
<1>1. E = [k \in DOMAIN E |-> E[k]] /\ DOMAIN E \subseteq Keys
  BY EntriesAreEntries DEF Entries
<1>2. CASE Fits(E)
  BY <1>1, <1>2, FitsLess
<1>3. CASE ~Fits(E) /\ ~(S \subseteq {own})
  <2> DEFINE others == DOMAIN E \ {own}
             left == others \ Victims(E, own)
             older(k) == {l \in others : Older(E, l, k)}
  <2>1. left # {} /\ left \in SUBSET DOMAIN E /\ S \subseteq left \cup {own}
    BY <1>1, <1>3 DEF ToDrop
  <2>2. PICK k \in left : \A l \in left \ {k} : Older(E, k, l)
    BY <2>1, OldestFirst
  <2>3. Fits(Without(E, older(k)))
    BY <2>2 DEF Victims
  <2>4. S \subseteq DOMAIN E \ older(k)
    BY <1>1, <2>1, <2>2, OlderOrders
  <2> QED BY <2>3, <2>4, FitsLess DEF Without
<1> QED BY <1>2, <1>3

\* The sessions dropped are the oldest others, and no more than needed.
LEMMA DropsOldest ==
  ASSUME NEW E \in Entries, NEW own \in DOMAIN E, NEW k \in ToDrop(E, own)
  PROVE  /\ k \in DOMAIN E /\ k # own
         /\ \A l \in DOMAIN E \ (ToDrop(E, own) \cup {own}) : Older(E, k, l)
         /\ \/ \E l \in ToDrop(E, own) : Older(E, k, l)
            \/ ~Fits([l \in (DOMAIN E \ ToDrop(E, own)) \cup {k} |-> E[l]])
<1> DEFINE others == DOMAIN E \ {own}
           V == ToDrop(E, own)
           older(m) == {l \in others : Older(E, l, m)}
<1>1. /\ ~Fits(E) /\ DOMAIN E \subseteq Keys
      /\ V = {m \in others : ~Fits([l \in DOMAIN E \ older(m) |-> E[l]])}
  BY EntriesAreEntries DEF ToDrop, Victims, Without
<1> HIDE DEF V
<1>2. k \in others /\ ~Fits([l \in DOMAIN E \ older(k) |-> E[l]])
  BY <1>1 DEF V
<1>3. ASSUME NEW l \in others \ V PROVE Older(E, k, l)
  <2>1. SUFFICES ASSUME ~Older(E, k, l) PROVE FALSE
    OBVIOUS
  <2>2. Older(E, l, k)
    BY <1>1, <1>2, <1>3, <2>1, OlderOrders DEF V
  <2>3. older(l) \subseteq older(k)
    BY <1>1, <1>2, <2>2, OlderOrders
  <2>4. Fits([m \in DOMAIN E \ older(l) |-> E[m]])
    BY <1>1, <1>3
  <2> QED BY <1>2, <2>3, <2>4, FitsLess
<1>4. ASSUME \A l \in V : ~Older(E, k, l)
      PROVE  ~Fits([l \in (DOMAIN E \ V) \cup {k} |-> E[l]])
  <2>1. DOMAIN E \ older(k) \subseteq (DOMAIN E \ V) \cup {k}
    BY <1>1, <1>2, <1>4, OlderOrders
  <2> QED BY <1>2, <2>1, FitsLess
<1> QED BY <1>2, <1>3, <1>4 DEF V

-----------------------------------------------------------------------------
\* While an append drops sessions: what it has dropped has neither a file nor a
\* copy, and what it keeps has a file.
Dropping(p) ==
  pc[p] \in Indexing =>
    LET E == job[p].entries
        own == job[p].key
        left == job[p].victims
    IN /\ own \in DOMAIN E
       /\ left \subseteq ToDrop(E, own)
       /\ pc[p] = "index" => left = {}
       /\ pc[p] = "evictCopies" => ~Exists(Oldest(E, left))
       /\ \A k \in ToDrop(E, own) \ left : ~Exists(k) /\ copies[k] = <<>>
       /\ \A k \in DOMAIN E \ ToDrop(E, own) : k = own \/ Exists(k)

\* Once it has written the index.
Dropped(p) ==
  pc[p] = "release" /\ job[p].call = "append" =>
    LET E == job[p].entries
        own == job[p].key
    IN /\ own \in DOMAIN E
       /\ index = [k \in DOMAIN E \ ToDrop(E, own) |-> E[k]]
       /\ \A k \in ToDrop(E, own) : ~Exists(k) /\ copies[k] = <<>>

NoAppend(p) ==
  pc[p] \in {"forgetCopies", "forgetFile", "forgetIndex", "clear"} => job[p].call # "append"

Capping == \A p \in Procs : Dropping(p) /\ Dropped(p) /\ NoAppend(p)

\* What a step of another process leaves as it is.
LEMMA CapStill ==
  ASSUME NEW q, pc'[q] = pc[q], job'[q] = job[q],
         pc[q] \in {"idle", "waiting"} \/ UNCHANGED disk
  PROVE  Dropping(q) /\ Dropped(q) /\ NoAppend(q) => (Dropping(q) /\ Dropped(q) /\ NoAppend(q))'
<1>1. CASE pc[q] \in {"idle", "waiting"}
  BY <1>1 DEF Dropping, Dropped, NoAppend, Indexing
<1>2. CASE UNCHANGED disk
  BY <1>2 DEF Dropping, Dropped, NoAppend, Exists, disk
<1> QED BY <1>1, <1>2

\* The steps in which p is not indexing or done afterwards.
LEMMA CapElsewhere ==
  ASSUME Capping, NEW p \in Procs,
         pc'[p] \in {"idle", "waiting", "inspect", "append"} \/ NoAppend(p)',
         pc'[p] \notin Indexing, pc'[p] = "release" => job'[p].call # "append",
         \A q \in Procs : q # p => /\ pc'[q] = pc[q] /\ job'[q] = job[q]
                                   /\ pc[q] \in {"idle", "waiting"} \/ UNCHANGED disk
  PROVE  Capping'
<1>1. (Dropping(p) /\ Dropped(p) /\ NoAppend(p))'
  BY DEF Dropping, Dropped, NoAppend
<1>2. ASSUME NEW q \in Procs, q # p PROVE (Dropping(q) /\ Dropped(q) /\ NoAppend(q))'
  BY <1>2, CapStill DEF Capping
<1> QED BY <1>1, <1>2 DEF Capping

LEMMA ListingExists == \A k \in DOMAIN Listing : Exists(k)
BY ReadableExists DEF Listing

LEMMA ListingExistsAfter == \A k \in DOMAIN Listing' : Exists(k)'
<1>1. (\A k \in DOMAIN Listing : Exists(k))'
  BY ListingExists, PTL
<1> QED BY <1>1

LEMMA AppendCapping ==
  ASSUME Writing, Capping, NEW p \in Procs, AppendTurns(p)
  PROVE  Capping'
<1>1. PICK k \in Keys : k = job[p].key /\ Readable(k)'
  BY AppendWriting
<1> DEFINE E == Refreshed(k)'
<1>2. /\ pc'[p] \in Indexing /\ pc'[p] # "evictCopies" /\ job'[p].key = k /\ job'[p].entries = E
      /\ UNCHANGED <<copies, index>>
      /\ \A q \in Procs : q # p => pc'[q] = pc[q] /\ job'[q] = job[q] /\ pc[q] \in {"idle", "waiting"}
  BY <1>1, AppendShape DEF Writing, AppendTurns, Indexing
<1>3. /\ job'[p].victims = ToDrop(E, k)
      /\ pc'[p] = "index" => job'[p].victims = {}
  BY <1>1, AppendShape DEF Writing, ToDrop
<1>4. k \in DOMAIN E /\ \A l \in DOMAIN E : l = k \/ Exists(l)'
  <2>1. DOMAIN E = (DOMAIN Listing' \ {k}) \cup {k}
    BY <1>1 DEF Refreshed
  <2>2. \A l \in DOMAIN Listing' : Exists(l)'
    BY ListingExistsAfter
  <2> QED BY <2>1, <2>2
<1> HIDE DEF E
<1>5. (Dropping(p) /\ Dropped(p) /\ NoAppend(p))'
  BY <1>2, <1>3, <1>4 DEF Dropping, Dropped, NoAppend, Indexing
<1>6. ASSUME NEW q \in Procs, q # p PROVE (Dropping(q) /\ Dropped(q) /\ NoAppend(q))'
  BY <1>2, <1>6, CapStill DEF Capping
<1> QED BY <1>5, <1>6 DEF Capping

LEMMA EvictCapping ==
  ASSUME Writing, Capping, NEW p \in Procs, Evict(p)
  PROVE  Capping'
<1> DEFINE k == Oldest(job[p].entries, job[p].victims)
           own == job[p].key
           E == job[p].entries
<1>1. /\ HolderStep(p) /\ pc[p] = "evict" /\ file' = [file EXCEPT ![k] = NoFile]
      /\ UNCHANGED <<copies, index, job>>
  BY DEF HolderStep, Evict, Unlink
<1>2. /\ pc'[p] = "evictCopies"
      /\ \A q \in Procs : q # p => pc'[q] = pc[q] /\ job'[q] = job[q] /\ pc[q] \in {"idle", "waiting"}
  BY <1>1, HolderStepShape DEF Writing, StepAfter
<1>3. k \in ToDrop(E, own) /\ k \in Keys
  <2>1. /\ job[p].victims \in SUBSET DOMAIN E /\ job[p].victims # {} /\ DOMAIN E \subseteq Keys
        /\ E \in Entries /\ job[p].victims \subseteq ToDrop(E, own)
    BY <1>1, EntriesAreEntries DEF Writing, Shape, Job, Written, Indexing, Capping, Dropping
  <2> QED BY <2>1, OldestIsIn
<1>4. /\ ~Exists(k)'
      /\ \A l \in Keys : l # k => (Exists(l)' <=> Exists(l))
      /\ \A l \in Keys : ~Exists(l) => ~Exists(l)'
  BY <1>1, <1>3 DEF Writing, Shape, DiskShape, Exists
<1>5. E \in Entries /\ DOMAIN E \subseteq Keys /\ ToDrop(E, own) \subseteq DOMAIN E
  BY EntriesAreEntries DEF Writing, Shape, Job, ToDrop, Victims
<1>6. Dropping(p)
  BY DEF Capping
<1>7. (Dropping(p) /\ Dropped(p) /\ NoAppend(p))'
  <2>1. /\ own \in DOMAIN E /\ job[p].victims \subseteq ToDrop(E, own)
        /\ \A l \in ToDrop(E, own) \ job[p].victims : ~Exists(l) /\ copies[l] = <<>>
        /\ \A l \in DOMAIN E \ ToDrop(E, own) : l = own \/ Exists(l)
    BY <1>1, <1>6 DEF Dropping, Indexing
  <2>2. /\ \A l \in ToDrop(E, own) \ job[p].victims : ~Exists(l)' /\ copies'[l] = <<>>
        /\ \A l \in DOMAIN E \ ToDrop(E, own) : l = own \/ Exists(l)'
    <3> HIDE DEF k, own, E
    <3> QED BY <1>1, <1>3, <1>4, <1>5, <2>1
  <2>3. Dropping(p)'
    BY <1>1, <1>2, <1>4, <2>1, <2>2 DEF Dropping
  <2> QED BY <1>2, <2>3 DEF Dropped, NoAppend
<1>8. ASSUME NEW q \in Procs, q # p PROVE (Dropping(q) /\ Dropped(q) /\ NoAppend(q))'
  BY <1>2, <1>8, CapStill DEF Capping
<1> QED BY <1>7, <1>8 DEF Capping

LEMMA EvictCopiesCapping ==
  ASSUME Writing, Capping, NEW p \in Procs, EvictCopies(p)
  PROVE  Capping'
<1> DEFINE k == Oldest(job[p].entries, job[p].victims)
           left == job[p].victims
           own == job[p].key
           E == job[p].entries
<1>1. /\ HolderStep(p) /\ pc[p] = "evictCopies" /\ copies' = [copies EXCEPT ![k] = <<>>]
      /\ UNCHANGED <<file, index>>
  BY DEF HolderStep, EvictCopies
<1>2. /\ pc'[p] = IF left \ {k} = {} THEN "index" ELSE "evict"
      /\ job'[p] = [job[p] EXCEPT !.victims = left \ {k}]
      /\ \A q \in Procs : q # p => pc'[q] = pc[q] /\ job'[q] = job[q] /\ pc[q] \in {"idle", "waiting"}
  BY <1>1, HolderStepShape DEF Writing, StepAfter, VictimsAfter
<1>3. job'[p].victims = left \ {k} /\ job'[p].key = own /\ job'[p].entries = E
  <2>1. job[p] \in Job /\ left \ {k} \in SUBSET Keys
    BY DEF Writing, Shape, Job
  <2> QED BY <1>2, <2>1, VictimsTyped
<1>4. /\ E \in Entries /\ DOMAIN E \subseteq Keys /\ ToDrop(E, own) \subseteq DOMAIN E
      /\ \A l \in Keys : copies[l] = <<>> => copies'[l] = <<>>
      /\ k \in Keys => copies'[k] = <<>>
      /\ \A l : Exists(l)' = Exists(l)
  BY <1>1, EntriesAreEntries DEF Writing, Shape, DiskShape, Job, ToDrop, Victims, Exists
<1>5. Dropping(p) /\ ~Exists(k)
  BY <1>1 DEF Capping, Dropping, Indexing
<1> HIDE DEF k, own, E, left
<1>6. (Dropping(p) /\ Dropped(p) /\ NoAppend(p))'
  <2>1. left = job[p].victims /\ own = job[p].key /\ E = job[p].entries
    BY DEF left, own, E
  <2>2. pc'[p] \in Indexing /\ pc'[p] # "evictCopies" /\ (pc'[p] = "index" => left \ {k} = {})
    BY <1>2 DEF Indexing
  <2>3. /\ own \in DOMAIN E /\ left \subseteq ToDrop(E, own)
        /\ \A l \in ToDrop(E, own) \ left : ~Exists(l) /\ copies[l] = <<>>
        /\ \A l \in DOMAIN E \ ToDrop(E, own) : l = own \/ Exists(l)
    BY <1>1, <1>5, <2>1 DEF Dropping, Indexing
  <2>4. \A l \in ToDrop(E, own) \ (left \ {k}) : ~Exists(l)' /\ copies'[l] = <<>>
    BY <1>4, <1>5, <2>3
  <2>5. Dropping(p)'
    BY <1>3, <1>4, <2>2, <2>3, <2>4 DEF Dropping
  <2> QED BY <2>2, <2>5 DEF Dropped, NoAppend, Indexing
<1>7. ASSUME NEW q \in Procs, q # p PROVE (Dropping(q) /\ Dropped(q) /\ NoAppend(q))'
  BY <1>2, <1>7, CapStill DEF Capping
<1> QED BY <1>6, <1>7 DEF Capping

LEMMA IndexCapping ==
  ASSUME Writing, Capping, NEW p \in Procs, IndexAppend(p)
  PROVE  Capping'
<1> DEFINE own == job[p].key
           E == job[p].entries
           V == ToDrop(E, own)
           S == {k \in DOMAIN E : k = own \/ Exists(k)}
<1>1. /\ HolderStep(p) /\ pc[p] = "index" /\ index' = [k \in S |-> E[k]]
      /\ UNCHANGED <<file, copies, job>>
  BY DEF HolderStep, IndexAppend, WriteIndex
<1>2. /\ pc'[p] = "release"
      /\ \A q \in Procs : q # p => pc'[q] = pc[q] /\ job'[q] = job[q] /\ pc[q] \in {"idle", "waiting"}
  BY <1>1, HolderStepShape DEF Writing, StepAfter
<1>3. /\ own \in DOMAIN E /\ own \notin V /\ V \subseteq DOMAIN E
      /\ \A k \in V : ~Exists(k) /\ copies[k] = <<>>
      /\ \A k \in DOMAIN E \ V : k = own \/ Exists(k)
  BY <1>1 DEF Capping, Dropping, Indexing, ToDrop, Victims
<1>4. S = DOMAIN E \ V
  BY <1>3
<1> HIDE DEF own, E, V, S
<1>5. (Dropping(p) /\ Dropped(p) /\ NoAppend(p))'
  <2>1. own = job[p].key /\ E = job[p].entries /\ V = ToDrop(E, own)
    BY DEF own, E, V
  <2> QED BY <1>1, <1>2, <1>3, <1>4, <2>1 DEF Dropping, Dropped, NoAppend, Indexing, Exists
<1>6. ASSUME NEW q \in Procs, q # p PROVE (Dropping(q) /\ Dropped(q) /\ NoAppend(q))'
  BY <1>2, <1>6, CapStill DEF Capping
<1> QED BY <1>5, <1>6 DEF Capping

LEMMA RestCapping ==
  ASSUME Writing, Capping, NEW p \in Procs,
         ForgetCopies(p) \/ ForgetFile(p) \/ ForgetIndex(p) \/ ClearNamespace(p)
  PROVE  Capping'
<1>1. /\ HolderStep(p) /\ job' = job
      /\ pc[p] \in {"forgetCopies", "forgetFile", "forgetIndex", "clear"}
  BY DEF HolderStep, ForgetCopies, ForgetFile, ForgetIndex, ClearNamespace
<1>2. /\ pc'[p] \in {"forgetFile", "forgetIndex", "release"}
      /\ \A q \in Procs : q # p => pc'[q] = pc[q] /\ job'[q] = job[q] /\ pc[q] \in {"idle", "waiting"}
  BY <1>1, HolderStepShape DEF Writing, StepAfter
<1>3. job'[p].call # "append"
  BY <1>1 DEF Capping, NoAppend
<1> QED BY <1>2, <1>3, CapElsewhere DEF NoAppend, Indexing

LEMMA CappingStep == Writing /\ Capping /\ [Next]_vars => Capping'
<1> SUFFICES ASSUME Writing, Capping, [Next]_vars PROVE Capping'
  OBVIOUS
<1>0. Shape
  BY DEF Writing
<1>1. ASSUME NEW k \in Keys, Say(k) \/ Damage(k) PROVE Capping'
  <2>1. CASE Say(k)
    <3>1. UNCHANGED <<disk, calls>>
      BY <1>0, <2>1, SayShape
    <3> QED BY <3>1, CapStill DEF Capping, calls
  <2>2. CASE Damage(k)
    <3>1. UNCHANGED calls /\ lock = Free
      BY <1>0, <2>2, DamageShape
    <3>2. \A q \in Procs : pc[q] \in {"idle", "waiting"}
      BY <1>0, <3>1, SessionAssumption DEF Shape
    <3> QED BY <3>1, <3>2, CapStill DEF Capping, calls
  <2> QED BY <1>1, <2>1, <2>2
<1>2. ASSUME NEW p \in Procs, Begins(p) PROVE Capping'
  <2>1. PICK call \in {"append", "forget", "clear"}, k \in Keys, start \in Nat, turns \in Seq(Line) :
          Begin(p, call, k, start, turns)
    BY <1>0, <1>2, BeginsShape
  <2>2. UNCHANGED disk
    BY <2>1 DEF Begin
  <2>3. /\ pc'[p] = "waiting"
        /\ \A q \in Procs : q # p => pc'[q] = pc[q] /\ job'[q] = job[q]
    BY <1>0, <2>1, BeginShape
  <2> QED BY <2>2, <2>3, CapElsewhere DEF Indexing
<1>3. ASSUME NEW p \in Procs, Lock(p) PROVE Capping'
  <2>1. /\ pc[p] = "waiting" /\ job' = job /\ pc'[p] \in {"inspect", "forgetCopies", "clear"}
        /\ \A q \in Procs : q # p => pc'[q] = pc[q] /\ pc[q] \in {"idle", "waiting"}
    BY <1>0, <1>3, LockShape DEF Lock
  <2>2. pc' = [pc EXCEPT ![p] = CASE job[p].call = "append" -> "inspect"
                                  [] job[p].call = "forget" -> "forgetCopies"
                                  [] job[p].call = "clear" -> "clear"]
    BY <1>3 DEF Lock
  <2>3. job[p].call = "append" => pc'[p] = "inspect"
    <3>1. pc \in [Procs -> Steps]
      BY <1>0 DEF Shape
    <3> QED BY <2>2, <3>1
  <2>4. NoAppend(p)'
    BY <2>1, <2>3 DEF NoAppend
  <2> QED BY <2>1, <2>4, CapElsewhere DEF Indexing
<1>4. ASSUME NEW p \in Procs, Ends(p) PROVE Capping'
  <2>1. /\ pc'[p] = "idle" /\ UNCHANGED disk
        /\ \A q \in Procs : q # p => pc'[q] = pc[q] /\ job'[q] = job[q]
    BY <1>0, <1>4, EndsShape
  <2> QED BY <2>1, CapElsewhere DEF Indexing
<1>5. ASSUME NEW p \in Procs, Inspect(p) \/ AppendCut(p) \/ ClearCut(p) PROVE Capping'
  <2>1. job[p].key = job[p].key
    OBVIOUS
  <2>2. /\ pc'[p] \in {"idle", "append"}
        /\ \A q \in Procs : q # p => pc'[q] = pc[q] /\ job'[q] = job[q] /\ pc[q] \in {"idle", "waiting"}
    BY <1>0, <1>5, <2>1, InspectShape, CutShape, ClearCutShape
  <2> QED BY <2>2, CapElsewhere DEF Indexing
<1>6. ASSUME NEW p \in Procs, AppendTurns(p) \/ HolderStep(p) PROVE Capping'
  BY <1>6, AppendCapping, EvictCapping, EvictCopiesCapping, IndexCapping, RestCapping DEF HolderStep
<1>7. CASE UNCHANGED vars
  BY <1>7, CapStill DEF Capping, vars, calls
<1> QED BY <1>1, <1>2, <1>3, <1>4, <1>5, <1>6, <1>7, StepKinds

\* When an append is done, what the index knows exactly fits the cap, and what it
\* dropped are the oldest other sessions, no more than needed, without a file or a
\* copy (refreshIndex): for any sessions, transcripts, kills, damages and caps.
THEOREM CapIsHonoured == Spec => []CapHonoured
<1>1. Init => Capping
  BY DEF Init, Capping, Dropping, Dropped, NoAppend, Indexing
<1>2. Writing /\ Indexed /\ Capping => CapHonoured
  <2> SUFFICES ASSUME Writing, Indexed, Capping,
                      NEW p \in Procs, pc[p] = "release", job[p].call = "append"
               PROVE  LET exact == {k \in Keys \ stale : Readable(k)} IN
                      /\ Fits([k \in exact |-> Entry(k)]) \/ exact = {job[p].key}
                      /\ \A k \in DOMAIN job[p].entries \ DOMAIN index :
                           DroppedOldest(k, job[p].key, job[p].entries)
    BY DEF CapHonoured
  <2> DEFINE exact == {k \in Keys \ stale : Readable(k)}
             E == job[p].entries
             own == job[p].key
             V == ToDrop(E, own)
  <2>1. /\ E \in Entries /\ own \in DOMAIN E /\ index = [k \in DOMAIN E \ V |-> E[k]]
        /\ \A k \in V : ~Exists(k) /\ copies[k] = <<>>
    BY DEF Writing, Shape, Job, Capping, Dropped
  <2>2. index # NoIndex /\ DOMAIN E \subseteq Keys
    <3> HIDE DEF E, V
    <3>1. /\ DOMAIN E \ V \in SUBSET Keys /\ DOMAIN E \subseteq Keys
          /\ \A k \in DOMAIN E \ V : index[k] \in [start : Nat, turns : Seq(Nat), bytes : Nat]
      BY <2>1, EntriesAreEntries
    <3> DEFINE S == DOMAIN E \ V
    <3>2. index = [k \in S |-> index[k]]
      BY <2>1
    <3> HIDE DEF S
    <3>3. index \in Entries
      BY <3>1, <3>2, EntriesOver DEF S
    <3> QED BY <3>1, <3>3, EntriesAreEntries
  <2>3. \A k \in exact : k \in DOMAIN E \ V /\ Entry(k) = E[k]
    <3> TAKE k \in exact
    <3>1. Shown(k)
      BY NobodyBusy DEF Indexing
    <3>2. k \in DOMAIN index /\ index[k] = Entry(k)
      BY <2>2, <3>1, ListingAt DEF Shown
    <3> HIDE DEF E, V
    <3> QED BY <2>1, <3>2
  <2> HIDE DEF E, V, own, exact
  <2>4. Fits([k \in exact |-> Entry(k)]) \/ exact = {own}
    <3>1. [k \in exact |-> Entry(k)] = [k \in exact |-> E[k]]
      BY <2>3
    <3>2. Fits([k \in exact |-> E[k]]) \/ exact \subseteq {own}
      BY <2>1, <2>3, RestFits DEF V
    <3>3. CASE exact = {}
      BY <3>3, FitsNothing
    <3> QED BY <3>1, <3>2, <3>3
  <2>5. ASSUME NEW k \in DOMAIN E \ DOMAIN index PROVE DroppedOldest(k, own, E)
    <3>1. k \in V /\ DOMAIN index = DOMAIN E \ V /\ V \subseteq DOMAIN E
      BY <2>1, <2>5 DEF V, ToDrop, Victims
    <3>2. /\ k # own
          /\ \A l \in DOMAIN E \ (V \cup {own}) : Older(E, k, l)
          /\ \/ \E l \in V : Older(E, k, l)
             \/ ~Fits([l \in (DOMAIN E \ V) \cup {k} |-> E[l]])
      BY <2>1, <3>1, DropsOldest DEF V
    <3>3. ~Exists(k) /\ copies[k] = <<>>
      BY <2>1, <3>1
    <3> QED BY <3>1, <3>2, <3>3 DEF DroppedOldest
  <2> QED BY <2>4, <2>5 DEF E, own, exact
<1>3. Spec => []Capping
  BY <1>1, AlwaysIndexed, CappingStep, PTL DEF Spec
<1> QED BY <1>2, <1>3, AlwaysIndexed, PTL
-----------------------------------------------------------------------------
(* The floor.                                                                *)

\* What the process of a hook hands over and then writes is in the order of time.
Handing(p) ==
  pc[p] \in {"waiting", "inspect", "append"} /\ job[p].call = "append" /\ job[p].key \in Captured =>
    InOrder(job[p].key, job[p].turns) /\ Early(job[p].key, job[p].start, job[p].turns)

LEMMA HandingStep ==
  ASSUME Writing, \A p \in Procs : Handing(p), [Next]_vars
  PROVE  \A p \in Procs : Handing(p)'
<1>0. Shape
  BY DEF Writing
<1>1. ASSUME NEW p \in Procs, pc'[p] \notin {"waiting", "inspect", "append"} \/ Handing(p)',
             \A q \in Procs : q # p => pc'[q] = pc[q] /\ job'[q] = job[q]
      PROVE  \A q \in Procs : Handing(q)'
  BY <1>1 DEF Handing
<1>2. ASSUME UNCHANGED <<pc, job>> PROVE \A q \in Procs : Handing(q)'
  BY <1>2 DEF Handing
<1>3. ASSUME NEW k \in Keys, Say(k) \/ Damage(k) PROVE \A q \in Procs : Handing(q)'
  BY <1>0, <1>2, <1>3, SayShape, DamageShape DEF calls
<1>4. ASSUME NEW p \in Procs, Begins(p) PROVE \A q \in Procs : Handing(q)'
  <2>1. PICK call \in {"append", "forget", "clear"}, k \in Keys, start \in Nat, turns \in Seq(Line) :
          /\ Begin(p, call, k, start, turns)
          /\ k \in Captured /\ call = "append" => InOrder(k, turns) /\ Early(k, start, turns)
    BY <1>0, <1>4, BeginsShape
  <2>2. /\ job'[p] = Begun(call, k, start, turns)
        /\ \A q \in Procs : q # p => pc'[q] = pc[q] /\ job'[q] = job[q]
    BY <1>0, <2>1, BeginShape
  <2>3. job'[p].call = call /\ job'[p].key = k /\ job'[p].start = start /\ job'[p].turns = turns
    BY <2>1, <2>2, BegunTyped
  <2> QED BY <1>1, <2>1, <2>2, <2>3 DEF Handing
<1>5. ASSUME NEW p \in Procs, Lock(p) PROVE \A q \in Procs : Handing(q)'
  <2>1. /\ pc[p] = "waiting" /\ job' = job
        /\ \A q \in Procs : q # p => pc'[q] = pc[q]
    BY <1>0, <1>5, LockShape DEF Lock
  <2> QED BY <1>1, <2>1 DEF Handing
<1>6. ASSUME NEW p \in Procs, Ends(p) PROVE \A q \in Procs : Handing(q)'
  BY <1>0, <1>1, <1>6, EndsShape
<1>7. ASSUME NEW p \in Procs, Inspect(p) PROVE \A q \in Procs : Handing(q)'
  <2> DEFINE k == job[p].key
             old == job[p].turns
             new == job'[p].turns
  <2>1. /\ pc[p] = "inspect" /\ job'[p].key = k /\ job'[p].call = job[p].call
        /\ job'[p].start = job[p].start /\ new = ToAppend(k, old)
        /\ \A q \in Procs : q # p => pc'[q] = pc[q] /\ job'[q] = job[q]
    BY <1>0, <1>7, InspectShape DEF Inspect
  <2>2. /\ old \in Seq(Line) /\ k \in Keys
    BY <1>0 DEF Shape, Job
  <2> DEFINE fresh == Fresh(k, old)
             head == IF Readable(k) THEN <<>> ELSE <<Header>>
  <2>3. /\ fresh \in Seq(Line) /\ ToSet(fresh) \subseteq ToSet(old)
        /\ \A i, j \in DOMAIN fresh : i < j =>
             \E a, b \in DOMAIN old : a < b /\ old[a] = fresh[i] /\ old[b] = fresh[j]
    <3> DEFINE S == {u \in ToSet(old) : Text(k, u) \notin Texts(k, Stored(k))}
    <3>1. fresh = Picked(old, S)
      BY DEF Fresh
    <3> HIDE DEF S, fresh
    <3> QED BY <2>2, <3>1, PickedMembers
  <2>4. new = head \o fresh
    BY <2>1 DEF ToAppend
  <2> HIDE DEF fresh, old, new, k
  <2>5. new = fresh \/ (new = <<Header>> \o fresh /\ <<Header>> \in Seq(Line))
    BY <2>3, <2>4, LinesAreNumbers
  <2> HIDE DEF head
  <2>6. ASSUME InOrder(k, old), NEW start, Early(k, start, old)
        PROVE  InOrder(k, new) /\ Early(k, start, new)
    <3>1. InOrder(k, fresh) /\ Early(k, start, fresh)
      BY <2>3, <2>6 DEF InOrder, Early
    <3>2. CASE new = <<Header>> \o fresh
      <4>1. /\ Len(fresh) \in Nat /\ DOMAIN fresh = 1..Len(fresh) /\ DOMAIN new = 1..(Len(fresh) + 1)
            /\ new[1] = Header /\ \A i \in 1..Len(fresh) : new[i + 1] = fresh[i]
        BY <2>3, <2>5, <3>2
      <4>2. ASSUME NEW i \in DOMAIN new, new[i] > Header PROVE i - 1 \in DOMAIN fresh /\ new[i] = fresh[i - 1]
        <5>1. i # 1
          BY <4>1, <4>2 DEF Header
        <5>2. i - 1 \in 1..Len(fresh) /\ (i - 1) + 1 = i
          BY <4>1, <5>1
        <5> QED BY <4>1, <5>2
      <4>3. InOrder(k, new)
        <5> SUFFICES ASSUME NEW i \in DOMAIN new, NEW j \in DOMAIN new, i < j,
                            new[i] > Header, new[j] > Header
                     PROVE  Time(k, new[i]) <= Time(k, new[j])
          BY DEF InOrder
        <5>1. i - 1 < j - 1
          BY <4>1
        <5> QED BY <3>1, <4>2, <5>1 DEF InOrder
      <4>4. Early(k, start, new)
        BY <3>1, <4>2 DEF Early, ToSet
      <4> QED BY <4>3, <4>4
    <3> QED BY <2>5, <3>1, <3>2
  <2>7. Handing(p) /\ k = job[p].key /\ old = job[p].turns /\ new = job'[p].turns
    BY DEF k, old, new
  <2>8. Handing(p)'
    BY <2>1, <2>6, <2>7 DEF Handing
  <2> QED BY <1>1, <2>1, <2>8
<1>8. ASSUME NEW p \in Procs, AppendTurns(p) \/ AppendCut(p) PROVE \A q \in Procs : Handing(q)'
  <2>1. PICK k : k = job[p].key
    OBVIOUS
  <2>2. /\ pc'[p] \in {"index", "evict", "idle"}
        /\ \A q \in Procs : q # p => pc'[q] = pc[q] /\ job'[q] = job[q]
    BY <1>0, <1>8, <2>1, AppendShape, CutShape
  <2> QED BY <1>1, <2>2
<1>9. ASSUME NEW p \in Procs, HolderStep(p) \/ ClearCut(p) PROVE \A q \in Procs : Handing(q)'
  <2>1. /\ pc'[p] \notin {"waiting", "inspect", "append"}
        /\ \A q \in Procs : q # p => pc'[q] = pc[q] /\ job'[q] = job[q]
    BY <1>0, <1>9, HolderStepShape, ClearCutShape DEF StepAfter
  <2> QED BY <1>1, <2>1
<1>10. CASE UNCHANGED vars
  BY <1>2, <1>10 DEF vars, calls
<1> QED BY <1>3, <1>4, <1>5, <1>6, <1>7, <1>8, <1>9, <1>10, StepKinds

\* The floor, from the index or from the file.
LEMMA MarkAt ==
  \A k \in Keys :
    Mark(k) = IF index # NoIndex THEN LastTime(k, index)
              ELSE IF ~Readable(k) THEN 0
              ELSE IF Stored(k) = <<>> THEN file[k].start
              ELSE Time(k, Last(Stored(k)))
BY DEF Mark, Listing, LastTime, Entry

LEMMA MarkAtAfter ==
  \A k \in Keys :
    Mark(k)' = IF index' # NoIndex THEN LastTime(k, index')
               ELSE IF ~Readable(k)' THEN 0
               ELSE IF Stored(k)' = <<>> THEN file'[k].start
               ELSE Time(k, Last(Stored(k)'))
<1>1. (\A k \in Keys :
         Mark(k) = IF index # NoIndex THEN LastTime(k, index)
                   ELSE IF ~Readable(k) THEN 0
                   ELSE IF Stored(k) = <<>> THEN file[k].start
                   ELSE Time(k, Last(Stored(k))))'
  BY MarkAt, PTL
<1> QED BY <1>1 DEF LastTime

\* With more lines the last turn is one of theirs, if they have any.
LEMMA LastTurn ==
  ASSUME NEW s \in Seq(Line), NEW more \in Seq(Line), TurnsIn(more) # <<>>
  PROVE  TurnsIn(s \o more) # <<>> /\ Last(TurnsIn(s \o more)) \in ToSet(TurnsIn(more))
<1>1. PICK a \in Seq(Nat), b \in Seq(Nat) :
        a = TurnsIn(s) /\ b = TurnsIn(more) /\ TurnsIn(s \o more) = a \o b
  BY TurnsAmongLines, TurnsOfConcat
<1>2. /\ b # <<>> /\ Len(b) \in 1..Len(b) /\ DOMAIN b = 1..Len(b)
      /\ a \o b # <<>> /\ (a \o b)[Len(a \o b)] = b[Len(b)]
  BY <1>1
<1> QED BY <1>1, <1>2 DEF Last, ToSet

\* What the last step before t's turn is stored left: a turn the file has gained
\* comes before those it has not.
LEMMA CutRecoverable ==
  ASSUME Writing, NEW p \in Procs, Handing(p), AppendCut(p), NEW k, k = job[p].key, k \in Captured,
         job[p].call = "append", NEW t \in ToSet(TurnsIn(job[p].turns)), Time(k, t) < Mark(k)'
  PROVE  Time(k, t) < Mark(k) \/ Text(k, t) \in Texts(k, Stored(k)')
<1>0. Shape /\ DiskShape
  BY DEF Writing, Shape
<1>1. /\ k \in Keys /\ pc[p] = "append" /\ Cuts(p, k) /\ index' = index /\ Shape'
      /\ file'[k].start = IF Readable(k) THEN file[k].start ELSE job[p].start
  BY <1>0, CutShape DEF AppendCut
<1> DEFINE turns == job[p].turns
<1>2. PICK n \in 0..Len(turns) - 1, rest \in {<<>>, <<Torn>>} :
        Lines(k)' = Lines(k) \o (SubSeq(turns, 1, n) \o rest)
  BY <1>1 DEF Cuts
<1>3. turns \in Seq(Line) /\ Lines(k) \in Seq(Line) /\ Len(turns) \in Nat /\ DOMAIN turns = 1..Len(turns)
      /\ job[p].start \in Nat
  <2>1. turns \in Seq(Line) /\ job[p].start \in Nat
    BY <1>0 DEF Shape, Job
  <2>2. Lines(k) \in Seq(Line)
    BY <1>0, <1>1, LinesTyped
  <2> HIDE DEF turns
  <2> QED BY <2>1, <2>2
<1>4. InOrder(k, turns) /\ Early(k, job[p].start, turns)
  BY <1>1 DEF Handing
<1>5. /\ \A i \in DOMAIN turns : turns[i] \in 0..said[k] /\ said[k] \in Nat /\ said[k] <= Len(Transcript[k])
      /\ Readable(k) \/ Lines(k) = <<>>
  BY <1>0, <1>1 DEF Writing, Prepared, Shape
<1> DEFINE lines == SubSeq(turns, 1, n) \o rest
<1> HIDE DEF turns
<1>6. \A i \in DOMAIN turns : turns[i] > Header => Time(k, turns[i]) \in Nat
  <2> SUFFICES ASSUME NEW i \in DOMAIN turns, turns[i] > Header PROVE Time(k, turns[i]) \in Nat
    OBVIOUS
  <2>1. turns[i] \in 1..Len(Transcript[k])
    BY <1>1, <1>5, LinesAreNumbers DEF Header
  <2> QED BY <1>1, <2>1, TimesAreNumbers
<1>7. PICK j \in DOMAIN turns : t = turns[j] /\ turns[j] > Header
  <2>1. t \in ToSet(turns) /\ t > Header
    BY <1>3, TurnsAmongLines DEF turns
  <2> QED BY <2>1 DEF ToSet
<1>8. /\ lines \in Seq(Line)
      /\ \A i \in 1..n : turns[i] \in ToSet(lines)
      /\ \A u \in ToSet(lines) : u > Header => \E i \in 1..n : i \in DOMAIN turns /\ u = turns[i]
  <2> DEFINE first == SubSeq(turns, 1, n)
  <2>1. /\ first \in Seq(Line) /\ DOMAIN first = 1..n /\ \A i \in 1..n : first[i] = turns[i] /\ i \in DOMAIN turns
    BY <1>2, <1>3
  <2>2. rest \in Seq(Line) /\ \A u \in ToSet(rest) : u = Torn
    <3>1. <<>> \in Seq(Line) /\ <<Torn>> \in Seq(Line)
      BY LinesAreNumbers
    <3>2. ToSet(<<>>) = {} /\ ToSet(<<Torn>>) = {Torn}
      BY DEF ToSet
    <3> QED BY <1>2, <3>1, <3>2
  <2>3. lines \in Seq(Line) /\ ToSet(lines) = ToSet(first) \cup ToSet(rest)
    <3> HIDE DEF first
    <3>1. ToSet(first \o rest) = ToSet(first) \cup ToSet(rest) /\ first \o rest \in Seq(Line)
      BY <2>1, <2>2, MembersOfConcat
    <3> QED BY <3>1 DEF first
  <2>4. ToSet(first) = {turns[i] : i \in 1..n}
    BY <2>1 DEF ToSet
  <2> HIDE DEF lines, first
  <2> QED BY <2>1, <2>2, <2>3, <2>4 DEF Torn, Header
<1>9. Lines(k)' = Lines(k) \o lines
  BY <1>2
<1> HIDE DEF lines
<1>10. CASE index # NoIndex
  BY <1>1, <1>10, MarkAt, MarkAtAfter
<1>11. CASE index = NoIndex /\ ~Readable(k)'
  BY <1>1, <1>6, <1>7, <1>11, MarkAtAfter
<1>12. CASE index = NoIndex /\ Readable(k)'
  <2>1. Stored(k)' = TurnsIn(Lines(k) \o lines)
    BY <1>9, <1>12 DEF Stored
  <2>2. CASE TurnsIn(lines) = <<>>
    <3>1. Stored(k)' = TurnsIn(Lines(k))
      <4>1. PICK a \in Seq(Nat) : a = TurnsIn(Lines(k)) /\ TurnsIn(Lines(k) \o lines) = a \o <<>>
        BY <1>3, <1>8, <2>2, TurnsAmongLines, TurnsOfConcat
      <4> QED BY <2>1, <4>1
    <3>2. CASE Readable(k)
      <4>1. Stored(k)' = Stored(k) /\ file'[k].start = file[k].start
        BY <1>1, <3>1, <3>2 DEF Stored
      <4>2. Mark(k)' = Mark(k)
        BY <1>1, <1>12, <3>2, <4>1, MarkAt, MarkAtAfter
      <4> QED BY <4>2
    <3>3. CASE ~Readable(k)
      <4>1. Stored(k)' = <<>>
        <5>1. <<>> \in Seq(Line) /\ Lines(k) = <<>>
          BY <1>5, <3>3
        <5>2. ToSet(<<>>) = {}
          BY DEF ToSet
        <5>3. PICK v \in Seq(Nat) : v = TurnsIn(<<>>) /\ ToSet(v) = {}
          BY <5>1, <5>2, TurnsAmongLines
        <5>4. Len(v) \in Nat /\ \A i \in 1..Len(v) : v[i] \in ToSet(v)
          BY DEF ToSet
        <5>5. Len(v) = 0
          BY <5>3, <5>4
        <5> QED BY <3>1, <5>1, <5>3, <5>5
      <4>2. Mark(k)' = job[p].start
        BY <1>1, <1>12, <3>3, <4>1, MarkAtAfter
      <4>3. job[p].start <= Time(k, t)
        BY <1>4, <1>7 DEF Early, ToSet
      <4> QED BY <1>3, <1>6, <1>7, <4>2, <4>3
    <3> QED BY <3>2, <3>3
  <2>3. CASE TurnsIn(lines) # <<>>
    <3>1. PICK i \in 1..n : i \in DOMAIN turns /\ turns[i] > Header /\ Mark(k)' = Time(k, turns[i])
      <4>1. Stored(k)' # <<>> /\ Last(Stored(k)') \in ToSet(TurnsIn(lines))
        BY <1>3, <1>8, <2>1, <2>3, LastTurn
      <4>2. Mark(k)' = Time(k, Last(Stored(k)'))
        BY <1>1, <1>12, <4>1, MarkAtAfter
      <4>3. Last(Stored(k)') \in ToSet(lines) /\ Last(Stored(k)') > Header
        BY <1>8, <4>1, TurnsAmongLines
      <4> QED BY <1>8, <4>2, <4>3
    <3>2. CASE j \in 1..n
      <4>1. t \in ToSet(Lines(k) \o lines) /\ t > Header
        <5>1. ToSet(Lines(k) \o lines) = ToSet(Lines(k)) \cup ToSet(lines)
          BY <1>3, <1>8, MembersOfConcat
        <5> QED BY <1>7, <1>8, <3>2, <5>1
      <4>2. t \in ToSet(Stored(k)')
        <5>1. Lines(k) \o lines \in Seq(Line)
          BY <1>3, <1>8
        <5> QED BY <2>1, <4>1, <5>1, TurnsAmongLines
      <4> QED BY <4>2 DEF Texts
    <3>3. CASE j \notin 1..n
      <4>1. i < j
        BY <1>2, <1>3, <3>1, <3>3
      <4>2. Time(k, turns[i]) <= Time(k, t)
        BY <1>4, <1>7, <3>1, <4>1 DEF InOrder
      <4> QED BY <1>6, <1>7, <3>1, <4>2
    <3> QED BY <3>2, <3>3
  <2> QED BY <2>2, <2>3
<1> QED BY <1>10, <1>11, <1>12

\* The turns of the batch that is written stay stored until the append is done.
LEMMA StepRecoverable ==
  ASSUME Writing, Capping, \A q \in Procs : Handing(q), [Next]_vars,
         NEW p \in Procs, NEW k, k = job[p].key, pc'[p] # pc[p], job[p].call = "append", k \in Captured,
         NEW t \in ToSet(TurnsIn(job[p].turns)), Time(k, t) < Mark(k)'
  PROVE  Time(k, t) < Mark(k) \/ Text(k, t) \in Texts(k, Stored(k)')
<1>0. Shape /\ DiskShape /\ k \in Keys /\ job[p].turns \in Seq(Line)
  BY DEF Writing, Shape, Job
<1>1. ASSUME UNCHANGED disk PROVE Mark(k)' = Mark(k)
  BY <1>1 DEF disk, Mark, LastTime, Listing, Entry, Stored, Readable, Lines, Exists
<1>2. ASSUME NEW l \in Keys, Say(l) \/ Damage(l) PROVE FALSE
  BY <1>0, <1>2, SayShape, DamageShape DEF calls
<1>3. ASSUME NEW q \in Procs,
             Begins(q) \/ Lock(q) \/ Ends(q)
      PROVE  UNCHANGED disk
  BY <1>0, <1>3, BeginsShape, EndsShape DEF Begin, Lock
<1>4. ASSUME NEW q \in Procs, Inspect(q) PROVE Mark(k)' = Mark(k)
  <2>1. /\ Stored(k)' = Stored(k) /\ (Readable(k)' <=> Readable(k)) /\ index' = index
    BY <1>0, <1>4, Inspected DEF Inspect
  <2>2. Readable(k) => file'[k] = file[k]
    BY <1>0, <1>4 DEF Inspect, Quarantine, DiskShape, Readable, Unreadable
  <2> QED BY <1>0, <2>1, <2>2, MarkAt, MarkAtAfter
<1>5. ASSUME NEW q \in Procs, AppendTurns(q) PROVE t \in ToSet(Stored(k)')
  <2>1. PICK l \in Keys : /\ l = job[q].key
                          /\ ToSet(Stored(l)') = ToSet(Stored(l)) \cup {u \in ToSet(job[q].turns) : u > Header}
    BY <1>5, AppendWriting
  <2>2. q = p
    BY <1>0, <1>5, <2>1, AppendShape
  <2>3. t \in ToSet(job[p].turns) /\ t > Header
    BY <1>0, TurnsAmongLines
  <2> QED BY <2>1, <2>2, <2>3
<1>6. ASSUME NEW q \in Procs, AppendCut(q) PROVE Time(k, t) < Mark(k) \/ Text(k, t) \in Texts(k, Stored(k)')
  <2>1. PICK l : l = job[q].key
    OBVIOUS
  <2>2. q = p
    BY <1>0, <1>6, <2>1, CutShape
  <2> QED BY <1>6, <2>2, CutRecoverable
<1>7. ASSUME NEW q \in Procs, HolderStep(q) \/ ClearCut(q) PROVE t \in ToSet(Stored(k)')
  <2>1. q = p
    BY <1>0, <1>7, HolderStepShape, ClearCutShape
  <2>2. pc[p] \notin {"forgetCopies", "forgetFile", "forgetIndex", "clear"}
    BY DEF Capping, NoAppend
  <2>3. pc[p] \in Indexing
    BY <1>7, <2>1, <2>2 DEF HolderStep, Evict, EvictCopies, IndexAppend, ForgetCopies, ForgetFile,
                            ForgetIndex, ClearNamespace, ClearCut, Indexing
  <2>4. t \in ToSet(Stored(k))
    BY <2>3 DEF Writing, Written
  <2>5. file'[k] = file[k]
    BY <1>0, <1>7, <2>1, <2>3, RemovesFiles DEF Removes, Indexing
  <2> QED BY <1>0, <2>4, <2>5, SameFile
<1>8. t \in ToSet(Stored(k)') => Text(k, t) \in Texts(k, Stored(k)')
  BY DEF Texts
<1>9. Next
  BY DEF vars, calls
<1> QED BY <1>1, <1>2, <1>3, <1>4, <1>5, <1>6, <1>7, <1>8, <1>9, StepKinds

\* No step of an append, done or cut off, raises the floor of a captured session over
\* a turn of its batch that is not stored (sessionTurnsToWrite, readIndex): for any
\* transcripts, whatever the order of their times, windows, budgets, kills and damages.
THEOREM CutsAreRecoverable == Spec => CutsRecoverable
<1>1. Init => Capping /\ \A p \in Procs : Handing(p)
  BY DEF Init, Capping, Dropping, Dropped, NoAppend, Indexing, Handing
<1>2. Writing /\ (\A p \in Procs : Handing(p)) /\ [Next]_vars => (\A p \in Procs : Handing(p))'
  BY HandingStep
<1>3. Spec => [](Writing /\ Capping /\ \A p \in Procs : Handing(p))
  BY <1>1, <1>2, AlwaysWriting, CappingStep, PTL DEF Spec
<1>4. Writing /\ Capping /\ (\A p \in Procs : Handing(p)) /\ [Next]_vars =>
        [\A p \in Procs : \A k \in Captured :
           pc'[p] # pc[p] /\ job[p].call = "append" /\ job[p].key = k =>
             \A t \in ToSet(TurnsIn(job[p].turns)) :
               Time(k, t) < Mark(k)' => \/ Time(k, t) < Mark(k)
                                        \/ Text(k, t) \in Texts(k, Stored(k))']_vars
  BY StepRecoverable
<1> QED BY <1>3, <1>4, PTL DEF Spec, CutsRecoverable
=============================================================================
