------------------------ MODULE ScenarioOrderProofs ------------------------
(***************************************************************************)
(* Theorems about the orders of ScenarioOrder, for graphs of any size: an  *)
(* installation and an upgrade that are accepted follow the only order     *)
(* their edges allow, an upgrade that is refused has none or several, and  *)
(* no action of an upgrade finds what it needs missing.                    *)
(***************************************************************************)
EXTENDS ScenarioOrder, DataTheorems, SequenceTheorems

---------------------------------------------------------------------------
(* Sequences without repetition.                                             *)

Once(s) == \A i, j \in 1..Len(s) : s[i] = s[j] => i = j

\* What t holds comes in the order of s.
Follows(t, s) ==
  \A a, b \in 1..Len(t) : a < b => \E i, j \in 1..Len(s) : i < j /\ s[i] = t[a] /\ s[j] = t[b]

\* In s every m comes before every n.
Precedes(s, m, n) == \A i, j \in 1..Len(s) : s[i] = m /\ s[j] = n => i < j

\* The first position of s that holds one of some nodes.
IsFirst(s, i, nodes) == s[i] \in nodes /\ \A j \in 1..Len(s) : s[j] \in nodes => i <= j

LEMMA Smallest ==
  ASSUME NEW S \in SUBSET Nat, S # {}
  PROVE  \E x \in S : \A y \in S : x <= y
<1> SUFFICES ASSUME \A x \in S : \E y \in S : y < x PROVE FALSE
  OBVIOUS
<1> DEFINE A == {n \in Nat : \A m \in 0..n : m \notin S}
<1>1. 0 \in A
  OBVIOUS
<1>2. ASSUME NEW n \in Nat, n \in A PROVE n + 1 \in A
  <2>1. n + 1 \notin S
    BY <1>2
  <2> QED
    BY <1>2, <2>1
<1> HIDE DEF A
<1>3. Nat \subseteq A
  BY <1>1, <1>2, Induction
<1>4. PICK x \in S : TRUE
  OBVIOUS
<1>5. x \in A /\ x \in 0..x
  BY <1>3, <1>4
<1> QED
  BY <1>4, <1>5 DEF A

\* f is given by its first value and by the step to the next.
Iterates(f, first, n, next) == f[0] = first /\ \A i \in 1..n : f[i] = next[i][f[i - 1]]

\* There is such a function.
LEMMA StepsExist ==
  ASSUME NEW S, NEW first \in S, NEW n \in Nat, NEW next \in [1..n -> [S -> S]]
  PROVE  \E f \in [0..n -> S] : Iterates(f, first, n, next)
<1> DEFINE A == {k \in Nat : k <= n =>
                   \E f \in [0..k -> S] : f[0] = first /\ \A i \in 1..k : f[i] = next[i][f[i - 1]]}
<1>1. 0 \in A
  <2>1. PICK f : f = [i \in 0..0 |-> first]
    OBVIOUS
  <2>2. f \in [0..0 -> S] /\ f[0] = first /\ \A i \in 1..0 : f[i] = next[i][f[i - 1]]
    BY <2>1
  <2> QED
    BY <2>2
<1>2. ASSUME NEW k \in Nat, k \in A PROVE k + 1 \in A
  <2>1. SUFFICES ASSUME k + 1 <= n
                 PROVE  \E f \in [0..(k + 1) -> S] :
                          f[0] = first /\ \A i \in 1..(k + 1) : f[i] = next[i][f[i - 1]]
    OBVIOUS
  <2>2. PICK f \in [0..k -> S] : f[0] = first /\ \A i \in 1..k : f[i] = next[i][f[i - 1]]
    BY <1>2, <2>1
  <2>3. PICK v : v = next[k + 1][f[k]]
    OBVIOUS
  <2>4. v \in S
    BY <2>1, <2>2, <2>3
  <2>5. PICK g : g = [i \in 0..(k + 1) |-> IF i = k + 1 THEN v ELSE f[i]]
    OBVIOUS
  <2>6. g \in [0..(k + 1) -> S]
    BY <2>2, <2>4, <2>5
  <2>7. \A i \in 0..k : g[i] = f[i]
    BY <2>5
  <2>8. g[k + 1] = v
    BY <2>5
  <2>9. ASSUME NEW i \in 1..(k + 1) PROVE g[i] = next[i][g[i - 1]]
    <3>1. CASE i = k + 1
      <4>1. i - 1 = k /\ k \in 0..k
        BY <3>1
      <4> QED
        BY <2>3, <2>7, <2>8, <3>1, <4>1
    <3>2. CASE i # k + 1
      <4>1. i \in 1..k /\ i \in 0..k /\ i - 1 \in 0..k
        BY <3>2
      <4> QED
        BY <2>2, <2>7, <4>1
    <3> QED
      BY <3>1, <3>2
  <2>10. g[0] = first
    BY <2>2, <2>7
  <2> QED
    BY <2>6, <2>9, <2>10
<1> HIDE DEF A
<1>3. n \in A
  BY <1>1, <1>2, Induction
<1> QED
  BY <1>3 DEF A, Iterates

\* What is left of an order, by the positions up to i.
LEMMA OnlyIs ==
  ASSUME NEW S, NEW s \in Seq(S), NEW chosen
  PROVE  \E kept \in [0..Len(s) -> Seq(S)] :
           /\ kept[0] = <<>> /\ Only(s, chosen) = kept[Len(s)]
           /\ \A i \in 1..Len(s) :
                kept[i] = IF s[i] \in chosen THEN Append(kept[i - 1], s[i]) ELSE kept[i - 1]
<1> DEFINE n == Len(s)
           Keeps(g) == g = [i \in 0..n |-> IF i = 0 THEN <<>>
                              ELSE IF s[i] \in chosen THEN Append(g[i - 1], s[i]) ELSE g[i - 1]]
           next == [i \in 1..n |-> [t \in Seq(S) |-> IF s[i] \in chosen THEN Append(t, s[i]) ELSE t]]
<1>1. n \in Nat /\ \A i \in 1..n : s[i] \in S
  BY LenProperties, ElementOfSeq
<1>2. next \in [1..n -> [Seq(S) -> Seq(S)]]
  BY <1>1, AppendProperties
<1>3. <<>> \in Seq(S)
  BY EmptySeq
<1>4. PICK f \in [0..n -> Seq(S)] : f[0] = <<>> /\ \A i \in 1..n : f[i] = next[i][f[i - 1]]
  <2> HIDE DEF next, n
  <2>1. \E f \in [0..n -> Seq(S)] : Iterates(f, <<>>, n, next)
    BY <1>1, <1>2, <1>3, StepsExist
  <2> QED
    BY <2>1 DEF Iterates
<1>5. \A i \in 1..n : f[i] = IF s[i] \in chosen THEN Append(f[i - 1], s[i]) ELSE f[i - 1]
  <2>1. SUFFICES ASSUME NEW i \in 1..n PROVE f[i] = IF s[i] \in chosen THEN Append(f[i - 1], s[i]) ELSE f[i - 1]
    OBVIOUS
  <2>2. i - 1 \in 0..n
    BY <1>1
  <2>3. f[i - 1] \in Seq(S)
    BY <2>2, <1>4
  <2> QED
    BY <1>4, <2>3
<1>6. Keeps(f)
  <2>1. ASSUME NEW i \in 0..n
        PROVE  f[i] = IF i = 0 THEN <<>> ELSE IF s[i] \in chosen THEN Append(f[i - 1], s[i]) ELSE f[i - 1]
    <3>1. CASE i = 0
      BY <1>4, <3>1
    <3>2. CASE i # 0
      <4>1. i \in 1..n
        BY <1>1, <3>2
      <4> QED
        BY <1>5, <3>2, <4>1
    <3> QED
      BY <3>1, <3>2
  <2> QED
    BY <1>4, <2>1
<1> DEFINE kept == CHOOSE g : Keeps(g)
<1>7. Keeps(kept)
  <2> HIDE DEF Keeps
  <2> QED
    BY <1>6
<1>8. Only(s, chosen) = kept[n]
  BY DEF Only
<1>9. ASSUME NEW g, Keeps(g)
      PROVE  /\ g[0] = <<>>
             /\ \A i \in 1..n : g[i] = IF s[i] \in chosen THEN Append(g[i - 1], s[i]) ELSE g[i - 1]
             /\ DOMAIN g = 0..n /\ g = [i \in 0..n |-> g[i]]
  <2> DEFINE at(i) == IF i = 0 THEN <<>> ELSE IF s[i] \in chosen THEN Append(g[i - 1], s[i]) ELSE g[i - 1]
  <2>1. g = [i \in 0..n |-> at(i)]
    BY <1>9
  <2> HIDE DEF at
  <2>2. DOMAIN g = 0..n /\ \A i \in 0..n : g[i] = at(i)
    BY <2>1
  <2>3. g = [i \in 0..n |-> g[i]]
    BY <2>1, <2>2
  <2>4. at(0) = <<>> /\ 0 \in 0..n /\ \A i \in 1..n : i \in 0..n /\ i # 0
    BY <1>1 DEF at
  <2>5. \A i \in 1..n : at(i) = IF s[i] \in chosen THEN Append(g[i - 1], s[i]) ELSE g[i - 1]
    BY <2>4 DEF at
  <2> QED
    BY <2>2, <2>3, <2>4, <2>5
<1> HIDE DEF kept, Keeps, next
<1>10. \A i \in Nat : i <= n => kept[i] \in Seq(S)
  <2> DEFINE A == {i \in Nat : i <= n => kept[i] \in Seq(S)}
  <2>1. 0 \in A
    BY <1>3, <1>7, <1>9
  <2>2. ASSUME NEW i \in Nat, i \in A PROVE i + 1 \in A
    <3>1. SUFFICES ASSUME i + 1 <= n PROVE kept[i + 1] \in Seq(S)
      OBVIOUS
    <3>2. kept[i] \in Seq(S) /\ i + 1 \in 1..n /\ (i + 1) - 1 = i
      BY <1>1, <2>2, <3>1
    <3>3. Append(kept[i], s[i + 1]) \in Seq(S)
      BY <1>1, <3>2, AppendProperties
    <3>4. kept[i + 1] = IF s[i + 1] \in chosen THEN Append(kept[i], s[i + 1]) ELSE kept[i]
      BY <1>7, <1>9, <3>2
    <3> QED
      BY <3>2, <3>3, <3>4
  <2> HIDE DEF A
  <2>3. Nat \subseteq A
    BY <2>1, <2>2, Induction
  <2> QED
    BY <2>3 DEF A
<1>11. kept \in [0..n -> Seq(S)]
  BY <1>1, <1>7, <1>9, <1>10
<1> QED
  BY <1>7, <1>8, <1>9, <1>11

LEMMA OnlyFacts ==
  ASSUME NEW S, NEW s \in Seq(S), Once(s), NEW chosen, NEW t, t = Only(s, chosen)
  PROVE  t \in Seq(S) /\ Once(t) /\ ToSet(t) = ToSet(s) \cap chosen /\ Follows(t, s)
<1>1. PICK kept \in [0..Len(s) -> Seq(S)] :
           /\ kept[0] = <<>> /\ Only(s, chosen) = kept[Len(s)]
           /\ \A i \in 1..Len(s) :
                kept[i] = IF s[i] \in chosen THEN Append(kept[i - 1], s[i]) ELSE kept[i - 1]
  BY OnlyIs
<1>2. Len(s) \in Nat /\ DOMAIN s = 1..Len(s) /\ \A i \in 1..Len(s) : s[i] \in S
  BY LenProperties, ElementOfSeq
<1> DEFINE Comes(u, i) == \A a \in 1..Len(u) : u[a] \in chosen /\ \E p \in 1..i : u[a] = s[p]
           Stays(u, i) == \A p \in 1..i : s[p] \in chosen => \E a \in 1..Len(u) : u[a] = s[p]
           InOrder(u, i) == \A a, b \in 1..Len(u) : a < b =>
                              \E p, q \in 1..i : p < q /\ s[p] = u[a] /\ s[q] = u[b]
           A == {i \in Nat : i <= Len(s) => Comes(kept[i], i) /\ Stays(kept[i], i) /\ InOrder(kept[i], i)}
<1>3. 0 \in A
  <2>1. Len(kept[0]) = 0
    BY <1>1, EmptySeq
  <2> QED
    BY <2>1
<1>4. ASSUME NEW k \in Nat, k \in A PROVE k + 1 \in A
  <2>1. SUFFICES ASSUME k + 1 <= Len(s)
                 PROVE  Comes(kept[k + 1], k + 1) /\ Stays(kept[k + 1], k + 1) /\ InOrder(kept[k + 1], k + 1)
    <3> HIDE DEF Comes, Stays, InOrder
    <3> QED
      OBVIOUS
  <2>2. PICK u : u = kept[k]
    OBVIOUS
  <2>3. PICK v : v = kept[k + 1]
    OBVIOUS
  <2>4. PICK x : x = s[k + 1]
    OBVIOUS
  <2>5. k \in 0..Len(s) /\ k + 1 \in 1..Len(s) /\ (k + 1) - 1 = k
    BY <1>2, <2>1
  <2>6. u \in Seq(S) /\ x \in S /\ Len(u) \in Nat
    BY <1>2, <2>2, <2>4, <2>5, LenProperties
  <2>7. Comes(u, k) /\ Stays(u, k) /\ InOrder(u, k)
    BY <1>2, <1>4, <2>1, <2>2
  <2>8. v = IF x \in chosen THEN Append(u, x) ELSE u
    BY <1>1, <2>2, <2>3, <2>4, <2>5
  <2>9. CASE x \notin chosen
    <3>1. v = u
      BY <2>8, <2>9
    <3>2. Comes(v, k + 1)
      BY <2>7, <3>1
    <3>3. Stays(v, k + 1)
      <4>1. SUFFICES ASSUME NEW p \in 1..(k + 1), s[p] \in chosen PROVE \E a \in 1..Len(v) : v[a] = s[p]
        OBVIOUS
      <4>2. p \in 1..k
        BY <2>4, <2>9, <4>1
      <4> QED
        BY <2>7, <3>1, <4>1, <4>2
    <3>4. InOrder(v, k + 1)
      <4>1. SUFFICES ASSUME NEW a \in 1..Len(v), NEW b \in 1..Len(v), a < b
                     PROVE  \E p, q \in 1..(k + 1) : p < q /\ s[p] = v[a] /\ s[q] = v[b]
        OBVIOUS
      <4>2. PICK p \in 1..k, q \in 1..k : p < q /\ s[p] = v[a] /\ s[q] = v[b]
        BY <2>7, <3>1, <4>1
      <4> QED
        BY <4>2
    <3> QED
      BY <2>3, <3>2, <3>3, <3>4
  <2>10. CASE x \in chosen
    <3>1. /\ Len(v) = Len(u) + 1 /\ v[Len(u) + 1] = x
          /\ \A a \in 1..Len(u) : v[a] = u[a]
      BY <2>6, <2>8, <2>10, AppendProperties
    <3>2. \A a \in 1..Len(v) : a \in 1..Len(u) \/ a = Len(u) + 1
      BY <2>6, <3>1
    <3>3. \A a \in 1..Len(u) : a \in 1..Len(v)
      BY <2>6, <3>1
    <3>4. Len(u) + 1 \in 1..Len(v)
      BY <2>6, <3>1
    <3>5. Comes(v, k + 1)
      <4>1. SUFFICES ASSUME NEW a \in 1..Len(v) PROVE v[a] \in chosen /\ \E p \in 1..(k + 1) : v[a] = s[p]
        OBVIOUS
      <4>2. CASE a \in 1..Len(u)
        BY <2>7, <3>1, <4>2
      <4>3. CASE a = Len(u) + 1
        BY <2>4, <2>10, <3>1, <4>3
      <4> QED
        BY <3>2, <4>2, <4>3
    <3>6. Stays(v, k + 1)
      <4>1. SUFFICES ASSUME NEW p \in 1..(k + 1), s[p] \in chosen PROVE \E a \in 1..Len(v) : v[a] = s[p]
        OBVIOUS
      <4>2. CASE p \in 1..k
        BY <2>7, <3>1, <3>3, <4>1, <4>2
      <4>3. CASE p \notin 1..k
        <5>1. p = k + 1
          BY <4>3
        <5> QED
          BY <2>4, <3>1, <3>4, <5>1
      <4> QED
        BY <4>2, <4>3
    <3>7. InOrder(v, k + 1)
      <4>1. SUFFICES ASSUME NEW a \in 1..Len(v), NEW b \in 1..Len(v), a < b
                     PROVE  \E p, q \in 1..(k + 1) : p < q /\ s[p] = v[a] /\ s[q] = v[b]
        OBVIOUS
      <4>2. CASE b \in 1..Len(u)
        <5>1. a \in 1..Len(u)
          BY <2>6, <4>1, <4>2
        <5>2. PICK p \in 1..k, q \in 1..k : p < q /\ s[p] = u[a] /\ s[q] = u[b]
          BY <2>7, <4>1, <4>2, <5>1
        <5>3. p \in 1..(k + 1) /\ q \in 1..(k + 1) /\ v[a] = u[a] /\ v[b] = u[b]
          BY <3>1, <4>2, <5>1, <5>2
        <5> QED
          BY <5>2, <5>3
      <4>3. CASE b = Len(u) + 1
        <5>1. a \in 1..Len(u)
          BY <2>6, <4>1, <4>3
        <5>2. PICK p \in 1..k : u[a] = s[p]
          BY <2>7, <5>1
        <5>3. p < k + 1 /\ p \in 1..(k + 1) /\ k + 1 \in 1..(k + 1)
          BY <5>2
        <5> QED
          BY <2>4, <3>1, <4>3, <5>1, <5>2, <5>3
      <4> QED
        BY <3>2, <4>2, <4>3
    <3> QED
      BY <2>3, <3>5, <3>6, <3>7
  <2> QED
    BY <2>9, <2>10
<1>5. Comes(t, Len(s)) /\ Stays(t, Len(s)) /\ InOrder(t, Len(s)) /\ t \in Seq(S)
  <2> HIDE DEF A, Comes, Stays, InOrder
  <2>1. Nat \subseteq A
    BY <1>3, <1>4, Induction
  <2>2. t = kept[Len(s)] /\ t \in Seq(S)
    BY <1>1, <1>2
  <2> QED
    BY <1>2, <2>1, <2>2 DEF A
<1>6. Len(t) \in Nat /\ DOMAIN t = 1..Len(t)
  BY <1>5, LenProperties
<1>7. ToSet(t) = ToSet(s) \cap chosen
  <2>1. ASSUME NEW x \in ToSet(t) PROVE x \in ToSet(s) \cap chosen
    <3>1. PICK a \in 1..Len(t) : x = t[a]
      BY <1>6 DEF ToSet
    <3>2. PICK p \in 1..Len(s) : x = s[p]
      BY <1>5, <3>1
    <3>3. x \in ToSet(s)
      BY <1>2, <3>2 DEF ToSet
    <3>4. t[a] \in chosen
      BY <1>5, <3>1
    <3> QED
      BY <3>1, <3>3, <3>4
  <2>2. ASSUME NEW x \in ToSet(s) \cap chosen PROVE x \in ToSet(t)
    <3>1. PICK p \in 1..Len(s) : x = s[p]
      BY <1>2 DEF ToSet
    <3>2. PICK a \in 1..Len(t) : t[a] = x
      BY <1>5, <2>2, <3>1
    <3> QED
      BY <1>6, <3>2 DEF ToSet
  <2> QED
    BY <2>1, <2>2
<1>8. Once(t)
  <2>1. SUFFICES ASSUME NEW a \in 1..Len(t), NEW b \in 1..Len(t), a < b, t[a] = t[b] PROVE FALSE
    BY <1>6 DEF Once
  <2>2. PICK p \in 1..Len(s), q \in 1..Len(s) : p < q /\ s[p] = t[a] /\ s[q] = t[b]
    BY <1>5, <2>1
  <2> QED
    BY <2>1, <2>2 DEF Once
<1>9. Follows(t, s)
  BY <1>5 DEF Follows
<1> QED
  BY <1>5, <1>7, <1>8, <1>9

\* Sequences of the same elements in the same order are equal.
LEMMA SameOrder ==
  ASSUME NEW S, NEW t \in Seq(S), NEW u \in Seq(S), Once(t), Once(u), ToSet(t) = ToSet(u),
         \A a, b \in 1..Len(t), c, d \in 1..Len(u) : a < b /\ t[a] = u[c] /\ t[b] = u[d] => c < d
  PROVE  t = u
<1>1. /\ Len(t) \in Nat /\ Len(u) \in Nat
      /\ \A a \in 1..Len(t) : \E c \in 1..Len(u) : t[a] = u[c]
      /\ \A c \in 1..Len(u) : \E a \in 1..Len(t) : t[a] = u[c]
  <2>1. Len(t) \in Nat /\ Len(u) \in Nat /\ DOMAIN t = 1..Len(t) /\ DOMAIN u = 1..Len(u)
    BY LenProperties
  <2>2. \A a \in 1..Len(t) : t[a] \in ToSet(u)
    BY <2>1 DEF ToSet
  <2>3. \A c \in 1..Len(u) : u[c] \in ToSet(t)
    BY <2>1 DEF ToSet
  <2> QED
    BY <2>1, <2>2, <2>3 DEF ToSet
<1> DEFINE A == {n \in Nat : n <= Len(t) => n <= Len(u) /\ \A i \in 1..n : t[i] = u[i]}
<1>2. 0 \in A
  BY <1>1
<1>3. ASSUME NEW n \in Nat, n \in A PROVE n + 1 \in A
  <2>1. SUFFICES ASSUME n + 1 <= Len(t) PROVE n + 1 <= Len(u) /\ \A i \in 1..(n + 1) : t[i] = u[i]
    OBVIOUS
  <2>2. n <= Len(u) /\ \A i \in 1..n : t[i] = u[i]
    BY <1>1, <1>3, <2>1
  <2>3. n + 1 \in 1..Len(t)
    BY <1>1, <2>1
  <2>4. PICK m \in 1..Len(u) : t[n + 1] = u[m]
    BY <1>1, <2>3
  <2>5. m \notin 1..n
    <3>1. SUFFICES ASSUME m \in 1..n PROVE FALSE
      OBVIOUS
    <3>2. t[m] = t[n + 1] /\ m \in 1..Len(t) /\ m # n + 1
      BY <1>1, <2>1, <2>2, <2>4, <3>1
    <3> QED
      BY <2>3, <3>2 DEF Once
  <2>6. m \in Nat /\ n + 1 <= m /\ n + 1 <= Len(u) /\ n + 1 \in 1..Len(u)
    BY <1>1, <2>4, <2>5
  <2>7. m = n + 1
    <3>1. SUFFICES ASSUME m # n + 1 PROVE FALSE
      OBVIOUS
    <3>2. PICK a \in 1..Len(t) : t[a] = u[n + 1]
      BY <1>1, <2>6
    <3>3. a \notin 1..n
      <4>1. SUFFICES ASSUME a \in 1..n PROVE FALSE
        OBVIOUS
      <4>2. u[a] = u[n + 1] /\ a \in 1..Len(u) /\ a # n + 1
        BY <2>2, <2>6, <3>2, <4>1
      <4> QED
        BY <2>6, <4>2 DEF Once
    <3>4. a # n + 1
      <4>1. SUFFICES ASSUME a = n + 1 PROVE FALSE
        OBVIOUS
      <4>2. u[m] = u[n + 1]
        BY <2>4, <3>2, <4>1
      <4> QED
        BY <2>6, <3>1, <4>2 DEF Once
    <3>5. n + 1 < a
      BY <1>1, <3>2, <3>3, <3>4
    <3>6. m < n + 1
      BY <2>3, <2>4, <2>6, <3>2, <3>5
    <3> QED
      BY <2>6, <3>6
  <2>8. \A i \in 1..(n + 1) : i \in 1..n \/ i = n + 1
    OBVIOUS
  <2> QED
    BY <2>2, <2>4, <2>6, <2>7, <2>8
<1> HIDE DEF A
<1>4. Len(t) \in A
  BY <1>1, <1>2, <1>3, Induction
<1>5. Len(t) <= Len(u) /\ \A i \in 1..Len(t) : t[i] = u[i]
  BY <1>1, <1>4 DEF A
<1>6. Len(u) <= Len(t)
  <2>1. SUFFICES ASSUME Len(t) < Len(u) PROVE FALSE
    BY <1>1
  <2>2. Len(t) + 1 \in 1..Len(u)
    BY <1>1, <2>1
  <2>3. PICK a \in 1..Len(t) : t[a] = u[Len(t) + 1]
    BY <1>1, <2>2
  <2>4. u[a] = u[Len(t) + 1] /\ a \in 1..Len(u) /\ a # Len(t) + 1
    BY <1>1, <1>5, <2>3
  <2> QED
    BY <2>2, <2>4 DEF Once
<1> QED
  BY <1>1, <1>5, <1>6, SeqEqual

LEMMA OrderingFacts ==
  ASSUME NEW S, IsFiniteSet(S), NEW s
  PROVE  /\ Cardinality(S) \in Nat
         /\ s \in SetToSeqs(S) => /\ s \in Seq(S) /\ Once(s) /\ ToSet(s) = S
                                  /\ Len(s) = Cardinality(S) /\ DOMAIN s = 1..Len(s)
         /\ s \in Seq(S) /\ Once(s) =>
              /\ Len(s) <= Cardinality(S)
              /\ Len(s) = Cardinality(S) \/ ToSet(s) = S =>
                   s \in SetToSeqs(S) /\ Len(s) = Cardinality(S) /\ ToSet(s) = S
<1>1. Cardinality(S) \in Nat
  BY FS_CardinalityType
<1>2. ASSUME s \in Seq(S), Once(s)
      PROVE  /\ Len(s) \in Nat /\ DOMAIN s = 1..Len(s) /\ s \in [1..Len(s) -> S]
             /\ Len(s) <= Cardinality(S) /\ (Len(s) = Cardinality(S) <=> ToSet(s) = S)
  <2>1. Len(s) \in Nat /\ DOMAIN s = 1..Len(s) /\ s \in [1..Len(s) -> S]
    BY <1>2, LenProperties
  <2>2. s \in Injection(1..Len(s), S)
    BY <1>2, <2>1 DEF Once, Injection, IsInjective
  <2>3. Cardinality(1..Len(s)) = Len(s)
    <3>1. PICK n \in Nat : n = Len(s)
      BY <2>1
    <3>2. Cardinality(1..n) = n
      BY FS_Interval
    <3> QED
      BY <3>1, <3>2
  <2>4. Len(s) <= Cardinality(S) /\ (Len(s) = Cardinality(S) <=> s \in Surjection(1..Len(s), S))
    BY <2>2, <2>3, FS_Injection
  <2>5. s \in Surjection(1..Len(s), S) <=> ToSet(s) = S
    BY <2>1 DEF Surjection, ToSet
  <2> QED
    BY <2>1, <2>4, <2>5
<1>3. ASSUME s \in SetToSeqs(S) PROVE s \in Seq(S) /\ Once(s) /\ Len(s) = Cardinality(S)
  <2>1. /\ s \in [1..Cardinality(S) -> S]
        /\ \A i, j \in 1..Cardinality(S) : i # j => s[i] # s[j]
    BY <1>3 DEF SetToSeqs
  <2>2. s \in Seq(S)
    BY <1>1, <2>1, SeqDef
  <2>3. Len(s) \in Nat /\ 1..Len(s) = 1..Cardinality(S)
    BY <2>1, <2>2, LenProperties
  <2>4. Len(s) = Cardinality(S)
    BY <1>1, <2>3
  <2> QED
    BY <2>1, <2>2, <2>4 DEF Once
<1>4. ASSUME s \in Seq(S), Once(s), Len(s) = Cardinality(S) PROVE s \in SetToSeqs(S)
  BY <1>2, <1>4 DEF Once, SetToSeqs
<1> QED
  BY <1>1, <1>2, <1>3, <1>4

---------------------------------------------------------------------------
(* What a loop over the nodes takes.                                         *)

LEMMA MinIs ==
  ASSUME NEW S \in SUBSET Nat, S # {}
  PROVE  Min(S) \in S
  BY Smallest DEF Min

LEMMA NextNodeIs ==
  ASSUME NEW ready \in SUBSET Nat, IsFiniteSet(ready), NEW free
  PROVE  \/ NextNode(free, ready) = <<>> /\ ready \cap free = {} /\ \A x : ready # {x}
         \/ \E x \in ready : NextNode(free, ready) = <<x>> /\ (x \in free \/ ready = {x})
<1>1. CASE ready \cap free # {}
  <2>1. Min(ready \cap free) \in ready \cap free
    BY <1>1, MinIs
  <2> QED
    BY <1>1, <2>1 DEF NextNode
<1>2. CASE ready \cap free = {} /\ Cardinality(ready) = 1
  <2>1. PICK x : ready = {x}
    BY <1>2, FS_Singleton
  <2>2. Min(ready) = x
    BY <2>1, MinIs
  <2> QED
    BY <1>2, <2>1, <2>2 DEF NextNode
<1>3. CASE ready \cap free = {} /\ Cardinality(ready) # 1
  BY <1>3, FS_Singleton DEF NextNode
<1> QED
  BY <1>1, <1>2, <1>3

\* The orders after each node of a loop.
Loop(order, nodes, edges, free, n) ==
  /\ order[0] = <<>>
  /\ \A i \in 1..n : order[i] = order[i - 1] \o NextNode(free, Ready(nodes, edges, order[i - 1]))

LEMMA TakenIs ==
  ASSUME NEW nodes \in SUBSET Nat, IsFiniteSet(nodes), NEW edges, NEW free, NEW n, n = Cardinality(nodes)
  PROVE  \E order \in [0..n -> Seq(nodes)] :
           Loop(order, nodes, edges, free, n) /\ Taken(nodes, edges, free) = order[n]
<1> DEFINE then(q) == q \o NextNode(free, Ready(nodes, edges, q))
           Takes(g) == g = [i \in 0..n |-> IF i = 0 THEN <<>> ELSE then(g[i - 1])]
           next == [i \in 1..n |-> [q \in Seq(nodes) |-> then(q)]]
           order == CHOOSE g : Takes(g)
<1>1. n \in Nat
  BY FS_CardinalityType
<1>2. ASSUME NEW q \in Seq(nodes) PROVE then(q) \in Seq(nodes)
  <2>1. PICK ready : ready = Ready(nodes, edges, q)
    OBVIOUS
  <2>2. ready \in SUBSET nodes
    BY <2>1 DEF Ready
  <2>3. IsFiniteSet(ready) /\ ready \in SUBSET Nat
    BY <2>2, FS_Subset
  <2>4. NextNode(free, ready) = <<>> \/ \E x \in nodes : NextNode(free, ready) = <<x>>
    BY <2>2, <2>3, NextNodeIs
  <2>5. <<>> \in Seq(nodes) /\ \A x \in nodes : <<x>> \in Seq(nodes)
    BY EmptySeq
  <2>6. NextNode(free, ready) \in Seq(nodes)
    BY <2>4, <2>5
  <2>7. q \o NextNode(free, ready) \in Seq(nodes)
    BY <2>6, ConcatProperties
  <2> QED
    BY <2>1, <2>7
<1> HIDE DEF then
<1>3. <<>> \in Seq(nodes)
  BY EmptySeq
<1>4. next \in [1..n -> [Seq(nodes) -> Seq(nodes)]]
  BY <1>2
<1>5. PICK f \in [0..n -> Seq(nodes)] : Iterates(f, <<>>, n, next)
  <2> HIDE DEF next
  <2> QED
    BY <1>1, <1>3, <1>4, StepsExist
<1>6. Takes(f)
  <2>1. ASSUME NEW i \in 0..n PROVE f[i] = IF i = 0 THEN <<>> ELSE then(f[i - 1])
    <3>1. CASE i = 0
      BY <1>5, <3>1 DEF Iterates
    <3>2. CASE i # 0
      <4>1. i \in 1..n /\ i - 1 \in 0..n
        BY <1>1, <3>2
      <4>2. f[i - 1] \in Seq(nodes)
        BY <4>1
      <4>3. f[i] = next[i][f[i - 1]]
        BY <1>5, <4>1 DEF Iterates
      <4> QED
        BY <3>2, <4>1, <4>2, <4>3
    <3> QED
      BY <3>1, <3>2
  <2> HIDE DEF next
  <2> QED
    BY <2>1
<1>7. Takes(order)
  <2> HIDE DEF Takes
  <2> QED
    BY <1>6
<1>8. Taken(nodes, edges, free) = order[n]
  BY DEF Taken, then
<1> HIDE DEF order, next
<1>9. /\ order[0] = <<>> /\ DOMAIN order = 0..n /\ order = [i \in 0..n |-> order[i]]
      /\ \A i \in 1..n : order[i] = then(order[i - 1])
  <2> DEFINE at(i) == IF i = 0 THEN <<>> ELSE then(order[i - 1])
  <2>1. order = [i \in 0..n |-> at(i)]
    BY <1>7
  <2> HIDE DEF at
  <2>2. DOMAIN order = 0..n /\ \A i \in 0..n : order[i] = at(i)
    BY <2>1
  <2>3. order = [i \in 0..n |-> order[i]]
    BY <2>1, <2>2
  <2>4. at(0) = <<>> /\ 0 \in 0..n /\ \A i \in 1..n : i \in 0..n /\ i # 0
    BY <1>1 DEF at
  <2>5. \A i \in 1..n : at(i) = then(order[i - 1])
    BY <2>4 DEF at
  <2> QED
    BY <2>2, <2>3, <2>4, <2>5
<1> HIDE DEF Takes
<1>10. \A i \in Nat : i <= n => order[i] \in Seq(nodes)
  <2> DEFINE A == {i \in Nat : i <= n => order[i] \in Seq(nodes)}
  <2>1. 0 \in A
    BY <1>3, <1>9
  <2>2. ASSUME NEW i \in Nat, i \in A PROVE i + 1 \in A
    <3>1. SUFFICES ASSUME i + 1 <= n PROVE order[i + 1] \in Seq(nodes)
      OBVIOUS
    <3>2. order[i] \in Seq(nodes) /\ i + 1 \in 1..n /\ (i + 1) - 1 = i
      BY <1>1, <2>2, <3>1
    <3>3. order[i + 1] = then(order[i])
      BY <1>9, <3>2
    <3> QED
      BY <1>2, <3>2, <3>3
  <2> HIDE DEF A
  <2>3. Nat \subseteq A
    BY <2>1, <2>2, Induction
  <2> QED
    BY <2>3 DEF A
<1>11. order \in [0..n -> Seq(nodes)]
  BY <1>1, <1>9, <1>10
<1> QED
  BY <1>8, <1>9, <1>11 DEF then, Loop

\* What is left before the j-th node is taken, and whether a node waits in it.
Left(nodes, o, j) == nodes \ {o[i] : i \in 1..(j - 1)}
Waits(edges, left, n) == \E m \in left : <<m, n>> \in edges

\* Each node waited for none that was left, and was free or the only such.
Chosen(nodes, edges, free, o) ==
  \A j \in 1..Len(o) :
    /\ o[j] \in Left(nodes, o, j) /\ ~Waits(edges, Left(nodes, o, j), o[j])
    /\ o[j] \in free \/ \A n \in Left(nodes, o, j) \ {o[j]} : Waits(edges, Left(nodes, o, j), n)

LEMMA ChosenOnce ==
  ASSUME NEW nodes, NEW edges, NEW free, NEW o \in Seq(nodes), Chosen(nodes, edges, free, o)
  PROVE  Once(o)
<1>1. Len(o) \in Nat
  BY LenProperties
<1>2. SUFFICES ASSUME NEW i \in 1..Len(o), NEW j \in 1..Len(o), i < j, o[i] = o[j] PROVE FALSE
  BY <1>1 DEF Once
<1>3. o[j] \in Left(nodes, o, j) /\ i \in 1..(j - 1)
  BY <1>2 DEF Chosen
<1> QED
  BY <1>2, <1>3 DEF Left

LEMMA TakenFacts ==
  ASSUME NEW nodes \in SUBSET Nat, IsFiniteSet(nodes), NEW edges, NEW free,
         NEW o, o = Taken(nodes, edges, free)
  PROVE  /\ o \in Seq(nodes) /\ Chosen(nodes, edges, free, o)
         /\ Len(o) = Cardinality(nodes) \/ NextNode(free, Ready(nodes, edges, o)) = <<>>
<1> DEFINE n == Cardinality(nodes)
           Stuck(q) == NextNode(free, Ready(nodes, edges, q)) = <<>>
           Good(q, i) == Chosen(nodes, edges, free, q) /\ (Len(q) = i \/ Stuck(q))
<1>1. n \in Nat
  BY FS_CardinalityType
<1>2. PICK order \in [0..n -> Seq(nodes)] : Loop(order, nodes, edges, free, n) /\ o = order[n]
  BY TakenIs
<1>3. Good(<<>>, 0)
  <2>1. Len(<<>>) = 0
    BY EmptySeq
  <2> QED
    BY <2>1 DEF Chosen
<1>4. ASSUME NEW q \in Seq(nodes), NEW i \in Nat, Good(q, i)
      PROVE  Good(q \o NextNode(free, Ready(nodes, edges, q)), i + 1)
  <2>1. PICK ready : ready = Ready(nodes, edges, q)
    OBVIOUS
  <2>2. ready \in SUBSET Nat /\ IsFiniteSet(ready) /\ ready \subseteq nodes
    <3>1. ready \in SUBSET nodes
      BY <2>1 DEF Ready
    <3> QED
      BY <3>1, FS_Subset
  <2>3. CASE NextNode(free, ready) = <<>>
    <3>1. q \o <<>> = q
      BY ConcatEmptySeq
    <3> QED
      BY <1>4, <2>1, <2>3, <3>1
  <2>4. CASE NextNode(free, ready) # <<>>
    <3>1. PICK x \in ready : NextNode(free, ready) = <<x>> /\ (x \in free \/ ready = {x})
      BY <2>2, <2>4, NextNodeIs
    <3>2. PICK r : r = Append(q, x)
      OBVIOUS
    <3>3. r = q \o NextNode(free, Ready(nodes, edges, q))
      BY <2>1, <2>2, <3>1, <3>2, AppendIsConcat
    <3>4. /\ Len(q) \in Nat /\ DOMAIN q = 1..Len(q) /\ Len(r) = Len(q) + 1 /\ r[Len(q) + 1] = x
          /\ \A j \in 1..Len(q) : r[j] = q[j]
      BY <2>2, <3>2, AppendProperties, LenProperties
    <3>5. ~Stuck(q) /\ Len(r) = i + 1
      BY <1>4, <2>1, <2>4, <3>4
    <3>6. ASSUME NEW j \in 1..Len(r), j # Len(q) + 1
          PROVE  /\ r[j] \in Left(nodes, r, j) /\ ~Waits(edges, Left(nodes, r, j), r[j])
                 /\ r[j] \in free \/ \A m \in Left(nodes, r, j) \ {r[j]} : Waits(edges, Left(nodes, r, j), m)
      <4>1. j \in 1..Len(q) /\ \A k \in 1..(j - 1) : r[k] = q[k]
        BY <3>4, <3>6
      <4>2. Left(nodes, r, j) = Left(nodes, q, j) /\ r[j] = q[j]
        BY <3>4, <4>1 DEF Left
      <4> QED
        BY <1>4, <4>1, <4>2 DEF Chosen
    <3>7. Left(nodes, r, Len(q) + 1) = nodes \ ToSet(q)
      <4>1. (Len(q) + 1) - 1 = Len(q)
        BY <3>4
      <4> QED
        BY <3>4, <4>1 DEF Left, ToSet
    <3>8. /\ x \in nodes \ ToSet(q) /\ ~Waits(edges, nodes \ ToSet(q), x)
          /\ x \in free \/ \A m \in (nodes \ ToSet(q)) \ {x} : Waits(edges, nodes \ ToSet(q), m)
      BY <2>1, <3>1 DEF Ready, Waits
    <3>9. Chosen(nodes, edges, free, r)
      BY <3>4, <3>6, <3>7, <3>8 DEF Chosen
    <3> QED
      BY <3>3, <3>5, <3>9
  <2> QED
    BY <2>3, <2>4
<1> DEFINE A == {i \in Nat : i <= n => Good(order[i], i)}
<1> HIDE DEF Good
<1>5. 0 \in A
  BY <1>2, <1>3 DEF Loop
<1>6. ASSUME NEW i \in Nat, i \in A PROVE i + 1 \in A
  <2>1. SUFFICES ASSUME i + 1 <= n PROVE Good(order[i + 1], i + 1)
    OBVIOUS
  <2>2. Good(order[i], i) /\ order[i] \in Seq(nodes) /\ i + 1 \in 1..n /\ (i + 1) - 1 = i
    BY <1>1, <1>2, <1>6, <2>1
  <2>3. order[i + 1] = order[i] \o NextNode(free, Ready(nodes, edges, order[i]))
    BY <1>2, <2>2 DEF Loop
  <2> QED
    BY <1>4, <2>2, <2>3
<1> HIDE DEF A
<1>7. n \in A
  BY <1>1, <1>5, <1>6, Induction
<1>8. Good(o, n) /\ o \in Seq(nodes)
  BY <1>1, <1>2, <1>7 DEF A
<1> QED
  BY <1>8 DEF Good

---------------------------------------------------------------------------
(* Orders that respect the edges.                                            *)

LEMMA LinearIs ==
  ASSUME NEW nodes, IsFiniteSet(nodes), NEW edges, NEW s \in LinearExtensions(nodes, edges)
  PROVE  /\ s \in Seq(nodes) /\ Once(s) /\ ToSet(s) = nodes /\ Len(s) \in Nat
         /\ \A n \in nodes : \E i \in 1..Len(s) : s[i] = n
         /\ \A i, j \in 1..Len(s) : <<s[i], s[j]>> \in edges => i < j
<1>1. s \in SetToSeqs(nodes) /\ \A i, j \in DOMAIN s : <<s[i], s[j]>> \in edges => i < j
  BY DEF LinearExtensions
<1>2. s \in Seq(nodes) /\ Once(s) /\ ToSet(s) = nodes /\ DOMAIN s = 1..Len(s)
  BY <1>1, OrderingFacts
<1>3. Len(s) \in Nat
  BY <1>2, LenProperties
<1>4. \A n \in nodes : \E i \in 1..Len(s) : s[i] = n
  BY <1>2 DEF ToSet
<1> QED
  BY <1>1, <1>2, <1>3, <1>4

\* A complete choice respects the edges.
LEMMA ChosenIsLinear ==
  ASSUME NEW nodes, IsFiniteSet(nodes), NEW edges, NEW free, NEW o \in Seq(nodes),
         Chosen(nodes, edges, free, o), Len(o) = Cardinality(nodes)
  PROVE  o \in LinearExtensions(nodes, edges)
<1>1. Once(o) /\ Len(o) \in Nat /\ DOMAIN o = 1..Len(o)
  BY ChosenOnce, LenProperties
<1>2. o \in SetToSeqs(nodes)
  BY <1>1, OrderingFacts
<1>3. ASSUME NEW i \in 1..Len(o), NEW j \in 1..Len(o), <<o[i], o[j]>> \in edges PROVE i < j
  <2>1. o[i] \notin Left(nodes, o, j)
    BY <1>3 DEF Chosen, Waits
  <2>2. o[i] \in nodes
    BY ElementOfSeq
  <2>3. PICK k \in 1..(j - 1) : o[k] = o[i]
    BY <2>1, <2>2 DEF Left
  <2>4. k = i
    BY <1>1, <2>3 DEF Once
  <2> QED
    BY <1>1, <2>3, <2>4
<1> QED
  BY <1>1, <1>2, <1>3 DEF LinearExtensions

\* The first of some nodes in such an order waits for none of them.
LEMMA FirstOfLeft ==
  ASSUME NEW nodes, IsFiniteSet(nodes), NEW edges, NEW s \in LinearExtensions(nodes, edges),
         NEW left \in SUBSET nodes, left # {}
  PROVE  \E i \in 1..Len(s) : IsFirst(s, i, left) /\ ~Waits(edges, left, s[i])
<1>1. /\ Len(s) \in Nat /\ \A n \in nodes : \E i \in 1..Len(s) : s[i] = n
      /\ \A i, j \in 1..Len(s) : <<s[i], s[j]>> \in edges => i < j
  BY LinearIs
<1> DEFINE at == {i \in 1..Len(s) : s[i] \in left}
<1>2. at \in SUBSET Nat /\ at # {}
  BY <1>1
<1>3. PICK i \in at : \A j \in at : i <= j
  <2> HIDE DEF at
  <2> QED
    BY <1>2, Smallest
<1>4. ~Waits(edges, left, s[i])
  <2>1. SUFFICES ASSUME NEW m \in left, <<m, s[i]>> \in edges PROVE FALSE
    BY DEF Waits
  <2>2. PICK j \in 1..Len(s) : s[j] = m
    BY <1>1
  <2>3. j < i /\ i <= j
    BY <1>1, <1>3, <2>1, <2>2
  <2> QED
    BY <1>1, <1>3, <2>2, <2>3
<1> QED
  BY <1>3, <1>4 DEF IsFirst

\* What was taken as the only choice comes first in every such order.
LEMMA OnlyChoiceFirst ==
  ASSUME NEW nodes, IsFiniteSet(nodes), NEW edges, NEW free, NEW o \in Seq(nodes),
         Chosen(nodes, edges, free, o), NEW s \in LinearExtensions(nodes, edges),
         NEW i \in 1..Len(o), NEW j \in 1..Len(o), i < j, o[i] \notin free
  PROVE  Precedes(s, o[i], o[j])
<1> SUFFICES ASSUME NEW c \in 1..Len(s), NEW d \in 1..Len(s), s[c] = o[i], s[d] = o[j] PROVE c < d
  BY DEF Precedes
<1>1. Len(o) \in Nat /\ Len(s) \in Nat /\ Once(o) /\ Once(s)
  BY ChosenOnce, LenProperties, LinearIs
<1>2. PICK left : left = Left(nodes, o, i)
  OBVIOUS
<1>3. left \in SUBSET nodes /\ o[i] \in left
  BY <1>2 DEF Left, Chosen
<1>4. o[j] \in left /\ o[j] # o[i]
  <2>1. o[j] \in nodes
    BY ElementOfSeq
  <2>2. ASSUME NEW k \in 1..(i - 1), o[k] = o[j] PROVE FALSE
    <3>1. k \in 1..Len(o) /\ k # j
      BY <1>1
    <3> QED
      BY <1>1, <2>2, <3>1 DEF Once
  <2>3. o[j] # o[i]
    BY <1>1 DEF Once
  <2> QED
    BY <1>2, <2>1, <2>2, <2>3 DEF Left
<1>5. PICK k \in 1..Len(s) : IsFirst(s, k, left) /\ ~Waits(edges, left, s[k])
  BY <1>3, FirstOfLeft
<1>6. s[k] = o[i]
  BY <1>2, <1>5 DEF Chosen, IsFirst
<1>7. k = c
  BY <1>1, <1>5, <1>6 DEF Once
<1>8. c <= d /\ s[c] # s[d]
  BY <1>4, <1>5, <1>7 DEF IsFirst
<1> QED
  BY <1>1, <1>8

\* An order that is determined is the only one there is.
LEMMA OneOrder ==
  ASSUME NEW nodes \in SUBSET Nat, IsFiniteSet(nodes), NEW edges,
         Len(Taken(nodes, edges, {})) = Cardinality(nodes)
  PROVE  LinearExtensions(nodes, edges) = {Taken(nodes, edges, nodes)}
<1>1. PICK d : d = Taken(nodes, edges, {})
  OBVIOUS
<1>2. d \in Seq(nodes) /\ Chosen(nodes, edges, {}, d) /\ Len(d) = Cardinality(nodes)
  BY <1>1, TakenFacts
<1>3. d \in LinearExtensions(nodes, edges) /\ Once(d) /\ ToSet(d) = nodes
  BY <1>2, ChosenIsLinear, LinearIs
<1>4. ASSUME NEW s \in LinearExtensions(nodes, edges) PROVE d = s
  <2>1. s \in Seq(nodes) /\ Once(s) /\ ToSet(s) = nodes
    BY LinearIs
  <2>2. \A a, b \in 1..Len(d), i, j \in 1..Len(s) : a < b /\ d[a] = s[i] /\ d[b] = s[j] => i < j
    BY <1>2, OnlyChoiceFirst DEF Precedes
  <2> QED
    BY <1>2, <1>3, <2>1, <2>2, SameOrder
<1>5. PICK o : o = Taken(nodes, edges, nodes)
  OBVIOUS
<1>6. /\ o \in Seq(nodes) /\ Chosen(nodes, edges, nodes, o)
      /\ Len(o) = Cardinality(nodes) \/ NextNode(nodes, Ready(nodes, edges, o)) = <<>>
  BY <1>5, TakenFacts
<1>7. Len(o) = Cardinality(nodes)
  <2>1. SUFFICES ASSUME Len(o) # Cardinality(nodes) PROVE FALSE
    OBVIOUS
  <2>2. PICK left : left = nodes \ ToSet(o)
    OBVIOUS
  <2>3. left \in SUBSET nodes /\ left # {}
    <3>1. ToSet(o) # nodes
      BY <1>6, <2>1, ChosenOnce, OrderingFacts
    <3>2. ToSet(o) \subseteq nodes
      <4>1. DOMAIN o = 1..Len(o)
        BY <1>6, LenProperties
      <4> QED
        BY <1>6, <4>1, ElementOfSeq DEF ToSet
    <3> QED
      BY <2>2, <3>1, <3>2
  <2>4. PICK i \in 1..Len(d) : IsFirst(d, i, left) /\ ~Waits(edges, left, d[i])
    BY <1>3, <2>3, FirstOfLeft
  <2>5. PICK ready : ready = Ready(nodes, edges, o)
    OBVIOUS
  <2>6. d[i] \in ready /\ d[i] \in nodes /\ ready \in SUBSET nodes
    BY <2>2, <2>3, <2>4, <2>5 DEF Ready, Waits, IsFirst
  <2>7. IsFiniteSet(ready) /\ ready \in SUBSET Nat
    BY <2>6, FS_Subset
  <2>8. ready \cap nodes = {} \/ \E x : NextNode(nodes, ready) = <<x>>
    BY <2>7, NextNodeIs
  <2>9. \A x : <<x>> # <<>>
    OBVIOUS
  <2> QED
    BY <1>6, <2>1, <2>5, <2>6, <2>8, <2>9
<1>8. o = d
  BY <1>4, <1>6, <1>7, ChosenIsLinear
<1> QED
  BY <1>3, <1>4, <1>5, <1>8

---------------------------------------------------------------------------
(* Orders of the actions alone.                                              *)

\* A complete choice decides the order of the nodes that are not free.
LEMMA SameActions ==
  ASSUME NEW nodes, IsFiniteSet(nodes), NEW edges, NEW acting, NEW o \in Seq(nodes),
         Chosen(nodes, edges, nodes \ acting, o), Len(o) = Cardinality(nodes),
         NEW s \in LinearExtensions(nodes, edges)
  PROVE  Only(o, acting) = Only(s, acting)
<1>1. Once(o) /\ ToSet(o) = nodes
  BY ChosenIsLinear, LinearIs
<1>2. s \in Seq(nodes) /\ Once(s) /\ ToSet(s) = nodes
  BY LinearIs
<1>3. PICK t : t = Only(o, acting)
  OBVIOUS
<1>4. PICK u : u = Only(s, acting)
  OBVIOUS
<1>5. t \in Seq(nodes) /\ Once(t) /\ ToSet(t) = nodes \cap acting /\ Follows(t, o)
  BY <1>1, <1>3, OnlyFacts
<1>6. u \in Seq(nodes) /\ Once(u) /\ ToSet(u) = nodes \cap acting /\ Follows(u, s)
  BY <1>2, <1>4, OnlyFacts
<1>7. ASSUME NEW a \in 1..Len(t), NEW b \in 1..Len(t), NEW c \in 1..Len(u), NEW d \in 1..Len(u),
             a < b, t[a] = u[c], t[b] = u[d]
      PROVE  c < d
  <2>1. Len(t) \in Nat /\ Len(u) \in Nat /\ DOMAIN t = 1..Len(t) /\ Len(s) \in Nat
    BY <1>2, <1>5, <1>6, LenProperties
  <2>2. PICK i \in 1..Len(o), j \in 1..Len(o) : i < j /\ o[i] = t[a] /\ o[j] = t[b]
    BY <1>5, <1>7 DEF Follows
  <2>3. o[i] \notin nodes \ acting
    <3>1. t[a] \in ToSet(t)
      BY <2>1 DEF ToSet
    <3> QED
      BY <1>5, <2>2, <3>1
  <2>4. c # d
    BY <1>5, <1>7, <2>1 DEF Once
  <2>5. SUFFICES ASSUME d < c PROVE FALSE
    BY <2>1, <2>4
  <2>6. PICK p \in 1..Len(s), q \in 1..Len(s) : p < q /\ s[p] = u[d] /\ s[q] = u[c]
    BY <1>6, <2>5 DEF Follows
  <2>7. q < p
    <3>1. Precedes(s, o[i], o[j])
      BY <2>2, <2>3, OnlyChoiceFirst
    <3> QED
      BY <1>7, <2>2, <2>6, <3>1 DEF Precedes
  <2> QED
    BY <2>1, <2>6, <2>7
<1>8. t = u
  BY <1>5, <1>6, <1>7, SameOrder
<1> QED
  BY <1>3, <1>4, <1>8

\* A node that is ready can be the first of those that are left.
LEMMA PutFirst ==
  ASSUME NEW nodes, IsFiniteSet(nodes), NEW edges, NEW free, NEW o \in Seq(nodes),
         Chosen(nodes, edges, free, o), NEW s \in LinearExtensions(nodes, edges),
         NEW x \in Ready(nodes, edges, o)
  PROVE  \E r \in LinearExtensions(nodes, edges) :
           \A y \in Ready(nodes, edges, o) \ {x} : Precedes(r, x, y)
<1>1. PICK left : left = nodes \ ToSet(o)
  OBVIOUS
<1>2. x \in left /\ x \in nodes /\ \A m \in left : <<m, x>> \notin edges
  BY <1>1 DEF Ready
<1>3. /\ s \in Seq(nodes) /\ Once(s) /\ ToSet(s) = nodes /\ Len(s) \in Nat
      /\ \A n \in nodes : \E i \in 1..Len(s) : s[i] = n
      /\ \A i, j \in 1..Len(s) : <<s[i], s[j]>> \in edges => i < j
  BY LinearIs
<1>4. PICK u : u = Only(s, left \ {x})
  OBVIOUS
<1>5. /\ u \in Seq(nodes) /\ Once(u) /\ ToSet(u) = left \ {x} /\ Len(u) \in Nat /\ DOMAIN u = 1..Len(u)
      /\ Follows(u, s)
  <2>1. u \in Seq(nodes) /\ Once(u) /\ ToSet(u) = ToSet(s) \cap (left \ {x}) /\ Follows(u, s)
    BY <1>3, <1>4, OnlyFacts
  <2>2. Len(u) \in Nat /\ DOMAIN u = 1..Len(u)
    BY <2>1, LenProperties
  <2> QED
    BY <1>1, <1>3, <2>1, <2>2
<1>6. PICK p : p = Append(o, x)
  OBVIOUS
<1>7. /\ p \in Seq(nodes) /\ Len(o) \in Nat /\ Len(p) = Len(o) + 1 /\ p[Len(o) + 1] = x /\ DOMAIN o = 1..Len(o)
      /\ \A i \in 1..Len(o) : p[i] = o[i] /\ o[i] \in nodes
  <2>1. Len(o) \in Nat /\ DOMAIN o = 1..Len(o) /\ \A i \in 1..Len(o) : o[i] \in nodes
    BY LenProperties, ElementOfSeq
  <2>2. /\ p \in Seq(nodes) /\ Len(p) = Len(o) + 1 /\ p[Len(o) + 1] = x
        /\ \A i \in 1..Len(o) : p[i] = o[i]
    BY <1>2, <1>6, AppendProperties
  <2> QED
    BY <2>1, <2>2
<1>8. Once(o)
  BY ChosenOnce
<1>9. PICK r : r = p \o u
  OBVIOUS
<1>10. /\ r \in Seq(nodes) /\ Len(r) = Len(p) + Len(u) /\ DOMAIN r = 1..Len(r)
       /\ \A i \in 1..(Len(p) + Len(u)) : r[i] = IF i <= Len(p) THEN p[i] ELSE u[i - Len(p)]
  <2>1. /\ r \in Seq(nodes) /\ Len(r) = Len(p) + Len(u)
        /\ \A i \in 1..(Len(p) + Len(u)) : r[i] = IF i <= Len(p) THEN p[i] ELSE u[i - Len(p)]
    <3>1. p \in Seq(nodes) /\ u \in Seq(nodes)
      BY <1>5, <1>7
    <3>2. /\ p \o u \in Seq(nodes) /\ Len(p \o u) = Len(p) + Len(u)
          /\ \A i \in 1..(Len(p) + Len(u)) : (p \o u)[i] = IF i <= Len(p) THEN p[i] ELSE u[i - Len(p)]
      BY <3>1, ConcatProperties
    <3> QED
      BY <1>9, <3>2
  <2>2. DOMAIN r = 1..Len(r)
    BY <2>1, LenProperties
  <2> QED
    BY <2>1, <2>2
<1>11. ASSUME NEW i \in 1..Len(r)
       PROVE  \/ i \in 1..Len(o) /\ r[i] = o[i] /\ r[i] \notin left
              \/ i = Len(o) + 1 /\ r[i] = x
              \/ i - Len(p) \in 1..Len(u) /\ i > Len(o) + 1 /\ r[i] = u[i - Len(p)] /\ r[i] \in left \ {x}
  <2>1. CASE i \in 1..Len(o)
    <3>1. r[i] = o[i]
      BY <1>5, <1>7, <1>10, <2>1
    <3> QED
      BY <1>1, <1>7, <2>1, <3>1 DEF ToSet
  <2>2. CASE i = Len(o) + 1
    BY <1>5, <1>7, <1>10, <2>2
  <2>3. CASE i > Len(o) + 1
    <3>1. i - Len(p) \in 1..Len(u) /\ ~(i <= Len(p)) /\ i \in 1..(Len(p) + Len(u))
      BY <1>5, <1>7, <1>10, <2>3
    <3>2. r[i] = u[i - Len(p)]
      BY <1>10, <3>1
    <3>3. u[i - Len(p)] \in left \ {x}
      BY <1>5, <3>1 DEF ToSet
    <3> QED
      BY <2>3, <3>1, <3>2, <3>3
  <2> QED
    BY <1>5, <1>7, <1>10, <2>1, <2>2, <2>3
<1>12. Once(r)
  <2>1. SUFFICES ASSUME NEW i \in 1..Len(r), NEW j \in 1..Len(r), i < j, r[i] = r[j] PROVE FALSE
    BY <1>5, <1>7, <1>10 DEF Once
  <2>2. CASE i \in 1..Len(o) /\ j \in 1..Len(o)
    BY <1>7, <1>8, <1>11, <2>1, <2>2 DEF Once
  <2>3. CASE i - Len(p) \in 1..Len(u) /\ j - Len(p) \in 1..Len(u)
    <3>1. u[i - Len(p)] = u[j - Len(p)]
      <4>1. i > Len(o) + 1 /\ j > Len(o) + 1
        BY <1>7, <2>3
      <4>2. i \notin 1..Len(o) /\ j \notin 1..Len(o) /\ i # Len(o) + 1 /\ j # Len(o) + 1
        BY <1>7, <4>1
      <4>3. r[i] = u[i - Len(p)]
        BY <1>11, <4>2
      <4>4. r[j] = u[j - Len(p)]
        BY <1>11, <4>2
      <4> QED
        BY <2>1, <4>3, <4>4
    <3>2. i - Len(p) = j - Len(p)
      BY <1>5, <2>3, <3>1 DEF Once
    <3> QED
      BY <1>7, <2>1, <3>2
  <2> QED
    BY <1>2, <1>7, <1>11, <2>1, <2>2, <2>3
<1>13. ToSet(r) = nodes
  <2>1. ASSUME NEW n \in nodes PROVE \E i \in 1..Len(r) : r[i] = n
    <3>1. CASE n \notin left
      <4>1. PICK i \in 1..Len(o) : o[i] = n
        BY <1>1, <1>7, <3>1 DEF ToSet
      <4>2. i \in 1..Len(r) /\ r[i] = p[i]
        BY <1>5, <1>7, <1>10, <4>1
      <4> QED
        BY <1>7, <4>1, <4>2
    <3>2. CASE n = x
      <4>1. Len(o) + 1 \in 1..Len(r) /\ Len(o) + 1 <= Len(p)
        BY <1>5, <1>7, <1>10
      <4> QED
        BY <1>7, <1>10, <3>2, <4>1
    <3>3. CASE n \in left \ {x}
      <4>1. PICK i \in 1..Len(u) : u[i] = n
        BY <1>5, <3>3 DEF ToSet
      <4>2. Len(p) + i \in 1..Len(r) /\ ~(Len(p) + i <= Len(p)) /\ (Len(p) + i) - Len(p) = i
        BY <1>5, <1>7, <1>10, <4>1
      <4> QED
        BY <1>10, <4>1, <4>2
    <3> QED
      BY <3>1, <3>2, <3>3
  <2>2. \A i \in 1..Len(r) : r[i] \in nodes
    BY <1>10, ElementOfSeq
  <2>3. ToSet(r) = {r[i] : i \in 1..Len(r)}
    BY <1>10 DEF ToSet
  <2> QED
    BY <2>1, <2>2, <2>3
<1>14. ASSUME NEW i \in 1..Len(r), NEW j \in 1..Len(r), <<r[i], r[j]>> \in edges PROVE i < j
  <2>1. r[i] \in nodes
    BY <1>10, ElementOfSeq
  <2>2. ASSUME NEW l \in 1..Len(o), o[l] = r[i] PROVE i = l
    <3>1. l \in 1..Len(r) /\ r[l] = o[l]
      BY <1>5, <1>7, <1>10, <2>2
    <3> QED
      BY <1>12, <2>2, <3>1 DEF Once
  <2>3. CASE j \in 1..Len(o) /\ r[j] = o[j]
    <3>1. r[i] \notin Left(nodes, o, j)
      BY <1>14, <2>3 DEF Chosen, Waits
    <3>2. PICK l \in 1..(j - 1) : o[l] = r[i]
      BY <2>1, <3>1 DEF Left
    <3>3. l \in 1..Len(o)
      BY <1>7, <2>3, <3>2
    <3> QED
      BY <2>2, <2>3, <3>2, <3>3
  <2>4. CASE j = Len(o) + 1 /\ r[j] = x
    <3>1. r[i] \notin left
      BY <1>2, <1>14, <2>4
    <3>2. PICK l \in 1..Len(o) : o[l] = r[i]
      BY <1>1, <1>7, <2>1, <3>1 DEF ToSet
    <3> QED
      BY <1>7, <2>2, <2>4, <3>2
  <2>5. CASE j - Len(p) \in 1..Len(u) /\ j > Len(o) + 1 /\ r[j] = u[j - Len(p)]
    <3>1. SUFFICES ASSUME i - Len(p) \in 1..Len(u), r[i] = u[i - Len(p)], ~(i < j) PROVE FALSE
      BY <1>7, <1>11, <2>5
    <3>2. PICK a : a = i - Len(p)
      OBVIOUS
    <3>3. PICK b : b = j - Len(p)
      OBVIOUS
    <3>4. a \in 1..Len(u) /\ b \in 1..Len(u) /\ (b < a \/ a = b)
      BY <1>5, <1>7, <1>10, <2>5, <3>1, <3>2, <3>3
    <3>5. CASE b < a
      <4>1. PICK k \in 1..Len(s), l \in 1..Len(s) : k < l /\ s[k] = u[b] /\ s[l] = u[a]
        BY <1>5, <3>4, <3>5 DEF Follows
      <4>2. l < k
        BY <1>3, <1>14, <2>5, <3>1, <3>2, <3>3, <4>1
      <4> QED
        BY <1>3, <4>1, <4>2
    <3>6. CASE a = b
      <4>1. r[i] = r[j]
        BY <2>5, <3>1, <3>2, <3>3, <3>6
      <4>2. PICK k \in 1..Len(s) : s[k] = r[i]
        BY <1>3, <2>1
      <4>3. <<s[k], s[k]>> \in edges
        BY <1>14, <4>1, <4>2
      <4>4. \A c, d \in 1..Len(s) : <<s[c], s[d]>> \in edges => c < d
        BY <1>3
      <4>5. k < k /\ k \in Nat
        BY <4>2, <4>3, <4>4
      <4> QED
        BY <4>5
    <3> QED
      BY <3>4, <3>5, <3>6
  <2> QED
    BY <1>11, <2>3, <2>4, <2>5
<1>15. r \in LinearExtensions(nodes, edges)
  <2>1. r \in SetToSeqs(nodes)
    BY <1>10, <1>12, <1>13, OrderingFacts
  <2> QED
    BY <1>10, <1>14, <2>1 DEF LinearExtensions
<1>16. ASSUME NEW i \in 1..Len(r), NEW j \in 1..Len(r), r[i] = x, r[j] \in Ready(nodes, edges, o) \ {x} PROVE i < j
  <2>1. r[j] \in left \ {x}
    BY <1>1, <1>16 DEF Ready
  <2> QED
    BY <1>2, <1>7, <1>11, <1>16, <2>1
<1> QED
  BY <1>15, <1>16 DEF Precedes

LEMMA SameFunction ==
  ASSUME NEW D, NEW R, NEW f \in [D -> R], NEW g \in [D -> R], \A i \in D : f[i] = g[i]
  PROVE  f = g
  OBVIOUS

\* There are finitely many orders.
LEMMA FinitelyMany ==
  ASSUME NEW nodes, IsFiniteSet(nodes), NEW edges, NEW acting
  PROVE  IsFiniteSet({Only(s, acting) : s \in LinearExtensions(nodes, edges)})
<1> DEFINE n == Cardinality(nodes)
           all == LinearExtensions(nodes, edges)
           places == SUBSET ((1..n) \X nodes)
           graph == [s \in all |-> {<<i, s[i]>> : i \in 1..n}]
           image == {Only(s, acting) : s \in all}
           only == [s \in all |-> Only(s, acting)]
<1>1. n \in Nat /\ IsFiniteSet(1..n)
  BY FS_CardinalityType, FS_Interval
<1>2. IsFiniteSet(places)
  BY <1>1, FS_Product, FS_SUBSET
<1>3. \A s \in all : s \in [1..n -> nodes]
  BY DEF LinearExtensions, SetToSeqs
<1>4. \A s \in all : graph[s] = {<<i, s[i]>> : i \in 1..n}
  OBVIOUS
<1>5. graph \in [all -> places]
  <2>1. ASSUME NEW s \in all PROVE {<<i, s[i]>> : i \in 1..n} \in places
    <3>1. s \in [1..n -> nodes]
      BY <1>3
    <3> QED
      BY <3>1
  <2> HIDE DEF all, places, n
  <2> QED
    BY <2>1
<1> HIDE DEF graph, all, places
<1>6. ASSUME NEW s \in all, NEW t \in all, graph[s] = graph[t] PROVE s = t
  <2>1. ASSUME NEW i \in 1..n PROVE s[i] = t[i]
    <3>1. <<i, s[i]>> \in graph[t]
      BY <1>4, <1>6
    <3>2. PICK j \in 1..n : <<i, s[i]>> = <<j, t[j]>>
      BY <1>4, <3>1
    <3> QED
      BY <3>2
  <2>2. s \in [1..n -> nodes] /\ t \in [1..n -> nodes]
    BY <1>3
  <2>3. PICK D : D = 1..n
    OBVIOUS
  <2>4. s \in [D -> nodes] /\ t \in [D -> nodes] /\ \A i \in D : s[i] = t[i]
    BY <2>1, <2>2, <2>3
  <2> HIDE DEF n
  <2> QED
    BY <2>4, SameFunction
<1>7. graph \in Injection(all, places)
  BY <1>5, <1>6 DEF Injection, IsInjective
<1>8. IsFiniteSet(all)
  BY <1>2, <1>7, FS_Injection
<1>9. only \in Surjection(all, image)
  BY DEF Surjection
<1> HIDE DEF only, image
<1>10. IsFiniteSet(image)
  BY <1>8, <1>9, FS_Surjection
<1> QED
  BY <1>10 DEF image, all

\* An open choice leaves several orders of the actions or none.
LEMMA OpenChoice ==
  ASSUME NEW nodes \in SUBSET Nat, IsFiniteSet(nodes), NEW edges, NEW acting, NEW o \in Seq(nodes),
         Chosen(nodes, edges, nodes \ acting, o), Len(o) # Cardinality(nodes),
         NextNode(nodes \ acting, Ready(nodes, edges, o)) = <<>>
  PROVE  Cardinality({Only(s, acting) : s \in LinearExtensions(nodes, edges)}) # 1
<1>1. PICK orders : orders = {Only(s, acting) : s \in LinearExtensions(nodes, edges)}
  OBVIOUS
<1>2. IsFiniteSet(orders)
  BY <1>1, FinitelyMany
<1>3. SUFFICES ASSUME NEW t, orders = {t} PROVE FALSE
  BY <1>1, <1>2, FS_Singleton
<1>4. PICK s \in LinearExtensions(nodes, edges) : TRUE
  BY <1>1, <1>3
<1>5. PICK left : left = nodes \ ToSet(o)
  OBVIOUS
<1>6. left \in SUBSET nodes /\ left # {}
  <2>1. ToSet(o) # nodes
    BY ChosenOnce, OrderingFacts
  <2>2. ToSet(o) \subseteq nodes
    <3>1. DOMAIN o = 1..Len(o)
      BY LenProperties
    <3> QED
      BY <3>1, ElementOfSeq DEF ToSet
  <2> QED
    BY <1>5, <2>1, <2>2
<1>7. PICK ready : ready = Ready(nodes, edges, o)
  OBVIOUS
<1>8. ready \in SUBSET nodes /\ ready # {}
  <2>1. PICK i \in 1..Len(s) : IsFirst(s, i, left) /\ ~Waits(edges, left, s[i])
    BY <1>6, FirstOfLeft
  <2>2. s[i] \in ready
    BY <1>5, <1>7, <2>1 DEF IsFirst, Waits, Ready
  <2> QED
    BY <1>7, <2>2 DEF Ready
<1>9. ready \subseteq acting /\ \A x : ready # {x}
  <2>1. IsFiniteSet(ready) /\ ready \in SUBSET Nat
    BY <1>8, FS_Subset
  <2>2. \A x : <<x>> # <<>>
    OBVIOUS
  <2>3. ready \cap (nodes \ acting) = {} /\ \A x : ready # {x}
    <3>1. PICK next : next = NextNode(nodes \ acting, ready)
      OBVIOUS
    <3>2. next = <<>>
      BY <1>7, <3>1
    <3>3. \/ next = <<>> /\ ready \cap (nodes \ acting) = {} /\ \A x : ready # {x}
          \/ \E x \in ready : next = <<x>>
      BY <2>1, <3>1, NextNodeIs
    <3> QED
      BY <2>2, <3>2, <3>3
  <2> QED
    BY <1>8, <2>3
<1>10. PICK x \in ready, y \in ready : x # y
  <2>1. PICK x \in ready : TRUE
    BY <1>8
  <2>2. \E y \in ready : x # y
    <3>1. SUFFICES ASSUME \A y \in ready : x = y PROVE FALSE
      OBVIOUS
    <3>2. ready = {x}
      BY <3>1
    <3> QED
      BY <1>9, <3>2
  <2> QED
    BY <2>1, <2>2
<1>11. ASSUME NEW m \in ready, NEW n \in ready, m # n PROVE Precedes(t, m, n)
  <2>1. PICK r \in LinearExtensions(nodes, edges) : \A k \in ready \ {m} : Precedes(r, m, k)
    BY <1>4, <1>7, PutFirst
  <2>2. t = Only(r, acting)
    BY <1>1, <1>3
  <2>3. r \in Seq(nodes) /\ Once(r) /\ Len(r) \in Nat
    BY LinearIs
  <2>4. Follows(t, r) /\ t \in Seq(nodes) /\ Once(t)
    BY <2>2, <2>3, OnlyFacts
  <2>5. Len(t) \in Nat
    BY <2>4, LenProperties
  <2>6. SUFFICES ASSUME NEW i \in 1..Len(t), NEW j \in 1..Len(t), t[i] = m, t[j] = n, j < i PROVE FALSE
    BY <1>11, <2>4, <2>5 DEF Precedes, Once
  <2>7. PICK p \in 1..Len(r), q \in 1..Len(r) : p < q /\ r[p] = n /\ r[q] = m
    <3>1. Follows(t, r)
      BY <2>4
    <3>2. PICK a \in 1..Len(r), b \in 1..Len(r) : a < b /\ r[a] = t[j] /\ r[b] = t[i]
      BY <2>6, <3>1 DEF Follows
    <3> QED
      BY <2>6, <3>2
  <2>8. Precedes(r, m, n)
    BY <1>11, <2>1
  <2>9. q < p
    BY <2>7, <2>8 DEF Precedes
  <2> QED
    BY <2>3, <2>7, <2>9
<1>12. t \in Seq(nodes) /\ ToSet(t) = nodes \cap acting
  <2>1. t = Only(s, acting)
    BY <1>1, <1>3
  <2>2. s \in Seq(nodes) /\ Once(s) /\ ToSet(s) = nodes
    BY LinearIs
  <2> QED
    BY <2>1, <2>2, OnlyFacts
<1>13. Len(t) \in Nat /\ DOMAIN t = 1..Len(t)
  BY <1>12, LenProperties
<1>14. x \in ToSet(t) /\ y \in ToSet(t)
  BY <1>8, <1>9, <1>12
<1>15. PICK i \in 1..Len(t), j \in 1..Len(t) : t[i] = x /\ t[j] = y
  BY <1>13, <1>14 DEF ToSet
<1>16. i < j /\ j < i
  BY <1>10, <1>11, <1>15 DEF Precedes
<1> QED
  BY <1>13, <1>16

\* An upgrade is accepted exactly if its actions have one order.
LEMMA OneOrderOfActions ==
  ASSUME NEW nodes \in SUBSET Nat, IsFiniteSet(nodes), NEW edges, NEW acting,
         NEW o, o = UpgradeOrder(nodes, edges, acting),
         NEW orders, orders = {Only(s, acting) : s \in LinearExtensions(nodes, edges)}
  PROVE  IF Len(o) = Cardinality(nodes) THEN orders = {Only(o, acting)} ELSE Cardinality(orders) # 1
<1>1. /\ o \in Seq(nodes) /\ Chosen(nodes, edges, nodes \ acting, o)
      /\ Len(o) = Cardinality(nodes) \/ NextNode(nodes \ acting, Ready(nodes, edges, o)) = <<>>
  BY TakenFacts DEF UpgradeOrder
<1>2. CASE Len(o) = Cardinality(nodes)
  <2>1. o \in LinearExtensions(nodes, edges)
    BY <1>1, <1>2, ChosenIsLinear
  <2>2. \A s \in LinearExtensions(nodes, edges) : Only(o, acting) = Only(s, acting)
    BY <1>1, <1>2, SameActions
  <2> QED
    BY <1>2, <2>1, <2>2
<1>3. CASE Len(o) # Cardinality(nodes)
  <2>1. Cardinality({Only(s, acting) : s \in LinearExtensions(nodes, edges)}) # 1
    <3>1. NextNode(nodes \ acting, Ready(nodes, edges, o)) = <<>>
      BY <1>1, <1>3
    <3>2. o \in Seq(nodes) /\ Chosen(nodes, edges, nodes \ acting, o)
      BY <1>1
    <3> QED
      BY <1>3, <3>1, <3>2, OpenChoice
  <2> QED
    BY <1>3, <2>1
<1> QED
  BY <1>2, <1>3

---------------------------------------------------------------------------
(* The graphs a plan is made of.                                             *)

\* What a release needs is a matter of its contract.
LEMMA SameNeeds ==
  ASSUME UNCHANGED contract, NEW g
  PROVE  /\ Normalised(g)' = Normalised(g)
         /\ DependencyIssue(g)' = DependencyIssue(g)
<1>1. ASSUME NEW n PROVE ActiveNeeds(g, n)' = ActiveNeeds(g, n)
  BY DEF ActiveNeeds, Requires
<1>2. DependencyEdges(g)' = DependencyEdges(g)
  BY <1>1 DEF DependencyEdges
<1>3. [n \in Ids(g) |-> contract[g.release[n]].edition]' = [n \in Ids(g) |-> contract[g.release[n]].edition]
  BY DEF Ids
<1>4. DependencyIssue(g)' = DependencyIssue(g)
  BY <1>1 DEF DependencyIssue
<1> QED
  BY <1>2, <1>3, <1>4 DEF Normalised

\* The actions of an upgrade that is accepted come in the order of the edges.
LEMMA ActionsInOrder ==
  ASSUME NEW nodes \in SUBSET Nat, IsFiniteSet(nodes), NEW edges, NEW acting,
         NEW o, o = UpgradeOrder(nodes, edges, acting), Len(o) = Cardinality(nodes),
         NEW t, t = Only(o, acting)
  PROVE  /\ DOMAIN t = 1..Len(t) /\ Len(t) \in Nat
         /\ \A n \in nodes \cap acting : \E i \in 1..Len(t) : t[i] = n
         /\ \A i \in 1..Len(t) : t[i] \in nodes \cap acting
         /\ \A i, j \in 1..Len(t) : <<t[i], t[j]>> \in edges => i < j
<1>1. o \in LinearExtensions(nodes, edges)
  <2>1. o \in Seq(nodes) /\ Chosen(nodes, edges, nodes \ acting, o)
    BY TakenFacts DEF UpgradeOrder
  <2> QED
    BY <2>1, ChosenIsLinear
<1>2. /\ o \in Seq(nodes) /\ Once(o) /\ ToSet(o) = nodes
      /\ \A i, j \in 1..Len(o) : <<o[i], o[j]>> \in edges => i < j
  BY <1>1, LinearIs
<1>3. t \in Seq(nodes) /\ Once(t) /\ ToSet(t) = nodes \cap acting /\ Follows(t, o)
  BY <1>2, OnlyFacts
<1>4. Len(t) \in Nat /\ Len(o) \in Nat /\ DOMAIN t = 1..Len(t)
  BY <1>2, <1>3, LenProperties
<1>5. \A i \in 1..Len(t) : t[i] \in nodes \cap acting
  BY <1>3, <1>4 DEF ToSet
<1>6. ASSUME NEW n \in nodes \cap acting PROVE \E i \in 1..Len(t) : t[i] = n
  BY <1>3, <1>4 DEF ToSet
<1>7. ASSUME NEW i \in 1..Len(t), NEW j \in 1..Len(t), <<t[i], t[j]>> \in edges PROVE i < j
  <2>1. SUFFICES ASSUME j < i \/ j = i PROVE FALSE
    BY <1>4
  <2>2. CASE j < i
    <3>1. PICK a \in 1..Len(o), b \in 1..Len(o) : a < b /\ o[a] = t[j] /\ o[b] = t[i]
      BY <1>3, <2>2 DEF Follows
    <3>2. b < a
      BY <1>2, <1>7, <3>1
    <3> QED
      BY <1>4, <3>1, <3>2
  <2>3. CASE j = i
    <3>1. t[i] \in ToSet(o)
      BY <1>2, <1>5
    <3>2. PICK a \in 1..Len(o) : o[a] = t[i]
      <4>1. DOMAIN o = 1..Len(o)
        BY <1>2, LenProperties
      <4> QED
        BY <3>1, <4>1 DEF ToSet
    <3>3. a < a
      BY <1>2, <1>7, <2>3, <3>2
    <3> QED
      BY <1>4, <3>2, <3>3
  <2> QED
    BY <2>1, <2>2, <2>3
<1> QED
  BY <1>4, <1>5, <1>6, <1>7

\* A graph names nodes, with releases of their components.
Fits(g) ==
  /\ DOMAIN g = {"release", "action", "sequence", "depends", "read"}
  /\ Ids(g) \subseteq NodeIds
  /\ \A n \in Ids(g) : g.release[n] \in Locks[n]

\* Where everything is installed a need is an edge.
LEMMA NeedIsEdge ==
  ASSUME NEW g, DOMAIN g = {"release", "action", "sequence", "depends", "read"}, UpToDate(g), AllInstall(g),
         NEW n \in Ids(g), NEW u \in Ids(g), g.release[u] \in Upstreams(g.release[n])
  PROVE  <<u, n>> \in Edges(g)
<1>1. PICK d \in contract[g.release[n]].needs : d.kind # "configuration" /\ d.on = g.release[u]
  BY DEF Upstreams
<1>2. g.action[n] = "install" /\ g.action[u] = "install"
  BY DEF AllInstall
<1>3. d \in ActiveNeeds(g, n) /\ u \in Providers(g, d)
  BY <1>1, <1>2 DEF ActiveNeeds, Requires, Providers
<1>4. ~Mixed(g, u, n) /\ ~Reversed(g.action[n])
  BY <1>2 DEF Mixed, Reversed
<1>5. <<u, n>> \in DependencyEdges(g)
  BY <1>1, <1>3, <1>4 DEF DependencyEdges
<1>6. g.depends = DependencyEdges(g)
  <2>1. g = Normalised(g)
    BY DEF UpToDate
  <2>2. Normalised(g).depends = DependencyEdges(g)
    BY DEF Normalised
  <2> QED
    BY <2>1, <2>2
<1> QED
  BY <1>5, <1>6 DEF Edges

\* A graph without an issue has what its nodes need.
LEMMA NeedIsThere ==
  ASSUME NEW g, ~DependencyIssue(g), AllInstall(g), NEW n \in Ids(g), NEW r \in Upstreams(g.release[n])
  PROVE  \E u \in Ids(g) : g.release[u] = r
<1>1. PICK d \in contract[g.release[n]].needs : d.kind # "configuration" /\ d.on = r
  BY DEF Upstreams
<1>2. d \in ActiveNeeds(g, n)
  BY <1>1 DEF ActiveNeeds, Requires, AllInstall
<1>3. Providers(g, d) # {}
  BY <1>2 DEF DependencyIssue
<1> QED
  BY <1>1, <1>3 DEF Providers

\* Two graphs have a release at the same node.
LEMMA SameNode ==
  ASSUME NEW g, Fits(g), NEW s, Fits(s), NEW u \in Ids(g), NEW n \in Ids(s), g.release[u] = s.release[n]
  PROVE  u = n
  BY GraphAssumption DEF Fits

\* A plan is what the last preview made of the graphs and contracts as they
\* still are.
PlannedUpgrade(configured) ==
  LET g == scenario.graph
      s == scenario.source
      order == UpgradeOrder(plan.nodes, plan.edges, plan.acting) IN
  /\ ~DependencyIssue(g)
  /\ plan.nodes = Ids(g) \cup Ids(s)
  /\ plan.edges = UpgradeEdges(g, s, scenario.constraints)
  /\ plan.acting = Acting(g, s, configured)
  /\ plan.accepted <=> Len(order) = Cardinality(plan.nodes)
  /\ plan.order = Only(order, plan.acting)

\* With the target and the source installed in full, the actions of an
\* accepted upgrade find what they need and take nothing away.
LEMMA KeepsUpstreams ==
  ASSUME Fits(scenario.graph), Fits(scenario.source), NEW configured, PlannedUpgrade(configured)
  PROVE  UpgradeKeepsUpstreams
<1>1. PICK g : g = scenario.graph
  OBVIOUS
<1>2. PICK s : s = scenario.source
  OBVIOUS
<1>3. SUFFICES ASSUME plan.accepted, UpToDate(g), AllInstall(g), UpToDate(s), AllInstall(s),
                      NEW k \in DOMAIN plan.order, NEW n, n = plan.order[k], NEW has, has = InstalledAfter(k)
               PROVE  IF n \in Ids(g) THEN Upstreams(has[n]) \subseteq {has[m] : m \in DOMAIN has}
                      ELSE \A m \in DOMAIN has : s.release[n] \notin Upstreams(has[m])
  BY <1>1, <1>2 DEF UpgradeKeepsUpstreams
<1>4. PICK nodes : nodes = plan.nodes
  OBVIOUS
<1>5. PICK edges : edges = plan.edges
  OBVIOUS
<1>6. PICK acting : acting = plan.acting
  OBVIOUS
<1>7. PICK t : t = plan.order
  OBVIOUS
<1>8. /\ Fits(g) /\ Fits(s) /\ ~DependencyIssue(g)
      /\ nodes = Ids(g) \cup Ids(s) /\ edges = UpgradeEdges(g, s, scenario.constraints)
      /\ acting = Acting(g, s, configured)
  BY <1>1, <1>2, <1>4, <1>5, <1>6 DEF PlannedUpgrade
<1>9. nodes \in SUBSET Nat /\ IsFiniteSet(nodes)
  <2>1. nodes \in SUBSET NodeIds
    BY <1>8 DEF Fits
  <2> QED
    BY <2>1, FS_Subset, GraphAssumption
<1>10. PICK o : o = UpgradeOrder(nodes, edges, acting)
  OBVIOUS
<1>11. Len(o) = Cardinality(nodes) /\ t = Only(o, acting)
  BY <1>3, <1>4, <1>5, <1>6, <1>7, <1>10 DEF PlannedUpgrade
<1>12. /\ DOMAIN t = 1..Len(t) /\ Len(t) \in Nat
       /\ \A m \in nodes \cap acting : \E i \in 1..Len(t) : t[i] = m
       /\ \A i \in 1..Len(t) : t[i] \in nodes \cap acting
       /\ \A i, j \in 1..Len(t) : <<t[i], t[j]>> \in edges => i < j
  BY <1>9, <1>10, <1>11, ActionsInOrder
<1>13. k \in 1..Len(t) /\ n = t[k] /\ n \in nodes \cap acting
  BY <1>3, <1>7, <1>12
<1>14. PICK done : done = {t[i] : i \in 1..k}
  OBVIOUS
<1>15. /\ DOMAIN has = (Ids(s) \ (done \ Ids(g))) \cup (done \cap Ids(g))
       /\ \A m \in DOMAIN has : has[m] = IF m \in done THEN g.release[m] ELSE s.release[m]
  BY <1>1, <1>2, <1>3, <1>7, <1>14 DEF InstalledAfter
<1>16. n \in done /\ done \subseteq acting
  BY <1>12, <1>13, <1>14
<1>17. ASSUME NEW u \in nodes \cap acting, <<u, n>> \in edges PROVE u \in done
  <2>1. PICK i \in 1..Len(t) : t[i] = u
    BY <1>12
  <2>2. i < k
    BY <1>12, <1>13, <1>17, <2>1
  <2> QED
    BY <1>13, <1>14, <2>1, <2>2
<1>18. ASSUME NEW m \in nodes, m \notin acting
       PROVE  m \in Ids(g) /\ m \in Ids(s) /\ g.release[m] = s.release[m]
  BY <1>8, <1>18 DEF Acting, Upgraded, Kept
<1>19. CASE n \in Ids(g)
  <2>1. SUFFICES ASSUME NEW r \in Upstreams(has[n]) PROVE \E m \in DOMAIN has : has[m] = r
    BY <1>19
  <2>2. has[n] = g.release[n]
    BY <1>15, <1>16, <1>19
  <2>3. PICK u \in Ids(g) : g.release[u] = r
    BY <1>3, <1>8, <1>19, <2>1, <2>2, NeedIsThere
  <2>4. <<u, n>> \in edges
    <3>1. <<u, n>> \in Edges(g)
      BY <1>3, <1>8, <1>19, <2>1, <2>2, <2>3, NeedIsEdge DEF Fits
    <3> QED
      BY <1>8, <3>1 DEF UpgradeEdges
  <2>5. CASE u \in acting
    <3>1. u \in done
      BY <1>8, <1>17, <2>4, <2>5
    <3> QED
      BY <1>15, <2>3, <3>1
  <2>6. CASE u \notin acting
    <3>1. u \in Ids(s) /\ s.release[u] = r /\ u \notin done
      BY <1>8, <1>16, <1>18, <2>3, <2>6
    <3> QED
      BY <1>15, <3>1
  <2> QED
    BY <2>5, <2>6
<1>20. CASE n \notin Ids(g)
  <2>1. SUFFICES ASSUME NEW m \in DOMAIN has, s.release[n] \in Upstreams(has[m]) PROVE FALSE
    BY <1>20
  <2>2. n \in Ids(s)
    BY <1>8, <1>13, <1>20
  <2>3. ASSUME m \in Ids(g), has[m] = g.release[m] PROVE FALSE
    <3>1. PICK u \in Ids(g) : g.release[u] = s.release[n]
      BY <1>3, <1>8, <2>1, <2>3, NeedIsThere
    <3>2. u = n
      BY <1>8, <2>2, <3>1, SameNode
    <3> QED
      BY <1>20, <3>1, <3>2
  <2>4. m \notin done /\ m \in Ids(s) /\ has[m] = s.release[m]
    BY <1>15, <2>1, <2>3
  <2>5. m \notin acting
    <3>1. <<n, m>> \in Edges(s)
      BY <1>3, <1>8, <2>1, <2>2, <2>4, NeedIsEdge DEF Fits
    <3>2. <<m, n>> \in edges
      <4>1. PICK e : e = <<n, m>>
        OBVIOUS
      <4>2. e \in {e_1 \in Edges(s) : Without(g, e_1[1])} /\ <<e[2], e[1]>> = <<m, n>>
        BY <1>20, <3>1, <4>1 DEF Without
      <4>3. <<m, n>> \in {<<e_1[2], e_1[1]>> : e_1 \in {e_1 \in Edges(s) : Without(g, e_1[1])}}
        BY <4>2
      <4> QED
        BY <1>8, <4>3 DEF UpgradeEdges
    <3> QED
      BY <1>8, <1>17, <2>4, <3>2
  <2> QED
    BY <1>8, <1>18, <2>3, <2>4, <2>5
<1> QED
  BY <1>19, <1>20

---------------------------------------------------------------------------
(* The invariant.                                                            *)

PlannedInstall ==
  /\ plan.order = TopologicalNodes(scenario.graph)
  /\ UpToDate(scenario.graph) => Determined(scenario.graph)

GraphsFit ==
  /\ DOMAIN scenario = {"number", "status", "saves", "graph", "source", "constraints"}
  /\ Fits(scenario.graph)
  /\ Fits(scenario.source)

PlanFits ==
  \/ plan.mode = "none"
  \/ plan.mode = "install" /\ PlannedInstall
  \/ plan.mode = "upgrade" /\ \E configured \in SUBSET NodeIds : PlannedUpgrade(configured)

OrderInv == GraphsFit /\ PlanFits

LEMMA EmptyFits == Fits(EmptyGraph)
<1>1. DOMAIN <<>> = {}
  OBVIOUS
<1>2. EmptyGraph.release = <<>> /\ DOMAIN EmptyGraph = {"release", "action", "sequence", "depends", "read"}
  BY DEF EmptyGraph
<1> QED
  BY <1>1, <1>2 DEF Fits, Ids

LEMMA NormalisedFits ==
  ASSUME NEW g, Fits(g)
  PROVE  Fits(Normalised(g))
<1>1. Normalised(g).release = g.release /\ DOMAIN Normalised(g) = DOMAIN g
  BY DEF Normalised, Fits
<1> QED
  BY <1>1 DEF Fits, Ids

LEMMA InputFits ==
  ASSUME NEW input \in Inputs
  PROVE  Fits(input)
<1>1. PICK N \in (SUBSET NodeIds) \ {{}} :
        \E f \in Lockings(N), does \in Does, s \in Sequences(N) : input = Input(f, does, s)
  BY DEF Inputs
<1>2. PICK f \in Lockings(N), does \in Does, s \in Sequences(N) : input = Input(f, does, s)
  BY <1>1
<1>3. DOMAIN f = N /\ \A n \in N : f[n] \in Locks[n]
  BY <1>2 DEF Lockings
<1>4. input.release = f /\ DOMAIN input = {"release", "action", "sequence", "depends", "read"}
  BY <1>2 DEF Input
<1> QED
  BY <1>1, <1>3, <1>4 DEF Fits, Ids

\* Everything but a preview forgets the plan; a preview changes nothing else.
LEMMA OtherSteps ==
  ASSUME OrderNext
  PROVE  plan' = NoPlan \/ PlanStep
<1>1. ASSUME NEW r \in Drafts, OwnerStep(r) PROVE plan' = NoPlan
  BY <1>1 DEF OwnerStep, EditContract, ShareCandidate, WithdrawCandidate
<1>2. ASSUME NEW input \in Inputs, SaveGraph(input) PROVE plan' = NoPlan
  BY <1>2 DEF SaveGraph
<1>3. ASSUME NEW edges \in MayConstrain, SaveUpgradeConstraints(edges) PROVE plan' = NoPlan
  BY <1>3 DEF SaveUpgradeConstraints
<1>4. PublishRevision \/ NextRevision \/ ForkScenario => plan' = NoPlan
  BY DEF PublishRevision, NextRevision, ForkScenario
<1> QED
  BY <1>1, <1>2, <1>3, <1>4 DEF OrderNext

LEMMA GraphsStay ==
  ASSUME GraphsFit, OrderNext
  PROVE  GraphsFit'
<1>1. ASSUME NEW r \in Drafts, OwnerStep(r) PROVE scenario' = scenario
  BY <1>1 DEF OwnerStep, EditContract, ShareCandidate, WithdrawCandidate
<1>2. ASSUME NEW input \in Inputs, SaveGraph(input) PROVE GraphsFit'
  <2>1. PICK g : g = Normalised(input)
    OBVIOUS
  <2>2. scenario' = [scenario EXCEPT !.graph = g, !.saves = @ + 1]
    BY <1>2, <2>1 DEF SaveGraph
  <2>3. Fits(g)
    BY <2>1, InputFits, NormalisedFits
  <2>4. scenario'.graph = g /\ scenario'.source = scenario.source /\ DOMAIN scenario' = DOMAIN scenario
    BY <2>2 DEF GraphsFit
  <2> QED
    BY <2>3, <2>4 DEF GraphsFit
<1>3. ASSUME NEW edges \in MayConstrain, SaveUpgradeConstraints(edges) PROVE GraphsFit'
  <2>1. scenario' = [scenario EXCEPT !.constraints = edges]
    BY <1>3 DEF SaveUpgradeConstraints
  <2>2. /\ scenario'.graph = scenario.graph /\ scenario'.source = scenario.source
        /\ DOMAIN scenario' = DOMAIN scenario
    BY <2>1 DEF GraphsFit
  <2> QED
    BY <2>2 DEF GraphsFit
<1>4. PlanStep => scenario' = scenario
  BY DEF PlanStep, PlanInstall, PlanUpgrade
<1>5. ASSUME PublishRevision PROVE GraphsFit'
  <2>1. scenario' = [scenario EXCEPT !.status = "released"]
    BY <1>5 DEF PublishRevision
  <2>2. /\ scenario'.graph = scenario.graph /\ scenario'.source = scenario.source
        /\ DOMAIN scenario' = DOMAIN scenario
    BY <2>1 DEF GraphsFit
  <2> QED
    BY <2>2 DEF GraphsFit
<1>6. ASSUME NextRevision PROVE GraphsFit'
  <2>1. PICK g : g = Normalised(scenario.graph)
    OBVIOUS
  <2>2. scenario' = [number |-> scenario.number + 1, status |-> "draft", saves |-> 0,
                     graph |-> g, source |-> scenario.graph, constraints |-> {}]
    BY <1>6, <2>1 DEF NextRevision
  <2>3. Fits(g) /\ Fits(scenario.graph)
    BY <2>1, NormalisedFits DEF GraphsFit
  <2>4. /\ scenario'.graph = g /\ scenario'.source = scenario.graph
        /\ DOMAIN scenario' = {"number", "status", "saves", "graph", "source", "constraints"}
    BY <2>2
  <2> QED
    BY <2>3, <2>4 DEF GraphsFit
<1>7. ASSUME ForkScenario PROVE GraphsFit'
  <2>1. scenario' = [scenario EXCEPT !.number = @ + 1, !.status = "draft", !.saves = 0,
                                     !.source = EmptyGraph, !.constraints = {}]
    BY <1>7 DEF ForkScenario
  <2>2. /\ scenario'.graph = scenario.graph /\ scenario'.source = EmptyGraph
        /\ DOMAIN scenario' = DOMAIN scenario
    BY <2>1 DEF GraphsFit
  <2> QED
    BY <2>2, EmptyFits DEF GraphsFit
<1>8. scenario' = scenario => GraphsFit'
  BY DEF GraphsFit
<1> QED
  BY <1>1, <1>2, <1>3, <1>4, <1>5, <1>6, <1>7, <1>8 DEF OrderNext

LEMMA PlansFit ==
  ASSUME OrderInv, OrderNext
  PROVE  PlanFits'
<1>1. CASE plan' = NoPlan
  BY <1>1 DEF PlanFits, NoPlan
<1>2. ASSUME PlanInstall PROVE PlanFits'
  <2>1. UNCHANGED contract /\ scenario' = scenario
    BY <1>2 DEF PlanInstall
  <2>2. PICK g : g = scenario.graph
    OBVIOUS
  <2>3. /\ Determined(Normalised(g))
        /\ plan'.mode = "install" /\ plan'.order = TopologicalNodes(g)
    BY <1>2, <2>2 DEF PlanInstall, Prepared, Acceptable
  <2>4. Normalised(g)' = Normalised(g)
    BY <2>1, SameNeeds
  <2>5. UpToDate(g)' => Determined(g)
    <3>1. UpToDate(g)' => g = Normalised(g)'
      BY DEF UpToDate
    <3> QED
      BY <2>3, <2>4, <3>1
  <2>6. scenario'.graph = g
    BY <2>1, <2>2
  <2>7. PlannedInstall'
    BY <2>3, <2>5, <2>6 DEF PlannedInstall
  <2> QED
    BY <2>3, <2>7 DEF PlanFits
<1>3. ASSUME NEW configured \in SUBSET NodeIds, PlanUpgrade(configured) PROVE PlanFits'
  <2>1. UNCHANGED contract /\ scenario' = scenario
    BY <1>3 DEF PlanUpgrade
  <2>2. PICK g : g = scenario.graph
    OBVIOUS
  <2>3. PICK s : s = scenario.source
    OBVIOUS
  <2>4. PICK nodes : nodes = Ids(g) \cup Ids(s)
    OBVIOUS
  <2>5. PICK edges : edges = UpgradeEdges(g, s, scenario.constraints)
    OBVIOUS
  <2>6. PICK acting : acting = Acting(g, s, configured)
    OBVIOUS
  <2>7. PICK order : order = UpgradeOrder(nodes, edges, acting)
    OBVIOUS
  <2>8. /\ ~DependencyIssue(g)
        /\ plan' = [mode |-> "upgrade", nodes |-> nodes, edges |-> edges, acting |-> acting,
                    accepted |-> Len(order) = Cardinality(nodes),
                    order |-> Only(order, acting)]
    BY <1>3, <2>2, <2>3, <2>4, <2>5, <2>6, <2>7 DEF PlanUpgrade, Prepared, Acceptable
  <2>9. /\ plan'.mode = "upgrade" /\ plan'.nodes = nodes /\ plan'.edges = edges /\ plan'.acting = acting
        /\ (plan'.accepted <=> Len(order) = Cardinality(nodes)) /\ plan'.order = Only(order, acting)
    BY <2>8
  <2>10. ~DependencyIssue(g)'
    BY <2>1, <2>8, SameNeeds
  <2>11. PlannedUpgrade(configured)'
    BY <2>1, <2>2, <2>3, <2>4, <2>5, <2>6, <2>7, <2>9, <2>10 DEF PlannedUpgrade
  <2> QED
    BY <2>9, <2>11 DEF PlanFits
<1> QED
  BY <1>1, <1>2, <1>3, OtherSteps DEF PlanStep

LEMMA OrderInvInit == OrderInit => OrderInv
<1> SUFFICES ASSUME OrderInit PROVE OrderInv
  OBVIOUS
<1>1. /\ scenario.graph = EmptyGraph /\ scenario.source = EmptyGraph /\ plan.mode = "none"
      /\ DOMAIN scenario = {"number", "status", "saves", "graph", "source", "constraints"}
  BY DEF OrderInit, NoPlan
<1> QED
  BY <1>1, EmptyFits DEF OrderInv, GraphsFit, PlanFits

\* What has not changed is planned as before.
LEMMA OrderInvStutters == OrderInv /\ UNCHANGED orderVars => OrderInv'
<1> SUFFICES ASSUME OrderInv, contract' = contract, scenario' = scenario, plan' = plan PROVE OrderInv'
  BY DEF orderVars
<1>1. GraphsFit'
  BY DEF OrderInv, GraphsFit
<1>2. PICK g : g = scenario.graph
  OBVIOUS
<1>3. Normalised(g)' = Normalised(g) /\ DependencyIssue(g)' = DependencyIssue(g)
  BY SameNeeds
<1>4. scenario'.graph = g
  BY <1>2
<1>5. ASSUME PlannedInstall PROVE PlannedInstall'
  <2>1. UpToDate(g)' => UpToDate(g)
    BY <1>3 DEF UpToDate
  <2>2. plan.order = TopologicalNodes(g) /\ (UpToDate(g) => Determined(g))
    BY <1>2, <1>5 DEF PlannedInstall
  <2> QED
    BY <1>4, <2>1, <2>2 DEF PlannedInstall
<1>6. ASSUME NEW configured, PlannedUpgrade(configured) PROVE PlannedUpgrade(configured)'
  BY <1>2, <1>3, <1>4, <1>6 DEF PlannedUpgrade
<1> QED
  BY <1>1, <1>5, <1>6 DEF OrderInv, PlanFits

LEMMA OrderInvHolds == OrderSpec => []OrderInv
<1>1. OrderInv /\ [OrderNext]_orderVars => OrderInv'
  BY GraphsStay, PlansFit, OrderInvStutters DEF OrderInv
<1> QED
  BY OrderInvInit, <1>1, PTL DEF OrderSpec

\* What the invariant gives.
LEMMA InvOrders == OrderInv => OrdersAreForced
<1> SUFFICES ASSUME OrderInv PROVE OrdersAreForced
  OBVIOUS
<1>1. Fits(scenario.graph) /\ Fits(scenario.source) /\ PlanFits
  BY DEF OrderInv, GraphsFit
<1>2. \A N \in SUBSET NodeIds : N \in SUBSET Nat /\ IsFiniteSet(N)
  BY GraphAssumption, FS_Subset
<1>3. InstallIsForced
  <2>1. PICK g : g = scenario.graph
    OBVIOUS
  <2>2. SUFFICES ASSUME plan.mode = "install", UpToDate(g)
                 PROVE  LinearExtensions(Ids(g), Edges(g)) = {plan.order}
    BY <2>1 DEF InstallIsForced
  <2>3. plan.order = TopologicalNodes(g) /\ Determined(g)
    BY <1>1, <2>1, <2>2 DEF PlanFits, PlannedInstall
  <2>4. Ids(g) \in SUBSET Nat /\ IsFiniteSet(Ids(g))
    BY <1>1, <1>2, <2>1 DEF Fits
  <2> QED
    BY <2>3, <2>4, OneOrder DEF TopologicalNodes, Determined
<1>4. ASSUME plan.mode = "upgrade" PROVE UpgradeIsForced /\ UpgradeKeepsUpstreams
  <2>1. PICK configured \in SUBSET NodeIds : PlannedUpgrade(configured)
    BY <1>1, <1>4 DEF PlanFits
  <2>2. PICK o : o = UpgradeOrder(plan.nodes, plan.edges, plan.acting)
    OBVIOUS
  <2>3. /\ plan.nodes = Ids(scenario.graph) \cup Ids(scenario.source)
        /\ plan.accepted <=> Len(o) = Cardinality(plan.nodes)
        /\ plan.order = Only(o, plan.acting)
    BY <2>1, <2>2 DEF PlannedUpgrade
  <2>4. plan.nodes \in SUBSET Nat /\ IsFiniteSet(plan.nodes)
    BY <1>1, <1>2, <2>3 DEF Fits
  <2>5. PICK orders : orders = {Only(s, plan.acting) : s \in LinearExtensions(plan.nodes, plan.edges)}
    OBVIOUS
  <2>6. IF Len(o) = Cardinality(plan.nodes) THEN orders = {Only(o, plan.acting)} ELSE Cardinality(orders) # 1
    BY <2>2, <2>4, <2>5, OneOrderOfActions
  <2>7. UpgradeIsForced
    BY <2>3, <2>5, <2>6 DEF UpgradeIsForced
  <2>8. UpgradeKeepsUpstreams
    BY <1>1, <2>1, KeepsUpstreams
  <2> QED
    BY <2>7, <2>8
<1>5. plan.mode # "upgrade" => UpgradeIsForced /\ UpgradeKeepsUpstreams
  BY DEF UpgradeIsForced, UpgradeKeepsUpstreams
<1> QED
  BY <1>3, <1>4, <1>5 DEF OrdersAreForced

\* The order of a plan is the only one its graph allows, and an upgrade never
\* takes away from under a component what it needs, for scenarios of any size
\* and contracts that are edited at any time (scenario_graph.go:195-243,
\* scenario_execution.go:618-708).
THEOREM OrdersAreDetermined == OrderSpec => []OrdersAreForced
  BY OrderInvHolds, InvOrders, PTL
===============================================================================
