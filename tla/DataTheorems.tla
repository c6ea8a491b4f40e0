---------------------------- MODULE DataTheorems ----------------------------
(***************************************************************************)
(* Induction over numbers and over finite sets, stated for sets instead of *)
(* predicates, and what the sum of a function over a finite set adds up    *)
(* to.  An inductive set of numbers holds all of them because the          *)
(* successor would otherwise map a finite set into a smaller one.          *)
(***************************************************************************)
EXTENDS Integers, Functions, FiniteSetTheorems, TLAPS

LEMMA Induction ==
  ASSUME NEW A, 0 \in A, \A n \in Nat : n \in A => n + 1 \in A
  PROVE  Nat \subseteq A
<1> SUFFICES ASSUME NEW m \in Nat, m \notin A PROVE FALSE
  OBVIOUS
<1> DEFINE B == A \cap (0..m)
           f == [n \in B |-> n + 1]
<1>1. IsFiniteSet(B)
  <2>1. IsFiniteSet(0..m)
    BY FS_Interval
  <2>2. QED
    BY <2>1, FS_Subset
<1>2. \A n \in B : n \in Nat /\ n < m /\ n + 1 \in B
  OBVIOUS
<1>3. f \in Injection(B, B \ {0})
  <2>1. f \in [B -> B \ {0}]
    BY <1>2
  <2>2. \A a, b \in B : f[a] = f[b] => a = b
    BY <1>2
  <2>3. QED
    BY <2>1, <2>2 DEF Injection, IsInjective
<1>4. IsFiniteSet(B \ {0}) /\ Cardinality(B \ {0}) = Cardinality(B) - 1
  <2>1. 0 \in B
    OBVIOUS
  <2>2. QED
    BY <1>1, <2>1, FS_RemoveElement
<1>5. Cardinality(B) <= Cardinality(B \ {0})
  BY <1>3, <1>4, FS_Injection
<1>6. Cardinality(B) \in Nat
  BY <1>1, FS_CardinalityType
<1>7. QED
  BY <1>4, <1>5, <1>6

LEMMA FiniteInduction ==
  ASSUME NEW U, IsFiniteSet(U), NEW A, {} \in A,
         \A T \in SUBSET U : \A x \in U \ T : T \in A => T \cup {x} \in A
  PROVE  SUBSET U \subseteq A
<1> DEFINE N == {n \in Nat : \A T \in SUBSET U : Cardinality(T) = n => T \in A}
<1>1. \A T \in SUBSET U : IsFiniteSet(T) /\ Cardinality(T) \in Nat
  BY FS_Subset, FS_CardinalityType
<1>2. 0 \in N
  BY <1>1, FS_EmptySet
<1>3. ASSUME NEW n \in Nat, n \in N PROVE n + 1 \in N
  <2>1. SUFFICES ASSUME NEW T \in SUBSET U, Cardinality(T) = n + 1 PROVE T \in A
    OBVIOUS
  <2>2. PICK x \in T : TRUE
    BY <1>1, <2>1, FS_EmptySet
  <2>3. Cardinality(T \ {x}) = n
    <3>1. IsFiniteSet(T)
      BY <1>1
    <3>2. Cardinality(T \ {x}) = Cardinality(T) - 1
      BY <3>1, <2>2, FS_RemoveElement
    <3>3. QED
      BY <2>1, <3>2
  <2>4. T \ {x} \in A
    BY <1>3, <2>3
  <2>5. (T \ {x}) \cup {x} \in A /\ (T \ {x}) \cup {x} = T
    BY <2>2, <2>4
  <2>6. QED
    BY <2>5
<1> HIDE DEF N
<1>4. Nat \subseteq N
  BY <1>2, <1>3, Induction
<1>5. QED
  BY <1>1, <1>4 DEF N

---------------------------------------------------------------------------
(* Sums.                                                                     *)

NatOn(f, S) == \A x \in S : f[x] \in Nat
Agree(f, h, S) == \A x \in S : f[x] = h[x]
AgreeBut(f, h, S, e) == \A x \in S : x # e => f[x] = h[x]

First(s) == CHOOSE x \in s : TRUE

\* g sums f up over the sets of SS; over the subsets of U.
SumsOver(g, f, SS) == /\ g \in [SS -> Nat]
                      /\ \A s \in SS : g[s] = IF s = {} THEN 0 ELSE f[First(s)] + g[s \ {First(s)}]
Sums(g, f, U) == SumsOver(g, f, SUBSET U)

LEMMA SumsExist ==
  ASSUME NEW U, IsFiniteSet(U), NEW f, NatOn(f, U)
  PROVE  \E g : Sums(g, f, U)
<1> DEFINE Small(n) == {s \in SUBSET U : Cardinality(s) <= n}
           N == {n \in Nat : \E g : SumsOver(g, f, Small(n))}
<1>1. \A T \in SUBSET U : IsFiniteSet(T) /\ Cardinality(T) \in Nat
  BY FS_Subset, FS_CardinalityType
<1>2. \A s \in SUBSET U : s # {} => /\ First(s) \in s /\ s \ {First(s)} \in SUBSET U
                                    /\ Cardinality(s \ {First(s)}) = Cardinality(s) - 1
  BY <1>1, FS_RemoveElement DEF First
<1>3. 0 \in N
  <2>1. Small(0) = {{}}
    BY <1>1, FS_EmptySet
  <2>2. SumsOver([s \in {{}} |-> 0], f, {{}})
    BY DEF SumsOver
  <2>3. QED
    BY <2>1, <2>2
<1>4. ASSUME NEW n \in Nat, n \in N PROVE n + 1 \in N
  <2>1. PICK g : SumsOver(g, f, Small(n))
    BY <1>4
  <2> DEFINE h == [s \in Small(n + 1) |-> IF s = {} THEN 0 ELSE f[First(s)] + g[s \ {First(s)}]]
  <2>2. \A s \in Small(n + 1) : s # {} => s \ {First(s)} \in Small(n)
    BY <1>1, <1>2
  <2>3. \A s \in Small(n) : s \in Small(n + 1) /\ h[s] = g[s]
    BY <1>1, <2>1 DEF SumsOver
  <2>4. \A s \in Small(n + 1) : s # {} => f[First(s)] \in Nat /\ g[s \ {First(s)}] \in Nat
    BY <1>2, <2>1, <2>2 DEF SumsOver, NatOn
  <2>5. h \in [Small(n + 1) -> Nat]
    <3>1. SUFFICES ASSUME NEW s \in Small(n + 1)
                   PROVE  (IF s = {} THEN 0 ELSE f[First(s)] + g[s \ {First(s)}]) \in Nat
      OBVIOUS
    <3>2. CASE s = {}
      BY <3>2
    <3>3. CASE s # {}
      <4>1. \A a, b \in Nat : a + b \in Nat
        OBVIOUS
      <4>2. QED
        BY <2>4, <3>3, <4>1
    <3>4. QED
      BY <3>2, <3>3
  <2>6. \A s \in Small(n + 1) : h[s] = IF s = {} THEN 0 ELSE f[First(s)] + h[s \ {First(s)}]
    BY <2>2, <2>3
  <2>7. SumsOver(h, f, Small(n + 1))
    BY <2>5, <2>6 DEF SumsOver
  <2> HIDE DEF h, Small
  <2>8. \E k : SumsOver(k, f, Small(n + 1))
    BY <2>7
  <2>9. n + 1 \in Nat
    OBVIOUS
  <2>10. QED
    BY <2>8, <2>9, Zenon
<1> HIDE DEF N
<1>5. Cardinality(U) \in N
  BY <1>1, <1>3, <1>4, Induction
<1>6. Small(Cardinality(U)) = SUBSET U
  BY FS_Subset, <1>1
<1>7. QED
  BY <1>5, <1>6 DEF N, Sums

\* The sum of the library is one of these.
LEMMA SumIsSums ==
  ASSUME NEW U, IsFiniteSet(U), NEW f, NatOn(f, U)
  PROVE  \E g : Sums(g, f, U) /\ SumFunctionOnSet(f, U) = g[U]
<1> DEFINE It(g) == g = [s \in SUBSET U |-> IF s = {} THEN 0
                              ELSE f[CHOOSE x \in s : TRUE] + g[s \ {CHOOSE x \in s : TRUE}]]
<1>1. SumFunctionOnSet(f, U) = (CHOOSE g : It(g))[U]
  BY DEF SumFunctionOnSet, FoldFunctionOnSet, MapThenFoldSet
<1>2. PICK g : Sums(g, f, U)
  BY SumsExist
<1>3. It(g)
  BY <1>2 DEF Sums, SumsOver, First
<1>4. It(CHOOSE h : It(h))
  BY <1>3
<1>5. ASSUME NEW h, It(h) PROVE Sums(h, f, U)
  <2>1. h = [s \in SUBSET U |-> h[s]] /\ \A s \in SUBSET U : h[s] = IF s = {} THEN 0 ELSE f[First(s)] + h[s \ {First(s)}]
    BY <1>5 DEF First
  <2>2. h \in [SUBSET U -> Nat]
    <3> DEFINE N == {n \in Nat : \A s \in SUBSET U : Cardinality(s) = n => h[s] \in Nat}
    <3>1. \A T \in SUBSET U : IsFiniteSet(T) /\ Cardinality(T) \in Nat
      BY FS_Subset, FS_CardinalityType
    <3>2. 0 \in N
      BY <2>1, <3>1, FS_EmptySet
    <3>3. ASSUME NEW n \in Nat, n \in N PROVE n + 1 \in N
      <4>1. SUFFICES ASSUME NEW s \in SUBSET U, Cardinality(s) = n + 1 PROVE h[s] \in Nat
        OBVIOUS
      <4>2. s # {} /\ First(s) \in s
        BY <4>1, FS_EmptySet DEF First
      <4>3. IsFiniteSet(s) /\ s \ {First(s)} \in SUBSET U
        BY <3>1
      <4>4. Cardinality(s \ {First(s)}) = Cardinality(s) - 1
        BY <4>2, <4>3, FS_RemoveElement
      <4>5. h[s \ {First(s)}] \in Nat
        BY <3>3, <4>1, <4>3, <4>4
      <4>6. f[First(s)] \in Nat
        BY <4>2 DEF NatOn
      <4>7. h[s] = f[First(s)] + h[s \ {First(s)}]
        BY <2>1, <4>2
      <4>8. QED
        BY <4>5, <4>6, <4>7
    <3> HIDE DEF N
    <3>4. Nat \subseteq N
      BY <3>2, <3>3, Induction
    <3>5. \A s \in SUBSET U : h[s] \in Nat
      BY <3>1, <3>4 DEF N
    <3>6. QED
      BY <2>1, <3>5
  <2>3. QED
    BY <2>1, <2>2 DEF Sums, SumsOver
<1> HIDE DEF It
<1>6. QED
  BY <1>1, <1>4, <1>5

\* One element is added to the sum of the others, whichever it is.
LEMMA SumsAdd ==
  ASSUME NEW U, IsFiniteSet(U), NEW f, NatOn(f, U), NEW g, Sums(g, f, U),
         NEW t \in SUBSET U, NEW e \in t
  PROVE  g[t] = f[e] + g[t \ {e}]
<1> DEFINE N == {n \in Nat : \A s \in SUBSET U : Cardinality(s) = n => \A x \in s : g[s] = f[x] + g[s \ {x}]}
<1>1. \A T \in SUBSET U : IsFiniteSet(T) /\ Cardinality(T) \in Nat
  BY FS_Subset, FS_CardinalityType
<1>2. 0 \in N
  BY <1>1, FS_EmptySet
<1>3. ASSUME NEW n \in Nat, n \in N PROVE n + 1 \in N
  <2>1. SUFFICES ASSUME NEW s \in SUBSET U, Cardinality(s) = n + 1, NEW x \in s
                 PROVE  g[s] = f[x] + g[s \ {x}]
    OBVIOUS
  <2>2. PICK y : y = First(s)
    OBVIOUS
  <2>3. y \in s /\ g[s] = f[y] + g[s \ {y}]
    BY <2>2 DEF Sums, SumsOver, First
  <2>4. CASE x = y
    BY <2>3, <2>4
  <2>5. CASE x # y
    <3>1. \A z \in s : Cardinality(s \ {z}) = n
      <4>1. SUFFICES ASSUME NEW z \in s PROVE Cardinality(s \ {z}) = n
        OBVIOUS
      <4>2. IsFiniteSet(s)
        BY <1>1
      <4>3. Cardinality(s \ {z}) = Cardinality(s) - 1
        BY <4>2, FS_RemoveElement
      <4>4. QED
        BY <2>1, <4>3
    <3>2. g[s \ {y}] = f[x] + g[(s \ {y}) \ {x}]
      BY <1>3, <2>3, <2>5, <3>1
    <3>3. g[s \ {x}] = f[y] + g[(s \ {x}) \ {y}]
      BY <1>3, <2>3, <2>5, <3>1
    <3>4. g[(s \ {y}) \ {x}] = g[(s \ {x}) \ {y}]
      <4>1. (s \ {y}) \ {x} = (s \ {x}) \ {y}
        OBVIOUS
      <4>2. QED
        BY <4>1
    <3>5. f[x] \in Nat /\ f[y] \in Nat /\ g[(s \ {x}) \ {y}] \in Nat
      BY <2>3 DEF Sums, SumsOver, NatOn
    <3>6. QED
      BY <2>3, <3>2, <3>3, <3>4, <3>5
  <2>6. QED
    BY <2>4, <2>5
<1> HIDE DEF N
<1>4. Nat \subseteq N
  BY <1>2, <1>3, Induction
<1>5. QED
  BY <1>1, <1>4 DEF N

\* Sums of functions that agree are equal.
LEMMA SumsAgree ==
  ASSUME NEW U, IsFiniteSet(U), NEW V, IsFiniteSet(V), NEW f, NatOn(f, U), NEW h, NatOn(h, V),
         NEW g, Sums(g, f, U), NEW k, Sums(k, h, V),
         NEW S, S \subseteq U, S \subseteq V, Agree(f, h, S)
  PROVE  g[S] = k[S]
<1> DEFINE A == {T \in SUBSET S : g[T] = k[T]}
<1>1. IsFiniteSet(S)
  BY FS_Subset
<1>2. {} \in A
  BY DEF Sums, SumsOver
<1>3. ASSUME NEW T \in SUBSET S, NEW x \in S \ T, T \in A PROVE T \cup {x} \in A
  <2>1. PICK t : t = T \cup {x}
    OBVIOUS
  <2>2. t \ {x} = T /\ x \in t /\ t \in SUBSET U /\ t \in SUBSET V /\ t \in SUBSET S
    BY <1>3, <2>1
  <2>3. g[t] = f[x] + g[t \ {x}]
    BY <2>2, SumsAdd
  <2>4. k[t] = h[x] + k[t \ {x}]
    BY <2>2, SumsAdd
  <2>5. f[x] = h[x]
    BY DEF Agree
  <2>6. QED
    BY <1>3, <2>1, <2>2, <2>3, <2>4, <2>5
<1> HIDE DEF A
<1>4. SUBSET S \subseteq A
  BY <1>1, <1>2, <1>3, FiniteInduction
<1>5. QED
  BY <1>4 DEF A

LEMMA SumTyped ==
  ASSUME NEW S, IsFiniteSet(S), NEW f, NatOn(f, S)
  PROVE  SumFunctionOnSet(f, S) \in Nat
<1>1. PICK g : Sums(g, f, S) /\ SumFunctionOnSet(f, S) = g[S]
  BY SumIsSums
<1>2. QED
  BY <1>1 DEF Sums, SumsOver

LEMMA SumOfNone == \A f : SumFunctionOnSet(f, {}) = 0
<1>1. SUFFICES ASSUME NEW f, NEW E, E = {} PROVE SumFunctionOnSet(f, E) = 0
  OBVIOUS
<1>2. IsFiniteSet(E) /\ NatOn(f, E)
  BY <1>1, FS_EmptySet DEF NatOn
<1>3. PICK g : Sums(g, f, E) /\ SumFunctionOnSet(f, E) = g[E]
  BY <1>2, SumIsSums
<1>4. QED
  BY <1>1, <1>3 DEF Sums, SumsOver

\* The sums of two functions that agree are equal.
LEMMA SumOfEqual ==
  ASSUME NEW S, IsFiniteSet(S), NEW f, NatOn(f, S), NEW h, Agree(f, h, S)
  PROVE  SumFunctionOnSet(h, S) = SumFunctionOnSet(f, S)
<1>1. NatOn(h, S) /\ S \subseteq S
  BY DEF NatOn, Agree
<1>2. PICK g : Sums(g, f, S) /\ SumFunctionOnSet(f, S) = g[S]
  BY SumIsSums
<1>3. PICK k : Sums(k, h, S) /\ SumFunctionOnSet(h, S) = k[S]
  BY <1>1, SumIsSums
<1>4. g[S] = k[S]
  BY <1>1, <1>2, <1>3, SumsAgree
<1>5. QED
  BY <1>2, <1>3, <1>4

LEMMA SumWithout ==
  ASSUME NEW S, IsFiniteSet(S), NEW f, NatOn(f, S), NEW e \in S, NEW T, T = S \ {e}
  PROVE  /\ IsFiniteSet(T) /\ NatOn(f, T)
         /\ SumFunctionOnSet(f, S) = f[e] + SumFunctionOnSet(f, T)
<1>1. IsFiniteSet(T) /\ NatOn(f, T) /\ Agree(f, f, T) /\ T \subseteq S /\ T \subseteq T
  BY FS_Subset DEF NatOn, Agree
<1>2. PICK g : Sums(g, f, S) /\ SumFunctionOnSet(f, S) = g[S]
  BY SumIsSums
<1>3. PICK k : Sums(k, f, T) /\ SumFunctionOnSet(f, T) = k[T]
  BY <1>1, SumIsSums
<1>4. g[T] = k[T]
  BY <1>1, <1>2, <1>3, SumsAgree
<1>5. g[S] = f[e] + g[S \ {e}]
  BY <1>2, SumsAdd
<1>6. QED
  BY <1>1, <1>2, <1>3, <1>4, <1>5

\* One value changes.
LEMMA SumChanges ==
  ASSUME NEW S, IsFiniteSet(S), NEW f, NatOn(f, S), NEW e \in S,
         NEW h, h[e] \in Nat, AgreeBut(f, h, S, e)
  PROVE  SumFunctionOnSet(h, S) = SumFunctionOnSet(f, S) - f[e] + h[e]
<1>1. PICK T : T = S \ {e}
  OBVIOUS
<1>2. NatOn(h, S) /\ Agree(f, h, T) /\ f[e] \in Nat
  BY <1>1 DEF NatOn, Agree, AgreeBut
<1>3. IsFiniteSet(T) /\ NatOn(f, T) /\ SumFunctionOnSet(f, S) = f[e] + SumFunctionOnSet(f, T)
  BY <1>1, SumWithout
<1>4. SumFunctionOnSet(h, S) = h[e] + SumFunctionOnSet(h, T)
  BY <1>1, <1>2, SumWithout
<1>5. SumFunctionOnSet(h, T) = SumFunctionOnSet(f, T)
  BY <1>2, <1>3, SumOfEqual
<1>6. SumFunctionOnSet(f, T) \in Nat
  BY <1>3, SumTyped
<1>7. QED
  BY <1>2, <1>3, <1>4, <1>5, <1>6

Cleared(f, S, T) == [x \in S |-> IF x \in T THEN 0 ELSE f[x]]

\* The values of the elements of T become zero.
LEMMA SumCleared ==
  ASSUME NEW S, IsFiniteSet(S), NEW f, NatOn(f, S), NEW T \in SUBSET S
  PROVE  /\ SumFunctionOnSet(Cleared(f, S, T), S) = SumFunctionOnSet(f, S) - SumFunctionOnSet(f, T)
         /\ SumFunctionOnSet(f, T) <= SumFunctionOnSet(f, S)
<1> DEFINE A == {R \in SUBSET S : SumFunctionOnSet(Cleared(f, S, R), S) + SumFunctionOnSet(f, R)
                                      = SumFunctionOnSet(f, S)}
<1>1. ASSUME NEW R \in SUBSET S
      PROVE  /\ IsFiniteSet(R) /\ NatOn(f, R) /\ SumFunctionOnSet(f, R) \in Nat
             /\ NatOn(Cleared(f, S, R), S) /\ SumFunctionOnSet(Cleared(f, S, R), S) \in Nat
  <2>1. IsFiniteSet(R) /\ NatOn(f, R) /\ NatOn(Cleared(f, S, R), S)
    BY FS_Subset DEF NatOn, Cleared
  <2>2. QED
    BY <2>1, SumTyped
<1>2. {} \in A
  <2>1. Agree(f, Cleared(f, S, {}), S)
    BY DEF Agree, Cleared
  <2>2. SumFunctionOnSet(Cleared(f, S, {}), S) = SumFunctionOnSet(f, S)
    BY <2>1, SumOfEqual
  <2>3. SumFunctionOnSet(f, {}) = 0 /\ SumFunctionOnSet(f, S) \in Nat
    BY SumOfNone, SumTyped
  <2>4. QED
    BY <2>2, <2>3
<1>3. ASSUME NEW R \in SUBSET S, NEW x \in S \ R, R \in A PROVE R \cup {x} \in A
  <2>1. PICK Q \in SUBSET S : Q = R \cup {x}
    OBVIOUS
  <2>2. PICK h, k : h = Cleared(f, S, Q) /\ k = Cleared(f, S, R)
    OBVIOUS
  <2>3. h[x] = 0 /\ k[x] = f[x] /\ AgreeBut(k, h, S, x)
    BY <1>3, <2>1, <2>2 DEF Cleared, AgreeBut
  <2>4. NatOn(k, S) /\ h[x] \in Nat
    BY <1>1, <2>2, <2>3
  <2>5. SumFunctionOnSet(h, S) = SumFunctionOnSet(k, S) - k[x] + h[x]
    BY <2>3, <2>4, SumChanges
  <2>6. SumFunctionOnSet(f, Q) = f[x] + SumFunctionOnSet(f, R)
    <3>1. IsFiniteSet(Q) /\ x \in Q /\ NatOn(f, Q) /\ R = Q \ {x}
      BY <1>1, <1>3, <2>1
    <3>2. QED
      BY <3>1, SumWithout
  <2>7. SumFunctionOnSet(k, S) + SumFunctionOnSet(f, R) = SumFunctionOnSet(f, S)
    BY <1>3, <2>2
  <2>8. /\ f[x] \in Nat /\ SumFunctionOnSet(k, S) \in Nat /\ SumFunctionOnSet(f, R) \in Nat
        /\ SumFunctionOnSet(h, S) \in Nat /\ SumFunctionOnSet(f, Q) \in Nat
    BY <1>1, <2>2 DEF NatOn
  <2>9. SumFunctionOnSet(h, S) + SumFunctionOnSet(f, Q) = SumFunctionOnSet(f, S)
    BY <2>3, <2>5, <2>6, <2>7, <2>8
  <2>10. QED
    BY <2>1, <2>2, <2>9
<1>4. T \in A
  <2> HIDE DEF A
  <2>1. QED
    BY <1>2, <1>3, FiniteInduction
<1>5. SumFunctionOnSet(f, S) \in Nat
  BY SumTyped
<1>6. QED
  BY <1>1, <1>4, <1>5

LEMMA SumOfAllCleared ==
  ASSUME NEW S, IsFiniteSet(S), NEW f, NatOn(f, S), Agree(f, Cleared(f, S, S), S)
  PROVE  SumFunctionOnSet(f, S) = 0
<1>1. SumFunctionOnSet(Cleared(f, S, S), S) = SumFunctionOnSet(f, S)
  BY SumOfEqual
<1>2. SumFunctionOnSet(Cleared(f, S, S), S) = SumFunctionOnSet(f, S) - SumFunctionOnSet(f, S)
  BY SumCleared
<1>3. SumFunctionOnSet(f, S) \in Nat
  BY SumTyped
<1>4. QED
  BY <1>1, <1>2, <1>3
=============================================================================
