-------------------------- MODULE ToolMemory_proof --------------------------
(***************************************************************************)
(* Theorems about ToolMemory, for any texts, sizes, limits, snapshots and  *)
(* requests: the counters are exact, what is replayed is what the model    *)
(* wrote, behind a snapshot are its own calls, and what a request found    *)
(* known is replayed.  The folds of the model walk from one memory to the  *)
(* next, so what each operation keeps of a memory the whole fold keeps.    *)
(***************************************************************************)
EXTENDS ToolMemory, FiniteSetTheorems, WellFoundedInduction, TLAPS

(* A set of naturals has a least element, and so what holds of 0 and of    *)
(* each successor holds of all.                                            *)
LEMMA Least ==
  ASSUME NEW T \in SUBSET Nat, T # {}
  PROVE  \E x \in T : \A y \in T : x <= y
<1> DEFINE R == {ss \in Nat \X Nat : ss[1] < ss[2]}
<1>1. IsWellFoundedOn(R, Nat)
  BY NatLessThanWellFounded, Zenon DEF OpToRel
<1>2. \E x \in T : \A y \in T : ~ (<<y, x>> \in R)
  <2> HIDE DEF R
  <2> QED BY <1>1, WFMin
<1>3. ASSUME NEW x \in T, NEW y \in T, ~ (<<y, x>> \in R)
      PROVE x <= y
  BY <1>3
<1> QED BY <1>2, <1>3

LEMMA NatInd ==
  ASSUME NEW S \in SUBSET Nat, 0 \in S, \A n \in S : n + 1 \in S
  PROVE S = Nat
<1> SUFFICES ASSUME S # Nat PROVE FALSE
  OBVIOUS
<1>1. PICK x \in Nat \ S : \A y \in Nat \ S : x <= y
  BY Least
<1>2. x # 0 /\ x - 1 \in Nat
  BY <1>1
<1>3. x - 1 \in S
  BY <1>1, <1>2
<1> QED BY <1>1, <1>2, <1>3

(***************************************************************************)
(* Folds over a finite set.                                                *)
(***************************************************************************)
LEMMA FinitePart ==
  ASSUME NEW E, IsFiniteSet(E), NEW s \in SUBSET E
  PROVE  /\ IsFiniteSet(s) /\ Cardinality(s) \in Nat /\ (Cardinality(s) = 0 <=> s = {})
         /\ \A x \in s : Cardinality(s \ {x}) = Cardinality(s) - 1
BY FS_Subset, FS_CardinalityType, FS_EmptySet, FS_RemoveElement

(* From the value of the empty set, element by element, in the order of P. *)
FoldRule(g, F, b, P, E) ==
  \A s \in SUBSET E : g[s] = IF s = {} THEN b ELSE F[<<g[s \ {P[s]}], P[s]>>]

LEMMA FoldExists ==
  ASSUME NEW E, IsFiniteSet(E), NEW A, NEW b \in A, NEW F \in [A \X E -> A],
         NEW P, \A s \in SUBSET E : s # {} => P[s] \in s
  PROVE  \E g \in [SUBSET E -> A] : FoldRule(g, F, b, P, E)
<1> DEFINE Small(n) == {s \in SUBSET E : Cardinality(s) <= n}
<1> DEFINE Ok(g, n) ==
      /\ g \in [Small(n) -> A]
      /\ \A s \in Small(n) : g[s] = IF s = {} THEN b ELSE F[<<g[s \ {P[s]}], P[s]>>]
<1> DEFINE T == {n \in Nat : \E g : Ok(g, n)}
<1>1. 0 \in T
  <2>1. \A s \in Small(0) : s = {}
    BY FinitePart
  <2>2. Ok([s \in Small(0) |-> b], 0)
    BY <2>1
  <2> QED BY <2>2
<1>2. ASSUME NEW n \in T PROVE n + 1 \in T
  <2>1. PICK g : Ok(g, n)
    OBVIOUS
  <2> DEFINE h == [s \in Small(n + 1) |->
                     IF Cardinality(s) <= n THEN g[s] ELSE F[<<g[s \ {P[s]}], P[s]>>]]
  <2>2. ASSUME NEW s \in Small(n + 1), s # {}
        PROVE  /\ P[s] \in E /\ s \ {P[s]} \in Small(n)
               /\ s \ {P[s]} \in Small(n + 1) /\ h[s \ {P[s]}] = g[s \ {P[s]}]
    <3>1. /\ P[s] \in s /\ s \ {P[s]} \in SUBSET E
          /\ Cardinality(s) \in Nat /\ Cardinality(s \ {P[s]}) = Cardinality(s) - 1
      BY <2>2, FinitePart
    <3>2. Cardinality(s \ {P[s]}) <= n /\ Cardinality(s \ {P[s]}) <= n + 1
      BY <3>1
    <3> QED BY <3>1, <3>2
  <2>3. \A s \in Small(n) : g[s] \in A
    BY <2>1
  <2>4. \A s \in Small(n + 1) : Cardinality(s) <= n => s \in Small(n)
    OBVIOUS
  <2>5. \A s \in Small(n + 1) : ~(Cardinality(s) <= n) => s # {}
    BY FinitePart
  <2> HIDE DEF Small
  <2>6. \A s \in Small(n + 1) : h[s] \in A
    <3> SUFFICES ASSUME NEW s \in Small(n + 1) PROVE h[s] \in A
      OBVIOUS
    <3>1. CASE Cardinality(s) <= n
      BY <2>3, <2>4, <3>1
    <3>2. CASE ~(Cardinality(s) <= n)
      <4>1. s # {}
        BY <2>5, <3>2
      <4>2. P[s] \in E /\ g[s \ {P[s]}] \in A
        BY <2>2, <2>3, <4>1
      <4>3. F[<<g[s \ {P[s]}], P[s]>>] \in A
        BY <4>2
      <4>4. h[s] = F[<<g[s \ {P[s]}], P[s]>>]
        BY <3>2
      <4> HIDE DEF h
      <4> QED BY <4>3, <4>4
    <3> QED BY <3>1, <3>2
  <2>7. h \in [Small(n + 1) -> A]
    BY <2>6
  <2>8. ASSUME NEW s \in Small(n + 1)
        PROVE  h[s] = IF s = {} THEN b ELSE F[<<h[s \ {P[s]}], P[s]>>]
    <3>1. CASE Cardinality(s) <= n
      <4>1. h[s] = g[s] /\ s \in Small(n)
        BY <2>4, <3>1
      <4>2. g[s] = IF s = {} THEN b ELSE F[<<g[s \ {P[s]}], P[s]>>]
        BY <2>1, <4>1
      <4> QED
        <5> HIDE DEF h
        <5> QED BY <2>2, <4>1, <4>2
    <3>2. CASE ~(Cardinality(s) <= n)
      <4>1. h[s] = F[<<g[s \ {P[s]}], P[s]>>] /\ s # {}
        BY <2>5, <3>2
      <4> HIDE DEF h
      <4> QED BY <2>2, <4>1
    <3> QED BY <3>1, <3>2
  <2>9. Ok(h, n + 1)
    <3> HIDE DEF h
    <3> QED BY <2>7, <2>8
  <2> HIDE DEF h, Ok
  <2> QED BY <2>9
<1>3. T = Nat
  <2>1. T \in SUBSET Nat
    OBVIOUS
  <2> HIDE DEF T
  <2> QED BY <1>1, <1>2, <2>1, NatInd
<1>4. Cardinality(E) \in Nat
  BY FS_CardinalityType
<1>5. PICK g : Ok(g, Cardinality(E))
  BY <1>3, <1>4
<1>6. Small(Cardinality(E)) = SUBSET E
  <2>1. \A s \in SUBSET E : Cardinality(s) <= Cardinality(E)
    BY FS_Subset
  <2> QED BY <2>1
<1>7. g \in [SUBSET E -> A] /\ FoldRule(g, F, b, P, E)
  <2> HIDE DEF Small
  <2> QED BY <1>5, <1>6 DEF FoldRule
<1> QED BY <1>7

(***************************************************************************)
(* Folds over a sequence.                                                  *)
(***************************************************************************)
(* The elements that FoldLeft takes: the largest index is the last.        *)
LEMMA LargestIsThere ==
  ASSUME NEW n \in Nat, NEW s \in SUBSET (1..n), s # {}
  PROVE  Max(s) \in s
<1> DEFINE T == {k \in Nat : \A y \in s : y <= k}
<1>1. n \in T
  OBVIOUS
<1>2. PICK k \in T : \A j \in T : k <= j
  <2>1. T \in SUBSET Nat
    OBVIOUS
  <2>2. T # {}
    BY <1>1
  <2> HIDE DEF T
  <2> QED BY <2>1, <2>2, Least
<1>3. k \in s
  <2> SUFFICES ASSUME k \notin s PROVE FALSE
    OBVIOUS
  <2>1. \A y \in s : y \in Nat /\ 1 <= y /\ y <= k - 1
    BY <1>2
  <2>2. k - 1 \in T
    <3>1. PICK y \in s : TRUE
      OBVIOUS
    <3>2. k - 1 \in Nat
      BY <2>1, <3>1
    <3> QED BY <2>1, <3>2
  <2>3. k \in Nat
    BY <1>2
  <2> HIDE DEF T
  <2>4. k <= k - 1
    BY <1>2, <2>2
  <2> QED BY <2>3, <2>4
<1>4. \A y \in s : k >= y
  BY <1>2
<1>5. \E x \in s : \A y \in s : x >= y
  BY <1>3, <1>4
<1> QED BY <1>5 DEF Max

LeftRule(g, F, b, n, A) ==
  /\ g[{}] = b
  /\ \A t \in SUBSET (1..n) : t # {} =>
       /\ Max(t) \in 1..n /\ g[t \ {Max(t)}] \in A
       /\ g[t] = F[<<g[t \ {Max(t)}], Max(t)>>]

LEMMA FoldLeftExists ==
  ASSUME NEW n \in Nat, NEW A, NEW b \in A, NEW F \in [A \X (1..n) -> A]
  PROVE  \E g \in [SUBSET (1..n) -> A] : LeftRule(g, F, b, n, A)
<1> DEFINE P == [t \in SUBSET (1..n) |-> Max(t)]
<1>1. \A t \in SUBSET (1..n) : P[t] = Max(t) /\ (t # {} => P[t] \in t)
  BY LargestIsThere
<1>2. IsFiniteSet(1..n)
  BY FS_Interval
<1> HIDE DEF P
<1>3. PICK g \in [SUBSET (1..n) -> A] : FoldRule(g, F, b, P, 1..n)
  BY <1>1, <1>2, FoldExists
<1>4. g[{}] = b
  BY <1>3 DEF FoldRule
<1>5. ASSUME NEW t \in SUBSET (1..n), t # {}
      PROVE  /\ Max(t) \in 1..n /\ g[t \ {Max(t)}] \in A
             /\ g[t] = F[<<g[t \ {Max(t)}], Max(t)>>]
  BY <1>1, <1>3, <1>5 DEF FoldRule
<1> QED BY <1>3, <1>4, <1>5 DEF LeftRule

LEMMA MaxUpTo ==
  ASSUME NEW k \in Nat \ {0}
  PROVE  Max(1..k) = k /\ (1..k) \ {k} = 1..(k - 1) /\ 1..k # {}
<1>1. Max(1..k) \in 1..k /\ \A y \in 1..k : Max(1..k) >= y
  <2>1. k \in 1..k /\ \A y \in 1..k : k >= y
    OBVIOUS
  <2> QED BY <2>1 DEF Max
<1> QED BY <1>1

(* What every step of a walk keeps. *)
LEMMA Walk ==
  ASSUME NEW n \in Nat, NEW A, NEW e, e[0] \in A,
         \A k \in 1..n : e[k - 1] \in A => e[k] \in A
  PROVE  \A k \in 0..n : e[k] \in A
<1> DEFINE T == {k \in Nat : k <= n => e[k] \in A}
<1>1. 0 \in T
  OBVIOUS
<1>2. ASSUME NEW k \in T PROVE k + 1 \in T
  <2> SUFFICES ASSUME k + 1 <= n PROVE e[k + 1] \in A
    OBVIOUS
  <2>1. k + 1 \in 1..n /\ (k + 1) - 1 = k /\ e[k] \in A
    OBVIOUS
  <2> QED BY <2>1
<1>3. T = Nat
  <2>1. T \in SUBSET Nat
    OBVIOUS
  <2> HIDE DEF T
  <2> QED BY <1>1, <1>2, <2>1, NatInd
<1> QED BY <1>3

-----------------------------------------------------------------------------
(***************************************************************************)
(* Sums over a finite set.                                                 *)
(***************************************************************************)
Pick(s) == CHOOSE x \in s : TRUE

\* Sum is taken element by element, as MapThenSumSet does.
Adds(g, f, E) ==
  \A s \in SUBSET E : g[s] = IF s = {} THEN 0 ELSE f[Pick(s)] + g[s \ {Pick(s)}]

Sums(g, f, E) == g \in [SUBSET E -> Nat] /\ Adds(g, f, E)

LEMMA PickOne ==
  ASSUME NEW E, IsFiniteSet(E), NEW s \in SUBSET E, s # {}
  PROVE  Pick(s) \in s /\ s \ {Pick(s)} \in SUBSET E
BY DEF Pick

\* What is true of the empty set, and of a set if it is without the picked
\* element, is true of every part of a finite set.
LEMMA PartsInd ==
  ASSUME NEW E, IsFiniteSet(E), NEW Q \in SUBSET SUBSET E, {} \in Q,
         \A s \in SUBSET E : s # {} /\ s \ {Pick(s)} \in Q => s \in Q
  PROVE  Q = SUBSET E
<1> DEFINE T == {n \in Nat : \A s \in SUBSET E : Cardinality(s) = n => s \in Q}
<1>1. 0 \in T
  BY FinitePart
<1>2. ASSUME NEW n \in T PROVE n + 1 \in T
  <2> SUFFICES ASSUME NEW s \in SUBSET E, Cardinality(s) = n + 1 PROVE s \in Q
    OBVIOUS
  <2>1. s # {}
    BY FinitePart
  <2>2. s \ {Pick(s)} \in SUBSET E /\ Cardinality(s \ {Pick(s)}) = n
    BY <2>1, PickOne, FinitePart
  <2>3. s \ {Pick(s)} \in Q
    BY <2>2
  <2> QED BY <2>1, <2>3
<1>3. T = Nat
  <2>1. T \in SUBSET Nat
    OBVIOUS
  <2> HIDE DEF T
  <2> QED BY <1>1, <1>2, <2>1, NatInd
<1>4. ASSUME NEW s \in SUBSET E PROVE s \in Q
  <2>1. Cardinality(s) \in T
    BY <1>3, FinitePart
  <2> QED BY <2>1
<1> QED BY <1>4

LEMMA SumsExist ==
  ASSUME NEW E, IsFiniteSet(E), NEW f, \A x \in E : f[x] \in Nat
  PROVE  \E g : Sums(g, f, E)
<1> DEFINE F == [q \in Nat \X E |-> f[q[2]] + q[1]]
<1> DEFINE P == [s \in SUBSET E |-> Pick(s)]
<1>1. F \in [Nat \X E -> Nat] /\ \A a \in Nat, x \in E : F[<<a, x>>] = f[x] + a
  OBVIOUS
<1>2. \A s \in SUBSET E : P[s] = Pick(s) /\ (s # {} => P[s] \in s)
  BY PickOne
<1> HIDE DEF F, P
<1>3. PICK g \in [SUBSET E -> Nat] : FoldRule(g, F, 0, P, E)
  BY <1>1, <1>2, FoldExists
<1>4. ASSUME NEW s \in SUBSET E, s # {}
      PROVE  g[s] = f[Pick(s)] + g[s \ {Pick(s)}]
  <2>1. Pick(s) \in E /\ g[s \ {Pick(s)}] \in Nat
    BY <1>4, PickOne
  <2> QED BY <1>1, <1>2, <1>3, <1>4, <2>1 DEF FoldRule
<1>5. g[{}] = 0
  BY <1>3 DEF FoldRule
<1> QED BY <1>3, <1>4, <1>5 DEF Sums, Adds

\* Two functions that add in the same way agree.
LEMMA SumsUnique ==
  ASSUME NEW E, IsFiniteSet(E), NEW f, NEW g, NEW h, Adds(g, f, E), Adds(h, f, E),
         NEW s \in SUBSET E
  PROVE  g[s] = h[s]
<1> DEFINE Q == {r \in SUBSET E : g[r] = h[r]}
<1>1. {} \in Q
  BY DEF Adds
<1>2. ASSUME NEW r \in SUBSET E, r # {}, r \ {Pick(r)} \in Q PROVE r \in Q
  BY <1>2 DEF Adds
<1>3. Q \in SUBSET SUBSET E
  OBVIOUS
<1>4. Q = SUBSET E
  <2> HIDE DEF Q
  <2> QED BY <1>1, <1>2, <1>3, PartsInd
<1> QED BY <1>4

Rule(g, f, E) ==
  g = [s \in SUBSET E |->
         IF s = {} THEN 0
         ELSE f[CHOOSE x \in s : TRUE] + g[s \ {CHOOSE x \in s : TRUE}]]

SumOf(f, E) == MapThenSumSet(LAMBDA t : f[t], E)

\* MapThenSumSet is what such a function gives of the whole set.
LEMMA SumIs ==
  ASSUME NEW E, IsFiniteSet(E), NEW f, \A x \in E : f[x] \in Nat,
         NEW F, E \subseteq F, IsFiniteSet(F), NEW g, Sums(g, f, F)
  PROVE  SumOf(f, E) = g[E] /\ SumOf(f, E) \in Nat
<1>1. PICK k : Sums(k, f, E)
  BY SumsExist
<1>2. Rule(k, f, E)
  <2> DEFINE r == [s \in SUBSET E |->
                     IF s = {} THEN 0
                     ELSE f[CHOOSE x \in s : TRUE] + k[s \ {CHOOSE x \in s : TRUE}]]
  <2>1. k \in [SUBSET E -> Nat] /\ \A s \in SUBSET E : k[s] = r[s]
    BY <1>1 DEF Sums, Adds, Pick
  <2>2. k = r
    BY <2>1
  <2> QED BY <2>2 DEF Rule
<1> DEFINE h == CHOOSE i : Rule(i, f, E)
<1>3. Rule(h, f, E)
  <2> HIDE DEF Rule
  <2> QED BY <1>2
<1>4. SumOf(f, E) = h[E]
  BY DEF SumOf, MapThenSumSet, MapThenFoldSet, Rule
<1> HIDE DEF h
<1>5. Adds(h, f, E)
  BY <1>3 DEF Rule, Adds, Pick
<1>6. Adds(k, f, E) /\ Adds(g, f, E) /\ k[E] \in Nat
  BY <1>1 DEF Sums, Adds
<1>7. h[E] = k[E] /\ g[E] = k[E]
  BY <1>5, <1>6, SumsUnique
<1> QED BY <1>4, <1>6, <1>7

\* The order in which elements are picked does not matter.
LEMMA AddsOne ==
  ASSUME NEW E, IsFiniteSet(E), NEW f, \A x \in E : f[x] \in Nat, NEW g, Sums(g, f, E),
         NEW s \in SUBSET E, NEW x \in E, x \notin s
  PROVE  g[s \cup {x}] = g[s] + f[x]
<1> DEFINE P(r) == \A y \in r : g[r] = g[r \ {y}] + f[y]
<1> DEFINE T == {n \in Nat : \A r \in SUBSET E : Cardinality(r) = n => P(r)}
<1>1. 0 \in T
  BY FinitePart
<1>2. ASSUME NEW n \in T PROVE n + 1 \in T
  <2> SUFFICES ASSUME NEW r \in SUBSET E, Cardinality(r) = n + 1, NEW y \in r
               PROVE  g[r] = g[r \ {y}] + f[y]
    OBVIOUS
  <2> DEFINE p == Pick(r)
  <2>1. g[r] = f[p] + g[r \ {p}] /\ p \in r
    BY PickOne DEF Sums, Adds
  <2>2. /\ g[r \ {p}] \in Nat /\ g[r \ {y}] \in Nat /\ f[p] \in Nat /\ f[y] \in Nat
        /\ g[(r \ {p}) \ {y}] \in Nat /\ (r \ {p}) \ {y} = (r \ {y}) \ {p}
    BY <2>1 DEF Sums
  <2>3. Cardinality(r \ {p}) = n /\ Cardinality(r \ {y}) = n
    <3>1. IsFiniteSet(r) /\ n \in Nat
      BY FinitePart
    <3>2. \A z \in r : Cardinality(r \ {z}) = Cardinality(r) - 1
      BY <3>1, FS_RemoveElement
    <3> QED BY <2>1, <3>1, <3>2
  <2>4. P(r \ {p}) /\ P(r \ {y})
    BY <2>3
  <2> HIDE DEF p
  <2>5. CASE y = p
    BY <2>1, <2>2, <2>5
  <2>6. CASE y # p
    <3>1. g[r \ {p}] = g[(r \ {p}) \ {y}] + f[y]
      BY <2>4, <2>6
    <3>2. g[r \ {y}] = g[(r \ {y}) \ {p}] + f[p]
      BY <2>1, <2>4, <2>6
    <3> DEFINE a == g[r \ {p}]
    <3> DEFINE b == g[r \ {y}]
    <3> DEFINE c == g[(r \ {p}) \ {y}]
    <3>3. /\ a \in Nat /\ b \in Nat /\ c \in Nat /\ f[p] \in Nat /\ f[y] \in Nat
          /\ g[r] = f[p] + a /\ a = c + f[y] /\ b = c + f[p]
      BY <2>1, <2>2, <3>1, <3>2
    <3> HIDE DEF a, b, c
    <3>4. g[r] = b + f[y]
      BY <3>3
    <3> QED BY <3>4 DEF b
  <2> QED BY <2>5, <2>6
<1>3. T = Nat
  <2>1. T \in SUBSET Nat
    OBVIOUS
  <2> HIDE DEF T
  <2> QED BY <1>1, <1>2, <2>1, NatInd
<1>4. s \cup {x} \in SUBSET E /\ Cardinality(s \cup {x}) \in T
  BY <1>3, FinitePart
<1>5. P(s \cup {x})
  BY <1>4
<1>6. (s \cup {x}) \ {x} = s
  OBVIOUS
<1> QED BY <1>5, <1>6

LEMMA SumOfNat ==
  ASSUME NEW E, IsFiniteSet(E), NEW f, \A x \in E : f[x] \in Nat
  PROVE  SumOf(f, E) \in Nat
<1>1. PICK g : Sums(g, f, E)
  BY SumsExist
<1> QED BY <1>1, SumIs

LEMMA SumOfOneMore ==
  ASSUME NEW E, IsFiniteSet(E), NEW f, \A y \in E : f[y] \in Nat,
         NEW x, x \notin E, f[x] \in Nat
  PROVE  SumOf(f, E \cup {x}) = SumOf(f, E) + f[x] /\ SumOf(f, E) \in Nat
<1> DEFINE F == E \cup {x}
<1>1. IsFiniteSet(F) /\ \A y \in F : f[y] \in Nat
  BY FS_AddElement
<1>2. PICK g : Sums(g, f, F)
  BY <1>1, SumsExist
<1>3. SumOf(f, F) = g[F] /\ SumOf(f, E) = g[E] /\ SumOf(f, E) \in Nat
  BY <1>1, <1>2, SumIs
<1>4. E \in SUBSET F /\ x \in F /\ F = E \cup {x}
  OBVIOUS
<1> HIDE DEF F
<1>5. g[E \cup {x}] = g[E] + f[x]
  BY <1>1, <1>2, <1>4, AddsOne
<1> QED BY <1>3, <1>4, <1>5

LEMMA SumOfNone ==
  ASSUME NEW f PROVE SumOf(f, {}) = 0
<1>1. IsFiniteSet({})
  BY FS_EmptySet
<1>2. PICK g : Sums(g, f, {})
  BY <1>1, SumsExist
<1>3. SumOf(f, {}) = g[{}]
  BY <1>1, <1>2, SumIs
<1> QED BY <1>2, <1>3 DEF Sums, Adds

-----------------------------------------------------------------------------
(* No element twice. *)
Once(s) == \A a, b \in 1..Len(s) : s[a] = s[b] => a = b

(* Sequences as lists without repetition. *)
LEMMA InToSet ==
  ASSUME NEW S, NEW s \in Seq(S)
  PROVE  /\ \A k \in 1..Len(s) : s[k] \in ToSet(s)
         /\ \A x \in ToSet(s) : x \in S /\ \E k \in 1..Len(s) : s[k] = x
BY DEF ToSet

LEMMA UnlinkOne ==
  ASSUME NEW S, NEW s \in Seq(S), Once(s), NEW e \in ToSet(s)
  PROVE  /\ RemoveFirst(s, e) \in Seq(S) /\ Len(RemoveFirst(s, e)) = Len(s) - 1
         /\ Len(s) # 0
         /\ Once(RemoveFirst(s, e)) /\ ToSet(RemoveFirst(s, e)) = ToSet(s) \ {e}
<1> DEFINE n == Len(s)
<1>1. PICK p \in 1..n : s[p] = e
  BY DEF ToSet
<1>2. \A a \in 1..n : s[a] = e <=> a = p
  BY <1>1 DEF Once
<1>3. {a \in 1..n : s[a] = e} = {p}
  BY <1>1, <1>2
<1>4. Max({p}) = p /\ Min({p}) = p
  BY <1>1 DEF Max, Min
<1>5. RemoveFirst(s, e) = SubSeq(s, 1, p - 1) \o SubSeq(s, p + 1, n)
  BY <1>1, <1>3, <1>4 DEF RemoveFirst, SelectInSeq, RemoveAt
<1> DEFINE r == SubSeq(s, 1, p - 1) \o SubSeq(s, p + 1, n)
<1>6. n \in Nat /\ n # 0 /\ p \in Nat /\ p # 0 /\ p <= n
  BY <1>1
<1> DEFINE u == SubSeq(s, 1, p - 1)
<1> DEFINE v == SubSeq(s, p + 1, n)
<1>7. /\ u \in Seq(S) /\ Len(u) = p - 1 /\ \A k \in 1..(p - 1) : u[k] = s[k]
      /\ v \in Seq(S) /\ Len(v) = n - p /\ \A k \in 1..(n - p) : v[k] = s[k + p]
  BY <1>6
<1>8. /\ r \in Seq(S) /\ Len(r) = n - 1
      /\ \A k \in 1..(n - 1) : r[k] = IF k < p THEN s[k] ELSE s[k + 1]
  <2> HIDE DEF n, u, v
  <2>1. r \in Seq(S) /\ Len(r) = n - 1
    BY <1>6, <1>7 DEF u, v
  <2>2. ASSUME NEW k \in 1..(n - 1) PROVE r[k] = IF k < p THEN s[k] ELSE s[k + 1]
    <3>1. r = u \o v
      BY DEF u, v
    <3>2. CASE k < p
      <4>1. r[k] = u[k] /\ k \in 1..(p - 1)
        BY <1>6, <1>7, <3>1, <3>2
      <4> QED BY <1>7, <3>2, <4>1
    <3>3. CASE ~(k < p)
      <4>1. PICK j \in 1..(n - p) : j = k - (p - 1)
        BY <1>6, <3>3
      <4>2. j + p = k + 1 /\ k = Len(u) + j /\ j \in Nat /\ j # 0 /\ Len(v) = n - p
        BY <1>6, <1>7, <4>1
      <4> HIDE DEF r
      <4>3. r[k] = v[j]
        BY <1>7, <3>1, <4>1, <4>2
      <4> QED BY <1>7, <3>3, <4>1, <4>2, <4>3
    <3> QED BY <3>2, <3>3
  <2> QED BY <2>1, <2>2
<1> HIDE DEF r
<1>9. Once(r)
  <2> SUFFICES ASSUME NEW a \in 1..(n - 1), NEW b \in 1..(n - 1), r[a] = r[b] PROVE a = b
    BY <1>8 DEF Once
  <2> DEFINE f(k) == IF k < p THEN k ELSE k + 1
  <2>1. r[a] = s[f(a)] /\ r[b] = s[f(b)] /\ f(a) \in 1..n /\ f(b) \in 1..n
    BY <1>6, <1>8
  <2>2. f(a) = f(b)
    <3> DEFINE x == f(a)
    <3> DEFINE y == f(b)
    <3>1. s[x] = s[y] /\ x \in 1..n /\ y \in 1..n
      BY <2>1
    <3> HIDE DEF x, y
    <3>2. x = y
      BY <3>1 DEF Once
    <3> QED BY <3>2 DEF x, y
  <2> QED BY <1>6, <2>2
<1>10. ToSet(r) = ToSet(s) \ {e}
  <2>1. ASSUME NEW x \in ToSet(r) PROVE x \in ToSet(s) \ {e}
    <3>1. PICK k \in 1..(n - 1) : r[k] = x
      BY <1>8, InToSet
    <3>2. CASE k < p
      <4>1. x = s[k] /\ k \in 1..n /\ k # p
        BY <1>6, <1>8, <3>1, <3>2
      <4> QED BY <1>2, <4>1, InToSet
    <3>3. CASE ~(k < p)
      <4>1. x = s[k + 1] /\ k + 1 \in 1..n /\ k + 1 # p
        BY <1>6, <1>8, <3>1, <3>3
      <4> QED BY <1>2, <4>1, InToSet
    <3> QED BY <3>2, <3>3
  <2>2. ASSUME NEW x \in ToSet(s) \ {e} PROVE x \in ToSet(r)
    <3>1. PICK k \in 1..n : s[k] = x
      BY DEF ToSet
    <3>2. k # p
      BY <1>1, <3>1
    <3>3. CASE k < p
      <4>1. k \in 1..(n - 1) /\ r[k] = x
        BY <1>6, <1>8, <3>1, <3>3
      <4> QED BY <1>8, <4>1, InToSet
    <3>4. CASE k > p
      <4>1. k - 1 \in 1..(n - 1) /\ r[k - 1] = x
        BY <1>6, <1>8, <3>1, <3>4
      <4> QED BY <1>8, <4>1, InToSet
    <3> QED BY <1>6, <3>2, <3>3, <3>4
  <2> QED BY <2>1, <2>2
<1> QED BY <1>5, <1>6, <1>8, <1>9, <1>10 DEF r

LEMMA LinkOne ==
  ASSUME NEW S, NEW s \in Seq(S), Once(s), NEW e \in S, e \notin ToSet(s)
  PROVE  /\ <<e>> \o s \in Seq(S) /\ Len(<<e>> \o s) = Len(s) + 1
         /\ Once(<<e>> \o s) /\ ToSet(<<e>> \o s) = ToSet(s) \cup {e}
<1> DEFINE r == <<e>> \o s
<1> DEFINE n == Len(s)
<1>1. /\ r \in Seq(S) /\ Len(r) = n + 1 /\ n \in Nat
      /\ \A k \in 1..(n + 1) : r[k] = IF k = 1 THEN e ELSE s[k - 1]
  OBVIOUS
<1> HIDE DEF r
<1>2. \A k \in 1..n : s[k] # e
  BY DEF ToSet
<1>3. Once(r)
  <2> SUFFICES ASSUME NEW a \in 1..(n + 1), NEW b \in 1..(n + 1), r[a] = r[b] PROVE a = b
    BY <1>1 DEF Once
  <2>1. \A k \in 1..(n + 1) : k # 1 => k - 1 \in 1..n
    BY <1>1
  <2>2. CASE a = 1 \/ b = 1
    BY <1>1, <1>2, <2>1, <2>2
  <2>3. CASE a # 1 /\ b # 1
    <3>1. a - 1 = b - 1
      BY <1>1, <2>1, <2>3 DEF Once
    <3> QED BY <3>1
  <2> QED BY <2>2, <2>3
<1>4. ToSet(r) = ToSet(s) \cup {e}
  <2>1. \A k \in 1..(n + 1) : r[k] \in ToSet(s) \cup {e}
    <3>1. ASSUME NEW k \in 1..(n + 1), k # 1 PROVE r[k] \in ToSet(s)
      <4>1. k - 1 \in 1..n
        BY <1>1, <3>1
      <4> QED BY <1>1, <3>1, <4>1 DEF ToSet
    <3> QED BY <1>1, <3>1
  <2>2. \A k \in 1..n : s[k] \in ToSet(r)
    <3> SUFFICES ASSUME NEW k \in 1..n PROVE s[k] \in ToSet(r)
      OBVIOUS
    <3>1. k + 1 \in 1..(n + 1) /\ r[k + 1] = s[k]
      BY <1>1
    <3> QED BY <1>1, <3>1, InToSet
  <2>3. e \in ToSet(r)
    <3>1. 1 \in 1..(n + 1) /\ r[1] = e
      BY <1>1
    <3> QED BY <1>1, <3>1, InToSet
  <2>4. ToSet(r) \subseteq ToSet(s) \cup {e}
    BY <1>1, <2>1, InToSet
  <2>5. ToSet(s) \subseteq ToSet(r)
    BY <2>2, InToSet
  <2> QED BY <2>3, <2>4, <2>5
<1> QED BY <1>1, <1>3, <1>4 DEF r

LEMMA LenOfOnce ==
  ASSUME NEW S, NEW s \in Seq(S), Once(s)
  PROVE  Len(s) = Cardinality(ToSet(s))
<1>1. s \in Bijection(1..Len(s), ToSet(s))
  BY DEF Once, ToSet, Bijection, Injection, Surjection, IsInjective
<1>2. Cardinality(ToSet(s)) = Len(s)
  BY <1>1, FS_CountingElements DEF ExistsBijection
<1> QED BY <1>2

-----------------------------------------------------------------------------
(***************************************************************************)
(* The memory.                                                             *)
(***************************************************************************)
MemType == [lru : Seq(Ids), text : [Ids -> Texts \cup {None}],
            refs : [Texts -> Nat], bytes : Nat]

UsesOf(text, d) == {i \in Ids : text[i] = d}
Blocked(text) == {d \in Texts : UsesOf(text, d) # {}}

(* The list, the texts and the counters agree. *)
Mems ==
  {m \in MemType :
     /\ Once(m.lru) /\ ToSet(m.lru) = Held(m)
     /\ \A d \in Texts : m.refs[d] = Cardinality(UsesOf(m.text, d))
     /\ m.bytes = EntryBytes * Len(m.lru) + SumOf(Size, Blocked(m.text))}

LEMMA IdsFinite ==
  /\ IsFiniteSet(Ids) /\ MaxIds \in Nat /\ EntryBytes \in Nat
  /\ MaxEntries \in Nat /\ MaxBytes \in Nat /\ MaxCalls \in Nat
BY LimitsAreNat, SizesAreNat, FS_Interval DEF Ids

LEMMA UsesFinite ==
  ASSUME NEW text, NEW d
  PROVE  IsFiniteSet(UsesOf(text, d)) /\ Cardinality(UsesOf(text, d)) \in Nat
         /\ (Cardinality(UsesOf(text, d)) = 0 <=> UsesOf(text, d) = {})
BY IdsFinite, FinitePart DEF UsesOf

LEMMA BlockedFinite ==
  ASSUME NEW text \in [Ids -> Texts \cup {None}]
  PROVE  IsFiniteSet(Blocked(text)) /\ \A d \in Blocked(text) : Size[d] \in Nat
<1>1. IsFiniteSet({text[i] : i \in Ids})
  <2>1. text \in Surjection(Ids, {text[i] : i \in Ids})
    BY DEF Surjection
  <2> QED BY <2>1, IdsFinite, FS_Surjection
<1>2. Blocked(text) \subseteq {text[i] : i \in Ids}
  BY DEF Blocked, UsesOf
<1>3. \A d \in Blocked(text) : Size[d] \in Nat
  BY SizesAreNat DEF Blocked
<1> QED BY <1>1, <1>2, <1>3, FS_Subset

LEMMA TimesLess ==
  ASSUME NEW a \in Nat, NEW n \in Nat
  PROVE  /\ a * n \in Nat /\ a * (n + 1) = a * n + a
         /\ n # 0 => a * (n - 1) = a * n - a /\ a <= a * n
<1>1. a * n \in Nat /\ a * (n + 1) = a * n + a
  OBVIOUS
<1>2. ASSUME n # 0 PROVE a * (n - 1) = a * n - a /\ a <= a * n
  <2>1. n - 1 \in Nat
    BY <1>2
  <2>2. a * n = a * (n - 1) + a /\ a * (n - 1) \in Nat
    BY <2>1
  <2> DEFINE x == a * (n - 1)
  <2> DEFINE y == a * n
  <2>3. y = x + a /\ x \in Nat
    BY <2>2
  <2> HIDE DEF x, y
  <2>4. x = y - a /\ a <= y
    BY <2>3
  <2> QED BY <2>4 DEF x, y
<1> QED BY <1>1, <1>2

LEMMA EmptyMem == Forgotten \in Mems
<1> DEFINE m == Forgotten
<1>1. m \in MemType /\ m.lru = <<>> /\ m.bytes = 0
      /\ m.text = [i \in Ids |-> None] /\ m.refs = [d \in Texts |-> 0]
  BY DEF Forgotten, MemType
<1>2. Once(m.lru) /\ ToSet(m.lru) = {} /\ Held(m) = {}
  BY <1>1 DEF Once, ToSet, Held
<1>3. \A d \in Texts : UsesOf(m.text, d) = {}
  BY <1>1, TextsAreApart DEF UsesOf
<1>4. Blocked(m.text) = {} /\ SumOf(Size, Blocked(m.text)) = 0
  BY <1>3, SumOfNone DEF Blocked
<1>5. \A d \in Texts : Cardinality(UsesOf(m.text, d)) = 0 /\ m.refs[d] = 0
  BY <1>1, <1>3, FS_EmptySet
<1>6. EntryBytes * Len(m.lru) = 0
  BY <1>1, IdsFinite
<1> HIDE DEF m
<1>7. m.bytes = EntryBytes * Len(m.lru) + SumOf(Size, Blocked(m.text))
  BY <1>1, <1>4, <1>6
<1>8. m \in Mems
  BY <1>1, <1>2, <1>5, <1>7 DEF Mems
<1> QED BY <1>8 DEF m

LEMMA TouchKeeps ==
  ASSUME NEW m \in Mems, NEW i \in Held(m)
  PROVE  /\ Touch(m, i) \in Mems /\ Touch(m, i).text = m.text
         /\ Touch(m, i).bytes = m.bytes /\ Len(Touch(m, i).lru) = Len(m.lru)
<1> DEFINE r == RemoveFirst(m.lru, i)
<1> DEFINE s == <<i>> \o r
<1>1. /\ m \in MemType /\ m.lru \in Seq(Ids) /\ Once(m.lru) /\ i \in ToSet(m.lru)
      /\ i \in Ids /\ ToSet(m.lru) = Held(m)
  BY DEF Mems, MemType, Held
<1>2. /\ r \in Seq(Ids) /\ Len(r) = Len(m.lru) - 1 /\ Once(r)
      /\ ToSet(r) = ToSet(m.lru) \ {i}
  BY <1>1, UnlinkOne
<1>3. s \in Seq(Ids) /\ Len(s) = Len(r) + 1 /\ Once(s) /\ ToSet(s) = ToSet(m.lru)
  <2> HIDE DEF r
  <2>1. ToSet(s) = ToSet(r) \cup {i} /\ s \in Seq(Ids) /\ Len(s) = Len(r) + 1 /\ Once(s)
    BY <1>1, <1>2, LinkOne
  <2> QED BY <1>1, <1>2, <2>1
<1>4. Len(s) = Len(m.lru)
  BY <1>1, <1>2, <1>3
<1>5. Touch(m, i) = [m EXCEPT !.lru = s]
  BY DEF Touch
<1> HIDE DEF s, r
<1> DEFINE t == Touch(m, i)
<1>6. t \in MemType /\ t.lru = s /\ t.text = m.text /\ t.refs = m.refs /\ t.bytes = m.bytes
  BY <1>1, <1>3, <1>5 DEF MemType
<1> HIDE DEF t
<1>7. t \in Mems
  BY <1>1, <1>3, <1>4, <1>6 DEF Mems, Held
<1> QED BY <1>4, <1>6, <1>7 DEF t

(* An entry leaves with its bytes, and a block with its last entry. *)
LEMMA RemoveKeeps ==
  ASSUME NEW m \in Mems, NEW i \in Held(m)
  PROVE  /\ RemoveEntry(m, i) \in Mems
         /\ RemoveEntry(m, i).text = [m.text EXCEPT ![i] = None]
         /\ Len(RemoveEntry(m, i).lru) = Len(m.lru) - 1
<1> DEFINE d == m.text[i]
<1> DEFINE r == RemoveEntry(m, i)
<1> DEFINE n == Len(m.lru)
<1> DEFINE q == RemoveFirst(m.lru, i)
<1>1. /\ m \in MemType /\ m.lru \in Seq(Ids) /\ Once(m.lru) /\ i \in ToSet(m.lru)
      /\ i \in Ids /\ ToSet(m.lru) = Held(m) /\ d \in Texts /\ d # None
      /\ m.text \in [Ids -> Texts \cup {None}] /\ m.refs \in [Texts -> Nat] /\ m.bytes \in Nat
      /\ m.refs[d] = Cardinality(UsesOf(m.text, d))
      /\ m.bytes = EntryBytes * n + SumOf(Size, Blocked(m.text))
  BY DEF Mems, MemType, Held
<1>2. /\ q \in Seq(Ids) /\ Len(q) = n - 1 /\ Once(q) /\ n # 0 /\ n \in Nat
      /\ ToSet(q) = ToSet(m.lru) \ {i}
  BY <1>1, UnlinkOne
<1> HIDE DEF q
<1>3. /\ r.lru = q /\ r.text = [m.text EXCEPT ![i] = None]
      /\ r.refs = [m.refs EXCEPT ![d] = @ - 1]
      /\ r.bytes = IF m.refs[d] > 1 THEN Less(m.bytes, EntryBytes)
                   ELSE Less(Less(m.bytes, EntryBytes), Size[d])
      /\ r = [lru |-> r.lru, text |-> r.text, refs |-> r.refs, bytes |-> r.bytes]
  <2> DEFINE o == [m EXCEPT !.lru = RemoveFirst(@, i), !.text[i] = None,
                            !.bytes = Less(@, EntryBytes)]
  <2>1. /\ o.lru = q /\ o.text = [m.text EXCEPT ![i] = None] /\ o.refs = m.refs
        /\ o.bytes = Less(m.bytes, EntryBytes)
        /\ o = [lru |-> o.lru, text |-> o.text, refs |-> o.refs, bytes |-> o.bytes]
    <3> DEFINE o1 == [m EXCEPT !.lru = RemoveFirst(@, i)]
    <3> DEFINE o2 == [o1 EXCEPT !.text[i] = None]
    <3> DEFINE o3 == [o2 EXCEPT !.bytes = Less(@, EntryBytes)]
    <3>1. /\ o1.lru = q /\ o1.text = m.text /\ o1.refs = m.refs /\ o1.bytes = m.bytes
          /\ o1 = [lru |-> o1.lru, text |-> o1.text, refs |-> o1.refs, bytes |-> o1.bytes]
      <4>1. m = [lru |-> m.lru, text |-> m.text, refs |-> m.refs, bytes |-> m.bytes]
        BY DEF Mems, MemType
      <4> QED BY <4>1 DEF q
    <3> HIDE DEF o1
    <3>2. /\ o2.lru = q /\ o2.text = [m.text EXCEPT ![i] = None] /\ o2.refs = m.refs
          /\ o2.bytes = m.bytes
          /\ o2 = [lru |-> o2.lru, text |-> o2.text, refs |-> o2.refs, bytes |-> o2.bytes]
      BY <3>1
    <3> HIDE DEF o2
    <3>3. /\ o3.lru = q /\ o3.text = [m.text EXCEPT ![i] = None] /\ o3.refs = m.refs
          /\ o3.bytes = Less(m.bytes, EntryBytes)
          /\ o3 = [lru |-> o3.lru, text |-> o3.text, refs |-> o3.refs, bytes |-> o3.bytes]
      BY <3>2
    <3>4. o = o3
      BY DEF o2, o1
    <3> QED BY <3>3, <3>4
  <2>2. r = ReleaseBlock(o, d)
    BY DEF RemoveEntry
  <2> HIDE DEF o, r, d
  <2> DEFINE v == [m.refs EXCEPT ![d] = @ - 1]
  <2> DEFINE b == IF m.refs[d] > 1 THEN Less(m.bytes, EntryBytes)
                  ELSE Less(Less(m.bytes, EntryBytes), Size[d])
  <2>3. r = [o EXCEPT !.refs = v, !.bytes = b]
    BY <2>1, <2>2 DEF ReleaseBlock
  <2> HIDE DEF v, b
  <2>4. r = [lru |-> o.lru, text |-> o.text, refs |-> v, bytes |-> b]
    BY <2>1, <2>3
  <2>5. r.lru = o.lru /\ r.text = o.text /\ r.refs = v /\ r.bytes = b
        /\ r = [lru |-> r.lru, text |-> r.text, refs |-> r.refs, bytes |-> r.bytes]
    BY <2>4
  <2> QED BY <2>1, <2>5 DEF v, b
<1> HIDE DEF r, d, n
<1>4. r.text[i] = None /\ \A j \in Ids : j # i => r.text[j] = m.text[j]
  BY <1>1, <1>3
<1>5. Held(r) = Held(m) \ {i}
  BY <1>1, <1>4 DEF Held
<1>6. UsesOf(r.text, d) = UsesOf(m.text, d) \ {i} /\ i \in UsesOf(m.text, d)
  BY <1>1, <1>4, TextsAreApart DEF UsesOf, d
<1>7. \A e \in Texts : e # d => UsesOf(r.text, e) = UsesOf(m.text, e)
  BY <1>1, <1>4, TextsAreApart DEF UsesOf, d
<1>8. Cardinality(UsesOf(r.text, d)) = m.refs[d] - 1 /\ m.refs[d] # 0 /\ m.refs[d] \in Nat
  <2> DEFINE U == UsesOf(m.text, d)
  <2>1. IsFiniteSet(U) /\ Cardinality(U) \in Nat /\ (Cardinality(U) = 0 <=> U = {})
    BY UsesFinite
  <2>2. Cardinality(U \ {i}) = Cardinality(U) - 1
    BY <1>6, <2>1, FS_RemoveElement
  <2> HIDE DEF U
  <2>3. Cardinality(U) # 0
    BY <1>6, <2>1 DEF U
  <2>4. UsesOf(r.text, d) = U \ {i} /\ m.refs[d] = Cardinality(U)
    BY <1>1, <1>6 DEF U
  <2> QED BY <2>1, <2>2, <2>3, <2>4
<1>9. \A e \in Texts : r.refs[e] = Cardinality(UsesOf(r.text, e)) /\ r.refs[e] \in Nat
  <2> SUFFICES ASSUME NEW e \in Texts
               PROVE r.refs[e] = Cardinality(UsesOf(r.text, e)) /\ r.refs[e] \in Nat
    OBVIOUS
  <2>1. CASE e = d
    BY <1>1, <1>3, <1>8, <2>1
  <2>2. CASE e # d
    <3>1. r.refs[e] = m.refs[e] /\ m.refs[e] \in Nat
      BY <1>1, <1>3, <2>2
    <3>2. m.refs[e] = Cardinality(UsesOf(m.text, e))
      BY DEF Mems
    <3> QED BY <1>7, <2>2, <3>1, <3>2
  <2> QED BY <2>1, <2>2
<1>10. r.text \in [Ids -> Texts \cup {None}] /\ r.refs \in [Texts -> Nat]
  <2>1. r.text \in [Ids -> Texts \cup {None}]
    BY <1>1, <1>3
  <2>2. DOMAIN r.refs = Texts /\ r.refs = [e \in Texts |-> r.refs[e]]
    BY <1>1, <1>3
  <2> QED BY <1>9, <2>1, <2>2
<1> DEFINE S == SumOf(Size, Blocked(m.text))
<1>11. S \in Nat /\ EntryBytes * n \in Nat /\ EntryBytes <= EntryBytes * n
       /\ EntryBytes * (n - 1) = EntryBytes * n - EntryBytes /\ Size[d] \in Nat
  <2>1. S \in Nat
    <3>1. IsFiniteSet(Blocked(m.text)) /\ \A e \in Blocked(m.text) : Size[e] \in Nat
      BY <1>1, BlockedFinite
    <3> QED BY <3>1, SumOfNat
  <2> QED BY <1>1, <1>2, <2>1, TimesLess, IdsFinite, SizesAreNat
<1>12. r.bytes = EntryBytes * (n - 1) + SumOf(Size, Blocked(r.text)) /\ r.bytes \in Nat
  <2>1. \A e \in Texts : e # d => (e \in Blocked(r.text) <=> e \in Blocked(m.text))
    BY <1>7 DEF Blocked
  <2>2. d \in Blocked(m.text) /\ (d \in Blocked(r.text) <=> m.refs[d] # 1)
    <3>1. UsesOf(r.text, d) = {} <=> m.refs[d] = 1
      BY <1>8, UsesFinite
    <3>2. UsesOf(m.text, d) # {} /\ d \in Texts
      BY <1>1, <1>6
    <3> QED BY <3>1, <3>2 DEF Blocked
  <2> DEFINE x == EntryBytes * n
  <2> DEFINE y == EntryBytes * (n - 1)
  <2>3. CASE m.refs[d] > 1
    <3>1. Blocked(r.text) = Blocked(m.text)
      BY <1>8, <2>1, <2>2, <2>3 DEF Blocked
    <3>2. r.bytes = Less(x + S, EntryBytes) /\ x \in Nat /\ S \in Nat /\ EntryBytes <= x /\ EntryBytes \in Nat
          /\ y = x - EntryBytes
      BY <1>1, <1>3, <1>11, <2>3, IdsFinite
    <3> HIDE DEF x, y, S
    <3>3. r.bytes = y + S /\ y + S \in Nat
      BY <3>2 DEF Less
    <3> QED BY <3>1, <3>3 DEF y, S
  <2>4. CASE ~(m.refs[d] > 1)
    <3>1. Blocked(r.text) = Blocked(m.text) \ {d} /\ m.refs[d] = 1
      BY <1>8, <2>1, <2>2, <2>4 DEF Blocked
    <3> DEFINE E == Blocked(m.text) \ {d}
    <3> DEFINE R == SumOf(Size, E)
    <3>2. S = R + Size[d] /\ R \in Nat
      <4>1. IsFiniteSet(E) /\ \A e \in E : Size[e] \in Nat
        BY <1>1, BlockedFinite, FS_RemoveElement
      <4>2. Blocked(m.text) = E \cup {d} /\ d \notin E
        BY <2>2
      <4> HIDE DEF E
      <4> QED BY <1>11, <4>1, <4>2, SumOfOneMore
    <3>3. r.bytes = Less(Less(x + S, EntryBytes), Size[d]) /\ x \in Nat /\ EntryBytes <= x
          /\ y = x - EntryBytes /\ Size[d] \in Nat /\ EntryBytes \in Nat
      BY <1>1, <1>3, <1>11, <2>4, IdsFinite
    <3> HIDE DEF x, y, S, R
    <3>4. r.bytes = y + R /\ y + R \in Nat
      BY <3>2, <3>3 DEF Less
    <3> QED BY <3>1, <3>4 DEF y, R
  <2> QED BY <2>3, <2>4
<1>13. r \in MemType
  BY <1>2, <1>3, <1>10, <1>12 DEF MemType
<1>14. r \in Mems
  <2>1. Once(r.lru) /\ ToSet(r.lru) = Held(r) /\ Len(r.lru) = n - 1
    BY <1>1, <1>2, <1>3, <1>5
  <2> QED BY <1>9, <1>12, <1>13, <2>1 DEF Mems
<1> QED BY <1>2, <1>3, <1>14 DEF r, n

(* A new entry adds its bytes, and those of its block when it is the first. *)
LEMMA InsertKeeps ==
  ASSUME NEW m \in Mems, NEW i \in Ids, m.text[i] = None, NEW d \in Texts
  PROVE  Insert(m, i, d) \in Mems /\ Insert(m, i, d).text = [m.text EXCEPT ![i] = d]
<1> DEFINE r == Insert(m, i, d)
<1> DEFINE n == Len(m.lru)
<1> DEFINE q == <<i>> \o m.lru
<1>1. /\ m \in MemType /\ m.lru \in Seq(Ids) /\ Once(m.lru) /\ i \notin ToSet(m.lru)
      /\ ToSet(m.lru) = Held(m) /\ n \in Nat
      /\ m.text \in [Ids -> Texts \cup {None}] /\ m.refs \in [Texts -> Nat] /\ m.bytes \in Nat
      /\ m.refs[d] = Cardinality(UsesOf(m.text, d)) /\ m.refs[d] \in Nat
      /\ m.bytes = EntryBytes * n + SumOf(Size, Blocked(m.text))
  BY DEF Mems, MemType, Held
<1>2. /\ q \in Seq(Ids) /\ Len(q) = n + 1 /\ Once(q) /\ ToSet(q) = ToSet(m.lru) \cup {i}
  BY <1>1, LinkOne
<1> DEFINE x == [m.text EXCEPT ![i] = d]
<1> DEFINE v == [m.refs EXCEPT ![d] = @ + 1]
<1> DEFINE b == m.bytes + EntryBytes + (IF m.refs[d] = 0 THEN Size[d] ELSE 0)
<1>3. r.lru = q /\ r.text = x /\ r.refs = v /\ r.bytes = b
      /\ r = [lru |-> r.lru, text |-> r.text, refs |-> r.refs, bytes |-> r.bytes]
  <2>1. m = [lru |-> m.lru, text |-> m.text, refs |-> m.refs, bytes |-> m.bytes]
    BY DEF Mems, MemType
  <2>2. r = [m EXCEPT !.lru = q, !.text = x, !.refs = v, !.bytes = b]
    BY DEF Insert, LinkHead
  <2> HIDE DEF r, q, x, v, b
  <2>3. r = [lru |-> q, text |-> x, refs |-> v, bytes |-> b]
    BY <2>1, <2>2
  <2> QED BY <2>3
<1> HIDE DEF q, r, n
<1>4. r.text[i] = d /\ d # None /\ \A j \in Ids : j # i => r.text[j] = m.text[j]
  BY <1>1, <1>3, TextsAreApart
<1>5. Held(r) = Held(m) \cup {i}
  BY <1>4 DEF Held
<1>6. /\ UsesOf(r.text, d) = UsesOf(m.text, d) \cup {i} /\ i \notin UsesOf(m.text, d)
      /\ \A e \in Texts : e # d => UsesOf(r.text, e) = UsesOf(m.text, e)
  BY <1>4, TextsAreApart DEF UsesOf
<1>7. Cardinality(UsesOf(r.text, d)) = m.refs[d] + 1
  <2>1. IsFiniteSet(UsesOf(m.text, d)) /\ Cardinality(UsesOf(m.text, d)) \in Nat
    BY UsesFinite
  <2> QED BY <1>1, <1>6, <2>1, FS_AddElement
<1>8. \A e \in Texts : r.refs[e] = Cardinality(UsesOf(r.text, e)) /\ r.refs[e] \in Nat
  <2> SUFFICES ASSUME NEW e \in Texts
               PROVE r.refs[e] = Cardinality(UsesOf(r.text, e)) /\ r.refs[e] \in Nat
    OBVIOUS
  <2>1. CASE e = d
    BY <1>1, <1>3, <1>7, <2>1
  <2>2. CASE e # d
    <3>1. r.refs[e] = m.refs[e] /\ m.refs[e] \in Nat
      BY <1>1, <1>3, <2>2
    <3>2. m.refs[e] = Cardinality(UsesOf(m.text, e))
      BY DEF Mems
    <3> QED BY <1>6, <2>2, <3>1, <3>2
  <2> QED BY <2>1, <2>2
<1>9. r.text \in [Ids -> Texts \cup {None}] /\ r.refs \in [Texts -> Nat]
  <2>1. r.text \in [Ids -> Texts \cup {None}]
    BY <1>1, <1>3
  <2>2. DOMAIN r.refs = Texts /\ r.refs = [e \in Texts |-> r.refs[e]]
    BY <1>1, <1>3
  <2> QED BY <1>8, <2>1, <2>2
<1> DEFINE S == SumOf(Size, Blocked(m.text))
<1>10. S \in Nat /\ IsFiniteSet(Blocked(m.text)) /\ \A e \in Blocked(m.text) : Size[e] \in Nat
  <2>1. IsFiniteSet(Blocked(m.text)) /\ \A e \in Blocked(m.text) : Size[e] \in Nat
    BY <1>1, BlockedFinite
  <2> QED BY <2>1, SumOfNat
<1>11. Blocked(r.text) = Blocked(m.text) \cup {d} /\ (d \in Blocked(m.text) <=> m.refs[d] # 0)
  <2>1. UsesOf(m.text, d) = {} <=> m.refs[d] = 0
    BY <1>1, UsesFinite
  <2> QED BY <1>6, <2>1 DEF Blocked
<1>12. SumOf(Size, Blocked(r.text)) = S + (IF m.refs[d] = 0 THEN Size[d] ELSE 0)
       /\ Size[d] \in Nat
  <2>1. Size[d] \in Nat
    BY SizesAreNat
  <2>2. CASE m.refs[d] = 0
    <3>1. d \notin Blocked(m.text)
      BY <1>11, <2>2
    <3>2. SumOf(Size, Blocked(m.text) \cup {d}) = SumOf(Size, Blocked(m.text)) + Size[d]
      BY <1>10, <2>1, <3>1, SumOfOneMore
    <3> QED BY <1>11, <2>1, <2>2, <3>2
  <2>3. CASE m.refs[d] # 0
    <3>1. Blocked(r.text) = Blocked(m.text)
      BY <1>11, <2>3
    <3> QED BY <1>10, <2>1, <2>3, <3>1
  <2> QED BY <2>2, <2>3
<1>13. r.bytes = EntryBytes * (n + 1) + SumOf(Size, Blocked(r.text)) /\ r.bytes \in Nat
  <2> DEFINE y == EntryBytes * (n + 1)
  <2> DEFINE z == EntryBytes * n
  <2> DEFINE w == IF m.refs[d] = 0 THEN Size[d] ELSE 0
  <2>1. y = z + EntryBytes /\ z \in Nat /\ EntryBytes \in Nat
    BY <1>1, TimesLess, IdsFinite
  <2>2. w \in Nat /\ S \in Nat /\ m.bytes = z + S /\ r.bytes = m.bytes + EntryBytes + w
        /\ SumOf(Size, Blocked(r.text)) = S + w
    BY <1>1, <1>3, <1>10, <1>12
  <2> HIDE DEF y, z, w, S
  <2>3. r.bytes = y + (S + w) /\ r.bytes \in Nat
    BY <2>1, <2>2
  <2> QED BY <2>2, <2>3 DEF y
<1>14. r \in MemType
  BY <1>2, <1>3, <1>9, <1>13 DEF MemType
<1>15. r \in Mems
  <2>1. Once(r.lru) /\ ToSet(r.lru) = Held(r) /\ Len(r.lru) = n + 1
    BY <1>1, <1>2, <1>3, <1>5
  <2> QED BY <1>8, <1>13, <1>14, <2>1 DEF Mems
<1> QED BY <1>3, <1>15 DEF r

LEMMA DropKeeps ==
  ASSUME NEW m \in Mems
  PROVE  /\ DropTail(m) \in Mems
         /\ \A j \in Ids : DropTail(m).text[j] \in {m.text[j], None}
         /\ OverLimit(m) => Len(m.lru) # 0 /\ Len(DropTail(m).lru) = Len(m.lru) - 1
         /\ ~OverLimit(m) => DropTail(m) = m
         /\ Len(m.lru) \in Nat
<1>1. m \in MemType /\ m.lru \in Seq(Ids) /\ ToSet(m.lru) = Held(m) /\ m.bytes \in Nat
      /\ m.text \in [Ids -> Texts \cup {None}]
      /\ m.bytes = EntryBytes * Len(m.lru) + SumOf(Size, Blocked(m.text))
  BY DEF Mems, MemType
<1>2. ASSUME OverLimit(m) PROVE Len(m.lru) # 0
  <2> SUFFICES ASSUME Len(m.lru) = 0 PROVE FALSE
    OBVIOUS
  <2>1. Held(m) = {}
    BY <1>1 DEF ToSet
  <2>2. Blocked(m.text) = {}
    BY <2>1, TextsAreApart DEF Held, Blocked, UsesOf
  <2>3. m.bytes = 0
    BY <1>1, <2>2, SumOfNone, IdsFinite
  <2> QED BY <1>2, <2>3, IdsFinite DEF OverLimit
<1>3. CASE OverLimit(m)
  <2> DEFINE t == Last(m.lru)
  <2>1. t \in Held(m)
    BY <1>1, <1>2, <1>3 DEF Last, ToSet
  <2>2. DropTail(m) = RemoveEntry(m, t)
    BY <1>3 DEF DropTail
  <2> HIDE DEF t
  <2>3. /\ RemoveEntry(m, t) \in Mems /\ RemoveEntry(m, t).text = [m.text EXCEPT ![t] = None]
        /\ Len(RemoveEntry(m, t).lru) = Len(m.lru) - 1
    BY <2>1, RemoveKeeps
  <2>4. \A j \in Ids : [m.text EXCEPT ![t] = None][j] \in {m.text[j], None}
    BY <1>1
  <2> QED BY <1>1, <1>2, <1>3, <2>2, <2>3, <2>4
<1>4. CASE ~OverLimit(m)
  BY <1>1, <1>4 DEF DropTail
<1> QED BY <1>3, <1>4

(* Prune walks from one memory to the next. *)
LEMMA PruneWalks ==
  ASSUME NEW m \in Mems
  PROVE  \E e : /\ e[0] = m /\ Prune(m) = e[Len(m.lru)]
                /\ \A k \in 1..Len(m.lru) : e[k] = DropTail(e[k - 1])
<1> DEFINE s == m.lru
<1> DEFINE n == Len(s)
<1> DEFINE F == [q \in Mems \X (1..n) |-> DropTail(q[1])]
<1>1. n \in Nat /\ DOMAIN s = 1..n
  BY DEF Mems, MemType
<1>2. F \in [Mems \X (1..n) -> Mems] /\ \A a \in Mems, x \in 1..n : F[<<a, x>>] = DropTail(a)
  BY DropKeeps
<1> HIDE DEF F
<1>3. PICK g \in [SUBSET (1..n) -> Mems] : LeftRule(g, F, m, n, Mems)
  <2> HIDE DEF n
  <2> QED BY <1>1, <1>2, FoldLeftExists
<1> DEFINE Rule1(h) ==
      h = [t \in SUBSET DOMAIN s |->
             IF t = {} THEN m ELSE DropTail(h[t \ {Max(t)}])]
<1>5. Rule1(g)
  <2> DEFINE r == [t \in SUBSET (1..n) |-> IF t = {} THEN m ELSE DropTail(g[t \ {Max(t)}])]
  <2>1. ASSUME NEW t \in SUBSET (1..n) PROVE g[t] = r[t]
    BY <1>2, <1>3 DEF LeftRule
  <2>2. g = r
    <3> HIDE DEF n
    <3> QED BY <1>3, <2>1
  <2> QED BY <1>1, <2>2
<1> DEFINE h == CHOOSE i : Rule1(i)
<1>6. Rule1(h)
  <2> HIDE DEF Rule1
  <2> QED BY <1>5
<1>7. Prune(m) = h[DOMAIN s]
  BY DEF Prune, FoldLeft, MapThenFoldSet
<1> HIDE DEF h
<1> DEFINE e == [k \in 0..n |-> h[1..k]]
<1>8. e[0] = m
  <2>1. 1..0 = {} /\ 0 \in 0..n
    BY <1>1
  <2> QED BY <1>6, <2>1
<1>9. ASSUME NEW k \in 1..n PROVE e[k] = DropTail(e[k - 1])
  <2>1. k \in Nat \ {0} /\ k - 1 \in 0..n /\ k \in 0..n /\ 1..k \in SUBSET (1..n)
    BY <1>1
  <2>2. Max(1..k) = k /\ (1..k) \ {k} = 1..(k - 1) /\ 1..k # {}
    BY <2>1, MaxUpTo
  <2>3. h[1..k] = DropTail(h[(1..k) \ {Max(1..k)}])
    BY <1>1, <1>6, <2>1, <2>2
  <2> QED BY <2>1, <2>2, <2>3
<1>10. Prune(m) = e[n]
  BY <1>1, <1>7
<1> HIDE DEF e
<1> QED BY <1>8, <1>9, <1>10

(* However much is dropped, the counters are exact, what stays is what was *)
(* there, and neither limit is exceeded.                                   *)
LEMMA PruneKeeps ==
  ASSUME NEW m \in Mems
  PROVE  /\ Prune(m) \in Mems /\ ~OverLimit(Prune(m))
         /\ \A j \in Ids : Prune(m).text[j] \in {m.text[j], None}
         /\ ~OverLimit(m) => Prune(m) = m
<1> DEFINE n == Len(m.lru)
<1>1. PICK e : /\ e[0] = m /\ Prune(m) = e[n]
               /\ \A k \in 1..n : e[k] = DropTail(e[k - 1])
  BY PruneWalks
<1>2. n \in Nat
  BY DEF Mems, MemType
<1> HIDE DEF n
<1> DEFINE A == {o \in Mems : \A j \in Ids : o.text[j] \in {m.text[j], None}}
<1>3. \A k \in 0..n : e[k] \in A
  <2>1. e[0] \in A
    BY <1>1
  <2>2. ASSUME NEW o \in A PROVE DropTail(o) \in A
    BY DropKeeps
  <2>3. \A k \in 1..n : e[k - 1] \in A => e[k] \in A
    BY <1>1, <2>2
  <2> HIDE DEF A
  <2> QED BY <1>2, <2>1, <2>3, Walk
<1> DEFINE f == [k \in 0..n |-> <<k, e[k]>>]
<1> DEFINE B == {q \in Nat \X Mems : OverLimit(q[2]) => Len(q[2].lru) + q[1] <= n}
<1>4. \A k \in 0..n : f[k] \in B
  <2>1. f[0] \in B
    BY <1>1, <1>2 DEF n
  <2>2. ASSUME NEW k \in 1..n, f[k - 1] \in B PROVE f[k] \in B
    <3> DEFINE o == e[k - 1]
    <3>1. /\ k - 1 \in 0..n /\ f[k - 1] = <<k - 1, o>> /\ f[k] = <<k, DropTail(o)>>
          /\ o \in Mems /\ k \in Nat
      BY <1>1, <1>2, <1>3
    <3>2. OverLimit(o) => Len(o.lru) + (k - 1) <= n
      BY <2>2, <3>1
    <3> HIDE DEF o
    <3>3. DropTail(o) \in Mems /\ Len(o.lru) \in Nat
          /\ (OverLimit(o) => Len(DropTail(o).lru) = Len(o.lru) - 1)
          /\ (~OverLimit(o) => DropTail(o) = o)
      BY <3>1, DropKeeps
    <3>4. OverLimit(DropTail(o)) => Len(DropTail(o).lru) + k <= n
      BY <1>2, <3>1, <3>2, <3>3
    <3> QED BY <3>1, <3>3, <3>4
  <2> HIDE DEF B, f
  <2> QED BY <1>2, <2>1, <2>2, Walk
<1>5. n \in 0..n /\ e[n] \in A /\ f[n] \in B
  BY <1>2, <1>3, <1>4
<1>6. ~OverLimit(e[n])
  <2>1. OverLimit(e[n]) => Len(e[n].lru) + n <= n /\ Len(e[n].lru) # 0 /\ Len(e[n].lru) \in Nat
    BY <1>5, DropKeeps
  <2> QED BY <1>2, <2>1
<1>7. ASSUME ~OverLimit(m) PROVE e[n] = m
  <2> DEFINE C == {m}
  <2>1. \A k \in 1..n : e[k - 1] \in C => e[k] \in C
    BY <1>1, <1>7, DropKeeps
  <2>2. \A k \in 0..n : e[k] \in C
    <3>1. e[0] \in C
      BY <1>1
    <3> HIDE DEF C
    <3> QED BY <1>2, <2>1, <3>1, Walk
  <2> QED BY <1>2, <2>2
<1> QED BY <1>1, <1>5, <1>6, <1>7

(* Putting one id changes that one, and the limits then take some away. *)
LEMMA PutKeeps ==
  ASSUME NEW m \in Mems, NEW i \in Ids, NEW d \in Texts
  PROVE  /\ Put(m, i, d) \in Mems /\ ~OverLimit(Put(m, i, d))
         /\ \A j \in Ids : Put(m, i, d).text[j] \in {IF j = i THEN d ELSE m.text[j], None}
<1> DEFINE o == IF m.text[i] = d THEN Touch(m, i)
                ELSE Insert(IF m.text[i] = None THEN m ELSE RemoveEntry(m, i), i, d)
<1>1. m.text \in [Ids -> Texts \cup {None}] /\ None \notin Texts
  BY TextsAreApart DEF Mems, MemType
<1>5. ASSUME NEW z \in Mems, z.text[i] = None
      PROVE  Insert(z, i, d) \in Mems /\ Insert(z, i, d).text = [z.text EXCEPT ![i] = d]
  BY <1>5, InsertKeeps
<1>2. o \in Mems /\ \A j \in Ids : o.text[j] = IF j = i THEN d ELSE m.text[j]
  <2>1. CASE m.text[i] = d
    <3>1. i \in Held(m)
      BY <1>1, <2>1 DEF Held
    <3>2. Touch(m, i) \in Mems /\ Touch(m, i).text = m.text
      BY <3>1, TouchKeeps
    <3> QED BY <2>1, <3>2
  <2>2. CASE m.text[i] = None
    <3>1. Insert(m, i, d) \in Mems /\ Insert(m, i, d).text = [m.text EXCEPT ![i] = d]
      BY <2>2, InsertKeeps
    <3>2. o = Insert(m, i, d)
      BY <1>1, <2>2
    <3> QED BY <1>1, <3>1, <3>2
  <2>3. CASE m.text[i] # d /\ m.text[i] # None
    <3> DEFINE q == RemoveEntry(m, i)
    <3>1. i \in Held(m)
      BY <2>3 DEF Held
    <3>2. q \in Mems /\ q.text = [m.text EXCEPT ![i] = None]
      BY <3>1, RemoveKeeps
    <3>3. o = Insert(q, i, d)
      BY <2>3
    <3> HIDE DEF q, o
    <3>4. q.text[i] = None
      BY <1>1, <3>2
    <3>5. Insert(q, i, d) \in Mems /\ Insert(q, i, d).text = [q.text EXCEPT ![i] = d]
      BY <1>5, <3>2, <3>4
    <3> DEFINE w == q.text
    <3>6. /\ o.text = [w EXCEPT ![i] = d] /\ w \in [Ids -> Texts \cup {None}]
          /\ \A j \in Ids : j # i => w[j] = m.text[j]
      BY <1>1, <3>2, <3>3, <3>5
    <3> HIDE DEF w
    <3>7. \A j \in Ids : o.text[j] = IF j = i THEN d ELSE m.text[j]
      BY <3>6
    <3> QED BY <3>3, <3>5, <3>7
  <2> QED BY <2>1, <2>2, <2>3
<1>3. Put(m, i, d) = Prune(o)
  BY DEF Put
<1> HIDE DEF o
<1>4. /\ Prune(o) \in Mems /\ ~OverLimit(Prune(o))
      /\ \A j \in Ids : Prune(o).text[j] \in {o.text[j], None}
  BY <1>2, PruneKeeps
<1> QED BY <1>2, <1>3, <1>4

(* Remembering a turn walks from one memory to the next. *)
LEMMA RememberWalks ==
  ASSUME NEW m \in Mems, NEW d \in Texts, NEW s \in Seq(Ids)
  PROVE  \E e : /\ e[0] = m /\ Remember(m, d, s) = e[Len(s)]
                /\ \A k \in 1..Len(s) : e[k] = Put(e[k - 1], s[k], d)
<1> DEFINE n == Len(s)
<1> DEFINE F == [q \in Mems \X (1..n) |-> Put(q[1], s[q[2]], d)]
<1>1. n \in Nat /\ DOMAIN s = 1..n
  OBVIOUS
<1>2. F \in [Mems \X (1..n) -> Mems] /\ \A a \in Mems, x \in 1..n : F[<<a, x>>] = Put(a, s[x], d)
  BY PutKeeps
<1> HIDE DEF F
<1>3. PICK g \in [SUBSET (1..n) -> Mems] : LeftRule(g, F, m, n, Mems)
  <2> HIDE DEF n
  <2> QED BY <1>1, <1>2, FoldLeftExists
<1> DEFINE Rule1(h) ==
      h = [t \in SUBSET DOMAIN s |->
             IF t = {} THEN m ELSE Put(h[t \ {Max(t)}], s[Max(t)], d)]
<1>5. Rule1(g)
  <2> DEFINE r == [t \in SUBSET (1..n) |-> IF t = {} THEN m ELSE Put(g[t \ {Max(t)}], s[Max(t)], d)]
  <2>1. ASSUME NEW t \in SUBSET (1..n) PROVE g[t] = r[t]
    BY <1>2, <1>3 DEF LeftRule
  <2>2. g = r
    <3> HIDE DEF n
    <3> QED BY <1>3, <2>1
  <2> QED BY <1>1, <2>2
<1> DEFINE h == CHOOSE i : Rule1(i)
<1>6. Rule1(h)
  <2> HIDE DEF Rule1
  <2> QED BY <1>5
<1>7. Remember(m, d, s) = h[DOMAIN s]
  BY DEF Remember, FoldLeft, MapThenFoldSet
<1> HIDE DEF h
<1> DEFINE e == [k \in 0..n |-> h[1..k]]
<1>8. e[0] = m
  <2>1. 1..0 = {} /\ 0 \in 0..n
    BY <1>1
  <2> QED BY <1>6, <2>1
<1>9. ASSUME NEW k \in 1..n PROVE e[k] = Put(e[k - 1], s[k], d)
  <2>1. k \in Nat \ {0} /\ k - 1 \in 0..n /\ k \in 0..n /\ 1..k \in SUBSET (1..n)
    BY <1>1
  <2>2. Max(1..k) = k /\ (1..k) \ {k} = 1..(k - 1) /\ 1..k # {}
    BY <2>1, MaxUpTo
  <2>3. h[1..k] = Put(h[(1..k) \ {Max(1..k)}], s[k], d)
    BY <1>1, <1>6, <2>1, <2>2
  <2> QED BY <2>1, <2>2, <2>3
<1>10. Remember(m, d, s) = e[n]
  BY <1>1, <1>7
<1> HIDE DEF e
<1> QED BY <1>8, <1>9, <1>10

LEMMA RememberKeeps ==
  ASSUME NEW m \in Mems, ~OverLimit(m), NEW d \in Texts, NEW s \in Seq(Ids)
  PROVE  /\ Remember(m, d, s) \in Mems /\ ~OverLimit(Remember(m, d, s))
         /\ \A j \in Ids : (Remember(m, d, s).text[j] \in {m.text[j], None})
                           \/ (Remember(m, d, s).text[j] = d /\ j \in ToSet(s))
<1> DEFINE n == Len(s)
<1> DEFINE A == {o \in Mems : /\ ~OverLimit(o)
                             /\ \A j \in Ids : (o.text[j] \in {m.text[j], None})
                                               \/ (o.text[j] = d /\ j \in ToSet(s))}
<1>1. PICK e : /\ e[0] = m /\ Remember(m, d, s) = e[n]
               /\ \A k \in 1..n : e[k] = Put(e[k - 1], s[k], d)
  BY RememberWalks
<1>2. \A k \in 1..n : e[k - 1] \in A => e[k] \in A
  <2> SUFFICES ASSUME NEW k \in 1..n, e[k - 1] \in A PROVE e[k] \in A
    OBVIOUS
  <2> DEFINE o == e[k - 1]
  <2>1. o \in Mems /\ s[k] \in Ids /\ s[k] \in ToSet(s) /\ e[k] = Put(o, s[k], d)
    BY <1>1, InToSet
  <2>2. /\ Put(o, s[k], d) \in Mems /\ ~OverLimit(Put(o, s[k], d))
        /\ \A j \in Ids :
             Put(o, s[k], d).text[j] \in {IF j = s[k] THEN d ELSE o.text[j], None}
    BY <2>1, PutKeeps
  <2>3. \A j \in Ids : (o.text[j] \in {m.text[j], None}) \/ (o.text[j] = d /\ j \in ToSet(s))
    OBVIOUS
  <2>4. \A j \in Ids : (Put(o, s[k], d).text[j] \in {m.text[j], None})
                     \/ (Put(o, s[k], d).text[j] = d /\ j \in ToSet(s))
    <3> DEFINE w == Put(o, s[k], d).text
    <3> SUFFICES ASSUME NEW j \in Ids
                 PROVE  w[j] \in {m.text[j], None} \/ (w[j] = d /\ j \in ToSet(s))
      OBVIOUS
    <3> HIDE DEF w, o
    <3>1. w[j] \in {IF j = s[k] THEN d ELSE o.text[j], None}
      BY <2>2 DEF w
    <3> QED BY <2>1, <2>3, <3>1
  <2> HIDE DEF o
  <2> QED BY <2>1, <2>2, <2>4
<1>3. n \in Nat /\ e[0] \in A
  BY <1>1
<1>4. \A k \in 0..n : e[k] \in A
  <2> HIDE DEF A, n
  <2> QED BY <1>2, <1>3, Walk
<1> QED BY <1>1, <1>3, <1>4

(* Looking up moves entries to the head and changes nothing else. *)
LEMMA LookUpKeeps ==
  ASSUME NEW m \in Mems, NEW i \in Ids
  PROVE  /\ LookUp(m, i) \in Mems /\ LookUp(m, i).text = m.text
         /\ OverLimit(LookUp(m, i)) <=> OverLimit(m)
<1>1. CASE m.text[i] = None
  BY <1>1 DEF LookUp
<1>2. CASE m.text[i] # None
  <2>1. i \in Held(m) /\ LookUp(m, i) = Touch(m, i)
    BY <1>2 DEF Held, LookUp
  <2>2. /\ Touch(m, i) \in Mems /\ Touch(m, i).text = m.text
        /\ Touch(m, i).bytes = m.bytes /\ Len(Touch(m, i).lru) = Len(m.lru)
    BY <2>1, TouchKeeps
  <2> QED BY <2>1, <2>2 DEF OverLimit
<1> QED BY <1>1, <1>2

(* As a fold over the calls, and over the messages. *)
LEMMA LookUpCallsWalks ==
  ASSUME NEW m \in Mems, NEW s \in Seq(Ids)
  PROVE  \E e : /\ e[0] = m /\ LookUpCalls(m, s) = e[Len(s)]
                /\ \A k \in 1..Len(s) : e[k] = LookUp(e[k - 1], s[k])
<1> DEFINE n == Len(s)
<1> DEFINE F == [q \in Mems \X (1..n) |-> LookUp(q[1], s[q[2]])]
<1>1. n \in Nat /\ DOMAIN s = 1..n
  OBVIOUS
<1>2. F \in [Mems \X (1..n) -> Mems] /\ \A a \in Mems, x \in 1..n : F[<<a, x>>] = LookUp(a, s[x])
  <2>1. ASSUME NEW a \in Mems, NEW x \in 1..n PROVE LookUp(a, s[x]) \in Mems
    <3>1. s[x] \in Ids
      OBVIOUS
    <3> QED BY <3>1, LookUpKeeps
  <2> HIDE DEF n
  <2> QED BY <2>1
<1> HIDE DEF F
<1>3. PICK g \in [SUBSET (1..n) -> Mems] : LeftRule(g, F, m, n, Mems)
  <2> HIDE DEF n
  <2> QED BY <1>1, <1>2, FoldLeftExists
<1> DEFINE Rule1(h) ==
      h = [t \in SUBSET DOMAIN s |->
             IF t = {} THEN m ELSE LookUp(h[t \ {Max(t)}], s[Max(t)])]
<1>5. Rule1(g)
  <2> DEFINE r == [t \in SUBSET (1..n) |-> IF t = {} THEN m ELSE LookUp(g[t \ {Max(t)}], s[Max(t)])]
  <2>1. ASSUME NEW t \in SUBSET (1..n) PROVE g[t] = r[t]
    BY <1>2, <1>3 DEF LeftRule
  <2>2. g = r
    <3> HIDE DEF n
    <3> QED BY <1>3, <2>1
  <2> QED BY <1>1, <2>2
<1> DEFINE h == CHOOSE i : Rule1(i)
<1>6. Rule1(h)
  <2> HIDE DEF Rule1
  <2> QED BY <1>5
<1>7. LookUpCalls(m, s) = h[DOMAIN s]
  BY DEF LookUpCalls, FoldLeft, MapThenFoldSet
<1> HIDE DEF h
<1> DEFINE e == [k \in 0..n |-> h[1..k]]
<1>8. e[0] = m
  <2>1. 1..0 = {} /\ 0 \in 0..n
    BY <1>1
  <2> QED BY <1>6, <2>1
<1>9. ASSUME NEW k \in 1..n PROVE e[k] = LookUp(e[k - 1], s[k])
  <2>1. k \in Nat \ {0} /\ k - 1 \in 0..n /\ k \in 0..n /\ 1..k \in SUBSET (1..n)
    BY <1>1
  <2>2. Max(1..k) = k /\ (1..k) \ {k} = 1..(k - 1) /\ 1..k # {}
    BY <2>1, MaxUpTo
  <2>3. h[1..k] = LookUp(h[(1..k) \ {Max(1..k)}], s[k])
    BY <1>1, <1>6, <2>1, <2>2
  <2> QED BY <2>1, <2>2, <2>3
<1>10. LookUpCalls(m, s) = e[n]
  BY <1>1, <1>7
<1> HIDE DEF e
<1> QED BY <1>8, <1>9, <1>10

LEMMA LookUpCallsKeeps ==
  ASSUME NEW m \in Mems, NEW s \in Seq(Ids)
  PROVE  /\ LookUpCalls(m, s) \in Mems /\ LookUpCalls(m, s).text = m.text
         /\ OverLimit(LookUpCalls(m, s)) <=> OverLimit(m)
<1> DEFINE n == Len(s)
<1> DEFINE A == {o \in Mems : o.text = m.text /\ (OverLimit(o) <=> OverLimit(m))}
<1>1. PICK e : /\ e[0] = m /\ LookUpCalls(m, s) = e[n]
               /\ \A k \in 1..n : e[k] = LookUp(e[k - 1], s[k])
  BY LookUpCallsWalks
<1>2. \A k \in 1..n : e[k - 1] \in A => e[k] \in A
  <2> SUFFICES ASSUME NEW k \in 1..n, e[k - 1] \in A PROVE e[k] \in A
    OBVIOUS
  <2> DEFINE o == e[k - 1]
  <2>1. o \in Mems /\ s[k] \in Ids /\ e[k] = LookUp(o, s[k])
    BY <1>1
  <2>2. o.text = m.text /\ (OverLimit(o) <=> OverLimit(m))
    OBVIOUS
  <2> HIDE DEF o
  <2>3. /\ LookUp(o, s[k]) \in Mems /\ LookUp(o, s[k]).text = o.text
        /\ OverLimit(LookUp(o, s[k])) <=> OverLimit(o)
    BY <2>1, LookUpKeeps
  <2> QED BY <2>1, <2>2, <2>3
<1>3. n \in Nat /\ e[0] \in A
  BY <1>1
<1>4. \A k \in 0..n : e[k] \in A
  <2> HIDE DEF A, n
  <2> QED BY <1>2, <1>3, Walk
<1> QED BY <1>1, <1>3, <1>4

LEMMA LookUpAllWalks ==
  ASSUME NEW m \in Mems, NEW s \in Seq(Seq(Ids))
  PROVE  \E e : /\ e[0] = m /\ LookUpAll(m, s) = e[Len(s)]
                /\ \A k \in 1..Len(s) : e[k] = LookUpCalls(e[k - 1], s[k])
<1> DEFINE n == Len(s)
<1> DEFINE F == [q \in Mems \X (1..n) |-> LookUpCalls(q[1], s[q[2]])]
<1>1. n \in Nat /\ DOMAIN s = 1..n
  OBVIOUS
<1>2. F \in [Mems \X (1..n) -> Mems] /\ \A a \in Mems, x \in 1..n : F[<<a, x>>] = LookUpCalls(a, s[x])
  <2>1. ASSUME NEW a \in Mems, NEW x \in 1..n PROVE LookUpCalls(a, s[x]) \in Mems
    <3>1. s[x] \in Seq(Ids)
      OBVIOUS
    <3> QED BY <3>1, LookUpCallsKeeps
  <2> HIDE DEF n
  <2> QED BY <2>1
<1> HIDE DEF F
<1>3. PICK g \in [SUBSET (1..n) -> Mems] : LeftRule(g, F, m, n, Mems)
  <2> HIDE DEF n
  <2> QED BY <1>1, <1>2, FoldLeftExists
<1> DEFINE Rule1(h) ==
      h = [t \in SUBSET DOMAIN s |->
             IF t = {} THEN m ELSE LookUpCalls(h[t \ {Max(t)}], s[Max(t)])]
<1>5. Rule1(g)
  <2> DEFINE r == [t \in SUBSET (1..n) |-> IF t = {} THEN m ELSE LookUpCalls(g[t \ {Max(t)}], s[Max(t)])]
  <2>1. ASSUME NEW t \in SUBSET (1..n) PROVE g[t] = r[t]
    BY <1>2, <1>3 DEF LeftRule
  <2>2. g = r
    <3> HIDE DEF n
    <3> QED BY <1>3, <2>1
  <2> QED BY <1>1, <2>2
<1> DEFINE h == CHOOSE i : Rule1(i)
<1>6. Rule1(h)
  <2> HIDE DEF Rule1
  <2> QED BY <1>5
<1>7. LookUpAll(m, s) = h[DOMAIN s]
  BY DEF LookUpAll, FoldLeft, MapThenFoldSet
<1> HIDE DEF h
<1> DEFINE e == [k \in 0..n |-> h[1..k]]
<1>8. e[0] = m
  <2>1. 1..0 = {} /\ 0 \in 0..n
    BY <1>1
  <2> QED BY <1>6, <2>1
<1>9. ASSUME NEW k \in 1..n PROVE e[k] = LookUpCalls(e[k - 1], s[k])
  <2>1. k \in Nat \ {0} /\ k - 1 \in 0..n /\ k \in 0..n /\ 1..k \in SUBSET (1..n)
    BY <1>1
  <2>2. Max(1..k) = k /\ (1..k) \ {k} = 1..(k - 1) /\ 1..k # {}
    BY <2>1, MaxUpTo
  <2>3. h[1..k] = LookUpCalls(h[(1..k) \ {Max(1..k)}], s[k])
    BY <1>1, <1>6, <2>1, <2>2
  <2> QED BY <2>1, <2>2, <2>3
<1>10. LookUpAll(m, s) = e[n]
  BY <1>1, <1>7
<1> HIDE DEF e
<1> QED BY <1>8, <1>9, <1>10

LEMMA LookUpAllKeeps ==
  ASSUME NEW m \in Mems, NEW s \in Seq(Seq(Ids))
  PROVE  /\ LookUpAll(m, s) \in Mems /\ LookUpAll(m, s).text = m.text
         /\ OverLimit(LookUpAll(m, s)) <=> OverLimit(m)
<1> DEFINE n == Len(s)
<1> DEFINE A == {o \in Mems : o.text = m.text /\ (OverLimit(o) <=> OverLimit(m))}
<1>1. PICK e : /\ e[0] = m /\ LookUpAll(m, s) = e[n]
               /\ \A k \in 1..n : e[k] = LookUpCalls(e[k - 1], s[k])
  BY LookUpAllWalks
<1>2. \A k \in 1..n : e[k - 1] \in A => e[k] \in A
  <2> SUFFICES ASSUME NEW k \in 1..n, e[k - 1] \in A PROVE e[k] \in A
    OBVIOUS
  <2> DEFINE o == e[k - 1]
  <2>1. o \in Mems /\ s[k] \in Seq(Ids) /\ e[k] = LookUpCalls(o, s[k])
    BY <1>1
  <2>2. o.text = m.text /\ (OverLimit(o) <=> OverLimit(m))
    OBVIOUS
  <2> HIDE DEF o
  <2>3. /\ LookUpCalls(o, s[k]) \in Mems /\ LookUpCalls(o, s[k]).text = o.text
        /\ OverLimit(LookUpCalls(o, s[k])) <=> OverLimit(o)
    BY <2>1, LookUpCallsKeeps
  <2> QED BY <2>1, <2>2, <2>3
<1>3. n \in Nat /\ e[0] \in A
  BY <1>1
<1>4. \A k \in 0..n : e[k] \in A
  <2> HIDE DEF A, n
  <2> QED BY <1>2, <1>3, Walk
<1> QED BY <1>1, <1>3, <1>4

-----------------------------------------------------------------------------
(***************************************************************************)
(* The inductive invariant.                                                *)
(***************************************************************************)
Workers == [key : Keys \cup {NoKey}, over : BOOLEAN, est : BOOLEAN, rest : SUBSET Pairs]

Typed ==
  /\ mem \in Mems /\ disk \in [Keys -> Snapshots \cup {Absent}]
  /\ client \in [Clients -> Requested] /\ worker \in Workers
  /\ drawn \in 0..MaxIds /\ sampled \in [Ids -> Texts \cup {None}]
  /\ known \in [Clients -> SUBSET Ids]

\* These pairs are what the model wrote.
AreTrue(P) == \A p \in P : sampled[p[1]] = p[2]

\* No text without a drawn id, and in memory no other than the model's.
TextsTrue ==
  /\ \A i \in Ids : i > drawn => sampled[i] = None
  /\ \A i \in Ids : mem.text[i] \in {None, sampled[i]}

\* A snapshot that is written over is there.
OverIsThere == worker.over => worker.key \in Keys /\ disk[worker.key] # Absent

\* An id a request found known is in memory, or among the pairs still to be put,
\* or behind a snapshot still to be read.
InReach(c, i) ==
  \/ i \in Held(mem)
  \/ \E p \in client[c].rest : p[1] = i
  \/ \E k \in client[c].unread : \E p \in Trailer(k) : p[1] = i

Reachable(c) ==
  client[c].busy => /\ client[c].said = <<>>
                    /\ known[c] \subseteq Named(client[c].asked)
                    /\ \A i \in known[c] : InReach(c, i)

\* There is an answer for messages of the request only.
SaidIsAsked == \A c \in Clients : DOMAIN client[c].said \subseteq DOMAIN client[c].asked

KnownAreDrawn == \A c \in Clients : known[c] \subseteq 0..drawn

Inv ==
  /\ Typed /\ ~OverLimit(mem) /\ TextsTrue /\ TrailersAreTheirs /\ OverIsThere
  /\ AreTrue(worker.rest) /\ \A c \in Clients : AreTrue(client[c].rest)
  /\ KnownAreDrawn /\ \A c \in Clients : Reachable(c)
  /\ SaidIsAsked /\ Verbatim /\ KnownIsReplayed

(* Which actions move which variable. *)
LEMMA MovesOf ==
  ASSUME Act
  PROVE  /\ \/ \E d \in Texts, n \in 1..MaxCalls : Sample(d, n)
            \/ UNCHANGED <<drawn, sampled>>
         /\ \/ \E d \in Texts, n \in 1..MaxCalls : Sample(d, n)
            \/ WorkerPuts \/ (\E c \in Clients : ClientPuts(c))
            \/ (\E c \in Clients : Attach(c)) \/ Restart \/ UNCHANGED mem
         /\ \/ StoreNew \/ StoreOver \/ StoreFails
            \/ (\E k \in Keys : RemoveSnapshot(k)) \/ UNCHANGED disk
         /\ \/ \E c \in Clients : (\E r \in Requests : Ask(c, r))
            \/ (\E c \in Clients : (\E k \in Keys : ReadTrailer(c, k)))
            \/ (\E c \in Clients : ClientPuts(c)) \/ (\E c \in Clients : Attach(c))
            \/ Restart \/ UNCHANGED client
         /\ \/ (\E k \in Keys : LoadSnapshot(k) \/ BeginStore(k))
            \/ WorkerPuts \/ StoreNew \/ StoreOver \/ StoreFails
            \/ Restart \/ UNCHANGED worker
<1> DEFINE Goal ==
      /\ \/ \E d \in Texts, n \in 1..MaxCalls : Sample(d, n)
         \/ UNCHANGED <<drawn, sampled>>
      /\ \/ \E d \in Texts, n \in 1..MaxCalls : Sample(d, n)
         \/ WorkerPuts \/ (\E c \in Clients : ClientPuts(c))
         \/ (\E c \in Clients : Attach(c)) \/ Restart \/ UNCHANGED mem
      /\ \/ StoreNew \/ StoreOver \/ StoreFails
         \/ (\E k \in Keys : RemoveSnapshot(k)) \/ UNCHANGED disk
      /\ \/ \E c \in Clients : (\E r \in Requests : Ask(c, r))
         \/ (\E c \in Clients : (\E k \in Keys : ReadTrailer(c, k)))
         \/ (\E c \in Clients : ClientPuts(c)) \/ (\E c \in Clients : Attach(c))
         \/ Restart \/ UNCHANGED client
      /\ \/ (\E k \in Keys : LoadSnapshot(k) \/ BeginStore(k))
         \/ WorkerPuts \/ StoreNew \/ StoreOver \/ StoreFails
         \/ Restart \/ UNCHANGED worker
<1> SUFFICES Goal
  OBVIOUS
<1>1. ASSUME NEW d \in Texts, NEW n \in 1..MaxCalls, Sample(d, n) PROVE Goal
  BY <1>1 DEF Sample
<1>2. ASSUME NEW k \in Keys, LoadSnapshot(k) \/ BeginStore(k) PROVE Goal
  BY <1>2 DEF LoadSnapshot, BeginStore
<1>3. ASSUME NEW k \in Keys, RemoveSnapshot(k) PROVE Goal
  BY <1>3 DEF RemoveSnapshot
<1>4. CASE WorkerPuts
  BY <1>4 DEF WorkerPuts
<1>5. CASE StoreNew \/ StoreOver \/ StoreFails
  BY <1>5 DEF StoreNew, StoreOver, StoreFails
<1>6. ASSUME NEW c \in Clients, NEW r \in Requests, Ask(c, r) PROVE Goal
  BY <1>6 DEF Ask
<1>7. ASSUME NEW c \in Clients, NEW k \in Keys, ReadTrailer(c, k) PROVE Goal
  BY <1>7 DEF ReadTrailer
<1>8. ASSUME NEW c \in Clients, ClientPuts(c) PROVE Goal
  BY <1>8 DEF ClientPuts
<1>9. ASSUME NEW c \in Clients, Attach(c) PROVE Goal
  BY <1>9 DEF Attach
<1>10. CASE Restart
  BY <1>10 DEF Restart
<1> HIDE DEF Goal
<1> QED BY <1>1, <1>2, <1>3, <1>4, <1>5, <1>6, <1>7, <1>8, <1>9, <1>10 DEF Act

(* What the model wrote under an id stays. *)
LEMMA SampledStays ==
  ASSUME Inv, Act
  PROVE  /\ drawn' \in 0..MaxIds /\ drawn <= drawn'
         /\ sampled' \in [Ids -> Texts \cup {None}]
         /\ \A i \in Ids : i > drawn' => sampled'[i] = None
         /\ \A i \in Ids : i <= drawn => sampled'[i] = sampled[i]
         /\ \A i \in Ids : sampled[i] # None => i <= drawn
<1>1. /\ drawn \in 0..MaxIds /\ sampled \in [Ids -> Texts \cup {None}] /\ Ids \subseteq Nat
      /\ MaxIds \in Nat /\ MaxCalls \in Nat /\ \A i \in Ids : i > drawn => sampled[i] = None
  BY IdsFinite DEF Inv, Typed, TextsTrue, Ids
<1>2. \A i \in Ids : sampled[i] # None => i <= drawn
  BY <1>1
<1>3. ASSUME NEW d \in Texts, NEW n \in 1..MaxCalls, Sample(d, n)
      PROVE  /\ drawn' \in 0..MaxIds /\ drawn <= drawn'
             /\ sampled' \in [Ids -> Texts \cup {None}]
             /\ \A i \in Ids : i > drawn' => sampled'[i] = None
             /\ \A i \in Ids : i <= drawn => sampled'[i] = sampled[i]
  BY <1>1, <1>3 DEF Sample, NewIds
<1>4. CASE UNCHANGED <<drawn, sampled>>
  BY <1>1, <1>2, <1>4
<1> QED BY <1>2, <1>3, <1>4, MovesOf

(* A pair the model wrote stays one. *)
LEMMA TrueStays ==
  ASSUME Inv, Act, NEW P \in SUBSET Pairs, AreTrue(P)
  PROVE  AreTrue(P)'
<1>1. \A p \in P : p[1] \in Ids /\ p[2] \in Texts /\ sampled[p[1]] = p[2]
  BY DEF Pairs, AreTrue
<1>2. \A i \in Ids : sampled[i] # None => sampled'[i] = sampled[i]
  BY SampledStays
<1> QED BY <1>1, <1>2, TextsAreApart DEF AreTrue

(* Any memory reached from here holds no other text than the model wrote. *)
LEMMA PutOfTrue ==
  ASSUME Inv, NEW p \in Pairs, sampled[p[1]] = p[2]
  PROVE  /\ Put(mem, p[1], p[2]) \in Mems /\ ~OverLimit(Put(mem, p[1], p[2]))
         /\ \A i \in Ids : Put(mem, p[1], p[2]).text[i] \in {None, sampled[i]}
<1>1. mem \in Mems /\ p[1] \in Ids /\ p[2] \in Texts
      /\ \A i \in Ids : mem.text[i] \in {None, sampled[i]}
  BY DEF Inv, Typed, TextsTrue, Pairs
<1> DEFINE m == Put(mem, p[1], p[2])
<1>2. /\ m \in Mems /\ ~OverLimit(m)
      /\ \A j \in Ids : m.text[j] \in {IF j = p[1] THEN p[2] ELSE mem.text[j], None}
  BY <1>1, PutKeeps
<1> HIDE DEF m
<1>3. \A i \in Ids : m.text[i] \in {None, sampled[i]}
  BY <1>1, <1>2
<1> QED BY <1>2, <1>3 DEF m

(* Every action leaves an exact memory within the limits, with the texts   *)
(* the model wrote.                                                        *)
LEMMA MemStep ==
  ASSUME Inv, Act
  PROVE  mem' \in Mems /\ ~OverLimit(mem)' /\ TextsTrue'
<1>1. /\ mem \in Mems /\ ~OverLimit(mem) /\ \A i \in Ids : mem.text[i] \in {None, sampled[i]}
      /\ worker \in Workers /\ client \in [Clients -> Requested]
  BY DEF Inv, Typed, TextsTrue
<1>2. /\ \A i \in Ids : i > drawn' => sampled'[i] = None
      /\ \A i \in Ids : sampled[i] # None => sampled'[i] = sampled[i]
  BY SampledStays
<1> DEFINE Good(m) == m \in Mems /\ ~OverLimit(m)
                      /\ \A i \in Ids : m.text[i] \in {None, sampled'[i]}
<1>3. ASSUME NEW m \in Mems, ~OverLimit(m), \A i \in Ids : m.text[i] \in {None, sampled[i]}
      PROVE  Good(m)
  BY <1>2, <1>3
<1>4. ASSUME NEW d \in Texts, NEW n \in 1..MaxCalls, Sample(d, n) PROVE Good(mem')
  <2> DEFINE s == [j \in 1..n |-> drawn + j]
  <2>1. /\ drawn \in Nat /\ n \in Nat /\ drawn + n <= MaxIds /\ MaxIds \in Nat
        /\ mem' = Remember(mem, d, s)
        /\ sampled' = [i \in Ids |-> IF i \in NewIds(n) THEN d ELSE sampled[i]]
        /\ \A i \in Ids : i > drawn => sampled[i] = None
    BY <1>4, IdsFinite DEF Sample, Inv, Typed, TextsTrue
  <2>2. s \in Seq(Ids) /\ ToSet(s) \subseteq NewIds(n)
    <3>1. s \in [1..n -> Ids]
      BY <2>1 DEF Ids
    <3>2. s \in Seq(Ids)
      BY <2>1, <3>1
    <3> QED BY <2>1, <3>2 DEF ToSet, NewIds
  <2> DEFINE r == Remember(mem, d, s)
  <2>3. /\ r \in Mems /\ ~OverLimit(r)
        /\ \A j \in Ids : (r.text[j] \in {mem.text[j], None}) \/ (r.text[j] = d /\ j \in ToSet(s))
    <3> HIDE DEF s
    <3> QED BY <1>1, <2>2, RememberKeeps
  <2>4. \A i \in NewIds(n) : i \in Ids /\ i > drawn
    BY <2>1 DEF NewIds, Ids
  <2>5. r = mem'
    BY <2>1
  <2> HIDE DEF s, r
  <2>6. ASSUME NEW i \in Ids PROVE r.text[i] \in {None, sampled'[i]}
    <3>1. mem.text[i] \in {None, sampled[i]}
      BY <1>1
    <3>2. CASE i \in NewIds(n)
      <4>1. sampled'[i] = d /\ sampled[i] = None
        BY <2>1, <2>4, <3>2
      <4> QED BY <2>3, <3>1, <4>1
    <3>3. CASE i \notin NewIds(n)
      <4>1. sampled'[i] = sampled[i] /\ i \notin ToSet(s)
        BY <2>1, <2>2, <3>3
      <4> QED BY <2>3, <3>1, <4>1
    <3> QED BY <3>2, <3>3
  <2> QED BY <2>3, <2>5, <2>6
<1>5. ASSUME WorkerPuts PROVE Good(mem')
  <2>1. PICK p \in worker.rest : mem' = Put(mem, p[1], p[2])
    BY <1>5 DEF WorkerPuts
  <2>2. p \in Pairs /\ sampled[p[1]] = p[2]
    BY <1>1 DEF Inv, AreTrue, Workers
  <2> DEFINE m == Put(mem, p[1], p[2])
  <2>3. m \in Mems /\ ~OverLimit(m) /\ \A i \in Ids : m.text[i] \in {None, sampled[i]}
    BY <2>2, PutOfTrue
  <2> HIDE DEF m
  <2>4. Good(m)
    BY <1>3, <2>3
  <2> QED BY <2>1, <2>4 DEF m
<1>6. ASSUME NEW c \in Clients, ClientPuts(c) PROVE Good(mem')
  <2>1. PICK p \in client[c].rest : mem' = Put(mem, p[1], p[2])
    BY <1>6 DEF ClientPuts
  <2>2. p \in Pairs /\ sampled[p[1]] = p[2]
    BY <1>1 DEF Inv, AreTrue, Requested
  <2> DEFINE m == Put(mem, p[1], p[2])
  <2>3. m \in Mems /\ ~OverLimit(m) /\ \A i \in Ids : m.text[i] \in {None, sampled[i]}
    BY <2>2, PutOfTrue
  <2> HIDE DEF m
  <2>4. Good(m)
    BY <1>3, <2>3
  <2> QED BY <2>1, <2>4 DEF m
<1>7. ASSUME NEW c \in Clients, Attach(c) PROVE Good(mem')
  <2> DEFINE s == client[c].asked
  <2>1. mem' = LookUpAll(mem, s) /\ s \in Seq(Seq(Ids))
    BY <1>1, <1>7, RequestsAreIds DEF Attach, Requested
  <2> HIDE DEF s
  <2>2. /\ LookUpAll(mem, s) \in Mems /\ LookUpAll(mem, s).text = mem.text
        /\ OverLimit(LookUpAll(mem, s)) <=> OverLimit(mem)
    BY <1>1, <2>1, LookUpAllKeeps
  <2>3. LookUpAll(mem, s) \in Mems /\ ~OverLimit(LookUpAll(mem, s))
        /\ \A i \in Ids : LookUpAll(mem, s).text[i] \in {None, sampled[i]}
    BY <1>1, <2>2
  <2>4. Good(LookUpAll(mem, s))
    BY <1>3, <2>3
  <2> QED BY <2>1, <2>4
<1>8. ASSUME Restart PROVE Good(mem')
  <2>1. mem' = Forgotten
    BY <1>8 DEF Restart
  <2>2. /\ Forgotten \in Mems /\ ~OverLimit(Forgotten)
        /\ \A i \in Ids : Forgotten.text[i] = None
    <3>1. Len(Forgotten.lru) = 0 /\ Forgotten.bytes = 0
      BY DEF Forgotten
    <3>2. ~OverLimit(Forgotten)
      BY <3>1, IdsFinite DEF OverLimit
    <3> QED BY <3>2, EmptyMem DEF Forgotten
  <2>3. Good(Forgotten)
    BY <1>3, <2>2
  <2> QED BY <2>1, <2>3
<1>9. ASSUME UNCHANGED mem PROVE Good(mem')
  BY <1>1, <1>3, <1>9
<1>10. Good(mem')
  <2> HIDE DEF Good
  <2> QED BY <1>4, <1>5, <1>6, <1>7, <1>8, <1>9, MovesOf
<1>11. ~OverLimit(mem)'
  BY <1>10 DEF OverLimit
<1> QED BY <1>2, <1>10, <1>11 DEF TextsTrue

(* What a store lists, and what a load reads, is what the model wrote. *)
LEMMA ListedIsTrue ==
  ASSUME Inv, NEW k \in Keys
  PROVE  Listed(k) \in SUBSET Pairs
         /\ \A p \in Listed(k) : p[2] \in Blocks[k] /\ sampled[p[1]] = p[2]
<1>1. /\ mem.text \in [Ids -> Texts \cup {None}]
      /\ \A i \in Ids : mem.text[i] \in {None, sampled[i]}
  BY DEF Inv, Typed, TextsTrue, Mems, MemType
<1>2. ASSUME NEW p \in Listed(k)
      PROVE  p \in Pairs /\ p[2] \in Blocks[k] /\ sampled[p[1]] = p[2]
  <2>1. PICK i \in Held(mem) : p = <<i, mem.text[i]>> /\ InSnapshot(mem.text[i], k)
    BY DEF Listed
  <2>2. i \in Ids /\ mem.text[i] # None
    BY DEF Held
  <2>3. mem.text[i] \in Texts /\ mem.text[i] = sampled[i] /\ mem.text[i] \in Blocks[k]
    BY <1>1, <2>1, <2>2 DEF InSnapshot
  <2> QED BY <2>1, <2>2, <2>3 DEF Pairs
<1> QED BY <1>2

LEMMA TrailerIsTrue ==
  ASSUME Inv, NEW k \in Keys
  PROVE  Trailer(k) \in SUBSET Pairs /\ AreTrue(Trailer(k))
<1>1. CASE Trailer(k) = {}
  BY <1>1 DEF AreTrue
<1>2. CASE Trailer(k) # {}
  <2>1. disk[k] # Absent /\ Trailer(k) = disk[k].trailer
    BY <1>2 DEF Trailer
  <2>2. disk[k] \in Snapshots
    BY <2>1 DEF Inv, Typed
  <2>3. disk[k].trailer \in SUBSET Pairs
    BY <2>2 DEF Snapshots
  <2>4. AreTrue(disk[k].trailer)
    BY <2>1 DEF Inv, TrailersAreTheirs, AreTrue
  <2> QED BY <2>1, <2>3, <2>4
<1> QED BY <1>1, <1>2

(* What a snapshot may be, given what the model wrote. *)
Fits(x, k) ==
  x = Absent \/ (x \in Snapshots /\ \A p \in x.trailer : p[2] \in Blocks[k] /\ sampled[p[1]] = p[2])

LEMMA DiskStep ==
  ASSUME Inv, Act
  PROVE  disk' \in [Keys -> Snapshots \cup {Absent}] /\ TrailersAreTheirs'
<1>1. disk \in [Keys -> Snapshots \cup {Absent}] /\ worker \in Workers
  BY DEF Inv, Typed
<1>2. \A k \in Keys : Fits(disk[k], k)
  BY <1>1 DEF Inv, TrailersAreTheirs, Fits
<1>3. ASSUME NEW flag \in BOOLEAN, NEW k \in Keys, NEW T \in SUBSET Listed(k)
      PROVE  Fits([flag |-> flag, trailer |-> T], k)
  BY ListedIsTrue DEF Fits, Snapshots
<1> DEFINE Good(e) == e \in [Keys -> Snapshots \cup {Absent}] /\ \A k \in Keys : Fits(e[k], k)
<1>4. ASSUME NEW k \in Keys, NEW x, Fits(x, k) PROVE Good([disk EXCEPT ![k] = x])
  BY <1>1, <1>2, <1>4 DEF Fits
<1>5. Good(disk)
  BY <1>1, <1>2
<1>6. ASSUME StoreNew PROVE Good(disk')
  <2> DEFINE k == worker.key
  <2> DEFINE x == [flag |-> worker.est, trailer |-> Listed(k)]
  <2>1. k \in Keys /\ worker.est \in BOOLEAN /\ disk' = [disk EXCEPT ![k] = x]
    BY <1>1, <1>6 DEF StoreNew, Workers
  <2>2. Fits(x, k)
    BY <1>3, <2>1
  <2> HIDE DEF x, k, Good
  <2> QED BY <1>4, <2>1, <2>2
<1>7. ASSUME StoreOver PROVE Good(disk')
  <2> DEFINE k == worker.key
  <2> DEFINE x == [flag |-> disk[k].flag \/ Listed(k) # {}, trailer |-> Listed(k)]
  <2>1. k \in Keys /\ disk' = [disk EXCEPT ![k] = x]
    BY <1>1, <1>7 DEF StoreOver, Workers
  <2>2. Fits(x, k)
    <3> DEFINE g == disk[k].flag \/ Listed(k) # {}
    <3>1. g \in BOOLEAN
      OBVIOUS
    <3> HIDE DEF g
    <3> QED BY <1>3, <2>1, <3>1
  <2> HIDE DEF x, k, Good
  <2> QED BY <1>4, <2>1, <2>2
<1>8. ASSUME StoreFails PROVE Good(disk')
  <2>1. CASE disk' = disk
    BY <1>5, <2>1
  <2>2. CASE worker.over /\ \E T \in SUBSET Listed(worker.key) :
               disk' = [disk EXCEPT ![worker.key].trailer = T]
    <3> DEFINE k == worker.key
    <3>1. PICK T \in SUBSET Listed(k) : disk' = [disk EXCEPT ![k].trailer = T]
      BY <2>2
    <3>2. k \in Keys /\ disk[k] # Absent
      BY <2>2 DEF Inv, OverIsThere
    <3> HIDE DEF k
    <3> DEFINE x == [disk[k] EXCEPT !.trailer = T]
    <3>3. disk[k] = [flag |-> disk[k].flag, trailer |-> disk[k].trailer] /\ disk[k].flag \in BOOLEAN
      BY <1>1, <3>2 DEF Snapshots
    <3>4. x = [flag |-> disk[k].flag, trailer |-> T]
      BY <3>3
    <3>5. Fits(x, k)
      BY <1>3, <3>2, <3>3, <3>4
    <3>6. disk' = [disk EXCEPT ![k] = x]
      BY <3>1
    <3> HIDE DEF x, Good
    <3> QED BY <1>4, <3>2, <3>5, <3>6
  <2> QED BY <1>8, <2>1, <2>2 DEF StoreFails
<1>9. ASSUME NEW k \in Keys, RemoveSnapshot(k) PROVE Good(disk')
  <2>1. disk' = [disk EXCEPT ![k] = Absent] /\ Fits(Absent, k)
    BY <1>9 DEF RemoveSnapshot, Fits
  <2> HIDE DEF Good
  <2> QED BY <1>4, <2>1
<1>10. Good(disk')
  <2>1. ASSUME UNCHANGED disk PROVE Good(disk')
    BY <1>5, <2>1
  <2> HIDE DEF Good
  <2> QED BY <1>6, <1>7, <1>8, <1>9, <2>1, MovesOf
<1>11. TrailersAreTheirs'
  <2>1. ASSUME NEW k \in Keys, disk'[k] # Absent, NEW p \in disk'[k].trailer
        PROVE  p[2] \in Blocks[k] /\ sampled'[p[1]] = p[2]
    <3>1. disk'[k] \in Snapshots /\ p[2] \in Blocks[k] /\ sampled[p[1]] = p[2]
      BY <1>10, <2>1 DEF Fits
    <3>2. p \in Pairs
      BY <3>1 DEF Snapshots
    <3>3. p[1] \in Ids /\ sampled[p[1]] # None
      BY <3>1, <3>2, TextsAreApart DEF Pairs
    <3> QED BY <3>1, <3>3, SampledStays
  <2> QED BY <2>1 DEF TrailersAreTheirs
<1> QED BY <1>10, <1>11

LEMMA WorkerStep ==
  ASSUME Inv, Act
  PROVE  worker' \in Workers /\ OverIsThere' /\ AreTrue(worker.rest)'
<1>1. disk \in [Keys -> Snapshots \cup {Absent}] /\ worker \in Workers
  BY DEF Inv, Typed
<1> DEFINE Good(w) == w \in Workers /\ AreTrue(w.rest)
<1>2. Good(worker)
  BY <1>1 DEF Inv
<1>3. Good(NoStore) /\ ~NoStore.over
  BY DEF NoStore, Workers, AreTrue
<1>4. ASSUME NEW k \in Keys, LoadSnapshot(k) \/ BeginStore(k) PROVE Good(worker')
  <2>1. CASE LoadSnapshot(k)
    <3>1. worker' = [worker EXCEPT !.rest = Trailer(k)]
      BY <2>1 DEF LoadSnapshot
    <3>2. Trailer(k) \in SUBSET Pairs /\ AreTrue(Trailer(k))
      BY TrailerIsTrue
    <3> QED BY <1>1, <3>1, <3>2 DEF Workers
  <2>2. CASE BeginStore(k)
    BY <2>2 DEF BeginStore, Workers, AreTrue
  <2> QED BY <1>4, <2>1, <2>2
<1>5. ASSUME WorkerPuts PROVE Good(worker')
  <2>1. PICK p \in worker.rest : worker' = [worker EXCEPT !.rest = @ \ {p}]
    BY <1>5 DEF WorkerPuts
  <2> QED BY <1>1, <1>2, <2>1 DEF Workers, AreTrue
<1>6. ASSUME StoreNew \/ StoreOver \/ StoreFails \/ Restart PROVE Good(worker')
  BY <1>3, <1>6 DEF StoreNew, StoreOver, StoreFails, Restart
<1>7. Good(worker')
  <2>1. ASSUME UNCHANGED worker PROVE Good(worker')
    BY <1>2, <2>1
  <2> HIDE DEF Good
  <2> QED BY <1>4, <1>5, <1>6, <2>1, MovesOf
<1>8. AreTrue(worker.rest)'
  <2>1. ASSUME NEW p \in worker'.rest PROVE sampled'[p[1]] = p[2]
    <3>1. p \in Pairs /\ sampled[p[1]] = p[2]
      BY <1>7 DEF Workers, AreTrue
    <3>2. p[1] \in Ids /\ sampled[p[1]] # None
      BY <3>1, TextsAreApart DEF Pairs
    <3> QED BY <3>1, <3>2, SampledStays
  <2> QED BY <2>1 DEF AreTrue
<1>9. OverIsThere'
  <2>1. OverIsThere /\ ~NoStore.over
    BY <1>3 DEF Inv
  <2>2. ASSUME NEW k \in Keys, LoadSnapshot(k) PROVE OverIsThere'
    BY <1>1, <1>3, <2>2 DEF LoadSnapshot, Ready, OverIsThere, Workers
  <2>3. ASSUME NEW k \in Keys, BeginStore(k) PROVE OverIsThere'
    BY <2>3 DEF BeginStore, OverIsThere
  <2>4. ASSUME NEW k \in Keys, RemoveSnapshot(k) PROVE OverIsThere'
    BY <2>4 DEF RemoveSnapshot, OverIsThere
  <2>5. ASSUME WorkerPuts PROVE OverIsThere'
    BY <1>1, <2>1, <2>5 DEF WorkerPuts, OverIsThere, Workers
  <2>6. ASSUME StoreNew \/ StoreOver \/ StoreFails \/ Restart PROVE OverIsThere'
    BY <2>1, <2>6 DEF StoreNew, StoreOver, StoreFails, Restart, OverIsThere
  <2>7. ASSUME UNCHANGED <<disk, worker>> PROVE OverIsThere'
    BY <2>1, <2>7 DEF OverIsThere
  <2>8. \/ \E k \in Keys : LoadSnapshot(k) \/ BeginStore(k) \/ RemoveSnapshot(k)
        \/ WorkerPuts \/ StoreNew \/ StoreOver \/ StoreFails \/ Restart
        \/ UNCHANGED <<disk, worker>>
    BY MovesOf
  <2> QED BY <2>2, <2>3, <2>4, <2>5, <2>6, <2>7, <2>8
<1> QED BY <1>7, <1>8, <1>9

(* All the calls of a message must have one text, and then it is that one. *)
LEMMA ReplayedIs ==
  ASSUME mem \in Mems, NEW calls \in Seq(Ids)
  PROVE  /\ Replayed(calls) \in Texts \cup {None}
         /\ Replayed(calls) # None =>
              \A i \in ToSet(calls) : mem.text[i] = Replayed(calls)
         /\ (ToSet(calls) \subseteq Held(mem)
              /\ Cardinality({mem.text[i] : i \in ToSet(calls)}) = 1)
              => Replayed(calls) # None
<1> DEFINE I == ToSet(calls)
<1> DEFINE found == {mem.text[i] : i \in I}
<1>1. I \subseteq Ids /\ mem.text \in [Ids -> Texts \cup {None}]
  BY InToSet DEF Mems, MemType
<1>2. Replayed(calls) = IF Cardinality(found) = 1 THEN CHOOSE d \in found : TRUE ELSE None
  BY DEF Replayed, OneText
<1> HIDE DEF I
<1>3. IsFiniteSet(found)
  <2>1. [i \in I |-> mem.text[i]] \in Surjection(I, found)
    BY DEF Surjection
  <2>2. IsFiniteSet(I)
    BY <1>1, IdsFinite, FS_Subset
  <2> HIDE DEF found
  <2> QED BY <2>1, <2>2, FS_Surjection
<1>4. ASSUME Cardinality(found) = 1
      PROVE  /\ Replayed(calls) \in found /\ \A i \in I : mem.text[i] = Replayed(calls)
  <2>1. PICK x : found = {x}
    <3> HIDE DEF found
    <3> QED BY <1>3, <1>4, FS_Singleton
  <2>2. Replayed(calls) = x
    BY <1>2, <1>4, <2>1
  <2> QED BY <2>1, <2>2
<1>5. found \subseteq Texts \cup {None}
  BY <1>1
<1>6. I \subseteq Held(mem) => None \notin found
  BY DEF Held
<1>7. Cardinality(found) # 1 => Replayed(calls) = None
  BY <1>2
<1> HIDE DEF found
<1>8. Replayed(calls) \in Texts \cup {None}
  BY <1>4, <1>5, <1>7
<1>9. Replayed(calls) # None => \A i \in I : mem.text[i] = Replayed(calls)
  BY <1>4, <1>7
<1>10. I \subseteq Held(mem) /\ Cardinality(found) = 1 => Replayed(calls) # None
  BY <1>4, <1>6
<1> QED BY <1>8, <1>9, <1>10 DEF I, found

LEMMA ClientStep ==
  ASSUME Inv, Act
  PROVE  client' \in [Clients -> Requested] /\ \A c \in Clients : AreTrue(client[c].rest)'
<1>1. /\ client \in [Clients -> Requested] /\ mem \in Mems
      /\ \A c \in Clients : AreTrue(client[c].rest)
  BY DEF Inv, Typed
<1> DEFINE Fit(x) == x \in Requested /\ AreTrue(x.rest)
<1> DEFINE Good(e) == e \in [Clients -> Requested] /\ \A c \in Clients : AreTrue(e[c].rest)
<1>2. ASSUME NEW c \in Clients, NEW x, Fit(x) PROVE Good([client EXCEPT ![c] = x])
  BY <1>1, <1>2
<1>3. ASSUME NEW c \in Clients
      PROVE  client[c] = [busy |-> client[c].busy, asked |-> client[c].asked,
                          unread |-> client[c].unread, rest |-> client[c].rest,
                          said |-> client[c].said]
             /\ client[c] \in Requested
  BY <1>1 DEF Requested
<1>4. ASSUME NEW c \in Clients, NEW r \in Requests, Ask(c, r) PROVE Good(client')
  <2> DEFINE x == [busy |-> TRUE, asked |-> r, unread |-> Keys, rest |-> {}, said |-> <<>>]
  <2>1. client' = [client EXCEPT ![c] = x]
    BY <1>4 DEF Ask
  <2>2. Fit(x)
    BY DEF Requested, AreTrue
  <2> HIDE DEF x, Good, Fit
  <2> QED BY <1>2, <2>1, <2>2
<1>5. ASSUME NEW c \in Clients, NEW k \in Keys, ReadTrailer(c, k) PROVE Good(client')
  <2> DEFINE T == {p \in Trailer(k) : p[1] \in Wanted(client[c].asked)}
  <2> DEFINE x == [client[c] EXCEPT !.unread = @ \ {k}, !.rest = T]
  <2>1. client' = [client EXCEPT ![c] = x]
    BY <1>5 DEF ReadTrailer
  <2>2. T \in SUBSET Pairs /\ AreTrue(T)
    BY TrailerIsTrue DEF AreTrue
  <2> HIDE DEF T
  <2>3. Fit(x)
    BY <1>3, <2>2 DEF Requested
  <2> HIDE DEF x, Good, Fit
  <2> QED BY <1>2, <2>1, <2>3
<1>6. ASSUME NEW c \in Clients, ClientPuts(c) PROVE Good(client')
  <2>1. PICK p \in client[c].rest : client' = [client EXCEPT ![c].rest = @ \ {p}]
    BY <1>6 DEF ClientPuts
  <2> DEFINE x == [client[c] EXCEPT !.rest = @ \ {p}]
  <2>2. client' = [client EXCEPT ![c] = x]
    BY <2>1
  <2>3. Fit(x)
    BY <1>1, <1>3 DEF Requested, AreTrue
  <2> HIDE DEF x, Good, Fit
  <2> QED BY <1>2, <2>2, <2>3
<1>7. ASSUME NEW c \in Clients, Attach(c) PROVE Good(client')
  <2> DEFINE a == client[c].asked
  <2> DEFINE s == [m \in DOMAIN a |-> Replayed(a[m])]
  <2> DEFINE x == [client[c] EXCEPT !.busy = FALSE, !.said = s]
  <2>1. client' = [client EXCEPT ![c] = x]
    BY <1>7 DEF Attach
  <2>2. a \in Seq(Seq(Ids))
    <3>1. a \in Requests \cup {<<>>}
      BY <1>3 DEF Requested
    <3>2. <<>> \in Seq(Seq(Ids)) /\ Requests \subseteq Seq(Seq(Ids))
      BY RequestsAreIds
    <3> HIDE DEF a
    <3> QED BY <3>1, <3>2
  <2>3. s \in Seq(Texts \cup {None})
    <3> HIDE DEF a
    <3>1. Len(a) \in Nat /\ DOMAIN a = 1..Len(a) /\ \A m \in DOMAIN a : a[m] \in Seq(Ids)
      BY <2>2
    <3>2. \A m \in DOMAIN a : Replayed(a[m]) \in Texts \cup {None}
      BY <1>1, <3>1, ReplayedIs
    <3>3. s \in [1..Len(a) -> Texts \cup {None}]
      BY <3>1, <3>2
    <3> HIDE DEF s
    <3> QED BY <3>1, <3>3
  <2> HIDE DEF s
  <2>4. Fit(x)
    BY <1>1, <1>3, <2>3 DEF Requested
  <2> HIDE DEF x, Good, Fit
  <2> QED BY <1>2, <2>1, <2>4
<1>8. ASSUME Restart PROVE Good(client')
  <2>1. client' = [c \in Clients |-> NoRequest]
    BY <1>8 DEF Restart
  <2>2. Fit(NoRequest)
    BY DEF NoRequest, Requested, AreTrue
  <2> QED BY <2>1, <2>2
<1>9. Good(client')
  <2>1. ASSUME UNCHANGED client PROVE Good(client')
    BY <1>1, <2>1
  <2> HIDE DEF Good
  <2> QED BY <1>4, <1>5, <1>6, <1>7, <1>8, <2>1, MovesOf
<1>10. ASSUME NEW c \in Clients PROVE AreTrue(client[c].rest)'
  <2>1. ASSUME NEW p \in client'[c].rest PROVE sampled'[p[1]] = p[2]
    <3>1. p \in Pairs /\ sampled[p[1]] = p[2]
      BY <1>9 DEF Requested, AreTrue
    <3>2. p[1] \in Ids /\ sampled[p[1]] # None
      BY <3>1, TextsAreApart DEF Pairs
    <3> QED BY <3>1, <3>2, SampledStays
  <2> QED BY <2>1 DEF AreTrue
<1> QED BY <1>9, <1>10

(* A client is answered, asks anew, or keeps what it has. *)
LEMMA AnswerMoves ==
  ASSUME Inv, Act, NEW c \in Clients
  PROVE  \/ client'[c].said = <<>>
         \/ /\ client'[c].said = client[c].said /\ client'[c].asked = client[c].asked
            /\ client'[c].busy = client[c].busy
         \/ Attach(c)
<1>1. client \in [Clients -> Requested]
  BY DEF Inv, Typed
<1> DEFINE Goal == \/ client'[c].said = <<>>
                   \/ /\ client'[c].said = client[c].said /\ client'[c].asked = client[c].asked
                      /\ client'[c].busy = client[c].busy
                   \/ Attach(c)
<1>2. ASSUME NEW b \in Clients, NEW r \in Requests, Ask(b, r) PROVE Goal
  BY <1>1, <1>2 DEF Ask
<1>3. ASSUME NEW b \in Clients, NEW k \in Keys, ReadTrailer(b, k) PROVE Goal
  BY <1>1, <1>3 DEF ReadTrailer, Requested
<1>4. ASSUME NEW b \in Clients, ClientPuts(b) PROVE Goal
  BY <1>1, <1>4 DEF ClientPuts, Requested
<1>5. ASSUME NEW b \in Clients, Attach(b) PROVE Goal
  <2>1. CASE b = c
    BY <1>5, <2>1
  <2>2. CASE b # c
    BY <1>1, <1>5, <2>2 DEF Attach
  <2> QED BY <2>1, <2>2
<1>6. ASSUME Restart PROVE Goal
  BY <1>6 DEF Restart, NoRequest
<1>7. ASSUME UNCHANGED client PROVE Goal
  BY <1>7
<1> HIDE DEF Goal
<1>8. Goal
  BY <1>2, <1>3, <1>4, <1>5, <1>6, <1>7, MovesOf
<1> QED BY <1>8 DEF Goal

LEMMA BusyMoves ==
  ASSUME Inv, Act, NEW c \in Clients, client'[c].busy
  PROVE  \/ \E r \in Requests : Ask(c, r)
         \/ /\ client[c].busy /\ client'[c].asked = client[c].asked
            /\ client'[c].said = client[c].said
            /\ client'[c].unread = client[c].unread \/ \E k \in Keys : ReadTrailer(c, k)
<1>1. client \in [Clients -> Requested]
  BY DEF Inv, Typed
<1> DEFINE Goal == \/ \E r \in Requests : Ask(c, r)
                   \/ /\ client[c].busy /\ client'[c].asked = client[c].asked
                      /\ client'[c].said = client[c].said
                      /\ client'[c].unread = client[c].unread \/ \E k \in Keys : ReadTrailer(c, k)
<1>2. ASSUME NEW b \in Clients, NEW r \in Requests, Ask(b, r) PROVE Goal
  <2>1. CASE b = c
    BY <1>2, <2>1
  <2>2. CASE b # c
    BY <1>1, <1>2, <2>2 DEF Ask
  <2> QED BY <2>1, <2>2
<1>3. ASSUME NEW b \in Clients, NEW k \in Keys, ReadTrailer(b, k) PROVE Goal
  <2>1. CASE b = c
    <3>1. client'[c].busy = client[c].busy /\ client'[c].asked = client[c].asked
          /\ client'[c].said = client[c].said
      BY <1>1, <1>3, <2>1 DEF ReadTrailer, Requested
    <3> QED BY <1>3, <2>1, <3>1
  <2>2. CASE b # c
    BY <1>1, <1>3, <2>2 DEF ReadTrailer
  <2> QED BY <2>1, <2>2
<1>4. ASSUME NEW b \in Clients, ClientPuts(b) PROVE Goal
  BY <1>1, <1>4 DEF ClientPuts, Requested
<1>5. ASSUME NEW b \in Clients, Attach(b) PROVE Goal
  BY <1>1, <1>5 DEF Attach, Requested
<1>6. ASSUME Restart PROVE Goal
  BY <1>6 DEF Restart, NoRequest
<1>7. ASSUME UNCHANGED client PROVE Goal
  BY <1>7
<1> HIDE DEF Goal
<1>8. Goal
  BY <1>2, <1>3, <1>4, <1>5, <1>6, <1>7, MovesOf
<1> QED BY <1>8 DEF Goal

(* An id found known stays within reach of its client, or was taken away   *)
(* and counts no longer.                                                   *)
LEMMA KnownStep ==
  ASSUME Inv, Act, Observe
  PROVE  known' \in [Clients -> SUBSET Ids] /\ KnownAreDrawn'
         /\ \A c \in Clients : Reachable(c)'
<1>1. /\ known \in [Clients -> SUBSET Ids] /\ client \in [Clients -> Requested]
      /\ drawn \in 0..MaxIds /\ drawn' \in 0..MaxIds /\ drawn <= drawn' /\ MaxIds \in Nat
      /\ \A c \in Clients : known[c] \subseteq 0..drawn
  BY SampledStays, IdsFinite DEF Inv, Typed, KnownAreDrawn
<1>2. \A c \in Clients :
        known'[c] = IF client'[c].busy /\ ~client[c].busy
                      THEN Named(client'[c].asked) \cap (Held(mem) \cup OnDisk)
                    ELSE IF NothingLost THEN known[c] ELSE {}
  BY DEF Observe
<1>3. ASSUME NEW c \in Clients, NEW r \in Requests, Ask(c, r)
      PROVE  /\ known'[c] = Named(r) \cap (Held(mem) \cup OnDisk)
             /\ Named(r) \subseteq 0..drawn
             /\ client'[c].said = <<>> /\ client'[c].asked = r /\ client'[c].unread = Keys
             /\ UNCHANGED <<mem, disk>>
  <2>1. client'[c] = [busy |-> TRUE, asked |-> r, unread |-> Keys, rest |-> {}, said |-> <<>>]
        /\ ~client[c].busy /\ Named(r) \subseteq 0..drawn /\ UNCHANGED <<mem, disk>>
    BY <1>1, <1>3 DEF Ask
  <2> DEFINE x == client'[c]
  <2>2. x.busy /\ x.said = <<>> /\ x.asked = r /\ x.unread = Keys
    BY <2>1
  <2> QED BY <1>2, <2>1, <2>2
<1>4. ASSUME NEW c \in Clients
      PROVE  known'[c] \subseteq 0..drawn' /\ known'[c] \in SUBSET Ids
  <2>1. CASE client'[c].busy /\ ~client[c].busy
    <3>1. PICK r \in Requests : Ask(c, r)
      BY <2>1, BusyMoves
    <3>2. known'[c] \subseteq 0..drawn
      BY <1>3, <3>1
    <3> QED BY <1>1, <3>2 DEF Ids
  <2>2. CASE ~(client'[c].busy /\ ~client[c].busy)
    <3>1. known'[c] \subseteq known[c]
      BY <1>2, <2>2
    <3>2. known[c] \subseteq 0..drawn
      BY <1>1
    <3> QED BY <1>1, <3>1, <3>2 DEF Ids
  <2> QED BY <2>1, <2>2
<1>5. known' \in [Clients -> SUBSET Ids] /\ KnownAreDrawn'
  <2>1. known' = [c \in Clients |-> known'[c]]
    BY DEF Observe
  <2> QED BY <1>4, <2>1 DEF KnownAreDrawn
<1>6. ASSUME NEW c \in Clients, client'[c].busy
      PROVE  /\ client'[c].said = <<>> /\ known'[c] \subseteq Named(client'[c].asked)
             /\ \A i \in known'[c] : InReach(c, i)'
  <2>1. ASSUME NEW r \in Requests, Ask(c, r)
        PROVE  /\ client'[c].said = <<>> /\ known'[c] \subseteq Named(client'[c].asked)
               /\ \A i \in known'[c] : InReach(c, i)'
    <3>1. client'[c].said = <<>> /\ client'[c].asked = r /\ client'[c].unread = Keys
      BY <1>3, <2>1
    <3>2. known'[c] \subseteq Named(client'[c].asked)
      BY <1>3, <2>1, <3>1
    <3>3. ASSUME NEW i \in known'[c] PROVE InReach(c, i)'
      <4>1. CASE i \in Held(mem)
        BY <1>3, <2>1, <4>1 DEF InReach, Held
      <4>2. CASE i \in OnDisk
        <5>1. PICK k \in Keys : \E p \in Trailer(k) : p[1] = i
          BY <4>2 DEF OnDisk
        <5>2. Trailer(k)' = Trailer(k)
          BY <1>3, <2>1 DEF Trailer
        <5> QED BY <3>1, <5>1, <5>2 DEF InReach
      <4> QED BY <1>3, <2>1, <4>1, <4>2
    <3> QED BY <3>1, <3>2, <3>3
  <2>2. CASE /\ client[c].busy /\ client'[c].asked = client[c].asked
             /\ client'[c].said = client[c].said
             /\ client'[c].unread = client[c].unread \/ \E k \in Keys : ReadTrailer(c, k)
    <3>1. /\ client[c].said = <<>> /\ known[c] \subseteq Named(client[c].asked)
          /\ \A i \in known[c] : InReach(c, i)
      BY <2>2 DEF Inv, Reachable
    <3>2. known'[c] \subseteq known[c] /\ (known'[c] # {} => NothingLost)
      BY <1>2, <2>2
    <3>3. ASSUME NEW i \in known'[c] PROVE InReach(c, i)'
      <4>1. NothingLost /\ InReach(c, i) /\ i \in Named(client[c].asked)
        BY <3>1, <3>2
      <4>2. CASE i \in Held(mem)
        BY <4>1, <4>2 DEF NothingLost, InReach, Held
      <4>3. ASSUME NEW p \in client[c].rest, p[1] = i PROVE InReach(c, i)'
        <5>1. p \in client'[c].rest \/ i \in Held(mem')
          BY <4>1, <4>3 DEF NothingLost
        <5> QED BY <4>3, <5>1 DEF InReach, Held
      <4>4. ASSUME NEW k \in client[c].unread, NEW p \in Trailer(k), p[1] = i
            PROVE  InReach(c, i)'
        <5>1. k \in Keys
          BY <1>1 DEF Requested
        <5>2. p \in Trailer(k)'
          BY <4>1, <4>4, <5>1 DEF NothingLost
        <5>3. CASE k \in client'[c].unread
          BY <4>4, <5>2, <5>3 DEF InReach
        <5>4. CASE k \notin client'[c].unread
          <6>1. PICK b \in Keys : ReadTrailer(c, b)
            BY <2>2, <4>4, <5>4
          <6>2. /\ client'[c].unread = client[c].unread \ {b}
                /\ client'[c].rest = {q \in Trailer(b) : q[1] \in Wanted(client[c].asked)}
            BY <1>1, <6>1 DEF ReadTrailer, Requested
          <6>3. p \in client'[c].rest
            BY <4>1, <4>4, <5>4, <6>2 DEF Wanted
          <6> QED BY <4>4, <6>3 DEF InReach
        <5> QED BY <5>3, <5>4
      <4> QED BY <4>1, <4>2, <4>3, <4>4 DEF InReach
    <3> QED BY <2>2, <3>1, <3>2, <3>3
  <2> QED BY <1>6, <2>1, <2>2, BusyMoves
<1>7. ASSUME NEW c \in Clients PROVE Reachable(c)'
  BY <1>6 DEF Reachable
<1> QED BY <1>5, <1>7

(* An answer is right when it is given, and stays so. *)
LEMMA AnswerStep ==
  ASSUME Inv, Act, Observe
  PROVE  SaidIsAsked' /\ Verbatim' /\ KnownIsReplayed'
<1>1. /\ client \in [Clients -> Requested] /\ mem \in Mems
      /\ known \in [Clients -> SUBSET Ids]
      /\ \A i \in Ids : mem.text[i] \in {None, sampled[i]}
      /\ \A i \in Ids : i > drawn => sampled[i] = None
      /\ \A c \in Clients : known[c] \subseteq 0..drawn
  BY DEF Inv, Typed, TextsTrue, KnownAreDrawn
<1>2. /\ \A i \in Ids : i <= drawn => sampled'[i] = sampled[i]
      /\ \A i \in Ids : sampled[i] # None => sampled'[i] = sampled[i]
      /\ drawn \in Nat
  BY SampledStays DEF Inv, Typed
<1>3. ASSUME NEW c \in Clients, client'[c].said # <<>>
      PROVE  known'[c] \subseteq known[c] /\ \A i \in known'[c] : sampled'[i] = sampled[i]
  <2>1. ~(client'[c].busy /\ ~client[c].busy)
    BY <1>1, <1>3, AnswerMoves DEF Attach, Requested
  <2>2. known'[c] \subseteq known[c]
    BY <2>1 DEF Observe
  <2>3. \A i \in known[c] : i \in Ids /\ i <= drawn
    BY <1>1, <1>2
  <2> QED BY <1>2, <2>2, <2>3
<1>4. ASSUME NEW c \in Clients, NEW m \in DOMAIN client'[c].said
      PROVE  client'[c].said # <<>>
  BY <1>4
<1>7. ASSUME NEW c \in Clients PROVE client[c].asked \in Seq(Seq(Ids))
  <2> DEFINE a == client[c].asked
  <2>1. a \in Requests \cup {<<>>}
    BY <1>1 DEF Requested
  <2>2. <<>> \in Seq(Seq(Ids)) /\ Requests \subseteq Seq(Seq(Ids))
    BY RequestsAreIds
  <2> HIDE DEF a
  <2>3. a \in Seq(Seq(Ids))
    BY <2>1, <2>2
  <2> QED BY <2>3 DEF a
<1>5. ASSUME NEW c \in Clients, Attach(c), NEW m \in DOMAIN client'[c].said
      PROVE  /\ client'[c].asked = client[c].asked /\ client[c].asked[m] \in Seq(Ids)
             /\ m \in DOMAIN client[c].asked
             /\ client'[c].said[m] = Replayed(client[c].asked[m])
             /\ client[c].busy /\ client[c].rest = {} /\ client[c].unread = {}
  <2> DEFINE a == client[c].asked
  <2> DEFINE s == [b \in DOMAIN a |-> Replayed(a[b])]
  <2>1. client'[c] = [client[c] EXCEPT !.busy = FALSE, !.said = s]
    BY <1>1, <1>5 DEF Attach
  <2>2. client'[c].asked = a /\ client'[c].said = s
    <3> HIDE DEF s, a
    <3>1. client[c] \in Requested
      BY <1>1
    <3>2. client'[c].said = s
      BY <2>1, <3>1 DEF Requested
    <3>3. client'[c].asked = client[c].asked
      BY <2>1, <3>1 DEF Requested
    <3> QED BY <3>2, <3>3 DEF a
  <2>3. a \in Seq(Seq(Ids))
    BY <1>7
  <2>4. m \in DOMAIN a
    BY <1>5, <2>2
  <2>5. a[m] \in Seq(Ids)
    <3> HIDE DEF a
    <3> QED BY <2>3, <2>4
  <2> QED BY <1>5, <2>2, <2>4, <2>5 DEF Attach
<1>6. Verbatim'
  <2>1. ASSUME NEW c \in Clients, NEW m \in DOMAIN client'[c].said,
               client'[c].said[m] # None, NEW i \in ToSet(client'[c].asked[m])
        PROVE  sampled'[i] = client'[c].said[m]
    <3>1. CASE /\ client'[c].said = client[c].said /\ client'[c].asked = client[c].asked
      <4>1. sampled[i] = client[c].said[m] /\ sampled[i] # None
        BY <2>1, <3>1 DEF Inv, Verbatim
      <4>2. i \in Ids
        <5> DEFINE a == client[c].asked
        <5>1. a \in Seq(Seq(Ids)) /\ m \in DOMAIN a /\ i \in ToSet(a[m])
          BY <1>7, <2>1, <3>1 DEF Inv, SaidIsAsked
        <5> HIDE DEF a
        <5>2. a[m] \in Seq(Ids)
          BY <5>1
        <5> QED BY <5>1, <5>2, InToSet
      <4> QED BY <1>2, <3>1, <4>1, <4>2
    <3>2. CASE Attach(c)
      <4> DEFINE calls == client[c].asked[m]
      <4>1. calls \in Seq(Ids) /\ client'[c].said[m] = Replayed(calls) /\ i \in ToSet(calls)
        BY <1>5, <2>1, <3>2
      <4> HIDE DEF calls
      <4>2. mem.text[i] = Replayed(calls) /\ i \in Ids
        BY <1>1, <2>1, <4>1, ReplayedIs, InToSet
      <4>3. sampled[i] = Replayed(calls) /\ sampled[i] # None
        BY <1>1, <2>1, <4>1, <4>2
      <4> QED BY <1>2, <4>1, <4>2, <4>3
    <3> QED BY <1>4, <2>1, <3>1, <3>2, AnswerMoves
  <2> QED BY <2>1 DEF Verbatim
<1>8. SaidIsAsked'
  <2>1. ASSUME NEW c \in Clients, NEW m \in DOMAIN client'[c].said
        PROVE  m \in DOMAIN client'[c].asked
    <3>1. CASE client'[c].said = client[c].said /\ client'[c].asked = client[c].asked
      BY <3>1, <2>1 DEF Inv, SaidIsAsked
    <3>2. CASE Attach(c)
      BY <1>5, <2>1, <3>2
    <3> QED BY <1>4, <3>1, <3>2, AnswerMoves
  <2> QED BY <2>1 DEF SaidIsAsked
<1>9. KnownIsReplayed'
  <2>1. ASSUME NEW c \in Clients, NEW m \in DOMAIN client'[c].said,
               ToSet(client'[c].asked[m]) \subseteq known'[c],
               Cardinality({sampled'[i] : i \in ToSet(client'[c].asked[m])}) = 1
        PROVE  client'[c].said[m] # None
    <3> DEFINE I == ToSet(client'[c].asked[m])
    <3>1. I \subseteq known[c] /\ \A i \in I : sampled'[i] = sampled[i]
      BY <1>3, <1>4, <2>1
    <3>2. {sampled'[i] : i \in I} = {sampled[i] : i \in I}
      BY <3>1
    <3>3. Cardinality({sampled[i] : i \in I}) = 1
      BY <2>1, <3>2
    <3>4. CASE client'[c].said = client[c].said /\ client'[c].asked = client[c].asked
      BY <2>1, <3>1, <3>3, <3>4 DEF Inv, KnownIsReplayed
    <3>5. CASE Attach(c)
      <4> DEFINE calls == client[c].asked[m]
      <4>1. calls \in Seq(Ids) /\ client'[c].said[m] = Replayed(calls) /\ I = ToSet(calls)
            /\ client[c].busy /\ client[c].rest = {} /\ client[c].unread = {}
        BY <1>5, <2>1, <3>5
      <4> HIDE DEF calls, I
      <4>2. I \subseteq Held(mem)
        BY <3>1, <4>1 DEF Inv, Reachable, InReach
      <4>3. \A i \in I : mem.text[i] = sampled[i]
        BY <1>1, <4>2 DEF Held
      <4>4. {mem.text[i] : i \in I} = {sampled[i] : i \in I}
        BY <4>3
      <4>5. Cardinality({mem.text[i] : i \in ToSet(calls)}) = 1
        BY <3>3, <4>1, <4>4
      <4> QED BY <1>1, <4>1, <4>2, <4>5, ReplayedIs
    <3> QED BY <1>4, <2>1, <3>4, <3>5, AnswerMoves
  <2> QED BY <2>1 DEF KnownIsReplayed
<1> QED BY <1>6, <1>8, <1>9

(***************************************************************************)
(* The theorems.                                                           *)
(***************************************************************************)
LEMMA InitHolds == Init => Inv
<1> SUFFICES ASSUME Init PROVE Inv
  OBVIOUS
<1> USE DEF Init
<1>1. client = [c \in Clients |-> NoRequest] /\ NoRequest \in Requested
      /\ ~NoRequest.busy /\ NoRequest.said = <<>> /\ NoRequest.rest = {}
  BY DEF NoRequest, Requested
<1>2. Typed
  <2>1. worker \in Workers
    BY DEF NoStore, Workers
  <2> QED BY <1>1, <2>1, EmptyMem, IdsFinite DEF Typed
<1>3. ~OverLimit(mem)
  <2>1. Len(Forgotten.lru) = 0 /\ Forgotten.bytes = 0
    BY DEF Forgotten
  <2> QED BY <2>1, IdsFinite DEF OverLimit
<1>4. TextsTrue
  BY DEF TextsTrue, Forgotten
<1>5. TrailersAreTheirs /\ OverIsThere /\ AreTrue(worker.rest) /\ KnownAreDrawn
  BY DEF TrailersAreTheirs, OverIsThere, AreTrue, NoStore, KnownAreDrawn
<1>6. ASSUME NEW c \in Clients
      PROVE  ~client[c].busy /\ client[c].said = <<>> /\ client[c].rest = {}
  BY <1>1
<1>7. /\ \A c \in Clients : AreTrue(client[c].rest) /\ Reachable(c)
      /\ SaidIsAsked /\ Verbatim /\ KnownIsReplayed
  BY <1>6 DEF AreTrue, Reachable, SaidIsAsked, Verbatim, KnownIsReplayed
<1> QED BY <1>2, <1>3, <1>4, <1>5, <1>7 DEF Inv

LEMMA NextHolds == Inv /\ [Next]_vars => Inv'
<1> SUFFICES ASSUME Inv, [Next]_vars PROVE Inv'
  OBVIOUS
<1>1. CASE Next
  <2>1. Act /\ Observe
    BY <1>1 DEF Next
  <2>2. mem' \in Mems /\ ~OverLimit(mem)' /\ TextsTrue'
    BY <2>1, MemStep
  <2>3. disk' \in [Keys -> Snapshots \cup {Absent}] /\ TrailersAreTheirs'
    BY <2>1, DiskStep
  <2>4. worker' \in Workers /\ OverIsThere' /\ AreTrue(worker.rest)'
    BY <2>1, WorkerStep
  <2>5. client' \in [Clients -> Requested] /\ \A c \in Clients : AreTrue(client[c].rest)'
    BY <2>1, ClientStep
  <2>6. known' \in [Clients -> SUBSET Ids] /\ KnownAreDrawn' /\ \A c \in Clients : Reachable(c)'
    BY <2>1, KnownStep
  <2>7. SaidIsAsked' /\ Verbatim' /\ KnownIsReplayed'
    BY <2>1, AnswerStep
  <2>8. drawn' \in 0..MaxIds /\ sampled' \in [Ids -> Texts \cup {None}]
    BY <2>1, SampledStays
  <2>9. Typed'
    BY <2>2, <2>3, <2>4, <2>5, <2>6, <2>8 DEF Typed, Workers, Requested, Snapshots, Mems, MemType
  <2> QED BY <2>2, <2>3, <2>4, <2>5, <2>6, <2>7, <2>9 DEF Inv
<1>2. CASE UNCHANGED vars
  <2>1. UNCHANGED <<mem, disk, client, worker, drawn, sampled, known>>
    BY <1>2 DEF vars
  <2>2. Typed' /\ ~OverLimit(mem)' /\ TextsTrue'
    BY <2>1 DEF Inv, Typed, TextsTrue, OverLimit
  <2>3. TrailersAreTheirs' /\ OverIsThere' /\ AreTrue(worker.rest)'
        /\ \A c \in Clients : AreTrue(client[c].rest)'
    BY <2>1 DEF Inv, TrailersAreTheirs, OverIsThere, AreTrue
  <2>4. KnownAreDrawn'
    BY <2>1 DEF Inv, KnownAreDrawn
  <2>5. ASSUME NEW c \in Clients PROVE Reachable(c)'
    <3>1. Reachable(c) /\ \A k \in Keys : Trailer(k)' = Trailer(k)
      BY <2>1 DEF Inv, Trailer
    <3>2. client[c].unread \subseteq Keys
      BY DEF Inv, Typed, Requested
    <3>3. ASSUME NEW i \in Ids, InReach(c, i) PROVE InReach(c, i)'
      BY <2>1, <3>1, <3>2, <3>3 DEF InReach, Held
    <3>4. known[c] \subseteq Ids
      BY DEF Inv, Typed
    <3> QED BY <2>1, <3>1, <3>3, <3>4 DEF Reachable
  <2>6. SaidIsAsked' /\ Verbatim' /\ KnownIsReplayed'
    <3>1. SaidIsAsked'
      BY <2>1 DEF Inv, SaidIsAsked
    <3>2. Verbatim'
      BY <2>1 DEF Inv, Verbatim
    <3>3. KnownIsReplayed'
      BY <2>1 DEF Inv, KnownIsReplayed
    <3> QED BY <3>1, <3>2, <3>3
  <2> QED BY <2>2, <2>3, <2>4, <2>5, <2>6 DEF Inv
<1> QED BY <1>1, <1>2

LEMMA Invariance == Spec => []Inv
BY InitHolds, NextHolds, PTL DEF Spec

(* Every variable keeps its type. *)
THEOREM TypeCorrect == Spec => []TypeOK
<1>1. Inv => TypeOK
  BY DEF Inv, Typed, TypeOK, Mems, MemType, Workers
<1> QED BY <1>1, Invariance, PTL

(* Whenever tool_mu is free the list, the texts, the references of the     *)
(* blocks and the bytes agree, though the subtractions saturate at 0, and  *)
(* neither limit is exceeded: pruning comes neither too early nor never.   *)
THEOREM CountersAreExact == Spec => []Accounted
<1>1. Inv => Accounted
  <2> SUFFICES ASSUME Inv PROVE Accounted
    OBVIOUS
  <2>1. /\ mem.lru \in Seq(Ids) /\ Once(mem.lru) /\ ToSet(mem.lru) = Held(mem)
        /\ \A d \in Texts : mem.refs[d] = Cardinality(UsesOf(mem.text, d))
        /\ mem.bytes = EntryBytes * Len(mem.lru) + SumOf(Size, Blocked(mem.text))
        /\ ~OverLimit(mem)
    BY DEF Inv, Typed, Mems, MemType
  <2>2. Len(mem.lru) = Cardinality(Held(mem))
    BY <2>1, LenOfOnce
  <2>3. \A d \in Texts : EntriesOf(d) = UsesOf(mem.text, d)
    BY DEF EntriesOf, UsesOf
  <2>4. {d \in Texts : EntriesOf(d) # {}} = Blocked(mem.text)
    BY <2>3 DEF Blocked
  <2>5. MapThenSumSet(LAMBDA d : Size[d], Blocked(mem.text)) = SumOf(Size, Blocked(mem.text))
    BY DEF SumOf
  <2>6. MapThenSumSet(LAMBDA d : Size[d], {d \in Texts : EntriesOf(d) # {}})
          = SumOf(Size, Blocked(mem.text))
    BY <2>4, <2>5
  <2> QED BY <2>1, <2>2, <2>3, <2>6 DEF Accounted
<1> QED BY <1>1, Invariance, PTL

(* What tool_memory_attach_to_messages puts back is what the model wrote   *)
(* under every id of the message, whatever ran between the restore of the  *)
(* trailers and the attaching.                                             *)
THEOREM ReplayIsVerbatim == Spec => []Verbatim
<1>1. Inv => Verbatim
  BY DEF Inv
<1> QED BY <1>1, Invariance, PTL

(* The trailer behind a snapshot holds calls of its own text, with what    *)
(* the model wrote, whenever the memory changed under the store.           *)
THEOREM TrailersHoldTheirOwn == Spec => []TrailersAreTheirs
<1>1. Inv => TrailersAreTheirs
  BY DEF Inv
<1> QED BY <1>1, Invariance, PTL

(* A message whose ids the request found in memory or behind a snapshot is *)
(* replayed, file after file restored in any order under a lock each, if   *)
(* no limit, store or removal took an id away since.                       *)
THEOREM TheKnownAreReplayed == Spec => []KnownIsReplayed
<1>1. Inv => KnownIsReplayed
  BY DEF Inv
<1> QED BY <1>1, Invariance, PTL
=============================================================================
