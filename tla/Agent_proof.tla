----------------------------- MODULE Agent_proof -----------------------------
(***************************************************************************)
(* Proofs about the model thread of ds4-agent and its two front ends, for  *)
(* any number of messages, keys, tool rounds and questions.                *)
(*                                                                         *)
(* Messages: each is in one place on its way to the transcript, and the    *)
(* headless run keeps their order.  What the worker does to them is proved *)
(* once (WorkerCarries) and used with both front ends.                     *)
(*                                                                         *)
(* The headless run decides on the status alone, so its invariant says     *)
(* what IDLE and ERROR tell: no command is pending and the worker is       *)
(* between two turns, with nothing of a turn left.                         *)
(*                                                                         *)
(* The terminal: a question can be given up (Ctrl+C) while it is still     *)
(* shown, and its answer comes late.  It does not answer the next question *)
(* because the interrupt stays latched until the turn is over, and the     *)
(* terminal, which waits at the prompt, cannot start another turn.         *)
(***************************************************************************)
EXTENDS Integers, AgentHeadless, AgentInteractive, SequenceTheorems, WellFoundedInduction, TLAPS

(***************************************************************************)
(* Texts, queues of texts, and what joining them gives.                    *)
(***************************************************************************)
\* The naturals are well founded: a set of them has a least one.
LEMMA Least ==
  ASSUME NEW T \in SUBSET Nat, T # {}
  PROVE  \E x \in T : \A y \in T : x <= y
<1> DEFINE R == {ss \in Nat \X Nat : ss[1] < ss[2]}
<1>1. IsWellFoundedOn(R, Nat)
  BY NatLessThanWellFounded, Zenon DEF OpToRel
<1>2. \E x \in T : \A y \in T : ~ (<<y, x>> \in R)
  <2> HIDE DEF R
  <2> QED BY <1>1, WFMin
<1>3. ASSUME NEW x \in T, NEW y \in T, ~ (<<y, x>> \in R)
      PROVE x <= y
  BY <1>3
<1> QED BY <1>2, <1>3

\* Induction, for a set of naturals instead of a predicate.
LEMMA NatInd ==
  ASSUME NEW S \in SUBSET Nat, 0 \in S, \A n \in S : n + 1 \in S
  PROVE S = Nat
<1> SUFFICES ASSUME S # Nat PROVE FALSE
  OBVIOUS
<1>1. PICK x \in Nat \ S : \A y \in Nat \ S : x <= y
  BY Least
<1>2. x # 0 /\ x - 1 \in Nat
  BY <1>1
<1>3. x - 1 \in S
  BY <1>1, <1>2
<1> QED BY <1>1, <1>2, <1>3

\* g[i] is what the first i texts are joined to.
Folds(g, texts, n, M) ==
  /\ g \in [0..n -> Seq(M)]
  /\ g[0] = <<>>
  /\ \A i \in 1..n : g[i] = g[i - 1] \o texts[i]

\* The joins of the first n texts, for every n, form a function.
LEMMA FoldExists ==
  ASSUME NEW M, NEW texts \in Seq(Seq(M))
  PROVE  \E g : Folds(g, texts, Len(texts), M)
<1> DEFINE T == {n \in Nat : n <= Len(texts) => \E g : Folds(g, texts, n, M)}
<1>1. 0 \in T
  <2>1. Folds([i \in 0..0 |-> <<>>], texts, 0, M)
    BY DEF Folds
  <2> QED BY <2>1
<1>2. ASSUME NEW n \in T PROVE n + 1 \in T
  <2> SUFFICES ASSUME n + 1 <= Len(texts) PROVE \E h : Folds(h, texts, n + 1, M)
    OBVIOUS
  <2>1. PICK g : Folds(g, texts, n, M)
    OBVIOUS
  <2> DEFINE h == [i \in 0..n + 1 |-> IF i = n + 1 THEN g[n] \o texts[n + 1] ELSE g[i]]
  <2>2. g[n] \in Seq(M) /\ texts[n + 1] \in Seq(M)
    BY <2>1 DEF Folds
  <2>3. \A i \in 0..n + 1 : h[i] \in Seq(M)
    BY <2>1, <2>2 DEF Folds
  <2>4. h \in [0..n + 1 -> Seq(M)]
    BY <2>3
  <2>5. h[0] = <<>>
    BY <2>1 DEF Folds
  <2>6. ASSUME NEW i \in 1..n + 1 PROVE h[i] = h[i - 1] \o texts[i]
    <3>1. h[i - 1] = g[i - 1]
      OBVIOUS
    <3>2. CASE i = n + 1
      <4>0. n + 1 \in 0..n + 1 /\ i - 1 = n
        BY <3>2
      <4>1. h[n + 1] = g[n] \o texts[n + 1]
        BY <4>0, Zenon
      <4>2. g[i - 1] = g[n]
        BY <4>0
      <4> QED
        <5> HIDE DEF h
        <5> QED BY <3>1, <3>2, <4>1, <4>2
    <3>3. CASE i # n + 1
      <4>1. i \in 1..n /\ h[i] = g[i]
        BY <3>3
      <4> QED BY <2>1, <3>1, <4>1 DEF Folds
    <3> QED BY <3>2, <3>3
  <2>7. Folds(h, texts, n + 1, M)
    <3> HIDE DEF h
    <3> QED BY <2>4, <2>5, <2>6 DEF Folds
  <2> QED BY <2>7
<1>3. T = Nat
  <2>1. T \in SUBSET Nat
    OBVIOUS
  <2> HIDE DEF T
  <2> QED BY <1>1, <1>2, <2>1, NatInd
<1>4. Len(texts) \in T
  BY <1>3
<1> QED BY <1>4

\* There is one such function, whatever the messages are.
LEMMA FoldUnique ==
  ASSUME NEW M, NEW N, NEW texts \in Seq(Seq(M)), NEW n \in Nat, n <= Len(texts),
         NEW g, Folds(g, texts, n, M), NEW h, Folds(h, texts, n, N)
  PROVE  g[n] = h[n]
<1> DEFINE T == {k \in Nat : k <= n => g[k] = h[k]}
<1>1. 0 \in T
  BY DEF Folds
<1>2. ASSUME NEW k \in T PROVE k + 1 \in T
  <2> SUFFICES ASSUME k + 1 <= n PROVE g[k + 1] = h[k + 1]
    OBVIOUS
  <2>1. k + 1 \in 1..n /\ (k + 1) - 1 = k /\ g[k] = h[k]
    OBVIOUS
  <2>2. g[k + 1] = g[(k + 1) - 1] \o texts[k + 1]
    BY <2>1, Zenon DEF Folds
  <2>3. h[k + 1] = h[(k + 1) - 1] \o texts[k + 1]
    BY <2>1, Zenon DEF Folds
  <2> QED BY <2>1, <2>2, <2>3
<1>3. T = Nat
  <2>1. T \in SUBSET Nat
    OBVIOUS
  <2> HIDE DEF T
  <2> QED BY <1>1, <1>2, <2>1, NatInd
<1> QED BY <1>3

\* What Flat chooses is that function.
LEMMA FlatIsFold ==
  ASSUME NEW M, NEW texts \in Seq(Seq(M)), NEW g, Folds(g, texts, Len(texts), M)
  PROVE  Flat(texts) = g[Len(texts)]
<1> DEFINE Rule(f) == [n \in 0..Len(texts) |-> IF n = 0 THEN <<>> ELSE f[n - 1] \o texts[n]]
           F == CHOOSE f : f = Rule(f)
<1>1. ASSUME NEW n \in 0..Len(texts) PROVE g[n] = Rule(g)[n]
  <2>1. CASE n = 0
    BY <2>1 DEF Folds
  <2>2. CASE n # 0
    <3>1. n \in 1..Len(texts)
      BY <2>2
    <3>2. g[n] = g[n - 1] \o texts[n]
      BY <3>1 DEF Folds
    <3> QED BY <2>2, <3>2
  <2> QED BY <2>1, <2>2
<1>2. g = Rule(g)
  BY <1>1 DEF Folds
<1>3. F = Rule(F)
  <2> HIDE DEF Rule
  <2> QED BY <1>2, Zenon
<1>4. \A f : f = Rule(f) => f[Len(texts)] = g[Len(texts)]
  <2> SUFFICES ASSUME NEW f, f = Rule(f) PROVE f[Len(texts)] = g[Len(texts)]
    OBVIOUS
  <2> DEFINE T == {k \in Nat : k <= Len(texts) => g[k] = f[k]}
  <2>r. \A i \in 0..Len(texts) : Rule(f)[i] = IF i = 0 THEN <<>> ELSE f[i - 1] \o texts[i]
    OBVIOUS
  <2>0. \A i \in 0..Len(texts) : f[i] = IF i = 0 THEN <<>> ELSE f[i - 1] \o texts[i]
    <3> HIDE DEF Rule
    <3> QED BY <2>r
  <2> HIDE DEF Rule
  <2>1. 0 \in T
    BY <2>0 DEF Folds
  <2>2. ASSUME NEW k \in T PROVE k + 1 \in T
    <3> SUFFICES ASSUME k + 1 <= Len(texts) PROVE g[k + 1] = f[k + 1]
      OBVIOUS
    <3>1. k + 1 \in 1..Len(texts) /\ (k + 1) - 1 = k /\ g[k] = f[k] /\ k + 1 # 0 /\ k + 1 \in 0..Len(texts)
      OBVIOUS
    <3>2. g[k + 1] = g[(k + 1) - 1] \o texts[k + 1]
      BY <3>1, Zenon DEF Folds
    <3>3. f[k + 1] = f[(k + 1) - 1] \o texts[k + 1]
      BY <2>0, <3>1, Zenon
    <3> QED BY <3>1, <3>2, <3>3
  <2>3. T = Nat
    <3>1. T \in SUBSET Nat
      OBVIOUS
    <3> HIDE DEF T
    <3> QED BY <2>1, <2>2, <3>1, NatInd
  <2> QED BY <2>3
<1>5. Flat(texts) = F[Len(texts)]
  BY DEF Flat
<1>6. F[Len(texts)] = g[Len(texts)]
  <2> HIDE DEF Rule, F
  <2> QED BY <1>3, <1>4
<1> QED BY <1>5, <1>6
\* Joined texts are a text.
LEMMA FlatWithin ==
  ASSUME NEW M, NEW texts \in Seq(Seq(M))
  PROVE  Flat(texts) \in Seq(M)
<1>1. PICK g : Folds(g, texts, Len(texts), M)
  BY FoldExists
<1>2. g[Len(texts)] \in Seq(M)
  BY <1>1 DEF Folds
<1> QED BY <1>1, <1>2, FlatIsFold

\* Nothing joined is nothing.
LEMMA FlatEmpty == Flat(<<>>) = <<>>
<1>1. <<>> \in Seq(Seq({})) /\ Len(<<>>) = 0
  OBVIOUS
<1>2. PICK g : Folds(g, <<>>, 0, {})
  BY <1>1, FoldExists
<1>3. g[0] = <<>>
  BY <1>2 DEF Folds
<1> QED BY <1>1, <1>2, <1>3, FlatIsFold

\* agent_prompt_queue_push: the new text comes last.
LEMMA FlatAppend ==
  ASSUME NEW M, NEW texts \in Seq(Seq(M)), NEW t \in Seq(M)
  PROVE  Flat(Append(texts, t)) = Flat(texts) \o t
<1> DEFINE all == Append(texts, t)
<1>1. all \in Seq(Seq(M)) /\ Len(all) = Len(texts) + 1 /\ all[Len(texts) + 1] = t
  OBVIOUS
<1>2. \A i \in 1..Len(texts) : all[i] = texts[i]
  OBVIOUS
<1> HIDE DEF all
<1>3. PICK h : Folds(h, all, Len(all), M)
  BY <1>1, FoldExists
<1>4. PICK g : Folds(g, texts, Len(texts), M)
  BY FoldExists
<1> DEFINE k == [i \in 0..Len(texts) |-> h[i]]
<1>5. k \in [0..Len(texts) -> Seq(M)]
  BY <1>1, <1>3 DEF Folds
<1>6. k[0] = <<>>
  BY <1>3 DEF Folds
<1>7. ASSUME NEW i \in 1..Len(texts) PROVE k[i] = k[i - 1] \o texts[i]
  <2>1. k[i] = h[i] /\ k[i - 1] = h[i - 1] /\ i \in 1..Len(all)
    BY <1>1
  <2>2. h[i] = h[i - 1] \o all[i]
    BY <1>3, <2>1, Zenon DEF Folds
  <2> QED BY <1>2, <2>1, <2>2
<1>8. Folds(k, texts, Len(texts), M)
  <2> HIDE DEF k
  <2> QED BY <1>5, <1>6, <1>7 DEF Folds
<1>9. g[Len(texts)] = k[Len(texts)]
  <2> HIDE DEF k
  <2>1. Len(texts) \in Nat
    OBVIOUS
  <2> QED BY <1>4, <1>8, <2>1, FoldUnique
<1>10. k[Len(texts)] = h[Len(texts)]
  OBVIOUS
<1>11. h[Len(texts) + 1] = h[Len(texts)] \o t
  <2>1. Len(texts) + 1 \in 1..Len(all) /\ (Len(texts) + 1) - 1 = Len(texts)
    BY <1>1
  <2>2. h[Len(texts) + 1] = h[(Len(texts) + 1) - 1] \o all[Len(texts) + 1]
    BY <1>3, <2>1, Zenon DEF Folds
  <2> QED BY <1>1, <2>1, <2>2
<1>12. Flat(all) = h[Len(all)] /\ Flat(texts) = g[Len(texts)]
  BY <1>1, <1>3, <1>4, FlatIsFold
<1> HIDE DEF k
<1>13. Flat(all) = Flat(texts) \o t
  BY <1>1, <1>9, <1>10, <1>11, <1>12
<1> QED BY <1>13 DEF all

\* agent_prompt_queue_prepend on an empty queue: the text alone.
LEMMA FlatOne ==
  ASSUME NEW M, NEW t \in Seq(M)
  PROVE  Flat(<<t>>) = t
<1>1. <<>> \in Seq(Seq(M)) /\ Append(<<>>, t) = <<t>> /\ <<>> \o t = t
  OBVIOUS
<1> QED BY <1>1, FlatEmpty, FlatAppend

\* agent_prompt_queue_pop_first: the oldest text comes first.
LEMMA FlatSplit ==
  ASSUME NEW M, NEW texts \in Seq(Seq(M)), texts # <<>>
  PROVE  Flat(texts) = Head(texts) \o Flat(Tail(texts))
<1>0. ASSUME NEW a \in Seq(M), NEW b \in Seq(M), NEW c \in Seq(M)
      PROVE  (a \o b) \o c = a \o (b \o c)
  OBVIOUS
<1> DEFINE P(n) == \A s \in Seq(Seq(M)) : Len(s) = n /\ s # <<>> => Flat(s) = Head(s) \o Flat(Tail(s))
           T == {n \in Nat : P(n)}
<1>1. 0 \in T
  OBVIOUS
<1>2. ASSUME NEW n \in T PROVE n + 1 \in T
  <2> SUFFICES ASSUME NEW s \in Seq(Seq(M)), Len(s) = n + 1, s # <<>>
               PROVE  Flat(s) = Head(s) \o Flat(Tail(s))
    OBVIOUS
  <2>1. PICK front \in Seq(Seq(M)), t \in Seq(M) : s = Append(front, t) /\ Len(front) = n
    <3>1. SubSeq(s, 1, n) \in Seq(Seq(M)) /\ Len(SubSeq(s, 1, n)) = n /\ s[n + 1] \in Seq(M)
      OBVIOUS
    <3>2. s = Append(SubSeq(s, 1, n), s[n + 1])
      OBVIOUS
    <3> QED BY <3>1, <3>2
  <2>2. Flat(s) = Flat(front) \o t
    BY <2>1, FlatAppend
  <2>3. CASE n = 0
    <3>1. front = <<>>
      BY <2>1, <2>3
    <3>2. Head(s) = t /\ Tail(s) = <<>> /\ <<>> \o t = t /\ t \o <<>> = t
      BY <2>1, <3>1
    <3> QED BY <2>2, <3>1, <3>2, FlatEmpty
  <2>4. CASE n # 0
    <3>1. front # <<>> /\ Head(s) = Head(front) /\ Tail(s) = Append(Tail(front), t)
      BY <2>1, <2>4
    <3>2. Head(front) \in Seq(M) /\ Tail(front) \in Seq(Seq(M))
      BY <3>1
    <3>3. Flat(front) = Head(front) \o Flat(Tail(front))
      BY <2>1, <3>1
    <3>4. Flat(Tail(s)) = Flat(Tail(front)) \o t
      BY <3>1, <3>2, FlatAppend
    <3>5. Flat(Tail(front)) \in Seq(M)
      BY <3>2, FlatWithin
    <3>6. (Head(front) \o Flat(Tail(front))) \o t = Head(front) \o (Flat(Tail(front)) \o t)
      BY <1>0, <3>2, <3>5, Zenon
    <3> QED BY <2>2, <3>1, <3>3, <3>4, <3>6, Zenon
  <2> QED BY <2>3, <2>4
<1>3. T = Nat
  <2>1. T \in SUBSET Nat
    OBVIOUS
  <2> HIDE DEF T
  <2> QED BY <1>1, <1>2, <2>1, NatInd
<1>4. Len(texts) \in T
  BY <1>3
<1> QED BY <1>4

(***************************************************************************)
(* Who is in a text, once, and in order.                                   *)
(***************************************************************************)
Distinct(s) == \A i, j \in 1..Len(s) : s[i] = s[j] => i = j

Sorted(s) == \A i, j \in 1..Len(s) : i < j => s[i] < s[j]

Apart(s, t) == SetOf(s) \intersect SetOf(t) = {}

Below(s, t) == \A a \in SetOf(s), b \in SetOf(t) : a < b

LEMMA SetOfEmpty == SetOf(<<>>) = {} /\ Distinct(<<>>) /\ Sorted(<<>>)
BY DEF SetOf, Distinct, Sorted

LEMMA SetOfOne ==
  ASSUME NEW m
  PROVE  SetOf(<<m>>) = {m} /\ Distinct(<<m>>) /\ Sorted(<<m>>)
BY DEF SetOf, Distinct, Sorted

LEMMA SetOfText ==
  ASSUME NEW s \in Seq(Messages)
  PROVE  SetOf(s) = ToSet(s) /\ SetOf(s) \subseteq Messages
BY DEF SetOf, ToSet

\* A joined text has what its parts have.
LEMMA SetOfJoin ==
  ASSUME NEW s \in Seq(Messages), NEW t \in Seq(Messages)
  PROVE  SetOf(s \o t) = SetOf(s) \union SetOf(t)
<1>1. /\ Len(s \o t) = Len(s) + Len(t) /\ Len(s) \in Nat /\ Len(t) \in Nat
      /\ \A i \in 1..Len(s) : (s \o t)[i] = s[i]
      /\ \A i \in 1..Len(t) : (s \o t)[Len(s) + i] = t[i]
  OBVIOUS
<1>2. ASSUME NEW m \in SetOf(s \o t) PROVE m \in SetOf(s) \union SetOf(t)
  <2>1. PICK i \in 1..Len(s) + Len(t) : m = (s \o t)[i]
    BY <1>1, <1>2 DEF SetOf
  <2>2. CASE i <= Len(s)
    BY <1>1, <2>1, <2>2 DEF SetOf
  <2>3. CASE i > Len(s)
    <3>1. i - Len(s) \in 1..Len(t) /\ Len(s) + (i - Len(s)) = i
      BY <1>1, <2>1, <2>3
    <3> QED BY <1>1, <2>1, <3>1 DEF SetOf
  <2> QED BY <1>1, <2>1, <2>2, <2>3
<1>3. ASSUME NEW i \in 1..Len(s) PROVE s[i] \in SetOf(s \o t)
  BY <1>1 DEF SetOf
<1>4. ASSUME NEW i \in 1..Len(t) PROVE t[i] \in SetOf(s \o t)
  <2>1. Len(s) + i \in 1..Len(s \o t)
    BY <1>1
  <2> QED BY <1>1, <2>1 DEF SetOf
<1> QED BY <1>2, <1>3, <1>4 DEF SetOf

\* A joined text repeats nothing: its parts do not, and share nothing.
LEMMA DistinctJoin ==
  ASSUME NEW s \in Seq(Messages), NEW t \in Seq(Messages)
  PROVE  Distinct(s \o t) <=> Distinct(s) /\ Distinct(t) /\ Apart(s, t)
<1> DEFINE n == Len(s) k == Len(t)
<1>1. /\ Len(s \o t) = n + k /\ n \in Nat /\ k \in Nat
      /\ \A i \in 1..n : (s \o t)[i] = s[i]
      /\ \A i \in 1..k : (s \o t)[n + i] = t[i]
  OBVIOUS
<1>2. \A i \in 1..k : n + i \in 1..n + k
  BY <1>1
<1>3. \A i \in 1..n : i \in 1..n + k
  BY <1>1
<1>4. \A i \in 1..n + k : i \in 1..n \/ \E j \in 1..k : i = n + j
  <2>1. ASSUME NEW i \in 1..n + k, i \notin 1..n PROVE i - n \in 1..k /\ i = n + (i - n)
    BY <1>1, <2>1
  <2> QED BY <2>1
<1>5. ASSUME Distinct(s \o t) PROVE Distinct(s) /\ Distinct(t) /\ Apart(s, t)
  <2>1. ASSUME NEW i \in 1..n, NEW j \in 1..n, s[i] = s[j] PROVE i = j
    BY <1>1, <1>3, <1>5, <2>1 DEF Distinct
  <2>2. ASSUME NEW i \in 1..k, NEW j \in 1..k, t[i] = t[j] PROVE i = j
    <3>1. n + i = n + j
      BY <1>1, <1>2, <1>5, <2>2 DEF Distinct
    <3> QED BY <1>1, <3>1
  <2>3. ASSUME NEW i \in 1..n, NEW j \in 1..k PROVE s[i] # t[j]
    <3>1. i # n + j
      BY <1>1
    <3> QED BY <1>1, <1>2, <1>3, <1>5, <3>1 DEF Distinct
  <2> QED BY <2>1, <2>2, <2>3 DEF Distinct, Apart, SetOf
<1>6. ASSUME Distinct(s), Distinct(t), Apart(s, t) PROVE Distinct(s \o t)
  <2> SUFFICES ASSUME NEW i \in 1..n + k, NEW j \in 1..n + k, (s \o t)[i] = (s \o t)[j] PROVE i = j
    BY <1>1 DEF Distinct
  <2>1. CASE i \in 1..n /\ j \in 1..n
    BY <1>1, <1>6, <2>1 DEF Distinct
  <2>0. \A a \in 1..n, b \in 1..k : s[a] # t[b]
    BY <1>6 DEF Apart, SetOf
  <2>2. CASE i \in 1..n /\ j \notin 1..n
    <3>1. PICK b \in 1..k : j = n + b
      BY <1>4, <2>2
    <3>2. s[i] = t[b]
      BY <1>1, <2>2, <3>1
    <3> QED BY <2>0, <2>2, <3>2
  <2>3. CASE i \notin 1..n /\ j \in 1..n
    <3>1. PICK a \in 1..k : i = n + a
      BY <1>4, <2>3
    <3>2. s[j] = t[a]
      BY <1>1, <2>3, <3>1
    <3> QED BY <2>0, <2>3, <3>2
  <2>4. CASE i \notin 1..n /\ j \notin 1..n
    <3>1. PICK a \in 1..k, b \in 1..k : i = n + a /\ j = n + b
      BY <1>4, <2>4
    <3>2. t[a] = t[b]
      BY <1>1, <3>1
    <3> QED BY <1>6, <3>1, <3>2 DEF Distinct
  <2> QED BY <2>1, <2>2, <2>3, <2>4
<1> QED BY <1>5, <1>6

\* A joined text is in order: its parts are, and the first is before the second.
LEMMA SortedJoin ==
  ASSUME NEW s \in Seq(Messages), NEW t \in Seq(Messages)
  PROVE  Sorted(s \o t) <=> Sorted(s) /\ Sorted(t) /\ Below(s, t)
<1> DEFINE n == Len(s) k == Len(t)
<1>1. /\ Len(s \o t) = n + k /\ n \in Nat /\ k \in Nat
      /\ \A i \in 1..n : (s \o t)[i] = s[i]
      /\ \A i \in 1..k : (s \o t)[n + i] = t[i]
  OBVIOUS
<1>2. \A i \in 1..k : n + i \in 1..n + k
  BY <1>1
<1>3. \A i \in 1..n : i \in 1..n + k
  BY <1>1
<1>4. \A i \in 1..n + k : i \in 1..n \/ \E j \in 1..k : i = n + j
  <2>1. ASSUME NEW i \in 1..n + k, i \notin 1..n PROVE i - n \in 1..k /\ i = n + (i - n)
    BY <1>1, <2>1
  <2> QED BY <2>1
<1>5. ASSUME Sorted(s \o t) PROVE Sorted(s) /\ Sorted(t) /\ Below(s, t)
  <2>1. ASSUME NEW i \in 1..n, NEW j \in 1..n, i < j PROVE s[i] < s[j]
    BY <1>1, <1>3, <1>5, <2>1 DEF Sorted
  <2>2. ASSUME NEW i \in 1..k, NEW j \in 1..k, i < j PROVE t[i] < t[j]
    <3>1. n + i < n + j
      BY <1>1, <2>2
    <3> QED BY <1>1, <1>2, <1>5, <3>1 DEF Sorted
  <2>3. ASSUME NEW i \in 1..n, NEW j \in 1..k PROVE s[i] < t[j]
    <3>1. i < n + j
      BY <1>1
    <3> QED BY <1>1, <1>2, <1>3, <1>5, <3>1 DEF Sorted
  <2> QED BY <2>1, <2>2, <2>3 DEF Sorted, Below, SetOf
<1>6. ASSUME Sorted(s), Sorted(t), Below(s, t) PROVE Sorted(s \o t)
  <2> SUFFICES ASSUME NEW i \in 1..n + k, NEW j \in 1..n + k, i < j PROVE (s \o t)[i] < (s \o t)[j]
    BY <1>1 DEF Sorted
  <2>1. CASE i \in 1..n /\ j \in 1..n
    BY <1>1, <1>6, <2>1 DEF Sorted
  <2>2. CASE i \in 1..n /\ j \notin 1..n
    BY <1>1, <1>4, <1>6, <2>2 DEF Below, SetOf
  <2>3. CASE i \notin 1..n /\ j \in 1..n
    BY <1>1, <2>3
  <2>4. CASE i \notin 1..n /\ j \notin 1..n
    <3>1. PICK a \in 1..k, b \in 1..k : i = n + a /\ j = n + b
      BY <1>4, <2>4
    <3>2. a < b
      BY <1>1, <3>1
    <3> QED BY <1>1, <1>6, <3>1, <3>2 DEF Sorted
  <2> QED BY <2>1, <2>2, <2>3, <2>4
<1> QED BY <1>5, <1>6

(***************************************************************************)
(* What the worker does to the messages.                                   *)
(***************************************************************************)
Texts ==
  /\ turn \in Seq(Messages) /\ cmd \in Seq(Messages) /\ delivered \in Seq(Messages)
  /\ drain \in [pending : BOOLEAN, answered : BOOLEAN, text : Seq(Messages)]

\* The text of a turn is held only until it joins the transcript, and the queued
\* text only from the front end's answer to the worker's wake.
Held ==
  /\ turn # <<>> => pc = "append" \/ (pc \in {"compact", "summarize", "rebuild"} /\ ret = "append")
  /\ drain.pending \/ drain.answered => pc = "draining"
  /\ drain.pending => ~drain.answered
  /\ drain.text # <<>> => drain.answered

Keeps == UNCHANGED <<turn, cmd, drain.text, delivered, gone>>
Takes == turn = <<>> /\ turn' = cmd /\ cmd' = <<>> /\ UNCHANGED <<drain.text, delivered, gone>>
Joins ==
  /\ drain.text = <<>> /\ pc = "append"
  /\ turn' = <<>> /\ delivered' = delivered \o turn /\ UNCHANGED <<cmd, drain.text, gone>>
Drains ==
  /\ turn = <<>>
  /\ drain.text' = <<>> /\ delivered' = delivered \o drain.text /\ UNCHANGED <<cmd, turn, gone>>
Loses == turn' = <<>> /\ gone' = gone \union SetOf(turn) /\ UNCHANGED <<cmd, drain.text, delivered>>

\* Every step of the worker keeps the messages where they are, or moves one text one
\* place further, or gives the text of a turn up (worker_main, worker_run_turn,
\* agent_worker_compact).
LEMMA LoopCarries ==
  ASSUME Texts, Held, Loop
  PROVE  Texts' /\ Held' /\ (Keeps \/ Takes \/ Loses)
<1> USE DEF Texts, Held, Goto, handoffs, flags, thread, session
<1>1. CASE LoadSystemPrompt
  BY <1>1 DEF LoadSystemPrompt, Keeps
<1>2. CASE LoadSystemPromptFails
  BY <1>2 DEF LoadSystemPromptFails, Keeps
<1>3. CASE Initialized
  BY <1>3 DEF Initialized, Keeps
<1>4. CASE Sleep
  BY <1>4 DEF Sleep, Keeps
<1>5. CASE Stopped
  BY <1>5 DEF Stopped, Keeps
<1>6. CASE TakeCommand
  BY <1>6 DEF TakeCommand, Takes
<1>7. CASE DeferredCompact
  BY <1>7 DEF DeferredCompact, Then, Keeps
<1>8. CASE NoDeferredCompact
  BY <1>8 DEF NoDeferredCompact, Keeps
<1>9. CASE DeferredSave
  BY <1>9 DEF DeferredSave, Keeps
<1>10. CASE NoDeferredSave
  BY <1>10 DEF NoDeferredSave, Keeps
<1>11. CASE FinishSave
  BY <1>11 DEF FinishSave, Keeps
<1>12. CASE NothingToCompact
  BY <1>12 DEF NothingToCompact, Return, Keeps
<1>13. CASE BeginCompact
  BY <1>13 DEF BeginCompact, Keeps
<1>14. CASE Summarized
  BY <1>14 DEF Summarized, Keeps
<1>15. CASE Rebuilt
  BY <1>15 DEF Rebuilt, Return, Keeps
<1>16. CASE CompactFails
  BY <1>16 DEF CompactFails, LoseTurn, AfterFailure, Loses, SetOf
<1>17. CASE CompactInterrupted
  BY <1>17 DEF CompactInterrupted, LoseTurn, AfterFailure, Loses, SetOf
<1> QED BY <1>1, <1>2, <1>3, <1>4, <1>5, <1>6, <1>7, <1>8, <1>9, <1>10, <1>11, <1>12, <1>13, <1>14, <1>15, <1>16, <1>17 DEF Loop

LEMMA TurnCarries ==
  ASSUME Texts, Held, Turn
  PROVE  Texts' /\ Held' /\ (Keeps \/ Joins \/ Drains)
<1> USE DEF Texts, Held, Goto, handoffs, flags, thread, session
<1>1. CASE AppendUser
  BY <1>1 DEF AppendUser, Join, Joins
<1>2. CASE BeginPrefill
  BY <1>2 DEF BeginPrefill, Keeps
<1>3. CASE Prefilled
  BY <1>3 DEF Prefilled, Keeps
<1>4. CASE TurnFails
  BY <1>4 DEF TurnFails, Keeps
<1>5. CASE TurnInterrupted
  BY <1>5 DEF TurnInterrupted, Keeps
<1>6. CASE ClearInterrupt
  BY <1>6 DEF ClearInterrupt, Keeps
<1>7. CASE FinalAnswer
  BY <1>7 DEF FinalAnswer, Keeps
<1>8. CASE PublishIdle
  BY <1>8 DEF PublishIdle, Return, Keeps
<1>9. CASE ToolCall
  BY <1>9 DEF ToolCall, Keeps
<1>10. CASE Ask
  BY <1>10 DEF Ask, Keeps
<1>11. CASE AskInVain
  BY <1>11 DEF AskInVain, Keeps
<1>12. CASE AwaitAnswer
  BY <1>12 DEF AwaitAnswer, Keeps
<1>13. CASE Answered
  BY <1>13 DEF Answered, Keeps
<1>14. CASE AskInterrupted
  BY <1>14 DEF AskInterrupted, Keeps
<1>15. CASE ToolDone
  BY <1>15 DEF ToolDone, Keeps
<1>16. CASE AppendResult
  BY <1>16 DEF AppendResult, Keeps
<1>17. CASE ContextFull
  BY <1>17 DEF ContextFull, Keeps
<1>18. CASE RequestDrain
  BY <1>18 DEF RequestDrain, NoDrain, Keeps
<1>19. CASE AwaitDrain
  BY <1>19 DEF AwaitDrain, Keeps
<1>20. CASE Drained
  <2>1. turn = <<>> /\ turn' = turn /\ cmd' = cmd /\ gone' = gone /\ pc' # "draining"
    BY <1>20 DEF Drained
  <2>2. drain' = [pending |-> FALSE, answered |-> FALSE, text |-> <<>>]
    BY <1>20 DEF Drained, NoDrain
  <2>3. delivered' = delivered \o drain.text
    BY <1>20 DEF Drained, Join
  <2> QED BY <2>1, <2>2, <2>3 DEF Drains
<1> QED BY <1>1, <1>2, <1>3, <1>4, <1>5, <1>6, <1>7, <1>8, <1>9, <1>10, <1>11, <1>12, <1>13, <1>14, <1>15, <1>16, <1>17, <1>18, <1>19, <1>20 DEF Turn

(***************************************************************************)
(* The headless run: what the status tells.                                *)
(***************************************************************************)
\* Between two turns: what runs there changes nothing here, since this front
\* end requests neither saves nor compactions.
Between == pc \in {"wait", "after", "saveq"}

\* The places of a turn, and where each goes on.
Compacting == pc \in {"compact", "summarize", "rebuild"}
TurnEnding == pc \in {"interrupted", "answered"}
InTurnBody == pc \in {"append", "round", "prefill", "generate", "tool", "asking", "result", "drain", "draining"}

Places ==
    /\ Between \/ Compacting \/ TurnEnding \/ InTurnBody \/ pc \in {"init", "ready", "stopped"}
    /\ Compacting => InTurn
    /\ TurnEnding => ret = "after"

NoRequests == saveReq = FALSE /\ compactReq = FALSE

\* What a status that lets the front end act tells of the worker.
IdleIsBetween == Idle => Between /\ cmd = <<>>

CommandWaits == cmd # <<>> => status \in {"prefill", "stopped"} /\ (Between \/ pc = "stopped")

Started ==
    /\ initialized \in BOOLEAN
    /\ initialized <=> pc \notin {"init", "ready"}

\* The text of a turn is held only until it joins the transcript.
TurnHeld == turn # <<>> => pc = "append" \/ (Compacting /\ ret = "append")

\* A run that ends well has found everything done, and stays so.
EndsWell == ui = "save" \/ (ui = "leave" /\ rc = 0)

Done == EndsWell => Idle /\ queue = <<>> /\ input = <<>>

NotStopped == stop => ui \in {"joining", "exited"}

OneShotReadsNothing == oneShot \in BOOLEAN /\ (oneShot => queue = <<>> /\ input = <<>>)

HeadlessInv ==
    /\ Places
    /\ NoRequests
    /\ IdleIsBetween
    /\ CommandWaits
    /\ Started
    /\ TurnHeld
    /\ Done
    /\ NotStopped
    /\ OneShotReadsNothing

\* Every step of the worker's command loop, deferred work and compactions (worker_main)
\* keeps the invariant.
LEMMA HeadlessLoopKeeps ==
  ASSUME HeadlessInv, Loop, UNCHANGED <<ui, oneShot, promptVars>>
  PROVE  HeadlessInv'
<1> USE DEF HeadlessInv, Places, Between, Compacting, TurnEnding, InTurnBody, InTurn, NoRequests, IdleIsBetween, Idle,
        CommandWaits, Started, TurnHeld, EndsWell, Done, NotStopped, OneShotReadsNothing, promptVars, flags
<1>1. CASE LoadSystemPrompt
  BY <1>1 DEF LoadSystemPrompt, Goto, ResetIdentity
<1>2. CASE LoadSystemPromptFails
  BY <1>2 DEF LoadSystemPromptFails, Goto
<1>3. CASE Initialized
  BY <1>3 DEF Initialized, Goto
<1>4. CASE Sleep
  BY <1>4 DEF Sleep, thread
<1>5. CASE Stopped
  BY <1>5 DEF Stopped, Goto
<1>6. CASE TakeCommand
  BY <1>6 DEF TakeCommand
<1>7. CASE DeferredCompact
  BY <1>7 DEF DeferredCompact, CompactDue
<1>8. CASE NoDeferredCompact
  BY <1>8 DEF NoDeferredCompact, Goto
<1>9. CASE DeferredSave
  BY <1>9 DEF DeferredSave, Goto, SaveDue
<1>10. CASE NoDeferredSave
  BY <1>10 DEF NoDeferredSave, Goto
<1>11. CASE FinishSave
  BY <1>11 DEF FinishSave, Goto
<1>12. CASE NothingToCompact
  BY <1>12 DEF NothingToCompact, Return
<1>13. CASE BeginCompact
  BY <1>13 DEF BeginCompact, Goto
<1>14. CASE Summarized
  BY <1>14 DEF Summarized, Goto
<1>15. CASE Rebuilt
  BY <1>15 DEF Rebuilt, Return
<1>16. CASE CompactFails
  BY <1>16 DEF CompactFails, LoseTurn, AfterFailure
<1>17. CASE CompactInterrupted
  BY <1>17 DEF CompactInterrupted, LoseTurn, AfterFailure
<1> QED
  BY <1>1, <1>2, <1>3, <1>4, <1>5, <1>6, <1>7, <1>8, <1>9, <1>10, <1>11, <1>12, <1>13, <1>14, <1>15, <1>16, <1>17 DEF Loop

\* Every step of a turn (worker_run_turn) keeps the invariant: a turn publishes IDLE or
\* ERROR only as it ends.
LEMMA HeadlessTurnKeeps ==
  ASSUME HeadlessInv, Turn, UNCHANGED <<ui, oneShot, promptVars>>
  PROVE  HeadlessInv'
<1> USE DEF HeadlessInv, Places, Between, Compacting, TurnEnding, InTurnBody, InTurn, NoRequests, IdleIsBetween, Idle,
        CommandWaits, Started, TurnHeld, EndsWell, Done, NotStopped, OneShotReadsNothing, promptVars, flags
<1>1. CASE AppendUser
  BY <1>1 DEF AppendUser
<1>2. CASE BeginPrefill
  BY <1>2 DEF BeginPrefill, Goto
<1>3. CASE Prefilled
  BY <1>3 DEF Prefilled, Goto
<1>4. CASE TurnFails
  BY <1>4 DEF TurnFails, Goto
<1>5. CASE TurnInterrupted
  BY <1>5 DEF TurnInterrupted
<1>6. CASE ClearInterrupt
  BY <1>6 DEF ClearInterrupt, Goto
<1>7. CASE FinalAnswer
  BY <1>7 DEF FinalAnswer
<1>8. CASE PublishIdle
  BY <1>8 DEF PublishIdle, Return
<1>9. CASE ToolCall
  BY <1>9 DEF ToolCall
<1>10. CASE Ask
  BY <1>10 DEF Ask
<1>11. CASE AskInVain
  BY <1>11 DEF AskInVain
<1>12. CASE AwaitAnswer
  BY <1>12 DEF AwaitAnswer, thread
<1>13. CASE Answered
  BY <1>13 DEF Answered, Goto
<1>14. CASE AskInterrupted
  BY <1>14 DEF AskInterrupted, Goto
<1>15. CASE ToolDone
  BY <1>15 DEF ToolDone
<1>16. CASE AppendResult
  BY <1>16 DEF AppendResult, Goto
<1>17. CASE ContextFull
  BY <1>17 DEF ContextFull, Goto
<1>18. CASE RequestDrain
  BY <1>18 DEF RequestDrain, Goto
<1>19. CASE AwaitDrain
  BY <1>19 DEF AwaitDrain, thread
<1>20. CASE Drained
  BY <1>20 DEF Drained
<1> QED
  BY <1>1, <1>2, <1>3, <1>4, <1>5, <1>6, <1>7, <1>8, <1>9, <1>10, <1>11, <1>12, <1>13, <1>14, <1>15, <1>16, <1>17, <1>18, <1>19, <1>20 DEF Turn

\* Every step of the front end keeps the invariant: it submits only to an IDLE worker.
LEMMA FrontEndKeeps ==
  ASSUME HeadlessInv, FrontEndStep
  PROVE  HeadlessInv'
<1> USE DEF HeadlessInv, Places, Between, Compacting, TurnEnding, InTurnBody, InTurn, NoRequests, IdleIsBetween, Idle,
        CommandWaits, Started, TurnHeld, EndsWell, Done, NotStopped, OneShotReadsNothing, promptVars, workerVars,
        thread, flags
<1>0. UNCHANGED oneShot
  BY DEF FrontEndStep, FrontEnd
<1>1. CASE SubmitOneShot
  BY <1>0, <1>1 DEF SubmitOneShot, CanSubmit, Submit
<1>2. CASE SubmitQueue
  BY <1>0, <1>2 DEF SubmitQueue, CanSubmit, Submit
<1>3. CASE NothingToSubmit
  BY <1>0, <1>3 DEF NothingToSubmit, GoOn
<1>4. CASE Poll
  BY <1>0, <1>4 DEF Poll
<1>5. CASE Read
  BY <1>0, <1>5 DEF Read, StdinOpen
<1>6. CASE ConsumeSeen
  BY <1>0, <1>6 DEF ConsumeSeen
<1>7. CASE HandOver
  BY <1>0, <1>7 DEF HandOver
<1>8. CASE Prompt
  BY <1>0, <1>8 DEF Prompt, CanSubmit, Submit
<1>9. CASE NoPrompt
  BY <1>0, <1>9 DEF NoPrompt, GoOn
<1>10. CASE Check
  BY <1>0, <1>10 DEF Check, GoOn, Finished
<1>11. CASE Leave
  BY <1>0, <1>11 DEF Leave, GoOn
<1>12. CASE SavedOnExit
  BY <1>0, <1>12 DEF SavedOnExit
<1>13. CASE SaveOnExitFails
  BY <1>0, <1>13 DEF SaveOnExitFails
<1>14. CASE StopAtEnd
  BY <1>0, <1>14 DEF StopAtEnd, Stop
<1>15. CASE JoinAtEnd
  BY <1>0, <1>15 DEF JoinAtEnd, GoOn
<1>16. CASE Break
  BY <1>0, <1>16 DEF Break
<1> QED
  BY <1>1, <1>2, <1>3, <1>4, <1>5, <1>6, <1>7, <1>8, <1>9, <1>10, <1>11, <1>12, <1>13, <1>14, <1>15, <1>16 DEF FrontEndStep, FrontEnd

\* Nothing moves.
LEMMA HeadlessStutterKeeps ==
  ASSUME HeadlessInv, UNCHANGED headlessVars
  PROVE  HeadlessInv'
BY DEF HeadlessInv, Places, Between, Compacting, TurnEnding, InTurnBody, InTurn, NoRequests, IdleIsBetween, Idle, CommandWaits,
       Started, TurnHeld, EndsWell, Done, NotStopped, OneShotReadsNothing, headlessVars, promptVars, workerVars, thread, flags

\* pthread_cond_wait may return for no reason.
LEMMA SpuriousReturnKeeps ==
  ASSUME HeadlessInv, SpuriousReturn
  PROVE  HeadlessInv'
BY DEF HeadlessInv, Places, Between, Compacting, TurnEnding, InTurnBody, InTurn, NoRequests, IdleIsBetween, Idle, CommandWaits,
       Started, TurnHeld, EndsWell, Done, NotStopped, OneShotReadsNothing, promptVars, thread, flags, SpuriousReturn, SpuriousWake

\* The invariant of every reachable state.
THEOREM HeadlessInvariance == HeadlessSpec => []HeadlessInv
<1>1. HeadlessInit => HeadlessInv
  BY DEF HeadlessInit, WorkerInit, HeadlessInv, Places, Between, Compacting, TurnEnding, InTurnBody, NoRequests, IdleIsBetween, Idle,
         CommandWaits, Started, TurnHeld, EndsWell, Done, NotStopped, OneShotReadsNothing
<1>2. HeadlessInv /\ [HeadlessNext]_headlessVars => HeadlessInv'
  <2> SUFFICES ASSUME HeadlessInv, [HeadlessNext]_headlessVars
               PROVE  HeadlessInv'
    OBVIOUS
  <2>1. CASE FrontEndStep
    BY <2>1, FrontEndKeeps
  <2>2. CASE WorkerStepWakes
    BY <2>2, HeadlessLoopKeeps, HeadlessTurnKeeps DEF WorkerStepWakes, Worker
  <2>3. CASE SpuriousReturn
    BY <2>3, SpuriousReturnKeeps
  <2>4. CASE Ended \/ UNCHANGED headlessVars
    BY <2>4, HeadlessStutterKeeps DEF Ended
  <2> QED
    BY <2>1, <2>2, <2>3, <2>4 DEF HeadlessNext
<1> QED
  BY <1>1, <1>2, PTL DEF HeadlessSpec

\* The save on exit (run_agent_non_interactive) never meets the worker in the
\* session, although it takes no lock.
THEOREM SaveOnExitIsAlone == HeadlessSpec => []WorkerOwnsSession
<1>1. HeadlessInv => WorkerOwnsSession
  BY DEF HeadlessInv, Done, EndsWell, IdleIsBetween, Between, WorkerOwnsSession, WorkerUsesSession, ExitUsesSession
<1> QED
  BY <1>1, HeadlessInvariance, PTL

\* A run that ends well has submitted all it read and waited for the answer:
\* there is no handoff window (worker_submit).
THEOREM NothingUndone == HeadlessSpec => []EndsWhenDone
<1>1. HeadlessInv => EndsWhenDone
  BY DEF HeadlessInv, Done, EndsWell, IdleIsBetween, Between, TurnHeld, Compacting, EndsWhenDone
<1> QED
  BY <1>1, HeadlessInvariance, PTL


(***************************************************************************)
(* The headless run: messages keep their order.                            *)
(***************************************************************************)
\* The places of a message (delivered, drained, in the turn, commanded, queued,
\* read), those dropped and how many were read: each place is in order, each is
\* before the next, and together they hold what was read.
InOrder(d, a, t, c, q, i, g, n) ==
  /\ Sorted(d) /\ Sorted(a) /\ Sorted(t) /\ Sorted(c) /\ Sorted(q) /\ Sorted(i)
  /\ Below(d, a) /\ Below(d, t) /\ Below(d, c) /\ Below(d, q) /\ Below(d, i)
  /\ Below(a, t) /\ Below(a, c) /\ Below(a, q) /\ Below(a, i)
  /\ Below(t, c) /\ Below(t, q) /\ Below(t, i)
  /\ Below(c, q) /\ Below(c, i)
  /\ Below(q, i)
  /\ SetOf(d) \union SetOf(a) \union SetOf(t) \union SetOf(c) \union SetOf(q) \union SetOf(i) \union g = 1..n

\* OrderKept, place by place.
LEMMA OrderByPlace ==
  ASSUME Texts, queue \in Seq(Seq(Messages)), input \in Seq(Messages)
  PROVE  OrderKept <=> InOrder(delivered, drain.text, turn, cmd, Flat(queue), input, gone, typed)
<1> DEFINE da == delivered \o drain.text
           dat == da \o turn
           datc == dat \o cmd
           datcq == datc \o Flat(queue)
           all == datcq \o input
<1>1. /\ da \in Seq(Messages) /\ SetOf(da) = SetOf(delivered) \union SetOf(drain.text)
      /\ Sorted(da) <=> Sorted(delivered) /\ Sorted(drain.text) /\ Below(delivered, drain.text)
  BY SetOfJoin, SortedJoin DEF Texts
<1> HIDE DEF da
<1>2. /\ dat \in Seq(Messages) /\ SetOf(dat) = SetOf(da) \union SetOf(turn)
      /\ Sorted(dat) <=> Sorted(da) /\ Sorted(turn) /\ Below(da, turn)
  BY <1>1, SetOfJoin, SortedJoin DEF Texts
<1> HIDE DEF dat
<1>3. /\ datc \in Seq(Messages) /\ SetOf(datc) = SetOf(dat) \union SetOf(cmd)
      /\ Sorted(datc) <=> Sorted(dat) /\ Sorted(cmd) /\ Below(dat, cmd)
  BY <1>2, SetOfJoin, SortedJoin DEF Texts
<1> HIDE DEF datc
<1>4. Flat(queue) \in Seq(Messages)
  BY FlatWithin
<1>5. /\ datcq \in Seq(Messages) /\ SetOf(datcq) = SetOf(datc) \union SetOf(Flat(queue))
      /\ Sorted(datcq) <=> Sorted(datc) /\ Sorted(Flat(queue)) /\ Below(datc, Flat(queue))
  BY <1>3, <1>4, SetOfJoin, SortedJoin
<1> HIDE DEF datcq
<1>6. /\ all \in Seq(Messages) /\ SetOf(all) = SetOf(datcq) \union SetOf(input)
      /\ Sorted(all) <=> Sorted(datcq) /\ Sorted(input) /\ Below(datcq, input)
  BY <1>5, SetOfJoin, SortedJoin
<1>7. OnTheWay = all
  BY DEF OnTheWay, all, datcq, datc, dat, da
<1> HIDE DEF all
<1>8. SetOf(all) = ToSet(all)
  BY <1>6, SetOfText
<1>9. OrderKept <=> Sorted(all) /\ SetOf(all) \union gone = 1..typed
  BY <1>7, <1>8, Zenon DEF OrderKept, Sorted
<1>10. Sorted(all) <=>
         /\ Sorted(delivered) /\ Sorted(drain.text) /\ Sorted(turn) /\ Sorted(cmd) /\ Sorted(Flat(queue)) /\ Sorted(input)
         /\ Below(delivered, drain.text) /\ Below(da, turn) /\ Below(dat, cmd) /\ Below(datc, Flat(queue)) /\ Below(datcq, input)
  BY <1>1, <1>2, <1>3, <1>5, <1>6, Zenon
<1>11. /\ Below(da, turn) <=> Below(delivered, turn) /\ Below(drain.text, turn)
       /\ Below(dat, cmd) <=> Below(delivered, cmd) /\ Below(drain.text, cmd) /\ Below(turn, cmd)
  BY <1>1, <1>2 DEF Below
<1>12. Below(datc, Flat(queue)) <=>
         Below(delivered, Flat(queue)) /\ Below(drain.text, Flat(queue)) /\ Below(turn, Flat(queue)) /\ Below(cmd, Flat(queue))
  BY <1>1, <1>2, <1>3 DEF Below
<1>13. Below(datcq, input) <=>
         /\ Below(delivered, input) /\ Below(drain.text, input) /\ Below(turn, input) /\ Below(cmd, input)
         /\ Below(Flat(queue), input)
  BY <1>1, <1>2, <1>3, <1>5 DEF Below
<1>14. SetOf(all) = SetOf(delivered) \union SetOf(drain.text) \union SetOf(turn) \union SetOf(cmd)
                    \union SetOf(Flat(queue)) \union SetOf(input)
  BY <1>1, <1>2, <1>3, <1>5, <1>6
<1> QED
  BY <1>9, <1>10, <1>11, <1>12, <1>13, <1>14 DEF InOrder

\* The moves a text can make leave the order as it is.
LEMMA MovesInOrder ==
  ASSUME NEW d \in Seq(Messages), NEW a \in Seq(Messages), NEW t \in Seq(Messages), NEW c \in Seq(Messages),
         NEW q \in Seq(Messages), NEW i \in Seq(Messages), NEW g, NEW n \in Nat,
         InOrder(d, a, t, c, q, i, g, n)
  PROVE  /\ t = <<>> => InOrder(d, a, c, <<>>, q, i, g, n)
         /\ a = <<>> => InOrder(d \o t, a, <<>>, c, q, i, g, n)
         /\ t = <<>> => InOrder(d \o a, <<>>, t, c, q, i, g, n)
         /\ InOrder(d, a, <<>>, c, q, i, g \union SetOf(t), n)
         /\ c = <<>> => InOrder(d, a, t, q, <<>>, i, g, n)
         /\ a = <<>> /\ t = <<>> /\ c = <<>> => InOrder(d, q, t, c, <<>>, i, g, n)
         /\ c = <<>> /\ q = <<>> => InOrder(d, a, t, i, q, <<>>, g, n)
         /\ InOrder(d, a, t, c, q \o i, <<>>, g, n)
<1> USE DEF InOrder
<1>0. \A s : Below(s, <<>>) /\ Below(<<>>, s)
  BY SetOfEmpty DEF Below
<1>1. t = <<>> => InOrder(d, a, c, <<>>, q, i, g, n)
  BY <1>0, SetOfEmpty
<1>2. ASSUME a = <<>> PROVE InOrder(d \o t, a, <<>>, c, q, i, g, n)
  <2>1. SetOf(d \o t) = SetOf(d) \union SetOf(t) /\ Sorted(d \o t)
    BY SetOfJoin, SortedJoin
  <2>2. Below(d \o t, c) /\ Below(d \o t, q) /\ Below(d \o t, i)
    BY <2>1 DEF Below
  <2> QED BY <1>0, <1>2, <2>1, <2>2, SetOfEmpty
<1>3. ASSUME t = <<>> PROVE InOrder(d \o a, <<>>, t, c, q, i, g, n)
  <2>1. SetOf(d \o a) = SetOf(d) \union SetOf(a) /\ Sorted(d \o a)
    BY SetOfJoin, SortedJoin
  <2>2. Below(d \o a, c) /\ Below(d \o a, q) /\ Below(d \o a, i)
    BY <2>1 DEF Below
  <2> QED BY <1>0, <1>3, <2>1, <2>2, SetOfEmpty
<1>4. InOrder(d, a, <<>>, c, q, i, g \union SetOf(t), n)
  BY <1>0, SetOfEmpty
<1>5. c = <<>> => InOrder(d, a, t, q, <<>>, i, g, n)
  BY <1>0, SetOfEmpty
<1>6. a = <<>> /\ t = <<>> /\ c = <<>> => InOrder(d, q, t, c, <<>>, i, g, n)
  BY <1>0, SetOfEmpty
<1>7. c = <<>> /\ q = <<>> => InOrder(d, a, t, i, q, <<>>, g, n)
  BY <1>0, SetOfEmpty
<1>8. InOrder(d, a, t, c, q \o i, <<>>, g, n)
  <2>1. SetOf(q \o i) = SetOf(q) \union SetOf(i) /\ Sorted(q \o i)
    BY SetOfJoin, SortedJoin
  <2>2. Below(d, q \o i) /\ Below(a, q \o i) /\ Below(t, q \o i) /\ Below(c, q \o i)
    BY <2>1 DEF Below
  <2> QED BY <1>0, <2>1, <2>2, SetOfEmpty
<1> QED BY <1>1, <1>2, <1>3, <1>4, <1>5, <1>6, <1>7, <1>8

\* A message that is read comes last.
LEMMA ReadsInOrder ==
  ASSUME NEW d \in Seq(Messages), NEW a \in Seq(Messages), NEW t \in Seq(Messages), NEW c \in Seq(Messages),
         NEW q \in Seq(Messages), NEW i \in Seq(Messages), NEW g, NEW n \in Nat, n + 1 \in Messages,
         InOrder(d, a, t, c, q, i, g, n)
  PROVE  InOrder(d, a, t, c, q, Append(i, n + 1), g, n + 1)
<1> DEFINE r == <<n + 1>> j == Append(i, n + 1)
<1>1. r \in Seq(Messages) /\ j = i \o r
  OBVIOUS
<1>2. SetOf(r) = {n + 1} /\ Sorted(r)
  BY SetOfOne
<1> HIDE DEF r, j
<1>3. \A s \in {d, a, t, c, q, i} : \A m \in SetOf(s) : m \in 1..n
  BY DEF InOrder
<1>4. Below(d, r) /\ Below(a, r) /\ Below(t, r) /\ Below(c, r) /\ Below(q, r) /\ Below(i, r)
  BY <1>2, <1>3 DEF Below
<1>5. SetOf(j) = SetOf(i) \union {n + 1} /\ Sorted(j)
  <2>1. Sorted(i)
    BY DEF InOrder
  <2> QED BY <1>1, <1>2, <1>4, <2>1, SetOfJoin, SortedJoin
<1>6. Below(d, j) /\ Below(a, j) /\ Below(t, j) /\ Below(c, j) /\ Below(q, j)
  <2>1. Below(d, i) /\ Below(a, i) /\ Below(t, i) /\ Below(c, i) /\ Below(q, i)
    BY DEF InOrder
  <2> QED BY <1>2, <1>4, <1>5, <2>1 DEF Below
<1>7. (1..n) \union {n + 1} = 1..(n + 1)
  OBVIOUS
<1>8. SetOf(d) \union SetOf(a) \union SetOf(t) \union SetOf(c) \union SetOf(q) \union SetOf(j) \union g = 1..(n + 1)
  <2>1. SetOf(d) \union SetOf(a) \union SetOf(t) \union SetOf(c) \union SetOf(q) \union SetOf(i) \union g = 1..n
    BY DEF InOrder
  <2> QED BY <1>5, <1>7, <2>1
<1>9. InOrder(d, a, t, c, q, j, g, n + 1)
  BY <1>5, <1>6, <1>8 DEF InOrder
<1> QED BY <1>9 DEF j

Ordered ==
  /\ Texts /\ Held
  /\ queue \in Seq(Seq(Messages)) /\ input \in Seq(Messages) /\ typed \in 0..MaxMessages
  /\ oneShot /\ ~submitted => typed = 0
  /\ InOrder(delivered, drain.text, turn, cmd, Flat(queue), input, gone, typed)

LEMMA WorkerKeepsOrder ==
  ASSUME Ordered, Worker, UNCHANGED <<ui, oneShot, promptVars>>
  PROVE  Ordered'
<1> DEFINE q == Flat(queue)
<1>1. Texts' /\ Held' /\ (Keeps \/ Takes \/ Joins \/ Drains \/ Loses)
  BY LoopCarries, TurnCarries DEF Worker, Ordered
<1>2. UNCHANGED <<queue, input, typed, oneShot, submitted>>
  BY DEF promptVars
<1>3. /\ delivered \in Seq(Messages) /\ drain.text \in Seq(Messages) /\ turn \in Seq(Messages)
      /\ cmd \in Seq(Messages) /\ q \in Seq(Messages) /\ input \in Seq(Messages) /\ typed \in Nat
  BY FlatWithin DEF Ordered, Texts
<1>4. q' = q
  BY <1>2
<1>5. InOrder(delivered, drain.text, turn, cmd, q, input, gone, typed)
  BY DEF Ordered
<1> HIDE DEF q
<1>6. InOrder(delivered, drain.text, turn, cmd, q, input, gone, typed)'
  <2>1. CASE Keeps
    BY <1>2, <1>4, <1>5, <2>1 DEF Keeps
  <2>2. CASE Takes
    BY <1>2, <1>3, <1>4, <1>5, <2>2, MovesInOrder DEF Takes
  <2>3. CASE Joins
    BY <1>2, <1>3, <1>4, <1>5, <2>3, MovesInOrder DEF Joins
  <2>4. CASE Drains
    <3>1. turn = <<>> /\ drain.text' = <<>> /\ delivered' = delivered \o drain.text /\ UNCHANGED <<cmd, turn, gone>>
      BY <2>4 DEF Drains
    <3>2. InOrder(delivered \o drain.text, <<>>, turn, cmd, q, input, gone, typed)
      BY <1>3, <1>5, <3>1, MovesInOrder
    <3> QED BY <1>2, <1>4, <3>1, <3>2
  <2>5. CASE Loses
    BY <1>2, <1>3, <1>4, <1>5, <2>5, MovesInOrder DEF Loses
  <2> QED BY <1>1, <2>1, <2>2, <2>3, <2>4, <2>5
<1> QED BY <1>1, <1>2, <1>6 DEF Ordered, q

LEMMA FrontEndKeepsOrder ==
  ASSUME HeadlessInv, Ordered, FrontEndStep
  PROVE  Ordered'
<1> DEFINE q == Flat(queue)
           There == InOrder(delivered, drain.text, turn, cmd, q, input, gone, typed)
<1>0. UNCHANGED oneShot
  BY DEF FrontEndStep, FrontEnd
<1>1. /\ delivered \in Seq(Messages) /\ drain.text \in Seq(Messages) /\ turn \in Seq(Messages)
      /\ cmd \in Seq(Messages) /\ q \in Seq(Messages) /\ input \in Seq(Messages) /\ typed \in Nat
  BY FlatWithin DEF Ordered, Texts
<1>2. There /\ queue \in Seq(Seq(Messages)) /\ typed \in 0..MaxMessages
  BY DEF Ordered
<1>3. /\ Flat(<<>>) = <<>> /\ <<>> \in Seq(Seq(Messages))
      /\ Flat(<<q>>) = q /\ <<q>> \in Seq(Seq(Messages))
      /\ Flat(Append(queue, input)) = q \o input /\ Append(queue, input) \in Seq(Seq(Messages))
  BY <1>1, <1>2, FlatEmpty, FlatOne, FlatAppend
<1>4. queue = <<>> => q = <<>>
  BY FlatEmpty
<1> HIDE DEF q
\* what no step of the front end touches, and the parts that follow from the rest
<1>5. ASSUME UNCHANGED <<pc, ret, turn, delivered>>, cmd' \in Seq(Messages),
             drain' = drain \/ (drain.pending /\ drain' = [pending |-> FALSE, answered |-> TRUE, text |-> q])
      PROVE  Texts' /\ Held'
  <2>1. CASE drain' = drain
    BY <1>5, <2>1 DEF Ordered, Texts, Held
  <2>2. CASE drain.pending /\ drain' = [pending |-> FALSE, answered |-> TRUE, text |-> q]
    <3>1. Texts'
      BY <1>1, <1>5, <2>2 DEF Ordered, Texts
    <3>2. drain'.pending = FALSE /\ drain'.answered = TRUE
      BY <2>2
    <3> QED BY <1>5, <2>2, <3>1, <3>2 DEF Ordered, Held
  <2> QED BY <1>5, <2>1, <2>2
<1>6. ASSUME UNCHANGED <<pc, ret, turn, delivered, drain, cmd, gone, queue, input, typed, submitted>>
      PROVE  Ordered'
  <2>1. Texts' /\ Held'
    BY <1>1, <1>5, <1>6
  <2>2. q' = q
    BY <1>6 DEF q
  <2> QED BY <1>0, <1>2, <1>6, <2>1, <2>2 DEF Ordered, q
<1>7. CASE SubmitOneShot
  <2>1. SubmitOneShot /\ typed = 0 /\ MaxMessages \in Nat /\ MaxMessages # 0
    BY <1>7, BoundsAreNat, PromptIsMessage DEF SubmitOneShot, Ordered
  <2>2. 1 \in Messages /\ <<1>> \in Seq(Messages) /\ 1 \in 0..MaxMessages
    BY <2>1 DEF Messages
  <2>3. /\ cmd = <<>> /\ cmd' = <<1>> /\ typed' = 1 /\ submitted'
        /\ UNCHANGED <<pc, ret, turn, drain, delivered, gone, queue, input, oneShot>>
    BY <1>0, <2>1 DEF SubmitOneShot, CanSubmit, Submit, thread, handoffs, session
  <2>4. Texts' /\ Held'
    BY <1>5, <2>2, <2>3
  <2>5. InOrder(delivered, drain.text, turn, <<1>>, q, input, gone, 1)
    <3>1. \A s \in {delivered, drain.text, turn, q, input} : SetOf(s) = {}
      BY <1>2, <2>1 DEF InOrder
    <3>2. gone = {} /\ 1..1 = {1}
      BY <1>2, <2>1 DEF InOrder
    <3>3. /\ Sorted(delivered) /\ Sorted(drain.text) /\ Sorted(turn) /\ Sorted(q) /\ Sorted(input)
          /\ Below(delivered, drain.text) /\ Below(delivered, turn) /\ Below(delivered, q) /\ Below(delivered, input)
          /\ Below(drain.text, turn) /\ Below(drain.text, q) /\ Below(drain.text, input)
          /\ Below(turn, q) /\ Below(turn, input) /\ Below(q, input)
      BY <1>2 DEF InOrder
    <3>4. \A s \in {delivered, drain.text, turn, q, input} : Below(s, <<1>>) /\ Below(<<1>>, s)
      BY <3>1 DEF Below
    <3> QED BY <3>1, <3>2, <3>3, <3>4, SetOfOne DEF InOrder
  <2>6. q' = q
    BY <2>3 DEF q
  <2> QED BY <1>2, <2>2, <2>3, <2>4, <2>5, <2>6 DEF Ordered, q
<1>8. CASE SubmitQueue
  <2>1. UNCHANGED <<pc, ret, turn, drain, delivered, gone, input, typed, submitted>>
    BY <1>8 DEF SubmitQueue, thread, handoffs, session
  <2>2. CASE CanSubmit
    <3>1. cmd = <<>> /\ cmd' = q /\ queue' = <<>>
      BY <1>8, <2>2 DEF SubmitQueue, CanSubmit, Submit, q
    <3>2. Texts' /\ Held' /\ queue' \in Seq(Seq(Messages)) /\ q' = <<>>
      BY <1>1, <1>3, <1>5, <2>1, <3>1 DEF q
    <3>3. There'
      BY <1>1, <1>2, <2>1, <3>1, <3>2, MovesInOrder
    <3> QED BY <1>0, <1>2, <2>1, <3>2, <3>3 DEF Ordered, q
  <2>3. CASE ~CanSubmit
    <3>1. cmd' = cmd /\ queue' = <<q>>
      BY <1>8, <2>3 DEF SubmitQueue, q
    <3>2. Texts' /\ Held' /\ queue' \in Seq(Seq(Messages)) /\ q' = q
      BY <1>1, <1>3, <1>5, <2>1, <3>1 DEF q
    <3>3. There'
      BY <1>2, <2>1, <3>1, <3>2
    <3> QED BY <1>0, <1>2, <2>1, <3>2, <3>3 DEF Ordered, q
  <2> QED BY <2>2, <2>3
<1>9. CASE Read
  <2>1. UNCHANGED <<pc, ret, turn, drain, cmd, delivered, gone, queue, submitted>>
    BY <1>9 DEF Read, workerVars, thread, handoffs, session
  <2>2. CASE UNCHANGED <<typed, input>>
    BY <1>6, <2>1, <2>2
  <2>3. CASE ~oneShot /\ typed < MaxMessages /\ typed' = typed + 1 /\ input' = Append(input, typed + 1)
    <3>1. typed + 1 \in Messages /\ typed' \in 0..MaxMessages /\ input' \in Seq(Messages)
      BY <1>1, <1>2, <2>3, BoundsAreNat DEF Messages
    <3>2. Texts' /\ Held' /\ q' = q
      BY <1>1, <1>5, <2>1 DEF q
    <3>3. There'
      BY <1>1, <1>2, <2>1, <2>3, <3>1, <3>2, ReadsInOrder
    <3> QED BY <1>0, <1>2, <2>1, <2>3, <3>1, <3>2, <3>3 DEF Ordered, q
  <2> QED BY <1>9, <2>2, <2>3 DEF Read, StdinOpen
<1>10. CASE HandOver
  <2>1. UNCHANGED <<pc, ret, turn, cmd, delivered, gone, input, typed, submitted>>
    BY <1>10 DEF HandOver, thread, session
  <2>2. CASE ~drain.pending
    BY <1>6, <1>10, <2>1, <2>2 DEF HandOver
  <2>3. CASE drain.pending
    <3>1. drain' = [pending |-> FALSE, answered |-> TRUE, text |-> q] /\ queue' = <<>>
      BY <1>10, <2>3 DEF HandOver, q
    <3>2. pc = "draining" /\ drain.text = <<>> /\ turn = <<>>
      BY <2>3 DEF Ordered, Held, Texts
    <3>3. cmd = <<>>
      BY <3>2 DEF HeadlessInv, CommandWaits, Between
    <3>4. Texts' /\ Held' /\ queue' \in Seq(Seq(Messages)) /\ q' = <<>> /\ drain'.text = q
      BY <1>1, <1>3, <1>5, <2>1, <2>3, <3>1 DEF q
    <3>5. There'
      BY <1>1, <1>2, <2>1, <3>2, <3>3, <3>4, MovesInOrder
    <3> QED BY <1>0, <1>2, <2>1, <3>4, <3>5 DEF Ordered, q
  <2> QED BY <2>2, <2>3
<1>11. CASE Prompt
  <2>1. UNCHANGED <<pc, ret, turn, drain, delivered, gone, typed, submitted>> /\ input' = <<>> /\ <<>> \in Seq(Messages)
    BY <1>11 DEF Prompt, thread, handoffs, session
  <2>2. CASE MaySubmit /\ CanSubmit
    <3>1. cmd = <<>> /\ cmd' = input /\ queue' = queue /\ queue = <<>>
      BY <1>11, <2>2 DEF Prompt, MaySubmit, CanSubmit, Submit
    <3>2. Texts' /\ Held' /\ q' = q /\ q = <<>>
      BY <1>1, <1>4, <1>5, <2>1, <3>1 DEF q
    <3>3. There'
      BY <1>1, <1>2, <2>1, <3>1, <3>2, MovesInOrder
    <3> QED BY <1>0, <1>2, <2>1, <3>1, <3>2, <3>3 DEF Ordered, q
  <2>3. CASE ~(MaySubmit /\ CanSubmit)
    <3>1. cmd' = cmd /\ queue' = Append(queue, input)
      BY <1>11, <2>3 DEF Prompt
    <3>2. Texts' /\ Held' /\ queue' \in Seq(Seq(Messages)) /\ q' = q \o input
      BY <1>1, <1>3, <1>5, <2>1, <3>1 DEF q
    <3>3. There'
      BY <1>1, <1>2, <2>1, <3>1, <3>2, MovesInOrder
    <3> QED BY <1>0, <1>2, <2>1, <3>2, <3>3 DEF Ordered, q
  <2> QED BY <2>2, <2>3
<1>12. CASE NothingToSubmit \/ Poll \/ Break \/ ConsumeSeen \/ NoPrompt \/ Check \/ Leave \/ SavedOnExit
            \/ SaveOnExitFails \/ StopAtEnd \/ JoinAtEnd
  <2>1. UNCHANGED <<pc, ret, turn, drain, cmd, delivered, gone, queue, input, typed, submitted>>
    BY <1>12 DEF NothingToSubmit, Poll, Break, ConsumeSeen, NoPrompt, Check, Leave, SavedOnExit, SaveOnExitFails,
                 StopAtEnd, JoinAtEnd, GoOn, promptVars, workerVars, thread, handoffs, session
  <2> QED BY <1>6, <2>1
<1> QED BY <1>7, <1>8, <1>9, <1>10, <1>11, <1>12 DEF FrontEndStep, FrontEnd

\* Messages read from stdin are delivered in the order they came, none twice and none
\* lost but with a turn that failed to start (worker_submit, agent_prompt_queue_take_all,
\* worker_answer_queued_user_drain).
THEOREM MessagesInOrder == HeadlessSpec => []OrderKept
<1>1. HeadlessInit => HeadlessInv /\ Ordered
  <2> SUFFICES ASSUME HeadlessInit PROVE HeadlessInv /\ Ordered
    OBVIOUS
  <2>1. HeadlessInv
    BY DEF HeadlessInit, WorkerInit, HeadlessInv, Places, Between, Compacting, TurnEnding, InTurnBody, NoRequests,
           IdleIsBetween, Idle, CommandWaits, Started, TurnHeld, EndsWell, Done, NotStopped, OneShotReadsNothing
  <2>2. /\ turn = <<>> /\ cmd = <<>> /\ delivered = <<>> /\ queue = <<>> /\ input = <<>> /\ typed = 0 /\ gone = {}
        /\ drain = [pending |-> FALSE, answered |-> FALSE, text |-> <<>>] /\ pc = "init"
    BY DEF HeadlessInit, WorkerInit, NoDrain
  <2>3. Texts /\ Held /\ queue \in Seq(Seq(Messages)) /\ input \in Seq(Messages) /\ typed \in 0..MaxMessages
    BY <2>2, BoundsAreNat DEF Texts, Held
  <2>4. InOrder(delivered, drain.text, turn, cmd, Flat(queue), input, gone, typed)
    BY <2>2, FlatEmpty, SetOfEmpty DEF InOrder, Below
  <2> QED BY <2>1, <2>2, <2>3, <2>4 DEF Ordered
<1>2. HeadlessInv /\ Ordered /\ [HeadlessNext]_headlessVars => Ordered'
  <2> SUFFICES ASSUME HeadlessInv, Ordered, [HeadlessNext]_headlessVars PROVE Ordered'
    OBVIOUS
  <2>1. CASE FrontEndStep
    BY <2>1, FrontEndKeepsOrder
  <2>2. CASE WorkerStepWakes
    BY <2>2, WorkerKeepsOrder DEF WorkerStepWakes
  <2>3. CASE SpuriousReturn \/ Ended \/ UNCHANGED headlessVars
    <3>1. UNCHANGED <<pc, ret, turn, drain, cmd, delivered, gone, queue, input, typed, submitted, oneShot>>
      BY <2>3 DEF SpuriousReturn, SpuriousWake, Ended, headlessVars, promptVars, workerVars, thread, handoffs, session
    <3> QED BY <3>1 DEF Ordered, Texts, Held
  <2> QED BY <2>1, <2>2, <2>3 DEF HeadlessNext
<1>3. Ordered => OrderKept
  BY OrderByPlace DEF Ordered
<1> QED
  BY <1>1, <1>2, <1>3, HeadlessInvariance, PTL DEF HeadlessSpec

(***************************************************************************)
(* The terminal: an answer belongs to its question.                        *)
(***************************************************************************)
Kinds ==
  /\ approval \in [pending : BOOLEAN, answered : BOOLEAN, allow : BOOLEAN, of : Nat]
  /\ drain.pending \/ drain.answered => pc = "draining"
  /\ asks \in Nat /\ shown \in Nat
  /\ ret \in {"wait", "after", "saveq", "append", "round", "result"}
  /\ initialized \/ pc \in {"init", "ready"}
  /\ stop => ui \in {"joining", "exited"}
  /\ uret \in Goals

(* The worker asks; nobody has answered yet, or somebody who was shown it. *)
QuestionOpen ==
  /\ approval.pending => raced \/ (pc = "asking" /\ ~approval.answered)
  /\ pc = "asking" /\ approval.answered => raced \/ approval.of = asks

(* The turn that gave its question up is interrupted, ends, or is over,    *)
(* and then no command waits.                                              *)
GivenUp ==
  /\ interrupt /\ ~drain.answered
  /\ \/ pc \in {"tool", "result", "drain", "draining"}
     \/ pc \in {"compact", "summarize"} /\ ret = "result"

Ending == pc \in {"interrupted", "answered"} /\ ret \in {"after", "saveq", "wait"}

TurnOver ==
  /\ cmd = <<>>
  /\ \/ pc \in {"after", "saveq", "saving", "wait", "stopped"}
     \/ pc \in {"compact", "summarize", "rebuild"} /\ ret \in {"saveq", "wait"}

Asking == pc = "asking" /\ shown = asks /\ ~approval.pending /\ ~approval.answered

(* The terminal waits at the prompt of a question. *)
PromptKnown == ui = "prompt" => raced \/ Asking \/ GivenUp \/ Ending \/ TurnOver

AnswerInv == Kinds /\ QuestionOpen /\ PromptKnown /\ AnswersItsQuestion

(* Nothing of this is touched by what the front end does for itself.       *)
LEMMA QuietKeeps ==
  ASSUME AnswerInv, UNCHANGED <<pc, ret, initialized, interrupt, stop, cmd, asks, drain, approval, heard, shown>>,
         ui' # "prompt", stop => ui' \in {"joining", "exited"}, uret' \in Goals, raced => raced'
  PROVE  AnswerInv'
BY DEF AnswerInv, Kinds, QuestionOpen, PromptKnown, AnswersItsQuestion

(* The command loop, deferred work and compactions. *)
LEMMA LoopKeeps ==
  ASSUME AnswerInv, Loop, UNCHANGED <<ui, shown, uret>>, raced => raced', IdleWhilePending' => raced'
  PROVE  AnswerInv'
<1> USE DEF AnswerInv, Kinds, QuestionOpen, PromptKnown, Asking, GivenUp, Ending, TurnOver,
            AnswersItsQuestion, IdleWhilePending, Idle, Goto, handoffs, flags, thread
<1>1. CASE LoadSystemPrompt
  BY <1>1 DEF LoadSystemPrompt
<1>2. CASE LoadSystemPromptFails
  BY <1>2 DEF LoadSystemPromptFails
<1>3. CASE Initialized
  BY <1>3 DEF Initialized
<1>4. CASE Sleep
  BY <1>4 DEF Sleep
<1>5. CASE Stopped
  BY <1>5 DEF Stopped
<1>6. CASE TakeCommand
  BY <1>6 DEF TakeCommand
<1>7. CASE DeferredCompact
  BY <1>7 DEF DeferredCompact, Then
<1>8. CASE NoDeferredCompact
  BY <1>8 DEF NoDeferredCompact
<1>9. CASE DeferredSave
  BY <1>9 DEF DeferredSave
<1>10. CASE NoDeferredSave
  BY <1>10 DEF NoDeferredSave
<1>11. CASE FinishSave
  BY <1>11 DEF FinishSave
<1>12. CASE NothingToCompact
  BY <1>12 DEF NothingToCompact, Return
<1>13. CASE BeginCompact
  BY <1>13 DEF BeginCompact
<1>14. CASE Summarized
  BY <1>14 DEF Summarized, Interrupted
<1>15. CASE Rebuilt
  BY <1>15 DEF Rebuilt, Return
<1>16. CASE CompactFails
  BY <1>16 DEF CompactFails, InTurn, AfterFailure
<1>17. CASE CompactInterrupted
  BY <1>17 DEF CompactInterrupted, InTurn, AfterFailure
<1> QED BY <1>1, <1>2, <1>3, <1>4, <1>5, <1>6, <1>7, <1>8, <1>9, <1>10, <1>11, <1>12, <1>13, <1>14, <1>15, <1>16, <1>17 DEF Loop

(* A turn and its tools. *)
LEMMA TurnKeeps ==
  ASSUME AnswerInv, Turn, UNCHANGED <<ui, shown, uret>>, raced => raced', IdleWhilePending' => raced'
  PROVE  AnswerInv'
<1> USE DEF AnswerInv, Kinds, QuestionOpen, PromptKnown, Asking, GivenUp, Ending, TurnOver,
            AnswersItsQuestion, IdleWhilePending, Idle, Goto, handoffs, flags, thread
<1>1. CASE AppendUser
  BY <1>1 DEF AppendUser
<1>2. CASE BeginPrefill
  BY <1>2 DEF BeginPrefill
<1>3. CASE Prefilled
  BY <1>3 DEF Prefilled
<1>4. CASE TurnFails
  BY <1>4 DEF TurnFails
<1>5. CASE TurnInterrupted
  BY <1>5 DEF TurnInterrupted
<1>6. CASE ClearInterrupt
  BY <1>6 DEF ClearInterrupt
<1>7. CASE FinalAnswer
  BY <1>7 DEF FinalAnswer
<1>8. CASE PublishIdle
  BY <1>8 DEF PublishIdle, Return
<1>9. CASE ToolCall
  BY <1>9 DEF ToolCall
<1>10. CASE Ask
  <2>1. /\ pc = "tool" /\ ~interrupt /\ pc' = "asking" /\ asks' = asks + 1
        /\ approval' = [pending |-> TRUE, answered |-> FALSE, allow |-> FALSE, of |-> 0]
        /\ UNCHANGED <<ret, initialized, interrupt, stop, cmd, drain, heard>>
    BY <1>10 DEF Ask, Question, NoApproval, Interrupted
  <2>2. ui = "prompt" => raced
    BY <2>1
  <2>3. Kinds'
    BY <2>1
  <2>4. QuestionOpen' /\ PromptKnown' /\ AnswersItsQuestion'
    BY <2>1, <2>2
  <2> QED BY <2>3, <2>4
<1>11. CASE AskInVain
  BY <1>11 DEF AskInVain, NoApproval
<1>12. CASE AwaitAnswer
  BY <1>12 DEF AwaitAnswer
<1>13. CASE Answered
  BY <1>13 DEF Answered
<1>14. CASE AskInterrupted
  BY <1>14 DEF AskInterrupted, Interrupted
<1>15. CASE ToolDone
  BY <1>15 DEF ToolDone
<1>16. CASE AppendResult
  BY <1>16 DEF AppendResult
<1>17. CASE ContextFull
  BY <1>17 DEF ContextFull
<1>18. CASE RequestDrain
  BY <1>18 DEF RequestDrain, NoDrain
<1>19. CASE AwaitDrain
  BY <1>19 DEF AwaitDrain
<1>20. CASE Drained
  BY <1>20 DEF Drained, NoDrain
<1> QED BY <1>1, <1>2, <1>3, <1>4, <1>5, <1>6, <1>7, <1>8, <1>9, <1>10, <1>11, <1>12, <1>13, <1>14, <1>15, <1>16, <1>17, <1>18, <1>19, <1>20 DEF Turn

(* A step of the terminal that has to do with neither a question nor a     *)
(* command nor the end of the program.                                     *)
Quiet ==
  \/ NoKey \/ Consume \/ NothingAsked \/ NoSend \/ NoEdit \/ NoLine
  \/ EnterLine \/ EndOfInput \/ NothingToSave \/ DeclineSave \/ AcceptSave
  \/ SaveFails \/ ResetFails \/ CheckSwitch \/ SwitchFails \/ JoinWorker
  \/ CtrlC \/ Escape \/ Refused \/ SaveNow \/ NewSession \/ SwitchSession
  \/ Quit \/ QueueMessage \/ CtrlX \/ ForgetError \/ Saved
  \/ ResetFromCache \/ ResetTranscript \/ ResetDone \/ Switched
  \/ RequestSave \/ RequestCompact

LEMMA TerminalKeeps ==
  ASSUME AnswerInv, Quiet, raced => raced'
  PROVE  AnswerInv'
<1> DEFINE Aside ==
      /\ UNCHANGED <<pc, ret, initialized, interrupt, stop, cmd, asks, drain, approval, heard, shown>>
      /\ ui' # "prompt" /\ uret' \in Goals /\ (stop => ui' \in {"joining", "exited"})
<1> USE DEF AnswerInv, Kinds, Walk, Goals, workerVars, uiVars, thread, flags, handoffs
<1>1. CASE NoKey
  <2>1. Aside
    BY <1>1 DEF NoKey
  <2> QED BY <2>1, QuietKeeps
<1>2. CASE Consume
  <2>1. Aside
    BY <1>2 DEF Consume
  <2> QED BY <2>1, QuietKeeps
<1>3. CASE NothingAsked
  <2>1. Aside
    BY <1>3 DEF NothingAsked
  <2> QED BY <2>1, QuietKeeps
<1>4. CASE NoSend
  <2>1. Aside
    BY <1>4 DEF NoSend
  <2> QED BY <2>1, QuietKeeps
<1>5. CASE NoEdit
  <2>1. Aside
    BY <1>5 DEF NoEdit
  <2> QED BY <2>1, QuietKeeps
<1>6. CASE NoLine
  <2>1. Aside
    BY <1>6 DEF NoLine
  <2> QED BY <2>1, QuietKeeps
<1>7. CASE EnterLine
  <2>1. Aside
    BY <1>7 DEF EnterLine
  <2> QED BY <2>1, QuietKeeps
<1>8. CASE EndOfInput
  <2>1. Aside
    BY <1>8 DEF EndOfInput
  <2> QED BY <2>1, QuietKeeps
<1>9. CASE NothingToSave
  <2>1. Aside
    BY <1>9 DEF NothingToSave, Left, Leaving, Goals
  <2> QED BY <2>1, QuietKeeps
<1>10. CASE DeclineSave
  <2>1. Aside
    BY <1>10 DEF DeclineSave, Leaving, Goals
  <2> QED BY <2>1, QuietKeeps
<1>11. CASE AcceptSave
  <2>1. Aside
    BY <1>11 DEF AcceptSave, AfterFailedSave, Goals
  <2> QED BY <2>1, QuietKeeps
<1>12. CASE SaveFails
  <2>1. Aside
    BY <1>12 DEF SaveFails, AfterFailedSave, Goals
  <2> QED BY <2>1, QuietKeeps
<1>13. CASE ResetFails
  <2>1. Aside
    BY <1>13 DEF ResetFails
  <2> QED BY <2>1, QuietKeeps
<1>14. CASE CheckSwitch
  <2>1. Aside
    BY <1>14 DEF CheckSwitch
  <2> QED BY <2>1, QuietKeeps
<1>15. CASE SwitchFails
  <2>1. Aside
    BY <1>15 DEF SwitchFails
  <2> QED BY <2>1, QuietKeeps
<1>16. CASE JoinWorker
  <2>1. Aside
    BY <1>16 DEF JoinWorker
  <2> QED BY <2>1, QuietKeeps
<1>17. CASE CtrlC
  <2>1. Aside
    BY <1>17 DEF CtrlC, Act
  <2> QED BY <2>1, QuietKeeps
<1>18. CASE Escape
  <2>1. Aside
    BY <1>18 DEF Escape, Act
  <2> QED BY <2>1, QuietKeeps
<1>19. CASE Refused
  <2>1. Aside
    BY <1>19 DEF Refused, Act
  <2> QED BY <2>1, QuietKeeps
<1>20. CASE SaveNow
  <2>1. Aside
    BY <1>20 DEF SaveNow, Command
  <2> QED BY <2>1, QuietKeeps
<1>21. CASE NewSession
  <2>1. Aside
    BY <1>21 DEF NewSession, Command
  <2> QED BY <2>1, QuietKeeps
<1>22. CASE SwitchSession
  <2>1. Aside
    BY <1>22 DEF SwitchSession, Command
  <2> QED BY <2>1, QuietKeeps
<1>23. CASE Quit
  <2>1. Aside
    BY <1>23 DEF Quit, Command
  <2> QED BY <2>1, QuietKeeps
<1>24. CASE QueueMessage
  <2>1. Aside
    BY <1>24 DEF QueueMessage
  <2> QED BY <2>1, QuietKeeps
<1>25. CASE CtrlX
  <2>1. Aside
    BY <1>25 DEF CtrlX
  <2> QED BY <2>1, QuietKeeps
<1>26. CASE ForgetError
  <2>1. Aside
    BY <1>26 DEF ForgetError
  <2> QED BY <2>1, QuietKeeps
<1>27. CASE Saved
  <2>1. Aside
    BY <1>27 DEF Saved, Left, Leaving
  <2> QED BY <2>1, QuietKeeps
<1>28. CASE ResetFromCache
  <2>1. Aside
    BY <1>28 DEF ResetFromCache
  <2> QED BY <2>1, QuietKeeps
<1>29. CASE ResetTranscript
  <2>1. Aside
    BY <1>29 DEF ResetTranscript
  <2> QED BY <2>1, QuietKeeps
<1>30. CASE ResetDone
  <2>1. Aside
    BY <1>30 DEF ResetDone
  <2> QED BY <2>1, QuietKeeps
<1>31. CASE Switched
  <2>1. Aside
    BY <1>31 DEF Switched
  <2> QED BY <2>1, QuietKeeps
<1>32. CASE RequestSave
  <2>1. Aside
    BY <1>32 DEF RequestSave, Request
  <2> QED BY <2>1, QuietKeeps
<1>33. CASE RequestCompact
  <2>1. Aside
    BY <1>33 DEF RequestCompact, Request
  <2> QED BY <2>1, QuietKeeps
<1> QED BY <1>1, <1>2, <1>3, <1>4, <1>5, <1>6, <1>7, <1>8, <1>9, <1>10, <1>11, <1>12, <1>13, <1>14, <1>15, <1>16, <1>17, <1>18, <1>19, <1>20, <1>21, <1>22, <1>23, <1>24, <1>25, <1>26, <1>27, <1>28, <1>29, <1>30, <1>31, <1>32, <1>33 DEF Quiet

(* A question is only shown while the worker waits for its answer, and the *)
(* prompt is left with the answer.                                         *)
LEMMA PromptKeeps ==
  ASSUME AnswerInv, TakeQuestion \/ AnswerQuestion, raced => raced'
  PROVE  AnswerInv'
<1> USE DEF AnswerInv, Kinds, QuestionOpen, PromptKnown, Asking, AnswersItsQuestion,
            uiVars, thread, flags
<1>1. CASE TakeQuestion
  BY <1>1 DEF TakeQuestion
<1>2. CASE AnswerQuestion
  <2>1. PICK allow \in BOOLEAN : Tell(allow)
    BY <1>2 DEF AnswerQuestion
  <2>2. approval' = [approval EXCEPT !.answered = TRUE, !.allow = allow, !.of = shown]
    BY <2>1 DEF Tell
  <2>3. /\ ui = "prompt" /\ ui' = "loop"
        /\ UNCHANGED <<pc, ret, initialized, interrupt, stop, cmd, asks, drain, heard, shown, uret>>
    BY <1>2 DEF AnswerQuestion
  <2>4. approval'.pending = approval.pending /\ approval'.answered /\ approval'.of = shown
    BY <2>2
  <2>5. Kinds'
    BY <2>2, <2>3
  <2>6. approval.pending => raced
    BY <2>3 DEF GivenUp, Ending, TurnOver
  <2> QED BY <2>3, <2>4, <2>5, <2>6 DEF GivenUp, Ending, TurnOver
<1> QED BY <1>1, <1>2

(* The other steps of the terminal that the worker sees.                   *)
LEMMA HandoffKeeps ==
  ASSUME AnswerInv, SendInterrupt \/ AnswerDrain \/ SendQueue \/ SendMessage \/ StopWorker,
         raced => raced'
  PROVE  AnswerInv'
<1> USE DEF AnswerInv, Kinds, QuestionOpen, PromptKnown, AnswersItsQuestion, uiVars, thread, flags, handoffs
<1>1. CASE SendInterrupt
  BY <1>1 DEF SendInterrupt, Interrupt
<1>2. CASE AnswerDrain
  BY <1>2 DEF AnswerDrain
<1>3. CASE SendQueue
  BY <1>3 DEF SendQueue
<1>4. CASE SendMessage
  BY <1>4 DEF SendMessage
<1>5. CASE StopWorker
  BY <1>5 DEF StopWorker, Stop
<1> QED BY <1>1, <1>2, <1>3, <1>4, <1>5

(* A step keeps what the proof rests on. *)
LEMMA StepKeeps ==
  ASSUME AnswerInv, [Next]_vars
  PROVE  AnswerInv'
<1>1. CASE UNCHANGED vars
  BY <1>1 DEF vars, workerVars, uiVars, thread, flags, handoffs, AnswerInv, Kinds, QuestionOpen,
     PromptKnown, Asking, GivenUp, Ending, TurnOver, AnswersItsQuestion
<1>2. ASSUME Observe PROVE (raced => raced') /\ (IdleWhilePending' => raced')
  BY <1>2 DEF Observe
<1>3. CASE UI /\ Observe
  <2>1. \/ Quiet \/ TakeQuestion \/ AnswerQuestion
        \/ SendInterrupt \/ AnswerDrain \/ SendQueue \/ SendMessage \/ StopWorker
    BY <1>3 DEF UI, LoopStep, CommandStep, Quiet
  <2> QED BY <1>2, <1>3, <2>1, TerminalKeeps, PromptKeeps, HandoffKeeps
<1>4. CASE WorkerStep /\ Observe
  <2>1. (Loop \/ Turn) /\ UNCHANGED <<ui, shown, uret>>
    BY <1>4 DEF WorkerStep, Worker, uiVars
  <2> QED BY <1>2, <1>4, <2>1, LoopKeeps, TurnKeeps
<1>5. CASE Spurious /\ Observe
  BY <1>2, <1>5 DEF Spurious, SpuriousWake, uiVars, thread, flags, handoffs, AnswerInv, Kinds,
     QuestionOpen, PromptKnown, Asking, GivenUp, Ending, TurnOver, AnswersItsQuestion
<1> QED BY <1>1, <1>3, <1>4, <1>5 DEF Next, Exited

(* For any number of messages, questions and keys: the answer a tool acts  *)
(* on was given to the question it asked (agent_web_confirm,               *)
(* worker_answer_web_approval), unless a command was accepted in the       *)
(* middle of a turn.                                                       *)
THEOREM AnswerIsToItsQuestion == Spec => []AnswersItsQuestion
<1>1. Init => AnswerInv
  BY DEF Init, WorkerInit, NoDrain, NoApproval, AnswerInv, Kinds, Goals, QuestionOpen, PromptKnown,
     AnswersItsQuestion
<1>2. AnswerInv /\ [Next]_vars => AnswerInv'
  BY StepKeeps
<1>3. AnswerInv => AnswersItsQuestion
  BY DEF AnswerInv
<1> QED BY <1>1, <1>2, <1>3, PTL DEF Spec

(***************************************************************************)
(* The terminal: a message is in one place.                                *)
(***************************************************************************)
\* The places of a message (queued, commanded, in the turn, drained, delivered), those
\* given back or dropped and how many were typed: no place repeats one, no two share
\* one, and together they hold what was typed.
OnePlace(q, c, t, a, d, g, n) ==
  /\ Distinct(q) /\ Distinct(c) /\ Distinct(t) /\ Distinct(a) /\ Distinct(d)
  /\ Apart(q, c) /\ Apart(q, t) /\ Apart(q, a) /\ Apart(q, d)
  /\ Apart(c, t) /\ Apart(c, a) /\ Apart(c, d)
  /\ Apart(t, a) /\ Apart(t, d)
  /\ Apart(a, d)
  /\ SetOf(q) \union SetOf(c) \union SetOf(t) \union SetOf(a) \union SetOf(d) \union g = 1..n
  /\ (SetOf(q) \union SetOf(c) \union SetOf(t) \union SetOf(a) \union SetOf(d)) \intersect g = {}

\* MessagesKept, place by place.
LEMMA KeptByPlace ==
  ASSUME Texts, queue \in Seq(Seq(Messages))
  PROVE  MessagesKept <=> OnePlace(Flat(queue), cmd, turn, drain.text, delivered, gone, typed)
<1> DEFINE q == Flat(queue)
           qc == q \o cmd
           qct == qc \o turn
           qcta == qct \o drain.text
           all == qcta \o delivered
<1>0. q \in Seq(Messages)
  BY FlatWithin
<1> HIDE DEF q
<1>1. /\ qc \in Seq(Messages) /\ SetOf(qc) = SetOf(q) \union SetOf(cmd)
      /\ Distinct(qc) <=> Distinct(q) /\ Distinct(cmd) /\ Apart(q, cmd)
  BY <1>0, SetOfJoin, DistinctJoin DEF Texts
<1> HIDE DEF qc
<1>2. /\ qct \in Seq(Messages) /\ SetOf(qct) = SetOf(qc) \union SetOf(turn)
      /\ Distinct(qct) <=> Distinct(qc) /\ Distinct(turn) /\ Apart(qc, turn)
  BY <1>1, SetOfJoin, DistinctJoin DEF Texts
<1> HIDE DEF qct
<1>3. /\ qcta \in Seq(Messages) /\ SetOf(qcta) = SetOf(qct) \union SetOf(drain.text)
      /\ Distinct(qcta) <=> Distinct(qct) /\ Distinct(drain.text) /\ Apart(qct, drain.text)
  BY <1>2, SetOfJoin, DistinctJoin DEF Texts
<1> HIDE DEF qcta
<1>4. /\ SetOf(all) = SetOf(qcta) \union SetOf(delivered)
      /\ Distinct(all) <=> Distinct(qcta) /\ Distinct(delivered) /\ Apart(qcta, delivered)
  BY <1>3, SetOfJoin, DistinctJoin DEF Texts
<1>5. Waiting \o delivered = all
  BY DEF Waiting, all, qcta, qct, qc, q
<1> HIDE DEF all
<1>6. MessagesKept <=> Distinct(all) /\ SetOf(all) \union gone = 1..typed /\ SetOf(all) \intersect gone = {}
  BY <1>5, Zenon DEF MessagesKept, Distinct
<1>7. Distinct(all) <=>
        /\ Distinct(q) /\ Distinct(cmd) /\ Distinct(turn) /\ Distinct(drain.text) /\ Distinct(delivered)
        /\ Apart(q, cmd) /\ Apart(qc, turn) /\ Apart(qct, drain.text) /\ Apart(qcta, delivered)
  BY <1>1, <1>2, <1>3, <1>4, Zenon
<1>8. /\ Apart(qc, turn) <=> Apart(q, turn) /\ Apart(cmd, turn)
      /\ Apart(qct, drain.text) <=> Apart(q, drain.text) /\ Apart(cmd, drain.text) /\ Apart(turn, drain.text)
  BY <1>1, <1>2 DEF Apart
<1>9. Apart(qcta, delivered) <=>
        Apart(q, delivered) /\ Apart(cmd, delivered) /\ Apart(turn, delivered) /\ Apart(drain.text, delivered)
  BY <1>1, <1>2, <1>3 DEF Apart
<1>10. SetOf(all) = SetOf(q) \union SetOf(cmd) \union SetOf(turn) \union SetOf(drain.text) \union SetOf(delivered)
  BY <1>1, <1>2, <1>3, <1>4
<1>11. MessagesKept <=> OnePlace(q, cmd, turn, drain.text, delivered, gone, typed)
  BY <1>6, <1>7, <1>8, <1>9, <1>10 DEF OnePlace
<1> QED BY <1>11 DEF q

\* The moves a text can make keep its messages in one place.
LEMMA MovesKeepOnePlace ==
  ASSUME NEW q \in Seq(Messages), NEW c \in Seq(Messages), NEW t \in Seq(Messages), NEW a \in Seq(Messages),
         NEW d \in Seq(Messages), NEW g, NEW n \in Nat,
         OnePlace(q, c, t, a, d, g, n)
  PROVE  /\ t = <<>> => OnePlace(q, <<>>, c, a, d, g, n)
         /\ OnePlace(q, c, <<>>, a, d \o t, g, n)
         /\ OnePlace(q, c, t, <<>>, d \o a, g, n)
         /\ OnePlace(q, c, <<>>, a, d, g \union SetOf(t), n)
         /\ c = <<>> => OnePlace(<<>>, q, t, a, d, g, n)
         /\ a = <<>> => OnePlace(<<>>, c, t, q, d, g, n)
<1> USE DEF OnePlace
<1>0. \A s : Apart(s, <<>>) /\ Apart(<<>>, s)
  BY SetOfEmpty DEF Apart
<1>s. \A s, r : Apart(s, r) <=> Apart(r, s)
  BY DEF Apart
<1>1. t = <<>> => OnePlace(q, <<>>, c, a, d, g, n)
  BY <1>0, <1>s, SetOfEmpty
<1>2. OnePlace(q, c, <<>>, a, d \o t, g, n)
  <2>1. SetOf(d \o t) = SetOf(d) \union SetOf(t) /\ Distinct(d \o t)
    BY <1>s, SetOfJoin, DistinctJoin
  <2>2. Apart(q, d \o t) /\ Apart(c, d \o t) /\ Apart(a, d \o t)
    BY <2>1 DEF Apart
  <2> QED BY <1>0, <2>1, <2>2, SetOfEmpty
<1>3. OnePlace(q, c, t, <<>>, d \o a, g, n)
  <2>1. SetOf(d \o a) = SetOf(d) \union SetOf(a) /\ Distinct(d \o a)
    BY <1>s, SetOfJoin, DistinctJoin
  <2>2. Apart(q, d \o a) /\ Apart(c, d \o a) /\ Apart(t, d \o a)
    BY <2>1 DEF Apart
  <2> QED BY <1>0, <2>1, <2>2, SetOfEmpty
<1>4. OnePlace(q, c, <<>>, a, d, g \union SetOf(t), n)
  <2>1. (SetOf(q) \union SetOf(c) \union SetOf(a) \union SetOf(d)) \intersect SetOf(t) = {}
    BY DEF Apart
  <2> QED BY <1>0, <2>1, SetOfEmpty
<1>5. c = <<>> => OnePlace(<<>>, q, t, a, d, g, n)
  BY <1>0, <1>s, SetOfEmpty
<1>6. a = <<>> => OnePlace(<<>>, c, t, q, d, g, n)
  BY <1>0, <1>s, SetOfEmpty
<1> QED BY <1>1, <1>2, <1>3, <1>4, <1>5, <1>6

\* A message that is typed goes to the end of the queue, to the worker, or back.
LEMMA TypedInOnePlace ==
  ASSUME NEW q \in Seq(Messages), NEW c \in Seq(Messages), NEW t \in Seq(Messages), NEW a \in Seq(Messages),
         NEW d \in Seq(Messages), NEW g, NEW n \in Nat, n + 1 \in Messages,
         OnePlace(q, c, t, a, d, g, n)
  PROVE  /\ OnePlace(q \o <<n + 1>>, c, t, a, d, g, n + 1)
         /\ c = <<>> => OnePlace(q, <<n + 1>>, t, a, d, g, n + 1)
         /\ OnePlace(q, c, t, a, d, g \union {n + 1}, n + 1)
<1> DEFINE r == <<n + 1>>
<1>1. r \in Seq(Messages) /\ SetOf(r) = {n + 1} /\ Distinct(r)
  BY SetOfOne
<1> HIDE DEF r
<1>2. \A s \in {q, c, t, a, d} : \A m \in SetOf(s) : m \in 1..n
  BY DEF OnePlace
<1>3. \A s \in {q, c, t, a, d} : Apart(s, r) /\ Apart(r, s) /\ n + 1 \notin SetOf(s)
  BY <1>1, <1>2 DEF Apart
<1>4. (1..n) \union {n + 1} = 1..(n + 1) /\ n + 1 \notin 1..n
  OBVIOUS
<1>5. g \subseteq 1..n
  BY DEF OnePlace
<1>6. OnePlace(q \o r, c, t, a, d, g, n + 1)
  <2>1. SetOf(q \o r) = SetOf(q) \union {n + 1} /\ Distinct(q \o r)
    BY <1>1, <1>3, SetOfJoin, DistinctJoin DEF OnePlace
  <2>2. Apart(q \o r, c) /\ Apart(q \o r, t) /\ Apart(q \o r, a) /\ Apart(q \o r, d)
    BY <1>3, <2>1 DEF Apart, OnePlace
  <2> QED BY <1>4, <1>5, <2>1, <2>2 DEF OnePlace
<1>7. c = <<>> => OnePlace(q, r, t, a, d, g, n + 1)
  BY <1>1, <1>3, <1>4, <1>5, SetOfEmpty DEF OnePlace
<1>8. OnePlace(q, c, t, a, d, g \union {n + 1}, n + 1)
  BY <1>3, <1>4 DEF OnePlace
<1> QED BY <1>6, <1>7, <1>8 DEF r

\* The oldest queued text goes back to the editor.
LEMMA PopKeepsOnePlace ==
  ASSUME NEW h \in Seq(Messages), NEW r \in Seq(Messages), NEW c, NEW t, NEW a, NEW d, NEW g, NEW n \in Nat,
         OnePlace(h \o r, c, t, a, d, g, n)
  PROVE  OnePlace(r, c, t, a, d, g \union SetOf(h), n)
<1>1. SetOf(h \o r) = SetOf(h) \union SetOf(r) /\ Distinct(r) /\ Apart(h, r)
  BY SetOfJoin, DistinctJoin DEF OnePlace
<1>2. \A s : Apart(h \o r, s) => Apart(h, s) /\ Apart(r, s)
  BY <1>1 DEF Apart
<1>3. Apart(h, c) /\ Apart(h, t) /\ Apart(h, a) /\ Apart(h, d) /\ Apart(r, c) /\ Apart(r, t) /\ Apart(r, a) /\ Apart(r, d)
  BY <1>2 DEF OnePlace
<1>4. (SetOf(r) \union SetOf(c) \union SetOf(t) \union SetOf(a) \union SetOf(d)) \intersect SetOf(h) = {}
  BY <1>1, <1>3 DEF Apart
<1> QED BY <1>1, <1>3, <1>4 DEF OnePlace

Kept ==
  /\ Texts /\ Held
  /\ queue \in Seq(Seq(Messages)) /\ typed \in 0..MaxMessages
  /\ OnePlace(Flat(queue), cmd, turn, drain.text, delivered, gone, typed)

LEMMA WorkerKeepsMessages ==
  ASSUME Kept, Worker, UNCHANGED <<ui, uiVars>>
  PROVE  Kept'
<1> DEFINE q == Flat(queue)
<1>1. Texts' /\ Held' /\ (Keeps \/ Takes \/ Joins \/ Drains \/ Loses)
  BY LoopCarries, TurnCarries DEF Worker, Kept
<1>2. UNCHANGED <<queue, typed>> /\ q' = q
  BY DEF uiVars
<1>3. /\ delivered \in Seq(Messages) /\ drain.text \in Seq(Messages) /\ turn \in Seq(Messages)
      /\ cmd \in Seq(Messages) /\ q \in Seq(Messages) /\ typed \in Nat
  BY FlatWithin DEF Kept, Texts
<1>4. OnePlace(q, cmd, turn, drain.text, delivered, gone, typed)
  BY DEF Kept
<1> HIDE DEF q
<1>5. OnePlace(q, cmd, turn, drain.text, delivered, gone, typed)'
  <2>1. CASE Keeps
    BY <1>2, <1>4, <2>1 DEF Keeps
  <2>2. CASE Takes
    BY <1>2, <1>3, <1>4, <2>2, MovesKeepOnePlace DEF Takes
  <2>3. CASE Joins
    BY <1>2, <1>3, <1>4, <2>3, MovesKeepOnePlace DEF Joins
  <2>4. CASE Drains
    <3>1. drain.text' = <<>> /\ delivered' = delivered \o drain.text /\ UNCHANGED <<cmd, turn, gone>>
      BY <2>4 DEF Drains
    <3>2. OnePlace(q, cmd, turn, <<>>, delivered \o drain.text, gone, typed)
      BY <1>3, <1>4, MovesKeepOnePlace
    <3> QED BY <1>2, <3>1, <3>2
  <2>5. CASE Loses
    BY <1>2, <1>3, <1>4, <2>5, MovesKeepOnePlace DEF Loses
  <2> QED BY <1>1, <2>1, <2>2, <2>3, <2>4, <2>5
<1> QED BY <1>1, <1>2, <1>5 DEF Kept, q

\* The steps of the terminal that move no message.
Idles ==
  \/ NoKey \/ CtrlC \/ SendInterrupt \/ Consume \/ ForgetError
  \/ TakeQuestion \/ AnswerQuestion \/ NothingAsked
  \/ NoSend \/ NoEdit \/ Escape \/ NoLine \/ EnterLine \/ EndOfInput
  \/ RequestSave \/ RequestCompact
  \/ SaveNow \/ NewSession \/ SwitchSession \/ Quit \/ Refused
  \/ NothingToSave \/ DeclineSave \/ AcceptSave \/ Saved \/ SaveFails
  \/ ResetFromCache \/ ResetTranscript \/ ResetDone \/ ResetFails \/ CheckSwitch \/ Switched \/ SwitchFails
  \/ StopWorker \/ JoinWorker

LEMMA IdlesMoveNothing ==
  ASSUME Idles
  PROVE  UNCHANGED <<pc, ret, turn, drain, cmd, delivered, gone, queue, typed>>
<1> USE DEF workerVars, uiVars, thread, flags, handoffs, Walk, Act, Command, Request
<1>1. CASE NoKey \/ CtrlC \/ SendInterrupt \/ Consume \/ ForgetError
  BY <1>1 DEF NoKey, CtrlC, SendInterrupt, Consume, ForgetError
<1>2. CASE TakeQuestion \/ AnswerQuestion \/ NothingAsked
  BY <1>2 DEF TakeQuestion, AnswerQuestion, NothingAsked
<1>3. CASE NoSend \/ NoEdit \/ Escape \/ NoLine \/ EnterLine \/ EndOfInput
  BY <1>3 DEF NoSend, NoEdit, Escape, NoLine, EnterLine, EndOfInput
<1>4. CASE RequestSave \/ RequestCompact \/ SaveNow \/ NewSession \/ SwitchSession \/ Quit \/ Refused
  BY <1>4 DEF RequestSave, RequestCompact, SaveNow, NewSession, SwitchSession, Quit, Refused
<1>5. CASE NothingToSave \/ DeclineSave \/ AcceptSave \/ Saved \/ SaveFails
  BY <1>5 DEF NothingToSave, DeclineSave, AcceptSave, Saved, SaveFails
<1>6. CASE ResetFromCache \/ ResetTranscript \/ ResetDone \/ ResetFails
  BY <1>6 DEF ResetFromCache, ResetTranscript, ResetDone, ResetFails
<1>7. CASE CheckSwitch \/ Switched \/ SwitchFails \/ StopWorker \/ JoinWorker
  BY <1>7 DEF CheckSwitch, Switched, SwitchFails, StopWorker, JoinWorker
<1> QED BY <1>1, <1>2, <1>3, <1>4, <1>5, <1>6, <1>7 DEF Idles

LEMMA UIKeepsMessages ==
  ASSUME Kept, UI
  PROVE  Kept'
<1> DEFINE q == Flat(queue)
           There == OnePlace(q, cmd, turn, drain.text, delivered, gone, typed)
<1>1. /\ delivered \in Seq(Messages) /\ drain.text \in Seq(Messages) /\ turn \in Seq(Messages)
      /\ cmd \in Seq(Messages) /\ q \in Seq(Messages) /\ typed \in Nat
  BY FlatWithin DEF Kept, Texts
<1>2. There /\ queue \in Seq(Seq(Messages)) /\ typed \in 0..MaxMessages
  BY DEF Kept
<1>3. /\ Flat(<<>>) = <<>> /\ <<>> \in Seq(Seq(Messages))
      /\ Flat(<<q>>) = q /\ <<q>> \in Seq(Seq(Messages))
  BY <1>1, <1>2, FlatEmpty, FlatOne
<1> HIDE DEF q
<1>4. ASSUME UNCHANGED <<pc, ret, turn, drain, delivered>>, cmd' \in Seq(Messages)
      PROVE  Texts' /\ Held'
  BY <1>1, <1>4 DEF Kept, Texts, Held
<1>5. CASE Idles
  <2>1. UNCHANGED <<pc, ret, turn, drain, cmd, delivered, gone, queue, typed>>
    BY <1>5, IdlesMoveNothing
  <2>2. Texts' /\ Held' /\ q' = q
    BY <1>1, <1>4, <2>1 DEF q
  <2> QED BY <1>2, <2>1, <2>2 DEF Kept, q
<1>6. CASE SendQueue
  <2>1. UNCHANGED <<pc, ret, turn, drain, delivered, gone, typed>>
    BY <1>6 DEF SendQueue, thread, handoffs, session
  <2>2. CASE CanSubmit
    <3>1. cmd = <<>> /\ cmd' = q /\ queue' = <<>>
      BY <1>6, <2>2 DEF SendQueue, SubmitQueued, CanSubmit, Submit, All, q
    <3>2. Texts' /\ Held' /\ queue' \in Seq(Seq(Messages)) /\ q' = <<>>
      BY <1>1, <1>3, <1>4, <2>1, <3>1 DEF q
    <3>3. There'
      BY <1>1, <1>2, <2>1, <3>1, <3>2, MovesKeepOnePlace
    <3> QED BY <1>2, <2>1, <3>2, <3>3 DEF Kept, q
  <2>3. CASE ~CanSubmit
    <3>1. cmd' = cmd /\ queue' = <<q>>
      BY <1>6, <2>3 DEF SendQueue, SubmitQueued, All, q
    <3>2. Texts' /\ Held' /\ queue' \in Seq(Seq(Messages)) /\ q' = q
      BY <1>1, <1>3, <1>4, <2>1, <3>1 DEF q
    <3>3. There'
      BY <1>2, <2>1, <3>1, <3>2
    <3> QED BY <1>2, <2>1, <3>2, <3>3 DEF Kept, q
  <2> QED BY <2>2, <2>3
<1>7. CASE SendMessage \/ QueueMessage
  <2>1. typed < MaxMessages /\ typed' = typed + 1 /\ UNCHANGED <<pc, ret, turn, drain, delivered>>
    BY <1>7 DEF SendMessage, QueueMessage, workerVars, thread, handoffs, session
  <2>2. typed + 1 \in Messages /\ <<typed + 1>> \in Seq(Messages) /\ typed' \in 0..MaxMessages
    BY <1>1, <1>2, <2>1, BoundsAreNat DEF Messages
  <2>3. CASE SendMessage /\ CanSubmit
    <3>1. cmd = <<>> /\ cmd' = <<typed + 1>> /\ UNCHANGED <<gone, queue>>
      BY <2>3 DEF SendMessage, CanSubmit, Submit
    <3>2. Texts' /\ Held' /\ q' = q
      BY <1>4, <2>1, <2>2, <3>1 DEF q
    <3>3. There'
      BY <1>1, <1>2, <2>1, <2>2, <3>1, <3>2, TypedInOnePlace
    <3> QED BY <1>2, <2>2, <3>1, <3>2, <3>3 DEF Kept, q
  <2>4. CASE SendMessage /\ ~CanSubmit
    <3>1. gone' = gone \union {typed + 1} /\ UNCHANGED <<cmd, queue>>
      BY <2>4 DEF SendMessage
    <3>2. Texts' /\ Held' /\ q' = q
      BY <1>1, <1>4, <2>1, <3>1 DEF q
    <3>3. There'
      BY <1>1, <1>2, <2>1, <2>2, <3>1, <3>2, TypedInOnePlace
    <3> QED BY <1>2, <2>2, <3>1, <3>2, <3>3 DEF Kept, q
  <2>5. CASE QueueMessage
    <3>1. queue' = Append(queue, <<typed + 1>>) /\ UNCHANGED <<cmd, gone>>
      BY <2>5 DEF QueueMessage, workerVars
    <3>2. Texts' /\ Held' /\ queue' \in Seq(Seq(Messages))
      BY <1>1, <1>2, <1>4, <2>1, <2>2, <3>1
    <3>3. q' = q \o <<typed + 1>>
      BY <1>2, <2>2, <3>1, FlatAppend DEF q
    <3>4. There'
      BY <1>1, <1>2, <2>1, <2>2, <3>1, <3>3, TypedInOnePlace
    <3> QED BY <2>2, <3>2, <3>4 DEF Kept, q
  <2> QED BY <1>7, <2>3, <2>4, <2>5
<1>8. CASE AnswerDrain
  <2>1. /\ UNCHANGED <<pc, ret, turn, cmd, delivered, gone, typed>> /\ drain.pending /\ queue' = <<>>
        /\ drain' = [pending |-> FALSE, answered |-> TRUE, text |-> q]
    BY <1>8 DEF AnswerDrain, All, thread, session, q
  <2>2. pc = "draining" /\ drain.text = <<>>
    BY <2>1 DEF Kept, Held, Texts
  <2>3. Texts'
    BY <1>1, <2>1 DEF Kept, Texts
  <2>4. drain'.pending = FALSE /\ drain'.answered = TRUE /\ drain'.text = q
    BY <2>1
  <2>5. Held'
    BY <2>1, <2>2, <2>4 DEF Kept, Held
  <2>6. q' = <<>>
    BY <1>3, <2>1 DEF q
  <2>7. There'
    BY <1>1, <1>2, <2>1, <2>2, <2>4, <2>6, MovesKeepOnePlace
  <2> QED BY <1>2, <1>3, <2>1, <2>3, <2>5, <2>7 DEF Kept, q
<1>9. CASE CtrlX
  <2> DEFINE h == Head(queue) r == Flat(Tail(queue))
  <2>1. /\ queue # <<>> /\ gone' = gone \union ToSet(h) /\ queue' = Tail(queue)
        /\ UNCHANGED <<pc, ret, turn, drain, cmd, delivered, typed>>
    BY <1>9 DEF CtrlX, thread, handoffs, session
  <2>2. h \in Seq(Messages) /\ Tail(queue) \in Seq(Seq(Messages))
    BY <1>2, <2>1
  <2>3. r \in Seq(Messages) /\ q = h \o r /\ ToSet(h) = SetOf(h)
    BY <1>2, <2>1, <2>2, FlatWithin, FlatSplit, SetOfText DEF q
  <2>4. q' = r
    BY <2>1 DEF q
  <2>5. Texts' /\ Held'
    BY <1>1, <1>4, <2>1
  <2> HIDE DEF h, r
  <2>6. There'
    BY <1>1, <1>2, <2>1, <2>2, <2>3, <2>4, PopKeepsOnePlace
  <2> QED BY <1>2, <2>1, <2>2, <2>5, <2>6 DEF Kept, q
<1> QED BY <1>5, <1>6, <1>7, <1>8, <1>9 DEF UI, LoopStep, CommandStep, Idles

LEMMA InitKept ==
  ASSUME Init
  PROVE  Kept
<1>1. /\ turn = <<>> /\ cmd = <<>> /\ delivered = <<>> /\ queue = <<>> /\ typed = 0 /\ gone = {}
      /\ drain = [pending |-> FALSE, answered |-> FALSE, text |-> <<>>] /\ pc = "init"
  BY DEF Init, WorkerInit, NoDrain
<1>2. Texts /\ Held /\ queue \in Seq(Seq(Messages)) /\ typed \in 0..MaxMessages
  BY <1>1, BoundsAreNat DEF Texts, Held
<1>3. OnePlace(Flat(queue), cmd, turn, drain.text, delivered, gone, typed)
  BY <1>1, FlatEmpty, SetOfEmpty DEF OnePlace, Apart
<1> QED BY <1>2, <1>3 DEF Kept

LEMMA NextKeepsMessages ==
  ASSUME Kept, [Next]_vars
  PROVE  Kept'
<1>1. CASE UI
  BY <1>1, UIKeepsMessages
<1>2. CASE WorkerStep
  BY <1>2, WorkerKeepsMessages DEF WorkerStep
<1>3. CASE Spurious \/ Exited \/ UNCHANGED vars
  <2>1. UNCHANGED <<pc, ret, turn, drain, cmd, delivered, gone, queue, typed>>
    BY <1>3 DEF Spurious, SpuriousWake, Exited, vars, uiVars, workerVars, thread, handoffs, session
  <2> QED BY <2>1 DEF Kept, Texts, Held
<1> QED BY <1>1, <1>2, <1>3 DEF Next

\* For any number of messages and keys: a message typed is in exactly one place, the
\* queue, the pending command, the starting turn, the drain's answer, a transcript, or
\* given back or dropped (worker_submit, agent_prompt_queue_take_all and
\* agent_prompt_queue_pop_first, worker_answer_queued_user_drain).
THEOREM MessagesInOnePlace == Spec => []MessagesKept
<1>1. Init => Kept
  BY InitKept
<1>2. Kept /\ [Next]_vars => Kept'
  BY NextKeepsMessages
<1>3. Kept => MessagesKept
  BY KeptByPlace DEF Kept
<1> QED
  BY <1>1, <1>2, <1>3, PTL DEF Spec

(***************************************************************************)
(* The terminal: what is not marked dirty is on disk.                      *)
(***************************************************************************)
Rewriting == pc \in {"compact", "summarize", "rebuild"}

\* Once its user text is in the transcript, a turn works on a session that is to be saved.
InDirtyTurn ==
  \/ pc \in {"round", "prefill", "generate", "tool", "asking", "result", "drain", "draining"}
  \/ Rewriting /\ ret \in {"round", "result"}

TextsName ==
  /\ pc = "append" \/ (Rewriting /\ ret = "append") => turn # <<>>
  /\ DOMAIN files \subseteq Messages
  /\ name \in Messages \union {0} /\ (activity => name # 0)
  /\ pc \in {"interrupted", "answered"} => ret \in {"after", "saveq", "wait"}

\* A transcript that differs from its file is a session to be saved, but for the time
\* between a compaction before the user text and that text.
CleanIsSaved ==
  ~raced /\ conv = name /\ activity /\ ~dirty =>
    /\ name \in DOMAIN files /\ files[name] = conv
    /\ changed => pc = "append"

OnDisk ==
  /\ TextsName
  /\ CleanIsSaved
  /\ InDirtyTurn => raced \/ (activity /\ dirty)
  /\ ThreadsCollide => raced

LEMMA LoopKeepsClean ==
  ASSUME Kinds, Texts, OnDisk, Loop, UNCHANGED <<ui, uret>>, raced => raced', ThreadsCollide' => raced'
  PROVE  OnDisk'
<1> USE DEF Kinds, Texts, OnDisk, TextsName, CleanIsSaved, InDirtyTurn, Rewriting, Goto, session
<1> HIDE DEF ThreadsCollide
<1>1. CASE LoadSystemPrompt
  BY <1>1 DEF LoadSystemPrompt, ResetIdentity
<1>2. CASE LoadSystemPromptFails
  BY <1>2 DEF LoadSystemPromptFails
<1>3. CASE Initialized
  BY <1>3 DEF Initialized
<1>4. CASE Sleep
  BY <1>4 DEF Sleep, thread
<1>5. CASE Stopped
  BY <1>5 DEF Stopped
<1>6. CASE TakeCommand
  BY <1>6 DEF TakeCommand
<1>7. CASE DeferredCompact
  BY <1>7 DEF DeferredCompact, Then
<1>8. CASE NoDeferredCompact
  BY <1>8 DEF NoDeferredCompact
<1>9. CASE DeferredSave
  BY <1>9 DEF DeferredSave
<1>10. CASE NoDeferredSave
  BY <1>10 DEF NoDeferredSave
<1>11. CASE FinishSave
  <2>1. pc' = "wait" /\ UNCHANGED <<ret, turn>>
    BY <1>11 DEF FinishSave
  <2>2. CASE UNCHANGED session
    BY <1>11, <2>1, <2>2 DEF FinishSave
  <2>3. CASE SaveSession
    BY <2>1, <2>3 DEF SaveSession
  <2> QED BY <1>11, <2>2, <2>3 DEF FinishSave
<1>12. CASE NothingToCompact
  BY <1>12 DEF NothingToCompact, Return
<1>13. CASE BeginCompact
  BY <1>13 DEF BeginCompact
<1>14. CASE Summarized
  BY <1>14 DEF Summarized
<1>15. CASE Rebuilt
  BY <1>15 DEF Rebuilt, Return, Compacted, InTurn
<1>16. CASE CompactFails
  BY <1>16 DEF CompactFails, LoseTurn, AfterFailure, InTurn
<1>17. CASE CompactInterrupted
  BY <1>17 DEF CompactInterrupted, LoseTurn, AfterFailure, InTurn
<1> QED BY <1>1, <1>2, <1>3, <1>4, <1>5, <1>6, <1>7, <1>8, <1>9, <1>10, <1>11, <1>12, <1>13, <1>14, <1>15, <1>16, <1>17 DEF Loop

LEMMA TurnKeepsClean ==
  ASSUME Kinds, Texts, OnDisk, Turn, UNCHANGED <<ui, uret>>, raced => raced', ThreadsCollide' => raced'
  PROVE  OnDisk'
<1> USE DEF Kinds, Texts, OnDisk, TextsName, CleanIsSaved, InDirtyTurn, Rewriting, Goto, session
<1> HIDE DEF ThreadsCollide
<1>0. ASSUME NEW text \in Seq(Messages), text # <<>>, Join(text)
      PROVE  activity' /\ dirty' /\ name' \in Messages /\ name' # 0 /\ files' = files
  <2>1. Head(text) \in Messages
    BY <1>0
  <2> QED BY <1>0, <2>1 DEF Join, Messages
<1>1. CASE AppendUser
  BY <1>0, <1>1 DEF AppendUser
<1>2. CASE BeginPrefill
  BY <1>2 DEF BeginPrefill
<1>3. CASE Prefilled
  BY <1>3 DEF Prefilled
<1>4. CASE TurnFails
  BY <1>4 DEF TurnFails
<1>5. CASE TurnInterrupted
  BY <1>5 DEF TurnInterrupted
<1>6. CASE ClearInterrupt
  BY <1>6 DEF ClearInterrupt
<1>7. CASE FinalAnswer
  BY <1>7 DEF FinalAnswer
<1>8. CASE PublishIdle
  BY <1>8 DEF PublishIdle, Return
<1>9. CASE ToolCall
  BY <1>9 DEF ToolCall
<1>10. CASE Ask
  BY <1>10 DEF Ask
<1>11. CASE AskInVain
  BY <1>11 DEF AskInVain
<1>12. CASE AwaitAnswer
  BY <1>12 DEF AwaitAnswer, thread
<1>13. CASE Answered
  BY <1>13 DEF Answered
<1>14. CASE AskInterrupted
  BY <1>14 DEF AskInterrupted
<1>15. CASE ToolDone
  BY <1>15 DEF ToolDone
<1>16. CASE AppendResult
  BY <1>16 DEF AppendResult
<1>17. CASE ContextFull
  BY <1>17 DEF ContextFull
<1>18. CASE RequestDrain
  BY <1>18 DEF RequestDrain
<1>19. CASE AwaitDrain
  BY <1>19 DEF AwaitDrain, thread
<1>20. CASE Drained
  <2>1. pc = "draining" /\ turn' = turn /\ (pc' = "round" \/ (pc' = "compact" /\ ret' = "round"))
    BY <1>20 DEF Drained
  <2>2. CASE drain.text = <<>>
    <3>1. UNCHANGED session
      BY <1>20, <2>2 DEF Drained
    <3> QED BY <2>1, <3>1
  <2>3. CASE drain.text # <<>>
    <3>1. Join(drain.text)
      BY <1>20, <2>3 DEF Drained
    <3>2. activity' /\ dirty' /\ name' \in Messages /\ name' # 0 /\ files' = files
      BY <1>0, <2>3, <3>1
    <3> QED BY <2>1, <3>2
  <2> QED BY <2>2, <2>3
<1> QED BY <1>1, <1>2, <1>3, <1>4, <1>5, <1>6, <1>7, <1>8, <1>9, <1>10, <1>11, <1>12, <1>13, <1>14, <1>15, <1>16, <1>17, <1>18, <1>19, <1>20 DEF Turn

\* The front end's own saves, resets and switches find the worker out of the session, or
\* are remembered as a race.
LEMMA UIKeepsClean ==
  ASSUME Kinds, OnDisk, UI, raced => raced', ThreadsCollide' => raced'
  PROVE  OnDisk'
<1> USE DEF OnDisk, TextsName, CleanIsSaved, InDirtyTurn, Rewriting
<1> HIDE DEF ThreadsCollide
<1>1. UNCHANGED <<pc, ret, turn>>
  BY DEF UI, LoopStep, CommandStep, NoKey, CtrlC, SendInterrupt, Consume, ForgetError, AnswerDrain, TakeQuestion,
         AnswerQuestion, NothingAsked, SendQueue, NoSend, NoEdit, CtrlX, Escape, NoLine, EnterLine, EndOfInput,
         QueueMessage, SendMessage, RequestSave, RequestCompact, SaveNow, NewSession, SwitchSession, Quit, Refused,
         NothingToSave, DeclineSave, AcceptSave, Saved, SaveFails, ResetFromCache, ResetTranscript, ResetDone,
         ResetFails, CheckSwitch, Switched, SwitchFails, StopWorker, JoinWorker,
         Walk, Act, Command, Request, workerVars, thread
<1>2. InDirtyTurn => WorkerUsesSession
  BY DEF WorkerUsesSession
<1>3. CASE UNCHANGED session
  BY <1>1, <1>3 DEF session
<1>4. CASE ui = "save" /\ SaveSession
  <2>1. InDirtyTurn => raced
    BY <1>2, <1>4 DEF SaveSession, ThreadsCollide, UIUsesSession
  <2> QED BY <1>1, <1>4, <2>1 DEF SaveSession
<1>5. CASE ui \in {"new", "newsync", "switching"}
  <2>1. InDirtyTurn => raced
    BY <1>2, <1>5 DEF ThreadsCollide, UIUsesSession
  <2>2. CASE ResetFromCache
    BY <1>1, <2>1, <2>2 DEF ResetFromCache, ResetIdentity
  <2>3. CASE ResetTranscript
    BY <1>1, <2>1, <2>3 DEF ResetTranscript, Messages
  <2>4. CASE ResetDone
    BY <1>1, <2>1, <2>4 DEF ResetDone, ResetIdentity
  <2>5. CASE Switched
    BY <1>1, <2>1, <2>5 DEF Switched
  <2>6. CASE ~(ResetFromCache \/ ResetTranscript \/ ResetDone \/ Switched)
    <3>1. ResetFails \/ SwitchFails
      BY <1>5, <2>6 DEF UI, LoopStep, CommandStep, NoKey, CtrlC, SendInterrupt, Consume, ForgetError, AnswerDrain,
         TakeQuestion, AnswerQuestion, NothingAsked, SendQueue, NoSend, NoEdit, CtrlX, Escape, NoLine, EnterLine,
         EndOfInput, QueueMessage, SendMessage, RequestSave, RequestCompact, SaveNow, NewSession, SwitchSession, Quit,
         Refused, NothingToSave, DeclineSave, AcceptSave, Saved, SaveFails, CheckSwitch, StopWorker, JoinWorker, Command
    <3> QED BY <1>3, <3>1 DEF ResetFails, SwitchFails, Walk, workerVars
  <2> QED BY <2>2, <2>3, <2>4, <2>5, <2>6
<1>6. UNCHANGED session \/ (ui = "save" /\ SaveSession) \/ ui \in {"new", "newsync", "switching"}
  BY DEF UI, LoopStep, CommandStep, NoKey, CtrlC, SendInterrupt, Consume, ForgetError, AnswerDrain, TakeQuestion,
         AnswerQuestion, NothingAsked, SendQueue, NoSend, NoEdit, CtrlX, Escape, NoLine, EnterLine, EndOfInput,
         QueueMessage, SendMessage, RequestSave, RequestCompact, SaveNow, NewSession, SwitchSession, Quit, Refused,
         NothingToSave, DeclineSave, AcceptSave, Saved, SaveFails, ResetFromCache, ResetTranscript, ResetDone,
         ResetFails, CheckSwitch, Switched, SwitchFails, StopWorker, JoinWorker,
         Walk, Act, Command, Request, workerVars
<1> QED BY <1>3, <1>4, <1>5, <1>6

\* For any number of messages and commands: a session that is not marked dirty is on
\* disk as it is, so leaving it without the offer to save loses nothing
\* (agent_worker_save_session_now, agent_worker_compact, session_dirty).
THEOREM CleanSessionIsSaved == Spec => []CleanMeansSaved
<1>1. Init => AnswerInv /\ Kept /\ OnDisk
  <2> SUFFICES ASSUME Init PROVE AnswerInv /\ Kept /\ OnDisk
    OBVIOUS
  <2>1. AnswerInv
    BY DEF Init, WorkerInit, NoDrain, NoApproval, AnswerInv, Kinds, Goals, QuestionOpen, PromptKnown,
           AnswersItsQuestion
  <2>2. Kept
    BY InitKept
  <2>3. OnDisk
    BY DEF Init, WorkerInit, OnDisk, TextsName, CleanIsSaved, InDirtyTurn, Rewriting, ThreadsCollide, UIUsesSession
  <2> QED BY <2>1, <2>2, <2>3
<1>2. AnswerInv /\ Kept /\ OnDisk /\ [Next]_vars => AnswerInv' /\ Kept' /\ OnDisk'
  <2> SUFFICES ASSUME AnswerInv, Kept, OnDisk, [Next]_vars PROVE AnswerInv' /\ Kept' /\ OnDisk'
    OBVIOUS
  <2>1. AnswerInv' /\ Kept'
    BY StepKeeps, NextKeepsMessages
  <2>2. OnDisk'
    <3>1. Kinds /\ Texts
      BY DEF AnswerInv, Kept
    <3>2. ASSUME Observe PROVE (raced => raced') /\ (ThreadsCollide' => raced')
      BY <3>2 DEF Observe
    <3>3. CASE UI /\ Observe
      BY <3>1, <3>2, <3>3, UIKeepsClean
    <3>4. CASE WorkerStep /\ Observe
      BY <3>1, <3>2, <3>4, LoopKeepsClean, TurnKeepsClean DEF WorkerStep, Worker, uiVars
    <3>5. CASE Spurious /\ Observe
      <4>1. UNCHANGED <<pc, ret, turn, session, ui, uret>>
        BY <3>5 DEF Spurious, SpuriousWake, uiVars, thread
      <4>2. (raced => raced') /\ (ThreadsCollide' => raced')
        BY <3>2, <3>5
      <4> QED BY <4>1, <4>2 DEF session, OnDisk, TextsName, CleanIsSaved, InDirtyTurn, Rewriting
    <3>6. CASE UNCHANGED vars
      <4>1. UNCHANGED <<pc, ret, turn, session, ui, uret, raced>>
        BY <3>6 DEF vars, workerVars, uiVars, thread
      <4> QED BY <4>1 DEF session, OnDisk, TextsName, CleanIsSaved, InDirtyTurn, Rewriting, ThreadsCollide,
                 WorkerUsesSession, UIUsesSession
    <3> QED BY <3>3, <3>4, <3>5, <3>6 DEF Next, Exited
  <2> QED BY <2>1, <2>2
<1>3. OnDisk => CleanMeansSaved
  BY DEF OnDisk, CleanIsSaved, CleanMeansSaved, AtRest
<1> QED BY <1>1, <1>2, <1>3, PTL DEF Spec
=============================================================================
