--------------------------- MODULE SequenceLemmas ---------------------------
(***************************************************************************)
(* Facts about sequences, those that hold the history of a queue and those *)
(* that operators of the community module SequencesExt compute.  FlattenSeq *)
(* is a recursive function, and the facts about it go by induction, which  *)
(* is stated as: a non-empty set of naturals has a least element.          *)
(***************************************************************************)
EXTENDS Integers, Sequences, SequencesExt, SequenceTheorems, WellFoundedInduction, TLAPS

LEMMA LeastNumber ==
  ASSUME NEW T, T \subseteq Nat, T # {}
  PROVE  \E m \in T : \A k \in T : m <= k
<1> DEFINE Less == OpToRel(<, Nat)
<1>1. IsWellFoundedOn(Less, Nat)
  BY NatLessThanWellFounded
<1>2. \A x, y \in Nat : x < y => <<x, y>> \in Less
  BY DEF OpToRel
<1> HIDE DEF Less
<1>3. PICK m \in T : \A y \in T : ~ (<<y, m>> \in Less)
  BY <1>1, WFMin
<1>4. \A y \in T : ~(y < m)
  BY <1>2, <1>3, Zenon
<1>5. m \in Nat /\ \A y \in T : y \in Nat
  OBVIOUS
<1> QED BY <1>4, <1>5

(* The induction principle, for the set of numbers that have a property. *)
LEMMA Induction ==
  ASSUME NEW T, 0 \in T, \A n \in Nat : n \in T => n + 1 \in T
  PROVE  Nat \subseteq T
<1> SUFFICES ASSUME Nat \ T # {} PROVE FALSE
  OBVIOUS
<1>1. PICK m \in Nat \ T : \A k \in Nat \ T : m <= k
  BY LeastNumber
<1>2. m # 0 /\ m - 1 \in Nat
  BY <1>1
<1>3. m - 1 \in T
  BY <1>1, <1>2
<1>4. (m - 1) + 1 \in T
  BY <1>2, <1>3
<1> QED BY <1>1, <1>2, <1>4

(* A function may be defined by recursion on the numbers up to N. *)
IsRecursive(f, base, N, step) ==
  \A n \in 0..N : f[n] = IF n = 0 THEN base ELSE step[<<f[n - 1], n>>]

LEMMA RecursionExists ==
  ASSUME NEW A, NEW base \in A, NEW N \in Nat, NEW step \in [A \X (1..N) -> A]
  PROVE  \E f \in [0..N -> A] : IsRecursive(f, base, N, step)
<1> DEFINE Good(m) == \E f \in [0..m -> A] :
                         \A n \in 0..m : f[n] = IF n = 0 THEN base ELSE step[<<f[n - 1], n>>]
<1>1. Good(0)
  <2> DEFINE f == [n \in 0..0 |-> base]
  <2>1. f \in [0..0 -> A] /\ \A n \in 0..0 : n = 0 /\ f[n] = base
    OBVIOUS
  <2> HIDE DEF f
  <2> QED BY <2>1
<1>2. ASSUME NEW m \in Nat, m + 1 <= N, Good(m) PROVE Good(m + 1)
  <2>1. PICK f \in [0..m -> A] :
               \A n \in 0..m : f[n] = IF n = 0 THEN base ELSE step[<<f[n - 1], n>>]
    BY <1>2
  <2> DEFINE g == [n \in 0..(m + 1) |-> IF n = m + 1 THEN step[<<f[m], m + 1>>] ELSE f[n]]
  <2>2. m + 1 \in 1..N /\ m \in 0..m
    BY <1>2
  <2>3. step[<<f[m], m + 1>>] \in A
    BY <2>2
  <2>4. g \in [0..(m + 1) -> A]
    BY <2>3
  <2>5. ASSUME NEW n \in 0..(m + 1)
        PROVE  g[n] = IF n = 0 THEN base ELSE step[<<g[n - 1], n>>]
    <3>1. n # 0 => n - 1 \in 0..m /\ g[n - 1] = f[n - 1]
      OBVIOUS
    <3>2. CASE n = m + 1
      <4>1. n # 0 /\ n - 1 = m /\ g[n] = step[<<f[m], m + 1>>]
        BY <3>2
      <4> QED BY <3>1, <3>2, <4>1
    <3>3. CASE n # m + 1
      <4>1. n \in 0..m /\ g[n] = f[n]
        BY <3>3
      <4> QED BY <2>1, <3>1, <4>1
    <3> QED BY <3>2, <3>3
  <2> HIDE DEF g
  <2> QED BY <2>4, <2>5
<1> HIDE DEF Good
<1> DEFINE T == {m \in Nat : m <= N => Good(m)}
<1>3. 0 \in T
  BY <1>1
<1>4. ASSUME NEW m \in Nat, m \in T PROVE m + 1 \in T
  BY <1>2, <1>4
<1> HIDE DEF T
<1>5. N \in T
  BY <1>3, <1>4, Induction
<1> QED BY <1>5 DEF T, Good, IsRecursive

-----------------------------------------------------------------------------
(* The function FlattenSeq is defined by: f[i] is the first i sequences in  *)
(* a row.                                                                   *)
IsFlatten(f, seqs) ==
  f = [i \in 1..Len(seqs) |-> IF i = 1 THEN seqs[i] ELSE f[i-1] \o seqs[i]]

LEMMA FlattenFrom ==
  ASSUME NEW seqs, NEW f, Len(seqs) \in Nat, Len(seqs) # 0, IsFlatten(f, seqs),
         \A g : IsFlatten(g, seqs) => g = f
  PROVE  FlattenSeq(seqs) = f[Len(seqs)]
<1> DEFINE c == CHOOSE g : g = [i \in 1..Len(seqs) |-> IF i = 1 THEN seqs[i] ELSE g[i-1] \o seqs[i]]
<1>1. FlattenSeq(seqs) = c[Len(seqs)]
  BY DEF FlattenSeq
<1>2. c = [i \in 1..Len(seqs) |-> IF i = 1 THEN seqs[i] ELSE c[i-1] \o seqs[i]]
  BY Zenon DEF IsFlatten
<1>3. c = f
  <2> HIDE DEF c
  <2> QED BY <1>2 DEF IsFlatten
<1> HIDE DEF c
<1> QED BY <1>1, <1>3

LEMMA FlattenExists ==
  ASSUME NEW S, NEW seqs \in Seq(Seq(S))
  PROVE  \E f \in [1..Len(seqs) -> Seq(S)] : IsFlatten(f, seqs)
<1> DEFINE Step(g, i) == IF i = 1 THEN seqs[i] ELSE g[i-1] \o seqs[i]
           Good(n) == \E g \in [1..n -> Seq(S)] : \A i \in 1..n : g[i] = Step(g, i)
<1>0. Len(seqs) \in Nat /\ \A i \in 1..Len(seqs) : seqs[i] \in Seq(S)
  BY LenProperties, ElementOfSeq
<1> HIDE DEF Step
<1>1. Good(0)
  <2> DEFINE g0 == [i \in 1..0 |-> <<>>]
  <2>1. g0 \in [1..0 -> Seq(S)] /\ \A i \in 1..0 : g0[i] = Step(g0, i)
    OBVIOUS
  <2> HIDE DEF g0
  <2> QED BY <2>1
<1>2. ASSUME NEW n \in Nat, n + 1 <= Len(seqs), Good(n) PROVE Good(n + 1)
  <2>1. PICK g \in [1..n -> Seq(S)] : \A i \in 1..n : g[i] = Step(g, i)
    BY <1>2
  <2> DEFINE h == [i \in 1..(n + 1) |-> IF i = n + 1 THEN Step(g, n + 1) ELSE g[i]]
  <2>2. n + 1 \in 1..Len(seqs) /\ (n # 0 => n \in 1..n)
    BY <1>0, <1>2
  <2>3. seqs[n + 1] \in Seq(S) /\ (n # 0 => g[n] \in Seq(S))
    BY <1>0, <2>2
  <2>4. (n + 1) - 1 = n /\ (n + 1 = 1 <=> n = 0)
    OBVIOUS
  <2>5. Step(g, n + 1) \in Seq(S)
    BY <2>3, <2>4, ConcatProperties DEF Step
  <2>6. h \in [1..(n + 1) -> Seq(S)]
    BY <2>5
  <2>7. ASSUME NEW i \in 1..(n + 1) PROVE h[i] = Step(h, i)
    <3>1. i # 1 => i - 1 \in 1..n /\ h[i - 1] = g[i - 1]
      OBVIOUS
    <3>2. Step(h, i) = Step(g, i)
      BY <3>1 DEF Step
    <3> QED BY <2>1, <3>2
  <2> HIDE DEF h
  <2> QED BY <2>6, <2>7
<1>3. Good(Len(seqs))
  <2> HIDE DEF Good
  <2> DEFINE T == {n \in Nat : n <= Len(seqs) => Good(n)}
  <2>1. 0 \in T
    BY <1>1
  <2>2. ASSUME NEW n \in Nat, n \in T PROVE n + 1 \in T
    BY <1>0, <1>2, <2>2
  <2> HIDE DEF T
  <2>3. Len(seqs) \in T
    BY <1>0, <2>1, <2>2, Induction
  <2> QED BY <1>0, <2>3 DEF T
<1>4. PICK g \in [1..Len(seqs) -> Seq(S)] : \A i \in 1..Len(seqs) : g[i] = Step(g, i)
  BY <1>3
<1>5. g = [i \in 1..Len(seqs) |-> Step(g, i)]
  BY <1>4
<1> QED BY <1>5 DEF IsFlatten, Step

LEMMA FlattenUnique ==
  ASSUME NEW seqs, Len(seqs) \in Nat, NEW f, IsFlatten(f, seqs), NEW g, IsFlatten(g, seqs)
  PROVE  f = g
<1> DEFINE T == {n \in Nat : n \in 1..Len(seqs) => f[n] = g[n]}
<1>1. 0 \in T
  OBVIOUS
<1>2. ASSUME NEW n \in Nat, n \in T PROVE n + 1 \in T
  <2> SUFFICES ASSUME n + 1 \in 1..Len(seqs) PROVE f[n + 1] = g[n + 1]
    OBVIOUS
  <2>1. n # 0 => f[n] = g[n]
    BY <1>2
  <2>2. (n + 1) - 1 = n /\ (n + 1 = 1 <=> n = 0)
    OBVIOUS
  <2>3. /\ f[n + 1] = IF n + 1 = 1 THEN seqs[n + 1] ELSE f[(n + 1) - 1] \o seqs[n + 1]
        /\ g[n + 1] = IF n + 1 = 1 THEN seqs[n + 1] ELSE g[(n + 1) - 1] \o seqs[n + 1]
    BY DEF IsFlatten
  <2> QED BY <2>1, <2>2, <2>3
<1>3. Nat \subseteq T
  <2> HIDE DEF T
  <2> QED BY <1>1, <1>2, Induction
<1>4. \A i \in 1..Len(seqs) : f[i] = g[i]
  BY <1>3
<1>5. /\ f = [i \in 1..Len(seqs) |-> f[i]]
      /\ g = [i \in 1..Len(seqs) |-> g[i]]
  BY DEF IsFlatten
<1> QED BY <1>4, <1>5

(* FlattenSeq in terms of any function that satisfies its equation. *)
LEMMA FlattenValue ==
  ASSUME NEW S, NEW seqs \in Seq(Seq(S)), Len(seqs) # 0, NEW f, IsFlatten(f, seqs)
  PROVE  FlattenSeq(seqs) = f[Len(seqs)]
BY FlattenUnique, FlattenFrom, LenProperties

(* The partial results have their type. *)
LEMMA FlattenType ==
  ASSUME NEW S, NEW seqs \in Seq(Seq(S))
  PROVE  FlattenSeq(seqs) \in Seq(S)
<1>1. Len(seqs) \in Nat
  BY LenProperties
<1>2. CASE Len(seqs) = 0
  <2>1. FlattenSeq(seqs) = seqs /\ seqs = <<>>
    BY <1>2, EmptySeq DEF FlattenSeq
  <2> QED BY <2>1
<1>3. CASE Len(seqs) # 0
  <2>1. PICK f \in [1..Len(seqs) -> Seq(S)] : IsFlatten(f, seqs)
    BY FlattenExists
  <2>2. Len(seqs) \in 1..Len(seqs)
    BY <1>1, <1>3
  <2> QED BY <1>3, <2>1, <2>2, FlattenValue, SMTT(30)
<1> QED BY <1>2, <1>3

LEMMA FlattenEmpty == FlattenSeq(<<>>) = <<>>
BY EmptySeq DEF FlattenSeq

(* A sequence added at the end comes out at the end ... *)
LEMMA FlattenAppend ==
  ASSUME NEW S, NEW s \in Seq(Seq(S)), NEW x \in Seq(S)
  PROVE  FlattenSeq(Append(s, x)) = FlattenSeq(s) \o x
<1> DEFINE t == Append(s, x)
<1>1. /\ Len(s) \in Nat /\ t \in Seq(Seq(S)) /\ Len(t) = Len(s) + 1
      /\ \A i \in 1..Len(s) : t[i] = s[i]
      /\ t[Len(s) + 1] = x
  BY LenProperties, AppendProperties
<1> HIDE DEF t
<1>2. CASE Len(s) = 0
  <2>1. s = <<>> /\ FlattenSeq(s) = <<>>
    BY <1>2, EmptySeq, FlattenEmpty
  <2>2. PICK g : IsFlatten(g, t)
    BY <1>1, FlattenExists
  <2>3. Len(t) = 1 /\ t[1] = x
    BY <1>1, <1>2
  <2>4. FlattenSeq(t) = g[1]
    BY <1>1, <2>2, <2>3, FlattenValue
  <2>5. g[1] = t[1]
    BY <2>2, <2>3 DEF IsFlatten
  <2> QED BY <2>1, <2>3, <2>4, <2>5, ConcatEmptySeq DEF t
<1>3. CASE Len(s) # 0
  <2>1. PICK f : IsFlatten(f, s)
    BY FlattenExists
  <2>2. FlattenSeq(s) = f[Len(s)]
    BY <1>3, <2>1, FlattenValue
  <2> DEFINE g == [i \in 1..(Len(s) + 1) |-> IF i = Len(s) + 1 THEN f[Len(s)] \o x ELSE f[i]]
  <2>3. ASSUME NEW i \in 1..(Len(s) + 1)
        PROVE  g[i] = IF i = 1 THEN t[i] ELSE g[i-1] \o t[i]
    <3>1. CASE i = Len(s) + 1
      <4>1. g[Len(s)] = f[Len(s)] /\ Len(s) \in 1..Len(s) /\ i - 1 = Len(s) /\ i # 1
        BY <1>1, <1>3, <3>1
      <4>2. g[i] = f[Len(s)] \o x /\ t[i] = x
        BY <1>1, <3>1
      <4> HIDE DEF g
      <4> QED BY <4>1, <4>2
    <3>2. CASE i \in 1..Len(s)
      <4>1. f[i] = IF i = 1 THEN s[i] ELSE f[i-1] \o s[i]
        <5> HIDE DEF g
        <5> QED BY <2>1, <3>2 DEF IsFlatten
      <4>2. g[i] = f[i] /\ (i # 1 => g[i-1] = f[i-1])
        BY <1>1, <3>2
      <4> HIDE DEF g
      <4> QED BY <1>1, <3>2, <4>1, <4>2
    <3> QED BY <1>1, <3>1, <3>2
  <2>4. IsFlatten(g, t)
    <3>1. g = [i \in 1..(Len(s) + 1) |-> g[i]]
      OBVIOUS
    <3> HIDE DEF g
    <3> QED BY <1>1, <2>3, <3>1 DEF IsFlatten
  <2>5. g[Len(s) + 1] = f[Len(s)] \o x
    BY <1>1, SMTT(30)
  <2> HIDE DEF g
  <2>6. FlattenSeq(t) = g[Len(t)]
    BY <1>1, <2>4, FlattenValue
  <2> QED BY <1>1, <2>2, <2>5, <2>6 DEF t
<1> QED BY <1>2, <1>3

(* ... and the first one at the beginning. *)
LEMMA FlattenHead ==
  ASSUME NEW S, NEW s \in Seq(Seq(S)), s # <<>>
  PROVE  FlattenSeq(s) = Head(s) \o FlattenSeq(Tail(s))
<1>0. \A a, b, c \in Seq(S) : (a \o b) \o c = a \o (b \o c)
  BY ConcatAssociative, SMTT(30)
<1> DEFINE t == Tail(s)
<1>1. /\ Len(s) \in Nat \ {0} /\ t \in Seq(Seq(S)) /\ Len(t) = Len(s) - 1
      /\ Head(s) = s[1] /\ \A i \in 1..Len(s) : s[i] \in Seq(S)
      /\ \A i \in 1..(Len(s) - 1) : t[i] = s[i + 1]
  BY LenProperties, HeadTailProperties, EmptySeq, ElementOfSeq
<1> HIDE DEF t
<1>2. CASE Len(s) = 1
  <2>1. t = <<>> /\ FlattenSeq(t) = <<>>
    BY <1>1, <1>2, EmptySeq, FlattenEmpty
  <2>2. PICK g : IsFlatten(g, s)
    BY FlattenExists
  <2>3. FlattenSeq(s) = g[1]
    <3>1. Len(s) # 0
      BY <1>2
    <3>2. FlattenSeq(s) = g[Len(s)]
      BY <2>2, <3>1, FlattenValue, Zenon
    <3> QED BY <1>2, <3>2
  <2>5. g[1] = s[1]
    BY <1>2, <2>2 DEF IsFlatten
  <2>4. s[1] \in Seq(S)
    BY <1>1
  <2> QED BY <1>1, <2>1, <2>3, <2>4, <2>5, ConcatEmptySeq DEF t
<1>3. CASE Len(s) # 1
  <2>1. PICK f \in [1..Len(t) -> Seq(S)] : IsFlatten(f, t)
    BY <1>1, FlattenExists
  <2>2. FlattenSeq(t) = f[Len(t)]
    <3>1. Len(t) # 0
      BY <1>1, <1>3
    <3> QED BY <1>1, <2>1, <3>1, FlattenValue
  <2> DEFINE g == [i \in 1..Len(s) |-> IF i = 1 THEN s[1] ELSE s[1] \o f[i - 1]]
  <2>3. ASSUME NEW i \in 1..Len(s)
        PROVE  g[i] = IF i = 1 THEN s[i] ELSE g[i-1] \o s[i]
    <3>1. CASE i = 1
      BY <3>1
    <3>2. CASE i = 2
      <4>1. g[2] = s[1] \o f[1] /\ g[1] = s[1]
        BY <1>1, <3>2
      <4>2. f[1] = t[1] /\ t[1] = s[2]
        BY <1>1, <1>3, <2>1 DEF IsFlatten
      <4> HIDE DEF g
      <4>3. i - 1 = 1 /\ i # 1
        BY <3>2
      <4> QED BY <3>2, <4>1, <4>2, <4>3
    <3>3. CASE i # 1 /\ i # 2
      <4>1. PICK j \in 2..Len(t), k \in 1..Len(t) : j - 1 = k /\ j + 1 = i /\ k + 1 = j
        <5>1. i - 1 \in 2..Len(t) /\ i - 2 \in 1..Len(t)
          BY <1>1, <3>3
        <5>2. (i - 1) - 1 = i - 2 /\ (i - 1) + 1 = i /\ (i - 2) + 1 = i - 1
          OBVIOUS
        <5> HIDE DEF g
        <5> QED BY <5>1, <5>2
      <4>2. j \in 1..Len(s) /\ i - 1 = j /\ j - 1 = k /\ j # 1 /\ i # 1
        <5> HIDE DEF g
        <5> QED BY <1>1, <4>1, SMTT(30)
      <4>3. g[i] = s[1] \o f[j] /\ g[j] = s[1] \o f[k]
        BY <4>2
      <4> HIDE DEF g
      <4>4. f[j] = f[k] \o t[j] /\ t[j] = s[i]
        <5>1. j \in 1..Len(t) /\ j \in 1..(Len(s) - 1)
          BY <1>1, <4>1
        <5>2. f[j] = IF j = 1 THEN t[j] ELSE f[j-1] \o t[j]
          BY <2>1, <5>1 DEF IsFlatten
        <5>3. t[j] = s[j + 1]
          BY <1>1, <5>1
        <5> QED BY <4>1, <4>2, <5>2, <5>3
      <4>5. s[1] \in Seq(S) /\ f[k] \in Seq(S) /\ s[i] \in Seq(S)
        <5>1. s[1] \in Seq(S) /\ s[i] \in Seq(S)
          BY <1>1
        <5> QED BY <5>1, <2>1, <4>1
      <4>6. (s[1] \o f[k]) \o s[i] = s[1] \o (f[k] \o s[i])
        BY <1>0, <4>5
      <4> QED BY <4>2, <4>3, <4>4, <4>6
    <3> QED BY <3>1, <3>2, <3>3
  <2>4. IsFlatten(g, s)
    <3>1. g = [i \in 1..Len(s) |-> g[i]]
      OBVIOUS
    <3> HIDE DEF g
    <3> QED BY <2>3, <3>1 DEF IsFlatten
  <2>5. g[Len(s)] = s[1] \o f[Len(t)]
    <3>1. Len(s) \in 1..Len(s) /\ Len(s) - 1 = Len(t)
      BY <1>1
    <3> QED BY <1>3, <3>1
  <2> HIDE DEF g
  <2>6. FlattenSeq(s) = g[Len(s)]
    BY <1>1, <2>4, FlattenValue
  <2> QED BY <1>1, <2>2, <2>5, <2>6 DEF t
<1> QED BY <1>2, <1>3

-----------------------------------------------------------------------------
(* The first n elements of a sequence, and those behind them. *)
TakeN(s, n) == SubSeq(s, 1, n)
DropN(s, n) == SubSeq(s, n + 1, Len(s))

LEMMA TakeFacts ==
  ASSUME NEW S, NEW s \in Seq(S), NEW n \in 0..Len(s)
  PROVE  /\ TakeN(s, n) \in Seq(S) /\ Len(TakeN(s, n)) = n
         /\ \A i \in 1..n : TakeN(s, n)[i] = s[i]
<1>1. Len(s) \in Nat /\ n \in Nat /\ \A i \in 1..n : s[i] \in S
  BY LenProperties, ElementOfSeq
<1>2. 1 \in Int /\ n \in Int
  BY <1>1
<1>3. /\ TakeN(s, n) \in Seq(S)
      /\ Len(TakeN(s, n)) = IF 1 <= n THEN n - 1 + 1 ELSE 0
      /\ \A i \in 1..(n - 1 + 1) : TakeN(s, n)[i] = s[1 + i - 1]
  BY <1>1, <1>2, SubSeqProperties DEF TakeN
<1> QED BY <1>1, <1>3

LEMMA DropFacts ==
  ASSUME NEW S, NEW s \in Seq(S), NEW n \in 0..Len(s)
  PROVE  /\ DropN(s, n) \in Seq(S) /\ Len(DropN(s, n)) = Len(s) - n
         /\ \A i \in 1..(Len(s) - n) : DropN(s, n)[i] = s[n + i]
<1>1. Len(s) \in Nat /\ n \in Nat /\ \A i \in (n + 1)..Len(s) : s[i] \in S
  BY LenProperties, ElementOfSeq
<1>2. n + 1 \in Int /\ Len(s) \in Int
  BY <1>1
<1>3. /\ DropN(s, n) \in Seq(S)
      /\ Len(DropN(s, n)) = IF n + 1 <= Len(s) THEN Len(s) - (n + 1) + 1 ELSE 0
      /\ \A i \in 1..(Len(s) - (n + 1) + 1) : DropN(s, n)[i] = s[(n + 1) + i - 1]
  BY <1>1, <1>2, SubSeqProperties DEF DropN
<1>4. Len(s) - (n + 1) + 1 = Len(s) - n
  BY <1>1
<1>5. Len(DropN(s, n)) = Len(s) - n
  BY <1>1, <1>3
<1>6. ASSUME NEW i \in 1..(Len(s) - n) PROVE DropN(s, n)[i] = s[n + i]
  <2>1. (n + 1) + i - 1 = n + i
    BY <1>1
  <2> QED BY <1>3, <1>4, <2>1
<1> QED BY <1>3, <1>5, <1>6

LEMMA DropNone ==
  ASSUME NEW S, NEW s \in Seq(S)
  PROVE  DropN(s, 0) = s
BY SubSeqFull DEF DropN

LEMMA DropAll ==
  ASSUME NEW S, NEW s \in Seq(S)
  PROVE  DropN(s, Len(s)) = <<>>
<1>1. Len(s) \in 0..Len(s)
  BY LenProperties
<1>2. DropN(s, Len(s)) \in Seq(S) /\ Len(DropN(s, Len(s))) = 0
  BY <1>1, DropFacts, LenProperties
<1> QED BY <1>2, EmptySeq

LEMMA DropConcat ==
  ASSUME NEW S, NEW s \in Seq(S), NEW t \in Seq(S), NEW n \in 0..Len(s)
  PROVE  DropN(s \o t, n) = DropN(s, n) \o t
<1>1. /\ Len(s) \in Nat /\ Len(t) \in Nat /\ s \o t \in Seq(S)
      /\ Len(s \o t) = Len(s) + Len(t)
      /\ \A i \in 1..(Len(s) + Len(t)) :
           (s \o t)[i] = IF i <= Len(s) THEN s[i] ELSE t[i - Len(s)]
  BY LenProperties, ConcatProperties
<1>2. /\ DropN(s, n) \in Seq(S) /\ Len(DropN(s, n)) = Len(s) - n
      /\ \A i \in 1..(Len(s) - n) : DropN(s, n)[i] = s[n + i]
  BY DropFacts
<1> DEFINE st == s \o t
           d  == DropN(s, n)
<1> HIDE DEF st, d
<1>3. n \in 0..Len(st) /\ Len(st) - n = (Len(s) - n) + Len(t)
  BY <1>1 DEF st
<1>4. /\ DropN(st, n) \in Seq(S) /\ Len(DropN(st, n)) = (Len(s) - n) + Len(t)
      /\ \A i \in 1..((Len(s) - n) + Len(t)) : DropN(st, n)[i] = st[n + i]
  <2>1. st \in Seq(S)
    BY <1>1 DEF st
  <2> QED BY <1>3, <2>1, DropFacts
<1>5. /\ d \o t \in Seq(S) /\ Len(d \o t) = (Len(s) - n) + Len(t)
      /\ \A i \in 1..((Len(s) - n) + Len(t)) :
           (d \o t)[i] = IF i <= Len(s) - n THEN d[i] ELSE t[i - (Len(s) - n)]
  <2>1. d \in Seq(S) /\ Len(d) = Len(s) - n
    BY <1>2 DEF d
  <2>2. /\ d \o t \in Seq(S) /\ Len(d \o t) = Len(d) + Len(t)
        /\ \A i \in 1..(Len(d) + Len(t)) :
             (d \o t)[i] = IF i <= Len(d) THEN d[i] ELSE t[i - Len(d)]
    BY <2>1, ConcatProperties
  <2> QED BY <2>1, <2>2
<1>6. ASSUME NEW i \in 1..((Len(s) - n) + Len(t))
      PROVE  DropN(st, n)[i] = (d \o t)[i]
  <2>1. DropN(st, n)[i] = st[n + i] /\ n + i \in 1..(Len(s) + Len(t))
    BY <1>1, <1>4
  <2>2. st[n + i] = IF n + i <= Len(s) THEN s[n + i] ELSE t[(n + i) - Len(s)]
    BY <1>1, <2>1 DEF st
  <2>3. CASE i <= Len(s) - n
    <3>1. i \in 1..(Len(s) - n) /\ n + i <= Len(s)
      BY <1>1, <2>3
    <3> QED BY <1>2, <1>5, <2>1, <2>2, <2>3, <3>1 DEF d
  <2>4. CASE ~(i <= Len(s) - n)
    <3>1. ~(n + i <= Len(s)) /\ (n + i) - Len(s) = i - (Len(s) - n)
      BY <1>1, <2>4
    <3> QED BY <1>5, <2>1, <2>2, <2>4, <3>1
  <2> QED BY <2>3, <2>4
<1>7. DropN(st, n) = d \o t
  BY <1>4, <1>5, <1>6, SeqEqual
<1> QED BY <1>7 DEF st, d

LEMMA TakeConcat ==
  ASSUME NEW S, NEW s \in Seq(S), NEW t \in Seq(S), NEW n \in 0..Len(s)
  PROVE  TakeN(s \o t, n) = TakeN(s, n)
<1>1. /\ Len(s) \in Nat /\ Len(t) \in Nat /\ s \o t \in Seq(S)
      /\ Len(s \o t) = Len(s) + Len(t)
      /\ \A i \in 1..(Len(s) + Len(t)) :
           (s \o t)[i] = IF i <= Len(s) THEN s[i] ELSE t[i - Len(s)]
  BY LenProperties, ConcatProperties
<1>2. TakeN(s, n) \in Seq(S) /\ Len(TakeN(s, n)) = n /\ \A i \in 1..n : TakeN(s, n)[i] = s[i]
  BY TakeFacts
<1>3. n \in 0..Len(s \o t)
  BY <1>1
<1>4. /\ TakeN(s \o t, n) \in Seq(S) /\ Len(TakeN(s \o t, n)) = n
      /\ \A i \in 1..n : TakeN(s \o t, n)[i] = (s \o t)[i]
  BY <1>1, <1>3, TakeFacts
<1>5. \A i \in 1..n : TakeN(s \o t, n)[i] = TakeN(s, n)[i]
  BY <1>1, <1>2, <1>4
<1> QED BY <1>2, <1>4, <1>5, SeqEqual

LEMMA TakeAll ==
  ASSUME NEW S, NEW s \in Seq(S)
  PROVE  TakeN(s, Len(s)) = s
BY SubSeqFull DEF TakeN

LEMMA DropDrop ==
  ASSUME NEW S, NEW s \in Seq(S), NEW n \in 0..Len(s), NEW m \in 0..(Len(s) - n)
  PROVE  DropN(DropN(s, n), m) = DropN(s, n + m)
<1>1. /\ DropN(s, n) \in Seq(S) /\ Len(DropN(s, n)) = Len(s) - n
      /\ \A i \in 1..(Len(s) - n) : DropN(s, n)[i] = s[n + i]
  BY DropFacts
<1>2. Len(s) \in Nat /\ n + m \in 0..Len(s) /\ Len(s) - (n + m) = (Len(s) - n) - m
  BY LenProperties
<1>3. /\ DropN(s, n + m) \in Seq(S) /\ Len(DropN(s, n + m)) = (Len(s) - n) - m
      /\ \A i \in 1..((Len(s) - n) - m) : DropN(s, n + m)[i] = s[(n + m) + i]
  BY <1>2, DropFacts
<1> DEFINE d == DropN(s, n)
<1> HIDE DEF d
<1>4. /\ DropN(d, m) \in Seq(S) /\ Len(DropN(d, m)) = (Len(s) - n) - m
      /\ \A i \in 1..((Len(s) - n) - m) : DropN(d, m)[i] = d[m + i]
  <2>1. d \in Seq(S) /\ Len(d) = Len(s) - n
    BY <1>1 DEF d
  <2> QED BY <2>1, DropFacts
<1>5. ASSUME NEW i \in 1..((Len(s) - n) - m) PROVE DropN(d, m)[i] = DropN(s, n + m)[i]
  <2>1. m + i \in 1..(Len(s) - n) /\ n + (m + i) = (n + m) + i
    BY <1>2
  <2> QED BY <1>1, <1>3, <1>4, <2>1 DEF d
<1>6. DropN(d, m) = DropN(s, n + m)
  BY <1>3, <1>4, <1>5, SeqEqual
<1> QED BY <1>6 DEF d

(* A stretch of n elements in the middle. *)
LEMMA TakeDrop ==
  ASSUME NEW S, NEW s \in Seq(S), NEW n \in 0..Len(s), NEW m \in 0..(Len(s) - n)
  PROVE  TakeN(DropN(s, n), m) = SubSeq(s, n + 1, n + m)
<1>1. /\ DropN(s, n) \in Seq(S) /\ Len(DropN(s, n)) = Len(s) - n
      /\ \A i \in 1..(Len(s) - n) : DropN(s, n)[i] = s[n + i]
  BY DropFacts
<1> DEFINE d == DropN(s, n)
<1> HIDE DEF d
<1>2. /\ TakeN(d, m) \in Seq(S) /\ Len(TakeN(d, m)) = m
      /\ \A i \in 1..m : TakeN(d, m)[i] = d[i]
  <2>1. d \in Seq(S) /\ Len(d) = Len(s) - n
    BY <1>1 DEF d
  <2> QED BY <2>1, TakeFacts
<1>3. /\ SubSeq(s, n + 1, n + m) \in Seq(S) /\ Len(SubSeq(s, n + 1, n + m)) = m
      /\ \A i \in 1..m : SubSeq(s, n + 1, n + m)[i] = s[n + i]
  <2>1. Len(s) \in Nat /\ n \in Nat /\ m \in Nat /\ \A i \in (n + 1)..(n + m) : s[i] \in S
    BY LenProperties, ElementOfSeq
  <2>2. n + 1 \in Int /\ n + m \in Int
    BY <2>1
  <2>3. /\ SubSeq(s, n + 1, n + m) \in Seq(S)
        /\ Len(SubSeq(s, n + 1, n + m)) = IF n + 1 <= n + m THEN (n + m) - (n + 1) + 1 ELSE 0
        /\ \A i \in 1..((n + m) - (n + 1) + 1) : SubSeq(s, n + 1, n + m)[i] = s[(n + 1) + i - 1]
    BY <2>1, <2>2, SubSeqProperties
  <2>4. (n + m) - (n + 1) + 1 = m /\ \A i \in Int : (n + 1) + i - 1 = n + i
    BY <2>1
  <2> QED BY <2>1, <2>3, <2>4
<1>4. ASSUME NEW i \in 1..m PROVE TakeN(d, m)[i] = SubSeq(s, n + 1, n + m)[i]
  <2>1. i \in 1..(Len(s) - n)
    BY LenProperties
  <2> QED BY <1>1, <1>2, <1>3, <2>1 DEF d
<1>5. TakeN(d, m) = SubSeq(s, n + 1, n + m)
  BY <1>2, <1>3, <1>4, SeqEqual
<1> QED BY <1>5 DEF d

LEMMA SubSeqOne ==
  ASSUME NEW S, NEW s \in Seq(S), NEW i \in 1..Len(s)
  PROVE  SubSeq(s, i, i) = <<s[i]>>
<1>1. Len(s) \in Nat /\ i \in Nat \ {0} /\ s[i] \in S
  BY LenProperties, ElementOfSeq
<1>2. \A k \in i..i : s[k] \in S
  BY <1>1
<1>3. /\ SubSeq(s, i, i) \in Seq(S) /\ Len(SubSeq(s, i, i)) = 1
      /\ SubSeq(s, i, i)[1] = s[i]
  BY <1>1, <1>2, SubSeqProperties
<1> DEFINE t == SubSeq(s, i, i)
           u == <<s[i]>>
<1>4. u \in Seq(S) /\ Len(u) = 1 /\ u[1] = s[i]
  BY <1>1
<1> HIDE DEF t, u
<1>5. t \in Seq(S) /\ Len(t) = Len(u) /\ \A k \in 1..Len(t) : t[k] = u[k]
  BY <1>3, <1>4 DEF t
<1>6. t = u
  BY <1>4, <1>5, SeqEqual
<1> QED BY <1>6 DEF t, u

(* Parts of at most one element come out as no more elements than parts. *)
LEMMA FlattenShort ==
  ASSUME NEW S, NEW seqs \in Seq(Seq(S)), \A i \in 1..Len(seqs) : Len(seqs[i]) <= 1
  PROVE  Len(FlattenSeq(seqs)) <= Len(seqs)
<1>1. Len(seqs) \in Nat /\ \A i \in 1..Len(seqs) : seqs[i] \in Seq(S) /\ Len(seqs[i]) \in Nat
  BY LenProperties, ElementOfSeq
<1>2. CASE Len(seqs) = 0
  <2>1. FlattenSeq(seqs) = <<>> /\ seqs = <<>>
    BY <1>2, EmptySeq, FlattenEmpty
  <2> QED BY <1>2, <2>1
<1>3. CASE Len(seqs) # 0
  <2>1. PICK f \in [1..Len(seqs) -> Seq(S)] : IsFlatten(f, seqs)
    BY FlattenExists
  <2>2. \A i \in 1..Len(seqs) : f[i] = IF i = 1 THEN seqs[i] ELSE f[i-1] \o seqs[i]
    BY <2>1 DEF IsFlatten
  <2> DEFINE T == {n \in Nat : n \in 1..Len(seqs) => Len(f[n]) <= n}
  <2>3. 0 \in T
    BY <1>1
  <2>4. ASSUME NEW n \in Nat, n \in T PROVE n + 1 \in T
    <3> SUFFICES ASSUME n + 1 \in 1..Len(seqs) PROVE Len(f[n + 1]) <= n + 1
      OBVIOUS
    <3>1. CASE n = 0
      <4>1. n + 1 = 1 /\ 1 \in 1..Len(seqs) /\ f[1] = seqs[1]
        <5>1. n + 1 = 1 /\ 1 \in 1..Len(seqs)
          BY <3>1
        <5> QED BY <2>2, <5>1
      <4>2. Len(seqs[n + 1]) <= 1
        OBVIOUS
      <4> QED BY <3>1, <4>1, <4>2
    <3>2. CASE n # 0
      <4>1. n \in 1..Len(seqs) /\ n + 1 # 1 /\ (n + 1) - 1 = n
        BY <1>1, <3>2
      <4>2. Len(f[n]) <= n
        BY <2>4, <4>1
      <4>3. f[n + 1] = f[n] \o seqs[n + 1]
        BY <2>2, <4>1
      <4>4. f[n] \in Seq(S) /\ seqs[n + 1] \in Seq(S)
        BY <1>1, <4>1
      <4>5. Len(f[n + 1]) = Len(f[n]) + Len(seqs[n + 1])
        BY <4>3, <4>4, ConcatProperties
      <4>6. Len(f[n]) \in Nat /\ Len(seqs[n + 1]) \in Nat /\ Len(seqs[n + 1]) <= 1
        BY <1>1, <4>4, LenProperties
      <4> DEFINE a == Len(f[n])
                 b == Len(seqs[n + 1])
      <4>7. a \in Nat /\ b \in Nat /\ a <= n /\ b <= 1
        BY <4>2, <4>6
      <4> HIDE DEF a, b
      <4>8. a + b <= n + 1
        BY <4>7
      <4> QED BY <4>5, <4>8 DEF a, b
    <3> QED BY <3>1, <3>2
  <2> HIDE DEF T
  <2>5. Len(seqs) \in T
    BY <1>1, <2>3, <2>4, Induction
  <2>6. Len(f[Len(seqs)]) <= Len(seqs)
    BY <1>1, <1>3, <2>5 DEF T
  <2>7. FlattenSeq(seqs) = f[Len(seqs)]
    BY <1>3, <2>1, FlattenValue
  <2> QED BY <2>6, <2>7
<1> QED BY <1>2, <1>3

(* Parts of one element each are that element each. *)
LEMMA FlattenSingles ==
  ASSUME NEW S, NEW s \in Seq(S)
  PROVE  FlattenSeq([i \in 1..Len(s) |-> <<s[i]>>]) = s
<1> DEFINE parts(n) == [i \in 1..n |-> <<s[i]>>]
<1>1. Len(s) \in Nat /\ \A i \in 1..Len(s) : s[i] \in S /\ <<s[i]>> \in Seq(S)
  BY LenProperties, ElementOfSeq
<1>2. \A n \in 0..Len(s) : parts(n) \in Seq(Seq(S)) /\ Len(parts(n)) = n
  BY <1>1, IsASeq
<1> DEFINE T == {n \in Nat : n <= Len(s) => FlattenSeq(parts(n)) = TakeN(s, n)}
<1>3. 0 \in T
  <2>1. 0 \in 0..Len(s)
    BY <1>1
  <2>2. parts(0) = <<>>
    BY <1>2, <2>1, EmptySeq
  <2>3. TakeN(s, 0) \in Seq(S) /\ Len(TakeN(s, 0)) = 0
    BY <2>1, TakeFacts
  <2>4. TakeN(s, 0) = <<>>
    BY <2>3, EmptySeq
  <2>5. FlattenSeq(parts(0)) = TakeN(s, 0)
    BY <2>2, <2>4, FlattenEmpty
  <2> QED BY <2>5
<1>4. ASSUME NEW n \in Nat, n \in T PROVE n + 1 \in T
  <2> SUFFICES ASSUME n + 1 <= Len(s) PROVE FlattenSeq(parts(n + 1)) = TakeN(s, n + 1)
    OBVIOUS
  <2>1. n \in 0..Len(s) /\ n + 1 \in 0..Len(s) /\ n + 1 \in 1..Len(s)
    BY <1>1
  <2>2. FlattenSeq(parts(n)) = TakeN(s, n)
    BY <1>1, <1>4, <2>1
  <2>3. /\ parts(n) \in Seq(Seq(S)) /\ Len(parts(n)) = n
        /\ parts(n + 1) \in Seq(Seq(S)) /\ Len(parts(n + 1)) = n + 1
        /\ <<s[n + 1]>> \in Seq(S) /\ s[n + 1] \in S
    BY <1>1, <1>2, <2>1
  <2>4. /\ \A i \in 1..n : parts(n + 1)[i] = parts(n)[i]
        /\ parts(n + 1)[n + 1] = <<s[n + 1]>>
    <3>1. \A i \in 1..n : i \in 1..(n + 1)
      OBVIOUS
    <3>2. n + 1 \in 1..(n + 1)
      OBVIOUS
    <3> QED BY <3>1, <3>2
  <2> HIDE DEF parts
  <2>5. parts(n + 1) = Append(parts(n), <<s[n + 1]>>)
    <3>1. /\ Append(parts(n), <<s[n + 1]>>) \in Seq(Seq(S))
          /\ Len(Append(parts(n), <<s[n + 1]>>)) = n + 1
          /\ \A i \in 1..n : Append(parts(n), <<s[n + 1]>>)[i] = parts(n)[i]
          /\ Append(parts(n), <<s[n + 1]>>)[n + 1] = <<s[n + 1]>>
      BY <2>3, AppendProperties
    <3>2. \A i \in 1..(n + 1) : i \in 1..n \/ i = n + 1
      OBVIOUS
    <3>3. \A i \in 1..(n + 1) : parts(n + 1)[i] = Append(parts(n), <<s[n + 1]>>)[i]
      BY <2>4, <3>1, <3>2
    <3> QED BY <2>3, <3>1, <3>3, SeqEqual
  <2>6. FlattenSeq(parts(n + 1)) = TakeN(s, n) \o <<s[n + 1]>>
    BY <2>2, <2>3, <2>5, FlattenAppend
  <2>7. /\ TakeN(s, n) \in Seq(S) /\ Len(TakeN(s, n)) = n /\ \A i \in 1..n : TakeN(s, n)[i] = s[i]
        /\ TakeN(s, n + 1) \in Seq(S) /\ Len(TakeN(s, n + 1)) = n + 1
        /\ \A i \in 1..(n + 1) : TakeN(s, n + 1)[i] = s[i]
    BY <2>1, TakeFacts
  <2> DEFINE a == TakeN(s, n)
             b == <<s[n + 1]>>
  <2>8. b \in Seq(S) /\ Len(b) = 1 /\ b[1] = s[n + 1]
    BY <2>3
  <2> HIDE DEF a, b
  <2>9. /\ a \o b \in Seq(S) /\ Len(a \o b) = n + 1
        /\ \A i \in 1..(n + 1) : (a \o b)[i] = IF i <= n THEN a[i] ELSE b[i - n]
    <3>1. a \in Seq(S) /\ Len(a) = n
      BY <2>7 DEF a
    <3>2. /\ a \o b \in Seq(S) /\ Len(a \o b) = Len(a) + Len(b)
          /\ \A i \in 1..(Len(a) + Len(b)) :
                (a \o b)[i] = IF i <= Len(a) THEN a[i] ELSE b[i - Len(a)]
      <4>1. a \in Seq(S) /\ b \in Seq(S)
        BY <2>8, <3>1
      <4> QED BY <4>1, ConcatProperties
    <3> QED BY <2>8, <3>1, <3>2
  <2>10. \A i \in 1..(n + 1) : (a \o b)[i] = s[i]
    <3>1. ASSUME NEW i \in 1..(n + 1) PROVE (a \o b)[i] = s[i]
      <4>1. CASE i <= n
        BY <2>7, <2>9, <4>1 DEF a
      <4>2. CASE ~(i <= n)
        <5>1. i = n + 1 /\ i - n = 1
          BY <4>2
        <5> QED BY <2>8, <2>9, <4>2, <5>1
      <4> QED BY <4>1, <4>2
    <3> QED BY <3>1
  <2>11. a \o b = TakeN(s, n + 1)
    BY <2>7, <2>9, <2>10, SeqEqual
  <2> QED BY <2>6, <2>11 DEF a, b
<1> HIDE DEF T
<1>5. Len(s) \in T
  BY <1>1, <1>3, <1>4, Induction
<1>6. FlattenSeq(parts(Len(s))) = TakeN(s, Len(s))
  BY <1>1, <1>5 DEF T
<1> QED BY <1>6, TakeAll

-----------------------------------------------------------------------------
(* InsertAt and RemoveAt, element by element. *)

LEMMA InsertAtFacts ==
  ASSUME NEW S, NEW s \in Seq(S), NEW i \in 1..(Len(s) + 1), NEW x \in S
  PROVE  /\ InsertAt(s, i, x) \in Seq(S) /\ Len(InsertAt(s, i, x)) = Len(s) + 1
         /\ InsertAt(s, i, x)[i] = x
         /\ \A j \in 1..(Len(s) + 1) : /\ j < i => InsertAt(s, i, x)[j] = s[j]
                                       /\ j > i => InsertAt(s, i, x)[j] = s[j - 1]
<1> DEFINE a == TakeN(s, i - 1)
           m == <<x>>
           b == DropN(s, i - 1)
           am == a \o m
<1>1. Len(s) \in Nat /\ i \in Nat \ {0} /\ i - 1 \in 0..Len(s)
  BY LenProperties
<1>2. a \in Seq(S) /\ Len(a) = i - 1 /\ \A j \in 1..(i - 1) : a[j] = s[j]
  BY <1>1, TakeFacts
<1>3. /\ b \in Seq(S) /\ Len(b) = Len(s) - (i - 1)
      /\ \A j \in 1..(Len(s) - (i - 1)) : b[j] = s[(i - 1) + j]
  BY <1>1, DropFacts
<1>4. m \in Seq(S) /\ Len(m) = 1 /\ m[1] = x
  OBVIOUS
<1>5. InsertAt(s, i, x) = am \o b
  <2>1. (i - 1) + 1 = i
    BY <1>1
  <2> QED BY <2>1 DEF InsertAt, TakeN, DropN
<1> HIDE DEF a, b, m
<1>6. /\ am \in Seq(S) /\ Len(am) = i
      /\ \A j \in 1..i : am[j] = IF j < i THEN s[j] ELSE x
  <2>1. /\ a \o m \in Seq(S) /\ Len(a \o m) = Len(a) + Len(m)
        /\ \A j \in 1..(Len(a) + Len(m)) : (a \o m)[j] = IF j <= Len(a) THEN a[j] ELSE m[j - Len(a)]
    BY <1>2, <1>4, ConcatProperties
  <2> QED BY <1>1, <1>2, <1>4, <2>1
<1> HIDE DEF am
<1> DEFINE t == am \o b
<1>7. /\ t \in Seq(S) /\ Len(t) = Len(s) + 1
      /\ \A j \in 1..(Len(s) + 1) : t[j] = IF j <= i THEN am[j] ELSE b[j - i]
  <2>1. /\ am \o b \in Seq(S) /\ Len(am \o b) = Len(am) + Len(b)
        /\ \A j \in 1..(Len(am) + Len(b)) : (am \o b)[j] = IF j <= Len(am) THEN am[j] ELSE b[j - Len(am)]
    BY <1>3, <1>6, ConcatProperties
  <2> QED BY <1>1, <1>3, <1>6, <2>1, SMTT(30)
<1> HIDE DEF t
<1>8. ASSUME NEW j \in 1..(Len(s) + 1)
      PROVE  (j < i => t[j] = s[j]) /\ (j = i => t[j] = x) /\ (j > i => t[j] = s[j - 1])
  <2>1. CASE j <= i
    <3>1. t[j] = am[j] /\ j \in 1..i
      BY <1>1, <1>7, <2>1
    <3> QED BY <1>1, <1>6, <2>1, <3>1
  <2>2. CASE j > i
    <3>1. j - i \in 1..(Len(s) - (i - 1)) /\ (i - 1) + (j - i) = j - 1
      BY <1>1, <2>2
    <3>2. t[j] = b[j - i]
      BY <1>1, <1>7, <2>2
    <3> QED BY <1>1, <1>3, <2>2, <3>1, <3>2
  <2> QED BY <1>1, <2>1, <2>2
<1>9. t[i] = x
  BY <1>1, <1>8
<1> QED BY <1>5, <1>7, <1>8, <1>9 DEF t

LEMMA RemoveAtFacts ==
  ASSUME NEW S, NEW s \in Seq(S), NEW i \in 1..Len(s)
  PROVE  /\ RemoveAt(s, i) \in Seq(S) /\ Len(RemoveAt(s, i)) = Len(s) - 1
         /\ \A j \in 1..(Len(s) - 1) : RemoveAt(s, i)[j] = IF j < i THEN s[j] ELSE s[j + 1]
<1> DEFINE a == TakeN(s, i - 1)
           b == DropN(s, i)
           t == a \o b
<1>1. Len(s) \in Nat /\ i \in Nat \ {0} /\ i - 1 \in 0..Len(s) /\ i \in 0..Len(s)
  BY LenProperties
<1>2. a \in Seq(S) /\ Len(a) = i - 1 /\ \A j \in 1..(i - 1) : a[j] = s[j]
  BY <1>1, TakeFacts
<1>3. b \in Seq(S) /\ Len(b) = Len(s) - i /\ \A j \in 1..(Len(s) - i) : b[j] = s[i + j]
  BY <1>1, DropFacts
<1>4. RemoveAt(s, i) = t
  BY DEF RemoveAt, TakeN, DropN
<1> HIDE DEF a, b
<1>5. /\ t \in Seq(S) /\ Len(t) = Len(s) - 1
      /\ \A j \in 1..(Len(s) - 1) : t[j] = IF j < i THEN a[j] ELSE b[j - (i - 1)]
  <2>1. /\ a \o b \in Seq(S) /\ Len(a \o b) = Len(a) + Len(b)
        /\ \A j \in 1..(Len(a) + Len(b)) : (a \o b)[j] = IF j <= Len(a) THEN a[j] ELSE b[j - Len(a)]
    BY <1>2, <1>3, ConcatProperties
  <2> QED BY <1>1, <1>2, <1>3, <2>1
<1> HIDE DEF t
<1>6. ASSUME NEW j \in 1..(Len(s) - 1)
      PROVE  t[j] = IF j < i THEN s[j] ELSE s[j + 1]
  <2>1. CASE j < i
    <3>1. t[j] = a[j] /\ j \in 1..(i - 1)
      BY <1>1, <1>5, <2>1
    <3> QED BY <1>2, <2>1, <3>1
  <2>2. CASE j >= i
    <3>1. j - (i - 1) \in 1..(Len(s) - i) /\ i + (j - (i - 1)) = j + 1 /\ ~(j < i)
      BY <1>1, <2>2
    <3>2. t[j] = b[j - (i - 1)]
      BY <1>5, <3>1
    <3> QED BY <1>3, <3>1, <3>2
  <2> QED BY <1>1, <2>1, <2>2
<1> QED BY <1>4, <1>5, <1>6

(* Neither repeats an element. *)
LEMMA InsertAtInjective ==
  ASSUME NEW S, NEW s \in Seq(S), NEW i \in 1..(Len(s) + 1), NEW x \in S,
         IsInjective(s), \A j \in 1..Len(s) : s[j] # x
  PROVE  IsInjective(InsertAt(s, i, x))
<1> DEFINE t == InsertAt(s, i, x)
<1>1. Len(s) \in Nat /\ i \in Nat /\ DOMAIN s = 1..Len(s)
  BY LenProperties
<1>2. /\ t \in Seq(S) /\ Len(t) = Len(s) + 1 /\ t[i] = x
      /\ \A j \in 1..(Len(s) + 1) : (j < i => t[j] = s[j]) /\ (j > i => t[j] = s[j - 1])
  BY InsertAtFacts
<1> HIDE DEF t
<1>3. DOMAIN t = 1..(Len(s) + 1)
  BY <1>2, LenProperties
<1>4. ASSUME NEW a \in DOMAIN t, NEW b \in DOMAIN t, t[a] = t[b] PROVE a = b
  <2> DEFINE from(j) == IF j < i THEN j ELSE j - 1
  <2>1. a \in 1..(Len(s) + 1) /\ b \in 1..(Len(s) + 1)
    BY <1>3
  <2>2. a # i => from(a) \in 1..Len(s) /\ t[a] = s[from(a)]
    BY <1>1, <1>2, <2>1
  <2>3. b # i => from(b) \in 1..Len(s) /\ t[b] = s[from(b)]
    BY <1>1, <1>2, <2>1
  <2>4. t[i] = x /\ (a = i <=> b = i)
    BY <1>1, <1>2, <1>4, <2>2, <2>3
  <2>5. a # i => from(a) = from(b)
    BY <1>1, <1>4, <2>2, <2>3, <2>4 DEF IsInjective
  <2> QED BY <1>1, <2>1, <2>4, <2>5
<1> QED BY <1>4 DEF IsInjective, t

LEMMA RemoveAtInjective ==
  ASSUME NEW S, NEW s \in Seq(S), NEW i \in 1..Len(s), IsInjective(s)
  PROVE  IsInjective(RemoveAt(s, i))
<1> DEFINE t == RemoveAt(s, i)
<1>1. Len(s) \in Nat /\ i \in Nat /\ DOMAIN s = 1..Len(s)
  BY LenProperties
<1>2. /\ t \in Seq(S) /\ Len(t) = Len(s) - 1
      /\ \A j \in 1..(Len(s) - 1) : t[j] = IF j < i THEN s[j] ELSE s[j + 1]
  BY RemoveAtFacts
<1> HIDE DEF t
<1>3. DOMAIN t = 1..(Len(s) - 1)
  BY <1>2, LenProperties
<1>4. ASSUME NEW a \in DOMAIN t, NEW b \in DOMAIN t, t[a] = t[b] PROVE a = b
  <2> DEFINE from(j) == IF j < i THEN j ELSE j + 1
  <2>1. a \in 1..(Len(s) - 1) /\ b \in 1..(Len(s) - 1)
    BY <1>3
  <2>2. from(a) \in 1..Len(s) /\ t[a] = s[from(a)]
    BY <1>1, <1>2, <2>1
  <2>3. from(b) \in 1..Len(s) /\ t[b] = s[from(b)]
    BY <1>1, <1>2, <2>1
  <2>4. from(a) = from(b)
    BY <1>1, <1>4, <2>2, <2>3 DEF IsInjective
  <2> QED BY <1>1, <2>1, <2>4
<1> QED BY <1>4 DEF IsInjective, t

(* The same, to tell by: a sequence that looks like it is it. *)
IsInserted(t, s, i, x) ==
  /\ Len(t) = Len(s) + 1 /\ t[i] = x
  /\ \A j \in 1..(Len(s) + 1) : (j < i => t[j] = s[j]) /\ (j > i => t[j] = s[j - 1])

IsRemoved(t, s, i) ==
  /\ Len(t) = Len(s) - 1
  /\ \A j \in 1..(Len(s) - 1) : (j < i => t[j] = s[j]) /\ (j >= i => t[j] = s[j + 1])

LEMMA Inserted ==
  ASSUME NEW S, NEW s \in Seq(S), NEW i \in 1..(Len(s) + 1), NEW x \in S
  PROVE  InsertAt(s, i, x) \in Seq(S) /\ IsInserted(InsertAt(s, i, x), s, i, x)
BY InsertAtFacts DEF IsInserted

LEMMA InsertedOnly ==
  ASSUME NEW S, NEW s \in Seq(S), NEW i \in 1..(Len(s) + 1), NEW x \in S,
         NEW t \in Seq(S), IsInserted(t, s, i, x)
  PROVE  t = InsertAt(s, i, x)
<1> DEFINE u == InsertAt(s, i, x)
<1>1. u \in Seq(S) /\ IsInserted(u, s, i, x)
  BY Inserted
<1>2. Len(s) \in Nat /\ i \in Nat
  BY LenProperties
<1> HIDE DEF u
<1>3. ASSUME NEW j \in 1..(Len(s) + 1) PROVE t[j] = u[j]
  <2>1. j < i \/ j = i \/ j > i
    BY <1>2
  <2> QED BY <1>1, <1>3, <2>1 DEF IsInserted
<1>4. Len(t) = Len(s) + 1 /\ Len(u) = Len(s) + 1
  BY <1>1 DEF IsInserted
<1>5. t = u
  BY <1>1, <1>3, <1>4, SeqEqual
<1> QED BY <1>5 DEF u

LEMMA Removed ==
  ASSUME NEW S, NEW s \in Seq(S), NEW i \in 1..Len(s)
  PROVE  RemoveAt(s, i) \in Seq(S) /\ IsRemoved(RemoveAt(s, i), s, i)
<1> DEFINE u == RemoveAt(s, i)
<1>1. /\ u \in Seq(S) /\ Len(u) = Len(s) - 1
      /\ \A j \in 1..(Len(s) - 1) : u[j] = IF j < i THEN s[j] ELSE s[j + 1]
  BY RemoveAtFacts
<1>2. Len(s) \in Nat /\ i \in Nat
  BY LenProperties
<1> HIDE DEF u
<1>3. ASSUME NEW j \in 1..(Len(s) - 1)
      PROVE  (j < i => u[j] = s[j]) /\ (j >= i => u[j] = s[j + 1])
  <2>1. j < i <=> ~(j >= i)
    BY <1>2
  <2> QED BY <1>1, <2>1
<1>4. IsRemoved(u, s, i)
  BY <1>1, <1>3 DEF IsRemoved
<1> QED BY <1>1, <1>4 DEF u

LEMMA RemovedOnly ==
  ASSUME NEW S, NEW s \in Seq(S), NEW i \in 1..Len(s), NEW t \in Seq(S), IsRemoved(t, s, i)
  PROVE  t = RemoveAt(s, i)
<1> DEFINE u == RemoveAt(s, i)
<1>1. u \in Seq(S) /\ IsRemoved(u, s, i)
  BY Removed
<1>2. Len(s) \in Nat /\ i \in Nat
  BY LenProperties
<1> HIDE DEF u
<1>3. ASSUME NEW j \in 1..(Len(s) - 1) PROVE t[j] = u[j]
  <2>1. j < i \/ j >= i
    BY <1>2
  <2> QED BY <1>1, <1>3, <2>1 DEF IsRemoved
<1>4. Len(t) = Len(s) - 1 /\ Len(u) = Len(s) - 1
  BY <1>1 DEF IsRemoved
<1>5. t = u
  BY <1>1, <1>3, <1>4, SeqEqual
<1> QED BY <1>5 DEF u

-----------------------------------------------------------------------------
(* The first n sequences in a row. *)
FlatTo(seqs, n) == FlattenSeq(SubSeq(seqs, 1, n))

LEMMA FlatToNext ==
  ASSUME NEW S, NEW seqs \in Seq(Seq(S)), NEW n \in Nat, n + 1 <= Len(seqs)
  PROVE  /\ FlatTo(seqs, n) \in Seq(S) /\ FlatTo(seqs, n + 1) \in Seq(S)
         /\ FlatTo(seqs, n + 1) = FlatTo(seqs, n) \o seqs[n + 1]
<1>1. Len(seqs) \in Nat /\ n \in 0..Len(seqs) /\ n + 1 \in 0..Len(seqs) /\ n + 1 \in 1..Len(seqs)
  BY LenProperties
<1>2. /\ TakeN(seqs, n) \in Seq(Seq(S)) /\ Len(TakeN(seqs, n)) = n
      /\ \A i \in 1..n : TakeN(seqs, n)[i] = seqs[i]
  BY <1>1, TakeFacts
<1>3. /\ TakeN(seqs, n + 1) \in Seq(Seq(S)) /\ Len(TakeN(seqs, n + 1)) = n + 1
      /\ \A i \in 1..(n + 1) : TakeN(seqs, n + 1)[i] = seqs[i]
  BY <1>1, TakeFacts
<1>4. seqs[n + 1] \in Seq(S)
  BY <1>1, ElementOfSeq
<1> DEFINE old == TakeN(seqs, n)
           new == TakeN(seqs, n + 1)
           more == Append(old, seqs[n + 1])
<1> HIDE DEF old, new
<1>5. /\ more \in Seq(Seq(S)) /\ Len(more) = n + 1 /\ more[n + 1] = seqs[n + 1]
      /\ \A i \in 1..n : more[i] = seqs[i]
  <2>1. old \in Seq(Seq(S)) /\ Len(old) = n /\ \A i \in 1..n : old[i] = seqs[i]
    BY <1>2 DEF old
  <2> QED BY <1>4, <2>1, AppendProperties
<1> HIDE DEF more
<1>6. \A i \in 1..(n + 1) : more[i] = new[i]
  <2>1. \A i \in 1..(n + 1) : i \in 1..n \/ i = n + 1
    OBVIOUS
  <2>2. \A i \in 1..(n + 1) : new[i] = seqs[i]
    BY <1>3 DEF new
  <2> QED BY <1>5, <2>1, <2>2
<1>7. new = more
  <2>1. new \in Seq(Seq(S)) /\ Len(new) = n + 1
    BY <1>3 DEF new
  <2> QED BY <1>5, <1>6, <2>1, SeqEqual
<1>8. FlattenSeq(more) = FlattenSeq(old) \o seqs[n + 1]
  BY <1>2, <1>4, FlattenAppend DEF more, old
<1>9. FlattenSeq(old) \in Seq(S) /\ FlattenSeq(new) \in Seq(S)
  BY <1>2, <1>3, FlattenType DEF old, new
<1> QED BY <1>7, <1>8, <1>9 DEF FlatTo, old, new, TakeN

LEMMA FlatToEnds ==
  ASSUME NEW S, NEW seqs \in Seq(Seq(S))
  PROVE  FlatTo(seqs, 0) = <<>> /\ FlatTo(seqs, Len(seqs)) = FlattenSeq(seqs)
<1>1. Len(seqs) \in Nat /\ 0 \in 0..Len(seqs)
  BY LenProperties
<1>2. TakeN(seqs, 0) = <<>>
  BY <1>1, TakeFacts, EmptySeq
<1>3. SubSeq(seqs, 1, Len(seqs)) = seqs
  BY SubSeqFull
<1> QED BY <1>2, <1>3, FlattenEmpty DEF FlatTo, TakeN

(* How long they are, and where each of them is in the whole.               *)
LEMMA FlatToLen ==
  ASSUME NEW S, NEW seqs \in Seq(Seq(S))
  PROVE  /\ \A n \in 0..Len(seqs) : Len(FlatTo(seqs, n)) \in Nat
         /\ Len(FlatTo(seqs, 0)) = 0
         /\ Len(FlatTo(seqs, Len(seqs))) = Len(FlattenSeq(seqs))
         /\ \A n \in 1..Len(seqs) :
               Len(FlatTo(seqs, n)) = Len(FlatTo(seqs, n - 1)) + Len(seqs[n])
<1>1. Len(seqs) \in Nat /\ \A n \in 1..Len(seqs) : seqs[n] \in Seq(S)
  BY LenProperties, ElementOfSeq
<1>2. FlatTo(seqs, 0) = <<>> /\ FlatTo(seqs, Len(seqs)) = FlattenSeq(seqs) /\ Len(<<>>) = 0
  BY FlatToEnds, EmptySeq
<1>3. ASSUME NEW n \in 1..Len(seqs)
      PROVE  /\ FlatTo(seqs, n) \in Seq(S)
             /\ Len(FlatTo(seqs, n)) = Len(FlatTo(seqs, n - 1)) + Len(seqs[n])
  <2>1. n - 1 \in Nat /\ (n - 1) + 1 <= Len(seqs) /\ (n - 1) + 1 = n
    BY <1>1
  <2>2. /\ FlatTo(seqs, n - 1) \in Seq(S) /\ FlatTo(seqs, n) \in Seq(S)
        /\ FlatTo(seqs, n) = FlatTo(seqs, n - 1) \o seqs[n]
    BY <2>1, FlatToNext
  <2> QED BY <1>1, <2>2, ConcatProperties
<1>4. ASSUME NEW n \in 0..Len(seqs) PROVE Len(FlatTo(seqs, n)) \in Nat
  <2>1. CASE n = 0
    BY <1>2, <2>1
  <2>2. CASE n # 0
    <3>1. n \in 1..Len(seqs)
      BY <1>1, <2>2
    <3>2. FlatTo(seqs, n) \in Seq(S)
      BY <1>3, <3>1
    <3> QED BY <3>2, LenProperties
  <2> QED BY <2>1, <2>2
<1> QED BY <1>2, <1>3, <1>4

LEMMA FlatToGrows ==
  ASSUME NEW S, NEW seqs \in Seq(Seq(S)), NEW m \in 0..Len(seqs), NEW n \in 0..Len(seqs), m <= n
  PROVE  Len(FlatTo(seqs, m)) <= Len(FlatTo(seqs, n))
<1> DEFINE T == {k \in Nat : m + k <= Len(seqs) => Len(FlatTo(seqs, m)) <= Len(FlatTo(seqs, m + k))}
<1>1. Len(seqs) \in Nat /\ \A i \in 1..Len(seqs) : Len(seqs[i]) \in Nat
  <2>1. \A i \in 1..Len(seqs) : seqs[i] \in Seq(S)
    BY ElementOfSeq
  <2> QED BY <2>1, LenProperties
<1>2. /\ \A i \in 0..Len(seqs) : Len(FlatTo(seqs, i)) \in Nat
      /\ \A i \in 1..Len(seqs) :
               Len(FlatTo(seqs, i)) = Len(FlatTo(seqs, i - 1)) + Len(seqs[i])
  BY FlatToLen
<1>3. 0 \in T
  <2>1. m + 0 = m
    OBVIOUS
  <2> QED BY <1>2, <2>1
<1>4. ASSUME NEW k \in Nat, k \in T PROVE k + 1 \in T
  <2> SUFFICES ASSUME m + (k + 1) <= Len(seqs)
               PROVE  Len(FlatTo(seqs, m)) <= Len(FlatTo(seqs, m + (k + 1)))
    OBVIOUS
  <2>1. /\ m + (k + 1) \in 1..Len(seqs) /\ (m + (k + 1)) - 1 = m + k /\ m + k \in 0..Len(seqs)
        /\ Len(FlatTo(seqs, m)) <= Len(FlatTo(seqs, m + k))
    BY <1>1, <1>4
  <2>2. Len(FlatTo(seqs, m + (k + 1))) = Len(FlatTo(seqs, m + k)) + Len(seqs[m + (k + 1)])
    BY <1>2, <2>1
  <2>3. /\ Len(FlatTo(seqs, m)) \in Nat /\ Len(FlatTo(seqs, m + k)) \in Nat
        /\ Len(seqs[m + (k + 1)]) \in Nat
    BY <1>1, <1>2, <2>1
  <2> DEFINE a == Len(FlatTo(seqs, m))
             b == Len(FlatTo(seqs, m + k))
             c == Len(FlatTo(seqs, m + (k + 1)))
             d == Len(seqs[m + (k + 1)])
  <2>4. a \in Nat /\ b \in Nat /\ d \in Nat /\ c = b + d /\ a <= b
    BY <2>1, <2>2, <2>3
  <2> HIDE DEF a, b, c, d
  <2>5. a <= c
    BY <2>4
  <2> QED BY <2>5 DEF a, c
<1> HIDE DEF T
<1>5. n - m \in T
  <2>1. Nat \subseteq T
    BY <1>3, <1>4, Induction
  <2>2. n - m \in Nat
    BY <1>1
  <2> QED BY <2>1, <2>2
<1>6. m + (n - m) = n
  BY <1>1
<1> QED BY <1>1, <1>5, <1>6 DEF T

LEMMA FlatToHolds ==
  ASSUME NEW S, NEW seqs \in Seq(Seq(S)), NEW n \in 1..Len(seqs), NEW k \in 1..Len(seqs[n])
  PROVE  FlattenSeq(seqs)[Len(FlatTo(seqs, n - 1)) + k] = seqs[n][k]
<1> DEFINE at == Len(FlatTo(seqs, n - 1)) + k
           T == {m \in Nat : n + m <= Len(seqs) => FlatTo(seqs, n + m)[at] = seqs[n][k]}
<1>1. Len(seqs) \in Nat /\ n \in Nat /\ \A i \in 1..Len(seqs) : seqs[i] \in Seq(S)
  BY LenProperties, ElementOfSeq
<1>2. \A i \in 1..Len(seqs) :
        /\ FlatTo(seqs, i - 1) \in Seq(S) /\ FlatTo(seqs, i) \in Seq(S)
        /\ FlatTo(seqs, i) = FlatTo(seqs, i - 1) \o seqs[i]
  <2> SUFFICES ASSUME NEW i \in 1..Len(seqs)
               PROVE  /\ FlatTo(seqs, i - 1) \in Seq(S) /\ FlatTo(seqs, i) \in Seq(S)
                      /\ FlatTo(seqs, i) = FlatTo(seqs, i - 1) \o seqs[i]
    OBVIOUS
  <2>1. i - 1 \in Nat /\ (i - 1) + 1 <= Len(seqs) /\ (i - 1) + 1 = i
    BY <1>1
  <2> QED BY <2>1, FlatToNext
<1>3. /\ FlatTo(seqs, n)[at] = seqs[n][k]
      /\ at \in Nat /\ at >= 1 /\ at <= Len(FlatTo(seqs, n))
  <2> DEFINE a == FlatTo(seqs, n - 1)
             b == seqs[n]
  <2>1. a \in Seq(S) /\ b \in Seq(S) /\ FlatTo(seqs, n) = a \o b /\ k \in 1..Len(b) /\ at = Len(a) + k
    BY <1>1, <1>2
  <2> HIDE DEF a, b, at
  <2>2. Len(a) \in Nat /\ Len(b) \in Nat /\ Len(a \o b) = Len(a) + Len(b)
        /\ \A i \in 1..(Len(a) + Len(b)) :
              (a \o b)[i] = IF i <= Len(a) THEN a[i] ELSE b[i - Len(a)]
    BY <2>1, LenProperties, ConcatProperties
  <2>3. at \in 1..(Len(a) + Len(b)) /\ ~(at <= Len(a)) /\ at - Len(a) = k
    BY <2>1, <2>2
  <2>4. (a \o b)[at] = b[k]
    BY <2>2, <2>3
  <2> QED BY <2>1, <2>2, <2>3, <2>4 DEF b
<1> HIDE DEF at
<1>4. 0 \in T
  <2>1. n + 0 = n
    BY <1>1
  <2> QED BY <1>3, <2>1
<1>5. ASSUME NEW m \in Nat, m \in T PROVE m + 1 \in T
  <2> SUFFICES ASSUME n + (m + 1) <= Len(seqs) PROVE FlatTo(seqs, n + (m + 1))[at] = seqs[n][k]
    OBVIOUS
  <2> DEFINE a == FlatTo(seqs, n + m)
             b == seqs[n + (m + 1)]
  <2>1. /\ n + (m + 1) \in 1..Len(seqs) /\ (n + (m + 1)) - 1 = n + m
        /\ n + m \in 0..Len(seqs) /\ n \in 0..Len(seqs) /\ n <= n + m
        /\ a[at] = seqs[n][k]
    BY <1>1, <1>5
  <2>2. a \in Seq(S) /\ b \in Seq(S) /\ FlatTo(seqs, n + (m + 1)) = a \o b
    BY <1>1, <1>2, <2>1
  <2>3. Len(FlatTo(seqs, n)) <= Len(a)
    BY <2>1, FlatToGrows
  <2>4. Len(FlatTo(seqs, n)) \in Nat
    BY <1>1, <1>2, LenProperties
  <2> HIDE DEF a, b
  <2>5. Len(a) \in Nat /\ Len(b) \in Nat
        /\ \A i \in 1..(Len(a) + Len(b)) :
              (a \o b)[i] = IF i <= Len(a) THEN a[i] ELSE b[i - Len(a)]
    BY <2>2, LenProperties, ConcatProperties
  <2>6. at \in 1..(Len(a) + Len(b)) /\ at <= Len(a)
    BY <1>3, <2>3, <2>4, <2>5
  <2>7. (a \o b)[at] = a[at]
    BY <2>5, <2>6
  <2> QED BY <2>1, <2>2, <2>7
<1> HIDE DEF T
<1>6. Len(seqs) - n \in T
  <2>1. Nat \subseteq T
    BY <1>4, <1>5, Induction
  <2>2. Len(seqs) - n \in Nat
    BY <1>1
  <2> QED BY <2>1, <2>2
<1>7. n + (Len(seqs) - n) = Len(seqs) /\ Len(seqs) - n \in Nat
  BY <1>1
<1>8. FlatTo(seqs, Len(seqs))[at] = seqs[n][k]
  BY <1>1, <1>6, <1>7 DEF T
<1> QED BY <1>8, FlatToEnds DEF at

-----------------------------------------------------------------------------
(* The two halves of a queue history: what was taken off, and what is still *)
(* queued.                                                                  *)

(* Appending to the queued half appends to the whole (push_back). *)
LEMMA AppendToQueued ==
  ASSUME NEW S, NEW s \in Seq(S), NEW t \in Seq(S), NEW x \in S
  PROVE  s \o Append(t, x) = Append(s \o t, x)
<1>1. Append(t, x) = t \o <<x>> /\ Append(s \o t, x) = (s \o t) \o <<x>>
  BY AppendIsConcat, ConcatProperties
<1>2. <<x>> \in Seq(S)
  OBVIOUS
<1> QED BY <1>1, <1>2, ConcatAssociative

(* Moving the first queued element to the end of the taken half leaves the  *)
(* whole as it was (pop_front).                                             *)
LEMMA MoveHead ==
  ASSUME NEW S, NEW s \in Seq(S), NEW t \in Seq(S), t # <<>>
  PROVE  Append(s, Head(t)) \o Tail(t) = s \o t
<1>1. Head(t) \in S /\ Tail(t) \in Seq(S)
  BY HeadTailProperties
<1>2. <<Head(t)>> \in Seq(S)
  BY <1>1
<1>3. Append(s, Head(t)) = s \o <<Head(t)>>
  BY <1>1, AppendIsConcat
<1>4. <<Head(t)>> \o Tail(t) = t
  OBVIOUS
<1> QED BY <1>1, <1>2, <1>3, <1>4, ConcatAssociative

(* So does moving the first n of them (drain_front). *)
LEMMA MoveFront ==
  ASSUME NEW S, NEW s \in Seq(S), NEW t \in Seq(S), NEW n \in 0..Len(t)
  PROVE  /\ SubSeq(t, 1, n) \in Seq(S)
         /\ SubSeq(t, n + 1, Len(t)) \in Seq(S)
         /\ (s \o SubSeq(t, 1, n)) \o SubSeq(t, n + 1, Len(t)) = s \o t
<1>1. /\ Len(t) \in Nat
      /\ \A i \in 1..Len(t) : t[i] \in S
  BY LenProperties, ElementOfSeq
<1>2. SubSeq(t, 1, n) \in Seq(S)
  BY <1>1, SubSeqProperties
<1>3. SubSeq(t, n + 1, Len(t)) \in Seq(S)
  <2>1. n + 1 \in Int /\ \A i \in (n + 1)..Len(t) : t[i] \in S
    BY <1>1
  <2> QED BY <2>1, <1>1, SubSeqProperties
<1>4. SubSeq(t, 1, n) \o SubSeq(t, n + 1, Len(t)) = t
  <2>1. 1 \in 1..(Len(t) + 1) /\ n \in (1 - 1)..Len(t) /\ Len(t) \in n..Len(t)
    BY <1>1
  <2>2. SubSeq(t, 1, n) \o SubSeq(t, n + 1, Len(t)) = SubSeq(t, 1, Len(t))
    BY ONLY <2>1, t \in Seq(S), ConcatAdjacentSubSeq, Zenon
  <2> QED BY <2>2, SubSeqFull
<1>5. (s \o SubSeq(t, 1, n)) \o SubSeq(t, n + 1, Len(t))
        = s \o (SubSeq(t, 1, n) \o SubSeq(t, n + 1, Len(t)))
  <2> DEFINE front == SubSeq(t, 1, n)
             back  == SubSeq(t, n + 1, Len(t))
  <2>1. front \in Seq(S) /\ back \in Seq(S)
    BY <1>2, <1>3
  <2> HIDE DEF front, back
  <2>2. (s \o front) \o back = s \o (front \o back)
    BY <2>1, ConcatAssociative, SMTT(30)
  <2> QED BY <2>2 DEF front, back
<1> QED BY <1>2, <1>3, <1>4, <1>5

(* The last of these facts alone. *)
LEMMA WholeKept ==
  ASSUME NEW S, NEW s \in Seq(S), NEW t \in Seq(S), NEW k \in 0..Len(t)
  PROVE  (s \o SubSeq(t, 1, k)) \o SubSeq(t, k + 1, Len(t)) = s \o t
BY MoveFront, ZenonT(30)

-----------------------------------------------------------------------------
(* Sequences of whatever elements. *)
IsSeq(q) == \E S : q \in Seq(S)

LEMMA SeqAppends ==
    ASSUME NEW s, IsSeq(s), NEW x
    PROVE  /\ IsSeq(Append(s, x)) /\ Append(s, x) # <<>>
           /\ Len(s) \in Nat /\ Len(Append(s, x)) = Len(s) + 1
           /\ \A i \in 1..Len(s) : Append(s, x)[i] = s[i]
           /\ Append(s, x)[Len(s) + 1] = x
<1>1. PICK S : s \in Seq(S)
  BY DEF IsSeq
<1> DEFINE U == S \cup {x}
<1>2. s \in Seq(U) /\ x \in U
  <2>1. S \subseteq U
    OBVIOUS
  <2> HIDE DEF U
  <2>2. s \in Seq(U)
    BY <1>1, <2>1
  <2> QED BY <2>2 DEF U
<1> HIDE DEF U
<1>3. /\ Append(s, x) \in Seq(U) /\ Len(Append(s, x)) = Len(s) + 1
      /\ \A i \in 1..Len(s) : Append(s, x)[i] = s[i]
      /\ Append(s, x)[Len(s) + 1] = x
      /\ Len(s) \in Nat
  BY <1>2, AppendProperties, LenProperties
<1>4. Append(s, x) # <<>>
  BY <1>3
<1> QED BY <1>3, <1>4 DEF IsSeq

LEMMA EmptyIsSeq == IsSeq(<<>>)
<1>1. <<>> \in Seq({})
  OBVIOUS
<1> QED BY <1>1 DEF IsSeq

LEMMA IsSeqEqual ==
    ASSUME NEW x, IsSeq(x), NEW y, IsSeq(y), Len(x) = Len(y), \A i \in 1..Len(x) : x[i] = y[i]
    PROVE  x = y
<1>1. PICK S : x \in Seq(S)
  BY DEF IsSeq
<1>2. PICK T : y \in Seq(T)
  BY DEF IsSeq
<1> QED BY <1>1, <1>2, SeqEqual

LEMMA ConcatIs ==
    ASSUME NEW x, IsSeq(x), NEW y, IsSeq(y)
    PROVE  /\ IsSeq(x \o y) /\ Len(x) \in Nat /\ Len(y) \in Nat
           /\ Len(x \o y) = Len(x) + Len(y)
           /\ \A i \in 1..(Len(x) + Len(y)) : (x \o y)[i] = IF i <= Len(x) THEN x[i] ELSE y[i - Len(x)]
<1>1. PICK S : x \in Seq(S)
  BY DEF IsSeq
<1>2. PICK T : y \in Seq(T)
  BY DEF IsSeq
<1> DEFINE U == S \cup T
<1>3. x \in Seq(U) /\ y \in Seq(U)
  <2>1. S \subseteq U /\ T \subseteq U
    OBVIOUS
  <2> HIDE DEF U
  <2> QED BY <1>1, <1>2, <2>1
<1> HIDE DEF U
<1>4. /\ x \o y \in Seq(U) /\ Len(x \o y) = Len(x) + Len(y)
      /\ \A i \in 1..(Len(x) + Len(y)) : (x \o y)[i] = IF i <= Len(x) THEN x[i] ELSE y[i - Len(x)]
  BY <1>3, ConcatProperties
<1> QED BY <1>3, <1>4, LenProperties DEF IsSeq

-----------------------------------------------------------------------------
(* A stretch of a sequence: the elements behind the first a, up to b. *)
Cut(s, a, b) == SubSeq(s, a + 1, b)

LEMMA CutFacts ==
    ASSUME NEW S, NEW s \in Seq(S), NEW a \in Nat, NEW b \in a..Len(s)
    PROVE  /\ Cut(s, a, b) \in Seq(S) /\ Len(Cut(s, a, b)) = b - a
           /\ \A i \in 1..(b - a) : Cut(s, a, b)[i] = s[a + i]
<1>1. Len(s) \in Nat /\ b \in Nat /\ a + 1 \in Int /\ b \in Int
  BY LenProperties
<1>2. \A i \in (a + 1)..b : s[i] \in S
  BY <1>1, ElementOfSeq
<1>3. /\ Cut(s, a, b) \in Seq(S)
      /\ Len(Cut(s, a, b)) = IF a + 1 <= b THEN b - (a + 1) + 1 ELSE 0
      /\ \A i \in 1..(b - (a + 1) + 1) : Cut(s, a, b)[i] = s[(a + 1) + i - 1]
  BY <1>1, <1>2, SubSeqProperties DEF Cut
<1>4. b - (a + 1) + 1 = b - a
  BY <1>1
<1>5. Len(Cut(s, a, b)) = b - a
  BY <1>1, <1>3
<1>6. ASSUME NEW i \in 1..(b - a) PROVE Cut(s, a, b)[i] = s[a + i]
  <2>1. (a + 1) + i - 1 = a + i
    BY <1>1
  <2> QED BY <1>3, <1>4, <2>1
<1> QED BY <1>3, <1>5, <1>6

LEMMA CutConcat ==
    ASSUME NEW S, NEW s \in Seq(S), NEW a \in Nat, NEW b \in a..Len(s), NEW c \in b..Len(s)
    PROVE  Cut(s, a, b) \o Cut(s, b, c) = Cut(s, a, c)
<1> DEFINE x == Cut(s, a, b)
           y == Cut(s, b, c)
           z == Cut(s, a, c)
<1>1. Len(s) \in Nat /\ b \in Nat /\ c \in Nat /\ c \in a..Len(s)
  BY LenProperties
<1>2. /\ x \in Seq(S) /\ Len(x) = b - a /\ \A i \in 1..(b - a) : x[i] = s[a + i]
      /\ y \in Seq(S) /\ Len(y) = c - b /\ \A i \in 1..(c - b) : y[i] = s[b + i]
      /\ z \in Seq(S) /\ Len(z) = c - a /\ \A i \in 1..(c - a) : z[i] = s[a + i]
  BY <1>1, CutFacts
<1> HIDE DEF x, y, z
<1>3. /\ x \o y \in Seq(S) /\ Len(x \o y) = (b - a) + (c - b)
      /\ \A i \in 1..((b - a) + (c - b)) : (x \o y)[i] = IF i <= b - a THEN x[i] ELSE y[i - (b - a)]
  <2>1. /\ x \o y \in Seq(S) /\ Len(x \o y) = Len(x) + Len(y)
        /\ \A i \in 1..(Len(x) + Len(y)) : (x \o y)[i] = IF i <= Len(x) THEN x[i] ELSE y[i - Len(x)]
    BY <1>2, ConcatProperties
  <2> QED BY <1>2, <2>1
<1>4. Len(x \o y) = Len(z)
  BY <1>1, <1>2, <1>3
<1>5. ASSUME NEW i \in 1..Len(z) PROVE (x \o y)[i] = z[i]
  <2>1. i \in 1..(c - a) /\ i \in 1..((b - a) + (c - b)) /\ i \in Nat
    BY <1>1, <1>2
  <2>2. CASE i <= b - a
    <3>1. i \in 1..(b - a)
      BY <2>1, <2>2
    <3> QED BY <1>2, <1>3, <2>1, <2>2, <3>1
  <2>3. CASE ~(i <= b - a)
    <3>1. i - (b - a) \in 1..(c - b) /\ b + (i - (b - a)) = a + i
      BY <1>1, <2>1, <2>3
    <3>2. y[i - (b - a)] = s[a + i]
      BY <1>2, <3>1
    <3> QED BY <1>2, <1>3, <2>1, <2>3, <3>2
  <2> QED BY <2>2, <2>3
<1>6. x \o y = z
  BY <1>2, <1>3, <1>4, <1>5, SeqEqual
<1> QED BY <1>6 DEF x, y, z

LEMMA CutCut ==
    ASSUME NEW S, NEW s \in Seq(S), NEW a \in Nat, NEW b \in a..Len(s),
           NEW c \in Nat, NEW e \in c..(b - a)
    PROVE  Cut(Cut(s, a, b), c, e) = Cut(s, a + c, a + e)
<1> DEFINE x == Cut(s, a, b)
           y == Cut(x, c, e)
           z == Cut(s, a + c, a + e)
<1>1. Len(s) \in Nat /\ b \in Nat /\ e \in Nat /\ a + c \in Nat /\ a + e \in (a + c)..Len(s)
  BY LenProperties
<1>2. x \in Seq(S) /\ Len(x) = b - a /\ \A i \in 1..(b - a) : x[i] = s[a + i]
  BY CutFacts
<1>3. z \in Seq(S) /\ Len(z) = e - c /\ \A i \in 1..(e - c) : z[i] = s[(a + c) + i]
  <2> DEFINE a2 == a + c
             b2 == a + e
  <2>1. a2 \in Nat /\ b2 \in a2..Len(s) /\ b2 - a2 = e - c
    BY <1>1
  <2> HIDE DEF a2, b2
  <2>2. Cut(s, a2, b2) \in Seq(S) /\ Len(Cut(s, a2, b2)) = b2 - a2 /\ \A i \in 1..(b2 - a2) : Cut(s, a2, b2)[i] = s[a2 + i]
    BY <2>1, CutFacts
  <2> QED BY <2>1, <2>2 DEF a2, b2
<1> HIDE DEF x
<1>4. y \in Seq(S) /\ Len(y) = e - c /\ \A i \in 1..(e - c) : y[i] = x[c + i]
  <2>1. e \in c..Len(x) /\ x \in Seq(S)
    BY <1>2
  <2>2. Cut(x, c, e) \in Seq(S) /\ Len(Cut(x, c, e)) = e - c /\ \A i \in 1..(e - c) : Cut(x, c, e)[i] = x[c + i]
    BY <2>1, CutFacts
  <2> QED BY <2>2
<1> HIDE DEF y, z
<1>5. ASSUME NEW i \in 1..(e - c) PROVE y[i] = z[i]
  <2>1. c + i \in 1..(b - a) /\ a + (c + i) = (a + c) + i
    BY <1>1
  <2> QED BY <1>2, <1>3, <1>4, <2>1
<1>6. y = z
  BY <1>3, <1>4, <1>5, SeqEqual
<1> QED BY <1>6 DEF x, y, z

LEMMA CutNone ==
    ASSUME NEW S, NEW s \in Seq(S), NEW a \in 0..Len(s)
    PROVE  Cut(s, a, a) = <<>>
<1>1. Len(s) \in Nat /\ a \in a..Len(s) /\ a \in Nat
  BY LenProperties
<1>2. Cut(s, a, a) \in Seq(S) /\ Len(Cut(s, a, a)) = 0
  BY <1>1, CutFacts
<1> QED BY <1>2, EmptySeq

LEMMA TakeNext ==
    ASSUME NEW S, NEW s \in Seq(S), NEW n \in Nat, n + 1 <= Len(s)
    PROVE  TakeN(s, n + 1) = Append(TakeN(s, n), s[n + 1])
<1>1. Len(s) \in Nat /\ \A i \in 1..Len(s) : s[i] \in S
  BY LenProperties, ElementOfSeq
<1>2. n \in 0..Len(s) /\ n + 1 \in 0..Len(s) /\ n + 1 \in 1..Len(s)
  BY <1>1
<1>3. /\ TakeN(s, n) \in Seq(S) /\ Len(TakeN(s, n)) = n /\ \A i \in 1..n : TakeN(s, n)[i] = s[i]
      /\ TakeN(s, n + 1) \in Seq(S) /\ Len(TakeN(s, n + 1)) = n + 1
      /\ \A i \in 1..(n + 1) : TakeN(s, n + 1)[i] = s[i]
  BY <1>2, TakeFacts
<1> DEFINE a == TakeN(s, n)
           x == s[n + 1]
<1>4. a \in Seq(S) /\ x \in S /\ Len(a) = n
  BY <1>1, <1>2, <1>3
<1> HIDE DEF a, x
<1>5. /\ Append(a, x) \in Seq(S) /\ Len(Append(a, x)) = n + 1
      /\ Append(a, x)[n + 1] = x /\ \A i \in 1..n : Append(a, x)[i] = a[i]
  BY <1>4, AppendProperties
<1>6. \A i \in 1..(n + 1) : TakeN(s, n + 1)[i] = Append(a, x)[i]
  <2> SUFFICES ASSUME NEW i \in 1..(n + 1) PROVE TakeN(s, n + 1)[i] = Append(a, x)[i]
    OBVIOUS
  <2>1. CASE i = n + 1
    BY <1>3, <1>5, <2>1 DEF x
  <2>2. CASE i # n + 1
    <3>1. i \in 1..n
      BY <2>2
    <3> QED BY <1>3, <1>5, <3>1 DEF a
  <2> QED BY <2>1, <2>2
<1>7. TakeN(s, n + 1) = Append(a, x)
  BY <1>3, <1>5, <1>6, SeqEqual
<1> QED BY <1>7 DEF a, x

LEMMA TakeNone ==
    ASSUME NEW S, NEW s \in Seq(S)
    PROVE  TakeN(s, 0) = <<>>
<1>1. Len(s) \in Nat
  BY LenProperties
<1>2. TakeN(s, 0) \in Seq(S) /\ Len(TakeN(s, 0)) = 0
  BY <1>1, TakeFacts
<1> QED BY <1>2, EmptySeq

-----------------------------------------------------------------------------
(* A sequence with each of its quotes twice: off[j] of its elements are     *)
(* those of the first j elements of field.                                  *)
QuotesTwice(field) ==
    FlattenSeq([i \in DOMAIN field |-> IF field[i] = "quote" THEN <<"quote", "quote">> ELSE <<field[i]>>])

IsDoubled(S, field, raw, off) ==
    /\ raw \in Seq(S) /\ off \in [0..Len(field) -> Nat]
    /\ off[0] = 0 /\ off[Len(field)] = Len(raw)
    /\ \A j \in 1..Len(field) :
          IF field[j] = "quote"
          THEN /\ off[j] = off[j - 1] + 2
               /\ raw[off[j - 1] + 1] = "quote" /\ raw[off[j - 1] + 2] = "quote"
          ELSE /\ off[j] = off[j - 1] + 1
               /\ raw[off[j - 1] + 1] = field[j]

LEMMA QuotesTwiceIs ==
    ASSUME NEW S, "quote" \in S, NEW field \in Seq(S)
    PROVE  \E off : IsDoubled(S, field, QuotesTwice(field), off)
<1> DEFINE Pair(b) == IF b = "quote" THEN <<"quote", "quote">> ELSE <<b>>
           pairs == [i \in 1..Len(field) |-> Pair(field[i])]
           off == [j \in 0..Len(field) |-> Len(FlatTo(pairs, j))]
<1>1. /\ Len(field) \in Nat /\ DOMAIN field = 1..Len(field)
      /\ \A i \in 1..Len(field) : field[i] \in S
  BY LenProperties, ElementOfSeq
<1>2. \A i \in 1..Len(field) :
        /\ Pair(field[i]) \in Seq(S)
        /\ field[i] = "quote" => Len(Pair(field[i])) = 2 /\ Pair(field[i])[1] = "quote" /\ Pair(field[i])[2] = "quote"
        /\ field[i] # "quote" => Len(Pair(field[i])) = 1 /\ Pair(field[i])[1] = field[i]
  BY <1>1
<1>3. QuotesTwice(field) = FlattenSeq(pairs)
  BY <1>1, Zenon DEF QuotesTwice
<1> HIDE DEF Pair
<1>4. pairs \in [1..Len(field) -> Seq(S)] /\ \A i \in 1..Len(field) : pairs[i] = Pair(field[i])
  BY <1>2
<1> HIDE DEF pairs
<1>5. pairs \in Seq(Seq(S)) /\ Len(pairs) = Len(field)
  BY <1>1, <1>4, IsASeq, LenProperties
<1>6. FlattenSeq(pairs) \in Seq(S)
  BY <1>5, FlattenType
<1>7. /\ \A n \in 0..Len(field) : Len(FlatTo(pairs, n)) \in Nat
      /\ Len(FlatTo(pairs, 0)) = 0
      /\ Len(FlatTo(pairs, Len(field))) = Len(FlattenSeq(pairs))
      /\ \A n \in 1..Len(field) : Len(FlatTo(pairs, n)) = Len(FlatTo(pairs, n - 1)) + Len(pairs[n])
  BY <1>5, FlatToLen
<1>8. off \in [0..Len(field) -> Nat] /\ off[0] = 0 /\ off[Len(field)] = Len(FlattenSeq(pairs))
  BY <1>1, <1>7
<1>9. \A n \in 1..Len(field) : off[n] = off[n - 1] + Len(pairs[n]) /\ off[n - 1] = Len(FlatTo(pairs, n - 1))
  <2> SUFFICES ASSUME NEW n \in 1..Len(field)
               PROVE  off[n] = off[n - 1] + Len(pairs[n]) /\ off[n - 1] = Len(FlatTo(pairs, n - 1))
    OBVIOUS
  <2>1. n \in 0..Len(field) /\ n - 1 \in 0..Len(field)
    BY <1>1
  <2> QED BY <1>7, <2>1
<1> HIDE DEF off
<1>10. \A j \in 1..Len(field) : \A k \in 1..Len(pairs[j]) : FlattenSeq(pairs)[off[j - 1] + k] = pairs[j][k]
  <2> SUFFICES ASSUME NEW j \in 1..Len(field), NEW k \in 1..Len(pairs[j])
               PROVE  FlattenSeq(pairs)[off[j - 1] + k] = pairs[j][k]
    OBVIOUS
  <2>1. FlattenSeq(pairs)[Len(FlatTo(pairs, j - 1)) + k] = pairs[j][k]
    BY <1>5, FlatToHolds
  <2> QED BY <1>9, <2>1
<1> DEFINE raw == FlattenSeq(pairs)
<1> HIDE DEF raw
<1>11. ASSUME NEW j \in 1..Len(field)
       PROVE  IF field[j] = "quote"
              THEN /\ off[j] = off[j - 1] + 2
                   /\ raw[off[j - 1] + 1] = "quote" /\ raw[off[j - 1] + 2] = "quote"
              ELSE /\ off[j] = off[j - 1] + 1
                   /\ raw[off[j - 1] + 1] = field[j]
  <2>1. pairs[j] = Pair(field[j]) /\ off[j] = off[j - 1] + Len(pairs[j])
    BY <1>4, <1>9
  <2>2. \A k \in 1..Len(pairs[j]) : raw[off[j - 1] + k] = pairs[j][k]
    BY <1>10 DEF raw
  <2>3. CASE field[j] = "quote"
    <3>1. Len(pairs[j]) = 2 /\ pairs[j][1] = "quote" /\ pairs[j][2] = "quote"
      BY <1>2, <2>1, <2>3
    <3> QED BY <2>1, <2>2, <2>3, <3>1
  <2>4. CASE field[j] # "quote"
    <3>1. Len(pairs[j]) = 1 /\ pairs[j][1] = field[j]
      BY <1>2, <2>1, <2>4
    <3> QED BY <2>1, <2>2, <2>4, <3>1
  <2> QED BY <2>3, <2>4
<1>12. IsDoubled(S, field, raw, off)
  BY <1>6, <1>8, <1>11 DEF IsDoubled, raw
<1> QED BY <1>3, <1>12, Zenon DEF raw

LEMMA OffsetsGrow ==
    ASSUME NEW S, NEW field \in Seq(S), NEW raw, NEW off, IsDoubled(S, field, raw, off)
    PROVE  /\ Len(field) \in Nat /\ Len(raw) \in Nat
           /\ \A j \in 0..Len(field) : off[j] \in Nat /\ off[j] <= Len(raw) /\ j <= off[j]
           /\ \A j \in 1..Len(field) : off[j - 1] \in Nat /\ off[j - 1] + 1 <= off[j]
<1>1. Len(field) \in Nat /\ Len(raw) \in Nat
  BY LenProperties DEF IsDoubled
<1>2. \A j \in 0..Len(field) : off[j] \in Nat
  BY DEF IsDoubled
<1>3. \A j \in 1..Len(field) : off[j - 1] \in Nat /\ off[j - 1] + 1 <= off[j]
  <2> SUFFICES ASSUME NEW j \in 1..Len(field) PROVE off[j - 1] \in Nat /\ off[j - 1] + 1 <= off[j]
    OBVIOUS
  <2>1. j - 1 \in 0..Len(field) /\ off[j - 1] \in Nat
    BY <1>1, <1>2
  <2>2. off[j] = off[j - 1] + 2 \/ off[j] = off[j - 1] + 1
    BY DEF IsDoubled
  <2> QED BY <2>1, <2>2
<1> DEFINE T == {n \in Nat : n <= Len(field) => off[Len(field) - n] <= Len(raw)}
<1>4. 0 \in T
  <2>1. off[Len(field)] = Len(raw) /\ Len(field) - 0 = Len(field)
    BY <1>1 DEF IsDoubled
  <2> QED BY <1>1, <2>1
<1>5. ASSUME NEW n \in Nat, n \in T PROVE n + 1 \in T
  <2> SUFFICES ASSUME n + 1 <= Len(field) PROVE off[Len(field) - (n + 1)] <= Len(raw)
    OBVIOUS
  <2>1. Len(field) - n \in 1..Len(field) /\ (Len(field) - n) - 1 = Len(field) - (n + 1) /\ n <= Len(field)
    BY <1>1
  <2>2. off[Len(field) - n] <= Len(raw) /\ off[Len(field) - n] \in Nat
    BY <1>2, <1>5, <2>1
  <2>3. off[Len(field) - (n + 1)] \in Nat /\ off[Len(field) - (n + 1)] + 1 <= off[Len(field) - n]
    BY <1>3, <2>1
  <2> QED BY <1>1, <2>2, <2>3
<1> DEFINE U == {n \in Nat : n <= Len(field) => n <= off[n]}
<1>6. 0 \in U
  BY <1>1, <1>2
<1>7. ASSUME NEW n \in Nat, n \in U PROVE n + 1 \in U
  <2> SUFFICES ASSUME n + 1 <= Len(field) PROVE n + 1 <= off[n + 1]
    OBVIOUS
  <2>1. n + 1 \in 1..Len(field) /\ (n + 1) - 1 = n /\ n + 1 \in 0..Len(field) /\ n \in 0..Len(field)
    BY <1>1
  <2>2. off[n] \in Nat /\ off[n] + 1 <= off[n + 1] /\ off[n + 1] \in Nat
    BY <1>2, <1>3, <2>1
  <2>3. n <= off[n]
    BY <1>1, <1>7, <2>1
  <2> QED BY <2>2, <2>3
<1> HIDE DEF T, U
<1>8. Nat \subseteq T /\ Nat \subseteq U
  BY <1>4, <1>5, <1>6, <1>7, Induction
<1>9. ASSUME NEW j \in 0..Len(field) PROVE off[j] <= Len(raw) /\ j <= off[j]
  <2>1. Len(field) - j \in T /\ j \in U /\ Len(field) - (Len(field) - j) = j
    BY <1>1, <1>8
  <2>2. Len(field) - j \in Nat /\ Len(field) - j <= Len(field) /\ j \in Nat
    BY <1>1
  <2> QED BY <2>1, <2>2 DEF T, U
<1> QED BY <1>1, <1>2, <1>3, <1>9

(* The second of each pair of quotes, and what is kept without them: two    *)
(* functions that are defined by recursion, and the values they have.       *)
IsSecond(f, raw) ==
    f = [i \in 0..Len(raw) |->
            /\ i > 1
            /\ raw[i] = "quote"
            /\ raw[i - 1] = "quote"
            /\ ~f[i - 1]]

IsThinned(g, f, raw) ==
    g = [i \in 0..Len(raw) |->
            IF i = 0 THEN <<>>
            ELSE IF f[i] THEN g[i - 1] ELSE Append(g[i - 1], raw[i])]

LEMMA SecondExists ==
    ASSUME NEW raw, Len(raw) \in Nat
    PROVE  \E f : IsSecond(f, raw)
<1> DEFINE N == Len(raw)
           step == [x \in BOOLEAN \X (1..N) |->
                       x[2] > 1 /\ raw[x[2]] = "quote" /\ raw[x[2] - 1] = "quote" /\ ~x[1]]
<1>1. step \in [BOOLEAN \X (1..N) -> BOOLEAN]
  BY Zenon
<1>2. FALSE \in BOOLEAN /\ N \in Nat
  OBVIOUS
<1> DEFINE A == BOOLEAN
           base == FALSE
<1>3. A = BOOLEAN /\ base \in A /\ step \in [A \X (1..N) -> A]
  BY <1>1, <1>2
<1> HIDE DEF A, base, step
<1>4. PICK f \in [0..N -> A] : IsRecursive(f, base, N, step)
  BY <1>2, <1>3, RecursionExists
<1>5. \A n \in 0..N : f[n] = IF n = 0 THEN base ELSE step[<<f[n - 1], n>>]
  BY <1>4 DEF IsRecursive
<1>6. ASSUME NEW n \in 0..N
      PROVE  f[n] = (n > 1 /\ raw[n] = "quote" /\ raw[n - 1] = "quote" /\ ~f[n - 1])
  <2>1. CASE n = 0
    <3>1. f[n] = FALSE
      BY <1>5, <2>1 DEF base
    <3>2. ~(n > 1)
      BY <2>1
    <3> QED BY <3>1, <3>2, Zenon
  <2>2. CASE n # 0
    <3>1. n \in 1..N /\ n - 1 \in 0..N
      BY <1>2, <2>2
    <3>2. f[n] = step[<<f[n - 1], n>>] /\ f[n - 1] \in BOOLEAN
      BY <1>3, <1>4, <1>5, <2>2, <3>1
    <3>3. <<f[n - 1], n>> \in BOOLEAN \X (1..N)
      BY <3>1, <3>2
    <3> DEFINE x == <<f[n - 1], n>>
    <3>4. x[1] = f[n - 1] /\ x[2] = n
      OBVIOUS
    <3> HIDE DEF x
    <3>5. step[x] = (x[2] > 1 /\ raw[x[2]] = "quote" /\ raw[x[2] - 1] = "quote" /\ ~x[1])
      BY <3>3, Zenon DEF x, step
    <3> QED BY <3>2, <3>4, <3>5, Zenon DEF x
  <2> QED BY <2>1, <2>2
<1>7. f = [n \in 0..N |-> f[n]]
  BY <1>4
<1>8. f = [n \in 0..N |-> n > 1 /\ raw[n] = "quote" /\ raw[n - 1] = "quote" /\ ~f[n - 1]]
  BY <1>6, <1>7, Zenon
<1> QED BY <1>8, Zenon DEF IsSecond

LEMMA ThinnedExists ==
    ASSUME NEW S, NEW raw \in Seq(S), NEW f
    PROVE  \E g : IsThinned(g, f, raw)
<1> DEFINE N == Len(raw)
           A == Seq(S)
           step == [x \in A \X (1..N) |-> IF f[x[2]] THEN x[1] ELSE Append(x[1], raw[x[2]])]
<1>1. N \in Nat /\ \A i \in 1..N : raw[i] \in S
  BY LenProperties, ElementOfSeq
<1>2. ASSUME NEW x \in A \X (1..N)
      PROVE  (IF f[x[2]] THEN x[1] ELSE Append(x[1], raw[x[2]])) \in A
  <2>1. x[1] \in Seq(S) /\ raw[x[2]] \in S
    BY <1>1
  <2>2. Append(x[1], raw[x[2]]) \in Seq(S)
    BY <2>1, AppendProperties
  <2> QED BY <2>1, <2>2
<1>3. step \in [A \X (1..N) -> A]
  BY <1>2, Zenon
<1>4. <<>> \in A
  OBVIOUS
<1> HIDE DEF A, step
<1>5. PICK g \in [0..N -> A] : IsRecursive(g, <<>>, N, step)
  BY <1>1, <1>3, <1>4, RecursionExists
<1>6. \A n \in 0..N : g[n] = IF n = 0 THEN <<>> ELSE step[<<g[n - 1], n>>]
  BY <1>5, Zenon DEF IsRecursive
<1>7. ASSUME NEW n \in 0..N
      PROVE  g[n] = IF n = 0 THEN <<>> ELSE IF f[n] THEN g[n - 1] ELSE Append(g[n - 1], raw[n])
  <2>1. CASE n = 0
    BY <1>6, <2>1
  <2>2. CASE n # 0
    <3>1. n \in 1..N /\ n - 1 \in 0..N
      BY <1>1, <2>2
    <3>2. g[n] = step[<<g[n - 1], n>>] /\ g[n - 1] \in A
      BY <1>5, <1>6, <2>2, <3>1
    <3> DEFINE x == <<g[n - 1], n>>
    <3>3. x \in A \X (1..N) /\ x[1] = g[n - 1] /\ x[2] = n
      BY <3>1, <3>2
    <3> HIDE DEF x
    <3>4. step[x] = IF f[x[2]] THEN x[1] ELSE Append(x[1], raw[x[2]])
      BY <3>3, Zenon DEF step
    <3> QED BY <2>2, <3>2, <3>3, <3>4 DEF x
  <2> QED BY <2>1, <2>2
<1>8. g = [n \in 0..N |-> g[n]]
  BY <1>5
<1>9. g = [n \in 0..N |-> IF n = 0 THEN <<>> ELSE IF f[n] THEN g[n - 1] ELSE Append(g[n - 1], raw[n])]
  BY <1>7, <1>8
<1> QED BY <1>9, Zenon DEF IsThinned

LEMMA SecondValues ==
    ASSUME NEW raw, Len(raw) \in Nat, NEW f, IsSecond(f, raw), NEW i \in 0..Len(raw)
    PROVE  f[i] <=> i > 1 /\ raw[i] = "quote" /\ raw[i - 1] = "quote" /\ ~f[i - 1]
<1> DEFINE h == [j \in 0..Len(raw) |-> j > 1 /\ raw[j] = "quote" /\ raw[j - 1] = "quote" /\ ~f[j - 1]]
<1>1. h[i] <=> i > 1 /\ raw[i] = "quote" /\ raw[i - 1] = "quote" /\ ~f[i - 1]
  BY Zenon
<1>2. f = h
  BY Zenon DEF IsSecond
<1> HIDE DEF h
<1>3. f[i] = h[i]
  BY <1>2
<1> QED BY <1>1, <1>3, Zenon

LEMMA ThinnedValues ==
    ASSUME NEW raw, Len(raw) \in Nat, NEW f, NEW g, IsThinned(g, f, raw)
    PROVE  /\ g[0] = <<>>
           /\ \A i \in 1..Len(raw) : /\ f[i] => g[i] = g[i - 1]
                                     /\ ~f[i] => g[i] = Append(g[i - 1], raw[i])
<1> DEFINE h == [i \in 0..Len(raw) |->
                   IF i = 0 THEN <<>> ELSE IF f[i] THEN g[i - 1] ELSE Append(g[i - 1], raw[i])]
<1>1. \A i \in 0..Len(raw) : h[i] = IF i = 0 THEN <<>> ELSE IF f[i] THEN g[i - 1] ELSE Append(g[i - 1], raw[i])
  BY Zenon
<1>2. g = h
  BY Zenon DEF IsThinned
<1> HIDE DEF h
<1>3. \A i \in 0..Len(raw) : g[i] = IF i = 0 THEN <<>> ELSE IF f[i] THEN g[i - 1] ELSE Append(g[i - 1], raw[i])
  BY <1>1, <1>2
<1>4. 0 \in 0..Len(raw) /\ \A i \in 1..Len(raw) : i \in 0..Len(raw) /\ i # 0
  OBVIOUS
<1> QED BY <1>3, <1>4, Zenon

(* The one takes back the other, for any field: pairs of quotes, quotes at  *)
(* either end.                                                              *)
LEMMA SecondsDropped ==
    ASSUME NEW S, NEW field \in Seq(S), NEW raw, NEW off, IsDoubled(S, field, raw, off),
           NEW f, NEW g, IsSecond(f, raw), IsThinned(g, f, raw)
    PROVE  g[Len(raw)] = field
<1>1. /\ Len(field) \in Nat /\ Len(raw) \in Nat
      /\ \A j \in 0..Len(field) : off[j] \in Nat /\ off[j] <= Len(raw) /\ j <= off[j]
      /\ \A j \in 1..Len(field) : off[j - 1] \in Nat /\ off[j - 1] + 1 <= off[j]
  BY OffsetsGrow
<1>2. raw \in Seq(S) /\ off[0] = 0 /\ off[Len(field)] = Len(raw)
      /\ \A j \in 1..Len(field) :
            IF field[j] = "quote"
            THEN /\ off[j] = off[j - 1] + 2
                 /\ raw[off[j - 1] + 1] = "quote" /\ raw[off[j - 1] + 2] = "quote"
            ELSE /\ off[j] = off[j - 1] + 1
                 /\ raw[off[j - 1] + 1] = field[j]
  BY Zenon DEF IsDoubled
<1>3. \A i \in 0..Len(raw) : f[i] <=> i > 1 /\ raw[i] = "quote" /\ raw[i - 1] = "quote" /\ ~f[i - 1]
  BY <1>1, SecondValues
<1>4. /\ g[0] = <<>>
      /\ \A i \in 1..Len(raw) : /\ f[i] => g[i] = g[i - 1]
                                /\ ~f[i] => g[i] = Append(g[i - 1], raw[i])
  BY <1>1, ThinnedValues
<1> DEFINE T == {j \in Nat : j <= Len(field) =>
                    /\ f[off[j]] <=> j > 0 /\ field[j] = "quote"
                    /\ j > 0 /\ off[j] > 0 /\ field[j] # "quote" => raw[off[j]] # "quote"
                    /\ g[off[j]] = TakeN(field, j)}
<1>5. 0 \in T
  <2>1. TakeN(field, 0) = <<>>
    BY TakeNone
  <2>2. ~f[0]
    <3>1. 0 \in 0..Len(raw) /\ ~(0 > 1)
      BY <1>1
    <3> QED BY <1>3, <3>1, Zenon
  <2> QED BY <1>2, <1>4, <2>1, <2>2
<1>6. ASSUME NEW j \in Nat, j \in T PROVE j + 1 \in T
  <2> SUFFICES ASSUME j + 1 <= Len(field)
               PROVE  /\ f[off[j + 1]] <=> field[j + 1] = "quote"
                      /\ field[j + 1] # "quote" => raw[off[j + 1]] # "quote"
                      /\ g[off[j + 1]] = TakeN(field, j + 1)
    OBVIOUS
  <2> DEFINE o == off[j]
  <2>1. j + 1 \in 1..Len(field) /\ (j + 1) - 1 = j /\ j \in 0..Len(field) /\ j + 1 \in 0..Len(field)
    BY <1>1
  <2>2. /\ f[o] <=> j > 0 /\ field[j] = "quote"
        /\ j > 0 /\ o > 0 /\ field[j] # "quote" => raw[o] # "quote"
        /\ g[o] = TakeN(field, j)
    BY <1>1, <1>6, <2>1
  <2>3. o \in Nat /\ j <= o /\ off[j + 1] \in Nat /\ off[j + 1] <= Len(raw) /\ (j = 0 => o = 0)
    BY <1>1, <1>2, <2>1
  <2>4. TakeN(field, j + 1) = Append(TakeN(field, j), field[j + 1])
    BY TakeNext
  <2>5. CASE field[j + 1] = "quote"
    <3>1. off[j + 1] = o + 2 /\ raw[o + 1] = "quote" /\ raw[o + 2] = "quote"
      BY <1>2, <2>1, <2>5
    <3> HIDE DEF o
    <3>2. o + 1 \in 0..Len(raw) /\ o + 2 \in 0..Len(raw) /\ o + 1 \in 1..Len(raw) /\ o + 2 \in 1..Len(raw)
          /\ (o + 1) - 1 = o /\ (o + 2) - 1 = o + 1 /\ o + 2 > 1 /\ (o = 0 => ~(o + 1 > 1))
      <4>1. o \in Nat /\ o + 2 <= Len(raw) /\ Len(raw) \in Nat
        BY <1>1, <2>3, <3>1
      <4> QED BY <4>1
    <3>3. f[o + 1] <=> o + 1 > 1 /\ raw[o + 1] = "quote" /\ raw[o] = "quote" /\ ~f[o]
      BY <1>3, <3>2
    <3>4. ~f[o + 1]
      <4>1. CASE o = 0
        BY <3>2, <3>3, <4>1, Zenon
      <4>2. CASE o # 0
        <5>1. j > 0 /\ o > 0
          BY <2>3, <4>2 DEF o
        <5> QED BY <2>2, <3>3, <5>1, Zenon
      <4> QED BY <4>1, <4>2
    <3>5. f[o + 2] <=> o + 2 > 1 /\ raw[o + 2] = "quote" /\ raw[o + 1] = "quote" /\ ~f[o + 1]
      BY <1>3, <3>2
    <3>6. f[o + 2]
      BY <3>1, <3>2, <3>4, <3>5, Zenon
    <3>7. g[o + 1] = Append(g[o], raw[o + 1])
      BY <1>4, <3>2, <3>4
    <3>8. g[o + 2] = g[o + 1]
      BY <1>4, <3>2, <3>6
    <3>9. g[o + 2] = TakeN(field, j + 1)
      BY <2>2, <2>4, <2>5, <3>1, <3>7, <3>8 DEF o
    <3> QED BY <2>5, <3>1, <3>6, <3>9
  <2>6. CASE field[j + 1] # "quote"
    <3>1. off[j + 1] = o + 1 /\ raw[o + 1] = field[j + 1]
      BY <1>2, <2>1, <2>6
    <3> HIDE DEF o
    <3>2. o + 1 \in 0..Len(raw) /\ o + 1 \in 1..Len(raw) /\ (o + 1) - 1 = o
      BY <1>1, <2>3, <3>1 DEF o
    <3>3. f[o + 1] <=> o + 1 > 1 /\ raw[o + 1] = "quote" /\ raw[o] = "quote" /\ ~f[o]
      BY <1>3, <3>2
    <3>4. ~f[o + 1]
      BY <2>6, <3>1, <3>3, Zenon
    <3>5. g[o + 1] = Append(g[o], raw[o + 1])
      BY <1>4, <3>2, <3>4
    <3>6. g[o + 1] = TakeN(field, j + 1)
      BY <2>2, <2>4, <3>1, <3>5 DEF o
    <3> QED BY <2>6, <3>1, <3>4, <3>6
  <2> QED BY <2>5, <2>6
<1> HIDE DEF T
<1>7. Len(field) \in T
  BY <1>1, <1>5, <1>6, Induction
<1>8. g[off[Len(field)]] = TakeN(field, Len(field))
  BY <1>1, <1>7 DEF T
<1> QED BY <1>2, <1>8, TakeAll

LEMMA QuotesAround ==
    ASSUME NEW S, "quote" \in S, NEW raw \in Seq(S)
    PROVE  LET e == <<"quote">> \o raw \o <<"quote">>
           IN  /\ e \in Seq(S) /\ Len(e) = Len(raw) + 2 /\ Len(raw) \in Nat
               /\ e[1] = "quote" /\ e[Len(raw) + 2] = "quote"
               /\ \A i \in 1..Len(raw) : e[1 + i] = raw[i]
<1> DEFINE q == <<"quote">>
           a == q \o raw
<1>1. q \in Seq(S) /\ Len(q) = 1 /\ q[1] = "quote" /\ Len(raw) \in Nat
  BY LenProperties
<1> HIDE DEF q
<1>2. /\ a \in Seq(S) /\ Len(a) = Len(q) + Len(raw)
      /\ \A i \in 1..(Len(q) + Len(raw)) : a[i] = IF i <= Len(q) THEN q[i] ELSE raw[i - Len(q)]
  BY <1>1, ConcatProperties
<1> HIDE DEF a
<1> DEFINE e == a \o q
<1>3. /\ e \in Seq(S) /\ Len(e) = Len(a) + Len(q)
      /\ \A i \in 1..(Len(a) + Len(q)) : e[i] = IF i <= Len(a) THEN a[i] ELSE q[i - Len(a)]
  <2>1. a \in Seq(S) /\ q \in Seq(S)
    BY <1>1, <1>2
  <2> QED BY <2>1, ConcatProperties
<1> HIDE DEF e
<1>4. Len(e) = Len(raw) + 2 /\ e[1] = "quote" /\ e[Len(raw) + 2] = "quote"
  <2>1. Len(a) = Len(raw) + 1 /\ Len(e) = Len(raw) + 2
    BY <1>1, <1>2, <1>3
  <2>2. e[1] = a[1] /\ a[1] = q[1]
    BY <1>1, <1>2, <1>3, <2>1
  <2>3. e[Len(raw) + 2] = q[1]
    <3>1. Len(raw) + 2 \in 1..(Len(a) + Len(q)) /\ ~(Len(raw) + 2 <= Len(a)) /\ (Len(raw) + 2) - Len(a) = 1
      BY <1>1, <2>1
    <3> QED BY <1>3, <3>1
  <2> QED BY <1>1, <2>1, <2>2, <2>3
<1>5. ASSUME NEW i \in 1..Len(raw) PROVE e[1 + i] = raw[i]
  <2>1. 1 + i \in 1..(Len(a) + Len(q)) /\ 1 + i <= Len(a) /\ 1 + i \in 1..(Len(q) + Len(raw))
        /\ ~(1 + i <= Len(q)) /\ (1 + i) - Len(q) = i
    BY <1>1, <1>2
  <2> QED BY <1>2, <1>3, <2>1
<1> QED BY <1>1, <1>3, <1>4, <1>5 DEF e, a, q
=============================================================================
