-------------------------- MODULE RowStorageProofs --------------------------
(***************************************************************************)
(* Whatever the parser appends, a reader of a queued row finds the block   *)
(* that holds its field and reads what was parsed.  And whatever a field   *)
(* is asked, it answers as its text promises.                              *)
(***************************************************************************)
EXTENDS RowStorage, FieldValue, SequenceLemmas

-----------------------------------------------------------------------------
(* The chunk, by the places where its fields and rows begin. *)
FieldSet == [raw : Nat, pairs : Nat]
CharSet == Nat \X Nat
ByteSet == {"quote", "separator"} \cup CharSet
N == Len(Parsed)
Pieces == [f \in DOMAIN Parsed |-> Append(Bytes(f), "separator")]
Begin(f) == Len(FlatTo(Pieces, f - 1))
RowEnd(i) == Len(FlatTo(source.rows, i))

(* The field f is in the row that comes after n fields. *)
InRow(f, n) == \E i \in DOMAIN source.rows : RowEnd(i - 1) = n /\ n < f /\ f <= RowEnd(i)

LEMMA RowsType ==
  ASSUME source \in Sources
  PROVE  /\ source.rows \in Seq(Seq(FieldSet)) /\ source.inserted \in BOOLEAN
         /\ Parsed \in Seq(FieldSet) /\ N \in Nat /\ N = Len(Parsed) /\ DOMAIN Parsed = 1..N
         /\ Len(source.rows) \in Nat /\ DOMAIN source.rows = 1..Len(source.rows)
<1>1. source.rows \in Seq(Seq(FieldSet)) /\ source.inserted \in BOOLEAN
  BY StorageAssumption DEF FieldSet
<1>2. Parsed \in Seq(FieldSet)
  BY <1>1, FlattenType DEF Parsed
<1> QED BY <1>1, <1>2, LenProperties DEF N

LEMMA RowEnds ==
  ASSUME source \in Sources
  PROVE  /\ RowEnd(0) = 0 /\ RowEnd(Len(source.rows)) = N
         /\ \A i \in 0..Len(source.rows) : RowEnd(i) \in 0..N
         /\ \A i \in 1..Len(source.rows) : RowEnd(i) = RowEnd(i - 1) + Len(source.rows[i])
         /\ \A i, j \in 0..Len(source.rows) : i <= j => RowEnd(i) <= RowEnd(j)
<1>1. source.rows \in Seq(Seq(FieldSet)) /\ Len(source.rows) \in Nat /\ N \in Nat
  BY RowsType
<1>2. /\ \A n \in 0..Len(source.rows) : Len(FlatTo(source.rows, n)) \in Nat
      /\ Len(FlatTo(source.rows, 0)) = 0
      /\ Len(FlatTo(source.rows, Len(source.rows))) = Len(FlattenSeq(source.rows))
      /\ \A n \in 1..Len(source.rows) :
            Len(FlatTo(source.rows, n)) = Len(FlatTo(source.rows, n - 1)) + Len(source.rows[n])
  BY <1>1, FlatToLen
<1>3. \A i, j \in 0..Len(source.rows) : i <= j => RowEnd(i) <= RowEnd(j)
  BY <1>1, FlatToGrows DEF RowEnd
<1>4. /\ RowEnd(0) = 0 /\ RowEnd(Len(source.rows)) = N
      /\ \A i \in 0..Len(source.rows) : RowEnd(i) \in Nat
      /\ \A i \in 1..Len(source.rows) : RowEnd(i) = RowEnd(i - 1) + Len(source.rows[i])
  BY <1>2 DEF RowEnd, N, Parsed
<1>5. ASSUME NEW i \in 0..Len(source.rows) PROVE RowEnd(i) \in 0..N
  <2>1. RowEnd(i) <= RowEnd(Len(source.rows)) /\ RowEnd(i) \in Nat
    BY <1>1, <1>3, <1>4
  <2> QED BY <1>1, <1>4, <2>1
<1> QED BY <1>3, <1>4, <1>5

(* Every field is in one row. *)
LEMMA EveryFieldInRow ==
  ASSUME source \in Sources, NEW f \in 1..N
  PROVE  \E i \in 1..Len(source.rows) : RowEnd(i - 1) < f /\ f <= RowEnd(i)
<1> DEFINE T == {i \in Nat : i <= Len(source.rows) /\ f <= RowEnd(i)}
<1>1. /\ Len(source.rows) \in Nat /\ N \in Nat /\ RowEnd(0) = 0 /\ RowEnd(Len(source.rows)) = N
      /\ \A i \in 0..Len(source.rows) : RowEnd(i) \in 0..N
  BY RowsType, RowEnds
<1>2. Len(source.rows) \in T /\ T \subseteq Nat
  BY <1>1
<1>3. PICK i \in T : \A k \in T : i <= k
  BY <1>2, LeastNumber
<1>4. i \in 1..Len(source.rows) /\ f <= RowEnd(i)
  BY <1>1, <1>3
<1>5. i - 1 \in Nat /\ i - 1 \notin T /\ i - 1 <= Len(source.rows) /\ RowEnd(i - 1) \in 0..N
  BY <1>1, <1>3, <1>4
<1>6. RowEnd(i - 1) < f
  BY <1>1, <1>5
<1> QED BY <1>4, <1>6

LEMMA OneRow ==
  ASSUME source \in Sources, NEW f \in Nat,
         NEW i \in 1..Len(source.rows), RowEnd(i - 1) < f, f <= RowEnd(i),
         NEW j \in 1..Len(source.rows), RowEnd(j - 1) < f, f <= RowEnd(j)
  PROVE  i = j
<1>1. /\ Len(source.rows) \in Nat /\ N \in Nat
      /\ \A m \in 0..Len(source.rows) : RowEnd(m) \in 0..N
      /\ \A m, n \in 0..Len(source.rows) : m <= n => RowEnd(m) <= RowEnd(n)
  BY RowsType, RowEnds
<1>2. /\ i \in 0..Len(source.rows) /\ i - 1 \in 0..Len(source.rows)
      /\ j \in 0..Len(source.rows) /\ j - 1 \in 0..Len(source.rows)
  BY <1>1
<1>3. RowEnd(i) \in Nat /\ RowEnd(i - 1) \in Nat /\ RowEnd(j) \in Nat /\ RowEnd(j - 1) \in Nat
  BY <1>1, <1>2
<1>4. ~(i < j)
  <2>1. i < j => RowEnd(i) <= RowEnd(j - 1)
    BY <1>1, <1>2
  <2> QED BY <1>3, <2>1
<1>5. ~(j < i)
  <2>1. j < i => RowEnd(j) <= RowEnd(i - 1)
    BY <1>1, <1>2
  <2> QED BY <1>3, <2>1
<1> QED BY <1>1, <1>4, <1>5

LEMMA OneStart ==
  ASSUME source \in Sources, NEW f \in Nat, NEW m, NEW n, InRow(f, m), InRow(f, n)
  PROVE  m = n
<1>1. DOMAIN source.rows = 1..Len(source.rows)
  BY RowsType
<1>2. PICK i \in 1..Len(source.rows) : RowEnd(i - 1) = m /\ m < f /\ f <= RowEnd(i)
  BY <1>1 DEF InRow
<1>3. PICK j \in 1..Len(source.rows) : RowEnd(j - 1) = n /\ n < f /\ f <= RowEnd(j)
  BY <1>1 DEF InRow
<1>4. i = j
  BY <1>2, <1>3, OneRow
<1> QED BY <1>2, <1>3, <1>4

(* What the code takes for the row of f. *)
LEMMA RowOfFacts ==
  ASSUME source \in Sources, NEW f \in 1..N
  PROVE  /\ RowOf(f) \in 1..Len(source.rows)
         /\ RowEnd(RowOf(f) - 1) < f /\ f <= RowEnd(RowOf(f))
         /\ RowEnd(RowOf(f) - 1) \in 0..N /\ RowEnd(RowOf(f)) \in 0..N
         /\ InRow(f, RowEnd(RowOf(f) - 1))
<1>1. /\ Len(source.rows) \in Nat /\ DOMAIN source.rows = 1..Len(source.rows) /\ N \in Nat
      /\ \A i \in 0..Len(source.rows) : RowEnd(i) \in 0..N
  BY RowsType, RowEnds
<1>2. PICK i \in 1..Len(source.rows) : RowEnd(i - 1) < f /\ f <= RowEnd(i)
  BY EveryFieldInRow
<1>3. \A j \in 1..Len(source.rows) : j \in 0..Len(source.rows) /\ j - 1 \in 0..Len(source.rows)
  BY <1>1
<1>4. \E j \in DOMAIN source.rows :
         /\ f > Len(FlattenSeq(SubSeq(source.rows, 1, j - 1)))
         /\ f <= Len(FlattenSeq(SubSeq(source.rows, 1, j)))
  <2>1. RowEnd(i - 1) \in Nat /\ RowEnd(i) \in Nat /\ f \in Nat
    BY <1>1, <1>3
  <2>2. f > RowEnd(i - 1) /\ f <= RowEnd(i) /\ i \in DOMAIN source.rows
    BY <1>1, <1>2, <2>1
  <2> QED BY <2>2 DEF RowEnd, FlatTo
<1>5. /\ RowOf(f) \in DOMAIN source.rows
      /\ f > Len(FlattenSeq(SubSeq(source.rows, 1, RowOf(f) - 1)))
      /\ f <= Len(FlattenSeq(SubSeq(source.rows, 1, RowOf(f))))
  BY <1>4, Zenon DEF RowOf
<1> DEFINE row == RowOf(f)
<1>6. row \in DOMAIN source.rows /\ f > RowEnd(row - 1) /\ f <= RowEnd(row)
  BY <1>5 DEF RowEnd, FlatTo
<1> HIDE DEF row
<1>7. row \in 1..Len(source.rows) /\ RowEnd(row - 1) \in 0..N /\ RowEnd(row) \in 0..N
  BY <1>1, <1>3, <1>6
<1>8. RowEnd(row - 1) < f
  BY <1>1, <1>6, <1>7
<1>9. InRow(f, RowEnd(row - 1))
  BY <1>6, <1>8 DEF InRow
<1> QED BY <1>6, <1>7, <1>8, <1>9 DEF row

(* Half of a text at most is left out. *)
LEMMA FieldFacts ==
  ASSUME source \in Sources, NEW f \in 1..N
  PROVE  /\ Parsed[f] \in FieldSet /\ Parsed[f].raw \in Nat /\ Parsed[f].pairs \in Nat
         /\ 2 * Parsed[f].pairs <= Parsed[f].raw
         /\ Quoted(f) \in BOOLEAN /\ Realized(f) \in BOOLEAN
         /\ Quoted(f) => Realized(f)
         /\ ~Realized(f) => Parsed[f].pairs = 0
<1>1. /\ source.rows \in Seq(Seq(FieldSet)) /\ source.inserted \in BOOLEAN
      /\ Parsed \in Seq(FieldSet) /\ N \in Nat /\ N = Len(Parsed)
      /\ Len(source.rows) \in Nat /\ DOMAIN source.rows = 1..Len(source.rows)
  BY RowsType
<1>2. Parsed[f] \in FieldSet
  BY <1>1, ElementOfSeq
<1>3. PICK i \in 1..Len(source.rows) : RowEnd(i - 1) < f /\ f <= RowEnd(i)
  BY EveryFieldInRow
<1> DEFINE c == f - RowEnd(i - 1)
<1>4. source.rows[i] \in Seq(FieldSet) /\ Len(source.rows[i]) \in Nat
  <2>1. source.rows[i] \in Seq(FieldSet)
    BY <1>1, ElementOfSeq
  <2> QED BY <2>1, LenProperties
<1>5. /\ i - 1 \in 0..Len(source.rows) /\ RowEnd(i - 1) \in Nat
      /\ RowEnd(i) = RowEnd(i - 1) + Len(source.rows[i])
  <2>1. i - 1 \in 0..Len(source.rows)
    BY <1>1
  <2>2. /\ \A m \in 0..Len(source.rows) : RowEnd(m) \in 0..N
        /\ \A m \in 1..Len(source.rows) : RowEnd(m) = RowEnd(m - 1) + Len(source.rows[m])
    BY RowEnds
  <2>3. RowEnd(i - 1) \in 0..N
    BY <2>1, <2>2
  <2> QED BY <1>1, <2>1, <2>2, <2>3
<1>6. c \in 1..Len(source.rows[i]) /\ RowEnd(i - 1) + c = f
  <2> DEFINE e == RowEnd(i - 1)
             n == Len(source.rows[i])
  <2>1. e \in Nat /\ n \in Nat /\ e < f /\ f <= e + n /\ f \in Nat /\ c = f - e
    BY <1>1, <1>3, <1>4, <1>5
  <2> HIDE DEF e, n, c
  <2>2. c \in 1..n /\ e + c = f
    BY <2>1
  <2> QED BY <2>2 DEF e, n
<1> HIDE DEF c
<1>7. FlattenSeq(source.rows)[Len(FlatTo(source.rows, i - 1)) + c] = source.rows[i][c]
  BY <1>1, <1>6, FlatToHolds
<1>8. Parsed[f] = source.rows[i][c]
  BY <1>6, <1>7 DEF Parsed, RowEnd
<1>9. c \in DOMAIN source.rows[i] /\ i \in DOMAIN source.rows
  BY <1>1, <1>4, <1>6, LenProperties
<1>10. 2 * Parsed[f].pairs <= Parsed[f].raw
  BY <1>8, <1>9, StorageAssumption
<1>11. Parsed[f].raw \in Nat /\ Parsed[f].pairs \in Nat
  BY <1>2 DEF FieldSet
<1> QED BY <1>1, <1>2, <1>10, <1>11 DEF Quoted, Realized

LEMMA TextFacts ==
  ASSUME source \in Sources, NEW f \in 1..N
  PROVE  /\ Text(f) \in Seq(CharSet) /\ Len(Text(f)) \in Nat
         /\ Len(Text(f)) = Parsed[f].raw - Parsed[f].pairs
         /\ Len(Text(f)) <= Parsed[f].raw
         /\ \A k \in 1..Len(Text(f)) : Text(f)[k] = <<f, k>>
         /\ Len(Text(f)) = 0 => Text(f) = <<>>
         /\ Parsed[f].raw > 0 <=> Len(Text(f)) > 0
<1> DEFINE n == Parsed[f].raw - Parsed[f].pairs
<1>1. /\ n \in Nat /\ n <= Parsed[f].raw /\ (Parsed[f].raw > 0 <=> n > 0) /\ f \in Nat
  BY FieldFacts, RowsType
<1> HIDE DEF n
<1>2. Text(f) = [k \in 1..n |-> <<f, k>>]
  BY DEF Text, n
<1>3. \A k \in 1..n : <<f, k>> \in CharSet
  BY <1>1 DEF CharSet
<1>4. Text(f) \in [1..n -> CharSet]
  BY <1>2, <1>3
<1>5. Text(f) \in Seq(CharSet)
  BY <1>1, <1>4, SeqDef
<1>6. Len(Text(f)) = n
  BY <1>1, <1>4, <1>5, LenProperties
<1>7. \A k \in 1..n : Text(f)[k] = <<f, k>>
  BY <1>2
<1>8. Len(Text(f)) = 0 => Text(f) = <<>>
  BY <1>5, EmptySeq
<1> QED BY <1>1, <1>5, <1>6, <1>7, <1>8 DEF n

LEMMA BytesFacts ==
  ASSUME source \in Sources, NEW f \in 1..N
  PROVE  /\ Bytes(f) \in Seq(ByteSet) /\ Len(Bytes(f)) \in Nat
         /\ Len(Bytes(f)) = Parsed[f].raw + (IF Quoted(f) THEN 2 ELSE 0)
         /\ ~Quoted(f) => \A k \in 1..Parsed[f].raw : Bytes(f)[k] = <<f, k>>
<1> DEFINE n == Parsed[f].raw
           raw == [k \in 1..n |-> <<f, k>>]
           q == <<"quote">>
<1>1. n \in Nat /\ f \in Nat
  BY FieldFacts, RowsType
<1>2. \A k \in 1..n : <<f, k>> \in ByteSet
  BY <1>1 DEF ByteSet, CharSet
<1>3. raw \in [1..n -> ByteSet]
  BY <1>2
<1>4. raw \in Seq(ByteSet) /\ Len(raw) = n /\ \A k \in 1..n : raw[k] = <<f, k>>
  <2>1. raw \in Seq(ByteSet)
    BY <1>1, <1>3, SeqDef
  <2> QED BY <1>1, <1>3, <2>1, LenProperties
<1>5. q \in Seq(ByteSet) /\ Len(q) = 1
  BY DEF ByteSet
<1>6. Bytes(f) = IF Quoted(f) THEN q \o raw \o q ELSE raw
  BY DEF Bytes
<1> HIDE DEF raw, q, n
<1>7. q \o raw \in Seq(ByteSet) /\ Len(q \o raw) = n + 1
  <2>1. q \o raw \in Seq(ByteSet) /\ Len(q \o raw) = Len(q) + Len(raw)
    BY <1>4, <1>5, ConcatProperties
  <2> QED BY <1>1, <1>4, <1>5, <2>1
<1>8. (q \o raw) \o q \in Seq(ByteSet) /\ Len((q \o raw) \o q) = n + 2
  <2>1. /\ (q \o raw) \o q \in Seq(ByteSet)
        /\ Len((q \o raw) \o q) = Len(q \o raw) + Len(q)
    BY <1>5, <1>7, ConcatProperties
  <2> QED BY <1>1, <1>5, <1>7, <2>1
<1>9. CASE Quoted(f)
  BY <1>1, <1>6, <1>8, <1>9 DEF n
<1>10. CASE ~Quoted(f)
  BY <1>1, <1>4, <1>6, <1>10 DEF n
<1> QED BY <1>9, <1>10

LEMMA PieceFacts ==
  ASSUME source \in Sources
  PROVE  /\ Pieces \in Seq(Seq(ByteSet)) /\ Len(Pieces) = N
         /\ \A f \in 1..N : /\ Pieces[f] = Append(Bytes(f), "separator")
                            /\ Len(Pieces[f]) = Len(Bytes(f)) + 1
                            /\ \A k \in 1..Len(Bytes(f)) : Pieces[f][k] = Bytes(f)[k]
         /\ Data = FlattenSeq(Pieces)
<1>1. N \in Nat /\ DOMAIN Parsed = 1..N
  BY RowsType
<1>2. ASSUME NEW f \in 1..N
      PROVE  /\ Append(Bytes(f), "separator") \in Seq(ByteSet)
             /\ Len(Append(Bytes(f), "separator")) = Len(Bytes(f)) + 1
             /\ \A k \in 1..Len(Bytes(f)) : Append(Bytes(f), "separator")[k] = Bytes(f)[k]
  <2>1. Bytes(f) \in Seq(ByteSet) /\ "separator" \in ByteSet
    BY BytesFacts DEF ByteSet
  <2> QED BY <2>1, AppendProperties
<1>3. Pieces = [f \in 1..N |-> Append(Bytes(f), "separator")]
  BY <1>1 DEF Pieces
<1>4. Pieces \in [1..N -> Seq(ByteSet)]
  BY <1>2, <1>3
<1>5. Pieces \in Seq(Seq(ByteSet))
  BY <1>1, <1>4, SeqDef
<1>6. Len(Pieces) = N
  BY <1>1, <1>4, <1>5, LenProperties
<1>7. Data = FlattenSeq(Pieces)
  BY DEF Data, Pieces
<1>8. \A f \in 1..N : Pieces[f] = Append(Bytes(f), "separator")
  BY <1>3
<1> QED BY <1>2, <1>5, <1>6, <1>7, <1>8
LEMMA BeginFacts ==
  ASSUME source \in Sources
  PROVE  /\ \A f \in 1..(N + 1) : Begin(f) \in Nat
         /\ \A f \in 1..N : Begin(f + 1) = Begin(f) + Len(Bytes(f)) + 1
         /\ \A f, g \in 1..(N + 1) : f <= g => Begin(f) <= Begin(g)
         /\ Begin(1) = 0 /\ Len(Data) = Begin(N + 1)
<1>1. /\ Pieces \in Seq(Seq(ByteSet)) /\ Len(Pieces) = N /\ N \in Nat
      /\ Data = FlattenSeq(Pieces)
      /\ \A f \in 1..N : Len(Pieces[f]) = Len(Bytes(f)) + 1 /\ Len(Bytes(f)) \in Nat
  BY PieceFacts, RowsType, BytesFacts
<1>2. /\ \A n \in 0..N : Len(FlatTo(Pieces, n)) \in Nat
      /\ Len(FlatTo(Pieces, 0)) = 0
      /\ Len(FlatTo(Pieces, N)) = Len(FlattenSeq(Pieces))
      /\ \A n \in 1..N : Len(FlatTo(Pieces, n)) = Len(FlatTo(Pieces, n - 1)) + Len(Pieces[n])
  BY <1>1, FlatToLen
<1>3. \A m, n \in 0..N : m <= n => Len(FlatTo(Pieces, m)) <= Len(FlatTo(Pieces, n))
  BY <1>1, FlatToGrows
<1>4. \A f \in 1..(N + 1) : f - 1 \in 0..N
  BY <1>1
<1>5. \A f \in 1..(N + 1) : Begin(f) \in Nat
  BY <1>2, <1>4 DEF Begin
<1>6. ASSUME NEW f \in 1..N PROVE Begin(f + 1) = Begin(f) + Len(Bytes(f)) + 1
  <2>1. (f + 1) - 1 = f /\ f \in 1..(N + 1)
    BY <1>1
  <2>2. Begin(f + 1) = Begin(f) + Len(Pieces[f])
    BY <1>2, <2>1 DEF Begin
  <2>3. Begin(f) \in Nat
    BY <1>5, <2>1
  <2>4. Len(Pieces[f]) = Len(Bytes(f)) + 1 /\ Len(Bytes(f)) \in Nat
    BY <1>1
  <2> DEFINE a == Begin(f)
             n == Len(Bytes(f))
  <2>5. a \in Nat /\ n \in Nat /\ Begin(f + 1) = a + (n + 1)
    BY <2>2, <2>3, <2>4
  <2> HIDE DEF a, n
  <2>6. Begin(f + 1) = a + n + 1
    BY <2>5
  <2> QED BY <2>6 DEF a, n
<1>7. ASSUME NEW f \in 1..(N + 1), NEW g \in 1..(N + 1), f <= g PROVE Begin(f) <= Begin(g)
  <2>1. f - 1 \in 0..N /\ g - 1 \in 0..N /\ f - 1 <= g - 1
    BY <1>1, <1>7
  <2> QED BY <1>3, <2>1 DEF Begin
<1>8. Begin(1) = 0 /\ Len(Data) = Begin(N + 1)
  <2>1. 1 - 1 = 0 /\ (N + 1) - 1 = N
    BY <1>1
  <2> QED BY <1>1, <1>2, <2>1 DEF Begin
<1> QED BY <1>5, <1>6, <1>7, <1>8

(* Where the code says that the text of f starts. *)
LEMMA StartFacts ==
  ASSUME source \in Sources, NEW f \in 1..N
  PROVE  /\ Start(f) = Begin(f) + (IF Quoted(f) THEN 1 ELSE 0)
         /\ Start(f) - (IF Quoted(f) THEN 1 ELSE 0) = Begin(f)
<1>1. /\ Pieces \in Seq(Seq(ByteSet)) /\ Len(Pieces) = N /\ N \in Nat
      /\ \A g \in 1..N : Pieces[g] = Append(Bytes(g), "separator")
  BY PieceFacts, RowsType
<1> DEFINE some == [g \in 1..(f - 1) |-> Append(Bytes(g), "separator")]
           first == TakeN(Pieces, f - 1)
<1>2. f - 1 \in 0..Len(Pieces) /\ f - 1 \in Nat /\ \A g \in 1..(f - 1) : g \in 1..N
  BY <1>1
<1>3. /\ first \in Seq(Seq(ByteSet)) /\ Len(first) = f - 1
      /\ \A g \in 1..(f - 1) : first[g] = Pieces[g]
  BY <1>1, <1>2, TakeFacts
<1> HIDE DEF first
<1>4. first = some
  <2>1. first = [g \in DOMAIN first |-> first[g]] /\ DOMAIN first = 1..(f - 1)
    BY <1>3, LenProperties
  <2>2. \A g \in 1..(f - 1) : first[g] = Append(Bytes(g), "separator")
    BY <1>1, <1>2, <1>3
  <2> QED BY <2>1, <2>2
<1>5. Len(FlattenSeq(some)) = Begin(f)
  BY <1>4 DEF Begin, FlatTo, first, TakeN
<1>6. Begin(f) \in Nat
  <2>1. f \in 1..(N + 1)
    BY <1>1
  <2> QED BY <2>1, BeginFacts
<1>7. Start(f) = Len(FlattenSeq(some)) + (IF Quoted(f) THEN 1 ELSE 0)
  BY DEF Start
<1> HIDE DEF some
<1> QED BY <1>5, <1>6, <1>7

(* A field that was not realized is read from the data as it is. *)
LEMMA DataHolds ==
  ASSUME source \in Sources, NEW f \in 1..N, ~Realized(f)
  PROVE  SubSeq(Data, Begin(f) + 1, Begin(f) + Len(Text(f))) = Text(f)
<1>1. /\ Pieces \in Seq(Seq(ByteSet)) /\ Len(Pieces) = N /\ N \in Nat
      /\ Data = FlattenSeq(Pieces)
      /\ Len(Pieces[f]) = Len(Bytes(f)) + 1
      /\ \A k \in 1..Len(Bytes(f)) : Pieces[f][k] = Bytes(f)[k]
  BY PieceFacts, RowsType
<1>2. ~Quoted(f) /\ Parsed[f].pairs = 0 /\ Parsed[f].raw \in Nat
  BY FieldFacts
<1>3. /\ Text(f) \in Seq(CharSet) /\ Len(Text(f)) = Parsed[f].raw
      /\ \A k \in 1..Len(Text(f)) : Text(f)[k] = <<f, k>>
  BY <1>2, TextFacts
<1>4. Len(Bytes(f)) = Parsed[f].raw /\ \A k \in 1..Parsed[f].raw : Bytes(f)[k] = <<f, k>>
  BY <1>2, BytesFacts
<1> DEFINE n == Len(Text(f))
           b == Begin(f)
<1>5. n \in Nat /\ b \in Nat
  <2>1. f \in 1..(N + 1)
    BY <1>1
  <2> QED BY <1>2, <1>3, <2>1, BeginFacts
<1>6. ASSUME NEW k \in 1..n PROVE Data[b + k] = <<f, k>>
  <2>1. k \in 1..Len(Pieces[f]) /\ k \in 1..Len(Bytes(f)) /\ k \in 1..Parsed[f].raw
    <3> DEFINE m == Parsed[f].raw
    <3>1. m \in Nat /\ n = m /\ Len(Bytes(f)) = m /\ Len(Pieces[f]) = Len(Bytes(f)) + 1
      BY <1>1, <1>2, <1>3, <1>4
    <3>2. Len(Pieces[f]) = m + 1
      BY <3>1
    <3> HIDE DEF m, n
    <3>3. k \in 1..(m + 1) /\ k \in 1..m
      BY <3>1
    <3> QED BY <3>1, <3>2, <3>3 DEF m
  <2>2. FlattenSeq(Pieces)[Len(FlatTo(Pieces, f - 1)) + k] = Pieces[f][k]
    BY <1>1, <2>1, FlatToHolds
  <2> QED BY <1>1, <1>4, <2>1, <2>2 DEF Begin
<1> DEFINE s == SubSeq(Data, b + 1, b + n)
<1> HIDE DEF n, b
<1>7. \A i \in (b + 1)..(b + n) : Data[i] \in CharSet
  <2> SUFFICES ASSUME NEW i \in (b + 1)..(b + n) PROVE Data[i] \in CharSet
    OBVIOUS
  <2>1. i - b \in 1..n /\ b + (i - b) = i /\ i - b \in Nat /\ f \in Nat
    BY <1>1, <1>5
  <2>2. Data[i] = <<f, i - b>>
    BY <1>6, <2>1
  <2> QED BY <2>1, <2>2 DEF CharSet
<1>8. /\ s \in Seq(CharSet)
      /\ Len(s) = IF b + 1 <= b + n THEN (b + n) - (b + 1) + 1 ELSE 0
      /\ \A i \in 1..((b + n) - (b + 1) + 1) : s[i] = Data[(b + 1) + i - 1]
  <2>1. b + 1 \in Int /\ b + n \in Int
    BY <1>5
  <2> QED BY <1>7, <2>1, SubSeqProperties
<1> HIDE DEF s
<1>9. Len(s) = n
  BY <1>5, <1>8
<1>10. \A k \in 1..n : s[k] = Data[b + k]
  <2> SUFFICES ASSUME NEW k \in 1..n PROVE s[k] = Data[b + k]
    OBVIOUS
  <2>1. k \in 1..((b + n) - (b + 1) + 1) /\ (b + 1) + k - 1 = b + k
    BY <1>5
  <2> QED BY <1>8, <2>1
<1>11. \A k \in 1..n : s[k] = Text(f)[k]
  BY <1>3, <1>6, <1>10 DEF n
<1>12. s = Text(f)
  BY <1>3, <1>8, <1>9, <1>11, SeqEqual DEF n
<1> QED BY <1>12 DEF s, n, b

-----------------------------------------------------------------------------
(* The invariant. *)
ParserState ==
    /\ source \in Sources /\ eager \in BOOLEAN
    /\ field \in 0..N
    /\ pc \in {"field", "block", "count", "allocate", "emplace", "scalar", "end"}
    /\ pc # "field" => field < N
    /\ pc \in {"block", "count", "allocate"} => Realized(field + 1) /\ Parsed[field + 1].raw > 0
    /\ pc = "scalar" => eager /\ ~source.inserted
    /\ field < N => InRow(field + 1, row_start)

(* The blocks lie one after the other in the arena. *)
BlockSet == [cap : Nat, used : Nat, start : Nat, bytes : Seq(CharSet)]
BlocksInOrder(blocks, size) ==
    /\ blocks \in Seq(BlockSet)
    /\ \A b \in 1..Len(blocks) : Len(blocks[b].bytes) = blocks[b].used
    /\ \A b, c \in 1..Len(blocks) : b < c => blocks[b].start + blocks[b].used <= blocks[c].start
    /\ blocks # <<>> =>
          size = blocks[Len(blocks)].start + blocks[Len(blocks)].used
ArenaShape ==
    /\ arena = [dir |-> arena.dir, blocks |-> arena.blocks, count |-> arena.count,
                size |-> arena.size, next |-> arena.next]
    /\ arena.count \in Nat /\ arena.size \in Nat /\ arena.next \in Nat
    /\ arena.blocks \in Seq(BlockSet)
    /\ Len(arena.blocks) = arena.count + (IF pc = "count" THEN 1 ELSE 0)
    /\ pc = "allocate" => arena.count > 0
ArenaInv == ArenaShape /\ BlocksInOrder(arena.blocks, arena.size)

(* A block holds a text from an offset on, and some block of the arena does. *)
Holds(block, start, txt) ==
    /\ block.start <= start /\ start + Len(txt) <= block.start + block.used
    /\ \A k \in 1..Len(txt) : block.bytes[start - block.start + k] = txt[k]
Kept(store, start, txt) == \E b \in 1..store.count : Holds(store.blocks[b], start, txt)
JustKept ==
    pc = "emplace" /\ Realized(field + 1) /\ Parsed[field + 1].raw > 0
        => /\ arena.size - Parsed[field + 1].raw \in Nat
           /\ Kept(arena, arena.size - Parsed[field + 1].raw, Text(field + 1))

StoredSet == [start : Int, length : Nat, realized : BOOLEAN]
IsStored(stored, f) ==
    /\ stored.realized = Realized(f) /\ stored.length = Len(Text(f))
    /\ ~Realized(f) => \E n \in 0..N : InRow(f, n) /\ stored.start = Begin(f) - Begin(n + 1)
    /\ Realized(f) /\ stored.length > 0 => stored.start \in Nat /\ Kept(arena, stored.start, Text(f))
FieldsStored ==
    /\ fields = [dir |-> fields.dir, list |-> fields.list]
    /\ fields.list \in Seq(StoredSet)
    /\ Len(fields.list) = field + (IF pc \in {"scalar", "end"} THEN 1 ELSE 0)
    /\ \A f \in 1..Len(fields.list) : IsStored(fields.list[f], f)
ScalarsStored ==
    /\ scalars = [dir |-> scalars.dir, list |-> scalars.list]
    /\ scalars.list \in Seq(Seq(CharSet))
    /\ IF eager /\ ~source.inserted
       THEN /\ Len(scalars.list) = field + (IF pc = "end" THEN 1 ELSE 0)
            /\ \A f \in 1..Len(scalars.list) : scalars.list[f] = Text(f)
       ELSE scalars.list = <<>>

IsQueued(row) ==
    /\ row.fields_start \in Nat /\ row.row_length \in Nat /\ row.data_start \in Nat
    /\ row.fields_start + row.row_length <= field
    /\ row.data_start = Begin(row.fields_start + 1)
    /\ \A f \in (row.fields_start + 1)..(row.fields_start + row.row_length) :
          InRow(f, row.fields_start)
RowSet == [data_start : Nat, fields_start : Nat, row_length : Nat]
QueueInv == queue \in Seq(RowSet) /\ \A i \in 1..Len(queue) : IsQueued(queue[i])

SearchSet == [at : {"search"}, field : Nat, low : Nat, high : Nat, start : Nat, length : Nat]
Searches(s) ==
    /\ s \in SearchSet /\ s.field < field
    /\ s.length = Len(Text(s.field + 1)) /\ s.length > 0
    /\ s.high <= arena.count
    /\ \E b \in (s.low + 1)..s.high : Holds(arena.blocks[b], s.start, Text(s.field + 1))
HasRead(s) ==
    /\ s.bytes = Text(s.field)
    /\ s.scalar = IF eager /\ ~source.inserted THEN Text(s.field) ELSE <<>>
ReaderInv ==
    /\ DOMAIN reader = Readers
    /\ \A r \in Readers :
          /\ reader[r].at # "lost"
          /\ reader[r].at = "search" => Searches(reader[r])
          /\ reader[r].at = "read" => HasRead(reader[r])

StorageInv ==
    /\ ParserState /\ ArenaInv /\ JustKept /\ FieldsStored /\ ScalarsStored
    /\ QueueInv /\ ReaderInv

-----------------------------------------------------------------------------
(* The chunk does not change. *)
LEMMA ChunkStays ==
  ASSUME source' = source
  PROVE  /\ Parsed' = Parsed /\ N' = N
         /\ \A f : Quoted(f)' = Quoted(f)
         /\ \A f : Realized(f)' = Realized(f)
         /\ \A f : Text(f)' = Text(f)
         /\ \A f : Begin(f)' = Begin(f)
         /\ \A i : RowEnd(i)' = RowEnd(i)
         /\ \A f, n : InRow(f, n)' = InRow(f, n)
         /\ Data' = Data
<1>1. Parsed' = Parsed
  BY DEF Parsed
<1>2. N' = N
  BY <1>1 DEF N
<1>3. \A f : Quoted(f)' = Quoted(f)
  BY <1>1 DEF Quoted
<1>4. \A f : Realized(f)' = Realized(f)
  BY <1>1 DEF Realized
<1>5. \A f : Text(f)' = Text(f)
  BY <1>1 DEF Text
<1>6. \A f : Bytes(f)' = Bytes(f)
  BY <1>1, <1>3 DEF Bytes
<1>7. Pieces' = Pieces
  BY <1>1, <1>6 DEF Pieces
<1>8. \A f : Begin(f)' = Begin(f)
  BY <1>7 DEF Begin
<1>9. \A i : RowEnd(i)' = RowEnd(i)
  BY DEF RowEnd
<1>10. \A f, n : InRow(f, n)' = InRow(f, n)
  BY <1>9 DEF InRow
<1>11. Data' = Data
  BY <1>7 DEF Data, Pieces
<1> QED BY <1>1, <1>2, <1>3, <1>4, <1>5, <1>8, <1>9, <1>10, <1>11

LEMMA StorageInit == Init => StorageInv
<1> SUFFICES ASSUME Init PROVE StorageInv
  OBVIOUS
<1>1. /\ source \in Sources /\ eager \in BOOLEAN /\ pc = "field" /\ field = 0 /\ row_start = 0
      /\ queue = <<>> /\ reader = [r \in Readers |-> [at |-> "idle"]]
      /\ fields = [dir |-> fields.dir, list |-> <<>>]
      /\ scalars = [dir |-> scalars.dir, list |-> <<>>]
      /\ arena = [dir |-> arena.dir, blocks |-> <<>>, count |-> 0, size |-> 0, next |-> 0]
  BY DEF Init, ArenaReserved, ListReserved
<1>2. N \in Nat
  BY <1>1, RowsType
<1>3. ParserState
  <2>1. ASSUME field < N PROVE InRow(field + 1, row_start)
    <3>1. 1 \in 1..N
      BY <1>1, <1>2, <2>1
    <3>2. PICK i \in 1..Len(source.rows) : RowEnd(i - 1) < 1 /\ 1 <= RowEnd(i)
      BY <1>1, <3>1, EveryFieldInRow
    <3>3. Len(source.rows) \in Nat /\ DOMAIN source.rows = 1..Len(source.rows)
          /\ \A j \in 0..Len(source.rows) : RowEnd(j) \in 0..N
      BY <1>1, RowsType, RowEnds
    <3>4. RowEnd(i - 1) = 0
      <4>1. i - 1 \in 0..Len(source.rows)
        BY <3>3
      <4>2. RowEnd(i - 1) \in Nat
        BY <3>3, <4>1
      <4> QED BY <3>2, <4>2
    <3> QED BY <1>1, <3>2, <3>3, <3>4 DEF InRow
  <2> QED BY <1>1, <1>2, <2>1 DEF ParserState
<1>4. ArenaInv /\ JustKept
  <2>1. <<>> \in Seq(BlockSet) /\ Len(<<>>) = 0
    OBVIOUS
  <2>0. /\ arena.blocks = <<>> /\ arena.count = 0 /\ arena.size = 0 /\ arena.next = 0
        /\ arena = [dir |-> arena.dir, blocks |-> arena.blocks, count |-> arena.count,
                    size |-> arena.size, next |-> arena.next]
    BY <1>1
  <2>2. ArenaShape
    <3>1. arena.count \in Nat /\ arena.size \in Nat /\ arena.next \in Nat
          /\ arena.blocks \in Seq(BlockSet) /\ Len(arena.blocks) = arena.count
      BY <2>0, <2>1
    <3> QED BY <1>1, <2>0, <3>1 DEF ArenaShape
  <2>3. BlocksInOrder(arena.blocks, arena.size)
    BY <2>0, <2>1 DEF BlocksInOrder
  <2> QED BY <1>1, <2>2, <2>3 DEF ArenaInv, JustKept
<1>5. FieldsStored
  <2>1. fields.list = <<>> /\ fields = [dir |-> fields.dir, list |-> fields.list]
    BY <1>1
  <2>2. <<>> \in Seq(StoredSet) /\ Len(<<>>) = 0
    OBVIOUS
  <2> QED BY <1>1, <2>1, <2>2 DEF FieldsStored
<1>6. ScalarsStored
  <2>1. scalars.list = <<>> /\ scalars = [dir |-> scalars.dir, list |-> scalars.list]
    BY <1>1
  <2>2. <<>> \in Seq(Seq(CharSet)) /\ Len(<<>>) = 0
    OBVIOUS
  <2> QED BY <1>1, <2>1, <2>2 DEF ScalarsStored
<1>7. QueueInv
  BY <1>1 DEF QueueInv
<1>8. ReaderInv
  BY <1>1 DEF ReaderInv
<1> QED BY <1>3, <1>4, <1>5, <1>6, <1>7, <1>8 DEF StorageInv

-----------------------------------------------------------------------------
(* Readers. *)
LEMMA ReaderSteps ==
  ASSUME StorageInv, NEW r \in Readers, NEW state,
         At(r, state), UNCHANGED <<source, eager, parserVars>>,
         /\ state.at # "lost"
         /\ state.at = "search" => Searches(state)
         /\ state.at = "read" => HasRead(state)
  PROVE  StorageInv'
<1> USE DEF StorageInv
<1>1. /\ source' = source /\ eager' = eager /\ pc' = pc /\ field' = field /\ row_start' = row_start
      /\ arena' = arena /\ fields' = fields /\ scalars' = scalars /\ queue' = queue
  BY DEF parserVars
<1>2. /\ Parsed' = Parsed /\ N' = N
      /\ \A f : Realized(f)' = Realized(f) /\ Text(f)' = Text(f) /\ Begin(f)' = Begin(f)
      /\ \A f, n : InRow(f, n)' = InRow(f, n)
  BY <1>1, ChunkStays
<1>3. ParserState'
  BY <1>1, <1>2 DEF ParserState
<1>4. ArenaInv'
  BY <1>1 DEF ArenaInv, ArenaShape
<1>5. JustKept'
  BY <1>1, <1>2 DEF JustKept
<1>6. FieldsStored'
  BY <1>1, <1>2 DEF FieldsStored, IsStored
<1>7. ScalarsStored'
  BY <1>1, <1>2 DEF ScalarsStored
<1>8. QueueInv'
  BY <1>1, <1>2 DEF QueueInv, IsQueued
<1>9. ReaderInv'
  <2>1. \A s : Searches(s) => Searches(s)'
    BY <1>1, <1>2 DEF Searches
  <2>2. \A s : HasRead(s) => HasRead(s)'
    BY <1>1, <1>2 DEF HasRead
  <2>3. /\ DOMAIN reader' = Readers
        /\ \A x \in Readers : reader'[x] = IF x = r THEN state ELSE reader[x]
    BY DEF At, ReaderInv
  <2>4. ASSUME NEW x \in Readers
        PROVE  /\ reader'[x].at # "lost"
               /\ reader'[x].at = "search" => Searches(reader[x])'
               /\ reader'[x].at = "read" => HasRead(reader[x])'
    <3>1. CASE x = r
      <4>1. reader'[x] = state
        BY <2>3, <3>1
      <4> QED BY <2>1, <2>2, <4>1
    <3>2. CASE x # r
      <4>1. reader'[x] = reader[x]
        BY <2>3, <3>2
      <4> QED BY <2>1, <2>2, <4>1 DEF ReaderInv
    <3> QED BY <3>1, <3>2
  <2> QED BY <2>3, <2>4 DEF ReaderInv
<1> QED BY <1>3, <1>4, <1>5, <1>6, <1>7, <1>8, <1>9

(* The scalar of a finished field is there. *)
LEMMA FieldIsRead ==
  ASSUME StorageInv, NEW n \in Nat, n < field, NEW bytes, bytes = Text(n + 1)
  PROVE  Field(n, bytes).at = "read" /\ HasRead(Field(n, bytes))
<1>1. /\ source \in Sources /\ eager \in BOOLEAN /\ field \in 0..N /\ N \in Nat
      /\ source.inserted \in BOOLEAN
      /\ IF eager /\ ~source.inserted
         THEN /\ Len(scalars.list) = field + (IF pc = "end" THEN 1 ELSE 0)
              /\ \A f \in 1..Len(scalars.list) : scalars.list[f] = Text(f)
         ELSE scalars.list = <<>>
  <2>1. source \in Sources /\ eager \in BOOLEAN /\ field \in 0..N
    BY DEF StorageInv, ParserState
  <2> QED BY <2>1, RowsType DEF StorageInv, ScalarsStored
<1> DEFINE scalar == IF n < Len(scalars.list) THEN scalars.list[n + 1] ELSE <<>>
<1>2. scalar = IF eager /\ ~source.inserted THEN Text(n + 1) ELSE <<>>
  <2>1. CASE eager /\ ~source.inserted
    <3>1. n < Len(scalars.list) /\ n + 1 \in 1..Len(scalars.list)
      BY <1>1, <2>1
    <3>2. scalar = scalars.list[n + 1]
      BY <3>1
    <3> QED BY <1>1, <2>1, <3>1, <3>2
  <2>2. CASE ~(eager /\ ~source.inserted)
    <3>1. scalars.list = <<>>
      BY <1>1, <2>2
    <3>2. ~(n < Len(scalars.list))
      BY <3>1
    <3> QED BY <2>2, <3>2
  <2> QED BY <2>1, <2>2
<1>3. Field(n, bytes) = [at |-> "read", field |-> n + 1, bytes |-> bytes, scalar |-> scalar]
  BY DEF Field
<1> HIDE DEF scalar
<1> QED BY <1>2, <1>3 DEF HasRead

LEMMA GetFieldKeeps ==
  ASSUME StorageInv, NEW r \in Readers, NEW i \in DOMAIN queue,
         NEW index \in 0..queue[i].row_length, GetField(r, queue[i], index)
  PROVE  StorageInv'
<1>1. UNCHANGED <<source, eager, parserVars>>
  BY DEF GetField
<1>2. /\ source \in Sources /\ field \in 0..N /\ N \in Nat
      /\ queue \in Seq(RowSet) /\ i \in 1..Len(queue) /\ IsQueued(queue[i])
  <2>1. source \in Sources /\ field \in 0..N /\ queue \in Seq(RowSet)
        /\ \A j \in 1..Len(queue) : IsQueued(queue[j])
    BY DEF StorageInv, ParserState, QueueInv
  <2>2. i \in 1..Len(queue)
    BY <2>1, LenProperties
  <2> QED BY <2>1, <2>2, RowsType
<1> DEFINE row == queue[i]
           n == row.fields_start + index
           stored == fields.list[n + 1]
           from == row.data_start + stored.start
<1>3. CASE index >= row.row_length
  <2> DEFINE state == [at |-> "thrown", index |-> index, row |-> row]
  <2>1. At(r, state)
    BY <1>3 DEF GetField
  <2>2. state.at # "lost" /\ state.at # "search" /\ state.at # "read"
    OBVIOUS
  <2> HIDE DEF state
  <2> QED BY <1>1, <2>1, <2>2, ReaderSteps
<1>4. CASE ~(index >= row.row_length)
  <2>1. /\ row.fields_start \in Nat /\ row.row_length \in Nat /\ row.data_start \in Nat
        /\ row.fields_start + row.row_length <= field
        /\ row.data_start = Begin(row.fields_start + 1)
        /\ \A f \in (row.fields_start + 1)..(row.fields_start + row.row_length) :
              InRow(f, row.fields_start)
    BY <1>2 DEF IsQueued
  <2>2. /\ n \in Nat /\ n < field /\ n + 1 \in 1..N
        /\ n + 1 \in (row.fields_start + 1)..(row.fields_start + row.row_length)
    <3> DEFINE a == row.fields_start
               len == row.row_length
    <3>1. a \in Nat /\ len \in Nat /\ a + len <= field /\ index \in Nat /\ index < len
          /\ n = a + index
      BY <1>4, <2>1
    <3>2. field \in Nat /\ field <= N /\ N \in Nat
      BY <1>2
    <3> HIDE DEF a, len, n
    <3>3. /\ n \in Nat /\ n < field /\ n + 1 \in 1..N /\ n + 1 \in (a + 1)..(a + len)
      BY <3>1, <3>2
    <3> QED BY <3>3 DEF a, len
  <2>3. InRow(n + 1, row.fields_start)
    BY <2>1, <2>2
  <2>4. /\ fields.list \in Seq(StoredSet) /\ n + 1 \in 1..Len(fields.list)
        /\ IsStored(stored, n + 1)
    <3>1. /\ fields.list \in Seq(StoredSet) /\ Len(fields.list) >= field
          /\ \A f \in 1..Len(fields.list) : IsStored(fields.list[f], f)
      BY <1>2 DEF StorageInv, FieldsStored
    <3>2. Len(fields.list) \in Nat
      BY <3>1, LenProperties
    <3>3. n + 1 \in 1..Len(fields.list)
      BY <1>2, <2>2, <3>1, <3>2
    <3> QED BY <3>1, <3>3
  <2>5. stored \in StoredSet
    BY <2>4, ElementOfSeq
  <2>6. /\ stored.realized = Realized(n + 1) /\ stored.length = Len(Text(n + 1))
        /\ ~Realized(n + 1) =>
              \E m \in 0..N : InRow(n + 1, m) /\ stored.start = Begin(n + 1) - Begin(m + 1)
        /\ Realized(n + 1) /\ stored.length > 0 =>
              stored.start \in Nat /\ Kept(arena, stored.start, Text(n + 1))
    BY <2>4 DEF IsStored
  <2>7. /\ Len(Text(n + 1)) \in Nat /\ Len(Text(n + 1)) = 0 => Text(n + 1) = <<>>
    BY <1>2, <2>2, TextFacts
  <2>8. CASE ~stored.realized
    <3> DEFINE bytes == SubSeq(Data, from + 1, from + stored.length)
    <3>1. At(r, Field(n, bytes))
      BY <1>4, <2>8 DEF GetField
    <3>2. from = Begin(n + 1)
      <4>1. PICK m \in 0..N : InRow(n + 1, m) /\ stored.start = Begin(n + 1) - Begin(m + 1)
        BY <2>6, <2>8
      <4>2. m = row.fields_start
        <5>1. n + 1 \in Nat
          BY <2>2
        <5> QED BY <1>2, <2>3, <4>1, <5>1, OneStart
      <4>3. Begin(n + 1) \in Nat /\ Begin(m + 1) \in Nat
        <5>1. n + 1 \in 1..(N + 1) /\ m + 1 \in 1..(N + 1)
          BY <1>2, <2>2
        <5> QED BY <1>2, <5>1, BeginFacts
      <4> QED BY <2>1, <4>1, <4>2, <4>3
    <3>3. bytes = Text(n + 1)
      <4>1. ~Realized(n + 1)
        BY <2>6, <2>8
      <4>2. SubSeq(Data, Begin(n + 1) + 1, Begin(n + 1) + Len(Text(n + 1))) = Text(n + 1)
        BY <1>2, <2>2, <4>1, DataHolds
      <4> QED BY <2>6, <3>2, <4>2
    <3> HIDE DEF bytes, n
    <3>4. Field(n, bytes).at = "read" /\ HasRead(Field(n, bytes))
      BY <2>2, <3>3, FieldIsRead
    <3> QED BY <1>1, <3>1, <3>4, ReaderSteps
  <2>9. CASE stored.realized /\ stored.length = 0
    <3>1. At(r, Field(n, <<>>))
      BY <1>4, <2>9 DEF GetField
    <3>2. <<>> = Text(n + 1)
      BY <2>6, <2>7, <2>9
    <3> HIDE DEF n
    <3>3. Field(n, <<>>).at = "read" /\ HasRead(Field(n, <<>>))
      BY <2>2, <3>2, FieldIsRead
    <3> QED BY <1>1, <3>1, <3>3, ReaderSteps
  <2>10. CASE stored.realized /\ stored.length # 0
    <3> DEFINE state == [at |-> "search", field |-> n, low |-> 0, high |-> arena.count,
                         start |-> stored.start, length |-> stored.length]
    <3>1. At(r, state)
      BY <1>4, <2>10 DEF GetField
    <3>2. stored.start \in Nat /\ Kept(arena, stored.start, Text(n + 1)) /\ stored.length > 0
          /\ stored.length \in Nat
      BY <2>6, <2>7, <2>10
    <3>3. arena.count \in Nat
      BY DEF StorageInv, ArenaInv, ArenaShape
    <3> DEFINE st == stored.start
               len == stored.length
    <3> HIDE DEF n, st, len
    <3>4. state = [at |-> "search", field |-> n, low |-> 0, high |-> arena.count,
                         start |-> st, length |-> len]
      BY DEF st, len
    <3>5. /\ st \in Nat /\ len \in Nat /\ len > 0 /\ len = Len(Text(n + 1)) /\ n \in Nat
          /\ n < field /\ arena.count \in Nat
          /\ \E b \in 1..arena.count : Holds(arena.blocks[b], st, Text(n + 1))
      BY <2>2, <2>6, <3>2, <3>3 DEF st, len, Kept
    <3> HIDE DEF state
    <3>6. Searches(state) /\ state.at = "search"
      <4>1. /\ state \in SearchSet /\ state.field = n /\ state.low = 0 /\ state.high = arena.count
            /\ state.start = st /\ state.length = len /\ state.at = "search"
        BY <3>4, <3>5 DEF SearchSet
      <4>2. (state.low + 1)..state.high = 1..arena.count
        BY <4>1
      <4> QED BY <3>5, <4>1, <4>2 DEF Searches
    <3> QED BY <1>1, <3>1, <3>6, ReaderSteps
  <2> QED BY <2>5, <2>8, <2>9, <2>10 DEF StoredSet
<1> QED BY <1>3, <1>4

(* One turn of the search leaves out blocks that do not hold the text.      *)
LEMMA SearchKeeps ==
  ASSUME StorageInv, NEW r \in Readers, Search(r)
  PROVE  StorageInv'
<1>1. UNCHANGED <<source, eager, parserVars>>
  BY DEF Search
<1> DEFINE s == reader[r]
           mid == s.low + (s.high - s.low) \div 2
           block == arena.blocks[mid + 1]
           within == s.start - block.start
           txt == Text(s.field + 1)
<1>0. /\ ~(s.low >= s.high) /\ s.start < block.start => At(r, [s EXCEPT !.high = mid])
      /\ ~(s.low >= s.high) /\ ~(s.start < block.start) /\ s.start >= BlockEnd(block)
            => At(r, [s EXCEPT !.low = mid + 1])
      /\ ~(s.low >= s.high) /\ ~(s.start < block.start) /\ ~(s.start >= BlockEnd(block))
            => At(r, Field(s.field, View(block, within, s.length)))
  BY Zenon DEF Search
<1>2. /\ s.at = "search" /\ Searches(s) /\ source \in Sources /\ field \in 0..N
      /\ BlocksInOrder(arena.blocks, arena.size)
      /\ arena.count \in Nat /\ arena.count <= Len(arena.blocks)
  <2>1. Len(arena.blocks) = arena.count + (IF pc = "count" THEN 1 ELSE 0) /\ arena.count \in Nat
    BY DEF StorageInv, ArenaInv, ArenaShape
  <2> QED BY <2>1 DEF Search, StorageInv, ReaderInv, ArenaInv, ParserState
<1> HIDE DEF s
<1>3. N \in Nat
  BY <1>2, RowsType
<1>4. /\ s \in SearchSet /\ s.field \in Nat /\ s.low \in Nat /\ s.high \in Nat /\ s.start \in Nat
      /\ s.length \in Nat /\ s.field < field /\ s.length = Len(txt) /\ s.length > 0
      /\ s.high <= arena.count
      /\ \E b \in (s.low + 1)..s.high : Holds(arena.blocks[b], s.start, txt)
  BY <1>2 DEF Searches, SearchSet
<1>5. PICK b \in (s.low + 1)..s.high : Holds(arena.blocks[b], s.start, txt)
  BY <1>4
<1>6. s.low < s.high /\ mid \in Nat /\ s.low <= mid /\ mid < s.high /\ b \in Nat
  <2> DEFINE lo == s.low
             hi == s.high
  <2>1. lo \in Nat /\ hi \in Nat /\ b \in (lo + 1)..hi
    BY <1>4, <1>5
  <2>2. mid = lo + (hi - lo) \div 2
    OBVIOUS
  <2> HIDE DEF mid, lo, hi
  <2>3. lo < hi /\ b \in Nat /\ hi - lo \in Nat \ {0}
    BY <2>1
  <2>4. (hi - lo) \div 2 \in Nat /\ (hi - lo) \div 2 < hi - lo
    BY <2>3
  <2>5. mid \in Nat /\ lo <= mid /\ mid < hi
    BY <2>1, <2>2, <2>3, <2>4
  <2> QED BY <2>3, <2>5 DEF lo, hi
<1>7. s.field + 1 \in 1..N
  <2> DEFINE k == s.field
  <2>1. k \in Nat /\ k < field /\ field \in 0..N /\ N \in Nat
    BY <1>2, <1>3, <1>4
  <2> HIDE DEF k
  <2>2. k + 1 \in 1..N
    BY <2>1
  <2> QED BY <2>2 DEF k
<1>8. /\ Len(arena.blocks) \in Nat /\ mid + 1 \in 1..Len(arena.blocks) /\ b \in 1..Len(arena.blocks)
  <2>1. Len(arena.blocks) \in Nat
    BY <1>2, LenProperties DEF BlocksInOrder
  <2> DEFINE len == Len(arena.blocks)
             cnt == arena.count
             lo == s.low
             hi == s.high
  <2>2. /\ len \in Nat /\ cnt \in Nat /\ cnt <= len /\ hi <= cnt /\ lo \in Nat /\ hi \in Nat
        /\ b \in (lo + 1)..hi /\ mid \in Nat /\ mid < hi
    BY <1>2, <1>4, <1>5, <1>6, <2>1
  <2> HIDE DEF len, cnt, lo, hi, mid
  <2>3. len \in Nat /\ mid + 1 \in 1..len /\ b \in 1..len
    BY <2>2
  <2> QED BY <2>3 DEF len
<1> HIDE DEF mid
<1>9. /\ block \in BlockSet /\ arena.blocks[b] \in BlockSet
      /\ \A c, d \in 1..Len(arena.blocks) :
            c < d => arena.blocks[c].start + arena.blocks[c].used <= arena.blocks[d].start
  BY <1>2, <1>8, ElementOfSeq DEF BlocksInOrder
<1> DEFINE from(c) == arena.blocks[c].start
           to(c) == arena.blocks[c].start + arena.blocks[c].used
<1>10. /\ from(b) <= s.start /\ s.start < to(b) /\ s.start + s.length <= to(b)
       /\ from(b) \in Nat /\ to(b) \in Nat /\ from(b) <= to(b)
       /\ from(mid + 1) \in Nat /\ to(mid + 1) \in Nat /\ from(mid + 1) <= to(mid + 1)
  <2>1. \A x \in BlockSet : x.start \in Nat /\ x.start + x.used \in Nat
                              /\ x.start <= x.start + x.used
    BY DEF BlockSet
  <2>2. /\ from(b) \in Nat /\ to(b) \in Nat /\ from(b) <= to(b)
        /\ from(mid + 1) \in Nat /\ to(mid + 1) \in Nat /\ from(mid + 1) <= to(mid + 1)
    BY <1>9, <2>1
  <2>3. from(b) <= s.start /\ s.start + s.length <= to(b)
    BY <1>4, <1>5 DEF Holds
  <2> HIDE DEF from, to
  <2>4. s.start < to(b)
    BY <1>4, <2>2, <2>3
  <2> QED BY <2>2, <2>3, <2>4
<1>11. /\ b < mid + 1 => to(b) <= from(mid + 1)
       /\ mid + 1 < b => to(mid + 1) <= from(b)
  BY <1>8, <1>9
<1>12. from(mid + 1) = block.start /\ to(mid + 1) = BlockEnd(block)
  BY DEF BlockEnd
<1> HIDE DEF block, txt
<1>13. CASE s.start < block.start
  <2> DEFINE state == [s EXCEPT !.high = mid]
  <2>1. At(r, state)
    BY <1>0, <1>4, <1>6, <1>13 DEF mid, block
  <2>2. /\ state \in SearchSet /\ state.field = s.field /\ state.low = s.low /\ state.high = mid
        /\ state.start = s.start /\ state.length = s.length /\ state.at = "search"
    BY <1>4, <1>6 DEF SearchSet
  <2> HIDE DEF state
  <2>3. b \in (s.low + 1)..mid
    <3> HIDE DEF from, to
    <3>1. ~(b < mid + 1) => FALSE
      BY <1>4, <1>5, <1>6, <1>10, <1>11, <1>12, <1>13
    <3> QED BY <1>4, <1>5, <1>6, <3>1
  <2>4. Searches(state)
    <3>1. state.high <= arena.count
      BY <1>2, <1>4, <1>6, <2>2
    <3>2. \E c \in (state.low + 1)..state.high :
             Holds(arena.blocks[c], state.start, Text(state.field + 1))
      BY <1>5, <2>2, <2>3 DEF txt
    <3> QED BY <1>4, <2>2, <3>1, <3>2 DEF Searches, txt
  <2> QED BY <1>1, <2>1, <2>2, <2>4, ReaderSteps
<1>14. CASE ~(s.start < block.start) /\ s.start >= BlockEnd(block)
  <2> DEFINE state == [s EXCEPT !.low = mid + 1]
  <2>1. At(r, state)
    BY <1>0, <1>4, <1>6, <1>14 DEF mid, block
  <2>2. /\ state \in SearchSet /\ state.field = s.field /\ state.low = mid + 1 /\ state.high = s.high
        /\ state.start = s.start /\ state.length = s.length /\ state.at = "search"
    BY <1>4, <1>6 DEF SearchSet
  <2> HIDE DEF state
  <2>3. b \in ((mid + 1) + 1)..s.high
    <3> HIDE DEF from, to
    <3>1. ~(mid + 1 < b) => FALSE
      BY <1>4, <1>5, <1>6, <1>10, <1>11, <1>12, <1>14
    <3> QED BY <1>4, <1>5, <1>6, <3>1
  <2>4. Searches(state)
    <3>1. \E c \in (state.low + 1)..state.high :
             Holds(arena.blocks[c], state.start, Text(state.field + 1))
      BY <1>5, <2>2, <2>3 DEF txt
    <3> QED BY <1>4, <2>2, <3>1 DEF Searches, txt
  <2> QED BY <1>1, <2>1, <2>2, <2>4, ReaderSteps
<1>15. CASE ~(s.start < block.start) /\ ~(s.start >= BlockEnd(block))
  <2> DEFINE bytes == View(block, within, s.length)
  <2>1. At(r, Field(s.field, bytes))
    BY <1>0, <1>4, <1>6, <1>15 DEF mid, block
  <2>2. b = mid + 1
    <3> HIDE DEF from, to
    <3> QED BY <1>4, <1>6, <1>10, <1>11, <1>12, <1>15
  <2>3. bytes = txt
    <3>1. /\ txt \in Seq(CharSet) /\ DOMAIN txt = 1..s.length
          /\ txt = [k \in DOMAIN txt |-> txt[k]]
      BY <1>2, <1>4, <1>7, TextFacts, LenProperties DEF txt
    <3>2. /\ block.start <= s.start /\ s.start + s.length <= block.start + block.used
          /\ \A k \in 1..s.length : block.bytes[s.start - block.start + k] = txt[k]
      BY <1>4, <1>5, <2>2 DEF Holds, block
    <3>3. block.start \in Nat /\ block.used \in Nat
      BY <1>9 DEF BlockSet
    <3>4. \A k \in 1..s.length : within + k <= block.used
      BY <1>4, <3>2, <3>3
    <3> HIDE DEF within
    <3>5. bytes = [k \in 1..s.length |->
                      IF within + k <= block.used THEN block.bytes[within + k] ELSE Unset]
      BY DEF View
    <3>6. \A k \in 1..s.length : block.bytes[within + k] = txt[k]
      BY <3>2 DEF within
    <3> QED BY <3>1, <3>4, <3>5, <3>6
  <2> HIDE DEF bytes
  <2>4. Field(s.field, bytes).at = "read" /\ HasRead(Field(s.field, bytes))
    BY <1>4, <2>3, FieldIsRead DEF txt
  <2> QED BY <1>1, <2>1, <2>4, ReaderSteps
<1> QED BY <1>13, <1>14, <1>15

-----------------------------------------------------------------------------
(* The parser only adds to the arena: what a block holds it keeps.          *)
Grown(old, new) ==
    /\ old.count <= new.count
    /\ \A b \in 1..old.count :
          /\ new.blocks[b].start = old.blocks[b].start
          /\ old.blocks[b].used <= new.blocks[b].used
          /\ \A k \in 1..old.blocks[b].used : new.blocks[b].bytes[k] = old.blocks[b].bytes[k]

LEMMA HoldsLater ==
  ASSUME NEW old, NEW new, NEW start \in Nat, NEW txt, Len(txt) \in Nat,
         old.start \in Nat, old.used \in Nat, new.used \in Nat,
         new.start = old.start, old.used <= new.used,
         \A k \in 1..old.used : new.bytes[k] = old.bytes[k],
         Holds(old, start, txt)
  PROVE  Holds(new, start, txt)
<1>1. /\ old.start <= start /\ start + Len(txt) <= old.start + old.used
      /\ \A k \in 1..Len(txt) : old.bytes[start - old.start + k] = txt[k]
  BY DEF Holds
<1> DEFINE n == Len(txt)
           s == old.start
           u == old.used
           v == new.used
<1>2. /\ n \in Nat /\ s \in Nat /\ u \in Nat /\ v \in Nat /\ u <= v /\ s <= start /\ start + n <= s + u
  BY <1>1
<1> HIDE DEF n, s, u, v
<1>3. start + n <= s + v /\ \A k \in 1..n : start - s + k \in 1..u
  BY <1>2
<1>4. \A k \in 1..n : new.bytes[start - s + k] = txt[k]
  <2> SUFFICES ASSUME NEW k \in 1..n PROVE new.bytes[start - s + k] = txt[k]
    OBVIOUS
  <2>1. new.bytes[start - s + k] = old.bytes[start - s + k]
    BY <1>3 DEF u
  <2>2. old.bytes[start - s + k] = txt[k]
    BY <1>1 DEF n, s
  <2> QED BY <2>1, <2>2
<1> QED BY <1>2, <1>3, <1>4 DEF Holds, n, s, v

LEMMA ArenaFacts ==
  ASSUME ArenaInv
  PROVE  /\ arena.count \in Nat /\ arena.size \in Nat /\ Len(arena.blocks) \in Nat
         /\ Len(arena.blocks) = arena.count + (IF pc = "count" THEN 1 ELSE 0)
         /\ \A b \in 1..arena.count : b \in 1..Len(arena.blocks)
         /\ \A b \in 1..Len(arena.blocks) :
               /\ arena.blocks[b] \in BlockSet
               /\ arena.blocks[b].start \in Nat /\ arena.blocks[b].used \in Nat
               /\ arena.blocks[b].bytes \in Seq(CharSet)
               /\ Len(arena.blocks[b].bytes) = arena.blocks[b].used
<1>1. /\ arena.count \in Nat /\ arena.size \in Nat /\ arena.blocks \in Seq(BlockSet)
      /\ Len(arena.blocks) = arena.count + (IF pc = "count" THEN 1 ELSE 0)
      /\ \A b \in 1..Len(arena.blocks) : Len(arena.blocks[b].bytes) = arena.blocks[b].used
  BY DEF ArenaInv, ArenaShape, BlocksInOrder
<1>2. Len(arena.blocks) \in Nat /\ \A b \in 1..Len(arena.blocks) : arena.blocks[b] \in BlockSet
  BY <1>1, LenProperties, ElementOfSeq
<1>3. \A x \in BlockSet : x.start \in Nat /\ x.used \in Nat /\ x.bytes \in Seq(CharSet)
  BY DEF BlockSet
<1>4. \A b \in 1..arena.count : b \in 1..Len(arena.blocks)
  BY <1>1, <1>2
<1> QED BY <1>1, <1>2, <1>3, <1>4

LEMMA ArenaFactsNext ==
  ArenaInv' => (/\ arena.count \in Nat /\ \A b \in 1..arena.count : b \in 1..Len(arena.blocks)
                /\ \A b \in 1..Len(arena.blocks) : arena.blocks[b].used \in Nat)'
<1>1. ArenaInv => /\ arena.count \in Nat /\ \A b \in 1..arena.count : b \in 1..Len(arena.blocks)
                  /\ \A b \in 1..Len(arena.blocks) : arena.blocks[b].used \in Nat
  BY ArenaFacts
<1> QED BY <1>1, PTL

LEMMA KeptLater ==
  ASSUME ArenaInv, ArenaInv', Grown(arena, arena')
  PROVE  \A start \in Nat : \A txt : Len(txt) \in Nat =>
            /\ \A b \in 1..arena.count : b \in 1..arena'.count
            /\ \A b \in 1..arena.count :
                  Holds(arena.blocks[b], start, txt) => Holds(arena'.blocks[b], start, txt)
            /\ Kept(arena, start, txt) => Kept(arena', start, txt)
<1>1. /\ arena.count \in Nat /\ \A b \in 1..arena.count : b \in 1..Len(arena.blocks)
      /\ \A b \in 1..Len(arena.blocks) :
            arena.blocks[b].start \in Nat /\ arena.blocks[b].used \in Nat
  BY ArenaFacts
<1>2. /\ arena'.count \in Nat /\ \A b \in 1..arena'.count : b \in 1..Len(arena'.blocks)
      /\ \A b \in 1..Len(arena'.blocks) : arena'.blocks[b].used \in Nat
  BY ArenaFactsNext
<1> SUFFICES ASSUME NEW start \in Nat, NEW txt, Len(txt) \in Nat
             PROVE  /\ \A b \in 1..arena.count : b \in 1..arena'.count
                    /\ \A b \in 1..arena.count :
                         Holds(arena.blocks[b], start, txt) => Holds(arena'.blocks[b], start, txt)
                    /\ Kept(arena, start, txt) => Kept(arena', start, txt)
  OBVIOUS
<1>3. \A b \in 1..arena.count : b \in 1..arena'.count
  BY <1>1, <1>2 DEF Grown
<1>4. ASSUME NEW b \in 1..arena.count, Holds(arena.blocks[b], start, txt)
      PROVE  Holds(arena'.blocks[b], start, txt)
  <2> DEFINE old == arena.blocks[b]
             new == arena'.blocks[b]
  <2>1. /\ old.start \in Nat /\ old.used \in Nat /\ new.used \in Nat
        /\ new.start = old.start /\ old.used <= new.used
        /\ \A k \in 1..old.used : new.bytes[k] = old.bytes[k]
        /\ Holds(old, start, txt)
    BY <1>1, <1>2, <1>3, <1>4 DEF Grown
  <2> HIDE DEF old, new
  <2>2. Holds(new, start, txt)
    BY <2>1, HoldsLater
  <2> QED BY <2>2 DEF new
<1> QED BY <1>3, <1>4 DEF Kept

(* What a step that only adds to the arena leaves as it is.                 *)
LEMMA ReadersStay ==
  ASSUME StorageInv, source' = source, eager' = eager, reader' = reader,
         field' \in Nat, field <= field', ArenaInv', Grown(arena, arena')
  PROVE  ReaderInv'
<1>1. /\ source \in Sources /\ field \in 0..N /\ N \in Nat /\ ArenaInv /\ ReaderInv
  <2>1. source \in Sources /\ field \in 0..N /\ ArenaInv /\ ReaderInv
    BY DEF StorageInv, ParserState
  <2> QED BY <2>1, RowsType
<1>2. \A f : Text(f)' = Text(f)
  BY ChunkStays
<1>3. ASSUME NEW s, Searches(s) PROVE Searches(s)'
  <2>1. /\ s \in SearchSet /\ s.field \in Nat /\ s.low \in Nat /\ s.high \in Nat /\ s.start \in Nat
        /\ s.field < field
        /\ s.length = Len(Text(s.field + 1)) /\ s.length > 0 /\ s.high <= arena.count
    BY <1>3 DEF Searches, SearchSet
  <2>2. PICK b \in (s.low + 1)..s.high : Holds(arena.blocks[b], s.start, Text(s.field + 1))
    BY <1>3 DEF Searches
  <2>3. arena.count \in Nat /\ arena'.count \in Nat /\ arena.count <= arena'.count
    BY <1>1, ArenaFacts, ArenaFactsNext DEF Grown
  <2>4. b \in 1..arena.count /\ s.high <= arena'.count
    BY <2>1, <2>2, <2>3
  <2>5. s.field < field' /\ s.field + 1 \in 1..N
    <3> DEFINE n == s.field
    <3>1. n \in Nat /\ n < field /\ field \in Nat /\ field <= N /\ N \in Nat
      BY <1>1, <2>1
    <3> HIDE DEF n
    <3>2. n < field' /\ n + 1 \in 1..N
      BY <3>1
    <3> QED BY <3>2 DEF n
  <2>6. Len(Text(s.field + 1)) \in Nat
    BY <1>1, <2>5, TextFacts
  <2>7. Holds(arena'.blocks[b], s.start, Text(s.field + 1))
    BY <1>1, <2>1, <2>2, <2>4, <2>6, KeptLater
  <2> QED BY <1>2, <2>1, <2>2, <2>4, <2>5, <2>7 DEF Searches
<1>4. \A s : HasRead(s) => HasRead(s)'
  BY <1>2 DEF HasRead
<1> QED BY <1>1, <1>3, <1>4 DEF ReaderInv

LEMMA RowLater ==
  ASSUME StorageInv, source' = source, field' \in Nat, field <= field', NEW row, IsQueued(row)
  PROVE  IsQueued(row)'
<1>1. field \in 0..N /\ N \in Nat
  <2>1. source \in Sources /\ field \in 0..N
    BY DEF StorageInv, ParserState
  <2> QED BY <2>1, RowsType
<1>2. /\ \A f : Begin(f)' = Begin(f)
      /\ \A f, n : InRow(f, n)' = InRow(f, n)
  BY ChunkStays
<1>3. row.fields_start + row.row_length <= field'
  BY <1>1 DEF IsQueued
<1> QED BY <1>2, <1>3 DEF IsQueued

LEMMA RowsStay ==
  ASSUME StorageInv, source' = source, queue' = queue, field' \in Nat, field <= field'
  PROVE  QueueInv'
<1>1. QueueInv
  BY DEF StorageInv
<1>2. \A row : IsQueued(row) => IsQueued(row)'
  BY RowLater
<1> QED BY <1>1, <1>2 DEF QueueInv

LEMMA StoredLater ==
  ASSUME source \in Sources, source' = source, ArenaInv, ArenaInv', Grown(arena, arena'),
         NEW f \in 1..N, NEW stored, IsStored(stored, f)
  PROVE  IsStored(stored, f)'
<1>1. /\ N' = N /\ Realized(f)' = Realized(f) /\ Text(f)' = Text(f)
      /\ \A g : Begin(g)' = Begin(g)
      /\ \A g, n : InRow(g, n)' = InRow(g, n)
  BY ChunkStays
<1>2. Len(Text(f)) \in Nat
  BY TextFacts
<1>3. ASSUME Realized(f), stored.length > 0 PROVE stored.start \in Nat /\ Kept(arena', stored.start, Text(f))
  <2>1. stored.start \in Nat /\ Kept(arena, stored.start, Text(f))
    BY <1>3 DEF IsStored
  <2> QED BY <1>2, <2>1, KeptLater
<1> QED BY <1>1, <1>3 DEF IsStored

LEMMA FieldsStay ==
  ASSUME StorageInv, source' = source, fields' = fields, ArenaInv', Grown(arena, arena'),
         (field + (IF pc \in {"scalar", "end"} THEN 1 ELSE 0))' =
             field + (IF pc \in {"scalar", "end"} THEN 1 ELSE 0)
  PROVE  FieldsStored'
<1>1. /\ source \in Sources /\ field \in 0..N /\ N \in Nat /\ ArenaInv /\ FieldsStored
      /\ pc # "field" => field < N
  <2>1. source \in Sources /\ field \in 0..N /\ ArenaInv /\ FieldsStored /\ (pc # "field" => field < N)
    BY DEF StorageInv, ParserState
  <2> QED BY <2>1, RowsType
<1>2. \A f \in 1..Len(fields.list) : f \in 1..N
  <2>1. Len(fields.list) = field + (IF pc \in {"scalar", "end"} THEN 1 ELSE 0)
    BY <1>1 DEF FieldsStored
  <2>2. Len(fields.list) \in Nat /\ Len(fields.list) <= N
    BY <1>1, <2>1
  <2> QED BY <1>1, <2>2
<1>3. \A f \in 1..Len(fields.list) : IsStored(fields.list[f], f)'
  <2> SUFFICES ASSUME NEW f \in 1..Len(fields.list) PROVE IsStored(fields.list[f], f)'
    OBVIOUS
  <2>1. PICK stored : stored = fields.list[f]
    OBVIOUS
  <2>2. IsStored(stored, f) /\ f \in 1..N
    BY <1>1, <1>2, <2>1 DEF FieldsStored
  <2>3. IsStored(stored, f)'
    BY <1>1, <2>2, StoredLater
  <2>4. fields'.list[f] = stored
    BY <2>1
  <2> QED BY <2>3, <2>4
<1> QED BY <1>1, <1>3 DEF FieldsStored

LEMMA ScalarsStay ==
  ASSUME StorageInv, source' = source, eager' = eager, scalars' = scalars,
         (field + (IF pc = "end" THEN 1 ELSE 0))' = field + (IF pc = "end" THEN 1 ELSE 0)
  PROVE  ScalarsStored'
<1>1. \A f : Text(f)' = Text(f)
  BY ChunkStays
<1>2. ScalarsStored
  BY DEF StorageInv
<1> QED BY <1>1, <1>2 DEF ScalarsStored

LEMMA SameArena ==
  ASSUME StorageInv, arena' = arena, pc # "count", pc' # "count", pc' = "allocate" => arena.count > 0
  PROVE  ArenaInv' /\ Grown(arena, arena')
<1>1. ArenaInv /\ arena.count \in Nat
  BY ArenaFacts DEF StorageInv
<1>2. ArenaShape'
  BY <1>1 DEF ArenaInv, ArenaShape
<1>3. \A b \in 1..arena.count : arena.blocks[b].used <= arena.blocks[b].used
  <2>1. \A b \in 1..arena.count : arena.blocks[b].used \in Nat
    BY <1>1, ArenaFacts
  <2>2. \A x \in Nat : x <= x
    OBVIOUS
  <2> QED BY <2>1, <2>2
<1>4. Grown(arena, arena')
  BY <1>1, <1>3 DEF Grown
<1> QED BY <1>1, <1>2, <1>4 DEF ArenaInv

LEMMA EndsBefore ==
  ASSUME NEW blocks, NEW size \in Nat, BlocksInOrder(blocks, size), NEW b \in 1..Len(blocks)
  PROVE  /\ blocks[b].start \in Nat /\ blocks[b].used \in Nat
         /\ blocks[b].start + blocks[b].used <= size
<1>1. /\ blocks \in Seq(BlockSet) /\ blocks # <<>> /\ Len(blocks) \in 1..Len(blocks)
      /\ \A c \in 1..Len(blocks) : blocks[c] \in BlockSet
  <2>1. blocks \in Seq(BlockSet)
    BY DEF BlocksInOrder
  <2>2. Len(blocks) \in Nat /\ \A c \in 1..Len(blocks) : blocks[c] \in BlockSet
    BY <2>1, LenProperties, ElementOfSeq
  <2>3. Len(blocks) \in 1..Len(blocks) /\ Len(blocks) # 0
    BY <2>2
  <2> QED BY <2>1, <2>2, <2>3, EmptySeq
<1> DEFINE n == Len(blocks)
           sb == blocks[b].start
           ub == blocks[b].used
           sn == blocks[n].start
           un == blocks[n].used
<1>2. sb \in Nat /\ ub \in Nat /\ sn \in Nat /\ un \in Nat
  <2>1. \A x \in BlockSet : x.start \in Nat /\ x.used \in Nat
    BY DEF BlockSet
  <2> QED BY <1>1, <2>1
<1>3. size = sn + un /\ (b < n => sb + ub <= sn) /\ n \in Nat
  <2>1. n \in Nat
    BY <1>1, LenProperties
  <2> QED BY <1>1, <2>1 DEF BlocksInOrder
<1>4. b = n \/ b < n
  BY <1>3
<1>5. b = n => sb = sn /\ ub = un
  OBVIOUS
<1> HIDE DEF n, sb, ub, sn, un
<1>6. sb + ub <= size
  BY <1>2, <1>3, <1>4, <1>5
<1> QED BY <1>2, <1>6 DEF sb, ub

(* An empty block behind the others, and text behind that of the last.      *)
LEMMA BlockAppended ==
  ASSUME NEW blocks, NEW size \in Nat, BlocksInOrder(blocks, size),
         NEW new \in BlockSet, new.used = 0, new.start = size, Len(new.bytes) = 0
  PROVE  BlocksInOrder(Append(blocks, new), size)
<1> DEFINE n == Len(blocks)
           more == Append(blocks, new)
<1>1. blocks \in Seq(BlockSet) /\ n \in Nat
  <2>1. blocks \in Seq(BlockSet)
    BY DEF BlocksInOrder
  <2> QED BY <2>1, LenProperties
<1>2. /\ more \in Seq(BlockSet) /\ Len(more) = n + 1 /\ more[n + 1] = new
      /\ \A b \in 1..n : more[b] = blocks[b]
  BY <1>1, AppendProperties
<1>3. /\ \A b \in 1..n : Len(blocks[b].bytes) = blocks[b].used
      /\ \A b, c \in 1..n : b < c => blocks[b].start + blocks[b].used <= blocks[c].start
      /\ \A b \in 1..n : blocks[b].start + blocks[b].used <= size
  BY EndsBefore DEF BlocksInOrder
<1> HIDE DEF more, n
<1>4. \A b \in 1..(n + 1) : b \in 1..n \/ b = n + 1
  BY <1>1
<1>5. \A b \in 1..(n + 1) : Len(more[b].bytes) = more[b].used
  BY <1>2, <1>3, <1>4
<1>6. ASSUME NEW b \in 1..(n + 1), NEW c \in 1..(n + 1), b < c
      PROVE  more[b].start + more[b].used <= more[c].start
  <2>1. b \in 1..n
    BY <1>1, <1>6
  <2>2. CASE c \in 1..n
    BY <1>2, <1>3, <1>6, <2>1, <2>2
  <2>3. CASE c = n + 1
    BY <1>2, <1>3, <2>1, <2>3
  <2> QED BY <1>4, <2>2, <2>3
<1>7. size = more[n + 1].start + more[n + 1].used
  BY <1>2
<1> QED BY <1>2, <1>5, <1>6, <1>7 DEF BlocksInOrder, more

LEMMA BlockFilled ==
  ASSUME NEW blocks, NEW size \in Nat, BlocksInOrder(blocks, size), Len(blocks) > 0,
         NEW more, NEW n \in Nat, NEW filled \in BlockSet, filled.used = blocks[Len(blocks)].used + n,
         filled.start = blocks[Len(blocks)].start, Len(filled.bytes) = filled.used,
         more = [blocks EXCEPT ![Len(blocks)] = filled]
  PROVE  BlocksInOrder(more, size + n) /\ Len(more) = Len(blocks)
<1> DEFINE last == Len(blocks)
<1>1. blocks \in Seq(BlockSet) /\ last \in Nat /\ last \in 1..last /\ blocks # <<>>
  <2>1. blocks \in Seq(BlockSet)
    BY DEF BlocksInOrder
  <2>2. last \in Nat /\ last # 0
    BY <2>1, LenProperties
  <2> QED BY <2>1, <2>2, EmptySeq
<1>2. /\ more \in Seq(BlockSet) /\ Len(more) = last /\ more[last] = filled
      /\ \A b \in 1..last : b # last => more[b] = blocks[b]
  BY <1>1, ExceptSeq
<1>3. /\ \A b \in 1..last : Len(blocks[b].bytes) = blocks[b].used
      /\ \A b, c \in 1..last : b < c => blocks[b].start + blocks[b].used <= blocks[c].start
      /\ size = blocks[last].start + blocks[last].used
  BY <1>1 DEF BlocksInOrder
<1>4. blocks[last].start \in Nat /\ blocks[last].used \in Nat
  BY <1>1, EndsBefore
<1>5. \A b \in 1..last : Len(more[b].bytes) = more[b].used
  BY <1>2, <1>3
<1>6. \A b \in 1..last : more[b].start = blocks[b].start
  BY <1>2
<1>7. ASSUME NEW b \in 1..last, NEW c \in 1..last, b < c
      PROVE  more[b].start + more[b].used <= more[c].start
  <2>1. b # last
    BY <1>1, <1>7
  <2> QED BY <1>2, <1>3, <1>6, <1>7, <2>1
<1>8. size + n = more[last].start + more[last].used
  <2> DEFINE s == blocks[last].start
             u == blocks[last].used
  <2>1. size = s + u /\ more[last].start = s /\ more[last].used = u + n /\ s \in Nat /\ u \in Nat
    BY <1>2, <1>3, <1>4
  <2> HIDE DEF s, u
  <2> QED BY <2>1
<1> QED BY <1>2, <1>5, <1>7, <1>8 DEF BlocksInOrder

-----------------------------------------------------------------------------
(* The parser's steps. *)
LEMMA PushFieldKeeps ==
  ASSUME StorageInv, PushField
  PROVE  StorageInv'
<1>1. /\ source' = source /\ eager' = eager /\ field' = field /\ row_start' = row_start
      /\ arena' = arena /\ fields' = fields /\ scalars' = scalars /\ queue' = queue
      /\ reader' = reader /\ pc = "field" /\ field < Len(Parsed)
  BY DEF PushField
<1>2. /\ source \in Sources /\ field \in 0..N /\ N \in Nat /\ N = Len(Parsed) /\ field \in Nat
      /\ ArenaInv /\ ParserState
  <2>1. source \in Sources /\ field \in 0..N /\ ArenaInv /\ ParserState
    BY DEF StorageInv, ParserState
  <2> QED BY <2>1, RowsType
<1>3. /\ pc' \in {"block", "allocate", "emplace"}
      /\ pc' \in {"block", "allocate"} => Realized(field + 1) /\ Parsed[field + 1].raw > 0
      /\ pc' = "allocate" => ~NeedsBlock(Parsed[field + 1].raw)
      /\ pc' = "emplace" => ~(Realized(field + 1) /\ Parsed[field + 1].raw > 0)
  BY DEF PushField, Current
<1>4. pc' = "allocate" => arena.count > 0
  <2>1. arena.count \in Nat
    BY <1>2, ArenaFacts
  <2> QED BY <1>3, <2>1 DEF NeedsBlock
<1>5. ArenaInv' /\ Grown(arena, arena')
  BY <1>1, <1>3, <1>4, SameArena
<1>6. /\ Parsed' = Parsed /\ N' = N /\ \A f : Realized(f)' = Realized(f) /\ Text(f)' = Text(f)
      /\ \A f, n : InRow(f, n)' = InRow(f, n)
  BY <1>1, ChunkStays
<1>7. ParserState'
  BY <1>1, <1>2, <1>3, <1>6 DEF ParserState
<1>8. JustKept'
  BY <1>1, <1>3, <1>6 DEF JustKept
<1>9. FieldsStored'
  BY <1>1, <1>2, <1>3, <1>5, FieldsStay
<1>10. ScalarsStored'
  BY <1>1, <1>2, <1>3, ScalarsStay
<1>11. QueueInv' /\ ReaderInv'
  BY <1>1, <1>2, <1>5, RowsStay, ReadersStay
<1> QED BY <1>5, <1>7, <1>8, <1>9, <1>10, <1>11 DEF StorageInv

LEMMA AllocateBlockKeeps ==
  ASSUME StorageInv, AllocateBlock
  PROVE  StorageInv'
<1>1. /\ source' = source /\ eager' = eager /\ field' = field /\ row_start' = row_start
      /\ fields' = fields /\ scalars' = scalars /\ queue' = queue
      /\ reader' = reader /\ pc = "block" /\ pc' = "count"
  BY DEF AllocateBlock
<1>2. /\ source \in Sources /\ field \in 0..N /\ N \in Nat /\ field \in Nat /\ field < N
      /\ ArenaInv /\ ParserState
  <2>1. source \in Sources /\ field \in 0..N /\ field < N /\ ArenaInv /\ ParserState
    BY <1>1 DEF StorageInv, ParserState
  <2> QED BY <2>1, RowsType
<1> DEFINE required == Parsed[field + 1].raw
           baseline == IF arena.next = 0 THEN PageBytes ELSE arena.next
           new == [cap |-> AtLeast(baseline, required), used |-> 0,
                   start |-> arena.size, bytes |-> <<>>]
           next == IF required > baseline THEN PageBytes
                   ELSE IF baseline < 4 * PageBytes THEN 2 * baseline ELSE baseline
<1>3. /\ arena.count \in Nat /\ arena.size \in Nat /\ arena.next \in Nat
      /\ arena.blocks \in Seq(BlockSet) /\ Len(arena.blocks) = arena.count
      /\ arena = [dir |-> arena.dir, blocks |-> arena.blocks, count |-> arena.count,
                  size |-> arena.size, next |-> arena.next]
  BY <1>1, <1>2 DEF ArenaInv, ArenaShape
<1>4. required \in Nat /\ baseline \in Nat /\ PageBytes \in Nat
  <2>1. field + 1 \in 1..N
    BY <1>2
  <2>2. required \in Nat
    BY <1>2, <2>1, FieldFacts
  <2> QED BY <1>3, <2>2, StorageAssumption
<1>5. new \in BlockSet /\ new.used = 0 /\ new.start = arena.size /\ Len(new.bytes) = 0
      /\ next \in Nat
  <2> HIDE DEF required, baseline
  <2>1. AtLeast(baseline, required) \in Nat /\ next \in Nat
    BY <1>4 DEF AtLeast
  <2>2. <<>> \in Seq(CharSet) /\ Len(<<>>) = 0
    OBVIOUS
  <2> QED BY <1>3, <2>1, <2>2 DEF BlockSet
<1>6. /\ arena'.blocks = Append(arena.blocks, new) /\ arena'.count = arena.count
      /\ arena'.size = arena.size /\ arena'.next = next
      /\ arena' = [dir |-> arena'.dir, blocks |-> arena'.blocks, count |-> arena'.count,
                   size |-> arena'.size, next |-> arena'.next]
  <2> DEFINE dir == IF arena.count >= arena.dir THEN AtLeast(1, 2 * arena.dir) ELSE arena.dir
             blocks == Append(arena.blocks, new)
  <2>1. arena' = [arena EXCEPT !.dir = dir, !.blocks = blocks, !.next = next]
    BY DEF AllocateBlock, Current
  <2> HIDE DEF dir, blocks, next, new
  <2>2. arena' = [dir |-> dir, blocks |-> blocks, count |-> arena.count, size |-> arena.size,
                  next |-> next]
    BY <1>3, <2>1
  <2> QED BY <2>2 DEF blocks
<1> HIDE DEF new, next, required, baseline
<1> DEFINE n == Len(arena.blocks)
<1>7. /\ arena'.blocks \in Seq(BlockSet) /\ Len(arena'.blocks) = n + 1 /\ n = arena.count
      /\ \A b \in 1..n : arena'.blocks[b] = arena.blocks[b]
      /\ arena'.blocks[n + 1] = new
  BY <1>3, <1>5, <1>6, AppendProperties
<1> HIDE DEF n
<1>8. ArenaShape'
  BY <1>1, <1>3, <1>5, <1>6, <1>7 DEF ArenaShape
<1>9. BlocksInOrder(arena.blocks, arena.size)'
  <2>1. BlocksInOrder(arena.blocks, arena.size)
    BY <1>2 DEF ArenaInv
  <2>2. BlocksInOrder(Append(arena.blocks, new), arena.size)
    BY <1>3, <1>5, <2>1, BlockAppended
  <2> QED BY <1>6, <2>2
<1>10. ArenaInv'
  BY <1>8, <1>9 DEF ArenaInv
<1>11. Grown(arena, arena')
  <2>1. \A b \in 1..arena.count : arena'.blocks[b] = arena.blocks[b] /\ arena.blocks[b].used \in Nat
    BY <1>2, <1>7, ArenaFacts
  <2>2. arena.count <= arena'.count /\ \A x \in Nat : x <= x
    BY <1>3, <1>6
  <2> QED BY <2>1, <2>2 DEF Grown
<1>12. /\ Parsed' = Parsed /\ N' = N /\ \A f : Realized(f)' = Realized(f) /\ Text(f)' = Text(f)
       /\ \A f, m : InRow(f, m)' = InRow(f, m)
  BY <1>1, ChunkStays
<1>13. ParserState'
  BY <1>1, <1>2, <1>12 DEF ParserState
<1>14. JustKept'
  BY <1>1 DEF JustKept
<1>15. FieldsStored'
  BY <1>1, <1>2, <1>10, <1>11, FieldsStay
<1>16. ScalarsStored'
  BY <1>1, <1>2, ScalarsStay
<1>17. QueueInv' /\ ReaderInv'
  BY <1>1, <1>2, <1>10, <1>11, RowsStay, ReadersStay
<1> QED BY <1>10, <1>13, <1>14, <1>15, <1>16, <1>17 DEF StorageInv

LEMMA CountBlockKeeps ==
  ASSUME StorageInv, CountBlock
  PROVE  StorageInv'
<1>1. /\ source' = source /\ eager' = eager /\ field' = field /\ row_start' = row_start
      /\ fields' = fields /\ scalars' = scalars /\ queue' = queue
      /\ reader' = reader /\ pc = "count" /\ pc' = "allocate"
      /\ arena' = [arena EXCEPT !.count = @ + 1]
  BY DEF CountBlock
<1>2. /\ source \in Sources /\ field \in 0..N /\ N \in Nat /\ field \in Nat /\ field < N
      /\ ArenaInv /\ ParserState
  <2>1. source \in Sources /\ field \in 0..N /\ field < N /\ ArenaInv /\ ParserState
    BY <1>1 DEF StorageInv, ParserState
  <2> QED BY <2>1, RowsType
<1>3. /\ arena.count \in Nat /\ arena.size \in Nat /\ arena.next \in Nat
      /\ arena.blocks \in Seq(BlockSet) /\ Len(arena.blocks) = arena.count + 1
      /\ arena = [dir |-> arena.dir, blocks |-> arena.blocks, count |-> arena.count,
                  size |-> arena.size, next |-> arena.next]
  BY <1>1, <1>2 DEF ArenaInv, ArenaShape
<1>4. /\ arena'.blocks = arena.blocks /\ arena'.count = arena.count + 1
      /\ arena'.size = arena.size /\ arena'.next = arena.next
      /\ arena' = [dir |-> arena'.dir, blocks |-> arena'.blocks, count |-> arena'.count,
                   size |-> arena'.size, next |-> arena'.next]
  BY <1>1, <1>3
<1>5. ArenaInv'
  <2>1. arena'.count \in Nat /\ arena'.count > 0
    BY <1>3, <1>4
  <2>2. ArenaShape'
    BY <1>1, <1>3, <1>4, <2>1 DEF ArenaShape
  <2> QED BY <1>2, <1>4, <2>2 DEF ArenaInv
<1>6. Grown(arena, arena')
  <2>1. \A b \in 1..arena.count : arena.blocks[b].used \in Nat
    BY <1>2, ArenaFacts
  <2>2. arena.count <= arena'.count /\ \A x \in Nat : x <= x
    BY <1>3, <1>4
  <2> QED BY <1>4, <2>1, <2>2 DEF Grown
<1>7. /\ Parsed' = Parsed /\ N' = N /\ \A f : Realized(f)' = Realized(f) /\ Text(f)' = Text(f)
      /\ \A f, n : InRow(f, n)' = InRow(f, n)
  BY <1>1, ChunkStays
<1>8. ParserState'
  BY <1>1, <1>2, <1>7 DEF ParserState
<1>9. JustKept'
  BY <1>1 DEF JustKept
<1>10. FieldsStored'
  BY <1>1, <1>2, <1>5, <1>6, FieldsStay
<1>11. ScalarsStored'
  BY <1>1, <1>2, ScalarsStay
<1>12. QueueInv' /\ ReaderInv'
  BY <1>1, <1>2, <1>5, <1>6, RowsStay, ReadersStay
<1> QED BY <1>5, <1>8, <1>9, <1>10, <1>11, <1>12 DEF StorageInv

LEMMA AllocateKeeps ==
  ASSUME StorageInv, Allocate
  PROVE  StorageInv'
<1> DEFINE n == Parsed[field + 1].raw
           txt == Text(field + 1)
           gap == [k \in 1..(n - Len(txt)) |-> Unset]
           bytes == txt \o gap
           last == arena.blocks[arena.count]
           filled == [last EXCEPT !.used = @ + n, !.bytes = @ \o bytes]
           blocks == [arena.blocks EXCEPT ![arena.count] = filled]
<1>1. /\ source' = source /\ eager' = eager /\ field' = field /\ row_start' = row_start
      /\ fields' = fields /\ scalars' = scalars /\ queue' = queue
      /\ reader' = reader /\ pc = "allocate" /\ pc' = "emplace"
      /\ arena' = [arena EXCEPT !.blocks[arena.count].used = @ + n,
                                !.blocks[arena.count].bytes = @ \o bytes,
                                !.size = @ + n]
  BY DEF Allocate, Current
<1>2. /\ source \in Sources /\ field \in 0..N /\ N \in Nat /\ field \in Nat /\ field < N
      /\ ArenaInv /\ ParserState /\ field + 1 \in 1..N
  <2>1. source \in Sources /\ field \in 0..N /\ field < N /\ ArenaInv /\ ParserState
    BY <1>1 DEF StorageInv, ParserState
  <2>2. N \in Nat
    BY <2>1, RowsType
  <2> QED BY <2>1, <2>2
<1>3. /\ arena.count \in Nat /\ arena.size \in Nat /\ arena.next \in Nat /\ arena.count > 0
      /\ arena.blocks \in Seq(BlockSet) /\ Len(arena.blocks) = arena.count
      /\ arena = [dir |-> arena.dir, blocks |-> arena.blocks, count |-> arena.count,
                  size |-> arena.size, next |-> arena.next]
      /\ BlocksInOrder(arena.blocks, arena.size) /\ arena.count \in 1..Len(arena.blocks)
  BY <1>1, <1>2 DEF ArenaInv, ArenaShape
<1>4. n \in Nat /\ txt \in Seq(CharSet) /\ Len(txt) \in Nat /\ Len(txt) <= n
  BY <1>2, FieldFacts, TextFacts
<1>5. bytes \in Seq(CharSet) /\ Len(bytes) = n /\ \A k \in 1..Len(txt) : bytes[k] = txt[k]
  <2> DEFINE m == n - Len(txt)
  <2>1. m \in Nat /\ Len(txt) + m = n
    BY <1>4
  <2> HIDE DEF m
  <2>2. gap = [k \in 1..m |-> Unset] /\ Unset \in CharSet
    BY DEF m, Unset, CharSet
  <2>3. gap \in [1..m -> CharSet]
    BY <2>2
  <2>4. gap \in Seq(CharSet) /\ Len(gap) = m
    <3>1. gap \in Seq(CharSet)
      BY <2>1, <2>3, SeqDef
    <3> QED BY <2>1, <2>3, <3>1, LenProperties
  <2> HIDE DEF gap, txt, n
  <2>5. /\ bytes \in Seq(CharSet) /\ Len(bytes) = Len(txt) + m
        /\ \A k \in 1..(Len(txt) + m) : bytes[k] = IF k <= Len(txt) THEN txt[k] ELSE gap[k - Len(txt)]
    BY <1>4, <2>4, ConcatProperties
  <2>6. \A k \in 1..Len(txt) : k \in 1..(Len(txt) + m) /\ k <= Len(txt)
    BY <1>4, <2>1
  <2> QED BY <2>1, <2>5, <2>6
<1> HIDE DEF n, txt, bytes, gap
<1>6. /\ last \in BlockSet /\ last.cap \in Nat /\ last.start \in Nat /\ last.used \in Nat
      /\ last.bytes \in Seq(CharSet) /\ Len(last.bytes) = last.used
      /\ arena.size = last.start + last.used
  <2>1. last \in BlockSet /\ Len(last.bytes) = last.used
    BY <1>2, <1>3, ArenaFacts
  <2>2. arena.blocks # <<>>
    BY <1>3
  <2>3. arena.size = last.start + last.used
    BY <1>3, <2>2 DEF BlocksInOrder
  <2> QED BY <2>1, <2>3 DEF BlockSet
<1> HIDE DEF last
<1>7. /\ last.bytes \o bytes \in Seq(CharSet) /\ Len(last.bytes \o bytes) = last.used + n
      /\ \A k \in 1..(last.used + n) :
            (last.bytes \o bytes)[k] = IF k <= last.used THEN last.bytes[k] ELSE bytes[k - last.used]
  <2> DEFINE p == last.bytes
  <2>1. p \in Seq(CharSet) /\ Len(p) = last.used
    BY <1>6
  <2> HIDE DEF p
  <2>2. /\ p \o bytes \in Seq(CharSet) /\ Len(p \o bytes) = Len(p) + Len(bytes)
        /\ \A k \in 1..(Len(p) + Len(bytes)) :
              (p \o bytes)[k] = IF k <= Len(p) THEN p[k] ELSE bytes[k - Len(p)]
    BY <1>5, <2>1, ConcatProperties
  <2>3. /\ p \o bytes \in Seq(CharSet) /\ Len(p \o bytes) = last.used + n
        /\ \A k \in 1..(last.used + n) :
              (p \o bytes)[k] = IF k <= last.used THEN p[k] ELSE bytes[k - last.used]
    BY <1>5, <2>1, <2>2
  <2> QED BY <2>3 DEF p
<1>8. /\ filled \in BlockSet /\ filled.start = last.start /\ filled.used = last.used + n
      /\ filled.bytes = last.bytes \o bytes /\ Len(filled.bytes) = filled.used
  <2>1. filled = [cap |-> last.cap, used |-> last.used + n, start |-> last.start,
                  bytes |-> last.bytes \o bytes]
    <3>1. last = [cap |-> last.cap, used |-> last.used, start |-> last.start, bytes |-> last.bytes]
      BY <1>6 DEF BlockSet
    <3> DEFINE more == last.bytes \o bytes
               used == last.used + n
    <3>2. filled = [last EXCEPT !.used = used, !.bytes = more]
      OBVIOUS
    <3> HIDE DEF more, used, filled
    <3>3. filled = [cap |-> last.cap, used |-> used, start |-> last.start, bytes |-> more]
      BY <3>1, <3>2
    <3> QED BY <3>3 DEF more, used
  <2> HIDE DEF filled
  <2>2. last.used + n \in Nat
    BY <1>4, <1>6
  <2> QED BY <1>6, <1>7, <2>1, <2>2 DEF BlockSet
<1>9. /\ arena'.blocks = blocks /\ arena'.count = arena.count /\ arena'.size = arena.size + n
      /\ arena'.next = arena.next
      /\ arena' = [dir |-> arena'.dir, blocks |-> arena'.blocks, count |-> arena'.count,
                   size |-> arena'.size, next |-> arena'.next]
  <2>1. arena' = [arena EXCEPT !.blocks = blocks, !.size = arena.size + n]
    BY <1>1, ZenonT(40) DEF last
  <2> HIDE DEF blocks
  <2>2. arena' = [dir |-> arena.dir, blocks |-> blocks, count |-> arena.count,
                  size |-> arena.size + n, next |-> arena.next]
    BY <1>3, <2>1
  <2> QED BY <2>2
<1> HIDE DEF filled
<1>10. /\ BlocksInOrder(blocks, arena.size + n) /\ Len(blocks) = arena.count
       /\ blocks[arena.count] = filled
       /\ \A b \in 1..arena.count : b # arena.count => blocks[b] = arena.blocks[b]
  <2>1. Len(arena.blocks) > 0 /\ filled.used = arena.blocks[Len(arena.blocks)].used + n
        /\ filled.start = arena.blocks[Len(arena.blocks)].start /\ Len(filled.bytes) = filled.used
        /\ blocks = [arena.blocks EXCEPT ![Len(arena.blocks)] = filled]
    BY <1>3, <1>8 DEF last
  <2> HIDE DEF blocks
  <2>2. arena.size \in Nat /\ n \in Nat /\ filled \in BlockSet /\ BlocksInOrder(arena.blocks, arena.size)
    BY <1>3, <1>4, <1>8
  <2>3. BlocksInOrder(blocks, arena.size + n) /\ Len(blocks) = Len(arena.blocks)
    BY <2>1, <2>2, BlockFilled
  <2> QED BY <1>3, <1>8, <2>3, ExceptSeq DEF blocks
<1> HIDE DEF blocks
<1>11. ArenaInv'
  <2>1. arena'.size \in Nat /\ blocks \in Seq(BlockSet)
    BY <1>3, <1>4, <1>9, <1>10 DEF BlocksInOrder
  <2>2. ArenaShape'
    <3>1. /\ arena'.count \in Nat /\ arena'.size \in Nat /\ arena'.next \in Nat
          /\ arena'.blocks \in Seq(BlockSet) /\ Len(arena'.blocks) = arena'.count
          /\ arena'.count > 0 /\ pc' # "count"
      BY <1>1, <1>3, <1>9, <1>10, <2>1
    <3> QED BY <1>9, <3>1 DEF ArenaShape
  <2> QED BY <1>9, <1>10, <2>2 DEF ArenaInv
<1>12. Grown(arena, arena')
  <2>1. \A b \in 1..arena.count : arena.blocks[b].used \in Nat
    BY <1>2, ArenaFacts
  <2>2. arena.count <= arena'.count /\ \A x \in Nat : x <= x
    BY <1>3, <1>9
  <2>3. /\ last.used <= filled.used
        /\ \A k \in 1..last.used : filled.bytes[k] = last.bytes[k]
    BY <1>4, <1>6, <1>7, <1>8
  <2> SUFFICES ASSUME NEW b \in 1..arena.count
               PROVE  /\ arena'.blocks[b].start = arena.blocks[b].start
                      /\ arena.blocks[b].used <= arena'.blocks[b].used
                      /\ \A k \in 1..arena.blocks[b].used :
                            arena'.blocks[b].bytes[k] = arena.blocks[b].bytes[k]
    BY <2>2 DEF Grown
  <2>4. CASE b = arena.count
    BY <1>8, <1>9, <1>10, <2>3, <2>4 DEF last
  <2>5. CASE b # arena.count
    <3>1. arena'.blocks[b] = arena.blocks[b]
      BY <1>9, <1>10, <2>5
    <3> QED BY <2>1, <2>2, <3>1
  <2> QED BY <2>4, <2>5
<1>13. /\ Parsed' = Parsed /\ N' = N /\ \A f : Realized(f)' = Realized(f) /\ Text(f)' = Text(f)
       /\ \A f, m : InRow(f, m)' = InRow(f, m)
  BY <1>1, ChunkStays
<1>14. ParserState'
  BY <1>1, <1>2, <1>13 DEF ParserState
<1>15. JustKept'
  <2>1. arena'.size - n = arena.size
    BY <1>3, <1>4, <1>9
  <2>2. Holds(filled, arena.size, txt)
    <3> DEFINE s == last.start
               u == last.used
               len == Len(txt)
    <3>1. /\ s \in Nat /\ u \in Nat /\ len \in Nat /\ len <= n /\ n \in Nat /\ arena.size = s + u
          /\ filled.start = s /\ filled.used = u + n
          /\ \A k \in 1..(u + n) : filled.bytes[k] = IF k <= u THEN last.bytes[k] ELSE bytes[k - u]
          /\ \A k \in 1..len : bytes[k] = txt[k]
      BY <1>4, <1>5, <1>6, <1>7, <1>8
    <3> HIDE DEF s, u, len
    <3>2. s <= arena.size /\ arena.size + len <= s + (u + n)
      BY <3>1
    <3>3. ASSUME NEW k \in 1..len PROVE filled.bytes[arena.size - s + k] = txt[k]
      <4>1. arena.size - s + k = u + k /\ u + k \in 1..(u + n) /\ ~(u + k <= u) /\ (u + k) - u = k
        BY <3>1
      <4> QED BY <3>1, <4>1
    <3> QED BY <3>1, <3>2, <3>3 DEF Holds, len
  <2>3. Kept(arena', arena.size, txt)
    <3>1. arena.count \in 1..arena'.count /\ arena'.blocks[arena.count] = filled
      BY <1>3, <1>9, <1>10
    <3> QED BY <2>2, <3>1 DEF Kept
  <2> QED BY <1>1, <1>3, <1>13, <2>1, <2>3 DEF JustKept, n, txt
<1>16. FieldsStored'
  BY <1>1, <1>2, <1>11, <1>12, FieldsStay
<1>17. ScalarsStored'
  BY <1>1, <1>2, ScalarsStay
<1>18. QueueInv' /\ ReaderInv'
  BY <1>1, <1>2, <1>11, <1>12, RowsStay, ReadersStay
<1> QED BY <1>11, <1>14, <1>15, <1>16, <1>17, <1>18 DEF StorageInv

LEMMA EmplaceFieldKeeps ==
  ASSUME StorageInv, EmplaceField
  PROVE  StorageInv'
<1> DEFINE f == field + 1
           row == RowOf(f)
           first == Len(FlattenSeq(SubSeq(source.rows, 1, row - 1))) + 1
           data_start == Start(first) - (IF Quoted(first) THEN 1 ELSE 0)
           length == Len(Text(f))
           realized == [start |-> arena.size - Parsed[f].raw, length |-> length, realized |-> TRUE]
           plain == [start |-> Start(f) - data_start, length |-> length, realized |-> FALSE]
           stored == IF Realized(f) THEN realized ELSE plain
<1>1. /\ source' = source /\ eager' = eager /\ field' = field /\ row_start' = row_start
      /\ arena' = arena /\ scalars' = scalars /\ queue' = queue
      /\ reader' = reader /\ pc = "emplace"
      /\ pc' = IF eager /\ ~source.inserted THEN "scalar" ELSE "end"
      /\ fields' = Emplace(fields, stored)
  BY DEF EmplaceField, Current
<1>2. /\ source \in Sources /\ field \in 0..N /\ N \in Nat /\ field \in Nat /\ field < N
      /\ ArenaInv /\ ParserState /\ f \in 1..N /\ f \in Nat /\ eager \in BOOLEAN
  <2>1. source \in Sources /\ field \in 0..N /\ field < N /\ ArenaInv /\ ParserState /\ eager \in BOOLEAN
    BY <1>1 DEF StorageInv, ParserState
  <2>2. N \in Nat
    BY <2>1, RowsType
  <2> QED BY <2>1, <2>2
<1> HIDE DEF f
<1>3. /\ first - 1 \in 0..N /\ InRow(f, first - 1) /\ first \in 1..N /\ first = (first - 1) + 1
  <2>1. RowEnd(row - 1) \in 0..N /\ RowEnd(row - 1) < f /\ InRow(f, RowEnd(row - 1))
    BY <1>2, RowOfFacts
  <2>2. first = RowEnd(row - 1) + 1
    BY DEF RowEnd, FlatTo
  <2> DEFINE e == RowEnd(row - 1)
  <2>3. e \in 0..N /\ e < f /\ InRow(f, e) /\ first = e + 1
    BY <2>1, <2>2
  <2> HIDE DEF e, first
  <2>4. first - 1 = e
    BY <2>3
  <2> QED BY <1>2, <2>3, <2>4
<1> HIDE DEF first
<1>4. data_start = Begin(first)
  BY <1>2, <1>3, StartFacts
<1> HIDE DEF data_start
<1>5. /\ Begin(first) \in Nat /\ Begin(f) \in Nat /\ length \in Nat /\ Parsed[f].raw \in Nat
      /\ Realized(f) \in BOOLEAN /\ arena.size \in Nat /\ (Parsed[f].raw > 0 <=> length > 0)
  <2>1. first \in 1..(N + 1) /\ f \in 1..(N + 1)
    BY <1>2, <1>3
  <2>2. Begin(first) \in Nat /\ Begin(f) \in Nat
    BY <1>2, <2>1, BeginFacts
  <2> QED BY <1>2, <2>2, TextFacts, FieldFacts, ArenaFacts
<1>6. ~Realized(f) => Start(f) = Begin(f)
  BY <1>2, <1>5, StartFacts, FieldFacts
<1> HIDE DEF length
<1>7. stored \in StoredSet /\ IsStored(stored, f)
  <2>1. CASE Realized(f)
    <3>1. stored = realized
      BY <2>1
    <3>2. /\ stored \in StoredSet /\ stored.realized = TRUE /\ stored.length = length
          /\ stored.start = arena.size - Parsed[f].raw
      <4> DEFINE at == arena.size - Parsed[f].raw
      <4>1. at \in Int /\ length \in Nat
        BY <1>5
      <4> HIDE DEF at
      <4>2. stored = [start |-> at, length |-> length, realized |-> TRUE]
        BY <3>1 DEF at
      <4> HIDE DEF stored
      <4>3. stored \in StoredSet /\ stored.realized = TRUE /\ stored.length = length /\ stored.start = at
        BY <4>1, <4>2 DEF StoredSet
      <4> QED BY <4>3 DEF at
    <3> HIDE DEF stored
    <3>3. length > 0 => stored.start \in Nat /\ Kept(arena, stored.start, Text(f))
      BY <1>1, <1>5, <2>1, <3>2 DEF StorageInv, JustKept, f
    <3>4. stored.realized = Realized(f)
      BY <1>5, <2>1, <3>2
    <3> QED BY <2>1, <3>2, <3>3, <3>4 DEF IsStored, length
  <2>2. CASE ~Realized(f)
    <3>1. stored = plain
      BY <2>2
    <3>2. /\ stored \in StoredSet /\ stored.realized = FALSE /\ stored.length = length
          /\ stored.start = Begin(f) - Begin(first)
      <4> DEFINE at == Begin(f) - Begin(first)
      <4>1. at \in Int /\ length \in Nat
        BY <1>5
      <4> HIDE DEF at
      <4>2. stored = [start |-> at, length |-> length, realized |-> FALSE]
        BY <1>4, <1>6, <2>2, <3>1 DEF at
      <4> HIDE DEF stored
      <4>3. stored \in StoredSet /\ stored.realized = FALSE /\ stored.length = length /\ stored.start = at
        BY <4>1, <4>2 DEF StoredSet
      <4> QED BY <4>3 DEF at
    <3> HIDE DEF stored
    <3>3. stored.realized = Realized(f)
      BY <1>5, <2>2, <3>2
    <3>4. \E n \in 0..N : InRow(f, n) /\ stored.start = Begin(f) - Begin(n + 1)
      BY <1>3, <3>2
    <3> QED BY <2>2, <3>2, <3>3, <3>4 DEF IsStored, length
  <2> QED BY <2>1, <2>2
<1> HIDE DEF stored, plain, realized
<1>8. /\ fields.list \in Seq(StoredSet) /\ Len(fields.list) = field
      /\ \A g \in 1..field : IsStored(fields.list[g], g)
  <2>1. /\ fields.list \in Seq(StoredSet)
        /\ Len(fields.list) = field + (IF pc \in {"scalar", "end"} THEN 1 ELSE 0)
        /\ \A g \in 1..Len(fields.list) : IsStored(fields.list[g], g)
    BY DEF StorageInv, FieldsStored
  <2>2. Len(fields.list) = field
    BY <1>1, <1>2, <2>1
  <2> QED BY <2>1, <2>2
<1>9. /\ fields'.list = Append(fields.list, stored)
      /\ fields' = [dir |-> fields'.dir, list |-> fields'.list]
  BY <1>1 DEF Emplace
<1>10. /\ fields'.list \in Seq(StoredSet) /\ Len(fields'.list) = field + 1
       /\ fields'.list[field + 1] = stored
       /\ \A g \in 1..field : fields'.list[g] = fields.list[g]
  BY <1>7, <1>8, <1>9, AppendProperties
<1>11. pc' \in {"scalar", "end"} /\ (pc' = "scalar" => eager /\ ~source.inserted)
  BY <1>1
<1>12. ArenaInv' /\ Grown(arena, arena')
  BY <1>1, <1>11, SameArena
<1>13. /\ Parsed' = Parsed /\ N' = N /\ \A g : Realized(g)' = Realized(g) /\ Text(g)' = Text(g)
       /\ \A g, n : InRow(g, n)' = InRow(g, n)
  BY <1>1, ChunkStays
<1>14. FieldsStored'
  <2>1. \A g \in 1..(field + 1) : IsStored(fields'.list[g], g)
    <3>1. \A g \in 1..(field + 1) : g \in 1..field \/ g = field + 1
      BY <1>2
    <3> QED BY <1>7, <1>8, <1>10, <3>1 DEF f
  <2>2. ASSUME NEW g \in 1..(field + 1) PROVE IsStored(fields.list[g], g)'
    <3>1. PICK x : x = fields'.list[g]
      OBVIOUS
    <3>2. IsStored(x, g) /\ g \in 1..N
      BY <1>2, <2>1, <3>1
    <3>3. IsStored(x, g)'
      BY <1>1, <1>2, <1>12, <3>2, StoredLater
    <3> QED BY <3>1, <3>3
  <2> QED BY <1>1, <1>9, <1>10, <1>11, <2>2 DEF FieldsStored
<1>15. ParserState'
  BY <1>1, <1>2, <1>11, <1>13 DEF ParserState
<1>16. JustKept'
  BY <1>11 DEF JustKept
<1>17. ScalarsStored'
  <2>1. (field + (IF pc = "end" THEN 1 ELSE 0))' = field + (IF pc = "end" THEN 1 ELSE 0)
        \/ ~(eager /\ ~source.inserted)
    BY <1>1
  <2>2. CASE eager /\ ~source.inserted
    BY <1>1, <2>1, <2>2, ScalarsStay
  <2>3. CASE ~(eager /\ ~source.inserted)
    BY <1>1, <2>3 DEF StorageInv, ScalarsStored
  <2> QED BY <2>2, <2>3
<1>18. QueueInv' /\ ReaderInv'
  BY <1>1, <1>2, <1>12, RowsStay, ReadersStay
<1> QED BY <1>12, <1>14, <1>15, <1>16, <1>17, <1>18 DEF StorageInv

LEMMA AppendScalarKeeps ==
  ASSUME StorageInv, AppendScalar
  PROVE  StorageInv'
<1>1. /\ source' = source /\ eager' = eager /\ field' = field /\ row_start' = row_start
      /\ arena' = arena /\ fields' = fields /\ queue' = queue
      /\ reader' = reader /\ pc = "scalar" /\ pc' = "end"
      /\ scalars' = Emplace(scalars, Text(field + 1))
  BY DEF AppendScalar, Current
<1>2. /\ source \in Sources /\ field \in 0..N /\ N \in Nat /\ field \in Nat /\ field < N
      /\ ArenaInv /\ ParserState /\ field + 1 \in 1..N /\ eager /\ ~source.inserted
  <2>1. source \in Sources /\ field \in 0..N /\ field < N /\ ArenaInv /\ ParserState
        /\ eager /\ ~source.inserted
    BY <1>1 DEF StorageInv, ParserState
  <2>2. N \in Nat
    BY <2>1, RowsType
  <2> QED BY <2>1, <2>2
<1>3. /\ scalars.list \in Seq(Seq(CharSet)) /\ Len(scalars.list) = field
      /\ \A f \in 1..field : scalars.list[f] = Text(f)
  BY <1>1, <1>2 DEF StorageInv, ScalarsStored
<1> DEFINE txt == Text(field + 1)
<1>4. txt \in Seq(CharSet)
  BY <1>2, TextFacts
<1>5. /\ scalars'.list = Append(scalars.list, txt)
      /\ scalars' = [dir |-> scalars'.dir, list |-> scalars'.list]
  BY <1>1 DEF Emplace
<1> HIDE DEF txt
<1>6. /\ scalars'.list \in Seq(Seq(CharSet)) /\ Len(scalars'.list) = field + 1
      /\ scalars'.list[field + 1] = txt
      /\ \A f \in 1..field : scalars'.list[f] = scalars.list[f]
  BY <1>3, <1>4, <1>5, AppendProperties
<1>7. \A f \in 1..(field + 1) : scalars'.list[f] = Text(f)
  <2>1. \A f \in 1..(field + 1) : f \in 1..field \/ f = field + 1
    BY <1>2
  <2> QED BY <1>3, <1>6, <2>1 DEF txt
<1>8. /\ Parsed' = Parsed /\ N' = N /\ \A f : Realized(f)' = Realized(f) /\ Text(f)' = Text(f)
      /\ \A f, n : InRow(f, n)' = InRow(f, n)
  BY <1>1, ChunkStays
<1>9. ScalarsStored'
  <2>1. \A f \in 1..Len(scalars'.list) : scalars'.list[f] = Text(f)
    BY <1>6, <1>7
  <2> QED BY <1>1, <1>2, <1>5, <1>6, <1>8, <2>1 DEF ScalarsStored
<1>10. ArenaInv' /\ Grown(arena, arena')
  BY <1>1, SameArena
<1>11. ParserState'
  BY <1>1, <1>2, <1>8 DEF ParserState
<1>12. JustKept'
  BY <1>1 DEF JustKept
<1>13. FieldsStored'
  BY <1>1, <1>10, FieldsStay
<1>14. QueueInv' /\ ReaderInv'
  BY <1>1, <1>2, <1>10, RowsStay, ReadersStay
<1> QED BY <1>9, <1>10, <1>11, <1>12, <1>13, <1>14 DEF StorageInv

LEMMA EndFieldKeeps ==
  ASSUME StorageInv, EndField
  PROVE  StorageInv'
<1> DEFINE f == field + 1
           row == RowOf(f)
           last == Len(FlattenSeq(SubSeq(source.rows, 1, row))) = f
           start == Start(row_start + 1) - (IF Quoted(row_start + 1) THEN 1 ELSE 0)
           pushed == [data_start |-> start, fields_start |-> row_start,
                      row_length |-> Len(fields.list) - row_start]
<1>1. /\ source' = source /\ eager' = eager /\ field' = f /\ arena' = arena
      /\ fields' = fields /\ scalars' = scalars /\ reader' = reader /\ pc = "end" /\ pc' = "field"
      /\ last => queue' = Append(queue, pushed) /\ row_start' = Len(fields.list)
      /\ ~last => queue' = queue /\ row_start' = row_start
  BY DEF EndField, Current
<1>2. /\ source \in Sources /\ field \in 0..N /\ N \in Nat /\ field \in Nat /\ field < N
      /\ ArenaInv /\ f \in 1..N /\ f \in Nat /\ eager \in BOOLEAN /\ InRow(f, row_start)
      /\ Len(fields.list) = f
  <2>1. /\ source \in Sources /\ field \in 0..N /\ field < N /\ ArenaInv /\ eager \in BOOLEAN
        /\ InRow(f, row_start) /\ Len(fields.list) = f
    BY <1>1 DEF StorageInv, ParserState, FieldsStored
  <2>2. N \in Nat
    BY <2>1, RowsType
  <2> QED BY <2>1, <2>2
<1>3. /\ Len(source.rows) \in Nat /\ DOMAIN source.rows = 1..Len(source.rows)
      /\ \A i \in 0..Len(source.rows) : RowEnd(i) \in 0..N
      /\ \A i, j \in 0..Len(source.rows) : i <= j => RowEnd(i) <= RowEnd(j)
  BY <1>2, RowsType, RowEnds
<1>4. /\ row \in 1..Len(source.rows) /\ row_start = RowEnd(row - 1) /\ row_start \in 0..N
      /\ row_start < f /\ f <= RowEnd(row) /\ RowEnd(row) \in 0..N
  <2>1. /\ row \in 1..Len(source.rows) /\ RowEnd(row - 1) < f /\ f <= RowEnd(row)
        /\ RowEnd(row - 1) \in 0..N /\ RowEnd(row) \in 0..N /\ InRow(f, RowEnd(row - 1))
    BY <1>2, RowOfFacts
  <2>2. row_start = RowEnd(row - 1)
    BY <1>2, <2>1, OneStart
  <2> QED BY <2>1, <2>2
<1>5. last <=> RowEnd(row) = f
  BY DEF RowEnd, FlatTo
<1> HIDE DEF last, row
<1>6. start = Begin(row_start + 1) /\ Begin(row_start + 1) \in Nat /\ row_start \in Nat
  <2>1. row_start + 1 \in 1..N /\ row_start + 1 \in 1..(N + 1) /\ row_start \in Nat
    BY <1>2, <1>4
  <2> QED BY <1>2, <2>1, StartFacts, BeginFacts
<1> HIDE DEF start
<1>7. /\ Parsed' = Parsed /\ N' = N /\ \A g : Realized(g)' = Realized(g) /\ Text(g)' = Text(g)
      /\ \A g, n : InRow(g, n)' = InRow(g, n)
      /\ \A g : Begin(g)' = Begin(g)
  BY <1>1, ChunkStays
<1>8. ArenaInv' /\ Grown(arena, arena')
  BY <1>1, SameArena
<1> HIDE DEF f
<1>9. f < N => InRow(f + 1, row_start')
  <2> SUFFICES ASSUME f < N PROVE InRow(f + 1, row_start')
    OBVIOUS
  <2>1. CASE ~last
    <3>1. f + 1 <= RowEnd(row) /\ row_start < f + 1
      BY <1>2, <1>4, <1>5, <1>6, <2>1
    <3> QED BY <1>1, <1>3, <1>4, <2>1, <3>1 DEF InRow
  <2>2. CASE last
    <3>1. f + 1 \in 1..N
      BY <1>2
    <3>2. PICK j \in 1..Len(source.rows) : RowEnd(j - 1) < f + 1 /\ f + 1 <= RowEnd(j)
      BY <1>2, <3>1, EveryFieldInRow
    <3>3. /\ j \in 0..Len(source.rows) /\ j - 1 \in 0..Len(source.rows) /\ row \in 0..Len(source.rows)
          /\ RowEnd(j) \in Nat /\ RowEnd(j - 1) \in Nat
      <4>1. j \in 0..Len(source.rows) /\ j - 1 \in 0..Len(source.rows) /\ row \in 0..Len(source.rows)
        BY <1>3, <1>4
      <4>2. RowEnd(j) \in 0..N /\ RowEnd(j - 1) \in 0..N
        BY <1>3, <4>1
      <4> QED BY <4>1, <4>2
    <3>4. ~(j <= row)
      <4>1. j <= row => RowEnd(j) <= f
        BY <1>3, <1>5, <2>2, <3>3
      <4> QED BY <1>2, <3>2, <3>3, <4>1
    <3>5. f <= RowEnd(j - 1)
      <4>1. row <= j - 1
        BY <1>3, <3>3, <3>4
      <4> QED BY <1>3, <1>5, <2>2, <3>3, <4>1
    <3>6. RowEnd(j - 1) = f
      BY <1>2, <3>2, <3>3, <3>5
    <3>7. f < f + 1
      BY <1>2
    <3> QED BY <1>1, <1>2, <1>3, <2>2, <3>2, <3>6, <3>7 DEF InRow
  <2> QED BY <2>1, <2>2
<1>10. ParserState'
  <2>1. (field < N)' => InRow(field + 1, row_start)'
    BY <1>1, <1>7, <1>9
  <2> QED BY <1>1, <1>2, <1>7, <2>1 DEF ParserState
<1>11. JustKept'
  BY <1>1 DEF JustKept
<1>12. FieldsStored'
  BY <1>1, <1>2, <1>8, FieldsStay DEF f
<1>13. ScalarsStored'
  BY <1>1, <1>2, ScalarsStay DEF f
<1>14. field' \in Nat /\ field <= field'
  BY <1>1, <1>2 DEF f
<1>15. ReaderInv'
  BY <1>1, <1>8, <1>14, ReadersStay
<1>16. QueueInv'
  <2>1. CASE ~last
    BY <1>1, <1>14, <2>1, RowsStay
  <2>2. CASE last
    <3>1. /\ queue \in Seq(RowSet) /\ \A i \in 1..Len(queue) : IsQueued(queue[i])
      BY DEF StorageInv, QueueInv
    <3>2. Len(queue) \in Nat
      BY <3>1, LenProperties
    <3>3. PICK p : p = pushed
      OBVIOUS
    <3>4. /\ p \in RowSet /\ p.fields_start = row_start /\ p.row_length = f - row_start
          /\ p.data_start = Begin(row_start + 1) /\ p.row_length \in Nat
      <4> DEFINE n == f - row_start
      <4>1. n \in Nat
        BY <1>2, <1>4, <1>6
      <4>2. p = [data_start |-> start, fields_start |-> row_start, row_length |-> n]
        BY <1>2, <3>3
      <4> HIDE DEF n
      <4>3. /\ p \in RowSet /\ p.fields_start = row_start /\ p.row_length = n
            /\ p.data_start = Begin(row_start + 1)
        BY <1>6, <4>1, <4>2 DEF RowSet
      <4> QED BY <4>1, <4>3 DEF n
    <3>5. IsQueued(p)'
      <4>1. p.fields_start + p.row_length = f
        BY <1>2, <1>6, <3>4
      <4>2. f <= f
        BY <1>2
      <4>3. \A g \in (row_start + 1)..f : InRow(g, row_start)
        <5> SUFFICES ASSUME NEW g \in (row_start + 1)..f PROVE InRow(g, row_start)
          OBVIOUS
        <5>1. row_start < g /\ g <= RowEnd(row)
          BY <1>2, <1>4, <1>6
        <5> QED BY <1>3, <1>4, <5>1 DEF InRow
      <4>4. \A g \in (p.fields_start + 1)..(p.fields_start + p.row_length) :
               InRow(g, p.fields_start)
        BY <3>4, <4>1, <4>3
      <4> QED BY <1>1, <1>6, <1>7, <3>4, <4>1, <4>2, <4>4 DEF IsQueued
    <3>6. /\ queue' \in Seq(RowSet) /\ Len(queue') = Len(queue) + 1
          /\ queue'[Len(queue) + 1] = p
          /\ \A i \in 1..Len(queue) : queue'[i] = queue[i]
      <4>1. queue' = Append(queue, p)
        BY <1>1, <2>2, <3>3
      <4> QED BY <3>1, <3>4, <4>1, AppendProperties
    <3>7. \A i \in 1..Len(queue') : IsQueued(queue[i])'
      <4> SUFFICES ASSUME NEW i \in 1..Len(queue') PROVE IsQueued(queue[i])'
        OBVIOUS
      <4>1. PICK q : q = queue'[i]
        OBVIOUS
      <4>2. i \in 1..Len(queue) \/ i = Len(queue) + 1
        BY <3>2, <3>6
      <4>3. CASE i \in 1..Len(queue)
        <5>1. IsQueued(q)
          BY <3>1, <3>6, <4>1, <4>3
        <5>2. IsQueued(q)'
          BY <1>1, <1>14, <5>1, RowLater
        <5> QED BY <4>1, <5>2
      <4>4. CASE i = Len(queue) + 1
        <5>1. q = p
          BY <3>6, <4>1, <4>4
        <5> QED BY <3>5, <4>1, <5>1
      <4> QED BY <4>2, <4>3, <4>4
    <3> QED BY <3>6, <3>7 DEF QueueInv
  <2> QED BY <2>1, <2>2
<1> QED BY <1>8, <1>10, <1>11, <1>12, <1>13, <1>15, <1>16 DEF StorageInv

-----------------------------------------------------------------------------
LEMMA StorageNext == StorageInv /\ [Next]_vars => StorageInv'
<1> SUFFICES ASSUME StorageInv, [Next]_vars PROVE StorageInv'
  OBVIOUS
<1>1. CASE Parser
  BY <1>1, PushFieldKeeps, AllocateBlockKeeps, CountBlockKeeps, AllocateKeeps,
     EmplaceFieldKeeps, AppendScalarKeeps, EndFieldKeeps DEF Parser
<1>2. ASSUME NEW r \in Readers, NEW i \in DOMAIN queue, NEW index \in 0..queue[i].row_length,
             GetField(r, queue[i], index)
      PROVE  StorageInv'
  BY <1>2, GetFieldKeeps
<1>3. ASSUME NEW r \in Readers, Search(r) PROVE StorageInv'
  BY <1>3, SearchKeeps
<1>4. CASE UNCHANGED vars
  <2>1. UNCHANGED <<source, eager, parserVars, reader>>
    BY <1>4 DEF vars
  <2>2. source' = source /\ eager' = eager /\ pc' = pc /\ field' = field /\ row_start' = row_start
        /\ arena' = arena /\ fields' = fields /\ scalars' = scalars /\ queue' = queue
        /\ reader' = reader
    BY <2>1 DEF parserVars
  <2>3. /\ Parsed' = Parsed /\ N' = N
        /\ \A f : Realized(f)' = Realized(f) /\ Text(f)' = Text(f) /\ Begin(f)' = Begin(f)
        /\ \A f, n : InRow(f, n)' = InRow(f, n)
    BY <2>2, ChunkStays
  <2>4. ParserState' /\ JustKept'
    BY <2>2, <2>3 DEF StorageInv, ParserState, JustKept
  <2>5. ArenaInv'
    BY <2>2 DEF StorageInv, ArenaInv, ArenaShape
  <2>6. FieldsStored' /\ ScalarsStored'
    BY <2>2, <2>3 DEF StorageInv, FieldsStored, IsStored, ScalarsStored
  <2>7. QueueInv' /\ ReaderInv'
    BY <2>2, <2>3 DEF StorageInv, QueueInv, IsQueued, ReaderInv, Searches, HasRead
  <2> QED BY <2>4, <2>5, <2>6, <2>7 DEF StorageInv
<1> QED BY <1>1, <1>2, <1>3, <1>4 DEF Next

(* A reader of a queued row finds the block that holds its field, however   *)
(* far the parser is with what it appends meanwhile (raw_csv_data.hpp,      *)
(* find_block() and emplace_back() without a lock), and gets the text that  *)
(* was parsed and the scalar made of it.                                    *)
THEOREM ReadersReadTheirText == Spec => []ReadersReadWhatWasParsed
<1>1. StorageInv => ReadersReadWhatWasParsed
  BY DEF StorageInv, ReaderInv, HasRead, ReadersReadWhatWasParsed
<1> QED BY <1>1, StorageInit, StorageNext, PTL DEF Spec

-----------------------------------------------------------------------------
(* What reserve_for_source_size() sets aside.  All blocks of the arena but  *)
(* the last account for a page of realized text each, the one being written *)
(* included; a block that follows a text too large for its predecessor's    *)
(* size starts again at one page, but then the predecessor is full.         *)
Raw == Parsed[field + 1].raw
Committed == arena.size + (IF pc \in {"count", "allocate"} THEN Raw ELSE 0)
LastEnd == arena.blocks[Len(arena.blocks)].start + arena.blocks[Len(arena.blocks)].cap
Pages ==
    LET m == Len(arena.blocks)
    IN  IF m = 0 THEN arena.next = 0
        ELSE /\ PageBytes * (m - 1) <= Committed
             /\ PageBytes * m <= LastEnd
             /\ PageBytes <= arena.next
             /\ arena.next < 2 * PageBytes => LastEnd <= Committed
Room ==
    /\ arena.dir = CeilDiv(SourceSize, PageBytes) + 1
    /\ fields.dir \in Nat /\ BlocksFor(SourceSize) <= fields.dir
    /\ scalars.dir \in Nat /\ BlocksFor(SourceSize) <= scalars.dir
    /\ arena.size <= Begin(field + 1) + (IF pc \in {"emplace", "scalar", "end"} THEN Raw ELSE 0)
    /\ Pages
    /\ pc = "block" => NeedsBlock(Raw)
CapacityInv ==
    /\ ~source.inserted => Room
    /\ source.inserted /\ queue # <<>> => field = N

LEMMA TimesGrows ==
  ASSUME NEW p \in Nat, NEW a \in Nat, NEW b \in Nat, a <= b
  PROVE  p * a \in Nat /\ p * b \in Nat /\ p * a <= p * b
<1> DEFINE T == {k \in Nat : p * a <= p * (a + k)}
<1>1. p * a \in Nat /\ p * b \in Nat
  OBVIOUS
<1>2. 0 \in T
  BY <1>1
<1>3. ASSUME NEW k \in Nat, k \in T PROVE k + 1 \in T
  <2>1. p * (a + (k + 1)) = p * (a + k) + p /\ p * (a + k) \in Nat
    OBVIOUS
  <2>2. p * a <= p * (a + k)
    BY <1>3
  <2> QED BY <1>1, <2>1, <2>2
<1> HIDE DEF T
<1>4. Nat \subseteq T
  BY <1>2, <1>3, Induction
<1>5. b - a \in T /\ a + (b - a) = b
  BY <1>4
<1> QED BY <1>1, <1>5 DEF T

LEMMA DivBounds ==
  ASSUME NEW p \in Nat \ {0}, NEW x \in Nat
  PROVE  /\ x \div p \in Nat /\ p * (x \div p) <= x
         /\ x < p * (x \div p) + p
  OBVIOUS

(* So many pages are in the directory. *)
LEMMA PagesFit ==
  ASSUME NEW p \in Nat \ {0}, NEW m \in Nat, NEW s \in Nat, p * m <= s
  PROVE  m < CeilDiv(s, p) + 1 /\ CeilDiv(s, p) \in Nat
<1> DEFINE q == (s + p - 1) \div p
<1>1. s + p - 1 \in Nat
  OBVIOUS
<1>2. q \in Nat /\ s + p - 1 < p * q + p
  BY <1>1, DivBounds
<1> HIDE DEF q
<1>3. ~(q + 1 <= m)
  <2>1. q + 1 <= m => p * (q + 1) <= p * m /\ p * (q + 1) = p * q + p
    BY <1>2, TimesGrows
  <2>2. p * q \in Nat /\ p * m \in Nat
    BY <1>2
  <2> QED BY <1>2, <2>1, <2>2
<1>4. m < q + 1
  BY <1>2, <1>3
<1> QED BY <1>2, <1>4 DEF q, CeilDiv

LEMMA BlocksFit ==
  ASSUME NEW n \in Nat, NEW size \in Nat, n <= size
  PROVE  n \div FieldsPerBlock < BlocksFor(size) /\ BlocksFor(size) \in Nat
         /\ n \div FieldsPerBlock \in Nat
<1> DEFINE p == FieldsPerBlock
<1>1. p \in Nat \ {0}
  BY StorageAssumption
<1> HIDE DEF p
<1> DEFINE m == n \div p
<1>2. m \in Nat /\ p * m <= n
  BY <1>1, DivBounds
<1> DEFINE q == ((size + 1) + p - 1) \div p
<1>3. q \in Nat /\ size + p < p * q + p
  <2>1. (size + 1) + p - 1 \in Nat /\ (size + 1) + p - 1 = size + p
    BY <1>1
  <2> QED BY <1>1, <2>1, DivBounds
<1> HIDE DEF m, q
<1>4. ~(q <= m)
  <2>1. q <= m => p * q <= p * m
    BY <1>1, <1>2, <1>3, TimesGrows
  <2>2. p * q \in Nat /\ p * m \in Nat
    BY <1>1, <1>2, <1>3
  <2> QED BY <1>1, <1>2, <1>3, <2>1, <2>2
<1>5. m < q
  BY <1>2, <1>3, <1>4
<1> QED BY <1>2, <1>3, <1>5 DEF m, q, p, BlocksFor, CeilDiv

(* The text of a field, and a separator for each field before it, are in    *)
(* the chunk.                                                               *)
LEMMA SizeFacts ==
  ASSUME source \in Sources, NEW f \in 1..N
  PROVE  /\ SourceSize \in Nat /\ Begin(f) \in Nat /\ Parsed[f].raw \in Nat
         /\ Begin(f) + Parsed[f].raw <= SourceSize
         /\ Begin(f) + Parsed[f].raw <= Begin(f + 1)
         /\ f - 1 <= SourceSize
<1>1. N \in Nat
  BY RowsType
<1>2. /\ \A g \in 1..(N + 1) : Begin(g) \in Nat
      /\ \A g \in 1..N : Begin(g + 1) = Begin(g) + Len(Bytes(g)) + 1
      /\ \A g, h \in 1..(N + 1) : g <= h => Begin(g) <= Begin(h)
      /\ Begin(1) = 0 /\ Len(Data) = Begin(N + 1)
  BY BeginFacts
<1>3. \A g \in 1..N : /\ Len(Bytes(g)) \in Nat /\ Parsed[g].raw \in Nat
                      /\ Parsed[g].raw <= Len(Bytes(g))
  <2> SUFFICES ASSUME NEW g \in 1..N
               PROVE  /\ Len(Bytes(g)) \in Nat /\ Parsed[g].raw \in Nat
                      /\ Parsed[g].raw <= Len(Bytes(g))
    OBVIOUS
  <2>1. Len(Bytes(g)) = Parsed[g].raw + (IF Quoted(g) THEN 2 ELSE 0) /\ Parsed[g].raw \in Nat
        /\ Len(Bytes(g)) \in Nat
    BY BytesFacts, FieldFacts
  <2> DEFINE a == Parsed[g].raw
             b == Len(Bytes(g))
  <2>2. a \in Nat /\ b \in Nat /\ (b = a \/ b = a + 2)
    BY <2>1
  <2> HIDE DEF a, b
  <2>3. a <= b
    BY <2>2
  <2> QED BY <2>2, <2>3 DEF a, b
<1> DEFINE T == {k \in Nat : k + 1 \in 1..N => k <= Begin(k + 1)}
<1>4. 0 \in T
  BY <1>2
<1>5. ASSUME NEW k \in Nat, k \in T PROVE k + 1 \in T
  <2> SUFFICES ASSUME (k + 1) + 1 \in 1..N PROVE k + 1 <= Begin((k + 1) + 1)
    OBVIOUS
  <2>1. k + 1 \in 1..N /\ k <= Begin(k + 1) /\ k + 1 \in 1..(N + 1)
    BY <1>1, <1>5
  <2>2. /\ Begin((k + 1) + 1) = Begin(k + 1) + Len(Bytes(k + 1)) + 1
        /\ Begin(k + 1) \in Nat /\ Len(Bytes(k + 1)) \in Nat
    BY <1>2, <1>3, <2>1
  <2> DEFINE a == Begin(k + 1)
             b == Len(Bytes(k + 1))
             c == Begin((k + 1) + 1)
  <2>3. a \in Nat /\ b \in Nat /\ c = a + b + 1 /\ k <= a
    BY <2>1, <2>2
  <2> HIDE DEF a, b, c
  <2>4. k + 1 <= c
    BY <2>3
  <2> QED BY <2>4 DEF c
<1> HIDE DEF T
<1>6. Nat \subseteq T
  BY <1>4, <1>5, Induction
<1>7. f - 1 <= Begin(f)
  <2>1. f - 1 \in T /\ (f - 1) + 1 = f
    BY <1>1, <1>6
  <2> QED BY <2>1 DEF T
<1> DEFINE a == Begin(f)
           b == Len(Bytes(f))
           c == Begin(f + 1)
           e == Begin(N + 1)
           n == Parsed[f].raw
<1>8. /\ a \in Nat /\ b \in Nat /\ c = a + b + 1 /\ n \in Nat /\ n <= b /\ f - 1 <= a
      /\ c <= e /\ e \in Nat /\ SourceSize = e - 1 /\ f \in Nat
  <2>1. f \in 1..(N + 1) /\ f + 1 \in 1..(N + 1) /\ N + 1 \in 1..(N + 1) /\ f + 1 <= N + 1 /\ f \in Nat
    BY <1>1
  <2> QED BY <1>2, <1>3, <1>7, <2>1 DEF SourceSize
<1> HIDE DEF a, b, c, e, n
<1>9. SourceSize \in Nat /\ a + n <= SourceSize /\ a + n <= c /\ f - 1 <= SourceSize
  BY <1>8
<1> QED BY <1>8, <1>9 DEF a, c, n

LEMMA CapacityInit == Init => CapacityInv
<1> SUFFICES ASSUME Init PROVE CapacityInv
  OBVIOUS
<1>1. /\ source \in Sources /\ pc = "field" /\ field = 0 /\ queue = <<>>
      /\ ~source.inserted => /\ arena = ArenaReserved(SourceSize)
                             /\ fields = ListReserved(SourceSize)
                             /\ scalars = ListReserved(SourceSize)
  BY DEF Init
<1>2. ASSUME ~source.inserted PROVE Room
  <2>1. /\ arena.dir = CeilDiv(SourceSize, PageBytes) + 1 /\ arena.blocks = <<>>
        /\ arena.count = 0 /\ arena.size = 0 /\ arena.next = 0
    BY <1>1, <1>2 DEF ArenaReserved
  <2>2. BlocksFor(ChunkDefault) \in Nat /\ BlocksFor(SourceSize) \in Nat
    <3>1. ChunkDefault \in Nat /\ FieldsPerBlock \in Nat \ {0}
      BY StorageAssumption
    <3>2. SourceSize + 1 \in Nat
      <4>1. N \in Nat /\ Len(Data) = Begin(N + 1) /\ N + 1 \in 1..(N + 1)
        BY <1>1, RowsType, BeginFacts
      <4>2. Len(Data) \in Nat
        BY <1>1, <4>1, BeginFacts
      <4> QED BY <4>2 DEF SourceSize
    <3> DEFINE p == FieldsPerBlock
               a == ChunkDefault + 1
               b == SourceSize + 1
    <3>3. p \in Nat \ {0} /\ a \in Nat /\ b \in Nat
      BY <3>1, <3>2
    <3> HIDE DEF p, a, b
    <3>4. a + p - 1 \in Nat /\ b + p - 1 \in Nat
      BY <3>3
    <3>5. (a + p - 1) \div p \in Nat /\ (b + p - 1) \div p \in Nat
      BY <3>3, <3>4, DivBounds
    <3> QED BY <3>5 DEF a, b, p, BlocksFor, CeilDiv
  <2>3. ListReserved(SourceSize).dir \in Nat /\ BlocksFor(SourceSize) <= ListReserved(SourceSize).dir
    BY <2>2 DEF ListReserved, AtLeast
  <2>4. Begin(field + 1) = 0
    <3>1. field + 1 = 1
      BY <1>1
    <3> QED BY <1>1, <3>1, BeginFacts
  <2>5. Pages
    <3>1. Len(arena.blocks) = 0
      BY <2>1
    <3> QED BY <2>1, <3>1 DEF Pages
  <2>6. arena.size <= Begin(field + 1) + (IF pc \in {"emplace", "scalar", "end"} THEN Raw ELSE 0)
    BY <1>1, <2>1, <2>4
  <2> QED BY <1>1, <1>2, <2>1, <2>3, <2>5, <2>6 DEF Room
<1> QED BY <1>1, <1>2 DEF CapacityInv

(* What stays when the arena's blocks do.                                   *)
LEMMA PagesLater ==
  ASSUME Pages, Len(arena.blocks) \in Nat, arena'.next = arena.next,
         Len(arena'.blocks) = Len(arena.blocks), Len(arena.blocks) # 0 => LastEnd' = LastEnd,
         LastEnd \in Nat \/ Len(arena.blocks) = 0, Committed \in Nat, Committed' \in Nat,
         Committed <= Committed'
  PROVE  Pages'
<1> DEFINE m == Len(arena.blocks)
<1>1. CASE m = 0
  BY <1>1 DEF Pages
<1>2. CASE m # 0
  <2>1. /\ PageBytes * (m - 1) <= Committed /\ PageBytes * m <= LastEnd /\ PageBytes <= arena.next
        /\ arena.next < 2 * PageBytes => LastEnd <= Committed
    BY <1>2 DEF Pages
  <2> DEFINE x == PageBytes * (m - 1)
             c == Committed
             d == Committed'
             e == LastEnd
  <2>2. x \in Nat /\ c \in Nat /\ d \in Nat /\ c <= d /\ x <= c /\ e \in Nat
    <3>1. PageBytes \in Nat /\ m - 1 \in Nat
      BY <1>2, StorageAssumption
    <3>2. x \in Nat
      BY <3>1
    <3> QED BY <1>2, <2>1, <3>2
  <2> HIDE DEF x, c, d, e
  <2>3. x <= d /\ (e <= c => e <= d)
    BY <2>2
  <2>4. PageBytes * (m - 1) <= Committed' /\ (LastEnd <= Committed => LastEnd <= Committed')
    BY <2>3 DEF x, c, d, e
  <2>5. LastEnd' = LastEnd
    BY <1>2
  <2>6. /\ PageBytes * (m - 1) <= Committed' /\ PageBytes * m <= LastEnd' /\ PageBytes <= arena'.next
        /\ arena'.next < 2 * PageBytes => LastEnd' <= Committed'
    BY <2>1, <2>4, <2>5
  <2> HIDE DEF m
  <2>7. Len(arena'.blocks) = m
    BY DEF m
  <2> QED BY <1>2, <2>6, <2>7 DEF Pages
<1> QED BY <1>1, <1>2

(* Once the inserted row can be read the parser has nothing left.           *)
LEMMA ParserStops ==
  ASSUME StorageInv, CapacityInv, source.inserted, queue # <<>>, Parser
  PROVE  FALSE
<1>1. field = N /\ source \in Sources /\ (pc # "field" => field < N) /\ N \in Nat
  <2>1. field = N /\ source \in Sources /\ (pc # "field" => field < N)
    BY DEF StorageInv, ParserState, CapacityInv
  <2> QED BY <2>1, RowsType
<1>2. pc = "field"
  BY <1>1
<1>3. PushField
  BY <1>2 DEF Parser, AllocateBlock, CountBlock, Allocate, EmplaceField, AppendScalar, EndField
<1>4. field < N
  BY <1>3 DEF PushField, N
<1> QED BY <1>1, <1>4

(* The state of the parser, for the steps that follow. *)
LEMMA CapacityFacts ==
  ASSUME StorageInv, CapacityInv
  PROVE  /\ source \in Sources /\ field \in 0..N /\ N \in Nat /\ field \in Nat
         /\ source.inserted \in BOOLEAN /\ arena.size \in Nat /\ Len(arena.blocks) \in Nat
         /\ Begin(field + 1) \in Nat
         /\ field < N => /\ SourceSize \in Nat /\ Raw \in Nat
                         /\ Begin(field + 1) + Raw <= SourceSize
                         /\ Begin(field + 1) + Raw <= Begin(field + 2)
                         /\ Begin(field + 2) \in Nat
                         /\ field <= SourceSize
         /\ PageBytes \in Nat \ {0}
<1>1. /\ source \in Sources /\ field \in 0..N /\ N \in Nat /\ field \in Nat
      /\ source.inserted \in BOOLEAN /\ arena.size \in Nat /\ Len(arena.blocks) \in Nat
  <2>1. source \in Sources /\ field \in 0..N /\ ArenaInv
    BY DEF StorageInv, ParserState
  <2> QED BY <2>1, RowsType, ArenaFacts
<1>2. Begin(field + 1) \in Nat
  <2>1. field + 1 \in 1..(N + 1)
    BY <1>1
  <2> QED BY <1>1, <2>1, BeginFacts
<1>3. ASSUME field < N
      PROVE  /\ SourceSize \in Nat /\ Raw \in Nat
             /\ Begin(field + 1) + Raw <= SourceSize
             /\ Begin(field + 1) + Raw <= Begin(field + 2)
             /\ Begin(field + 2) \in Nat
             /\ field <= SourceSize
  <2>1. /\ field + 1 \in 1..N /\ (field + 1) + 1 = field + 2 /\ (field + 1) - 1 = field
        /\ field + 2 \in 1..(N + 1)
    BY <1>1, <1>3
  <2>2. /\ SourceSize \in Nat /\ Parsed[field + 1].raw \in Nat
        /\ Begin(field + 1) + Parsed[field + 1].raw <= SourceSize
        /\ Begin(field + 1) + Parsed[field + 1].raw <= Begin((field + 1) + 1)
        /\ (field + 1) - 1 <= SourceSize
    BY <1>1, <2>1, SizeFacts
  <2>3. Begin(field + 2) \in Nat
    BY <1>1, <2>1, BeginFacts
  <2> QED BY <2>1, <2>2, <2>3 DEF Raw
<1> QED BY <1>1, <1>2, <1>3, StorageAssumption

LEMMA RoomStays ==
  ASSUME source' = source
  PROVE  /\ SourceSize' = SourceSize /\ N' = N /\ \A f : Begin(f)' = Begin(f)
<1> QED BY ChunkStays DEF SourceSize

LEMMA LastFacts ==
  ASSUME ArenaInv, Len(arena.blocks) # 0
  PROVE  /\ LastEnd \in Nat /\ Len(arena.blocks) \in 1..Len(arena.blocks)
         /\ arena.blocks[Len(arena.blocks)].cap \in Nat
         /\ arena.blocks[Len(arena.blocks)].start \in Nat
         /\ arena.blocks[Len(arena.blocks)].used \in Nat
         /\ arena.size = arena.blocks[Len(arena.blocks)].start + arena.blocks[Len(arena.blocks)].used
<1>1. Len(arena.blocks) \in Nat /\ \A b \in 1..Len(arena.blocks) : arena.blocks[b] \in BlockSet
  BY ArenaFacts
<1>2. Len(arena.blocks) \in 1..Len(arena.blocks) /\ arena.blocks # <<>>
  BY <1>1
<1>3. arena.blocks[Len(arena.blocks)] \in BlockSet
  BY <1>1, <1>2
<1>4. arena.size = arena.blocks[Len(arena.blocks)].start + arena.blocks[Len(arena.blocks)].used
  BY <1>2 DEF ArenaInv, BlocksInOrder
<1>5. \A x \in BlockSet : /\ x.cap \in Nat /\ x.start \in Nat /\ x.used \in Nat
                          /\ x.start + x.cap \in Nat
  BY DEF BlockSet
<1> QED BY <1>2, <1>3, <1>4, <1>5 DEF LastEnd

LEMMA CommittedFacts ==
  ASSUME StorageInv, CapacityInv
  PROVE  Committed \in Nat /\ arena.size <= Committed
<1>1. /\ arena.size \in Nat /\ (field < N => Raw \in Nat)
      /\ (pc # "field" => field < N)
  BY CapacityFacts DEF StorageInv, ParserState
<1> QED BY <1>1 DEF Committed

(* The page needed next is there. *)
LEMMA PageIsThere ==
  ASSUME StorageInv, CapacityInv, ~source.inserted, field < N, NEW store,
         store = [dir |-> store.dir, list |-> store.list], Len(store.list) = field,
         store.dir \in Nat, BlocksFor(SourceSize) <= store.dir, NEW value
  PROVE  Emplace(store, value).dir = store.dir
<1>1. field \in Nat /\ SourceSize \in Nat /\ field <= SourceSize
  BY CapacityFacts
<1>2. /\ field \div FieldsPerBlock < BlocksFor(SourceSize) /\ BlocksFor(SourceSize) \in Nat
      /\ field \div FieldsPerBlock \in Nat
  BY <1>1, BlocksFit
<1> DEFINE page == Len(store.list) \div FieldsPerBlock
<1>3. page = field \div FieldsPerBlock
  OBVIOUS
<1>4. ~(page >= store.dir)
  BY <1>2, <1>3
<1> QED BY <1>4 DEF Emplace

-----------------------------------------------------------------------------
(* The steps.                                                               *)
DirsStay == arena'.dir = arena.dir /\ fields'.dir = fields.dir /\ scalars'.dir = scalars.dir

LEMMA PushFieldFits ==
  ASSUME StorageInv, CapacityInv, PushField
  PROVE  CapacityInv' /\ DirsStay
<1>1. /\ source' = source /\ field' = field /\ arena' = arena /\ fields' = fields
      /\ scalars' = scalars /\ queue' = queue /\ pc = "field" /\ field < N
      /\ pc' \in {"block", "allocate", "emplace"}
      /\ pc' = "block" => NeedsBlock(Raw)
  BY DEF PushField, N, Current, Raw
<1>2. /\ field \in Nat /\ N \in Nat /\ arena.size \in Nat /\ Len(arena.blocks) \in Nat
      /\ Begin(field + 1) \in Nat /\ Raw \in Nat /\ Committed \in Nat
      /\ Committed = arena.size
  BY <1>1, CapacityFacts, CommittedFacts DEF Committed
<1>3. SourceSize' = SourceSize /\ N' = N /\ Begin(field + 1)' = Begin(field + 1) /\ Raw' = Raw
  BY <1>1, RoomStays, ChunkStays DEF Raw
<1>4. CASE source.inserted
  BY <1>1, <1>3, <1>4 DEF CapacityInv, DirsStay
<1>5. CASE ~source.inserted
  <2>1. Room
    BY <1>5 DEF CapacityInv
  <2>2. Committed' \in Nat /\ Committed <= Committed'
    <3>1. Committed' = arena.size + (IF pc' \in {"count", "allocate"} THEN Raw ELSE 0)
      BY <1>1, <1>3 DEF Committed
    <3> QED BY <1>2, <3>1
  <2>3. Pages'
    <3>1. LastEnd' = LastEnd /\ Pages
      BY <1>1, <2>1 DEF LastEnd, Room
    <3>2. LastEnd \in Nat \/ Len(arena.blocks) = 0
      BY LastFacts DEF StorageInv
    <3> QED BY <1>1, <1>2, <2>2, <3>1, <3>2, PagesLater
  <2>4. (arena.size <= Begin(field + 1) + (IF pc \in {"emplace", "scalar", "end"} THEN Raw ELSE 0))'
    <3>1. arena.size <= Begin(field + 1)
      BY <1>1, <1>2, <2>1 DEF Room
    <3> QED BY <1>1, <1>2, <1>3, <3>1
  <2>5. (pc = "block" => NeedsBlock(Raw))'
    <3>1. NeedsBlock(Raw)' <=> NeedsBlock(Raw)
      BY <1>1, <1>3 DEF NeedsBlock
    <3> QED BY <1>1, <3>1
  <2>6. Room'
    BY <1>1, <1>3, <2>1, <2>3, <2>4, <2>5 DEF Room
  <2> QED BY <1>1, <1>5, <2>6 DEF CapacityInv, DirsStay
<1> QED BY <1>2, <1>4, <1>5

LEMMA AllocateBlockFits ==
  ASSUME StorageInv, CapacityInv, AllocateBlock
  PROVE  CapacityInv' /\ (~source.inserted => DirsStay)
<1> DEFINE baseline == IF arena.next = 0 THEN PageBytes ELSE arena.next
           cap == AtLeast(baseline, Raw)
           new == [cap |-> cap, used |-> 0, start |-> arena.size, bytes |-> <<>>]
           next == IF Raw > baseline THEN PageBytes
                   ELSE IF baseline < 4 * PageBytes THEN 2 * baseline ELSE baseline
           dir == IF arena.count >= arena.dir THEN AtLeast(1, 2 * arena.dir) ELSE arena.dir
           m == Len(arena.blocks)
<1>1. /\ source' = source /\ field' = field /\ fields' = fields
      /\ scalars' = scalars /\ queue' = queue /\ pc = "block" /\ pc' = "count"
      /\ arena' = [arena EXCEPT !.dir = dir, !.blocks = Append(arena.blocks, new), !.next = next]
  BY DEF AllocateBlock, Current, Raw
<1>2. /\ ArenaInv /\ field < N /\ source.inserted \in BOOLEAN
      /\ arena.count = m /\ arena.next \in Nat /\ arena.blocks \in Seq(BlockSet)
      /\ arena = [dir |-> arena.dir, blocks |-> arena.blocks, count |-> arena.count,
                  size |-> arena.size, next |-> arena.next]
  <2>1. ArenaInv /\ field < N
    BY <1>1 DEF StorageInv, ParserState
  <2> QED BY <1>1, <2>1, CapacityFacts DEF ArenaInv, ArenaShape
<1>3. SourceSize' = SourceSize /\ N' = N /\ Begin(field + 1)' = Begin(field + 1) /\ Raw' = Raw
  BY <1>1, RoomStays, ChunkStays DEF Raw
<1>4. /\ field \in Nat /\ N \in Nat /\ arena.size \in Nat /\ m \in Nat
      /\ Begin(field + 1) \in Nat /\ Raw \in Nat /\ SourceSize \in Nat
      /\ Begin(field + 1) + Raw <= SourceSize /\ PageBytes \in Nat \ {0}
      /\ Committed = arena.size
  BY <1>1, <1>2, CapacityFacts DEF Committed
<1> HIDE DEF new, next, dir
<1>5. /\ arena'.dir = dir /\ arena'.blocks = Append(arena.blocks, new) /\ arena'.next = next
      /\ arena'.count = arena.count /\ arena'.size = arena.size
  BY <1>1, <1>2
<1>6. CASE source.inserted
  BY <1>1, <1>3, <1>6 DEF CapacityInv
<1>7. CASE ~source.inserted
  <2>1. /\ Room /\ NeedsBlock(Raw) /\ arena.dir = CeilDiv(SourceSize, PageBytes) + 1
        /\ arena.size <= Begin(field + 1) /\ Pages
    BY <1>1, <1>4, <1>7 DEF CapacityInv, Room
  <2>2. m # 0 => /\ PageBytes * (m - 1) <= arena.size /\ PageBytes * m <= LastEnd
                 /\ PageBytes <= arena.next
                 /\ arena.next < 2 * PageBytes => LastEnd <= arena.size
                 /\ LastEnd < arena.size + Raw /\ LastEnd \in Nat
    <3> SUFFICES ASSUME m # 0
                 PROVE  /\ PageBytes * (m - 1) <= arena.size /\ PageBytes * m <= LastEnd
                        /\ PageBytes <= arena.next
                        /\ arena.next < 2 * PageBytes => LastEnd <= arena.size
                        /\ LastEnd < arena.size + Raw /\ LastEnd \in Nat
      OBVIOUS
    <3>1. /\ PageBytes * (m - 1) <= arena.size /\ PageBytes * m <= LastEnd
          /\ PageBytes <= arena.next
          /\ arena.next < 2 * PageBytes => LastEnd <= arena.size
      BY <1>4, <2>1 DEF Pages
    <3> DEFINE last == arena.blocks[m]
               c == last.cap
               s == last.start
               u == last.used
    <3>2. /\ LastEnd \in Nat /\ LastEnd = s + c /\ c \in Nat /\ s \in Nat /\ u \in Nat
          /\ arena.size = s + u
      BY <1>2, LastFacts DEF LastEnd
    <3>3. u + Raw > c
      BY <1>2, <2>1 DEF NeedsBlock
    <3> HIDE DEF c, s, u
    <3>4. LastEnd < arena.size + Raw
      BY <1>4, <3>2, <3>3
    <3> QED BY <3>1, <3>2, <3>4
  <2>3. PageBytes * m \in Nat /\ PageBytes * m <= arena.size + Raw
    <3>1. CASE m = 0
      BY <1>4, <3>1
    <3>2. CASE m # 0
      <4> DEFINE x == PageBytes * m
      <4>1. x \in Nat
        BY <1>4
      <4> HIDE DEF x
      <4>2. x <= LastEnd /\ LastEnd \in Nat /\ LastEnd < arena.size + Raw
        BY <2>2, <3>2 DEF x
      <4>3. x <= arena.size + Raw
        BY <1>4, <4>1, <4>2
      <4> QED BY <4>1, <4>3 DEF x
    <3> QED BY <3>1, <3>2
  <2>4. dir = arena.dir
    <3>1. PageBytes * m <= SourceSize
      <4> DEFINE x == PageBytes * m
      <4>1. x \in Nat /\ x <= arena.size + Raw
        BY <2>3
      <4> HIDE DEF x
      <4>2. x <= SourceSize
        BY <1>4, <2>1, <4>1
      <4> QED BY <4>2 DEF x
    <3>2. m < CeilDiv(SourceSize, PageBytes) + 1 /\ CeilDiv(SourceSize, PageBytes) \in Nat
      BY <1>4, <3>1, PagesFit
    <3>3. ~(arena.count >= arena.dir)
      BY <1>2, <1>4, <2>1, <3>2
    <3> QED BY <3>3 DEF dir
  <2>5. /\ Len(arena'.blocks) = m + 1 /\ arena'.blocks[m + 1] = new
    <3>1. <<>> \in Seq(CharSet) /\ cap \in Nat
      BY <1>2, <1>4 DEF AtLeast
    <3>2. new \in BlockSet
      BY <1>4, <3>1 DEF BlockSet, new
    <3> QED BY <1>2, <1>5, <3>2, AppendProperties
  <2>6. LastEnd' = arena.size + cap
    BY <2>5 DEF LastEnd, new
  <2>7. Committed' = arena.size + Raw
    BY <1>1, <1>3, <1>5 DEF Committed
  <2>8. /\ baseline \in Nat /\ PageBytes <= baseline /\ cap \in Nat /\ baseline <= cap
        /\ m # 0 => baseline = arena.next
        /\ PageBytes <= next /\ (next < 2 * PageBytes => cap <= Raw)
    <3>1. m = 0 => arena.next = 0
      BY <2>1 DEF Pages
    <3>2. m # 0 => PageBytes <= arena.next
      BY <2>2
    <3>3. baseline \in Nat /\ PageBytes <= baseline /\ (m # 0 => baseline = arena.next)
      BY <1>2, <1>4, <3>1, <3>2
    <3> HIDE DEF baseline
    <3>4. cap \in Nat /\ baseline <= cap /\ (Raw > baseline => cap <= Raw)
      BY <1>4, <3>3 DEF AtLeast
    <3> HIDE DEF cap
    <3>5. next = IF Raw > baseline THEN PageBytes
                 ELSE IF baseline < 4 * PageBytes THEN 2 * baseline ELSE baseline
      BY DEF next
    <3>6. PageBytes <= next /\ (next < 2 * PageBytes => cap <= Raw)
      BY <1>4, <3>3, <3>4, <3>5
    <3> QED BY <3>3, <3>4, <3>6
  <2> HIDE DEF baseline, cap
  <2>9. PageBytes * (m + 1) <= arena.size + cap
    <3> DEFINE p == PageBytes
               x == p * (m - 1)
               y == p * m
               z == p * (m + 1)
    <3>1. p \in Nat \ {0} /\ m \in Nat /\ y \in Nat /\ z = y + p
      BY <1>4
    <3>2. m # 0 => x \in Nat /\ y = x + p
      BY <1>4
    <3>3. CASE m = 0
      <4>1. z = p
        BY <1>4, <3>3
      <4> HIDE DEF p, x, y, z
      <4>2. p <= arena.size + cap
        BY <1>4, <2>8, <3>1 DEF p
      <4> QED BY <4>1, <4>2 DEF z, p
    <3>4. CASE m # 0
      <4>1. /\ x <= arena.size /\ y <= LastEnd /\ LastEnd \in Nat /\ p <= baseline /\ baseline <= cap
            /\ baseline < 2 * p => LastEnd <= arena.size
        BY <2>2, <2>8, <3>4
      <4> HIDE DEF p, x, y, z
      <4>2. CASE baseline < 2 * p
        <5>1. y <= arena.size /\ p <= cap
          BY <1>4, <2>8, <3>1, <4>1, <4>2
        <5>2. z <= arena.size + cap
          BY <1>4, <2>8, <3>1, <5>1
        <5> QED BY <5>2 DEF z, p
      <4>3. CASE ~(baseline < 2 * p)
        <5>1. 2 * p <= cap
          BY <2>8, <3>1, <4>1, <4>3
        <5>2. z = x + 2 * p
          BY <3>1, <3>2, <3>4
        <5>3. x \in Nat /\ x <= arena.size
          BY <3>2, <3>4, <4>1
        <5> DEFINE size == arena.size
        <5>4. size \in Nat /\ cap \in Nat /\ p \in Nat
          BY <1>4, <2>8, <3>1
        <5> HIDE DEF size
        <5>5. x + 2 * p <= size + cap
          BY <5>1, <5>3, <5>4 DEF size
        <5>6. z <= arena.size + cap
          BY <5>2, <5>5 DEF size
        <5> QED BY <5>6 DEF z, p
      <4> QED BY <4>2, <4>3
    <3> QED BY <3>3, <3>4
  <2>10. Pages'
    <3>1. Len(arena'.blocks) # 0 /\ (m + 1) - 1 = m
      BY <1>4, <2>5
    <3>2. /\ PageBytes * m <= Committed' /\ PageBytes * (m + 1) <= LastEnd' /\ PageBytes <= arena'.next
          /\ arena'.next < 2 * PageBytes => LastEnd' <= Committed'
      BY <1>4, <1>5, <2>3, <2>6, <2>7, <2>8, <2>9
    <3> QED BY <2>5, <3>1, <3>2 DEF Pages
  <2>11. Room'
    BY <1>1, <1>3, <1>5, <2>1, <2>4, <2>10 DEF Room
  <2> QED BY <1>1, <1>5, <1>7, <2>4, <2>11 DEF CapacityInv, DirsStay
<1> QED BY <1>2, <1>6, <1>7

LEMMA CountBlockFits ==
  ASSUME StorageInv, CapacityInv, CountBlock
  PROVE  CapacityInv' /\ DirsStay
<1>1. /\ source' = source /\ field' = field /\ fields' = fields
      /\ scalars' = scalars /\ queue' = queue /\ pc = "count" /\ pc' = "allocate"
      /\ arena' = [arena EXCEPT !.count = @ + 1]
  BY DEF CountBlock
<1>2. /\ ArenaInv /\ source.inserted \in BOOLEAN /\ field < N
      /\ arena = [dir |-> arena.dir, blocks |-> arena.blocks, count |-> arena.count,
                  size |-> arena.size, next |-> arena.next]
  <2>1. ArenaInv /\ field < N
    BY <1>1 DEF StorageInv, ParserState
  <2> QED BY <2>1, CapacityFacts DEF ArenaInv, ArenaShape
<1>3. SourceSize' = SourceSize /\ N' = N /\ Begin(field + 1)' = Begin(field + 1) /\ Raw' = Raw
  BY <1>1, RoomStays, ChunkStays DEF Raw
<1>4. /\ arena'.dir = arena.dir /\ arena'.blocks = arena.blocks /\ arena'.next = arena.next
      /\ arena'.size = arena.size
  BY <1>1, <1>2
<1>5. CASE source.inserted
  BY <1>1, <1>3, <1>4, <1>5 DEF CapacityInv, DirsStay
<1>6. CASE ~source.inserted
  <2>1. Room
    BY <1>6 DEF CapacityInv
  <2>2. LastEnd' = LastEnd /\ Committed' = Committed
    BY <1>1, <1>3, <1>4 DEF LastEnd, Committed
  <2>3. Pages'
    BY <1>4, <2>1, <2>2 DEF Pages, Room
  <2>4. (arena.size <= Begin(field + 1) + (IF pc \in {"emplace", "scalar", "end"} THEN Raw ELSE 0))'
    BY <1>1, <1>3, <1>4, <2>1 DEF Room
  <2>5. Room'
    BY <1>1, <1>3, <1>4, <2>1, <2>3, <2>4 DEF Room
  <2> QED BY <1>1, <1>4, <1>6, <2>5 DEF CapacityInv, DirsStay
<1> QED BY <1>2, <1>5, <1>6

LEMMA AllocateFits ==
  ASSUME StorageInv, CapacityInv, Allocate
  PROVE  CapacityInv' /\ DirsStay
<1> DEFINE txt == Text(field + 1)
           bytes == txt \o [k \in 1..(Raw - Len(txt)) |-> Unset]
           last == arena.blocks[arena.count]
           filled == [last EXCEPT !.used = @ + Raw, !.bytes = @ \o bytes]
           blocks == [arena.blocks EXCEPT ![arena.count] = filled]
<1>1. /\ source' = source /\ field' = field /\ fields' = fields
      /\ scalars' = scalars /\ queue' = queue /\ pc = "allocate" /\ pc' = "emplace"
      /\ arena' = [arena EXCEPT !.blocks[arena.count].used = @ + Raw,
                                !.blocks[arena.count].bytes = @ \o bytes,
                                !.size = @ + Raw]
  BY DEF Allocate, Current, Raw
<1>2. /\ ArenaInv /\ source.inserted \in BOOLEAN /\ field < N /\ Raw \in Nat /\ arena.size \in Nat
      /\ Begin(field + 1) \in Nat /\ Len(arena.blocks) = arena.count /\ arena.count > 0
      /\ arena.blocks \in Seq(BlockSet) /\ arena.count \in Nat
      /\ arena = [dir |-> arena.dir, blocks |-> arena.blocks, count |-> arena.count,
                  size |-> arena.size, next |-> arena.next]
  <2>1. ArenaInv /\ field < N
    BY <1>1 DEF StorageInv, ParserState
  <2> QED BY <1>1, <2>1, CapacityFacts DEF ArenaInv, ArenaShape
<1>3. SourceSize' = SourceSize /\ N' = N /\ Begin(field + 1)' = Begin(field + 1) /\ Raw' = Raw
  BY <1>1, RoomStays, ChunkStays DEF Raw
<1>4. arena' = [arena EXCEPT !.blocks = blocks, !.size = arena.size + Raw]
  BY <1>1, ZenonT(40)
<1> HIDE DEF bytes
<1>5. last \in BlockSet /\ arena.count \in 1..Len(arena.blocks)
  <2>1. arena.count \in 1..Len(arena.blocks)
    BY <1>2
  <2> QED BY <1>2, <2>1, ArenaFacts
<1>6. filled.cap = last.cap /\ filled.start = last.start
  BY <1>5 DEF BlockSet
<1> HIDE DEF filled
<1>7. Len(blocks) = Len(arena.blocks) /\ blocks[arena.count] = filled
  <2>1. arena.blocks = [i \in 1..Len(arena.blocks) |-> arena.blocks[i]] /\ Len(arena.blocks) \in Nat
    BY <1>2, LenProperties
  <2>2. DOMAIN blocks = 1..Len(arena.blocks) /\ blocks[arena.count] = filled
    BY <1>5, <2>1
  <2>3. blocks = [i \in 1..Len(arena.blocks) |-> blocks[i]]
    BY <2>2
  <2>4. arena'.blocks = blocks /\ arena'.blocks \in Seq(BlockSet)
    <3>1. StorageInv'
      BY AllocateKeeps
    <3> QED BY <1>2, <1>4, <3>1 DEF StorageInv, ArenaInv, ArenaShape
  <2>5. Len(blocks) \in Nat /\ DOMAIN blocks = 1..Len(blocks)
    BY <2>4, LenProperties
  <2>6. Len(blocks) = Len(arena.blocks)
    BY <2>1, <2>2, <2>5
  <2> QED BY <2>2, <2>6
<1> HIDE DEF blocks
<1>8. /\ arena'.dir = arena.dir /\ arena'.blocks = blocks /\ arena'.next = arena.next
      /\ arena'.size = arena.size + Raw
  BY <1>2, <1>4
<1>9. CASE source.inserted
  BY <1>1, <1>3, <1>8, <1>9 DEF CapacityInv, DirsStay
<1>10. CASE ~source.inserted
  <2>1. Room
    BY <1>10 DEF CapacityInv
  <2>2. LastEnd' = LastEnd
    BY <1>2, <1>6, <1>7, <1>8 DEF LastEnd
  <2>3. Committed' = Committed
    BY <1>1, <1>2, <1>3, <1>8 DEF Committed
  <2>4. Pages'
    BY <1>7, <1>8, <2>1, <2>2, <2>3 DEF Pages, Room
  <2>5. (arena.size <= Begin(field + 1) + (IF pc \in {"emplace", "scalar", "end"} THEN Raw ELSE 0))'
    <3>1. arena.size <= Begin(field + 1)
      BY <1>1, <1>2, <2>1 DEF Room
    <3>2. arena.size + Raw <= Begin(field + 1) + Raw
      BY <1>2, <3>1
    <3> QED BY <1>1, <1>3, <1>8, <3>2
  <2>6. Room'
    BY <1>1, <1>3, <1>8, <2>1, <2>4, <2>5 DEF Room
  <2> QED BY <1>1, <1>8, <1>10, <2>6 DEF CapacityInv, DirsStay
<1> QED BY <1>2, <1>9, <1>10

LEMMA EmplaceFieldFits ==
  ASSUME StorageInv, CapacityInv, EmplaceField
  PROVE  CapacityInv' /\ (~source.inserted => DirsStay)
<1>1. PICK value : /\ fields' = Emplace(fields, value)
                   /\ source' = source /\ field' = field /\ arena' = arena
                   /\ scalars' = scalars /\ queue' = queue /\ pc = "emplace"
                   /\ pc' \in {"scalar", "end"}
  BY DEF EmplaceField
<1>2. field < N /\ source.inserted \in BOOLEAN /\ Raw \in Nat /\ Begin(field + 1) \in Nat
  <2>1. field < N
    BY <1>1 DEF StorageInv, ParserState
  <2> QED BY <2>1, CapacityFacts
<1>3. SourceSize' = SourceSize /\ N' = N /\ Begin(field + 1)' = Begin(field + 1) /\ Raw' = Raw
  BY <1>1, RoomStays, ChunkStays DEF Raw
<1>4. CASE source.inserted
  BY <1>1, <1>3, <1>4 DEF CapacityInv
<1>5. CASE ~source.inserted
  <2>1. Room
    BY <1>5 DEF CapacityInv
  <2>2. fields'.dir = fields.dir
    <3>1. /\ fields = [dir |-> fields.dir, list |-> fields.list] /\ fields.dir \in Nat
          /\ BlocksFor(SourceSize) <= fields.dir
          /\ Len(fields.list) = field + (IF pc \in {"scalar", "end"} THEN 1 ELSE 0)
      BY <2>1 DEF StorageInv, FieldsStored, Room
    <3>2. Len(fields.list) = field
      <4>1. field \in Nat
        BY CapacityFacts
      <4> QED BY <1>1, <3>1, <4>1
    <3>3. Emplace(fields, value).dir = fields.dir
      BY <1>2, <1>5, <3>1, <3>2, PageIsThere
    <3> QED BY <1>1, <3>3
  <2>3. LastEnd' = LastEnd /\ Committed' = Committed
    BY <1>1, <1>3 DEF LastEnd, Committed
  <2>4. Pages'
    BY <1>1, <2>1, <2>3 DEF Pages, Room
  <2>5. (arena.size <= Begin(field + 1) + (IF pc \in {"emplace", "scalar", "end"} THEN Raw ELSE 0))'
    BY <1>1, <1>3, <2>1 DEF Room
  <2>6. Room'
    BY <1>1, <1>3, <2>1, <2>2, <2>4, <2>5 DEF Room
  <2> QED BY <1>1, <1>5, <2>2, <2>6 DEF CapacityInv, DirsStay
<1> QED BY <1>2, <1>4, <1>5

LEMMA AppendScalarFits ==
  ASSUME StorageInv, CapacityInv, AppendScalar
  PROVE  CapacityInv' /\ DirsStay
<1>1. /\ scalars' = Emplace(scalars, Text(field + 1))
      /\ source' = source /\ field' = field /\ arena' = arena
      /\ fields' = fields /\ queue' = queue /\ pc = "scalar" /\ pc' = "end"
  BY DEF AppendScalar, Current
<1>2. /\ field < N /\ source.inserted \in BOOLEAN /\ Raw \in Nat /\ Begin(field + 1) \in Nat
      /\ eager /\ ~source.inserted
  <2>1. field < N /\ eager /\ ~source.inserted
    BY <1>1 DEF StorageInv, ParserState
  <2> QED BY <2>1, CapacityFacts
<1>3. SourceSize' = SourceSize /\ N' = N /\ Begin(field + 1)' = Begin(field + 1) /\ Raw' = Raw
  BY <1>1, RoomStays, ChunkStays DEF Raw
<1>4. Room
  BY <1>2 DEF CapacityInv
<1>5. scalars'.dir = scalars.dir
  <2>1. /\ scalars = [dir |-> scalars.dir, list |-> scalars.list] /\ scalars.dir \in Nat
        /\ BlocksFor(SourceSize) <= scalars.dir
        /\ Len(scalars.list) = field + (IF pc = "end" THEN 1 ELSE 0)
    BY <1>2, <1>4 DEF StorageInv, ScalarsStored, Room
  <2>2. Len(scalars.list) = field
    <3>1. field \in Nat
      BY CapacityFacts
    <3> QED BY <1>1, <2>1, <3>1
  <2>3. Emplace(scalars, Text(field + 1)).dir = scalars.dir
    BY <1>2, <2>1, <2>2, PageIsThere
  <2> QED BY <1>1, <2>3
<1>6. LastEnd' = LastEnd /\ Committed' = Committed
  BY <1>1, <1>3 DEF LastEnd, Committed
<1>7. Pages'
  BY <1>1, <1>4, <1>6 DEF Pages, Room
<1>8. (arena.size <= Begin(field + 1) + (IF pc \in {"emplace", "scalar", "end"} THEN Raw ELSE 0))'
  BY <1>1, <1>3, <1>4 DEF Room
<1>9. Room'
  BY <1>1, <1>3, <1>4, <1>5, <1>7, <1>8 DEF Room
<1> QED BY <1>1, <1>2, <1>5, <1>9 DEF CapacityInv, DirsStay

LEMMA EndFieldFits ==
  ASSUME StorageInv, CapacityInv, EndField
  PROVE  CapacityInv' /\ DirsStay
<1> DEFINE last == Len(FlattenSeq(SubSeq(source.rows, 1, RowOf(field + 1)))) = field + 1
<1>1. /\ source' = source /\ field' = field + 1 /\ arena' = arena
      /\ fields' = fields /\ scalars' = scalars /\ pc = "end" /\ pc' = "field"
      /\ ~last => queue' = queue
  BY DEF EndField, Current
<1>2. /\ field < N /\ field \in Nat /\ source.inserted \in BOOLEAN /\ Raw \in Nat
      /\ Begin(field + 1) \in Nat /\ Begin(field + 2) \in Nat /\ arena.size \in Nat
      /\ Begin(field + 1) + Raw <= Begin(field + 2)
      /\ source \in Sources /\ N \in Nat
  <2>1. field < N
    BY <1>1 DEF StorageInv, ParserState
  <2> QED BY <2>1, CapacityFacts
<1>3. SourceSize' = SourceSize /\ N' = N /\ Begin(field + 1)' = Begin(field + 2)
  <2>1. (field + 1) + 1 = field + 2
    BY <1>2
  <2>2. SourceSize' = SourceSize /\ N' = N /\ \A f : Begin(f)' = Begin(f)
    BY <1>1, RoomStays
  <2>3. PICK f : f = field'
    OBVIOUS
  <2>4. Begin(f + 1)' = Begin(f + 1) /\ f + 1 = field + 2
    BY <1>1, <2>1, <2>2, <2>3
  <2> QED BY <2>2, <2>3, <2>4
<1>4. CASE source.inserted
  <2>1. queue = <<>>
    BY <1>2, <1>4 DEF CapacityInv
  <2>2. CASE last
    <3>1. /\ RowOf(field + 1) \in 1..Len(source.rows) /\ RowEnd(Len(source.rows)) = N
      <4>1. field + 1 \in 1..N
        BY <1>2
      <4> QED BY <1>2, <4>1, RowOfFacts, RowEnds
    <3>2. Len(source.rows) = 1
      BY <1>2, <1>4, StorageAssumption
    <3>3. RowOf(field + 1) = 1 /\ RowEnd(1) = N
      BY <3>1, <3>2
    <3>4. RowEnd(RowOf(field + 1)) = field + 1
      BY <2>2 DEF RowEnd, FlatTo
    <3> QED BY <1>1, <1>3, <1>4, <3>3, <3>4 DEF CapacityInv, DirsStay
  <2>3. CASE ~last
    BY <1>1, <1>4, <2>1, <2>3 DEF CapacityInv, DirsStay
  <2> QED BY <2>2, <2>3
<1>5. CASE ~source.inserted
  <2>1. Room
    BY <1>5 DEF CapacityInv
  <2>2. LastEnd' = LastEnd /\ Committed' = Committed
    BY <1>1 DEF LastEnd, Committed
  <2>3. Pages'
    BY <1>1, <2>1, <2>2 DEF Pages, Room
  <2>4. (arena.size <= Begin(field + 1) + (IF pc \in {"emplace", "scalar", "end"} THEN Raw ELSE 0))'
    <3>1. arena.size <= Begin(field + 1) + Raw
      BY <1>1, <2>1 DEF Room
    <3>2. arena.size <= Begin(field + 2) /\ Begin(field + 2) + 0 = Begin(field + 2)
      BY <1>2, <3>1
    <3> QED BY <1>1, <1>3, <3>2
  <2>5. Room'
    BY <1>1, <1>3, <2>1, <2>3, <2>4 DEF Room
  <2> QED BY <1>1, <1>5, <2>5 DEF CapacityInv, DirsStay
<1> QED BY <1>2, <1>4, <1>5

LEMMA CapacityStays ==
  ASSUME CapacityInv, UNCHANGED <<source, eager, parserVars>>
  PROVE  CapacityInv' /\ DirsStay
<1>1. /\ source' = source /\ eager' = eager /\ pc' = pc /\ field' = field
      /\ arena' = arena /\ fields' = fields /\ scalars' = scalars /\ queue' = queue
  BY DEF parserVars
<1>2. SourceSize' = SourceSize /\ N' = N /\ Begin(field + 1)' = Begin(field + 1) /\ Raw' = Raw
  BY <1>1, RoomStays, ChunkStays DEF Raw
<1>3. LastEnd' = LastEnd /\ Committed' = Committed
  BY <1>1, <1>2 DEF LastEnd, Committed
<1>4. Pages' <=> Pages
  BY <1>1, <1>3 DEF Pages
<1>5. NeedsBlock(Raw)' <=> NeedsBlock(Raw)
  BY <1>1, <1>2 DEF NeedsBlock
<1>6. Room => Room'
  BY <1>1, <1>2, <1>4, <1>5 DEF Room
<1> QED BY <1>1, <1>2, <1>6 DEF CapacityInv, DirsStay

LEMMA CapacityNext ==
  StorageInv /\ CapacityInv /\ [Next]_vars =>
      CapacityInv' /\ (queue # <<>> => DirsStay)
<1> SUFFICES ASSUME StorageInv, CapacityInv, [Next]_vars
             PROVE  CapacityInv' /\ (queue # <<>> => DirsStay)
  OBVIOUS
<1>1. CASE Parser
  <2>1. CapacityInv' /\ (~source.inserted => DirsStay)
    BY <1>1, PushFieldFits, AllocateBlockFits, CountBlockFits, AllocateFits, EmplaceFieldFits,
       AppendScalarFits, EndFieldFits DEF Parser
  <2>2. queue # <<>> => ~source.inserted
    BY <1>1, ParserStops
  <2> QED BY <2>1, <2>2
<1>2. CASE UNCHANGED <<source, eager, parserVars>>
  BY <1>2, CapacityStays
<1>3. Parser \/ UNCHANGED <<source, eager, parserVars>>
  <2>1. CASE \E r \in Readers : \E i \in DOMAIN queue : \E index \in 0..queue[i].row_length :
                GetField(r, queue[i], index)
    <3>1. UNCHANGED <<source, eager, parserVars>>
      BY <2>1 DEF GetField
    <3> QED BY <3>1
  <2>2. CASE \E r \in Readers : Search(r)
    <3>1. UNCHANGED <<source, eager, parserVars>>
      BY <2>2 DEF Search
    <3> QED BY <3>1
  <2>3. CASE UNCHANGED vars
    BY <2>3 DEF vars
  <2>4. CASE Parser
    BY <2>4
  <2> QED BY <2>1, <2>2, <2>3, <2>4 DEF Next
<1> QED BY <1>1, <1>2, <1>3

(* What reserve_for_source_size() sets aside is enough for every chunk of   *)
(* that many bytes, whatever its fields are: no directory of blocks grows   *)
(* while a row can be read (raw_csv_data.hpp, csv_row.hpp).                 *)
THEOREM DirectoriesDoNotGrow == Spec => DirectoriesStay
<1>1. StorageInv /\ CapacityInv /\ [Next]_vars => [queue # <<>> =>
          <<arena.dir, fields.dir, scalars.dir>>' = <<arena.dir, fields.dir, scalars.dir>>]_vars
  BY CapacityNext DEF DirsStay
<1>2. StorageInv /\ CapacityInv /\ [Next]_vars => CapacityInv'
  BY CapacityNext
<1> QED BY <1>1, <1>2, StorageInit, StorageNext, CapacityInit, PTL DEF Spec, DirectoriesStay

-----------------------------------------------------------------------------
(***************************************************************************)
(* A field of a row: what it answers is what its text says.  First the     *)
(* texts: their digits are the numbers they were written for.              *)
(***************************************************************************)

(* The powers of ten there are. *)
LEMMA PowersOfTen ==
  /\ pow10[0] = 1 /\ pow10[1] = 10 /\ pow10[2] = 100 /\ pow10[3] = 1000
  /\ pow10[4] = 10000 /\ pow10[5] = 100000 /\ pow10[6] = 1000000
  /\ pow10[7] = 10000000 /\ pow10[8] = 100000000 /\ pow10[9] = 1000000000
<1> DEFINE Power(f) == f = [n \in 0..9 |-> IF n = 0 THEN 1 ELSE 10 * f[n - 1]]
<1> DEFINE step == [x \in Nat \X (1..9) |-> 10 * x[1]]
<1>1. step \in [Nat \X (1..9) -> Nat]
  OBVIOUS
<1> HIDE DEF step
<1>2. PICK f \in [0..9 -> Nat] : IsRecursive(f, 1, 9, step)
  BY <1>1, RecursionExists
<1>3. \A n \in 0..9 : f[n] = IF n = 0 THEN 1 ELSE step[<<f[n - 1], n>>]
  BY <1>2 DEF IsRecursive
<1>4. ASSUME NEW n \in 0..9
      PROVE  f[n] = IF n = 0 THEN 1 ELSE 10 * f[n - 1]
  <2>1. CASE n = 0
    BY <1>3, <2>1
  <2>2. CASE n # 0
    <3>1. n - 1 \in 0..9 /\ n \in 1..9 /\ f[n - 1] \in Nat
      BY <1>2, <2>2
    <3>2. step[<<f[n - 1], n>>] = 10 * f[n - 1]
      BY <3>1 DEF step
    <3> QED BY <1>3, <2>2, <3>2
  <2> QED BY <2>1, <2>2
<1>5. f = [n \in 0..9 |-> f[n]]
  BY <1>2
<1>6. Power(f)
  BY <1>4, <1>5
<1>7. pow10 = CHOOSE g : Power(g)
  BY Zenon DEF pow10
<1>8. Power(pow10)
  BY <1>6, <1>7, Zenon
<1>9. \A n \in 0..9 : pow10[n] = IF n = 0 THEN 1 ELSE 10 * pow10[n - 1]
  <2> DEFINE g == pow10
  <2> HIDE DEF g
  <2>1. Power(g)
    BY <1>8 DEF g
  <2>2. \A n \in 0..9 : g[n] = IF n = 0 THEN 1 ELSE 10 * g[n - 1]
    BY <2>1
  <2> QED BY <2>2 DEF g
<1> DEFINE g == pow10
<1> HIDE DEF g
<1>10. \A n \in 0..9 : g[n] = IF n = 0 THEN 1 ELSE 10 * g[n - 1]
  BY <1>9 DEF g
<1>11. /\ g[0] = 1 /\ g[1] = 10 * g[0] /\ g[2] = 10 * g[1] /\ g[3] = 10 * g[2]
       /\ g[4] = 10 * g[3] /\ g[5] = 10 * g[4] /\ g[6] = 10 * g[5]
       /\ g[7] = 10 * g[6] /\ g[8] = 10 * g[7] /\ g[9] = 10 * g[8]
  BY <1>10
<1> QED BY <1>11 DEF g

(* A literal's digits are read one by one, the first of them first. *)
Reading(v, digits) ==
    /\ v \in [0..Len(digits) -> Nat] /\ v[0] = 0
    /\ \A n \in 1..Len(digits) : v[n] = 10 * v[n - 1] + digits[n]

LEMMA DigitsAreRead ==
  ASSUME NEW digits \in Seq(0..9)
  PROVE  \E v : Reading(v, digits) /\ Value(digits) = v[Len(digits)]
<1> DEFINE L == Len(digits)
<1>1. L \in Nat /\ DOMAIN digits = 1..L /\ \A n \in 1..L : digits[n] \in 0..9
  OBVIOUS
<1> HIDE DEF L
<1> DEFINE Read(f) == f = [n \in 0..L |-> IF n = 0 THEN 0 ELSE 10 * f[n - 1] + digits[n]]
<1> DEFINE step == [x \in Nat \X (1..L) |-> 10 * x[1] + digits[x[2]]]
<1>2. step \in [Nat \X (1..L) -> Nat]
  BY <1>1
<1> HIDE DEF step
<1>3. PICK f \in [0..L -> Nat] : IsRecursive(f, 0, L, step)
  BY <1>1, <1>2, RecursionExists
<1>4. \A n \in 0..L : f[n] = IF n = 0 THEN 0 ELSE step[<<f[n - 1], n>>]
  BY <1>3 DEF IsRecursive
<1>5. ASSUME NEW n \in 0..L
      PROVE  f[n] = IF n = 0 THEN 0 ELSE 10 * f[n - 1] + digits[n]
  <2>1. CASE n = 0
    BY <1>4, <2>1
  <2>2. CASE n # 0
    <3>1. n - 1 \in 0..L /\ n \in 1..L /\ f[n - 1] \in Nat
      BY <1>1, <1>3, <2>2
    <3>2. step[<<f[n - 1], n>>] = 10 * f[n - 1] + digits[n]
      BY <3>1 DEF step
    <3> QED BY <1>4, <2>2, <3>2
  <2> QED BY <2>1, <2>2
<1>6. f = [n \in 0..L |-> f[n]]
  BY <1>3
<1>7. Read(f)
  BY <1>5, <1>6
<1> DEFINE v == CHOOSE g : Read(g)
<1>8. Read(v)
  BY <1>7, Zenon
<1>9. Value(digits) = v[L]
  BY Zenon DEF Value, L
<1> HIDE DEF v
<1>10. \A n \in 0..L : v[n] = IF n = 0 THEN 0 ELSE 10 * v[n - 1] + digits[n]
  BY <1>8
<1>11. v = [n \in 0..L |-> v[n]]
  BY <1>8
<1> DEFINE T == {n \in Nat : n > L \/ v[n] \in Nat}
<1>12. 0 \in T
  BY <1>1, <1>10
<1>13. ASSUME NEW n \in Nat, n \in T PROVE n + 1 \in T
  <2>1. SUFFICES ASSUME ~(n + 1 > L) PROVE v[n + 1] \in Nat
    BY DEF T
  <2>2. n + 1 \in 0..L /\ n + 1 \in 1..L /\ n + 1 # 0 /\ (n + 1) - 1 = n /\ v[n] \in Nat
    BY <1>1, <1>13, <2>1
  <2>3. v[n + 1] = 10 * v[n] + digits[n + 1] /\ digits[n + 1] \in 0..9
    BY <1>1, <1>10, <2>2
  <2> DEFINE d == digits[n + 1]
          e == v[n]
  <2>4. d \in 0..9 /\ e \in Nat /\ v[n + 1] = 10 * e + d
    BY <2>2, <2>3
  <2> HIDE DEF d, e
  <2> QED BY <2>4
<1> HIDE DEF T
<1>14. Nat \subseteq T
  BY <1>12, <1>13, Induction
<1>15. \A n \in 0..L : v[n] \in Nat
  BY <1>1, <1>14 DEF T
<1>16. v \in [0..L -> Nat] /\ v[0] = 0 /\ \A n \in 1..L : v[n] = 10 * v[n - 1] + digits[n]
  <2>1. v \in [0..L -> Nat]
    BY <1>11, <1>15
  <2>2. v[0] = 0
    BY <1>1, <1>10
  <2>3. ASSUME NEW n \in 1..L PROVE v[n] = 10 * v[n - 1] + digits[n]
    <3>1. n \in 0..L /\ n # 0
      BY <1>1
    <3> QED BY <1>10, <3>1
  <2> QED BY <2>1, <2>2, <2>3
<1> QED BY <1>9, <1>16 DEF Reading, L

LEMMA DivByTen ==
  ASSUME NEW x \in Nat, NEW k \in 0..8
  PROVE  /\ pow10[k] \in Nat /\ pow10[k + 1] = 10 * pow10[k] /\ pow10[k] > 0
         /\ x \div pow10[k] = 10 * (x \div pow10[k + 1]) + (x % pow10[k + 1]) \div pow10[k]
         /\ (x % pow10[k + 1]) \div pow10[k] \in 0..9
         /\ x \div pow10[k] \in Nat
<1> DEFINE Splits(p, q) ==
        /\ x \div p = 10 * (x \div q) + (x % q) \div p
        /\ (x % q) \div p \in 0..9 /\ x \div p \in Nat
<1>1. CASE k = 0
  <2>1. Splits(1, 10)
    OBVIOUS
  <2> QED BY <1>1, <2>1, PowersOfTen
<1>2. CASE k = 1
  <2>1. Splits(10, 100)
    OBVIOUS
  <2> QED BY <1>2, <2>1, PowersOfTen
<1>3. CASE k = 2
  <2>1. Splits(100, 1000)
    OBVIOUS
  <2> QED BY <1>3, <2>1, PowersOfTen
<1>4. CASE k = 3
  <2>1. Splits(1000, 10000)
    OBVIOUS
  <2> QED BY <1>4, <2>1, PowersOfTen
<1>5. CASE k = 4
  <2>1. Splits(10000, 100000)
    OBVIOUS
  <2> QED BY <1>5, <2>1, PowersOfTen
<1>6. CASE k = 5
  <2>1. Splits(100000, 1000000)
    OBVIOUS
  <2> QED BY <1>6, <2>1, PowersOfTen
<1>7. CASE k = 6
  <2>1. Splits(1000000, 10000000)
    OBVIOUS
  <2> QED BY <1>7, <2>1, PowersOfTen
<1>8. CASE k = 7
  <2>1. Splits(10000000, 100000000)
    OBVIOUS
  <2> QED BY <1>8, <2>1, PowersOfTen
<1>9. CASE k = 8
  <2>1. Splits(100000000, 1000000000)
    OBVIOUS
  <2> QED BY <1>9, <2>1, PowersOfTen
<1> QED BY <1>1, <1>2, <1>3, <1>4, <1>5, <1>6, <1>7, <1>8, <1>9

(* The digits of a number are digits, and read as the number. *)
LEMMA DigitsReadBack ==
  ASSUME NEW n \in 0..9, NEW x \in Nat, x < pow10[n]
  PROVE  Digits(x, n) \in Seq(0..9) /\ Len(Digits(x, n)) = n /\ Value(Digits(x, n)) = x
<1> DEFINE s == Digits(x, n)
<1>1. s = [j \in 1..n |-> (x % pow10[n - j + 1]) \div pow10[n - j]]
  BY Zenon DEF Digits
<1>2. ASSUME NEW j \in 1..n
      PROVE  /\ n - j \in 0..8 /\ (n - j) + 1 = n - (j - 1) /\ n - j + 1 = (n - j) + 1
             /\ s[j] \in 0..9 /\ x \div pow10[n - j] \in Nat
             /\ x \div pow10[n - j] = 10 * (x \div pow10[n - (j - 1)]) + s[j]
  <2>1. n - j \in 0..8 /\ n - j + 1 = n - (j - 1)
    OBVIOUS
  <2> DEFINE k == n - j
  <2>2. k \in 0..8 /\ k + 1 = n - (j - 1) /\ n - j + 1 = k + 1 /\ n - j = k
    BY <2>1
  <2>3. s[j] = (x % pow10[n - j + 1]) \div pow10[n - j]
    BY <1>1
  <2> HIDE DEF k, s
  <2>4. s[j] = (x % pow10[k + 1]) \div pow10[k]
    BY <2>2, <2>3
  <2>5. /\ x \div pow10[k] = 10 * (x \div pow10[k + 1]) + (x % pow10[k + 1]) \div pow10[k]
        /\ (x % pow10[k + 1]) \div pow10[k] \in 0..9
        /\ x \div pow10[k] \in Nat
    BY <2>2, DivByTen
  <2> QED BY <2>1, <2>2, <2>4, <2>5
<1>3. s \in Seq(0..9) /\ Len(s) = n
  <2>1. \A j \in 1..n : s[j] \in 0..9
    BY <1>2
  <2>2. s = [j \in 1..n |-> s[j]]
    BY <1>1
  <2> HIDE DEF s
  <2> QED BY <2>1, <2>2
<1> HIDE DEF s
<1>4. PICK v : Reading(v, s) /\ Value(s) = v[n]
  BY <1>3, DigitsAreRead
<1>5. v \in [0..n -> Nat] /\ v[0] = 0 /\ \A j \in 1..n : v[j] = 10 * v[j - 1] + s[j]
  BY <1>3, <1>4 DEF Reading
<1> DEFINE T == {j \in Nat : j > n \/ v[j] = x \div pow10[n - j]}
<1>6. 0 \in T
  <2>1. n = 0 => pow10[n] = 1
    BY PowersOfTen
  <2>2. n # 0 => pow10[n] \in Nat /\ pow10[n] > 0
    <3>1. n # 0 => n - 1 \in 0..8 /\ (n - 1) + 1 = n
      OBVIOUS
    <3>2. n # 0 => pow10[n - 1] \in Nat /\ pow10[n] = 10 * pow10[n - 1] /\ pow10[n - 1] > 0
      BY <3>1, DivByTen
    <3> QED BY <3>2
  <2> DEFINE p == pow10[n]
  <2>3. p \in Nat /\ x < p
    BY <2>1, <2>2
  <2> HIDE DEF p
  <2>4. x \div p = 0
    BY <2>3
  <2>5. n - 0 = n
    OBVIOUS
  <2> QED BY <1>5, <2>4, <2>5 DEF p
<1>7. ASSUME NEW j \in Nat, j \in T PROVE j + 1 \in T
  <2>1. SUFFICES ASSUME ~(j + 1 > n) PROVE v[j + 1] = x \div pow10[n - (j + 1)]
    OBVIOUS
  <2>2. j + 1 \in 1..n /\ (j + 1) - 1 = j /\ v[j] = x \div pow10[n - j]
    BY <1>7, <2>1
  <2>3. v[j + 1] = 10 * v[j] + s[j + 1]
    BY <1>5, <2>2
  <2>4. x \div pow10[n - (j + 1)] = 10 * (x \div pow10[n - j]) + s[j + 1]
    BY <1>2, <2>2
  <2> QED BY <2>2, <2>3, <2>4
<1> HIDE DEF T
<1>8. Nat \subseteq T
  BY <1>6, <1>7, Induction
<1>9. v[n] = x \div pow10[n - n] /\ n - n = 0
  BY <1>8 DEF T
<1>10. v[n] = x
  BY <1>9, PowersOfTen
<1> QED BY <1>3, <1>4, <1>10 DEF s

LEMMA MostWholeIs ==
  MostWhole \in Nat /\ pow10[9] \in Nat /\ MostWhole < pow10[9]
<1>1. pow10[9] \in Nat /\ pow10[9] > 0
  BY SMT, PowersOfTen
<1> QED BY <1>1 DEF MostWhole

(* A whole number has as many digits as it needs, at most nine. *)
LEMMA DigitsAreEnough ==
  ASSUME NEW x \in 0..MostWhole
  PROVE  num_digits(x) \in 1..9 /\ x < pow10[num_digits(x)]
<1>1. CASE x = 0
  <2>1. num_digits(x) = 1
    BY <1>1 DEF num_digits
  <2> QED BY <1>1, <2>1, PowersOfTen
<1>2. CASE x # 0
  <2> DEFINE Fits(n) == pow10[n - 1] <= x /\ x < pow10[n]
  <2>1. num_digits(x) = CHOOSE n \in 1..9 : Fits(n)
    BY <1>2, Zenon DEF num_digits
  <2>2. \E n \in 1..9 : Fits(n)
    <3>1. x \in Nat /\ 1 <= x /\ x < 1000000000
      <4>1. x \in Nat /\ x < pow10[9] /\ 1 <= x
        BY <1>2, MostWholeIs
      <4> QED BY SMT, <4>1, PowersOfTen
    <3>2. /\ 1 <= x /\ x < 10 => Fits(1)
          /\ 10 <= x /\ x < 100 => Fits(2)
          /\ 100 <= x /\ x < 1000 => Fits(3)
          /\ 1000 <= x /\ x < 10000 => Fits(4)
          /\ 10000 <= x /\ x < 100000 => Fits(5)
          /\ 100000 <= x /\ x < 1000000 => Fits(6)
          /\ 1000000 <= x /\ x < 10000000 => Fits(7)
          /\ 10000000 <= x /\ x < 100000000 => Fits(8)
          /\ 100000000 <= x /\ x < 1000000000 => Fits(9)
      BY SMT, PowersOfTen
    <3> HIDE DEF Fits
    <3> QED BY SMT, <3>1, <3>2
  <2> HIDE DEF Fits
  <2>3. num_digits(x) \in 1..9 /\ Fits(num_digits(x))
    BY <2>1, <2>2, Zenon
  <2> QED BY <2>3 DEF Fits
<1> QED BY <1>1, <1>2

(* A whole number is read back. *)
LEMMA WholeReadBack ==
  ASSUME NEW x \in 0..MostWhole
  PROVE  /\ Digits(x, num_digits(x)) \in Seq(0..9)
         /\ Value(Digits(x, num_digits(x))) = x
<1>1. x \in Nat /\ num_digits(x) \in 0..9 /\ x < pow10[num_digits(x)]
  BY DigitsAreEnough, MostWholeIs
<1> QED BY <1>1, DigitsReadBack

LEMMA NothingIsZero == Value(<<>>) = 0 /\ Value(<<0>>) = 0
<1>1. Value(<<>>) = 0
  <2>1. <<>> \in Seq(0..9) /\ Len(<<>>) = 0
    OBVIOUS
  <2>2. PICK v : Reading(v, <<>>) /\ Value(<<>>) = v[0]
    BY <2>1, DigitsAreRead
  <2> QED BY <2>2 DEF Reading
<1>2. Value(<<0>>) = 0
  <2> DEFINE s == <<0>>
  <2>1. s \in Seq(0..9) /\ Len(s) = 1 /\ s[1] = 0
    OBVIOUS
  <2> HIDE DEF s
  <2>2. PICK v : Reading(v, s) /\ Value(s) = v[1]
    BY <2>1, DigitsAreRead
  <2>3. v[0] = 0 /\ v[1] = 10 * v[1 - 1] + s[1]
    BY <2>1, <2>2 DEF Reading
  <2>4. v[1] = 0
    BY <2>1, <2>3
  <2> QED BY <2>2, <2>4 DEF s
<1> QED BY <1>1, <1>2

Signed(negative, size) == IF negative THEN -size ELSE size

LEMMA LiteralReads ==
  ASSUME NEW negative, NEW whole, NEW symbol, NEW part
  PROVE  NumberOf(Literal(negative, whole, symbol, part))
            = Signed(negative, Unit * Value(whole)
                                  + Value(part) * pow10[MostPlaces - Len(part)])
<1> DEFINE t == Literal(negative, whole, symbol, part)
<1>1. t.negative = negative /\ t.whole = whole /\ t.part = part
  BY DEF Literal
<1> HIDE DEF t
<1>2. NumberOf(t) = Signed(t.negative, Unit * Value(t.whole)
                                + Value(t.part) * pow10[MostPlaces - Len(t.part)])
  BY Zenon DEF NumberOf, Signed
<1> QED BY <1>1, <1>2 DEF t

LEMMA IntegersReadBack ==
  ASSUME NEW x \in Int, Absolute(x) \in 0..MostWhole
  PROVE  NumberOf(IntegerText(x)) = Unit * x
<1> DEFINE a == Absolute(x)
           whole == Digits(a, num_digits(a))
           w == Value(whole)
           nothing == pow10[MostPlaces - 0]
<1>1. w = a
  BY WholeReadBack
<1>2. NumberOf(IntegerText(x)) = Signed(x < 0, Unit * w + Value(<<>>) * pow10[MostPlaces - Len(<<>>)])
  BY LiteralReads, Zenon DEF IntegerText
<1>3. Len(<<>>) = 0 /\ Value(<<>>) = 0 /\ nothing = 1000
  BY NothingIsZero, PowersOfTen DEF MostPlaces
<1>4. a = IF x < 0 THEN -x ELSE x
  BY DEF Absolute
<1>5. NumberOf(IntegerText(x)) = Signed(x < 0, Unit * w + 0 * nothing)
  BY <1>2, <1>3
<1> HIDE DEF a, w, nothing
<1> QED BY <1>1, <1>3, <1>4, <1>5 DEF Signed, Unit

(* The nearest number with so many places. *)
LEMMA RoundedIs ==
  ASSUME NEW places \in 0..MostPlaces, NEW a \in Nat
  PROVE  LET scale == pow10[places]
             step == Unit \div scale
             rounded == (2 * (a % Unit) * scale + Unit) \div (2 * Unit)
             whole == IF rounded >= scale THEN a \div Unit + 1 ELSE a \div Unit
             rest == IF rounded >= scale THEN 0 ELSE rounded
         IN  /\ rounded \in Nat /\ rest \in Nat /\ rest < scale /\ step \in Nat
             /\ step = pow10[MostPlaces - places]
             /\ whole \in Nat /\ whole <= a \div Unit + 1
             /\ Unit * whole + rest * step = ((2 * a + step) \div (2 * step)) * step
<1>1. places \in {0, 1, 2, 3}
  BY DEF MostPlaces
<1>2. CASE places = 0
  BY <1>2, PowersOfTen DEF MostPlaces, Unit
<1>3. CASE places = 1
  BY <1>3, PowersOfTen DEF MostPlaces, Unit
<1>4. CASE places = 2
  BY <1>4, PowersOfTen DEF MostPlaces, Unit
<1>5. CASE places = 3
  BY <1>5, PowersOfTen DEF MostPlaces, Unit
<1> QED BY <1>1, <1>2, <1>3, <1>4, <1>5

(* A fraction is read back, rounded to the places it was written with. *)
LEMMA FractionsReadBack ==
  ASSUME NEW x \in Int, Absolute(x) \div Unit < MostWhole, NEW places \in 0..MostPlaces
  PROVE  NumberOf(FractionText(x, places)) = Rounded(x, places)
<1> DEFINE a == Absolute(x)
           scale == pow10[places]
           step == Unit \div scale
           rounded == (2 * (a % Unit) * scale + Unit) \div (2 * Unit)
           parts == Carry(a \div Unit, rounded, scale)
           whole == IF rounded >= scale THEN a \div Unit + 1 ELSE a \div Unit
           rest == IF rounded >= scale THEN 0 ELSE rounded
           part == IF parts[2] > 0 THEN Digits(parts[2], places) ELSE <<0>>
<1>1. a \in Nat /\ a = IF x < 0 THEN -x ELSE x
  BY DEF Absolute
<1>2. /\ rest \in Nat /\ rest < scale /\ step \in Nat
      /\ step = pow10[MostPlaces - places]
      /\ whole \in Nat /\ whole <= a \div Unit + 1
      /\ Unit * whole + rest * step = ((2 * a + step) \div (2 * step)) * step
  <2> HIDE DEF a
  <2> QED BY <1>1, RoundedIs
<1>3. parts[1] = whole /\ parts[2] = rest
  <2>1. parts = IF rounded >= scale THEN <<a \div Unit + 1, 0>> ELSE <<a \div Unit, rounded>>
    BY DEF Carry
  <2> HIDE DEF a, scale, rounded, parts
  <2> QED BY <2>1
<1>4. FractionText(x, places)
         = Literal(x < 0, Digits(parts[1], num_digits(parts[1])), ".", part)
  BY Zenon DEF FractionText
<1>5. whole \in 0..MostWhole
  <2>1. a \div Unit \in Nat
    BY <1>1 DEF Unit
  <2> DEFINE w == whole
             q == a \div Unit
  <2>2. w \in Nat /\ w <= q + 1 /\ q < MostWhole /\ q \in Nat
    BY <1>2, <2>1
  <2> HIDE DEF w, q
  <2>3. w \in 0..MostWhole
    BY <2>2, MostWholeIs
  <2> QED BY <2>3 DEF w
<1> HIDE DEF whole, rest, parts
<1>6. Value(Digits(parts[1], num_digits(parts[1]))) = whole
  BY <1>3, <1>5, WholeReadBack
<1> DEFINE places_left == pow10[MostPlaces - Len(part)]
<1>7. Value(part) * places_left = rest * step
  <2>1. CASE rest > 0
    <3>1. part = Digits(rest, places)
      BY <1>3, <2>1
    <3>2. places \in 0..9 /\ rest < pow10[places] /\ rest \in Nat
      BY <1>2 DEF MostPlaces
    <3> DEFINE d == Digits(rest, places)
    <3>3. Len(d) = places /\ Value(d) = rest
      BY <3>2, DigitsReadBack
    <3> HIDE DEF d
    <3> QED BY <1>2, <3>1, <3>3 DEF d
  <2>2. CASE ~(rest > 0)
    <3>1. part = <<0>> /\ rest = 0
      BY <1>2, <1>3, <2>2
    <3>2. Len(<<0>>) = 1
      OBVIOUS
    <3> HIDE DEF part
    <3>3. places_left = pow10[2] /\ Value(part) = 0
      <4>1. Len(part) = 1 /\ Value(part) = 0
        BY <3>1, <3>2, NothingIsZero
      <4>2. MostPlaces - Len(part) = 2
        BY <4>1 DEF MostPlaces
      <4> QED BY <4>1, <4>2
    <3>4. places_left = 100
      BY <3>3, PowersOfTen
    <3> HIDE DEF places_left, step
    <3> QED BY <1>2, <3>1, <3>3, <3>4
  <2> QED BY <2>1, <2>2
<1>8. NumberOf(FractionText(x, places)) = Signed(x < 0, Unit * whole + Value(part) * places_left)
  <2> DEFINE digits == Digits(parts[1], num_digits(parts[1]))
  <2>1. Value(digits) = whole
    BY <1>6
  <2>2. FractionText(x, places) = Literal(x < 0, digits, ".", part)
    BY <1>4
  <2> HIDE DEF digits, part
  <2>3. NumberOf(FractionText(x, places)) = Signed(x < 0, Unit * Value(digits) + Value(part) * places_left)
    BY <2>2, LiteralReads, Zenon
  <2> QED BY <2>1, <2>3
<1>9. Rounded(x, places) = Signed(x < 0, ((2 * a + step) \div (2 * step)) * step)
  BY Zenon DEF Rounded, Signed
<1>10. Unit * whole + Value(part) * places_left = ((2 * a + step) \div (2 * step)) * step
  <2> DEFINE e == Value(part) * places_left
             f == rest * step
             g == Unit * whole
             h == ((2 * a + step) \div (2 * step)) * step
  <2>1. e = f /\ g + f = h
    BY <1>2, <1>7
  <2> HIDE DEF e, f, g, h
  <2>2. g + e = h
    BY <2>1
  <2> QED BY <2>2 DEF e, f, g, h
<1> HIDE DEF a, part, places_left, step
<1> QED BY <1>8, <1>9, <1>10, Zenon

-----------------------------------------------------------------------------
(* What a field knows of its text, with the decimal symbol last tried. *)
ScalarTypes == {"UNKNOWN", "NULL", "STRING", "BOOL", "TIMESTAMP", "INT", "BIGINT", "DOUBLE"}
ScalarSet == [type : ScalarTypes, value : Int]
IsNumber == text.kind = "number"
Holds64 == number \div Unit \in Int64
TextIs ==
    /\ text.kind \in {"NULL", "STRING", "BOOL", "TIMESTAMP", "number"}
    /\ text.symbol \in {"", ".", ","} /\ number \in Int
    /\ IsNumber => number = NumberOf(text)
    /\ IsNumber /\ text.symbol = "" => number = Unit * (number \div Unit)

KnowsText(f, symbol) ==
    /\ ~IsNumber => f.type = text.kind
    /\ IsNumber /\ text.symbol = "" /\ Holds64 => f.type = "INT" /\ f.value = number
    /\ IsNumber /\ text.symbol = "" /\ ~Holds64 => f.type = "BIGINT" /\ f.value = 0
    /\ IsNumber /\ text.symbol # "" /\ text.symbol = symbol => f.type = "DOUBLE" /\ f.value = number
    /\ IsNumber /\ text.symbol # "" /\ text.symbol # symbol => f.type = "STRING"

FreshScalar == OfScalar(Classified(text, Int64), ParsedNumber(Classified(text, Int64)))
LazyInv == \/ csv_field["lazy"] = csv_field["eager"]
           \/ csv_field["lazy"].type = "UNKNOWN" /\ csv_field["eager"] = FreshScalar
FieldInv ==
    /\ TextIs /\ separator \in Symbols
    /\ DOMAIN csv_field = {"lazy", "eager"}
    /\ csv_field["eager"] \in ScalarSet /\ KnowsText(csv_field["eager"], separator)
    /\ LazyInv /\ FieldKeepsPromise

LEMMA FreshKnows ==
  ASSUME TextIs
  PROVE  FreshScalar \in ScalarSet /\ KnowsText(FreshScalar, ".")
<1> DEFINE type == Classified(text, Int64)
<1>1. type = IF ~IsNumber THEN text.kind
             ELSE IF text.symbol = "." THEN "DOUBLE"
             ELSE IF text.symbol # "" THEN "STRING"
             ELSE IF Holds64 THEN "INT" ELSE "BIGINT"
  <2>1. IsNumber => NumberOf(text) \div Unit = number \div Unit
    BY DEF TextIs
  <2> QED BY <2>1 DEF Classified, IsNumber, Holds64
<1>2. type \in ScalarTypes
  BY <1>1 DEF TextIs, ScalarTypes, IsNumber
<1>3. type \in {"INT", "DOUBLE"} => IsNumber
  BY <1>1 DEF TextIs
<1> HIDE DEF type
<1> DEFINE value == ParsedNumber(type)
<1>4. value = IF type \in {"INT", "DOUBLE"} THEN number ELSE 0
  BY <1>3 DEF TextIs, ParsedNumber
<1> HIDE DEF value
<1>5. value \in Int
  <2>1. number \in Int
    BY DEF TextIs
  <2> QED BY <1>4, <2>1
<1>6. FreshScalar = [type |-> type, value |-> value]
  BY Zenon DEF FreshScalar, OfScalar, type, value
<1>7. FreshScalar.type = type /\ FreshScalar.value = value /\ FreshScalar \in ScalarSet
  BY <1>2, <1>5, <1>6 DEF ScalarSet
<1> QED BY <1>1, <1>4, <1>7 DEF KnowsText, TextIs

LEMMA KnownType ==
  ASSUME TextIs, NEW g, NEW symbol, KnowsText(g, symbol)
  PROVE  /\ g.type # "UNKNOWN" /\ GetValue(g) = g
         /\ Numeric(g.type) <=> IsNumber /\ text.symbol \in {"", symbol}
         /\ Integral(g.type) <=> IsNumber /\ text.symbol = "" /\ Holds64
         /\ g.type = "BIGINT" <=> IsNumber /\ text.symbol = "" /\ ~Holds64
         /\ g.type = "DOUBLE" <=> IsNumber /\ text.symbol # "" /\ text.symbol = symbol
         /\ g.type = "STRING" <=> text.kind = "STRING"
                                  \/ (IsNumber /\ text.symbol # "" /\ text.symbol # symbol)
         /\ g.type = "BOOL" <=> text.kind = "BOOL"
         /\ g.type = "TIMESTAMP" <=> text.kind = "TIMESTAMP"
         /\ g.type \in {"INT", "DOUBLE"} => g.value = number
         /\ g.type = "BIGINT" => g.value = 0
<1>1. g.type # "UNKNOWN"
  BY DEF TextIs, KnowsText, IsNumber
<1>2. GetValue(g) = g
  BY <1>1 DEF GetValue
<1> QED BY <1>1, <1>2 DEF TextIs, KnowsText, IsNumber, Numeric, Integral

LEMMA FieldTextIs == FieldInit => TextIs
<1> SUFFICES ASSUME FieldInit PROVE TextIs
  OBVIOUS
<1>1. CASE text \in Texts /\ number = IF text.kind = "number" THEN NumberOf(text) ELSE 0
  <2>1. CASE \E kind \in {"NULL", "STRING", "BOOL", "TIMESTAMP"} : text = Word(kind)
    <3>1. PICK kind \in {"NULL", "STRING", "BOOL", "TIMESTAMP"} : text = Word(kind)
      BY <2>1
    <3>2. Word(kind).kind = kind /\ Word(kind).symbol = ""
      BY DEF Word
    <3>3. text.kind = kind /\ text.symbol = ""
      BY <3>1, <3>2, Zenon
    <3>4. text.kind # "number" /\ number = 0
      BY <1>1, <3>3
    <3>5. number \in Int
      BY <3>4
    <3>6. text.kind \in {"NULL", "STRING", "BOOL", "TIMESTAMP"} /\ text.symbol = ""
      BY <3>3, Zenon
    <3>7. ~IsNumber
      BY <3>4, Zenon DEF IsNumber
    <3> QED BY <3>5, <3>6, <3>7, Zenon DEF TextIs
  <2>2. CASE /\ text = Literal(text.negative, text.whole, text.symbol, text.part)
             /\ {text.whole, text.part} \subseteq Seq(0..9) /\ text.negative \in BOOLEAN
             /\ text.symbol \in {"", ".", ","} /\ Len(text.part) <= MostPlaces
             /\ text.symbol = "" => text.part = <<>>
    <3>1. text.kind = "number"
      <4>1. \A a, b, c, d : Literal(a, b, c, d).kind = "number"
        BY DEF Literal
      <4>2. \E a, b, c, d : text = Literal(a, b, c, d)
        BY <2>2
      <4> QED BY <4>1, <4>2, Zenon
    <3>2. number = Signed(text.negative, Unit * Value(text.whole)
                                + Value(text.part) * pow10[MostPlaces - Len(text.part)])
      BY <1>1, <3>1, Zenon DEF NumberOf, Signed
    <3>3. Value(text.whole) \in Nat /\ Value(text.part) \in Nat
      <4>1. ASSUME NEW s \in Seq(0..9) PROVE Value(s) \in Nat
        <5>1. Len(s) \in Nat /\ Len(s) \in 0..Len(s)
          OBVIOUS
        <5> QED BY <5>1, DigitsAreRead DEF Reading
      <4> QED BY <2>2, <4>1
    <3>4. pow10[MostPlaces - Len(text.part)] \in Nat
      <4>1. Len(text.part) \in 0..3 /\ MostPlaces - Len(text.part) \in 0..8
        <5> DEFINE part == text.part
        <5>1. part \in Seq(0..9) /\ Len(part) <= MostPlaces
          BY <2>2
        <5> HIDE DEF part
        <5>2. Len(part) \in Nat
          BY <5>1
        <5> DEFINE L == Len(part)
        <5>3. L \in Nat /\ L <= MostPlaces
          BY <5>1, <5>2
        <5> HIDE DEF L
        <5>4. L \in 0..3 /\ MostPlaces - L \in 0..8
          BY <5>3 DEF MostPlaces
        <5> QED BY <5>4 DEF part, L
      <4> QED BY <4>1, DivByTen
    <3> DEFINE w == Value(text.whole)
               p == Value(text.part)
               q == pow10[MostPlaces - Len(text.part)]
    <3>5. w \in Nat /\ p \in Nat /\ q \in Nat /\ number = Signed(text.negative, Unit * w + p * q)
      BY <3>2, <3>3, <3>4
    <3>6. text.symbol = "" => p = 0
      BY <2>2, NothingIsZero
    <3> HIDE DEF w, p, q
    <3>7. p * q \in Nat
      BY <3>5
    <3>8. number \in Int
      BY <3>5, <3>7 DEF Signed, Unit
    <3>9. text.symbol = "" => number = Unit * (number \div Unit)
      <4>1. p = 0 => p * q = 0
        BY <3>5
      <4>2. p = 0 => number = IF text.negative THEN -(1000 * w) ELSE 1000 * w
        BY <3>5, <4>1 DEF Signed, Unit
      <4>3. p = 0 => number = 1000 * (number \div 1000)
        BY <3>5, <4>2
      <4> QED BY <3>6, <4>3 DEF Unit
    <3> QED BY <1>1, <2>2, <3>1, <3>8, <3>9 DEF TextIs, IsNumber
  <2> QED BY <1>1, <2>1, <2>2, FieldAssumption
<1>2. ASSUME NEW x \in Numbers, NEW places \in 0..MostPlaces,
             text = FractionText(x, places), number = Rounded(x, places)
      PROVE  TextIs
  <2>1. x \in Int /\ Absolute(x) \div Unit < MostWhole
    BY FieldAssumption
  <2>2. NumberOf(text) = number
    BY <1>2, <2>1, FractionsReadBack
  <2>3. \A a, b, c, d : Literal(a, b, c, d).kind = "number" /\ Literal(a, b, c, d).symbol = c
    BY DEF Literal
  <2>4. text.kind = "number" /\ text.symbol = "."
    <3>1. \E whole, part : FractionText(x, places) = Literal(x < 0, whole, ".", part)
      BY Zenon DEF FractionText
    <3> QED BY <1>2, <2>3, <3>1
  <2>5. number \in Int
    <3> DEFINE a == Absolute(x)
               scale == pow10[places]
               step == Unit \div scale
    <3>1. a \in Nat
      BY <2>1 DEF Absolute
    <3>2. step \in Nat /\ step > 0
      BY PowersOfTen DEF Unit, MostPlaces
    <3>3. number = Signed(x < 0, ((2 * a + step) \div (2 * step)) * step)
      BY <1>2, Zenon DEF Rounded, Signed
    <3> HIDE DEF a, step
    <3> DEFINE d == (2 * a + step) \div (2 * step)
    <3>4. d \in Int
      BY <3>1, <3>2
    <3> HIDE DEF d
    <3>5. d * step \in Int
      BY <3>2, <3>4
    <3> QED BY <3>3, <3>5 DEF Signed, d
  <2> QED BY <2>2, <2>4, <2>5 DEF TextIs, IsNumber
<1>3. ASSUME NEW x \in Numbers, text = IntegerText(x \div Unit), number = Unit * (x \div Unit)
      PROVE  TextIs
  <2> DEFINE y == x \div Unit
  <2>1. x \in Int /\ Absolute(x) \div Unit < MostWhole
    BY FieldAssumption
  <2>2. y \in Int /\ Absolute(y) \in 0..MostWhole
    BY <2>1, MostWholeIs DEF Absolute, Unit
  <2> HIDE DEF y
  <2>3. NumberOf(IntegerText(y)) = Unit * y
    BY <2>2, IntegersReadBack
  <2>5. IntegerText(y).kind = "number" /\ IntegerText(y).symbol = ""
    <3>1. \E negative, whole : IntegerText(y) = Literal(negative, whole, "", <<>>)
      BY Zenon DEF IntegerText
    <3>2. PICK negative, whole : IntegerText(y) = Literal(negative, whole, "", <<>>)
      BY <3>1
    <3>3. Literal(negative, whole, "", <<>>).kind = "number" /\ Literal(negative, whole, "", <<>>).symbol = ""
      BY DEF Literal
    <3> QED BY <3>2, <3>3
  <2>6. text = IntegerText(y) /\ number = Unit * y
    BY <1>3 DEF y
  <2>7. number \in Int /\ number = Unit * (number \div Unit)
    BY <2>2, <2>6 DEF Unit
  <2> QED BY <2>3, <2>5, <2>6, <2>7 DEF TextIs, IsNumber
<1> QED BY <1>1, <1>2, <1>3 DEF FieldInit

LEMMA FieldInitially == FieldInit => FieldInv
<1> SUFFICES ASSUME FieldInit PROVE FieldInv
  OBVIOUS
<1>1. TextIs /\ separator = "." /\ asked = <<>>
  BY FieldTextIs DEF FieldInit
<1>2. csv_field = [lazy |-> [type |-> "UNKNOWN", value |-> 0], eager |-> FreshScalar]
  BY Zenon DEF FieldInit, FreshScalar
<1>3. DOMAIN csv_field = {"lazy", "eager"} /\ csv_field["eager"] = FreshScalar
      /\ csv_field["lazy"].type = "UNKNOWN"
  BY <1>2
<1>4. FreshScalar \in ScalarSet /\ KnowsText(FreshScalar, ".")
  BY <1>1, FreshKnows
<1>5. FieldKeepsPromise
  BY <1>1, Zenon DEF FieldKeepsPromise
<1> QED BY <1>1, <1>3, <1>4, <1>5 DEF FieldInv, LazyInv, Symbols

(* A call's promise, by what it asks. *)
When(condition, value) == IF condition THEN Got(value) ELSE No
Asks(call, symbol) ==
    /\ asked' = call /\ separator' = symbol /\ text' = text /\ number' = number

LEMMA PromisesAre ==
  ASSUME NEW call, NEW symbol, Asks(call, symbol)
  PROVE  /\ call[1] = "integral" =>
               Promised' = When(Small /\ text.symbol = "" /\ number \div Unit \in RangeOf[call[2]],
                                number)
         /\ call[1] \in {"floating", "long_double"} => Promised' = When(Reads(symbol), number)
         /\ call[1] = "bool" => Promised' = When(text.kind = "BOOL", text)
         /\ call[1] = "time" => Promised' = When(text.kind = "TIMESTAMP", text)
         /\ call[1] = "equals" => Promised' = When(Reads(symbol) /\ number = call[2], number)
         /\ call[1] = "decimal" => Promised' = When(Reads(call[2]), number)
         /\ call[1] = "timestamp" =>
               Promised' = IF text.kind = "TIMESTAMP" THEN Got(text)
                           ELSE When(Small /\ text.symbol = "" /\ number >= 0, number)
<1>1. asked' = call /\ separator' = symbol /\ text' = text /\ number' = number
  BY DEF Asks
<1>2. Small' = Small /\ Reads(symbol)' = Reads(symbol)
  BY <1>1 DEF Small, Reads
<1> QED BY <1>1 DEF Promised, When, Got, No, Fails, Reads, Small

(* An integer is in a type's range, or all of the range is on one side of it. *)
LEMMA RangeHolds ==
  ASSUME NEW T \in Types, NEW m \in Int, NEW n \in Int, n = Unit * m
  PROVE  /\ ((\A k \in RangeOf[T] : n < k * Unit) \/ (\A k \in RangeOf[T] : n > k * Unit))
               <=> m \notin RangeOf[T]
         /\ (\A k \in RangeOf[T] : k >= 0) /\ n < 0 => m \notin RangeOf[T]
<1> DEFINE R == RangeOf[T]
<1>1. R \subseteq Int
  BY FieldAssumption
<1>2. PICK least \in R, most \in R : R = least..most
  BY FieldAssumption
<1> HIDE DEF R
<1>3. least \in Int /\ most \in Int /\ least <= most
  BY <1>1, <1>2
<1>4. \A k \in R : k \in Int /\ least <= k /\ k <= most
  BY <1>1, <1>2
<1>5. m \notin R <=> m < least \/ m > most
  BY <1>2, <1>3
<1>6. (\A k \in R : n < k * 1000) <=> m < least
  <2>1. ASSUME m < least, NEW k \in R PROVE n < k * 1000
    BY <1>3, <1>4, <2>1 DEF Unit
  <2>2. (\A k \in R : n < k * 1000) => m < least
    BY <1>2, <1>3 DEF Unit
  <2> QED BY <2>1, <2>2
<1>7. (\A k \in R : n > k * 1000) <=> m > most
  <2>1. ASSUME m > most, NEW k \in R PROVE n > k * 1000
    BY <1>3, <1>4, <2>1 DEF Unit
  <2>2. (\A k \in R : n > k * 1000) => m > most
    BY <1>2, <1>3 DEF Unit
  <2> QED BY <2>1, <2>2
<1>8. (\A k \in R : k >= 0) /\ n < 0 => m \notin R
  BY <1>4, <1>5 DEF Unit
<1> QED BY <1>5, <1>6, <1>7, <1>8 DEF R, Unit

(* What a call leaves behind, and what it answers. *)
TakenForZero(given) ==
    /\ (Classified(text, Int64) = "BIGINT")' /\ given = Got(0)
    /\ asked'[1] \in {"long_double", "decimal"}
Fulfils(d, symbol) ==
    /\ d.field \in ScalarSet /\ KnowsText(d.field, symbol)
    /\ \/ d.answer = Promised'
       \/ d.answer[1] = "fails" /\ Promised' = No
       \/ TakenForZero(d.answer)

LEMMA ResultIs ==
  ASSUME NEW f, NEW answer
  PROVE  Result(f, answer).field = f /\ Result(f, answer).answer = answer
  BY DEF Result

LEMMA IntegralKeeps ==
  ASSUME TextIs, NEW g \in ScalarSet, KnowsText(g, separator), NEW T \in Types,
         Asks(<<"integral", T>>, separator)
  PROVE  Fulfils(GetIntegral(g, T), separator)
<1> DEFINE call == <<"integral", T>>
           n == g.value
           m == number \div Unit
           below == \A k \in RangeOf[T] : n < k * Unit
           above == \A k \in RangeOf[T] : n > k * Unit
           unsigned == \A k \in RangeOf[T] : k >= 0
           answer == CASE ~Numeric(g.type)        -> Fails("NotANumber")
                       [] g.type = "BIGINT"       -> Fails("Overflow")
                       [] g.type = "DOUBLE"       -> Fails("FloatToInt")
                       [] g.type = "INT" /\ unsigned /\ n < 0 -> Fails("NegativeToUnsigned")
                       [] g.type = "INT" /\ ~(unsigned /\ n < 0) ->
                             IF below \/ above THEN Fails("Overflow") ELSE Got(n)
<1>1. GetValue(g) = g
  BY KnownType
<1>2. GetIntegral(g, T) = Result(g, answer)
  BY <1>1, Zenon DEF GetIntegral
<1>3. call[1] = "integral" /\ call[2] = T
  OBVIOUS
<1>4. Promised' = When(Small /\ text.symbol = "" /\ m \in RangeOf[T], number)
  <2> HIDE DEF m
  <2> QED BY <1>3, PromisesAre DEF m
<1>5. CASE g.type = "INT"
  <2>1. IsNumber /\ text.symbol = "" /\ Holds64 /\ n = number /\ number = Unit * m /\ number \in Int
    BY <1>5, KnownType DEF Integral, TextIs
  <2>2. Small
    BY <2>1 DEF Small, IsNumber, Holds64
  <2>3. m \in Int
    <3>1. number \in Int
      BY <2>1
    <3> QED BY <3>1 DEF Unit
  <2>4. (below \/ above <=> m \notin RangeOf[T]) /\ (unsigned /\ n < 0 => m \notin RangeOf[T])
    <3> HIDE DEF m
    <3> QED BY <2>1, <2>3, RangeHolds
  <2>5. Numeric(g.type) /\ g.type # "BIGINT" /\ g.type # "DOUBLE"
    BY <1>5 DEF Numeric
  <2> HIDE DEF below, above, unsigned, m, n
  <2>6. answer = IF unsigned /\ n < 0 THEN Fails("NegativeToUnsigned")
                 ELSE IF below \/ above THEN Fails("Overflow") ELSE Got(n)
    BY <1>5, <2>5
  <2>7. answer = Promised' \/ (answer[1] = "fails" /\ Promised' = No)
    <3>1. CASE m \in RangeOf[T]
      BY <1>4, <2>1, <2>2, <2>4, <2>6, <3>1, Zenon DEF When
    <3>2. CASE m \notin RangeOf[T]
      <4>1. Promised' = No
        BY <1>4, <3>2, Zenon DEF When
      <4>2. answer = Fails("NegativeToUnsigned") \/ answer = Fails("Overflow")
        BY <2>4, <2>6, <3>2, Zenon
      <4>3. \A reason : Fails(reason)[1] = "fails"
        BY DEF Fails
      <4> QED BY <4>1, <4>2, <4>3, Zenon
    <3> QED BY <3>1, <3>2
  <2> HIDE DEF answer
  <2> QED BY <1>2, <2>7, ResultIs DEF Fulfils
<1>6. CASE g.type # "INT"
  <2>1. ~(Small /\ text.symbol = "")
    BY <1>6, KnownType DEF Integral, Small, IsNumber, Holds64
  <2>2. Promised' = No
    BY <1>4, <2>1, Zenon DEF When
  <2>3. answer[1] = "fails"
    <3> HIDE DEF below, above, unsigned, n
    <3> QED BY <1>6 DEF Numeric, Fails
  <2> HIDE DEF answer
  <2> QED BY <1>2, <2>2, <2>3, ResultIs DEF Fulfils
<1> QED BY <1>5, <1>6

LEMMA FailsFirst == \A reason : Fails(reason)[1] = "fails"
  BY DEF Fails

(* A BIGINT is an integer that is too large, and stays one. *)
LEMMA BigTextIs ==
  ASSUME TextIs, NEW g, NEW symbol, KnowsText(g, symbol), g.type = "BIGINT", text' = text
  PROVE  (Classified(text, Int64) = "BIGINT")'
<1>1. Classified(text, Int64) = "BIGINT"
  BY KnownType DEF Classified, IsNumber, Holds64, TextIs
<1> QED BY <1>1

(* A number is read under the symbol when its field is numeric. *)
LEMMA NumbersRead ==
  ASSUME TextIs, NEW g, NEW symbol, KnowsText(g, symbol)
  PROVE  /\ Reads(symbol) <=> Numeric(g.type) /\ g.type # "BIGINT"
         /\ Numeric(g.type) /\ g.type # "BIGINT" <=> g.type \in {"INT", "DOUBLE"}
         /\ Small /\ text.symbol = "" <=> Integral(g.type)
  BY KnownType DEF Reads, Small, IsNumber, Holds64, Numeric, Integral, TextIs, KnowsText

LEMMA FloatingKeeps ==
  ASSUME TextIs, NEW g \in ScalarSet, KnowsText(g, separator), Asks(<<"floating">>, separator)
  PROVE  Fulfils(GetFloating(g), separator)
<1> DEFINE answer == CASE ~Numeric(g.type)  -> Fails("NotANumber")
                       [] g.type = "BIGINT" -> Fails("Overflow")
                       [] g.type \in {"INT", "DOUBLE"} -> Got(g.value)
<1>1. GetValue(g) = g
  BY KnownType
<1>2. GetFloating(g) = Result(g, answer)
  BY <1>1, Zenon DEF GetFloating
<1>3. Promised' = When(Reads(separator), number)
  <2>1. <<"floating">>[1] = "floating"
    OBVIOUS
  <2> QED BY <2>1, PromisesAre
<1>4. CASE Reads(separator)
  <2>1. Numeric(g.type) /\ g.type # "BIGINT" /\ g.type \in {"INT", "DOUBLE"} /\ g.value = number
    BY <1>4, NumbersRead, KnownType
  <2>2. answer = Got(number)
    BY <2>1, Zenon
  <2>3. Promised' = Got(number)
    BY <1>3, <1>4, Zenon DEF When
  <2> HIDE DEF answer
  <2> QED BY <1>2, <2>2, <2>3, ResultIs DEF Fulfils
<1>5. CASE ~Reads(separator)
  <2>1. ~Numeric(g.type) \/ (Numeric(g.type) /\ g.type = "BIGINT")
    BY <1>5, NumbersRead
  <2>2. answer[1] = "fails"
    BY <2>1, FailsFirst DEF Numeric
  <2>3. Promised' = No
    BY <1>3, <1>5, Zenon DEF When
  <2> HIDE DEF answer
  <2> QED BY <1>2, <2>2, <2>3, ResultIs DEF Fulfils
<1> QED BY <1>4, <1>5

LEMMA LongDoubleKeeps ==
  ASSUME TextIs, NEW g \in ScalarSet, KnowsText(g, separator), Asks(<<"long_double">>, separator)
  PROVE  Fulfils(GetLongDouble(g), separator)
<1> DEFINE answer == IF Numeric(g.type) THEN Got(g.value) ELSE Fails("NotANumber")
<1>1. GetLongDouble(g) = Result(g, answer)
  <2>1. GetValue(g) = g
    BY KnownType
  <2> QED BY <2>1, Zenon DEF GetLongDouble
<1>2. Promised' = When(Reads(separator), number) /\ asked'[1] = "long_double"
  <2>1. <<"long_double">>[1] = "long_double"
    OBVIOUS
  <2> QED BY <2>1, PromisesAre DEF Asks
<1>3. CASE Reads(separator)
  <2>1. Numeric(g.type) /\ g.type \in {"INT", "DOUBLE"} /\ g.value = number
    BY <1>3, NumbersRead, KnownType
  <2>2. answer = Got(number) /\ Promised' = Got(number)
    BY <1>2, <1>3, <2>1, Zenon DEF When
  <2> HIDE DEF answer
  <2> QED BY <1>1, <2>2, ResultIs DEF Fulfils
<1>4. CASE g.type = "BIGINT"
  <2>1. (Classified(text, Int64) = "BIGINT")'
    BY <1>4, BigTextIs DEF Asks
  <2>2. Numeric(g.type) /\ g.value = 0
    BY <1>4, KnownType DEF Numeric
  <2>3. answer = Got(0)
    BY <2>2, Zenon
  <2> DEFINE d == GetLongDouble(g)
  <2>4. d.answer = Got(0) /\ d.field = g
    BY <1>1, <2>3, ResultIs
  <2> HIDE DEF answer, d
  <2>5. TakenForZero(d.answer)
    BY <1>2, <2>1, <2>4, Zenon DEF TakenForZero
  <2>6. Fulfils(d, separator)
    BY <2>4, <2>5 DEF Fulfils
  <2> QED BY <2>6 DEF d
<1>5. CASE ~Reads(separator) /\ g.type # "BIGINT"
  <2>1. ~Numeric(g.type)
    BY <1>5, NumbersRead
  <2>2. answer[1] = "fails" /\ Promised' = No
    BY <1>2, <1>5, <2>1, FailsFirst, Zenon DEF When
  <2> HIDE DEF answer
  <2> QED BY <1>1, <2>2, ResultIs DEF Fulfils
<1> QED BY <1>3, <1>4, <1>5

LEMMA TimeKeeps ==
  ASSUME TextIs, NEW g \in ScalarSet, KnowsText(g, separator), Asks(<<"time">>, separator)
  PROVE  Fulfils(GetTime(g), separator)
<1> DEFINE answer == IF g.type = "TIMESTAMP" THEN Got(text) ELSE Fails("NotANumber")
<1>1. GetTime(g) = Result(g, answer)
  <2>1. GetValue(g) = g
    BY KnownType
  <2> QED BY <2>1, Zenon DEF GetTime
<1>2. Promised' = When(text.kind = "TIMESTAMP", text)
  <2>1. <<"time">>[1] = "time"
    OBVIOUS
  <2> QED BY <2>1, PromisesAre
<1>3. g.type = "TIMESTAMP" <=> text.kind = "TIMESTAMP"
  BY KnownType
<1>4. answer = Promised' \/ (answer[1] = "fails" /\ Promised' = No)
  <2>1. CASE g.type = "TIMESTAMP"
    BY <1>2, <1>3, <2>1, Zenon DEF When
  <2>2. CASE g.type # "TIMESTAMP"
    BY <1>2, <1>3, <2>2, FailsFirst, Zenon DEF When
  <2> QED BY <2>1, <2>2
<1> HIDE DEF answer
<1> QED BY <1>1, <1>4, ResultIs DEF Fulfils

LEMMA BoolKeeps ==
  ASSUME TextIs, NEW g \in ScalarSet, KnowsText(g, separator), Asks(<<"bool">>, separator)
  PROVE  Fulfils(GetBool(g), separator)
<1> DEFINE answer == IF g.type = "BOOL" THEN Got(text) ELSE Fails("NotANumber")
<1>1. GetBool(g) = Result(g, answer)
  <2>1. GetValue(g) = g
    BY KnownType
  <2> QED BY <2>1, Zenon DEF GetBool
<1>2. Promised' = When(text.kind = "BOOL", text)
  <2>1. <<"bool">>[1] = "bool"
    OBVIOUS
  <2> QED BY <2>1, PromisesAre
<1>3. g.type = "BOOL" <=> text.kind = "BOOL"
  BY KnownType
<1>4. answer = Promised' \/ (answer[1] = "fails" /\ Promised' = No)
  <2>1. CASE g.type = "BOOL"
    BY <1>2, <1>3, <2>1, Zenon DEF When
  <2>2. CASE g.type # "BOOL"
    BY <1>2, <1>3, <2>2, FailsFirst, Zenon DEF When
  <2> QED BY <2>1, <2>2
<1> HIDE DEF answer
<1> QED BY <1>1, <1>4, ResultIs DEF Fulfils

LEMMA EqualsKeeps ==
  ASSUME TextIs, NEW g \in ScalarSet, KnowsText(g, separator), NEW n,
         Asks(<<"equals", n>>, separator)
  PROVE  Fulfils(EqualTo(g, n), separator)
<1> DEFINE answer == IF Numeric(g.type) /\ g.type # "BIGINT" /\ g.value = n THEN Got(n) ELSE No
<1>1. EqualTo(g, n) = Result(g, answer)
  <2>1. GetValue(g) = g
    BY KnownType
  <2> QED BY <2>1, Zenon DEF EqualTo
<1>2. Promised' = When(Reads(separator) /\ number = n, number)
  <2>1. <<"equals", n>>[1] = "equals" /\ <<"equals", n>>[2] = n
    OBVIOUS
  <2> QED BY <2>1, PromisesAre
<1>3. /\ Reads(separator) <=> Numeric(g.type) /\ g.type # "BIGINT"
      /\ Reads(separator) => g.value = number
  BY NumbersRead, KnownType
<1>4. answer = Promised'
  BY <1>2, <1>3, Zenon DEF When
<1> HIDE DEF answer
<1> QED BY <1>1, <1>4, ResultIs DEF Fulfils

LEMMA TimestampKeeps ==
  ASSUME TextIs, NEW g \in ScalarSet, KnowsText(g, separator), Asks(<<"timestamp">>, separator)
  PROVE  Fulfils(TryParseTimestamp(g), separator)
<1> DEFINE answer == IF g.type = "TIMESTAMP" THEN Got(text)
                     ELSE IF Integral(g.type) /\ g.value >= 0 THEN Got(g.value) ELSE No
<1>1. TryParseTimestamp(g) = Result(g, answer)
  <2>1. GetValue(g) = g
    BY KnownType
  <2> QED BY <2>1, Zenon DEF TryParseTimestamp
<1>2. Promised' = IF text.kind = "TIMESTAMP" THEN Got(text)
                  ELSE When(Small /\ text.symbol = "" /\ number >= 0, number)
  <2>1. <<"timestamp">>[1] = "timestamp"
    OBVIOUS
  <2> QED BY <2>1, PromisesAre
<1>3. /\ g.type = "TIMESTAMP" <=> text.kind = "TIMESTAMP"
      /\ Small /\ text.symbol = "" <=> Integral(g.type)
      /\ Integral(g.type) => g.value = number
  <2>1. Integral(g.type) => g.type \in {"INT", "DOUBLE"}
    BY DEF Integral
  <2> QED BY <2>1, NumbersRead, KnownType
<1>4. answer = Promised'
  BY <1>2, <1>3, Zenon DEF When
<1> HIDE DEF answer
<1> QED BY <1>1, <1>4, ResultIs DEF Fulfils

LEMMA DecimalKeeps ==
  ASSUME TextIs, NEW g \in ScalarSet, KnowsText(g, separator), NEW symbol \in Symbols,
         Asks(<<"decimal", symbol>>, symbol)
  PROVE  Fulfils(TryParseDecimal(g, symbol), symbol)
<1> DEFINE d == TryParseDecimal(g, symbol)
<1>1. GetValue(g) = g
  BY KnownType
<1>2. Promised' = When(Reads(symbol), number) /\ asked'[1] = "decimal"
  <2>1. <<"decimal", symbol>>[1] = "decimal" /\ <<"decimal", symbol>>[2] = symbol
    OBVIOUS
  <2> QED BY <2>1, PromisesAre DEF Asks
<1>3. Parses(symbol) <=> IsNumber /\ text.symbol \in {"", symbol}
  BY DEF Parses, IsNumber
<1>4. symbol # ""
  BY DEF Symbols
<1>5. g.type \in ScalarTypes /\ g.value \in Int /\ g = [type |-> g.type, value |-> g.value]
  BY DEF ScalarSet
<1>6. CASE g.type \in {"STRING", "DOUBLE"} /\ ~Parses(symbol)
  <2>1. d = Result(Misfit(g), No)
    BY <1>1, <1>6, Zenon DEF TryParseDecimal
  <2> DEFINE f == Misfit(g)
  <2>2. f = [g EXCEPT !.type = IF g.type = "DOUBLE" THEN "STRING" ELSE g.type]
    BY DEF Misfit
  <2>3. f.type = "STRING" /\ f \in ScalarSet
    BY <1>5, <1>6, <2>2 DEF ScalarSet, ScalarTypes
  <2> HIDE DEF f
  <2>4. IsNumber => text.symbol # "" /\ text.symbol # symbol
    BY <1>3, <1>6
  <2>5. ~IsNumber => text.kind = "STRING"
    BY <1>6, KnownType
  <2>6. KnowsText(f, symbol)
    BY <2>3, <2>4, <2>5, Zenon DEF KnowsText
  <2>7. ~Reads(symbol)
    BY <1>3, <1>6 DEF Reads, Small, IsNumber
  <2>8. Promised' = No
    BY <1>2, <2>7, Zenon DEF When
  <2>9. d.field = f /\ d.answer = No
    BY <2>1, ResultIs DEF f
  <2> HIDE DEF d
  <2> QED BY <2>3, <2>6, <2>8, <2>9, Zenon DEF Fulfils, d
<1>7. CASE g.type \in {"STRING", "DOUBLE"} /\ Parses(symbol)
  <2> DEFINE f == [type |-> "DOUBLE", value |-> NumberOf(text)]
  <2>1. d = Result(f, Got(NumberOf(text)))
    BY <1>1, <1>7, Zenon DEF TryParseDecimal
  <2>2. IsNumber /\ text.symbol = symbol /\ NumberOf(text) = number /\ number \in Int
    BY <1>3, <1>4, <1>7, KnownType DEF TextIs, IsNumber
  <2>3. f.type = "DOUBLE" /\ f.value = number /\ f \in ScalarSet
    BY <2>2 DEF ScalarSet, ScalarTypes
  <2> HIDE DEF f
  <2>4. KnowsText(f, symbol)
    BY <1>4, <2>2, <2>3, Zenon DEF KnowsText
  <2>5. Reads(symbol)
    BY <1>4, <2>2 DEF Reads, Small, IsNumber
  <2>6. Promised' = Got(number)
    BY <1>2, <2>5, Zenon DEF When
  <2>7. d.field = f /\ d.answer = Got(number)
    BY <2>1, <2>2, ResultIs
  <2> HIDE DEF d
  <2> QED BY <2>3, <2>4, <2>6, <2>7, Zenon DEF Fulfils, d
<1>8. CASE g.type \notin {"STRING", "DOUBLE"}
  <2> DEFINE answer == IF Numeric(g.type) THEN Got(g.value) ELSE No
  <2>1. d = Result(g, answer)
    BY <1>1, <1>8, Zenon DEF TryParseDecimal
  <2>2. IsNumber => text.symbol = ""
    BY <1>8 DEF KnowsText
  <2>3. KnowsText(g, symbol)
    BY <2>2 DEF KnowsText
  <2>4. CASE g.type = "BIGINT"
    <3>1. (Classified(text, Int64) = "BIGINT")'
      BY <2>4, BigTextIs DEF Asks
    <3>2. Numeric(g.type) /\ g.value = 0
      BY <2>4, KnownType DEF Numeric
    <3>3. d.field = g /\ d.answer = Got(0)
      BY <2>1, <3>2, ResultIs
    <3>4. asked'[1] \in {"long_double", "decimal"}
      BY <1>2
    <3> HIDE DEF d
    <3>5. TakenForZero(d.answer)
      BY <3>1, <3>3, <3>4, Zenon DEF TakenForZero
    <3> QED BY <2>3, <3>3, <3>5, Zenon DEF Fulfils, d
  <2>5. CASE g.type # "BIGINT"
    <3>1. Reads(symbol) <=> Numeric(g.type)
      BY <2>3, <2>5, NumbersRead
    <3>2. Reads(symbol) => g.value = number
      BY <2>3, <2>5, <3>1, NumbersRead, KnownType
    <3>3. answer = Promised'
      BY <1>2, <3>1, <3>2, Zenon DEF When
    <3>4. d.field = g /\ d.answer = answer
      BY <2>1, ResultIs
    <3> HIDE DEF d, answer
    <3> QED BY <2>3, <3>3, <3>4, Zenon DEF Fulfils, d
  <2> QED BY <2>4, <2>5
<1> QED BY <1>6, <1>7, <1>8

LEMMA CallsKeep ==
  ASSUME TextIs, separator \in Symbols, NEW g \in ScalarSet, KnowsText(g, separator),
         NEW call \in Calls, NEW symbol, Asks(call, symbol),
         symbol = IF call[1] = "decimal" THEN call[2] ELSE separator
  PROVE  Fulfils(Do(call, g), symbol) /\ symbol \in Symbols
<1>1. CASE call \in {"integral"} \X Types
  <2>1. PICK T \in Types : call = <<"integral", T>>
    BY <1>1
  <2>2. call[1] = "integral" /\ call[2] = T
    BY <2>1
  <2>3. Do(call, g) = GetIntegral(g, T) /\ symbol = separator
    BY <2>2, Zenon DEF Do
  <2> QED BY <2>1, <2>3, IntegralKeeps
<1>2. CASE call = <<"floating">>
  <2>1. call[1] = "floating"
    BY <1>2
  <2>2. Do(call, g) = GetFloating(g) /\ symbol = separator
    BY <2>1 DEF Do
  <2> QED BY <1>2, <2>2, FloatingKeeps
<1>3. CASE call = <<"long_double">>
  <2>1. call[1] = "long_double"
    BY <1>3
  <2>2. Do(call, g) = GetLongDouble(g) /\ symbol = separator
    BY <2>1 DEF Do
  <2> QED BY <1>3, <2>2, LongDoubleKeeps
<1>4. CASE call = <<"time">>
  <2>1. call[1] = "time"
    BY <1>4
  <2>2. Do(call, g) = GetTime(g) /\ symbol = separator
    BY <2>1 DEF Do
  <2> QED BY <1>4, <2>2, TimeKeeps
<1>5. CASE call = <<"bool">>
  <2>1. call[1] = "bool"
    BY <1>5
  <2>2. Do(call, g) = GetBool(g) /\ symbol = separator
    BY <2>1 DEF Do
  <2> QED BY <1>5, <2>2, BoolKeeps
<1>6. CASE call = <<"timestamp">>
  <2>1. call[1] = "timestamp"
    BY <1>6
  <2>2. Do(call, g) = TryParseTimestamp(g) /\ symbol = separator
    BY <2>1 DEF Do
  <2> QED BY <1>6, <2>2, TimestampKeeps
<1>7. CASE call \in {"equals"} \X {number, number + 1}
  <2>1. PICK n \in {number, number + 1} : call = <<"equals", n>>
    BY <1>7
  <2>2. call[1] = "equals" /\ call[2] = n
    BY <2>1
  <2>3. Do(call, g) = EqualTo(g, n) /\ symbol = separator
    BY <2>2 DEF Do
  <2> QED BY <2>1, <2>3, EqualsKeeps
<1>8. CASE call \in {"decimal"} \X Symbols
  <2>1. PICK s \in Symbols : call = <<"decimal", s>>
    BY <1>8
  <2>2. call[1] = "decimal" /\ call[2] = s
    BY <2>1
  <2>3. Do(call, g) = TryParseDecimal(g, s) /\ symbol = s
    BY <2>2 DEF Do
  <2> QED BY <2>1, <2>3, DecimalKeeps
<1> QED BY <1>1, <1>2, <1>3, <1>4, <1>5, <1>6, <1>7, <1>8 DEF Calls

(* A call does the same to a field that is classified and to one that is not. *)
LEMMA CallsClassify ==
  ASSUME NEW f, NEW g, GetValue(f) = g, GetValue(g) = g, NEW call \in Calls
  PROVE  Do(call, f) = Do(call, g)
<1>1. \A T : GetIntegral(f, T) = GetIntegral(g, T)
  BY Zenon DEF GetIntegral
<1>2. /\ GetFloating(f) = GetFloating(g) /\ GetLongDouble(f) = GetLongDouble(g)
      /\ GetBool(f) = GetBool(g) /\ GetTime(f) = GetTime(g)
      /\ TryParseTimestamp(f) = TryParseTimestamp(g)
  BY Zenon DEF GetFloating, GetLongDouble, GetBool, GetTime, TryParseTimestamp
<1>3. \A n : EqualTo(f, n) = EqualTo(g, n)
  BY Zenon DEF EqualTo
<1>4. \A symbol : TryParseDecimal(f, symbol) = TryParseDecimal(g, symbol)
  BY Zenon DEF TryParseDecimal
<1> QED BY <1>1, <1>2, <1>3, <1>4, Zenon DEF Do

LEMMA FieldSteps == FieldInv /\ [FieldNext]_fieldVars => FieldInv'
<1> SUFFICES ASSUME FieldInv, [FieldNext]_fieldVars PROVE FieldInv'
  OBVIOUS
<1>1. CASE UNCHANGED fieldVars
  <2>1. /\ text' = text /\ number' = number /\ csv_field' = csv_field
        /\ separator' = separator /\ asked' = asked /\ answers' = answers
    BY <1>1, Zenon DEF fieldVars
  <2>2. TextIs' /\ IsNumber' = IsNumber /\ Holds64' = Holds64
    BY <2>1, Zenon DEF FieldInv, TextIs, IsNumber, Holds64
  <2>3. KnowsText(csv_field["eager"], separator)'
    BY <2>1, <2>2, Zenon DEF FieldInv, KnowsText
  <2>4. FreshScalar' = FreshScalar
    BY <2>1, Zenon DEF FreshScalar, ParsedNumber
  <2>5. LazyInv'
    BY <2>1, <2>4, Zenon DEF FieldInv, LazyInv
  <2>6. Promised' = Promised
    <3>1. Small' = Small /\ Reads(separator)' = Reads(separator)
          /\ Reads(asked[2])' = Reads(asked[2])
      BY <2>1, Zenon DEF Small, Reads
    <3> QED BY <2>1, <3>1, Zenon DEF Promised
  <2>7. FieldKeepsPromise'
    <3>1. AsZero' = AsZero
      BY <2>1, Zenon DEF AsZero
    <3> QED BY <2>1, <2>6, <3>1, Zenon DEF FieldInv, FieldKeepsPromise
  <2> QED BY <2>1, <2>2, <2>3, <2>5, <2>7, Zenon DEF FieldInv
<1>2. ASSUME NEW call \in Calls,
             csv_field' = [sort \in DOMAIN csv_field |-> Do(call, csv_field[sort]).field],
             answers' = [sort \in DOMAIN csv_field |-> Do(call, csv_field[sort]).answer],
             asked' = call,
             separator' = IF call[1] = "decimal" THEN call[2] ELSE separator,
             UNCHANGED <<text, number>>
      PROVE  FieldInv'
  <2> DEFINE g == csv_field["eager"]
             f == csv_field["lazy"]
             symbol == IF call[1] = "decimal" THEN call[2] ELSE separator
             d == Do(call, g)
  <2>1. TextIs /\ separator \in Symbols /\ DOMAIN csv_field = {"lazy", "eager"}
        /\ g \in ScalarSet /\ KnowsText(g, separator) /\ LazyInv
    BY DEF FieldInv
  <2>2. GetValue(g) = g
    BY <2>1, KnownType
  <2>3. GetValue(f) = g
    <3>1. f.type = "UNKNOWN" /\ g = FreshScalar => GetValue(f) = g
      BY Zenon DEF GetValue, FreshScalar, OfScalar
    <3> QED BY <2>1, <2>2, <3>1, Zenon DEF LazyInv
  <2>4. Do(call, f) = d
    BY <2>2, <2>3, CallsClassify
  <2>5. csv_field'["lazy"] = d.field /\ csv_field'["eager"] = d.field
        /\ answers'["lazy"] = d.answer /\ answers'["eager"] = d.answer
        /\ DOMAIN csv_field' = {"lazy", "eager"}
    <3> HIDE DEF d
    <3> QED BY <1>2, <2>1, <2>4 DEF d
  <2>6. Asks(call, symbol) /\ separator' = symbol
    BY <1>2 DEF Asks
  <2>7. Fulfils(d, symbol) /\ symbol \in Symbols
    <3> HIDE DEF g, symbol
    <3>1. symbol = IF call[1] = "decimal" THEN call[2] ELSE separator
      BY DEF symbol
    <3> QED BY <2>1, <2>6, <3>1, CallsKeep
  <2> HIDE DEF d, symbol
  <2>8. FieldKeepsPromise'
    BY <2>5, <2>7, Zenon DEF FieldKeepsPromise, AsZero, TakenForZero, Fulfils
  <2>9. TextIs' /\ IsNumber' = IsNumber /\ Holds64' = Holds64
    BY <1>2, <2>1 DEF TextIs, IsNumber, Holds64
  <2>10. (csv_field["eager"] \in ScalarSet /\ KnowsText(csv_field["eager"], separator))'
    BY <1>2, <2>5, <2>6, <2>7, <2>9 DEF Fulfils, KnowsText, ScalarSet
  <2>11. LazyInv'
    BY <2>5 DEF LazyInv
  <2> QED BY <2>5, <2>6, <2>7, <2>8, <2>9, <2>10, <2>11 DEF FieldInv, Symbols
<1>3. CASE FieldNext
  BY <1>2, <1>3, Zenon DEF FieldNext
<1> QED BY <1>1, <1>3

(* A field answers as its text promises, for every text, written number and *)
(* range of the types, and after any calls.                                 *)
THEOREM FieldsKeepTheirPromise == FieldSpec => []FieldKeepsPromise
<1>1. FieldInv => FieldKeepsPromise
  BY DEF FieldInv
<1> QED BY <1>1, FieldInitially, FieldSteps, PTL DEF FieldSpec
=============================================================================
