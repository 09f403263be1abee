------------------------ MODULE ThreadSafeDequeProofs ------------------------
(***************************************************************************)
(* ThreadSafeDeque for every number of rows, every batch length and every  *)
(* notify size: the consumer always finds the row it goes for, the empty   *)
(* flag never lies, and the deque implements RowQueue.  The inductive      *)
(* invariant is Inv.                                                       *)
(***************************************************************************)
EXTENDS ThreadSafeDeque, SequenceLemmas

(* The storage: no batch is empty, a position points at a row, and _size is *)
(* the number of rows.                                                      *)
Storage ==
  /\ batches \in Seq(Seq(Row))
  /\ \A i \in 1..Len(batches) : Len(batches[i]) \in 1..MaxBatch
  /\ front_index \in Nat
  /\ IF batches = <<>> THEN front_index = 0 ELSE front_index < Len(Head(batches))
  /\ size = Len(Stored)

(* The mutex is held in the middle of an operation and nowhere else. *)
Mutex ==
  /\ lock = "producer" <=> ppc \in {"announce", "publish", "ending"}
  /\ lock = "consumer" <=> cpc \in {"announce", "woken", "dozing", "draining", "popped"}

(* Rows that were moved out by an operation that has not finished. *)
InHand == Len(got) - confirmed

Taking ==
  /\ confirmed <= Len(got)
  /\ cpc \notin {"draining", "popped"} => InHand = 0
  /\ cpc \in {"rows", "draining", "popped"} => ~is_empty
  /\ cpc = "rows" => size > 0
  /\ cpc = "draining" => want <= size /\ want + InHand > 0
  /\ cpc = "popped" => InHand > 0

(* The batch being published is the last one, and all of it is there. *)
Shown == IF ppc = "publish" THEN TakeN(Stored, Len(Stored) - Len(Last(batches))) ELSE Stored

Publishing ==
  ppc = "publish" =>
    batches # <<>> /\ Len(Last(batches)) <= Len(Stored) /\ Stored = Shown \o Last(batches)

Inv ==
  /\ TypeOK
  /\ Storage
  /\ Mutex
  /\ Taking
  /\ Publishing
  /\ EmptyFlagAccurate

-----------------------------------------------------------------------------
(* The storage. *)

LEMMA RowFacts == /\ MaxRows \in Nat /\ MaxBatch \in Nat \ {0} /\ NotifySize \in Nat \ {0}
                  /\ Row \subseteq Nat
BY DequeAssumption DEF Row

(* The rows in storage are those of the front batch behind its position,    *)
(* and those of the other batches.                                          *)
LEMMA StoredFacts ==
  ASSUME Storage
  PROVE  /\ Stored \in Seq(Row) /\ size \in Nat
         /\ FlattenSeq(batches) \in Seq(Row)
         /\ front_index \in 0..Len(FlattenSeq(batches))
         /\ Stored = DropN(FlattenSeq(batches), front_index)
         /\ batches = <<>> <=> size = 0
         /\ batches # <<>> =>
              /\ Head(batches) \in Seq(Row) /\ Tail(batches) \in Seq(Seq(Row))
              /\ front_index \in 0..(Len(Head(batches)) - 1) /\ Len(Head(batches)) \in Nat
              /\ FlattenSeq(Tail(batches)) \in Seq(Row)
              /\ DropN(Head(batches), front_index) \in Seq(Row)
              /\ Stored = DropN(Head(batches), front_index) \o FlattenSeq(Tail(batches))
              /\ size = (Len(Head(batches)) - front_index) + Len(FlattenSeq(Tail(batches)))
<1> DEFINE all == FlattenSeq(batches)
<1>1. batches \in Seq(Seq(Row)) /\ all \in Seq(Row) /\ Len(all) \in Nat
  BY FlattenType, LenProperties DEF Storage
<1>2. Stored = DropN(all, front_index)
  BY DEF Stored, DropN
<1>3. CASE batches = <<>>
  <2>1. all = <<>> /\ front_index = 0 /\ Len(<<>>) = 0
    BY <1>3, FlattenEmpty, EmptySeq DEF Storage
  <2>2. Stored = <<>>
    BY <1>1, <1>2, <2>1, DropNone
  <2> QED BY <1>1, <1>2, <1>3, <2>1, <2>2 DEF Storage
<1>4. CASE batches # <<>>
  <2> DEFINE h == Head(batches)
             r == FlattenSeq(Tail(batches))
  <2>1. h \in Seq(Row) /\ Tail(batches) \in Seq(Seq(Row)) /\ Len(h) \in Nat
    BY <1>1, <1>4, HeadTailProperties, LenProperties
  <2>2. r \in Seq(Row) /\ Len(r) \in Nat
    BY <2>1, FlattenType, LenProperties
  <2>3. all = h \o r
    BY <1>1, <1>4, FlattenHead
  <2> HIDE DEF all, h, r
  <2>4. front_index \in 0..(Len(h) - 1) /\ front_index \in 0..Len(h)
    BY <1>4, <2>1 DEF Storage, h
  <2>5. Len(all) = Len(h) + Len(r)
    BY <2>1, <2>2, <2>3, ConcatProperties
  <2>6. front_index \in 0..Len(all)
    BY <1>1, <2>1, <2>2, <2>4, <2>5
  <2>7. /\ DropN(h, front_index) \in Seq(Row)
        /\ Len(DropN(h, front_index)) = Len(h) - front_index
    BY <2>1, <2>4, DropFacts
  <2>8. Stored = DropN(h, front_index) \o r
    BY <1>2, <2>1, <2>2, <2>3, <2>4, DropConcat
  <2>9. Stored \in Seq(Row) /\ Len(Stored) = (Len(h) - front_index) + Len(r)
    BY <2>2, <2>7, <2>8, ConcatProperties
  <2>10. size = (Len(h) - front_index) + Len(r) /\ size \in Nat /\ size # 0
    BY <2>1, <2>2, <2>4, <2>9 DEF Storage
  <2> QED BY <1>1, <1>2, <1>4, <2>1, <2>2, <2>4, <2>6, <2>7, <2>8, <2>9, <2>10 DEF all, h, r
<1> QED BY <1>3, <1>4

(* A batch stored at the back lies behind everything else. *)
LEMMA BatchAdded ==
  ASSUME Storage, NEW n \in 1..MaxBatch, StoreBatch(n), pushed \in 0..MaxRows
  PROVE  /\ Storage'
         /\ batches' # <<>>
         /\ Last(batches') \in [1..n -> Row] /\ Len(Last(batches')) = n
         /\ Stored' = Stored \o Last(batches')
         /\ Len(Stored') = Len(Stored) + n
<1> DEFINE b == [k \in 1..n |-> pushed + k]
<1>1. n \in Nat \ {0} /\ b \in [1..n -> Row] /\ b \in Seq(Row) /\ Len(b) = n
  BY RowFacts DEF StoreBatch, Row
<1>2. batches' = Append(batches, b) /\ size' = size + n /\ front_index' = front_index
  BY DEF StoreBatch
<1> HIDE DEF b
<1>3. batches \in Seq(Seq(Row)) /\ Len(batches) \in Nat
  BY LenProperties DEF Storage
<1>4. /\ batches' \in Seq(Seq(Row)) /\ batches' # <<>> /\ Len(batches') = Len(batches) + 1
      /\ \A i \in 1..Len(batches) : batches'[i] = batches[i]
      /\ batches'[Len(batches) + 1] = b
  BY <1>1, <1>2, <1>3, AppendProperties
<1>5. Last(batches') = b
  BY <1>3, <1>4 DEF Last
<1>6. FlattenSeq(batches') = FlattenSeq(batches) \o b
  BY <1>1, <1>2, <1>3, FlattenAppend
<1>7. Stored' = Stored \o b
  <2>1. Stored' = DropN(FlattenSeq(batches'), front_index)
    BY <1>2 DEF Stored, DropN
  <2>2. /\ FlattenSeq(batches) \in Seq(Row) /\ front_index \in 0..Len(FlattenSeq(batches))
        /\ Stored = DropN(FlattenSeq(batches), front_index)
    BY StoredFacts
  <2> QED BY <1>1, <1>6, <2>1, <2>2, DropConcat
<1>8. Len(Stored') = Len(Stored) + n
  BY <1>1, <1>7, StoredFacts, ConcatProperties, ZenonT(30)
<1>9. Storage'
  <2>1. ASSUME NEW i \in 1..Len(batches') PROVE Len(batches'[i]) \in 1..MaxBatch
    <3>1. CASE i \in 1..Len(batches)
      BY <1>4, <3>1 DEF Storage
    <3>2. CASE i = Len(batches) + 1
      BY <1>1, <1>4, <3>2
    <3> QED BY <1>3, <1>4, <3>1, <3>2
  <2>2. front_index' < Len(Head(batches')) /\ front_index' \in Nat
    <3>1. Head(batches') = IF batches = <<>> THEN b ELSE Head(batches)
      BY <1>2, <1>3, HeadTailAppend
    <3> QED BY <1>1, <1>2, <3>1 DEF Storage
  <2>3. size' = Len(Stored')
    BY <1>2, <1>8 DEF Storage
  <2> QED BY <1>4, <2>1, <2>2, <2>3 DEF Storage
<1> QED BY <1>1, <1>4, <1>5, <1>7, <1>8, <1>9

(* Taking n rows of the front batch takes the first n rows of the storage,  *)
(* and leaves the others.                                                   *)
LEMMA Advanced ==
  ASSUME Storage, batches # <<>>, NEW n \in 1..(Len(Head(batches)) - front_index), Advance(n)
  PROVE  /\ Storage'
         /\ n \in 1..Len(Stored)
         /\ Stored' = DropN(Stored, n)
         /\ SubSeq(Head(batches), front_index + 1, front_index + n) = TakeN(Stored, n)
<1> DEFINE h == Head(batches)
           r == FlattenSeq(Tail(batches))
           d == DropN(h, front_index)
<1> HIDE DEF h, r, d
<1>1. /\ h \in Seq(Row) /\ Len(h) \in Nat /\ r \in Seq(Row) /\ d \in Seq(Row)
      /\ Tail(batches) \in Seq(Seq(Row))
      /\ front_index \in 0..(Len(h) - 1) /\ front_index \in Nat
      /\ Stored = d \o r /\ Stored \in Seq(Row)
      /\ size = (Len(h) - front_index) + Len(r) /\ size = Len(Stored)
  BY StoredFacts DEF h, r, d, Storage
<1>2. n \in 1..(Len(h) - front_index) /\ n \in Nat
  BY <1>1 DEF h
<1>3. /\ front_index \in 0..Len(h) /\ n \in 0..(Len(h) - front_index)
      /\ Len(d) = Len(h) - front_index /\ n \in 0..Len(d) /\ Len(r) \in Nat
  <2>1. front_index \in 0..Len(h) /\ n \in 0..(Len(h) - front_index)
    BY <1>1, <1>2
  <2>2. Len(d) = Len(h) - front_index
    BY <1>1, <2>1, DropFacts DEF d
  <2> QED BY <1>1, <2>1, <2>2, LenProperties
<1>4. SubSeq(h, front_index + 1, front_index + n) = TakeN(Stored, n)
  <2>1. TakeN(d, n) = SubSeq(h, front_index + 1, front_index + n)
    BY <1>1, <1>3, TakeDrop DEF d
  <2>2. TakeN(Stored, n) = TakeN(d, n)
    BY <1>1, <1>3, TakeConcat
  <2> QED BY <2>1, <2>2
<1>5. DropN(Stored, n) = DropN(d, n) \o r
  BY <1>1, <1>3, DropConcat
<1>6. n \in 1..Len(Stored)
  BY <1>1, <1>2, <1>3
<1>7. Len(DropN(Stored, n)) = size - n
  <2>1. n \in 0..Len(Stored)
    BY <1>6
  <2> QED BY <1>1, <2>1, DropFacts
<1>8. Exhausted(front_index + n) <=> n = Len(d)
  BY <1>1, <1>2, <1>3, SMTT(30) DEF Exhausted, h
<1>9. CASE n = Len(d)
  <2>1. batches' = Tail(batches) /\ front_index' = 0 /\ size' = size - n
    BY <1>8, <1>9 DEF Advance
  <2>2. Stored' = r
    <3>1. Stored' = DropN(FlattenSeq(batches'), front_index')
      BY DEF Stored, DropN
    <3> QED BY <1>1, <2>1, <3>1, DropNone DEF r
  <2>3. DropN(Stored, n) = r
    <3>1. DropN(d, n) = <<>>
      BY <1>1, <1>9, DropAll
    <3> QED BY <1>1, <1>5, <3>1, ConcatEmptySeq
  <2>4. /\ Len(Tail(batches)) = Len(batches) - 1 /\ Len(batches) \in Nat
        /\ \A i \in 1..Len(Tail(batches)) : Tail(batches)[i] = batches[i + 1]
    BY HeadTailProperties, LenProperties DEF Storage
  <2>5. \A i \in 1..Len(batches') : Len(batches'[i]) \in 1..MaxBatch
    BY <2>1, <2>4 DEF Storage
  <2>6. batches' # <<>> => 0 < Len(Head(batches'))
    <3>1. batches' # <<>> => Len(batches') \in Nat \ {0} /\ Head(batches') = batches'[1]
      <4>1. batches' \in Seq(Seq(Row))
        BY <1>1, <2>1
      <4> QED BY <4>1, EmptySeq
    <3> QED BY <2>5, <3>1
  <2>7. size' = Len(Stored')
    BY <1>7, <2>1, <2>2, <2>3
  <2>8. Storage'
    BY <1>1, <2>1, <2>5, <2>6, <2>7 DEF Storage
  <2> QED BY <1>4, <1>6, <2>2, <2>3, <2>8 DEF h
<1>10. CASE n # Len(d)
  <2>1. batches' = batches /\ front_index' = front_index + n /\ size' = size - n
    BY <1>8, <1>10 DEF Advance
  <2>2. front_index + n \in 0..(Len(h) - 1) /\ front_index + n \in 0..Len(h)
    <3>1. n < Len(h) - front_index
      BY <1>1, <1>2, <1>3, <1>10, SMTT(30)
    <3> QED BY <1>1, <1>2, <3>1
  <2>3. DropN(d, n) = DropN(h, front_index + n)
    <3>1. n \in 0..(Len(h) - front_index) /\ front_index \in 0..Len(h)
      BY <1>1, <1>2
    <3> QED BY <1>1, <3>1, DropDrop DEF d
  <2>4. FlattenSeq(batches) = h \o r
    BY FlattenHead DEF h, r, Storage
  <2>5. Stored' = DropN(h, front_index + n) \o r
    <3>1. Stored' = DropN(FlattenSeq(batches'), front_index')
      BY DEF Stored, DropN
    <3> QED BY <1>1, <2>1, <2>2, <2>4, <3>1, DropConcat
  <2>6. Stored' = DropN(Stored, n) /\ size' = Len(Stored')
    BY <1>5, <1>7, <2>1, <2>3, <2>5
  <2>7. Storage'
    <3>1. batches' \in Seq(Seq(Row)) /\ \A i \in 1..Len(batches') : Len(batches'[i]) \in 1..MaxBatch
      BY <2>1 DEF Storage
    <3>2. front_index' \in Nat /\ front_index' < Len(Head(batches'))
      BY <1>1, <2>1, <2>2, SMTT(30) DEF h
    <3> QED BY <2>1, <2>6, <3>1, <3>2 DEF Storage
  <2> QED BY <1>4, <1>6, <2>6, <2>7 DEF h
<1> QED BY <1>9, <1>10

-----------------------------------------------------------------------------
(* What the contract sees. *)

Hand == DropN(got, confirmed)

LEMMA VisibleFacts ==
  ASSUME Inv
  PROVE  /\ VisibleRows = Hand \o Shown
         /\ got \in Seq(Nat) /\ Len(got) \in Nat /\ confirmed \in 0..Len(got)
         /\ InHand \in Nat
         /\ Hand \in Seq(Nat) /\ Len(Hand) = InHand
         /\ Stored \in Seq(Nat) /\ Len(Stored) = size /\ size \in Nat
         /\ Shown \in Seq(Nat) /\ Len(Shown) \in Nat
         /\ ppc # "publish" => Shown = Stored
         /\ VisibleRows \in Seq(Nat) /\ Len(VisibleRows) = InHand + Len(Shown)
         /\ VisibleRows = <<>> <=> InHand = 0 /\ Len(Shown) = 0
<1>1. VisibleRows = Hand \o Shown
  BY DEF VisibleRows, Hand, Shown, DropN, TakeN
<1>2. got \in Seq(Nat) /\ Len(got) \in Nat /\ confirmed \in 0..Len(got) /\ InHand \in Nat
  BY LenProperties DEF Inv, TypeOK, Taking, InHand
<1>3. Hand \in Seq(Nat) /\ Len(Hand) = InHand
  BY <1>2, DropFacts DEF Hand, InHand
<1>4. Stored \in Seq(Nat) /\ Len(Stored) = size /\ size \in Nat
  <2>1. Stored \in Seq(Row) /\ Len(Stored) = size /\ size \in Nat
    BY StoredFacts DEF Inv, Storage
  <2> QED BY <2>1, RowFacts, SeqMonotonic
<1>5. Shown \in Seq(Nat)
  <2>1. CASE ppc = "publish"
    <3>1. /\ batches \in Seq(Seq(Row)) /\ batches # <<>>
          /\ \A i \in 1..Len(batches) : Len(batches[i]) \in 1..MaxBatch
      BY <2>1 DEF Inv, Publishing, Storage
    <3>2. Len(batches) \in 1..Len(batches)
      BY <3>1, EmptySeq
    <3>3. Len(Stored) - Len(Last(batches)) \in 0..Len(Stored)
      BY <1>4, <2>1, <3>1, <3>2 DEF Inv, Publishing, Last
    <3> QED BY <1>4, <2>1, <3>3, TakeFacts DEF Shown
  <2> QED BY <1>4, <2>1 DEF Shown
<1>6. Len(Shown) \in Nat
  BY <1>5, LenProperties
<1>7. VisibleRows \in Seq(Nat) /\ Len(VisibleRows) = InHand + Len(Shown)
  BY <1>1, <1>3, <1>5, ConcatProperties
<1>8. VisibleRows = <<>> <=> Len(VisibleRows) = 0
  BY <1>7, EmptySeq
<1> QED BY <1>1, <1>2, <1>3, <1>4, <1>5, <1>6, <1>7, <1>8 DEF Shown

(* An operation that moves no row, and publishes none. *)
LEMMA NoRowMoves ==
  ASSUME Inv, UNCHANGED <<shared, counts, is_empty>>, ppc' = "publish" <=> ppc = "publish"
  PROVE  /\ VisibleRows' = VisibleRows
         /\ Storage' /\ Publishing' /\ EmptyFlagAccurate'
<1>1. Stored' = Stored /\ Shown' = Shown /\ batches' = batches
  BY DEF shared, Stored, Shown
<1>2. VisibleRows' = VisibleRows
  BY <1>1 DEF VisibleRows, counts
<1> QED BY <1>1, <1>2 DEF Inv, Storage, Publishing, EmptyFlagAccurate, shared

(* A batch being pushed is not there yet ... *)
LEMMA StoreHides ==
  ASSUME Inv, NEW n \in 1..MaxBatch, StoreBatch(n)
  PROVE  /\ VisibleRows' = VisibleRows
         /\ Storage' /\ Publishing' /\ EmptyFlagAccurate'
<1>1. Storage /\ pushed \in 0..MaxRows
  BY DEF Inv, TypeOK
<1>2. /\ Storage' /\ batches' # <<>>
      /\ Last(batches') \in [1..n -> Row] /\ Len(Last(batches')) = n
      /\ Stored' = Stored \o Last(batches') /\ Len(Stored') = Len(Stored) + n
  BY <1>1, BatchAdded
<1>3. ppc = "on" /\ ppc' = "publish" /\ UNCHANGED <<got, confirmed, is_empty>>
  BY DEF StoreBatch, counts
<1>4. Stored \in Seq(Row) /\ Len(Stored) \in Nat /\ Shown = Stored
  BY <1>1, <1>3, StoredFacts, LenProperties DEF Shown
<1>5. Shown' = Stored
  <2>1. Len(Stored') - Len(Last(batches')) = Len(Stored)
    BY <1>2, <1>4
  <2>2. Shown' = TakeN(Stored', Len(Stored))
    BY <1>3, <2>1 DEF Shown
  <2>3. Last(batches') \in Seq(Row) /\ Len(Stored) \in 0..Len(Stored)
    BY <1>2, <1>4
  <2> QED BY <1>2, <1>4, <2>2, <2>3, TakeConcat, TakeAll
<1>6. Publishing'
  BY <1>2, <1>4, <1>5 DEF Publishing
<1>7. VisibleRows' = VisibleRows
  <2>1. VisibleRows = Hand \o Shown /\ VisibleRows' = Hand' \o Shown'
    BY DEF VisibleRows, Hand, Shown, DropN, TakeN
  <2> QED BY <1>3, <1>4, <1>5, <2>1 DEF Hand
<1> QED BY <1>2, <1>3, <1>6, <1>7 DEF Inv, EmptyFlagAccurate

(* ... until it is published. *)
LEMMA PublishShows ==
  ASSUME Inv, PublishRows
  PROVE  /\ VisibleRows' = VisibleRows \o Last(batches)
         /\ Len(Last(batches)) \in 1..MaxBatch /\ Last(batches) \in Seq(Row)
         /\ Storage' /\ Publishing' /\ EmptyFlagAccurate'
<1>1. /\ ppc = "publish" /\ ppc' = "on" /\ is_empty' = FALSE
      /\ UNCHANGED <<batches, front_index, size, got, confirmed>>
  BY DEF PublishRows, shared, counts
<1>2. Stored' = Stored /\ Shown' = Stored
  BY <1>1 DEF Stored, Shown
<1>3. /\ batches \in Seq(Seq(Row)) /\ batches # <<>>
      /\ \A i \in 1..Len(batches) : Len(batches[i]) \in 1..MaxBatch
      /\ Stored = Shown \o Last(batches)
  BY <1>1 DEF Inv, Publishing, Storage
<1>4. Len(Last(batches)) \in 1..MaxBatch /\ Last(batches) \in Seq(Row)
  <2>1. Len(batches) \in 1..Len(batches)
    BY <1>3, EmptySeq
  <2> QED BY <1>3, <2>1, ElementOfSeq DEF Last
<1>5. Last(batches) \in Seq(Nat)
  BY <1>4, RowFacts, SeqMonotonic
<1>6. VisibleRows' = Hand \o Stored
  <2>1. VisibleRows' = Hand' \o Shown'
    BY DEF VisibleRows, Hand, Shown, DropN, TakeN
  <2> QED BY <1>1, <1>2, <2>1 DEF Hand
<1>7. VisibleRows' = VisibleRows \o Last(batches)
  <2>1. \A a, b, c \in Seq(Nat) : (a \o b) \o c = a \o (b \o c)
    BY ConcatAssociative, SMTT(30)
  <2>2. Hand \in Seq(Nat) /\ Shown \in Seq(Nat) /\ VisibleRows = Hand \o Shown
    BY VisibleFacts
  <2>3. (Hand \o Shown) \o Last(batches) = Hand \o (Shown \o Last(batches))
    BY <1>5, <2>1, <2>2
  <2> QED BY <1>3, <1>6, <2>2, <2>3
<1>8. Storage' /\ Publishing'
  BY <1>1, <1>2 DEF Inv, Storage, Publishing
<1>9. VisibleRows' # <<>>
  BY <1>4, <1>5, <1>7, VisibleFacts, ConcatProperties, EmptySeq
<1> QED BY <1>1, <1>4, <1>7, <1>8, <1>9 DEF EmptyFlagAccurate

(* Rows being moved out are still there. *)
LEMMA MoveHides ==
  ASSUME Inv, batches # <<>>, NEW n \in 1..(Len(Head(batches)) - front_index), Advance(n),
         got' = got \o SubSeq(Head(batches), front_index + 1, front_index + n),
         UNCHANGED <<confirmed, is_empty>>, ppc # "publish", ppc' # "publish"
  PROVE  /\ VisibleRows' = VisibleRows
         /\ SubSeq(got, 1, confirmed)' = SubSeq(got, 1, confirmed)
         /\ got' \in Seq(Nat) /\ Len(got') = Len(got) + n
         /\ Storage' /\ Publishing' /\ EmptyFlagAccurate'
<1>1. /\ Storage' /\ n \in 1..Len(Stored) /\ Stored' = DropN(Stored, n)
      /\ got' = got \o TakeN(Stored, n)
  BY Advanced DEF Inv
<1>2. /\ got \in Seq(Nat) /\ Len(got) \in Nat /\ confirmed \in 0..Len(got)
      /\ Stored \in Seq(Nat) /\ n \in 0..Len(Stored) /\ Hand \in Seq(Nat)
  BY <1>1, VisibleFacts
<1>3. TakeN(Stored, n) \in Seq(Nat) /\ Len(TakeN(Stored, n)) = n
  BY <1>2, TakeFacts
<1>4. got' \in Seq(Nat) /\ Len(got') = Len(got) + n
  BY <1>1, <1>2, <1>3, ConcatProperties
<1>5. Hand' = Hand \o TakeN(Stored, n)
  BY <1>1, <1>2, <1>3, DropConcat DEF Hand
<1>6. VisibleRows' = VisibleRows
  <2>1. VisibleRows = Hand \o Stored /\ VisibleRows' = Hand' \o Stored'
    BY DEF VisibleRows, Hand, DropN
  <2>2. (Hand \o TakeN(Stored, n)) \o DropN(Stored, n) = Hand \o Stored
    BY <1>2, WholeKept DEF TakeN, DropN
  <2> QED BY <1>1, <1>5, <2>1, <2>2
<1>7. SubSeq(got, 1, confirmed)' = SubSeq(got, 1, confirmed)
  BY <1>1, <1>2, <1>3, TakeConcat DEF TakeN
<1> QED BY <1>1, <1>4, <1>6, <1>7 DEF Inv, Publishing, EmptyFlagAccurate

(* pop_front moves one row ... *)
LEMMA PopFrontMoves ==
  ASSUME Inv, PopFront
  PROVE  /\ VisibleRows' = VisibleRows /\ UNCHANGED SubSeq(got, 1, confirmed)
         /\ size > 0 /\ Advance(1)
         /\ got' \in Seq(Nat) /\ Len(got') = Len(got) + 1
         /\ Storage' /\ Publishing' /\ EmptyFlagAccurate'
<1>1. /\ batches # <<>> /\ Head(batches) \in Seq(Row) /\ Len(Head(batches)) \in Nat
      /\ front_index \in 0..(Len(Head(batches)) - 1) /\ size > 0
  BY StoredFacts DEF PopFront, Inv, Taking
<1>2. front_index + 1 \in 1..Len(Head(batches)) /\ 1 \in 1..(Len(Head(batches)) - front_index)
  BY <1>1
<1>3. got' = got \o SubSeq(Head(batches), front_index + 1, front_index + 1)
  <2>1. Head(batches)[front_index + 1] \in Row
    BY <1>1, <1>2, ElementOfSeq
  <2>2. SubSeq(Head(batches), front_index + 1, front_index + 1) = <<Head(batches)[front_index + 1]>>
    BY <1>1, <1>2, <2>1, SubSeqOne
  <2>3. got' = Append(got, Head(batches)[front_index + 1]) /\ got \in Seq(Nat)
    BY DEF PopFront, Inv, TypeOK
  <2> QED BY <2>1, <2>2, <2>3, RowFacts, AppendIsConcat
<1>4. /\ Acquire("consumer") /\ Advance(1) /\ cpc = "rows" /\ cpc' = "popped"
      /\ UNCHANGED <<is_empty, is_waitable, asleep, ppc, pushed, want, confirmed>>
  BY DEF PopFront
<1>5. ppc # "publish" /\ ppc' # "publish"
  BY <1>4 DEF Acquire, Inv, Mutex
<1>6. /\ VisibleRows' = VisibleRows /\ UNCHANGED SubSeq(got, 1, confirmed)
      /\ got' \in Seq(Nat) /\ Len(got') = Len(got) + 1
      /\ Storage' /\ Publishing' /\ EmptyFlagAccurate'
  BY <1>1, <1>2, <1>3, <1>4, <1>5, MoveHides
<1> QED BY <1>1, <1>4, <1>6

(* ... and a turn of drain_front_batches a span of them. *)
LEMMA DrainSpanMoves ==
  ASSUME Inv, DrainSpan
  PROVE  /\ VisibleRows' = VisibleRows /\ UNCHANGED SubSeq(got, 1, confirmed)
         /\ \E take \in 1..want :
              /\ take <= size /\ want' = want - take /\ size' = size - take
              /\ got' \in Seq(Nat) /\ Len(got') = Len(got) + take
         /\ Storage' /\ Publishing' /\ EmptyFlagAccurate'
<1> DEFINE available == Len(Head(batches)) - front_index
           take == IF available < want THEN available ELSE want
<1>1. /\ cpc = "draining" /\ want > 0 /\ Advance(take) /\ want' = want - take
      /\ got' = got \o SubSeq(Head(batches), front_index + 1, front_index + take)
      /\ UNCHANGED <<is_empty, is_waitable, lock, asleep, ppc, cpc, pushed, confirmed>>
  BY DEF DrainSpan
<1>2. /\ batches # <<>> /\ Len(Head(batches)) \in Nat
      /\ front_index \in 0..(Len(Head(batches)) - 1) /\ size > 0
      /\ want \in Nat /\ size \in Nat /\ want <= size
  BY <1>1, StoredFacts, SMTT(30) DEF Inv, Taking, TypeOK
<1>3. available \in Nat \ {0} /\ take \in 1..available /\ take <= want /\ take \in Nat
  BY <1>1, <1>2
<1>4. ppc # "publish" /\ ppc' # "publish"
  BY <1>1 DEF Inv, Mutex
<1>5. take \in 1..(Len(Head(batches)) - front_index)
  BY <1>3
<1>6. size' = size - take
  BY <1>1 DEF Advance
<1> HIDE DEF available, take
<1>7. /\ VisibleRows' = VisibleRows /\ UNCHANGED SubSeq(got, 1, confirmed)
      /\ got' \in Seq(Nat) /\ Len(got') = Len(got) + take
      /\ Storage' /\ Publishing' /\ EmptyFlagAccurate'
  BY <1>1, <1>2, <1>4, <1>5, MoveHides
<1>8. take \in 1..want /\ take <= size
  BY <1>2, <1>3
<1> QED BY <1>1, <1>6, <1>7, <1>8

(* They are gone when the operation ends. *)
LEMMA PublishTakes ==
  ASSUME Inv, PublishEmpty
  PROVE  /\ ppc # "publish" /\ ppc' = ppc /\ InHand > 0
         /\ VisibleRows = Hand \o Stored /\ VisibleRows' = Stored
         /\ got' = got /\ confirmed' = Len(got)
         /\ Storage' /\ Publishing' /\ EmptyFlagAccurate'
<1>1. lock = "consumer" /\ ppc # "publish" /\ ppc' = ppc
  BY DEF PublishEmpty, Release, Inv, Mutex
<1>2. /\ UNCHANGED <<batches, front_index, size, got>> /\ confirmed' = Len(got)
      /\ is_empty' = (is_empty \/ size = 0)
      /\ cpc = "popped" \/ (cpc = "draining" /\ want = 0)
  BY DEF PublishEmpty, shared
<1>3. InHand > 0 /\ ~is_empty
  BY <1>2, VisibleFacts DEF Inv, Taking
<1>4. Stored' = Stored /\ Storage' /\ Publishing'
  BY <1>1, <1>2 DEF Inv, Storage, Publishing, Stored
<1>5. VisibleRows' = Stored
  <2>1. VisibleRows' = Hand' \o Stored'
    BY <1>1 DEF VisibleRows, Hand, DropN
  <2>2. Hand' = <<>>
    BY <1>2, VisibleFacts, DropAll DEF Hand
  <2>3. Stored \in Seq(Nat)
    BY VisibleFacts
  <2> QED BY <1>4, <2>1, <2>2, <2>3, ConcatEmptySeq
<1>6. Stored = <<>> <=> size = 0
  BY VisibleFacts, EmptySeq
<1>7. EmptyFlagAccurate'
  BY <1>2, <1>3, <1>5, <1>6 DEF EmptyFlagAccurate
<1>8. VisibleRows = Hand \o Stored
  BY <1>1, VisibleFacts
<1> QED BY <1>1, <1>2, <1>3, <1>4, <1>5, <1>7, <1>8

-----------------------------------------------------------------------------
(* Inv is inductive. *)

LEMMA InitInv == Init => Inv
<1> SUFFICES ASSUME Init PROVE Inv
  OBVIOUS
<1>1. Stored = <<>>
  BY FlattenEmpty, EmptySeq DEF Init, Stored
<1>2. /\ batches = <<>> /\ front_index = 0 /\ size = 0 /\ is_empty = TRUE /\ is_waitable = FALSE
      /\ lock = "free" /\ asleep = FALSE /\ ppc = "off" /\ cpc = "idle"
      /\ pushed = 0 /\ want = 0 /\ got = <<>> /\ confirmed = 0
  BY DEF Init
<1>3. TypeOK
  <2>1. <<>> \in Seq(Nat) /\ <<>> \in Seq(Seq(Nat))
    BY EmptySeq
  <2>2. 0 \in 0..MaxRows
    BY RowFacts
  <2> QED BY <1>2, <2>1, <2>2 DEF TypeOK, ProducerStates, ConsumerStates
<1>4. Storage
  BY <1>1, <1>2, EmptySeq DEF Storage
<1>5. Mutex /\ Taking /\ Publishing
  BY <1>2, EmptySeq DEF Mutex, Taking, Publishing, InHand
<1>6. VisibleRows = <<>>
  <2>1. SubSeq(got, confirmed + 1, Len(got)) = <<>>
    BY <1>2, EmptySeq
  <2> QED BY <1>1, <1>2, <2>1 DEF VisibleRows
<1> QED BY <1>2, <1>3, <1>4, <1>5, <1>6 DEF Inv, EmptyFlagAccurate

LEMMA BatchesType == \A b : b \in Seq(Seq(Row)) => b \in Seq(Seq(Nat))
BY RowFacts, SeqMonotonic

(* The rows are where they were, and the threads keep to the protocol of    *)
(* the mutex.                                                               *)
LEMMA QuietStep ==
  ASSUME Inv, UNCHANGED <<shared, counts, is_empty>>, ppc' = "publish" <=> ppc = "publish",
         TypeOK', Mutex', Taking'
  PROVE  Inv'
BY NoRowMoves DEF Inv

LEMMA StepInv == Inv /\ [Next]_vars => Inv'
<1> SUFFICES ASSUME Inv, [Next]_vars PROVE Inv'
  OBVIOUS
<1> USE RowFacts
<1> DEFINE Quiet == UNCHANGED <<shared, counts, is_empty>> /\ (ppc' = "publish" <=> ppc = "publish")
<1>1. CASE NotifyAll
  <2>1. Quiet /\ TypeOK'
    BY <1>1 DEF NotifyAll, Acquire, Release, Signal, Inv, TypeOK, ProducerStates, ConsumerStates, shared, counts
  <2>2. Mutex'
    BY <1>1 DEF NotifyAll, Acquire, Release, Inv, Mutex, TypeOK
  <2>3. Taking'
    BY <1>1 DEF NotifyAll, Inv, Taking, InHand, TypeOK, shared, counts
  <2> QED BY <2>1, <2>2, <2>3, QuietStep
<1>2. CASE NotifyAllSignal
  <2>1. Quiet /\ TypeOK'
    BY <1>2 DEF NotifyAllSignal, Acquire, Release, Signal, Inv, TypeOK, ProducerStates, ConsumerStates, shared, counts
  <2>2. Mutex'
    BY <1>2 DEF NotifyAllSignal, Acquire, Release, Inv, Mutex, TypeOK
  <2>3. Taking'
    BY <1>2 DEF NotifyAllSignal, Inv, Taking, InHand, TypeOK, shared, counts
  <2> QED BY <2>1, <2>2, <2>3, QuietStep
<1>3. CASE KillAll
  <2>1. Quiet /\ TypeOK'
    BY <1>3 DEF KillAll, Acquire, Release, Signal, Inv, TypeOK, ProducerStates, ConsumerStates, shared, counts
  <2>2. Mutex'
    BY <1>3 DEF KillAll, Acquire, Release, Inv, Mutex, TypeOK
  <2>3. Taking'
    BY <1>3 DEF KillAll, Inv, Taking, InHand, TypeOK, shared, counts
  <2> QED BY <2>1, <2>2, <2>3, QuietStep
<1>4. CASE KillAllSignal
  <2>1. Quiet /\ TypeOK'
    BY <1>4 DEF KillAllSignal, Acquire, Release, Signal, Inv, TypeOK, ProducerStates, ConsumerStates, shared, counts
  <2>2. Mutex'
    BY <1>4 DEF KillAllSignal, Acquire, Release, Inv, Mutex, TypeOK
  <2>3. Taking'
    BY <1>4 DEF KillAllSignal, Inv, Taking, InHand, TypeOK, shared, counts
  <2> QED BY <2>1, <2>2, <2>3, QuietStep
<1>5. CASE LookEmpty
  <2>1. ~is_empty => size > 0
    <3>1. size \in Nat /\ InHand = 0 /\ Len(Shown) \in Nat
      BY <1>5, VisibleFacts DEF LookEmpty, Inv, Taking
    <3>2. ~is_empty => Len(Shown) > 0
      BY <3>1, VisibleFacts DEF Inv, EmptyFlagAccurate
    <3>3. Len(Shown) > 0 => size > 0
      <4>1. batches = <<>> => size = 0
        BY StoredFacts DEF Inv
      <4> QED BY <3>1, <4>1, VisibleFacts DEF Inv, Publishing
    <3> QED BY <3>2, <3>3
  <2>2. Quiet /\ TypeOK'
    BY <1>5 DEF LookEmpty, Acquire, Release, Signal, Inv, TypeOK, ProducerStates, ConsumerStates, shared, counts
  <2>3. Mutex'
    BY <1>5 DEF LookEmpty, Acquire, Release, Inv, Mutex, TypeOK
  <2>4. Taking'
    BY <2>1, <1>5 DEF LookEmpty, Inv, Taking, InHand, TypeOK, shared, counts
  <2> QED BY <2>2, <2>3, <2>4, QuietStep
<1>6. CASE LookWaitable
  <2>1. Quiet /\ TypeOK'
    BY <1>6 DEF LookWaitable, Acquire, Release, Signal, Inv, TypeOK, ProducerStates, ConsumerStates, shared, counts
  <2>2. Mutex'
    BY <1>6 DEF LookWaitable, Acquire, Release, Inv, Mutex, TypeOK
  <2>3. Taking'
    BY <1>6 DEF LookWaitable, Inv, Taking, InHand, TypeOK, shared, counts
  <2> QED BY <2>1, <2>2, <2>3, QuietStep
<1>7. CASE JoinFinished
  <2>1. Quiet /\ TypeOK'
    BY <1>7 DEF JoinFinished, Acquire, Release, Signal, Inv, TypeOK, ProducerStates, ConsumerStates, shared, counts
  <2>2. Mutex'
    BY <1>7 DEF JoinFinished, Acquire, Release, Inv, Mutex, TypeOK
  <2>3. Taking'
    BY <1>7 DEF JoinFinished, Inv, Taking, InHand, TypeOK, shared, counts
  <2> QED BY <2>1, <2>2, <2>3, QuietStep
<1>8. CASE NotifyAllAgain
  <2>1. Quiet /\ TypeOK'
    BY <1>8 DEF NotifyAllAgain, Acquire, Release, Signal, Inv, TypeOK, ProducerStates, ConsumerStates, shared, counts
  <2>2. Mutex'
    BY <1>8 DEF NotifyAllAgain, Acquire, Release, Inv, Mutex, TypeOK
  <2>3. Taking'
    BY <1>8 DEF NotifyAllAgain, Inv, Taking, InHand, TypeOK, shared, counts
  <2> QED BY <2>1, <2>2, <2>3, QuietStep
<1>9. CASE StartProducer
  <2>1. Quiet /\ TypeOK'
    BY <1>9 DEF StartProducer, Release, Signal, Inv, Mutex, TypeOK, ProducerStates, ConsumerStates, shared, counts
  <2>2. Mutex'
    BY <1>9 DEF StartProducer, Acquire, Release, Inv, Mutex, TypeOK
  <2>3. Taking'
    BY <1>9 DEF StartProducer, Inv, Taking, InHand, TypeOK, shared, counts
  <2> QED BY <2>1, <2>2, <2>3, QuietStep
<1>10. CASE WaitGuard
  <2>1. Quiet /\ TypeOK'
    BY <1>10 DEF WaitGuard, Acquire, Release, Signal, Inv, TypeOK, ProducerStates, ConsumerStates, shared, counts
  <2>2. Mutex'
    BY <1>10 DEF WaitGuard, Acquire, Release, Inv, Mutex, TypeOK
  <2>3. Taking'
    BY <1>10 DEF WaitGuard, Inv, Taking, InHand, TypeOK, shared, counts
  <2> QED BY <2>1, <2>2, <2>3, QuietStep
<1>11. CASE WaitTest
  <2>1. Quiet /\ TypeOK'
    BY <1>11 DEF WaitTest, Acquire, Release, Signal, Inv, TypeOK, ProducerStates, ConsumerStates, shared, counts
  <2>2. Mutex'
    BY <1>11 DEF WaitTest, Acquire, Release, Inv, Mutex, TypeOK
  <2>3. Taking'
    BY <1>11 DEF WaitTest, Inv, Taking, InHand, TypeOK, shared, counts
  <2> QED BY <2>1, <2>2, <2>3, QuietStep
<1>12. CASE WaitReturns
  <2>1. Quiet /\ TypeOK'
    BY <1>12 DEF WaitReturns, Acquire, Release, Signal, Inv, TypeOK, ProducerStates, ConsumerStates, shared, counts
  <2>2. Mutex'
    BY <1>12 DEF WaitReturns, Acquire, Release, Inv, Mutex, TypeOK
  <2>3. Taking'
    BY <1>12 DEF WaitReturns, Inv, Taking, InHand, TypeOK, shared, counts
  <2> QED BY <2>1, <2>2, <2>3, QuietStep
<1>13. CASE WaitSleeps
  <2>1. Quiet /\ TypeOK'
    BY <1>13 DEF WaitSleeps, Acquire, Release, Signal, Inv, TypeOK, ProducerStates, ConsumerStates, shared, counts
  <2>2. Mutex'
    BY <1>13 DEF WaitSleeps, Acquire, Release, Inv, Mutex, TypeOK
  <2>3. Taking'
    BY <1>13 DEF WaitSleeps, Inv, Taking, InHand, TypeOK, shared, counts
  <2> QED BY <2>1, <2>2, <2>3, QuietStep
<1>14. CASE SpuriousWake
  <2>1. Quiet /\ TypeOK'
    BY <1>14, Zenon DEF SpuriousWake, Inv, TypeOK, shared, counts
  <2>2. Mutex'
    BY <1>14 DEF SpuriousWake, Acquire, Release, Inv, Mutex, TypeOK
  <2>3. Taking'
    BY <1>14 DEF SpuriousWake, Inv, Taking, InHand, TypeOK, shared, counts
  <2> QED BY <2>1, <2>2, <2>3, QuietStep
<1>15. CASE DrainFront
  <2>1. Quiet /\ TypeOK'
    BY <1>15 DEF DrainFront, Acquire, Release, Signal, Inv, TypeOK, ProducerStates, ConsumerStates, shared, counts
  <2>2. Mutex'
    BY <1>15 DEF DrainFront, Acquire, Release, Inv, Mutex, TypeOK
  <2>3. Taking'
    BY <1>15 DEF DrainFront, Inv, Taking, InHand, TypeOK, shared, counts
  <2> QED BY <2>1, <2>2, <2>3, QuietStep
<1>16. ASSUME NEW n \in 1..MaxBatch, StoreBatch(n) PROVE Inv'
  <2>1. Storage' /\ Publishing' /\ EmptyFlagAccurate'
    BY <1>16, StoreHides
  <2>2. batches' \in Seq(Seq(Nat)) /\ size' \in Nat
    <3>1. n \in Nat /\ size' = size + n
      BY <1>16 DEF StoreBatch
    <3> QED BY <2>1, <3>1, BatchesType DEF Storage, Inv, TypeOK
  <2>3. pushed' \in 0..MaxRows
    <3>1. n \in Nat /\ pushed' = pushed + n /\ pushed + n <= MaxRows /\ pushed \in Nat
      BY <1>16 DEF StoreBatch, Inv, TypeOK
    <3> QED BY <3>1
  <2>4. TypeOK'
    BY <1>16, <2>2, <2>3 DEF StoreBatch, Acquire, Inv, TypeOK, ProducerStates, counts
  <2>5. Mutex'
    BY <1>16 DEF StoreBatch, Acquire, Inv, Mutex
  <2>6. Taking'
    <3>1. size' >= size
      BY <1>16 DEF StoreBatch, Inv, TypeOK
    <3>2. UNCHANGED <<got, confirmed, is_empty, cpc, want>>
      BY <1>16 DEF StoreBatch, counts
    <3> QED BY <2>2, <3>1, <3>2 DEF Inv, Taking, InHand, TypeOK
  <2> QED BY <2>1, <2>4, <2>5, <2>6 DEF Inv
<1>17. CASE PublishRows
  <2>1. Storage' /\ Publishing' /\ EmptyFlagAccurate'
    BY <1>17, PublishShows
  <2>2. TypeOK'
    BY <1>17 DEF PublishRows, Release, Signal, Inv, TypeOK, ProducerStates, shared, counts
  <2>3. Mutex'
    BY <1>17 DEF PublishRows, Release, Inv, Mutex
  <2>4. Taking'
    BY <1>17 DEF PublishRows, Inv, Taking, InHand, shared, counts
  <2> QED BY <2>1, <2>2, <2>3, <2>4 DEF Inv
<1>18. CASE PopFront
  <2>1. size > 0 /\ Advance(1)
    BY <1>18, PopFrontMoves
  <2>2. /\ Acquire("consumer") /\ cpc = "rows" /\ cpc' = "popped"
        /\ UNCHANGED <<is_empty, is_waitable, asleep, ppc, pushed, want, confirmed>>
    BY <1>18 DEF PopFront
  <2>3. /\ got' \in Seq(Nat) /\ Len(got') = Len(got) + 1
        /\ Storage' /\ Publishing' /\ EmptyFlagAccurate'
    BY <1>18, PopFrontMoves
  <2>4. TypeOK'
    <3>1. batches' \in Seq(Seq(Nat)) /\ front_index' \in Nat
      BY <2>3, BatchesType DEF Storage
    <3>2. size' \in Nat
      BY <2>1, <2>2 DEF Advance, Inv, TypeOK
    <3> QED BY <2>2, <2>3, <3>1, <3>2 DEF Acquire, Inv, TypeOK, ConsumerStates
  <2>5. Mutex'
    BY <2>2 DEF Acquire, Inv, Mutex
  <2>6. Taking'
    <3>1. confirmed \in Nat /\ Len(got) \in Nat /\ confirmed <= Len(got) /\ confirmed' = confirmed
      BY <2>2, VisibleFacts
    <3>2. Len(got') - confirmed' > 0 /\ confirmed' <= Len(got')
      BY <2>3, <3>1
    <3>3. cpc' = "popped" /\ ~is_empty'
      BY <2>2 DEF Inv, Taking
    <3> QED BY <3>2, <3>3 DEF Taking, InHand
  <2> QED BY <2>3, <2>4, <2>5, <2>6 DEF Inv
<1>19. CASE DrainSpan
  <2>1. /\ cpc = "draining" /\ want > 0
        /\ UNCHANGED <<is_empty, is_waitable, lock, asleep, ppc, cpc, pushed, confirmed>>
    BY <1>19 DEF DrainSpan
  <2>2. Storage' /\ Publishing' /\ EmptyFlagAccurate'
    BY <1>19, DrainSpanMoves
  <2>3. PICK take \in 1..want :
          /\ take <= size /\ want' = want - take /\ size' = size - take
          /\ got' \in Seq(Nat) /\ Len(got') = Len(got) + take
    BY <1>19, DrainSpanMoves
  <2>4. want \in Nat /\ size \in Nat /\ want <= size /\ take \in Nat
    BY <2>1 DEF Inv, Taking, TypeOK
  <2>5. want' \in Nat /\ size' \in Nat /\ want' <= size'
    BY <2>3, <2>4
  <2>6. TypeOK'
    <3>1. batches' \in Seq(Seq(Nat)) /\ front_index' \in Nat
      BY <2>2, BatchesType DEF Storage
    <3> QED BY <2>1, <2>3, <2>5, <3>1 DEF Inv, TypeOK
  <2>7. Mutex'
    BY <2>1 DEF Inv, Mutex
  <2>8. Taking'
    <3>1. confirmed \in Nat /\ Len(got) \in Nat /\ confirmed <= Len(got)
      BY VisibleFacts
    <3>2. Len(got') - confirmed > 0 /\ confirmed <= Len(got')
      BY <2>3, <3>1
    <3>3. cpc' = "draining" /\ confirmed' = confirmed /\ ~is_empty'
      BY <2>1 DEF Inv, Taking
    <3>4. InHand' = Len(got') - confirmed
      BY <3>3 DEF InHand
    <3>5. want' + InHand' > 0
      <4>1. Len(got') \in Nat
        BY <2>3, LenProperties
      <4> QED BY <2>5, <3>1, <3>2, <3>4, <4>1
    <3> QED BY <2>5, <3>2, <3>3, <3>4, <3>5 DEF Taking
  <2> QED BY <2>2, <2>6, <2>7, <2>8 DEF Inv
<1>20. CASE PublishEmpty
  <2>1. Storage' /\ Publishing' /\ EmptyFlagAccurate' /\ got' = got /\ confirmed' = Len(got)
    BY <1>20, PublishTakes
  <2>2. Len(got) \in Nat
    BY VisibleFacts
  <2>3. TypeOK'
    BY <1>20, <2>1, <2>2 DEF PublishEmpty, Release, Inv, TypeOK, ConsumerStates, shared
  <2>4. Mutex'
    BY <1>20 DEF PublishEmpty, Release, Inv, Mutex
  <2>5. Taking'
    BY <1>20, <2>1, <2>2 DEF PublishEmpty, Taking, InHand
  <2> QED BY <2>1, <2>3, <2>4, <2>5 DEF Inv
<1>21. CASE PushBack
  <2>1. 1 \in 1..MaxBatch
    BY RowFacts
  <2> QED BY <1>16, <1>21, <2>1 DEF PushBack
<1>22. CASE AppendRows
  BY <1>16, <1>22 DEF AppendRows
<1>23. CASE UNCHANGED vars
  <2>1. UNCHANGED <<shared, counts, is_empty, is_waitable, lock, asleep, ppc, cpc, pushed, want>>
    BY <1>23 DEF vars
  <2>2. TypeOK' /\ Mutex' /\ Taking'
    BY <2>1 DEF Inv, TypeOK, Mutex, Taking, InHand, shared, counts
  <2> QED BY <2>1, <2>2, QuietStep
<1> QED
  BY <1>1, <1>2, <1>3, <1>4, <1>5, <1>6, <1>7, <1>8, <1>9, <1>10, <1>11, <1>12, <1>13, <1>14, <1>15, <1>17, <1>18, <1>19, <1>20, <1>21, <1>22, <1>23 DEF Next, Producer, Consumer

-----------------------------------------------------------------------------
(* What follows from Inv. *)

LEMMA SpecInv == Spec => []Inv
<1>1. Init => Inv
  BY InitInv
<1>2. Inv /\ [Next]_vars => Inv'
  BY StepInv
<1> QED BY <1>1, <1>2, PTL DEF Spec

(* The variables of the deque keep their types. *)
THEOREM DequeTypes == Spec => []TypeOK
<1>1. Inv => TypeOK
  BY DEF Inv
<1> QED BY <1>1, SpecInv, PTL

(* pop_front and every turn of drain_front_batches find a row at the front, *)
(* however pushes and lock-free looks at the empty flag interleave.         *)
THEOREM FrontRowAlwaysExists == Spec => []FrontRowExists
<1>1. Inv => FrontRowExists
  <2> SUFFICES ASSUME Inv, cpc = "rows" \/ (cpc = "draining" /\ want > 0)
               PROVE  batches # <<>> /\ front_index < Len(Head(batches))
    BY DEF FrontRowExists
  <2>1. size > 0
    BY DEF Inv, TypeOK, Taking
  <2> QED BY <2>1, StoredFacts DEF Inv, Storage
<1> QED BY <1>1, SpecInv, PTL

(* Critical invariant 3 of the design notes: empty(), read without the      *)
(* mutex, says whether the queue has a row, at every instant.               *)
THEOREM EmptyNeverLies == Spec => []EmptyFlagAccurate
<1>1. Inv => EmptyFlagAccurate
  BY DEF Inv
<1> QED BY <1>1, SpecInv, PTL

-----------------------------------------------------------------------------
(* The deque implements RowQueue: the operations take effect in the order   *)
(* in which they publish the empty flag.                                    *)

LEMMA InitContract == Init => Contract!Init
<1> SUFFICES ASSUME Init PROVE Contract!Init
  OBVIOUS
<1>1. Inv /\ batches = <<>> /\ got = <<>> /\ confirmed = 0 /\ ~is_waitable /\ is_empty
  BY InitInv DEF Init
<1>2. VisibleRows = <<>>
  BY <1>1 DEF Inv, EmptyFlagAccurate
<1>3. SubSeq(got, 1, confirmed) = <<>>
  BY <1>1, EmptySeq
<1>4. is_waitable = FALSE
  BY DEF Init
<1> QED BY <1>2, <1>3, <1>4 DEF Contract!Init

LEMMA PublishRowsContract == Inv /\ PublishRows => Contract!Next
<1> SUFFICES ASSUME Inv, PublishRows PROVE Contract!Next
  OBVIOUS
<1> DEFINE b == Last(batches)
<1>1. VisibleRows' = VisibleRows \o b /\ Len(b) \in 1..MaxBatch /\ b \in Seq(Row)
  BY PublishShows
<1>2. b \in [1..Len(b) -> Row] /\ b # <<>>
  BY <1>1, LenProperties, EmptySeq
<1>3. UNCHANGED <<got, confirmed, is_waitable>>
  BY DEF PublishRows, counts
<1> HIDE DEF b
<1>4. Contract!AppendRows(b)
  BY <1>1, <1>2, <1>3 DEF Contract!AppendRows
<1>5. \E n \in 1..MaxBatch : \E batch \in [1..n -> Row] : Contract!AppendRows(batch)
  BY <1>1, <1>2, <1>4
<1> QED BY <1>5 DEF Contract!Next

LEMMA PublishEmptyContract == Inv /\ PublishEmpty => Contract!Next
<1> SUFFICES ASSUME Inv, PublishEmpty PROVE Contract!Next
  OBVIOUS
<1> DEFINE n == InHand
<1>1. /\ n > 0 /\ VisibleRows = Hand \o Stored /\ VisibleRows' = Stored
      /\ got' = got /\ confirmed' = Len(got)
  BY PublishTakes
<1>2. /\ got \in Seq(Nat) /\ Len(got) \in Nat /\ confirmed \in 0..Len(got) /\ n \in Nat
      /\ Hand \in Seq(Nat) /\ Len(Hand) = n /\ Stored \in Seq(Nat) /\ Len(Stored) \in Nat
  BY VisibleFacts
<1>3. is_waitable' = is_waitable
  BY DEF PublishEmpty
<1> HIDE DEF n
<1>4. VisibleRows \in Seq(Nat) /\ Len(VisibleRows) = n + Len(Stored)
  BY <1>1, <1>2, ConcatProperties
<1>5. n \in 1..Len(VisibleRows) /\ n \in 0..Len(Hand)
  BY <1>1, <1>2, <1>4
<1>6. Contract!DrainCount(n) = n
  BY <1>2, <1>4 DEF Contract!DrainCount, Contract!Size
<1>7. VisibleRows' = SubSeq(VisibleRows, n + 1, Len(VisibleRows))
  <2>1. DropN(VisibleRows, n) = DropN(Hand, n) \o Stored
    BY <1>1, <1>2, <1>5, DropConcat
  <2>2. DropN(Hand, n) = <<>>
    BY <1>2, DropAll
  <2> QED BY <1>1, <1>2, <2>1, <2>2, ConcatEmptySeq DEF DropN
<1>8. SubSeq(got, 1, confirmed)' = SubSeq(got, 1, confirmed) \o SubSeq(VisibleRows, 1, n)
  <2>1. TakeN(VisibleRows, n) = Hand
    <3>1. TakeN(Hand \o Stored, n) = TakeN(Hand, n)
      BY <1>2, <1>5, TakeConcat
    <3>2. TakeN(Hand, n) = Hand
      BY <1>2, TakeAll
    <3> QED BY <1>1, <3>1, <3>2
  <2>2. TakeN(got, confirmed) \o Hand = got
    <3>1. (<<>> \o SubSeq(got, 1, confirmed)) \o SubSeq(got, confirmed + 1, Len(got)) = <<>> \o got
      BY <1>2, EmptySeq, WholeKept
    <3>2. TakeN(got, confirmed) \in Seq(Nat)
      BY <1>2, TakeFacts
    <3> QED BY <1>2, <3>1, <3>2, ConcatEmptySeq DEF TakeN, DropN, Hand
  <2>3. SubSeq(got, 1, confirmed)' = got
    BY <1>1, <1>2, TakeAll DEF TakeN
  <2> QED BY <2>1, <2>2, <2>3 DEF TakeN
<1>9. Contract!DrainFront(n)
  BY <1>3, <1>6, <1>7, <1>8 DEF Contract!DrainFront
<1> QED BY <1>5, <1>9 DEF Contract!Next

(* A step that publishes nothing moves nothing the contract sees. *)
LEMMA HiddenStep ==
  ASSUME VisibleRows' = VisibleRows, UNCHANGED <<SubSeq(got, 1, confirmed), is_waitable>>
  PROVE  UNCHANGED Contract!queueVars
BY DEF Contract!queueVars

LEMMA AnnounceStep ==
  ASSUME Inv, UNCHANGED <<shared, counts, is_empty>>, ppc' = "publish" <=> ppc = "publish",
         is_waitable' \in BOOLEAN
  PROVE  Contract!Next \/ UNCHANGED Contract!queueVars
<1>1. VisibleRows' = VisibleRows /\ UNCHANGED SubSeq(got, 1, confirmed)
  BY NoRowMoves DEF counts
<1>2. CASE is_waitable' = TRUE
  BY <1>1, <1>2 DEF Contract!Next, Contract!NotifyAll
<1>3. CASE is_waitable' = FALSE
  BY <1>1, <1>3 DEF Contract!Next, Contract!KillAll
<1> QED BY <1>2, <1>3

LEMMA StepContract == Inv /\ Inv' /\ [Next]_vars => [Contract!Next]_(Contract!queueVars)
<1> SUFFICES ASSUME Inv, Inv', [Next]_vars
             PROVE  Contract!Next \/ UNCHANGED Contract!queueVars
  OBVIOUS
<1>1. is_waitable' \in BOOLEAN
  BY DEF Inv, TypeOK
<1> DEFINE Quiet == UNCHANGED <<shared, counts, is_empty>> /\ (ppc' = "publish" <=> ppc = "publish")
<1>2. CASE Quiet
  BY <1>1, <1>2, AnnounceStep
<1>3. ASSUME NEW n \in 1..MaxBatch, StoreBatch(n) PROVE UNCHANGED Contract!queueVars
  BY <1>3, StoreHides, HiddenStep DEF StoreBatch, counts
<1>4. CASE PublishRows
  BY <1>4, PublishRowsContract
<1>5. CASE PopFront
  <2>1. is_waitable' = is_waitable
    BY <1>5 DEF PopFront
  <2>2. VisibleRows' = VisibleRows /\ UNCHANGED SubSeq(got, 1, confirmed)
    BY <1>5, PopFrontMoves
  <2> QED BY <2>1, <2>2, HiddenStep
<1>6. CASE DrainSpan
  <2>1. is_waitable' = is_waitable
    BY <1>6 DEF DrainSpan
  <2>2. VisibleRows' = VisibleRows /\ UNCHANGED SubSeq(got, 1, confirmed)
    BY <1>6, DrainSpanMoves
  <2> QED BY <2>1, <2>2, HiddenStep
<1>7. CASE PublishEmpty
  BY <1>7, PublishEmptyContract
<1>8. CASE NotifyAll
  BY <1>2, <1>8 DEF NotifyAll, Release, Inv, Mutex, shared, counts
<1>9. CASE NotifyAllSignal
  BY <1>2, <1>9 DEF NotifyAllSignal, Release, Inv, Mutex, shared, counts
<1>10. CASE KillAll
  BY <1>2, <1>10 DEF KillAll, Release, Inv, Mutex, shared, counts
<1>11. CASE KillAllSignal
  BY <1>2, <1>11 DEF KillAllSignal, Release, Inv, Mutex, shared, counts
<1>12. CASE LookEmpty
  BY <1>2, <1>12 DEF LookEmpty, Release, Inv, Mutex, shared, counts
<1>13. CASE LookWaitable
  BY <1>2, <1>13 DEF LookWaitable, Release, Inv, Mutex, shared, counts
<1>14. CASE JoinFinished
  BY <1>2, <1>14 DEF JoinFinished, Release, Inv, Mutex, shared, counts
<1>15. CASE NotifyAllAgain
  BY <1>2, <1>15 DEF NotifyAllAgain, Release, Inv, Mutex, shared, counts
<1>16. CASE StartProducer
  BY <1>2, <1>16 DEF StartProducer, Release, Inv, Mutex, shared, counts
<1>17. CASE WaitGuard
  BY <1>2, <1>17 DEF WaitGuard, Release, Inv, Mutex, shared, counts
<1>18. CASE WaitTest
  BY <1>2, <1>18 DEF WaitTest, Release, Inv, Mutex, shared, counts
<1>19. CASE WaitReturns
  BY <1>2, <1>19 DEF WaitReturns, Release, Inv, Mutex, shared, counts
<1>20. CASE WaitSleeps
  BY <1>2, <1>20 DEF WaitSleeps, Release, Inv, Mutex, shared, counts
<1>21. CASE SpuriousWake
  BY <1>2, <1>21 DEF SpuriousWake, Release, Inv, Mutex, shared, counts
<1>22. CASE DrainFront
  BY <1>2, <1>22 DEF DrainFront, Release, Inv, Mutex, shared, counts
<1>23. CASE PushBack
  <2>1. 1 \in 1..MaxBatch
    BY RowFacts
  <2> QED BY <1>3, <1>23, <2>1 DEF PushBack
<1>24. CASE AppendRows
  BY <1>3, <1>24, RowFacts DEF AppendRows
<1>25. CASE UNCHANGED vars
  BY <1>2, <1>25 DEF vars
<1> HIDE DEF Quiet
<1> QED
  BY <1>4, <1>5, <1>6, <1>7, <1>8, <1>9, <1>10, <1>11, <1>12, <1>13, <1>14, <1>15, <1>16, <1>17, <1>18, <1>19, <1>20, <1>21, <1>22, <1>23, <1>24, <1>25 DEF Next, Producer, Consumer

(* Every behaviour of the deque is one of the queue contract: each row      *)
(* pushed becomes visible once, in order, and is taken once, in order.      *)
THEOREM DequeImplementsRowQueue == Spec => ContractSpec
<1>1. Init => Contract!Init
  BY InitContract
<1>2. Inv /\ Inv' /\ [Next]_vars => [Contract!Next]_(Contract!queueVars)
  BY StepContract
<1> QED BY <1>1, <1>2, SpecInv, PTL DEF Spec, ContractSpec, Contract!Spec
=============================================================================
