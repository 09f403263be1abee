--------------------------- MODULE ParsingProofs ---------------------------
(***************************************************************************)
(* The two sides of the CSV text.  DelimWriter, for any number of writers, *)
(* any rows and any threshold: the types, that no two writers ever share a *)
(* stream, and that no row is lost.  The parser and ParseWindows, for any  *)
(* source, head, chunk size and workers: what the byte loop keeps, what a  *)
(* window's read, its chunks and its end keep, and what follows for the    *)
(* source as a whole.  Last, the two together: what any writers write, the *)
(* parser reads back.                                                      *)
(***************************************************************************)
EXTENDS DelimWriter, ParseWindows, SequenceLemmas, FiniteSetTheorems, TLAPS

-----------------------------------------------------------------------------
(* The writers. *)

(* A writer is a record of its four members. *)
WriterShape ==
    /\ DOMAIN writer = Writers
    /\ \A w \in Writers :
          writer[w] = [out |-> writer[w].out, buffer |-> writer[w].buffer,
                       autoFlush |-> writer[w].autoFlush, minimal |-> writer[w].minimal]

GivenType == given \in [Streams -> Seq(RowSet)]

WriterInv == WriterShape /\ GivenType /\ TypeOK /\ OneWriterPerStream

-----------------------------------------------------------------------------
IsWriter(r) == r = [out |-> r.out, buffer |-> r.buffer,
                    autoFlush |-> r.autoFlush, minimal |-> r.minimal]

(* The updates the actions make, member by member. *)
LEMMA WriterUpdates ==
    ASSUME NEW r, IsWriter(r), NEW x
    PROVE  /\ [r EXCEPT !.buffer = x] = [out |-> r.out, buffer |-> x,
                                        autoFlush |-> r.autoFlush, minimal |-> r.minimal]
           /\ [r EXCEPT !.autoFlush = x] = [out |-> r.out, buffer |-> r.buffer,
                                           autoFlush |-> x, minimal |-> r.minimal]
           /\ [[r EXCEPT !.out = None] EXCEPT !.buffer = <<>>] =
                 [out |-> None, buffer |-> <<>>, autoFlush |-> r.autoFlush, minimal |-> r.minimal]
<1> DEFINE a == r.out  b == r.buffer  c == r.autoFlush  d == r.minimal
<1>1. r = [out |-> a, buffer |-> b, autoFlush |-> c, minimal |-> d]
  BY DEF IsWriter
<1> HIDE DEF a, b, c, d
<1>2. /\ [r EXCEPT !.buffer = x] = [out |-> a, buffer |-> x, autoFlush |-> c, minimal |-> d]
      /\ [r EXCEPT !.autoFlush = x] = [out |-> a, buffer |-> b, autoFlush |-> x, minimal |-> d]
  BY <1>1
<1>3. [[r EXCEPT !.out = None] EXCEPT !.buffer = <<>>] =
         [out |-> None, buffer |-> <<>>, autoFlush |-> c, minimal |-> d]
  <2>1. [r EXCEPT !.out = None] = [out |-> None, buffer |-> b, autoFlush |-> c, minimal |-> d]
    BY <1>1
  <2> DEFINE t == [r EXCEPT !.out = None]
  <2>2. t = [out |-> None, buffer |-> b, autoFlush |-> c, minimal |-> d]
    BY <2>1
  <2> HIDE DEF t
  <2>3. [t EXCEPT !.buffer = <<>>] = [out |-> None, buffer |-> <<>>, autoFlush |-> c, minimal |-> d]
    BY <2>2
  <2>4. QED
    BY <2>3 DEF t
<1>4. QED
  BY <1>2, <1>3 DEF a, b, c, d

(* What a step that changes one writer only must show: the writer keeps    *)
(* its stream, or gives it up with an empty buffer.                        *)
LEMMA OneWriterChanges ==
    ASSUME WriterInv, NEW w \in Writers, NEW new,
           writer' = [writer EXCEPT ![w] = new],
           new = [out |-> new.out, buffer |-> new.buffer,
                  autoFlush |-> new.autoFlush, minimal |-> new.minimal],
           new.out = writer[w].out \/ new.out = None,
           new.buffer # <<>> => new.out # None,
           new.autoFlush \in BOOLEAN, new.minimal \in BOOLEAN
    PROVE  /\ WriterShape' /\ OneWriterPerStream'
           /\ \A v \in Writers :
                 /\ writer'[v].out \in Streams \cup {None}
                 /\ writer'[v].buffer # <<>> => writer'[v].out # None
                 /\ writer'[v].autoFlush \in BOOLEAN /\ writer'[v].minimal \in BOOLEAN
<1>1. DOMAIN writer' = Writers
  BY DEF WriterInv, WriterShape
<1>2. \A v \in Writers : writer'[v] = IF v = w THEN new ELSE writer[v]
  BY DEF WriterInv, WriterShape
<1>3. WriterShape'
  BY <1>1, <1>2 DEF WriterInv, WriterShape
<1>4. OneWriterPerStream'
  BY <1>2 DEF WriterInv, OneWriterPerStream
<1>5. QED
  BY <1>2, <1>3, <1>4 DEF WriterInv, TypeOK

(* A stream's rows grow within the bound. *)
LEMMA GivenGrows ==
    ASSUME WriterInv, NEW s \in Streams, NEW rows \in Seq(RowSet),
           Len(rows) <= MaxRows,
           given' = [given EXCEPT ![s] = rows]
    PROVE  GivenType' /\ \A t \in Streams : Len(given'[t]) <= MaxRows
  BY DEF WriterInv, GivenType, TypeOK

-----------------------------------------------------------------------------
LEMMA InitInv == WriterInit => WriterInv
<1> SUFFICES ASSUME WriterInit PROVE WriterInv
  OBVIOUS
<1>1. \A w \in Writers : writer[w] = [out |-> w, buffer |-> <<>>, autoFlush |-> TRUE,
                                     minimal |-> Minimal]
  BY DEF WriterInit
<1>2. WriterShape
  BY <1>1 DEF WriterInit, WriterShape
<1>3. GivenType /\ \A s \in Streams : Len(given[s]) <= MaxRows
  BY WriterAssumption DEF WriterInit, GivenType
<1>4. \A w \in Writers :
          /\ writer[w].out = w /\ writer[w].buffer = <<>>
          /\ writer[w].autoFlush \in BOOLEAN /\ writer[w].minimal \in BOOLEAN
  <2>1. ASSUME NEW w \in Writers
        PROVE  /\ writer[w].out = w /\ writer[w].buffer = <<>>
               /\ writer[w].autoFlush = TRUE /\ writer[w].minimal = Minimal
    <3>1. writer[w] = [out |-> w, buffer |-> <<>>, autoFlush |-> TRUE, minimal |-> Minimal]
      BY <1>1
    <3>2. QED
      BY <3>1
  <2>2. Minimal \in BOOLEAN
    BY WriterAssumption
  <2>3. QED
    BY <2>1, <2>2
<1>5. TypeOK
  BY <1>3, <1>4 DEF WriterInit, TypeOK, Writers
<1>6. OneWriterPerStream
  BY <1>4 DEF OneWriterPerStream
<1>7. QED
  BY <1>2, <1>3, <1>5, <1>6 DEF WriterInv

(* A write: the buffer of one writer and the rows of its stream. *)
LEMMA WriteKeepsInv ==
    ASSUME WriterInv, NEW w \in Writers, writer[w].out # None, NEW bytes,
           writer' = [writer EXCEPT ![w].buffer = bytes],
           NEW rows \in Seq(RowSet),
           Len(rows) <= MaxRows,
           given' = [given EXCEPT ![writer[w].out] = rows],
           UNCHANGED replaced
    PROVE  WriterInv'
<1>1. writer[w].out \in Streams
  BY DEF WriterInv, TypeOK
<1> DEFINE new == [out |-> writer[w].out, buffer |-> bytes,
                   autoFlush |-> writer[w].autoFlush, minimal |-> writer[w].minimal]
<1>2. IsWriter(writer[w])
  BY DEF WriterInv, WriterShape, IsWriter
<1>3. writer' = [writer EXCEPT ![w] = new]
  BY <1>2, WriterUpdates
<1>4. new.autoFlush \in BOOLEAN /\ new.minimal \in BOOLEAN
  BY DEF WriterInv, TypeOK
<1>5. GivenType' /\ \A t \in Streams : Len(given'[t]) <= MaxRows
  BY <1>1, GivenGrows
<1>6. /\ WriterShape' /\ OneWriterPerStream'
      /\ \A v \in Writers :
            /\ writer'[v].out \in Streams \cup {None}
            /\ writer'[v].buffer # <<>> => writer'[v].out # None
            /\ writer'[v].autoFlush \in BOOLEAN /\ writer'[v].minimal \in BOOLEAN
  <2>1. new.out = writer[w].out /\ new.out # None
    OBVIOUS
  <2>2. new = [out |-> new.out, buffer |-> new.buffer,
               autoFlush |-> new.autoFlush, minimal |-> new.minimal]
    OBVIOUS
  <2> HIDE DEF new
  <2>3. QED
    BY <1>3, <1>4, <2>1, <2>2, OneWriterChanges
<1>7. QED
  BY <1>5, <1>6 DEF WriterInv, TypeOK

(* Any other step changes no rows given. *)
LEMMA RestKeepsInv ==
    ASSUME WriterInv, NEW w \in Writers, NEW new,
           writer' = [writer EXCEPT ![w] = new],
           new = [out |-> new.out, buffer |-> new.buffer,
                  autoFlush |-> new.autoFlush, minimal |-> new.minimal],
           new.out = writer[w].out \/ new.out = None,
           new.buffer # <<>> => new.out # None,
           new.autoFlush \in BOOLEAN, new.minimal \in BOOLEAN,
           UNCHANGED <<given, replaced>>
    PROVE  WriterInv'
<1>1. /\ WriterShape' /\ OneWriterPerStream'
      /\ \A v \in Writers :
            /\ writer'[v].out \in Streams \cup {None}
            /\ writer'[v].buffer # <<>> => writer'[v].out # None
            /\ writer'[v].autoFlush \in BOOLEAN /\ writer'[v].minimal \in BOOLEAN
  BY OneWriterChanges
<1>2. QED
  BY <1>1 DEF WriterInv, GivenType, TypeOK

LEMMA WriteRowInv ==
    ASSUME WriterInv, NEW w \in Writers, NEW row \in RowSet, WriteRow(w, row)
    PROVE  WriterInv'
<1>1. writer[w].out \in Streams /\ writer[w].out # None
  BY DEF WriterInv, TypeOK, WriteRow
<1>2. given[writer[w].out] \in Seq(RowSet) /\ Len(given[writer[w].out]) < MaxRows
  BY <1>1 DEF WriterInv, GivenType, WriteRow
<1> DEFINE rows == Append(given[writer[w].out], row)
<1>3. rows \in Seq(RowSet) /\ Len(rows) = Len(given[writer[w].out]) + 1
  BY <1>2
<1>4. Len(rows) <= MaxRows
  BY <1>2, <1>3, WriterAssumption
<1>5. given' = [given EXCEPT ![writer[w].out] = rows]
  BY DEF WriteRow
<1> HIDE DEF rows
<1>7. PICK bytes : writer' = [writer EXCEPT ![w].buffer = bytes]
  BY DEF WriteRow, Batch
<1>8. UNCHANGED replaced
  BY DEF WriteRow
<1>9. QED
  BY <1>1, <1>3, <1>4, <1>5, <1>7, <1>8, WriteKeepsInv

LEMMA WriteRowsInv ==
    ASSUME WriterInv, NEW w \in Writers, NEW first \in RowSet, NEW second \in RowSet,
           WriteRows(w, first, second)
    PROVE  WriterInv'
<1>1. writer[w].out \in Streams /\ writer[w].out # None
  BY DEF WriterInv, TypeOK, WriteRows
<1>2. given[writer[w].out] \in Seq(RowSet) /\ Len(given[writer[w].out]) + 1 < MaxRows
  BY <1>1 DEF WriterInv, GivenType, WriteRows
<1> DEFINE rows == given[writer[w].out] \o <<first, second>>
<1>3. rows \in Seq(RowSet) /\ Len(rows) = Len(given[writer[w].out]) + 2
  BY <1>2
<1>4. Len(rows) <= MaxRows
  BY <1>2, <1>3, WriterAssumption
<1>5. given' = [given EXCEPT ![writer[w].out] = rows]
  BY DEF WriteRows
<1> HIDE DEF rows
<1>6. PICK bytes : writer' = [writer EXCEPT ![w].buffer = bytes]
  BY DEF WriteRows
<1>7. UNCHANGED replaced
  BY DEF WriteRows
<1>8. QED
  BY <1>1, <1>3, <1>4, <1>5, <1>6, <1>7, WriteKeepsInv

(* A move: the stream goes from one writer to the other, the stream the    *)
(* other had goes out of use.                                              *)
LEMMA MoveToInv ==
    ASSUME WriterInv, NEW w \in Writers, NEW v \in Writers, MoveTo(w, v)
    PROVE  WriterInv'
<1>1. /\ w # v
      /\ writer' = [writer EXCEPT ![w] = writer[v], ![v] = MovedFrom(v)]
      /\ replaced' = IF writer[w].buffer # <<>> THEN replaced \cup {writer[w].out} ELSE replaced
      /\ given' = given
  BY DEF MoveTo
<1>2. MovedFrom(v) = [out |-> None, buffer |-> <<>>,
                      autoFlush |-> writer[v].autoFlush, minimal |-> TRUE]
  BY DEF MovedFrom
<1>3. DOMAIN writer' = Writers
  BY <1>1 DEF WriterInv, WriterShape
<1>4. \A u \in Writers : writer'[u] = IF u = v THEN MovedFrom(v)
                                     ELSE IF u = w THEN writer[v] ELSE writer[u]
  BY <1>1 DEF WriterInv, WriterShape
<1>5. WriterShape'
  BY <1>2, <1>3, <1>4 DEF WriterInv, WriterShape
<1>6. OneWriterPerStream'
  BY <1>2, <1>4 DEF WriterInv, OneWriterPerStream
<1>7. GivenType'
  BY <1>1 DEF WriterInv, GivenType
<1>8. replaced' \subseteq Streams
  BY <1>1 DEF WriterInv, TypeOK
<1>9. \A u \in Writers :
          /\ writer'[u].out \in Streams \cup {None}
          /\ writer'[u].buffer # <<>> => writer'[u].out # None
          /\ writer'[u].autoFlush \in BOOLEAN /\ writer'[u].minimal \in BOOLEAN
  <2>1. ASSUME NEW u \in Writers
        PROVE  /\ writer[u].out \in Streams \cup {None}
               /\ writer[u].buffer # <<>> => writer[u].out # None
               /\ writer[u].autoFlush \in BOOLEAN /\ writer[u].minimal \in BOOLEAN
    BY DEF WriterInv, TypeOK
  <2>2. /\ MovedFrom(v).out = None /\ MovedFrom(v).buffer = <<>>
        /\ MovedFrom(v).autoFlush \in BOOLEAN /\ MovedFrom(v).minimal \in BOOLEAN
    BY <1>2, <2>1
  <2>3. QED
    BY <1>4, <2>1, <2>2
<1>10. TypeOK'
  BY <1>1, <1>8, <1>9 DEF WriterInv, TypeOK
<1>11. QED
  BY <1>5, <1>6, <1>7, <1>10 DEF WriterInv

LEMMA NextInv == WriterInv /\ [WriterNext]_writerVars => WriterInv'
<1> SUFFICES ASSUME WriterInv, [WriterNext]_writerVars PROVE WriterInv'
  OBVIOUS
<1>1. CASE UNCHANGED writerVars
  BY <1>1 DEF WriterInv, WriterShape, GivenType, TypeOK, OneWriterPerStream, writerVars
<1>2. ASSUME NEW w \in Writers, Flush(w) PROVE WriterInv'
  <2>0. IsWriter(writer[w])
    BY DEF WriterInv, WriterShape, IsWriter
  <2> DEFINE new == [writer[w] EXCEPT !.buffer = <<>>]
  <2>1. new = [out |-> writer[w].out, buffer |-> <<>>,
               autoFlush |-> writer[w].autoFlush, minimal |-> writer[w].minimal]
    BY <2>0, WriterUpdates
  <2>2. writer' = [writer EXCEPT ![w] = new] /\ UNCHANGED <<given, replaced>>
    BY <1>2 DEF Flush, Batch
  <2>3. writer[w].autoFlush \in BOOLEAN /\ writer[w].minimal \in BOOLEAN
    BY DEF WriterInv, TypeOK
  <2> HIDE DEF new
  <2>4. QED
    BY <2>1, <2>2, <2>3, RestKeepsInv
<1>3. ASSUME NEW w \in Writers, NEW value \in BOOLEAN, SetAutoFlush(w, value) PROVE WriterInv'
  <2>0. IsWriter(writer[w])
    BY DEF WriterInv, WriterShape, IsWriter
  <2> DEFINE new == [writer[w] EXCEPT !.autoFlush = value]
  <2>1. new = [out |-> writer[w].out, buffer |-> writer[w].buffer,
               autoFlush |-> value, minimal |-> writer[w].minimal]
    BY <2>0, WriterUpdates
  <2>2. writer' = [writer EXCEPT ![w] = new] /\ UNCHANGED <<given, replaced>>
    BY <1>3 DEF SetAutoFlush
  <2>3. writer[w].minimal \in BOOLEAN /\ (writer[w].buffer # <<>> => writer[w].out # None)
    BY DEF WriterInv, TypeOK
  <2> HIDE DEF new
  <2>4. QED
    BY <2>1, <2>2, <2>3, RestKeepsInv
<1>4. ASSUME NEW w \in Writers, Destroy(w) PROVE WriterInv'
  <2>0. IsWriter(writer[w])
    BY DEF WriterInv, WriterShape, IsWriter
  <2> DEFINE new == [[writer[w] EXCEPT !.out = None] EXCEPT !.buffer = <<>>]
  <2>1. new = [out |-> None, buffer |-> <<>>,
               autoFlush |-> writer[w].autoFlush, minimal |-> writer[w].minimal]
    BY <2>0, WriterUpdates
  <2>2. writer' = [writer EXCEPT ![w] = new] /\ UNCHANGED <<given, replaced>>
    BY <1>4 DEF Destroy, WriterInv, WriterShape
  <2>3. writer[w].autoFlush \in BOOLEAN /\ writer[w].minimal \in BOOLEAN
    BY DEF WriterInv, TypeOK
  <2> HIDE DEF new
  <2>4. QED
    BY <2>1, <2>2, <2>3, RestKeepsInv
<1>5. QED
  BY <1>1, <1>2, <1>3, <1>4, WriteRowInv, WriteRowsInv, MoveToInv DEF WriterNext

LEMMA SpecInv == WriterSpec => []WriterInv
  BY InitInv, NextInv, PTL DEF WriterSpec

(* TypeOK: after any writes, flushes, moves and destructions the members   *)
(* have their types, and a writer without a stream holds no rows back.     *)
THEOREM WriterTypes == WriterSpec => []TypeOK
<1>1. WriterInv => TypeOK
  BY DEF WriterInv
<1>2. QED
  BY <1>1, SpecInv, PTL

(* OneWriterPerStream: no two of any number of writers ever have the same  *)
(* stream, however they are moved: csv_writer.hpp:276-304 hands the stream *)
(* over and never shares it.                                               *)
THEOREM StreamsAreNotShared == WriterSpec => []OneWriterPerStream
<1>1. WriterInv => OneWriterPerStream
  BY DEF WriterInv
<1>2. QED
  BY <1>1, SpecInv, PTL

-----------------------------------------------------------------------------
(* The text of rows. *)

LEMMA ConcatBytes ==
    ASSUME NEW a \in Seq(Byte), NEW b \in Seq(Byte), NEW c \in Seq(Byte)
    PROVE  a \o b \in Seq(Byte) /\ (a \o b) \o c = a \o (b \o c) /\ a \o <<>> = a
<1>1. a \o b \in Seq(Byte)
  BY ConcatProperties
<1>2. (a \o b) \o c = a \o (b \o c)
  BY ConcatAssociative
<1>3. a \o <<>> = a
  BY ConcatEmptySeq
<1>4. QED
  BY <1>1, <1>2, <1>3

LEMMA BytesAssociative == \A a, b, c \in Seq(Byte) : (a \o b) \o c = a \o (b \o c)
  BY ConcatAssociative, SMTT(30)

LEMMA EscapedType ==
    ASSUME NEW field \in Seq(Byte), NEW minimal \in BOOLEAN
    PROVE  Escaped(field, minimal) \in Seq(Byte)
<1> DEFINE parts == [i \in DOMAIN field |->
              IF field[i] = "quote" THEN <<"quote", "quote">> ELSE <<field[i]>>]
<1>1. Len(field) \in Nat /\ DOMAIN field = 1..Len(field) /\ "quote" \in Byte
      /\ \A i \in 1..Len(field) : field[i] \in Byte
  BY LenProperties, ElementOfSeq DEF Byte
<1>2. \A i \in 1..Len(field) :
         (IF field[i] = "quote" THEN <<"quote", "quote">> ELSE <<field[i]>>) \in Seq(Byte)
  BY <1>1
<1>3. parts \in [1..Len(field) -> Seq(Byte)]
  BY <1>1, <1>2
<1> HIDE DEF parts
<1>4. parts \in Seq(Seq(Byte))
  BY <1>1, <1>3, IsASeq
<1>5. Doubled(field) \in Seq(Byte)
  BY <1>4, FlattenType DEF Doubled, parts
<1>6. <<"quote">> \in Seq(Byte)
  BY <1>1
<1>7. <<"quote">> \o Doubled(field) \o <<"quote">> \in Seq(Byte)
  BY <1>5, <1>6, ConcatProperties
<1>8. QED
  BY <1>7 DEF Escaped

LEMMA RowBytesType ==
    ASSUME NEW row \in RowSet, NEW minimal \in BOOLEAN
    PROVE  RowBytes(row, minimal) \in Seq(Byte)
<1> DEFINE parts == [i \in DOMAIN row |->
              (IF i = 1 THEN <<>> ELSE <<"delim">>) \o Escaped(row[i], minimal)]
<1>1. row \in Seq(Seq(Byte))
  BY WriterAssumption
<1>2. Len(row) \in Nat /\ DOMAIN row = 1..Len(row) /\ \A i \in 1..Len(row) : row[i] \in Seq(Byte)
  BY <1>1, LenProperties, ElementOfSeq
<1>3. "delim" \in Byte /\ "lf" \in Byte
  BY DEF Byte, Separators
<1>4. ASSUME NEW i \in 1..Len(row)
      PROVE  (IF i = 1 THEN <<>> ELSE <<"delim">>) \o Escaped(row[i], minimal) \in Seq(Byte)
  <2>1. (IF i = 1 THEN <<>> ELSE <<"delim">>) \in Seq(Byte)
    BY <1>3
  <2>2. Escaped(row[i], minimal) \in Seq(Byte)
    BY <1>2, EscapedType
  <2>3. QED
    BY <2>1, <2>2, ConcatProperties
<1>5. parts \in [1..Len(row) -> Seq(Byte)]
  BY <1>2, <1>4
<1> HIDE DEF parts
<1>6. parts \in Seq(Seq(Byte))
  BY <1>2, <1>5, IsASeq
<1>7. Delimited(row, minimal) \in Seq(Byte)
  BY <1>6, FlattenType DEF Delimited, parts
<1>8. <<"lf">> \in Seq(Byte)
  BY <1>3
<1>9. QED
  BY <1>7, <1>8, ConcatProperties DEF RowBytes

(* A row more is its bytes more. *)
LEMMA RenderedAppend ==
    ASSUME NEW rows \in Seq(RowSet), NEW row \in RowSet
    PROVE  /\ Rendered(rows) \in Seq(Byte)
           /\ Rendered(Append(rows, row)) = Rendered(rows) \o RowBytes(row, Minimal)
<1> DEFINE more == Append(rows, row)
           Texts(rs) == [i \in DOMAIN rs |-> RowBytes(rs[i], Minimal)]
           text == RowBytes(row, Minimal)
<1>1. /\ Len(rows) \in Nat /\ DOMAIN rows = 1..Len(rows)
      /\ \A i \in 1..Len(rows) : rows[i] \in RowSet
  BY LenProperties, ElementOfSeq
<1>2. /\ more \in Seq(RowSet) /\ Len(more) = Len(rows) + 1 /\ DOMAIN more = 1..(Len(rows) + 1)
      /\ more[Len(rows) + 1] = row
      /\ \A i \in 1..Len(rows) : more[i] = rows[i]
  BY <1>1, AppendProperties, LenProperties
<1>3. text \in Seq(Byte) /\ \A i \in 1..Len(rows) : RowBytes(rows[i], Minimal) \in Seq(Byte)
  BY <1>1, RowBytesType, WriterAssumption
<1> HIDE DEF more, text
<1>4. Texts(rows) \in [1..Len(rows) -> Seq(Byte)]
  BY <1>1, <1>3
<1> DEFINE old == Texts(rows)
           new == Texts(more)
<1>5. old \in Seq(Seq(Byte)) /\ Len(old) = Len(rows)
  BY <1>1, <1>4, IsASeq, LenProperties
<1>6. \A i \in 1..Len(rows) : new[i] = old[i]
  BY <1>1, <1>2
<1>7. new[Len(rows) + 1] = text /\ DOMAIN new = 1..(Len(rows) + 1)
  BY <1>1, <1>2 DEF text
<1>8. new = [i \in 1..(Len(rows) + 1) |-> new[i]]
  BY <1>2
<1> HIDE DEF old, new
<1>9. new = Append(old, text)
  <2>1. /\ Append(old, text) \in Seq(Seq(Byte)) /\ Len(Append(old, text)) = Len(rows) + 1
        /\ Append(old, text)[Len(rows) + 1] = text
        /\ \A i \in 1..Len(rows) : Append(old, text)[i] = old[i]
    BY <1>1, <1>3, <1>5, AppendProperties
  <2>2. \A i \in 1..(Len(rows) + 1) : i \in 1..Len(rows) \/ i = Len(rows) + 1
    BY <1>1
  <2>3. \A i \in 1..(Len(rows) + 1) : new[i] = Append(old, text)[i]
    BY <1>6, <1>7, <2>1, <2>2
  <2>4. Append(old, text) = [i \in 1..(Len(rows) + 1) |-> Append(old, text)[i]]
    BY <2>1, LenProperties
  <2>5. QED
    BY <1>8, <2>3, <2>4
<1>10. Rendered(rows) = FlattenSeq(old) /\ Rendered(more) = FlattenSeq(new)
  BY DEF Rendered, old, new
<1>11. QED
  BY <1>3, <1>5, <1>9, <1>10, FlattenAppend, FlattenType DEF more, text

LEMMA RenderedNone == Rendered(<<>>) = <<>>
<1>1. [i \in DOMAIN <<>> |-> RowBytes(<<>>[i], Minimal)] = <<>>
  OBVIOUS
<1>2. QED
  BY <1>1, FlattenEmpty DEF Rendered

-----------------------------------------------------------------------------
(* What the streams and the buffers hold. *)

(* The rows given for stream s, where w is its writer. *)
HoldsRows(s, buffer) == content[s] \o buffer = Rendered(given[s])

Kept ==
    /\ content \in [Streams -> Seq(Byte)]
    /\ \A w \in Writers :
          /\ writer[w].buffer \in Seq(Byte)
          /\ writer[w].out # None => writer[w].minimal = Minimal
          /\ writer[w].out \in Streams \ replaced => HoldsRows(writer[w].out, writer[w].buffer)
    /\ \A s \in Streams \ replaced :
          (\A w \in Writers : writer[w].out # s) => content[s] = Rendered(given[s])

LEMMA InitKept == WriterInit => Kept
<1> SUFFICES ASSUME WriterInit PROVE Kept
  OBVIOUS
<1>1. <<>> \in Seq(Byte) /\ <<>> \o <<>> = <<>>
  OBVIOUS
<1>2. \A s \in Streams : content[s] = <<>> /\ given[s] = <<>> /\ Rendered(<<>>) = <<>>
  BY RenderedNone DEF WriterInit
<1>3. content \in [Streams -> Seq(Byte)]
  BY <1>1 DEF WriterInit
<1>4. ASSUME NEW w \in Writers
      PROVE  writer[w].out = w /\ writer[w].buffer = <<>> /\ writer[w].minimal = Minimal
  BY DEF WriterInit
<1>5. \A s \in Streams : HoldsRows(s, <<>>) /\ content[s] = Rendered(given[s])
  BY <1>1, <1>2 DEF HoldsRows
<1>6. QED
  BY <1>1, <1>3, <1>4, <1>5 DEF Kept

(* A step that changes the writer w and its stream only. *)
LEMMA StreamChanges ==
    ASSUME WriterInv, Kept, NEW w \in Writers, writer[w].out # None,
           NEW new, writer' = [writer EXCEPT ![w] = new],
           new.out = writer[w].out, new.minimal = writer[w].minimal, new.buffer \in Seq(Byte),
           NEW text \in Seq(Byte), content' = [content EXCEPT ![writer[w].out] = text],
           NEW rows, given' = [given EXCEPT ![writer[w].out] = rows],
           writer[w].out \notin replaced => text \o new.buffer = Rendered(rows),
           replaced' = replaced
    PROVE  Kept'
<1> DEFINE s == writer[w].out
<1>1. s \in Streams /\ DOMAIN writer = Writers /\ content \in [Streams -> Seq(Byte)]
      /\ DOMAIN given = Streams
  BY DEF WriterInv, TypeOK, WriterShape, GivenType, Kept
<1>2. \A v \in Writers : v # w => writer[v].out # s
  BY DEF WriterInv, OneWriterPerStream
<1>3. /\ writer'[w] = new
      /\ \A v \in Writers : v # w => writer'[v] = writer[v]
  BY <1>1
<1>4. /\ content'[s] = text /\ given'[s] = rows
      /\ \A t \in Streams : t # s => content'[t] = content[t] /\ given'[t] = given[t]
      /\ content' \in [Streams -> Seq(Byte)]
  BY <1>1
<1> HIDE DEF s
<1>5. ASSUME NEW v \in Writers
      PROVE  /\ writer'[v].buffer \in Seq(Byte)
             /\ writer'[v].out # None => writer'[v].minimal = Minimal
             /\ writer'[v].out \in Streams \ replaced =>
                   content'[writer'[v].out] \o writer'[v].buffer = Rendered(given'[writer'[v].out])
  <2>1. CASE v = w
    <3>1. writer'[v].out = s /\ writer'[v].buffer = new.buffer /\ writer'[v].minimal = Minimal
      BY <1>3, <2>1 DEF Kept, s
    <3>2. s \notin replaced => content'[s] \o new.buffer = Rendered(given'[s])
      BY <1>4 DEF s
    <3>3. QED
      BY <3>1, <3>2
  <2>2. CASE v # w
    <3> DEFINE o == writer[v].out
    <3>1. writer'[v] = writer[v] /\ o # s
      BY <1>2, <1>3, <2>2
    <3>2. /\ writer[v].buffer \in Seq(Byte) /\ (o # None => writer[v].minimal = Minimal)
          /\ o \in Streams \ replaced => content[o] \o writer[v].buffer = Rendered(given[o])
      BY DEF Kept, HoldsRows
    <3>3. o \in Streams => content'[o] = content[o] /\ given'[o] = given[o]
      BY <1>4, <3>1
    <3>4. writer'[v].out = o
      BY <3>1
    <3> HIDE DEF o
    <3>5. QED
      BY <3>1, <3>2, <3>3, <3>4
  <2>3. QED
    BY <2>1, <2>2
<1>6. ASSUME NEW t \in Streams \ replaced, \A v \in Writers : writer'[v].out # t
      PROVE  content'[t] = Rendered(given'[t])
  <2>1. t # s
    BY <1>3, <1>6 DEF s
  <2>2. \A v \in Writers : writer[v].out # t
    <3>1. writer[w].out # t
      BY <2>1 DEF s
    <3>2. QED
      BY <1>3, <1>6, <3>1
  <2>3. QED
    BY <1>4, <2>1, <2>2 DEF Kept
<1>7. QED
  BY <1>4, <1>5, <1>6 DEF Kept, HoldsRows

(* flush_batch() moves bytes from the buffer to the stream. *)
LEMMA BatchKeeps ==
    ASSUME NEW c \in Seq(Byte), NEW bytes \in Seq(Byte), NEW flush
    PROVE  /\ (IF flush THEN c \o bytes ELSE c) \in Seq(Byte)
           /\ (IF flush THEN <<>> ELSE bytes) \in Seq(Byte)
           /\ (IF flush THEN c \o bytes ELSE c) \o (IF flush THEN <<>> ELSE bytes) = c \o bytes
<1>1. CASE flush
  <2>1. c \o bytes \in Seq(Byte) /\ (c \o bytes) \o <<>> = c \o bytes /\ <<>> \in Seq(Byte)
    BY ConcatProperties, ConcatEmptySeq
  <2>2. QED
    BY <1>1, <2>1
<1>2. CASE ~flush
  BY <1>2
<1>3. QED
  BY <1>1, <1>2

LEMMA WriteRowKept ==
    ASSUME WriterInv, Kept, NEW w \in Writers, NEW row \in RowSet, WriteRow(w, row)
    PROVE  Kept'
<1> DEFINE s == writer[w].out
           more == RowBytes(row, writer[w].minimal)
           bytes == writer[w].buffer \o more
           flush == writer[w].autoFlush \/ Len(bytes) >= Threshold
           new == [writer[w] EXCEPT !.buffer = IF flush THEN <<>> ELSE bytes]
           text == IF flush THEN content[s] \o bytes ELSE content[s]
           rows == Append(given[s], row)
<1>1. s \in Streams /\ s # None /\ writer[w].minimal = Minimal /\ Minimal \in BOOLEAN
  BY WriterAssumption DEF WriterInv, TypeOK, WriteRow, Kept
<1>2. /\ writer[w].buffer \in Seq(Byte) /\ content[s] \in Seq(Byte) /\ given[s] \in Seq(RowSet)
      /\ more \in Seq(Byte) /\ more = RowBytes(row, Minimal)
  BY <1>1, RowBytesType DEF Kept, WriterInv, GivenType
<1>3. writer' = [writer EXCEPT ![w] = new]
  BY DEF WriteRow, Batch, WriterInv, WriterShape
<1>4. content' = [content EXCEPT ![s] = text]
  <2>1. CASE flush
    BY <2>1 DEF WriteRow, Batch
  <2>2. CASE ~flush
    <3>1. content' = content /\ text = content[s]
      BY <2>2 DEF WriteRow, Batch
    <3>2. QED
      BY <1>1, <3>1 DEF Kept
  <2>3. QED
    BY <2>1, <2>2
<1>5. given' = [given EXCEPT ![s] = rows] /\ replaced' = replaced
  BY DEF WriteRow
<1>6. IsWriter(writer[w])
  BY DEF WriterInv, WriterShape, IsWriter
<1>7. bytes \in Seq(Byte)
  BY <1>2, ConcatBytes
<1> HIDE DEF bytes, flush
<1>8. /\ new.out = s /\ new.minimal = writer[w].minimal
      /\ new.buffer = IF flush THEN <<>> ELSE bytes
  BY <1>6, WriterUpdates
<1>9. /\ text \in Seq(Byte) /\ new.buffer \in Seq(Byte)
      /\ text \o new.buffer = content[s] \o bytes
  <2> DEFINE c == content[s]
  <2>1. c \in Seq(Byte) /\ text = IF flush THEN c \o bytes ELSE c
    BY <1>2
  <2> HIDE DEF c, text, new
  <2>2. /\ text \in Seq(Byte) /\ new.buffer \in Seq(Byte)
        /\ text \o new.buffer = c \o bytes
    BY <1>7, <1>8, <2>1, BatchKeeps
  <2>3. QED
    BY <2>2 DEF c
<1> HIDE DEF new, text, more, rows, s
<1>10. s \notin replaced => text \o new.buffer = Rendered(rows)
  <2> SUFFICES ASSUME s \notin replaced PROVE text \o new.buffer = Rendered(rows)
    OBVIOUS
  <2>1. content[s] \o writer[w].buffer = Rendered(given[s])
    BY <1>1 DEF Kept, HoldsRows, s
  <2>2. (content[s] \o writer[w].buffer) \o more = content[s] \o (writer[w].buffer \o more)
    BY <1>2, BytesAssociative, Zenon
  <2>3. Rendered(rows) = Rendered(given[s]) \o more
    BY <1>2, RenderedAppend DEF rows
  <2>4. bytes = writer[w].buffer \o more
    BY DEF bytes, more
  <2>5. QED
    BY <1>9, <2>1, <2>2, <2>3, <2>4
<1>11. QED
  BY <1>1, <1>3, <1>4, <1>5, <1>8, <1>9, <1>10, StreamChanges DEF s

LEMMA WriteRowsKept ==
    ASSUME WriterInv, Kept, NEW w \in Writers, NEW first \in RowSet, NEW second \in RowSet,
           WriteRows(w, first, second)
    PROVE  Kept'
<1> DEFINE s == writer[w].out
           one == writer[w].buffer \o RowBytes(first, writer[w].minimal)
           full == Len(one) >= Threshold
           rest == IF full THEN <<>> ELSE one
           sent == IF full THEN one ELSE <<>>
           two == rest \o RowBytes(second, writer[w].minimal)
           flush == writer[w].autoFlush \/ Len(two) >= Threshold
           new == [writer[w] EXCEPT !.buffer = IF flush THEN <<>> ELSE two]
           text == content[s] \o sent \o (IF flush THEN two ELSE <<>>)
           rows == given[s] \o <<first, second>>
           before == content[s] \o sent
           b1 == RowBytes(first, Minimal)
           b2 == RowBytes(second, Minimal)
<1>1. s \in Streams /\ s # None /\ writer[w].minimal = Minimal /\ Minimal \in BOOLEAN
  BY WriterAssumption DEF WriterInv, TypeOK, WriteRows, Kept
<1>2. /\ writer[w].buffer \in Seq(Byte) /\ content[s] \in Seq(Byte) /\ given[s] \in Seq(RowSet)
      /\ b1 \in Seq(Byte) /\ b2 \in Seq(Byte)
      /\ one = writer[w].buffer \o b1 /\ two = rest \o b2
  BY <1>1, RowBytesType DEF Kept, WriterInv, GivenType
<1>3. writer' = [writer EXCEPT ![w] = new]
  BY DEF WriteRows, WriterInv, WriterShape
<1>4. content' = [content EXCEPT ![s] = text]
  BY DEF WriteRows
<1>5. given' = [given EXCEPT ![s] = rows] /\ replaced' = replaced
  BY DEF WriteRows
<1>6. IsWriter(writer[w])
  BY DEF WriterInv, WriterShape, IsWriter
<1>7. one \in Seq(Byte)
  BY <1>2, ConcatBytes
<1> HIDE DEF b1, b2, one, full
<1>8. rest \in Seq(Byte) /\ sent \in Seq(Byte) /\ sent \o rest = one
  <2>1. <<>> \in Seq(Byte) /\ one \o <<>> = one /\ <<>> \o one = one
    BY <1>7, ConcatEmptySeq
  <2>2. QED
    BY <1>7, <2>1
<1> HIDE DEF rest, sent
<1>9. two \in Seq(Byte) /\ before \in Seq(Byte)
  BY <1>2, <1>8, ConcatBytes
<1> HIDE DEF two, flush, before
<1>10. /\ new.out = s /\ new.minimal = writer[w].minimal
       /\ new.buffer = IF flush THEN <<>> ELSE two
  BY <1>6, WriterUpdates
<1>11. text = IF flush THEN before \o two ELSE before
  <2>1. text = before \o (IF flush THEN two ELSE <<>>)
    BY DEF before
  <2>2. before \o <<>> = before
    BY <1>9, ConcatEmptySeq
  <2>3. QED
    BY <2>1, <2>2
<1> HIDE DEF new, text, rows
<1>12. /\ text \in Seq(Byte) /\ new.buffer \in Seq(Byte)
       /\ text \o new.buffer = before \o two
  BY <1>9, <1>10, <1>11, BatchKeeps
<1> HIDE DEF s
<1>13. s \notin replaced => text \o new.buffer = Rendered(rows)
  <2> SUFFICES ASSUME s \notin replaced PROVE text \o new.buffer = Rendered(rows)
    OBVIOUS
  <2>1. content[s] \o writer[w].buffer = Rendered(given[s])
    BY <1>1 DEF Kept, HoldsRows, s
  <2>2. before \o two = (before \o rest) \o b2
    <3>1. before \in Seq(Byte) /\ rest \in Seq(Byte) /\ b2 \in Seq(Byte)
      BY <1>2, <1>8, <1>9
    <3>2. (before \o rest) \o b2 = before \o (rest \o b2)
      BY <3>1, BytesAssociative, Zenon
    <3>3. QED
      BY <1>2, <3>2
  <2>3. before \o rest = content[s] \o one
    <3>1. content[s] \in Seq(Byte) /\ sent \in Seq(Byte) /\ rest \in Seq(Byte)
      BY <1>2, <1>8
    <3>2. (content[s] \o sent) \o rest = content[s] \o (sent \o rest)
      BY <3>1, BytesAssociative, Zenon
    <3>3. QED
      BY <1>8, <3>2 DEF before
  <2>4. content[s] \o one = (content[s] \o writer[w].buffer) \o b1
    <3>1. content[s] \in Seq(Byte) /\ writer[w].buffer \in Seq(Byte) /\ b1 \in Seq(Byte)
      BY <1>2
    <3>2. (content[s] \o writer[w].buffer) \o b1 = content[s] \o (writer[w].buffer \o b1)
      BY <3>1, BytesAssociative, Zenon
    <3>3. QED
      BY <1>2, <3>2
  <2>5. Rendered(rows) = (Rendered(given[s]) \o b1) \o b2
    <3> DEFINE g1 == Append(given[s], first)
    <3>1. g1 \in Seq(RowSet)
      BY <1>2, AppendProperties
    <3>2. Rendered(g1) = Rendered(given[s]) \o b1
      BY <1>2, RenderedAppend DEF b1
    <3>3. rows = Append(g1, second)
      <4> DEFINE g == given[s]
      <4>1. g \in Seq(RowSet) /\ rows = g \o <<first, second>> /\ g1 = Append(g, first)
        BY <1>2 DEF rows
      <4> HIDE DEF g, rows, g1
      <4>2. QED
        BY <4>1
    <3> HIDE DEF g1
    <3>4. QED
      BY <3>1, <3>2, <3>3, RenderedAppend DEF b2
  <2>6. QED
    BY <1>12, <2>1, <2>2, <2>3, <2>4, <2>5
<1>14. QED
  BY <1>1, <1>3, <1>4, <1>5, <1>10, <1>12, <1>13, StreamChanges DEF s

LEMMA FlushKept ==
    ASSUME WriterInv, Kept, NEW w \in Writers, Flush(w)
    PROVE  Kept'
<1> DEFINE s == writer[w].out
           new == [writer[w] EXCEPT !.buffer = <<>>]
           text == content[s] \o writer[w].buffer
           rows == given[s]
<1>1. s \in Streams /\ s # None
  BY DEF WriterInv, TypeOK, Flush
<1>2. writer[w].buffer \in Seq(Byte) /\ content[s] \in Seq(Byte)
  BY <1>1 DEF Kept
<1>3. writer' = [writer EXCEPT ![w] = new] /\ content' = [content EXCEPT ![s] = text]
      /\ replaced' = replaced /\ given' = given
  BY DEF Flush, Batch, WriterInv, WriterShape
<1>4. given' = [given EXCEPT ![s] = rows]
  BY <1>1, <1>3 DEF WriterInv, GivenType
<1>5. IsWriter(writer[w])
  BY DEF WriterInv, WriterShape, IsWriter
<1>6. new.out = s /\ new.minimal = writer[w].minimal /\ new.buffer = <<>>
  BY <1>5, WriterUpdates
<1>7. text \in Seq(Byte) /\ text \o <<>> = text
  BY <1>2, ConcatBytes, ConcatEmptySeq
<1>8. s \notin replaced => text = Rendered(rows)
  BY <1>1 DEF Kept, HoldsRows
<1> HIDE DEF new, text, rows, s
<1>9. new.buffer \in Seq(Byte) /\ (s \notin replaced => text \o new.buffer = Rendered(rows))
  BY <1>6, <1>7, <1>8
<1>10. QED
  <2>1. new.out = writer[w].out /\ content' = [content EXCEPT ![writer[w].out] = text]
        /\ given' = [given EXCEPT ![writer[w].out] = rows] /\ writer[w].out # None
        /\ (writer[w].out \notin replaced => text \o new.buffer = Rendered(rows))
    BY <1>1, <1>3, <1>4, <1>6, <1>9 DEF s
  <2>2. /\ writer' = [writer EXCEPT ![w] = new] /\ replaced' = replaced
        /\ new.minimal = writer[w].minimal /\ new.buffer \in Seq(Byte) /\ text \in Seq(Byte)
    BY <1>3, <1>6, <1>7, <1>9
  <2>3. QED
    BY <2>1, <2>2, StreamChanges

LEMMA SetAutoFlushKept ==
    ASSUME WriterInv, Kept, NEW w \in Writers, NEW value \in BOOLEAN, SetAutoFlush(w, value)
    PROVE  Kept'
<1>1. IsWriter(writer[w])
  BY DEF WriterInv, WriterShape, IsWriter
<1> DEFINE new == [writer[w] EXCEPT !.autoFlush = value]
<1>2. new.out = writer[w].out /\ new.buffer = writer[w].buffer /\ new.minimal = writer[w].minimal
  <2>1. new = [out |-> writer[w].out, buffer |-> writer[w].buffer,
               autoFlush |-> value, minimal |-> writer[w].minimal]
    BY <1>1, WriterUpdates
  <2> HIDE DEF new
  <2>2. QED
    BY <2>1
<1>3. writer' = [writer EXCEPT ![w] = new] /\ UNCHANGED <<content, given, replaced>>
  BY DEF SetAutoFlush, WriterInv, WriterShape
<1> HIDE DEF new
<1>4. \A v \in Writers : /\ writer'[v].out = writer[v].out /\ writer'[v].buffer = writer[v].buffer
                         /\ writer'[v].minimal = writer[v].minimal
  BY <1>2, <1>3 DEF WriterInv, WriterShape
<1>5. ASSUME NEW v \in Writers
      PROVE  /\ writer'[v].buffer \in Seq(Byte)
             /\ writer'[v].out # None => writer'[v].minimal = Minimal
             /\ writer'[v].out \in Streams \ replaced =>
                   content[writer'[v].out] \o writer'[v].buffer = Rendered(given[writer'[v].out])
  BY <1>4 DEF Kept, HoldsRows
<1>6. ASSUME NEW s \in Streams \ replaced, \A v \in Writers : writer'[v].out # s
      PROVE  content[s] = Rendered(given[s])
  BY <1>4, <1>6 DEF Kept
<1>7. QED
  BY <1>3, <1>5, <1>6 DEF Kept, HoldsRows

LEMMA DestroyKept ==
    ASSUME WriterInv, Kept, NEW w \in Writers, Destroy(w)
    PROVE  Kept'
<1> DEFINE s == writer[w].out
           text == content[s] \o writer[w].buffer
<1>1. s \in Streams /\ s # None /\ DOMAIN writer = Writers
  BY DEF WriterInv, TypeOK, WriterShape, Destroy
<1>2. writer[w].buffer \in Seq(Byte) /\ content \in [Streams -> Seq(Byte)] /\ text \in Seq(Byte)
  <2>1. writer[w].buffer \in Seq(Byte) /\ content[s] \in Seq(Byte)
    BY <1>1 DEF Kept
  <2>2. QED
    BY <2>1, ConcatBytes DEF Kept
<1>3. /\ content' = [content EXCEPT ![s] = text] /\ given' = given /\ replaced' = replaced
      /\ writer' = [writer EXCEPT ![w] = [[writer[w] EXCEPT !.out = None] EXCEPT !.buffer = <<>>]]
  BY <1>1 DEF Destroy
<1>4. IsWriter(writer[w])
  BY DEF WriterInv, WriterShape, IsWriter
<1>5. /\ writer'[w] = [out |-> None, buffer |-> <<>>,
                       autoFlush |-> writer[w].autoFlush, minimal |-> writer[w].minimal]
      /\ \A v \in Writers : v # w => writer'[v] = writer[v]
  BY <1>1, <1>3, <1>4, WriterUpdates
<1>6. writer'[w].out = None /\ writer'[w].buffer = <<>>
  BY <1>5
<1>7. \A v \in Writers : v # w => writer[v].out # s
  BY <1>1 DEF WriterInv, OneWriterPerStream
<1>8. /\ content'[s] = text /\ content' \in [Streams -> Seq(Byte)]
      /\ \A t \in Streams : t # s => content'[t] = content[t]
  BY <1>1, <1>2, <1>3
<1>9. s \notin replaced => text = Rendered(given[s])
  BY <1>1 DEF Kept, HoldsRows
<1> HIDE DEF s, text
<1>10. ASSUME NEW v \in Writers
       PROVE  /\ writer'[v].buffer \in Seq(Byte)
              /\ writer'[v].out # None => writer'[v].minimal = Minimal
              /\ writer'[v].out \in Streams \ replaced =>
                    content'[writer'[v].out] \o writer'[v].buffer = Rendered(given[writer'[v].out])
  <2>1. CASE v = w
    <3>1. None \notin Streams /\ <<>> \in Seq(Byte)
      BY WriterAssumption
    <3>2. QED
      BY <1>6, <2>1, <3>1
  <2>2. CASE v # w
    <3>1. writer'[v] = writer[v] /\ writer[v].out # s
      BY <1>5, <1>7, <2>2
    <3>2. QED
      BY <1>8, <3>1 DEF Kept, HoldsRows
  <2>3. QED
    BY <2>1, <2>2
<1>11. ASSUME NEW t \in Streams \ replaced, \A v \in Writers : writer'[v].out # t
       PROVE  content'[t] = Rendered(given[t])
  <2>1. CASE t = s
    BY <1>8, <1>9, <2>1
  <2>2. CASE t # s
    <3>1. \A v \in Writers : writer[v].out # t
      BY <1>5, <1>11, <2>2 DEF s
    <3>2. QED
      BY <1>8, <2>2, <3>1 DEF Kept
  <2>3. QED
    BY <2>1, <2>2
<1>12. QED
  BY <1>3, <1>8, <1>10, <1>11 DEF Kept, HoldsRows

(* The stream of the writer assigned over is left with what it has: all of  *)
(* its rows, unless some were in the buffer.                                *)
LEMMA MoveToKept ==
    ASSUME WriterInv, Kept, NEW w \in Writers, NEW v \in Writers, MoveTo(w, v)
    PROVE  Kept'
<1>1. /\ w # v /\ content' = content /\ given' = given
      /\ replaced' = IF writer[w].buffer # <<>> THEN replaced \cup {writer[w].out} ELSE replaced
      /\ writer' = [writer EXCEPT ![w] = writer[v], ![v] = MovedFrom(v)]
  BY DEF MoveTo
<1>2. /\ writer'[w] = writer[v]
      /\ writer'[v].out = None /\ writer'[v].buffer = <<>>
      /\ \A u \in Writers : u # w /\ u # v => writer'[u] = writer[u]
  BY <1>1 DEF MovedFrom, WriterInv, WriterShape
<1>3. None \notin Streams /\ <<>> \in Seq(Byte)
  BY WriterAssumption
<1>4. replaced \subseteq replaced'
  BY <1>1
<1>5. ASSUME NEW u \in Writers
      PROVE  /\ writer'[u].buffer \in Seq(Byte)
             /\ writer'[u].out # None => writer'[u].minimal = Minimal
             /\ writer'[u].out \in Streams \ replaced' =>
                    content[writer'[u].out] \o writer'[u].buffer = Rendered(given[writer'[u].out])
  <2>1. CASE u = v
    BY <1>2, <1>3, <2>1
  <2>2. CASE u = w
    <3> DEFINE o == writer[v].out
    <3>1. /\ writer[v].buffer \in Seq(Byte) /\ (o # None => writer[v].minimal = Minimal)
          /\ o \in Streams \ replaced => content[o] \o writer[v].buffer = Rendered(given[o])
      BY DEF Kept, HoldsRows
    <3>2. writer'[u].out = o /\ writer'[u].buffer = writer[v].buffer
          /\ writer'[u].minimal = writer[v].minimal
      BY <1>2, <2>2
    <3> HIDE DEF o
    <3>3. QED
      BY <1>4, <3>1, <3>2
  <2>3. CASE u # v /\ u # w
    BY <1>2, <1>4, <2>3 DEF Kept, HoldsRows
  <2>4. QED
    BY <2>1, <2>2, <2>3
<1>6. ASSUME NEW s \in Streams \ replaced', \A u \in Writers : writer'[u].out # s
      PROVE  content[s] = Rendered(given[s])
  <2>1. s \notin replaced /\ writer[v].out # s
    BY <1>2, <1>4, <1>6
  <2>2. CASE writer[w].out = s
    <3>1. writer[w].buffer = <<>>
      BY <1>1, <1>6, <2>2
    <3>2. content[s] \o <<>> = Rendered(given[s])
      BY <2>1, <2>2, <3>1 DEF Kept, HoldsRows
    <3>3. content[s] \in Seq(Byte)
      BY DEF Kept
    <3>4. QED
      BY <3>2, <3>3, ConcatEmptySeq
  <2>3. CASE writer[w].out # s
    <3>1. \A u \in Writers : writer[u].out # s
      BY <1>2, <1>6, <2>1, <2>3
    <3>2. QED
      BY <2>1, <3>1 DEF Kept
  <2>4. QED
    BY <2>2, <2>3
<1>7. QED
  BY <1>1, <1>5, <1>6 DEF Kept, HoldsRows

LEMMA NextKept == WriterInv /\ Kept /\ [WriterNext]_writerVars => Kept'
<1>1. Kept /\ UNCHANGED writerVars => Kept'
  BY DEF writerVars, Kept, HoldsRows
<1>2. QED
  BY <1>1, WriteRowKept, WriteRowsKept, FlushKept, SetAutoFlushKept, DestroyKept, MoveToKept
  DEF WriterNext

(* NothingLost: across any writes, bulk writes, flushes, moves, assignments *)
(* and destructions, what is on a stream and in its writer's buffer are     *)
(* the rows given for it, each once, in order and with its quotes, unless   *)
(* its writer was assigned over with rows in the buffer.                    *)
THEOREM NoRowIsLost == WriterSpec => []NothingLost
<1>1. WriterInv /\ Kept => NothingLost
  <2> SUFFICES ASSUME WriterInv, Kept, NEW s \in Streams \ replaced
               PROVE  Written(s) = Rendered(given[s])
    BY DEF NothingLost
  <2> DEFINE holders == {w \in Writers : writer[w].out = s}
  <2>1. CASE holders = {}
    <3>1. Pending(s) = <<>> /\ content[s] = Rendered(given[s]) /\ content[s] \in Seq(Byte)
      BY <2>1 DEF Pending, Kept
    <3>2. QED
      BY <3>1, ConcatEmptySeq DEF Written
  <2>2. CASE holders # {}
    <3> DEFINE w == CHOOSE u \in holders : TRUE
    <3>1. w \in holders
      BY <2>2
    <3>2. Pending(s) = writer[w].buffer
      BY <2>2 DEF Pending
    <3>3. QED
      BY <3>1, <3>2 DEF Written, Kept, HoldsRows
  <2>3. QED
    BY <2>1, <2>2
<1>2. QED
  BY <1>1, SpecInv, InitKept, NextKept, PTL DEF WriterSpec

-----------------------------------------------------------------------------
(* The parser's members, and what one turn of its loop makes of them.      *)

Yes == TRUE
No == FALSE

(* The parser's state, member by member, and the DFA's. *)
St(p, r, a, n, b, f, R, d) ==
    [pos |-> p, rowStart |-> r, fieldStart |-> a, fieldLength |-> n,
     doubled |-> b, fields |-> f, rows |-> R, dfa |-> d]
Dfa(q, k, l) == [quoted |-> q, pendingQuote |-> k, pendingLinefeed |-> l]

IsState(s) == s = St(s.pos, s.rowStart, s.fieldStart, s.fieldLength, s.doubled, s.fields, s.rows, s.dfa)
IsDfa(d) == d = Dfa(d.quoted, d.pendingQuote, d.pendingLinefeed)

LEMMA StMembers ==
    ASSUME NEW p, NEW r, NEW a, NEW n, NEW b, NEW f, NEW R, NEW d
    PROVE  LET s == St(p, r, a, n, b, f, R, d)
           IN  /\ s.pos = p /\ s.rowStart = r /\ s.fieldStart = a /\ s.fieldLength = n
               /\ s.doubled = b /\ s.fields = f /\ s.rows = R /\ s.dfa = d
BY DEF St

LEMMA DfaMembers ==
    ASSUME NEW q, NEW k, NEW l
    PROVE  LET d == Dfa(q, k, l)
           IN  d.quoted = q /\ d.pendingQuote = k /\ d.pendingLinefeed = l
BY DEF Dfa

LEMMA OutsideIs == Outside = Dfa(No, No, No)
BY Zenon DEF Outside, Dfa, No

-----------------------------------------------------------------------------
(* What PushField makes of the members. *)
Raw(in, r, a, n) ==
    LET first == r + (IF a = Unset THEN 0 ELSE a)
        past == first + n
    IN  SubSeq(in, first + 1, IF past < Len(in) THEN past ELSE Len(in))
Field(in, r, a, n, b) == IF b THEN Undouble(Raw(in, r, a, n)) ELSE Raw(in, r, a, n)

LEMMA PushFieldIs ==
    ASSUME NEW in, NEW p, NEW r, NEW a, NEW n, NEW b, NEW f, NEW R, NEW d
    PROVE  PushField(in, St(p, r, a, n, b, f, R, d)) =
               St(p, r, Unset, 0, No, Append(f, Field(in, r, a, n, b)), R, d)
<1> DEFINE s == St(p, r, a, n, b, f, R, d)
           g == Append(f, Field(in, r, a, n, b))
<1>1. /\ s.pos = p /\ s.rowStart = r /\ s.fieldStart = a /\ s.fieldLength = n
      /\ s.doubled = b /\ s.fields = f /\ s.rows = R /\ s.dfa = d
  BY StMembers
<1>2. PushField(in, s) =
        [[[[s EXCEPT !.fields = g] EXCEPT !.doubled = No] EXCEPT !.fieldStart = Unset] EXCEPT !.fieldLength = 0]
  <2> HIDE DEF s
  <2>1. FieldBytes(in, s) = Raw(in, r, a, n)
    BY <1>1, Zenon DEF FieldBytes, Raw
  <2>2. (IF s.doubled THEN Undouble(FieldBytes(in, s)) ELSE FieldBytes(in, s)) = Field(in, r, a, n, b)
    BY <1>1, <2>1, Zenon DEF Field
  <2>3. PushField(in, s) = [s EXCEPT !.fields = Append(s.fields, IF s.doubled THEN Undouble(FieldBytes(in, s)) ELSE FieldBytes(in, s)),
                              !.doubled = FALSE, !.fieldStart = Unset, !.fieldLength = 0]
    BY Zenon DEF PushField
  <2>4. PushField(in, s) = [s EXCEPT !.fields = g, !.doubled = No, !.fieldStart = Unset, !.fieldLength = 0]
    BY <1>1, <2>2, <2>3, Zenon DEF No
  <2> HIDE DEF g
  <2> QED BY <2>4
<1>3. [s EXCEPT !.fields = g] = St(p, r, a, n, b, g, R, d)
  BY DEF St
<1>4. [St(p, r, a, n, b, g, R, d) EXCEPT !.doubled = No] = St(p, r, a, n, No, g, R, d)
  BY DEF St
<1>5. [St(p, r, a, n, No, g, R, d) EXCEPT !.fieldStart = Unset] = St(p, r, Unset, n, No, g, R, d)
  BY DEF St
<1>6. [St(p, r, Unset, n, No, g, R, d) EXCEPT !.fieldLength = 0] = St(p, r, Unset, 0, No, g, R, d)
  BY DEF St
<1> HIDE DEF s, g
<1> QED BY <1>2, <1>3, <1>4, <1>5, <1>6 DEF s, g

Row(f, r, e) == [fields |-> f, start |-> r, end |-> e]
HasField(a, n, f) == n > 0 \/ a # Unset \/ f # <<>>
RowFields(in, r, a, n, b, f) == IF HasField(a, n, f) THEN Append(f, Field(in, r, a, n, b)) ELSE f

LEMMA FinishRowIs ==
    ASSUME NEW in, NEW p, NEW r, NEW a, NEW n \in Nat, NEW b, NEW f, NEW R, NEW d, NEW e,
           b = No \/ n > 0
    PROVE  FinishRow(in, St(p, r, a, n, b, f, R, d), e) =
               St(p, p, Unset, 0, No, <<>>, Append(R, Row(RowFields(in, r, a, n, b, f), r, e)), d)
<1> DEFINE s == St(p, r, a, n, b, f, R, d)
           h == RowFields(in, r, a, n, b, f)
           u == St(p, r, Unset, 0, No, h, R, d)
           row == Row(h, r, e)
<1>1. /\ s.pos = p /\ s.rowStart = r /\ s.fieldStart = a /\ s.fieldLength = n
      /\ s.doubled = b /\ s.fields = f /\ s.rows = R /\ s.dfa = d
  BY StMembers
<1>2. (IF s.fieldLength > 0 \/ s.fieldStart # Unset \/ s.fields # <<>> THEN PushField(in, s) ELSE s) = u
  <2>1. CASE HasField(a, n, f)
    <3>1. h = Append(f, Field(in, r, a, n, b))
      BY <2>1, Zenon DEF RowFields
    <3>2. PushField(in, s) = u
      BY <3>1, PushFieldIs
    <3> HIDE DEF s, u
    <3> QED BY <2>1, <3>2, <1>1, Zenon DEF HasField
  <2>2. CASE ~HasField(a, n, f)
    <3>1. h = f
      BY <2>2, Zenon DEF RowFields
    <3>2. a = Unset /\ f = <<>> /\ ~(n > 0)
      BY <2>2, Zenon DEF HasField
    <3>3. n = 0 /\ b = No
      BY <3>2
    <3>4. s = u
      BY <3>1, <3>2, <3>3, Zenon
    <3> HIDE DEF s, u
    <3> QED BY <2>2, <3>4, <1>1, Zenon DEF HasField
  <2> QED BY <2>1, <2>2
<1>3. /\ u.pos = p /\ u.rowStart = r /\ u.fields = h /\ u.rows = R
  BY StMembers
<1>4. PushRow(u, e) = [u EXCEPT !.rows = Append(R, row)]
  <2> HIDE DEF u, h
  <2> QED BY <1>3, Zenon DEF PushRow, Row
<1> DEFINE X == Append(R, row)
<1>5. [u EXCEPT !.rows = X] = St(p, r, Unset, 0, No, h, X, d)
  <2> HIDE DEF X, h
  <2> QED BY DEF St
<1> DEFINE t == PushRow(u, e)
<1>6. FinishRow(in, s, e) = [t EXCEPT !.fields = <<>>, !.rowStart = p]
  <2> HIDE DEF s, u
  <2> QED BY <1>1, <1>2, Zenon DEF FinishRow
<1>7. [t EXCEPT !.fields = <<>>, !.rowStart = p] = [[t EXCEPT !.fields = <<>>] EXCEPT !.rowStart = p]
  <2> HIDE DEF t
  <2> QED OBVIOUS
<1>8. t = St(p, r, Unset, 0, No, h, Append(R, row), d)
  BY <1>4, <1>5
<1>9. [St(p, r, Unset, 0, No, h, X, d) EXCEPT !.fields = <<>>] = St(p, r, Unset, 0, No, <<>>, X, d)
  <2> HIDE DEF X, h
  <2> QED BY DEF St
<1>10. [St(p, r, Unset, 0, No, <<>>, X, d) EXCEPT !.rowStart = p] = St(p, p, Unset, 0, No, <<>>, X, d)
  <2> HIDE DEF X
  <2> QED BY DEF St
<1> HIDE DEF s, t, h
<1>11. FinishRow(in, s, e) = St(p, p, Unset, 0, No, <<>>, Append(R, row), d)
  BY <1>6, <1>7, <1>8, <1>9, <1>10
<1> QED BY <1>11 DEF s, h

-----------------------------------------------------------------------------
(* The cases of the switch, member by member. *)
LEMMA AtDelimiterIs ==
    ASSUME NEW in, NEW p, NEW r, NEW a, NEW n, NEW b, NEW f, NEW R, NEW d
    PROVE  AtDelimiter(in, St(p, r, a, n, b, f, R, d)) =
               St(p + 1, r, Unset, 0, No, Append(f, Field(in, r, a, n, b)), R, d)
<1> DEFINE s == St(p, r, a, n, b, f, R, d)
           g == Append(f, Field(in, r, a, n, b))
           t == St(p, r, Unset, 0, No, g, R, d)
<1>1. PushField(in, s) = t
  BY PushFieldIs
<1>2. t.pos = p
  BY StMembers
<1>3. [t EXCEPT !.pos = p + 1] = St(p + 1, r, Unset, 0, No, g, R, d)
  <2> HIDE DEF g
  <2> QED BY DEF St
<1>4. AtDelimiter(in, s) = [PushField(in, s) EXCEPT !.pos = PushField(in, s).pos + 1]
  BY Zenon DEF AtDelimiter
<1>5. AtDelimiter(in, s) = [t EXCEPT !.pos = p + 1]
  <2> HIDE DEF s, t
  <2> QED BY <1>1, <1>2, <1>4, Zenon
<1> QED BY <1>3, <1>5

LEMMA AtNewlineIs ==
    ASSUME NEW in, NEW p, NEW r, NEW a, NEW n \in Nat, NEW b, NEW f, NEW R, NEW d,
           b = No \/ n > 0
    PROVE  AtNewline(in, St(p, r, a, n, b, f, R, d)) =
               St(p + 1, p + 1, Unset, 0, No, <<>>, Append(R, Row(RowFields(in, r, a, n, b, f), r, p)), d)
<1> DEFINE s == St(p, r, a, n, b, f, R, d)
           t == St(p + 1, r, a, n, b, f, R, d)
<1>1. s.pos = p
  BY StMembers
<1>2. [s EXCEPT !.pos = p + 1] = t
  BY DEF St
<1>3. AtNewline(in, s) = FinishRow(in, t, p)
  <2> HIDE DEF s, t
  <2>1. AtNewline(in, s) = FinishRow(in, [s EXCEPT !.pos = s.pos + 1], s.pos)
    BY Zenon DEF AtNewline
  <2> QED BY <1>1, <1>2, <2>1, Zenon
<1> QED BY <1>3, FinishRowIs

LEMMA AtCarriageReturnIs ==
    ASSUME NEW in, NEW p, NEW r, NEW a, NEW n \in Nat, NEW b, NEW f, NEW R, NEW q, NEW k, NEW l \in {Yes, No},
           b = No \/ n > 0
    PROVE  LET next == Flag(in, p + 1)
               x == IF next = "lf" THEN 2 ELSE 1
           IN  AtCarriageReturn(in, St(p, r, a, n, b, f, R, Dfa(q, k, l))) =
                 St(p + x, p + x, Unset, 0, No, <<>>, Append(R, Row(RowFields(in, r, a, n, b, f), r, p)),
                    Dfa(q, k, IF next = "end" THEN Yes ELSE l))
<1> DEFINE d == Dfa(q, k, l)
           s == St(p, r, a, n, b, f, R, d)
           next == Flag(in, p + 1)
           x == IF next = "lf" THEN 2 ELSE 1
           e == Dfa(q, k, IF next = "end" THEN Yes ELSE l)
           t == St(p + x, r, a, n, b, f, R, e)
<1>1. s.pos = p /\ s.dfa = d
  BY StMembers
<1>2. d.pendingLinefeed = l
  BY DfaMembers
<1>3. [d EXCEPT !.pendingLinefeed = IF next = "end" THEN Yes ELSE l] = e
  <2> DEFINE y == IF next = "end" THEN Yes ELSE l
  <2> HIDE DEF y
  <2> QED BY DEF Dfa
<1>4. (l \/ next = "end") = (IF next = "end" THEN Yes ELSE l)
  BY Zenon DEF Yes, No
<1>5. [s EXCEPT !.pos = p + x, !.dfa = e] = t
  <2>1. [s EXCEPT !.pos = p + x, !.dfa = e] = [[s EXCEPT !.pos = p + x] EXCEPT !.dfa = e]
    <3> HIDE DEF s, e, x
    <3> QED OBVIOUS
  <2>2. [s EXCEPT !.pos = p + x] = St(p + x, r, a, n, b, f, R, d)
    <3> HIDE DEF d, x
    <3> QED BY DEF St
  <2>3. [St(p + x, r, a, n, b, f, R, d) EXCEPT !.dfa = e] = t
    <3> HIDE DEF d, x, e
    <3> QED BY DEF St
  <2> HIDE DEF s, t, d, e, x
  <2> QED BY <2>1, <2>2, <2>3
<1>6. AtCarriageReturn(in, s) = FinishRow(in, t, p)
  <2> HIDE DEF s, d
  <2>1. AtCarriageReturn(in, s) =
          FinishRow(in, [s EXCEPT !.pos = s.pos + (IF Flag(in, s.pos + 1) = "lf" THEN 2 ELSE 1),
             !.dfa = [s.dfa EXCEPT !.pendingLinefeed = s.dfa.pendingLinefeed \/ Flag(in, s.pos + 1) = "end"]], s.pos)
    BY Zenon DEF AtCarriageReturn
  <2>2. [s.dfa EXCEPT !.pendingLinefeed = s.dfa.pendingLinefeed \/ Flag(in, s.pos + 1) = "end"] = e
    <3>1. (s.dfa.pendingLinefeed \/ Flag(in, s.pos + 1) = "end") = (IF next = "end" THEN Yes ELSE l)
      BY <1>1, <1>2, <1>4, Zenon
    <3> QED BY <3>1, <1>1, <1>3, Zenon
  <2>3. [s EXCEPT !.pos = s.pos + (IF Flag(in, s.pos + 1) = "lf" THEN 2 ELSE 1),
             !.dfa = [s.dfa EXCEPT !.pendingLinefeed = s.dfa.pendingLinefeed \/ Flag(in, s.pos + 1) = "end"]] = t
    <3> HIDE DEF t, e
    <3> QED BY <2>2, <1>1, <1>5, Zenon
  <2> HIDE DEF t
  <2> QED BY <2>1, <2>3, <1>1, Zenon
<1> HIDE DEF e, x
<1>7. FinishRow(in, t, p) = St(p + x, p + x, Unset, 0, No, <<>>, Append(R, Row(RowFields(in, r, a, n, b, f), r, p)), e)
  BY FinishRowIs
<1> HIDE DEF t
<1> QED BY <1>6, <1>7 DEF e, x

LEMMA AtContentIs ==
    ASSUME NEW in, NEW p, NEW r, NEW a, NEW n, NEW b, NEW f, NEW R, NEW q, NEW k, NEW l
    PROVE  LET start == IF a = Unset THEN p - r ELSE a
               end == RunEnd(in, p, q)
           IN  AtContent(in, St(p, r, a, n, b, f, R, Dfa(q, k, l))) =
                 St(end, r, start, end - (start + r), b, f, R, Dfa(q, k, l))
<1> DEFINE d == Dfa(q, k, l)
           s == St(p, r, a, n, b, f, R, d)
           start == IF a = Unset THEN p - r ELSE a
           end == RunEnd(in, p, q)
           m == end - (start + r)
<1>1. s.pos = p /\ s.rowStart = r /\ s.fieldStart = a /\ s.dfa = d
  BY StMembers
<1>2. d.quoted = q
  BY DfaMembers
<1>3. AtContent(in, s) = [s EXCEPT !.fieldStart = start, !.pos = end, !.fieldLength = m]
  <2> HIDE DEF s, d
  <2>1. RunEnd(in, s.pos, s.dfa.quoted) = end
    BY <1>1, <1>2, Zenon
  <2>2. (IF s.fieldStart = Unset THEN s.pos - s.rowStart ELSE s.fieldStart) = start
    BY <1>1, Zenon
  <2> HIDE DEF start, end
  <2>3. AtContent(in, s) = [s EXCEPT !.fieldStart = start, !.pos = end, !.fieldLength = end - (start + s.rowStart)]
    BY <2>1, <2>2, Zenon DEF AtContent
  <2> QED BY <1>1, <2>3, Zenon
<1> HIDE DEF start, end, m, d
<1>4. [s EXCEPT !.fieldStart = start] = St(p, r, start, n, b, f, R, d)
  BY DEF St
<1>5. [St(p, r, start, n, b, f, R, d) EXCEPT !.pos = end] = St(end, r, start, n, b, f, R, d)
  BY DEF St
<1>6. [St(end, r, start, n, b, f, R, d) EXCEPT !.fieldLength = m] = St(end, r, start, m, b, f, R, d)
  BY DEF St
<1> HIDE DEF s
<1>7. [s EXCEPT !.fieldStart = start, !.pos = end, !.fieldLength = m] =
       [[[s EXCEPT !.fieldStart = start] EXCEPT !.pos = end] EXCEPT !.fieldLength = m]
  OBVIOUS
<1>8. AtContent(in, s) = St(end, r, start, m, b, f, R, d)
  BY <1>3, <1>4, <1>5, <1>6, <1>7
<1> QED BY <1>8 DEF s, start, end, m, d

LEMMA AtQuoteInQuotesIs ==
    ASSUME NEW in, NEW p, NEW r, NEW a, NEW n, NEW b, NEW f, NEW R, NEW q, NEW k, NEW l
    PROVE  LET next == Flag(in, p + 1)
               t == AtQuoteInQuotes(in, St(p, r, a, n, b, f, R, Dfa(q, k, l)))
           IN  /\ next = "end" => t = St(p, r, a, n, b, f, R, Dfa(q, Yes, l))
               /\ next \in Separators => t = St(p + 1, r, a, n, b, f, R, Dfa(No, k, l))
               /\ next = "quote" => t = St(p + 2, r, a, n + 2, Yes, f, R, Dfa(q, k, l))
               /\ next \notin Separators /\ next # "end" /\ next # "quote" =>
                    t = St(p + 1, r, a, n + 1, b, f, R, Dfa(q, k, l))
<1> DEFINE d == Dfa(q, k, l)
           s == St(p, r, a, n, b, f, R, d)
           next == Flag(in, p + 1)
           t == AtQuoteInQuotes(in, s)
<1>1. s.pos = p /\ s.fieldLength = n /\ s.dfa = d
  BY StMembers
<1>2. t = CASE next = "end" -> [s EXCEPT !.dfa = [d EXCEPT !.pendingQuote = Yes]]
          [] next \in Separators -> [s EXCEPT !.dfa = [d EXCEPT !.quoted = No], !.pos = p + 1]
          [] next = "quote" -> [s EXCEPT !.pos = p + 2, !.fieldLength = n + 2, !.doubled = Yes]
          [] OTHER -> [s EXCEPT !.pos = p + 1, !.fieldLength = n + 1]
  <2> HIDE DEF s, d
  <2> QED BY <1>1, Zenon DEF AtQuoteInQuotes, Yes, No
<1>3. next = "end" => next \notin Separators /\ next # "quote"
  BY DEF Separators
<1>4. next = "quote" => next \notin Separators
  BY DEF Separators
<1> HIDE DEF next, t
<1>5. ASSUME next = "end" PROVE t = St(p, r, a, n, b, f, R, Dfa(q, Yes, l))
  <2>1. t = [s EXCEPT !.dfa = [d EXCEPT !.pendingQuote = Yes]]
    <3> HIDE DEF s, d
    <3> QED BY <1>2, <1>3, <1>5, Zenon
  <2>2. [d EXCEPT !.pendingQuote = Yes] = Dfa(q, Yes, l)
    BY DEF Dfa
  <2> DEFINE e == Dfa(q, Yes, l)
  <2>3. [s EXCEPT !.dfa = e] = St(p, r, a, n, b, f, R, e)
    <3> HIDE DEF d, e
    <3> QED BY DEF St
  <2> HIDE DEF s, d
  <2> QED BY <2>1, <2>2, <2>3
<1>6. ASSUME next \in Separators PROVE t = St(p + 1, r, a, n, b, f, R, Dfa(No, k, l))
  <2>1. t = [s EXCEPT !.dfa = [d EXCEPT !.quoted = No], !.pos = p + 1]
    <3> HIDE DEF s, d
    <3> QED BY <1>2, <1>3, <1>4, <1>6, Zenon
  <2>2. [d EXCEPT !.quoted = No] = Dfa(No, k, l)
    BY DEF Dfa
  <2> DEFINE e == Dfa(No, k, l)
  <2>3. [s EXCEPT !.dfa = e] = St(p, r, a, n, b, f, R, e)
    <3> HIDE DEF d, e
    <3> QED BY DEF St
  <2>4. [St(p, r, a, n, b, f, R, e) EXCEPT !.pos = p + 1] = St(p + 1, r, a, n, b, f, R, e)
    <3> HIDE DEF e
    <3> QED BY DEF St
  <2> HIDE DEF s, d, e
  <2>5. [s EXCEPT !.dfa = e, !.pos = p + 1] = [[s EXCEPT !.dfa = e] EXCEPT !.pos = p + 1]
    OBVIOUS
  <2> QED BY <2>1, <2>2, <2>3, <2>4, <2>5 DEF e
<1>7. ASSUME next = "quote" PROVE t = St(p + 2, r, a, n + 2, Yes, f, R, d)
  <2>1. t = [s EXCEPT !.pos = p + 2, !.fieldLength = n + 2, !.doubled = Yes]
    <3> HIDE DEF s, d
    <3> QED BY <1>2, <1>3, <1>4, <1>7, Zenon
  <2> HIDE DEF d
  <2>2. [s EXCEPT !.pos = p + 2] = St(p + 2, r, a, n, b, f, R, d)
    BY DEF St
  <2>3. [St(p + 2, r, a, n, b, f, R, d) EXCEPT !.fieldLength = n + 2] = St(p + 2, r, a, n + 2, b, f, R, d)
    BY DEF St
  <2>4. [St(p + 2, r, a, n + 2, b, f, R, d) EXCEPT !.doubled = Yes] = St(p + 2, r, a, n + 2, Yes, f, R, d)
    BY DEF St
  <2> HIDE DEF s
  <2>5. [s EXCEPT !.pos = p + 2, !.fieldLength = n + 2, !.doubled = Yes] =
          [[[s EXCEPT !.pos = p + 2] EXCEPT !.fieldLength = n + 2] EXCEPT !.doubled = Yes]
    OBVIOUS
  <2> QED BY <2>1, <2>2, <2>3, <2>4, <2>5
<1>8. ASSUME next \notin Separators, next # "end", next # "quote"
      PROVE  t = St(p + 1, r, a, n + 1, b, f, R, d)
  <2>1. t = [s EXCEPT !.pos = p + 1, !.fieldLength = n + 1]
    <3> HIDE DEF s, d
    <3> QED BY <1>2, <1>8, Zenon
  <2> HIDE DEF d
  <2>2. [s EXCEPT !.pos = p + 1] = St(p + 1, r, a, n, b, f, R, d)
    BY DEF St
  <2>3. [St(p + 1, r, a, n, b, f, R, d) EXCEPT !.fieldLength = n + 1] = St(p + 1, r, a, n + 1, b, f, R, d)
    BY DEF St
  <2> HIDE DEF s
  <2>4. [s EXCEPT !.pos = p + 1, !.fieldLength = n + 1] = [[s EXCEPT !.pos = p + 1] EXCEPT !.fieldLength = n + 1]
    OBVIOUS
  <2> QED BY <2>1, <2>2, <2>3, <2>4
<1> HIDE DEF s, d
<1>9. /\ next = "end" => t = St(p, r, a, n, b, f, R, Dfa(q, Yes, l))
      /\ next \in Separators => t = St(p + 1, r, a, n, b, f, R, Dfa(No, k, l))
      /\ next = "quote" => t = St(p + 2, r, a, n + 2, Yes, f, R, d)
      /\ next \notin Separators /\ next # "end" /\ next # "quote" =>
           t = St(p + 1, r, a, n + 1, b, f, R, d)
  BY <1>5, <1>6, <1>7, <1>8, Zenon
<1> QED BY <1>9, Zenon DEF next, t, s, d

LEMMA AtQuoteIs ==
    ASSUME NEW in, NEW p, NEW r, NEW a, NEW n, NEW b, NEW f, NEW R, NEW q, NEW k, NEW l
    PROVE  LET t == AtQuote(in, St(p, r, a, n, b, f, R, Dfa(q, k, l)))
           IN  /\ n > 0 => t = St(p + 1, r, a, n + 1, b, f, R, Dfa(q, k, l))
               /\ ~(n > 0) => t = St(p + 1, r, IF a = Unset /\ p + 1 < Len(in) THEN p + 1 - r ELSE a,
                                     n, b, f, R, Dfa(Yes, k, l))
<1> DEFINE d == Dfa(q, k, l)
           s == St(p, r, a, n, b, f, R, d)
           t == AtQuote(in, s)
           c == IF a = Unset /\ p + 1 < Len(in) THEN p + 1 - r ELSE a
           e == Dfa(Yes, k, l)
<1>1. s.pos = p /\ s.rowStart = r /\ s.fieldStart = a /\ s.fieldLength = n /\ s.dfa = d
  BY StMembers
<1>2. t = IF n > 0 THEN [s EXCEPT !.pos = p + 1, !.fieldLength = n + 1]
          ELSE [s EXCEPT !.dfa = [d EXCEPT !.quoted = Yes], !.pos = p + 1, !.fieldStart = c]
  <2> HIDE DEF s, d
  <2> QED BY <1>1, Zenon DEF AtQuote, Yes
<1>3. [d EXCEPT !.quoted = Yes] = e
  BY DEF Dfa
<1> HIDE DEF d, e, c
<1>4. [s EXCEPT !.pos = p + 1] = St(p + 1, r, a, n, b, f, R, d)
  BY DEF St
<1>5. [St(p + 1, r, a, n, b, f, R, d) EXCEPT !.fieldLength = n + 1] = St(p + 1, r, a, n + 1, b, f, R, d)
  BY DEF St
<1>6. [s EXCEPT !.dfa = e] = St(p, r, a, n, b, f, R, e)
  BY DEF St
<1>7. [St(p, r, a, n, b, f, R, e) EXCEPT !.pos = p + 1] = St(p + 1, r, a, n, b, f, R, e)
  BY DEF St
<1>8. [St(p + 1, r, a, n, b, f, R, e) EXCEPT !.fieldStart = c] = St(p + 1, r, c, n, b, f, R, e)
  BY DEF St
<1> HIDE DEF s
<1>9. [s EXCEPT !.pos = p + 1, !.fieldLength = n + 1] = [[s EXCEPT !.pos = p + 1] EXCEPT !.fieldLength = n + 1]
  OBVIOUS
<1>10. [s EXCEPT !.dfa = e, !.pos = p + 1, !.fieldStart = c] =
         [[[s EXCEPT !.dfa = e] EXCEPT !.pos = p + 1] EXCEPT !.fieldStart = c]
  OBVIOUS
<1>11. [s EXCEPT !.pos = p + 1, !.fieldLength = n + 1] = St(p + 1, r, a, n + 1, b, f, R, d)
  BY <1>4, <1>5, <1>9
<1>12. [s EXCEPT !.dfa = e, !.pos = p + 1, !.fieldStart = c] = St(p + 1, r, c, n, b, f, R, e)
  BY <1>6, <1>7, <1>8, <1>10
<1>13. /\ n > 0 => t = St(p + 1, r, a, n + 1, b, f, R, d)
       /\ ~(n > 0) => t = St(p + 1, r, c, n, b, f, R, e)
  <2> HIDE DEF t
  <2> QED BY <1>2, <1>3, <1>11, <1>12, Zenon
<1> QED BY <1>13, Zenon DEF s, d, e, c

(* The switch itself. *)
LEMMA StepIs ==
    ASSUME NEW in, NEW p, NEW r, NEW a, NEW n, NEW b, NEW f, NEW R, NEW q, NEW k, NEW l
    PROVE  LET s == St(p, r, a, n, b, f, R, Dfa(q, k, l))
               flag == Flag(in, p)
           IN  /\ flag = "quote" /\ q => Step(in, s) = AtQuoteInQuotes(in, s)
               /\ flag = "quote" /\ ~q => Step(in, s) = AtQuote(in, s)
               /\ flag = "delim" /\ ~q => Step(in, s) = AtDelimiter(in, s)
               /\ flag = "cr" /\ ~q => Step(in, s) = AtCarriageReturn(in, s)
               /\ flag = "lf" /\ ~q => Step(in, s) = AtNewline(in, s)
               /\ flag # "quote" /\ (q \/ flag \notin Separators) => Step(in, s) = AtContent(in, s)
<1> DEFINE d == Dfa(q, k, l)
           s == St(p, r, a, n, b, f, R, d)
           flag == Flag(in, p)
<1>1. s.pos = p /\ s.dfa = d
  BY StMembers
<1>2. d.quoted = q
  BY DfaMembers
<1>3. s.dfa.quoted = q
  BY <1>1, <1>2
<1> HIDE DEF s, d
<1>4. /\ "quote" # "delim" /\ "quote" # "cr" /\ "quote" # "lf" /\ "delim" # "cr" /\ "delim" # "lf" /\ "cr" # "lf"
      /\ \A x : x \in Separators <=> x = "delim" \/ x = "cr" \/ x = "lf"
  BY DEF Separators
<1>5. Step(in, s) =
        CASE flag = "quote" /\ q  -> AtQuoteInQuotes(in, s)
          [] flag = "quote" /\ ~q -> AtQuote(in, s)
          [] flag = "delim" /\ ~q -> AtDelimiter(in, s)
          [] flag = "cr" /\ ~q    -> AtCarriageReturn(in, s)
          [] flag = "lf" /\ ~q    -> AtNewline(in, s)
          [] OTHER                -> AtContent(in, s)
  BY <1>1, <1>3, Zenon DEF Step
<1> HIDE DEF flag
<1>6. /\ flag = "quote" /\ q => Step(in, s) = AtQuoteInQuotes(in, s)
      /\ flag = "quote" /\ ~q => Step(in, s) = AtQuote(in, s)
      /\ flag = "delim" /\ ~q => Step(in, s) = AtDelimiter(in, s)
      /\ flag = "cr" /\ ~q => Step(in, s) = AtCarriageReturn(in, s)
      /\ flag = "lf" /\ ~q => Step(in, s) = AtNewline(in, s)
      /\ flag # "quote" /\ (q \/ flag \notin Separators) => Step(in, s) = AtContent(in, s)
  BY <1>4, <1>5, Zenon
<1> QED BY <1>6, Zenon DEF s, d, flag

Sym == Byte \cup {"bom"}
LEMMA YesIsNotNo == Yes # No
BY Zenon DEF Yes, No

LEMMA TruthValues == Yes /\ ~No /\ Yes # No
BY Zenon DEF Yes, No

LEMMA RunEndIs ==
    ASSUME NEW in, Len(in) \in Nat, NEW i \in 0..Len(in), NEW q
    PROVE  LET e == RunEnd(in, i, q)
           IN  /\ e \in i..Len(in)
               /\ ~IsContent(in, e, q)
               /\ \A k \in i..(e - 1) : IsContent(in, k, q)
<1> DEFINE T == {j \in i..Len(in) : ~IsContent(in, j, q)}
<1>1. ~IsContent(in, Len(in), q)
  <2>1. ~(Len(in) < Len(in))
    OBVIOUS
  <2> QED BY <2>1, Zenon DEF IsContent
<1>2. Len(in) \in T /\ T \subseteq Nat
  BY <1>1
<1>3. PICK m \in T : \A k \in T : m <= k
  BY <1>2, LeastNumber
<1>4. m \in i..Len(in) /\ ~IsContent(in, m, q) /\ m \in Nat
  BY <1>3
<1>5. ASSUME NEW k \in i..(m - 1) PROVE IsContent(in, k, q)
  <2>1. k \in i..Len(in) /\ ~(m <= k)
    BY <1>4
  <2> QED BY <2>1, <1>3
<1>6. \E j \in i..Len(in) : ~IsContent(in, j, q) /\ \A k \in i..(j - 1) : IsContent(in, k, q)
  <2> HIDE DEF T
  <2> QED BY <1>4, <1>5
<1> QED BY <1>6, Zenon DEF RunEnd

LEMMA RunEndIsFirst ==
    ASSUME NEW in, Len(in) \in Nat, NEW i \in 0..Len(in), NEW q,
           NEW e \in i..Len(in), ~IsContent(in, e, q), \A k \in i..(e - 1) : IsContent(in, k, q)
    PROVE  RunEnd(in, i, q) = e
<1> DEFINE c == RunEnd(in, i, q)
<1>1. c \in i..Len(in) /\ ~IsContent(in, c, q) /\ \A k \in i..(c - 1) : IsContent(in, k, q)
  BY RunEndIs
<1> HIDE DEF c
<1>2. ~(c < e) /\ ~(e < c)
  BY <1>1
<1>3. c = e
  BY <1>1, <1>2
<1> QED BY <1>3 DEF c

-----------------------------------------------------------------------------
(* The rows lie before p. *)
RowsBefore(R, p) ==
    \A i \in 1..Len(R) :
        /\ R[i].start \in Nat /\ R[i].end \in Nat
        /\ R[i].start <= R[i].end /\ R[i].end < p

(* What holds of the parser in any chunk, whatever state it starts in. *)
Good(in, s) ==
    /\ IsState(s) /\ IsDfa(s.dfa)
    /\ s.dfa.pendingLinefeed \in {Yes, No}
    /\ s.pos \in 0..Len(in)
    /\ s.rowStart \in 0..s.pos
    /\ s.fieldStart # Unset => s.fieldStart \in Nat /\ s.rowStart + s.fieldStart <= s.pos
    /\ s.fieldLength \in Nat
    /\ s.doubled \in {Yes, No}
    /\ s.doubled = Yes => s.fieldLength > 0
    /\ IsSeq(s.rows) /\ IsSeq(s.fields)
    /\ s.rows # <<>> => s.rowStart > 0
    /\ RowsBefore(s.rows, s.rowStart)

(* The turns the loop takes. *)
TheField(in, s) == Field(in, s.rowStart, s.fieldStart, s.fieldLength, s.doubled)
TheRow(in, s) == Row(RowFields(in, s.rowStart, s.fieldStart, s.fieldLength, s.doubled, s.fields), s.rowStart, s.pos)
DelimTurn(in, s, t) ==
    /\ Flag(in, s.pos) = "delim" /\ ~s.dfa.quoted
    /\ t = St(s.pos + 1, s.rowStart, Unset, 0, No, Append(s.fields, TheField(in, s)), s.rows, s.dfa)
RowEnds(in, s, x, l) ==
    \/ Flag(in, s.pos) = "lf" /\ x = 1 /\ l = s.dfa.pendingLinefeed
    \/ Flag(in, s.pos) = "cr" /\ Flag(in, s.pos + 1) = "lf" /\ x = 2 /\ l = s.dfa.pendingLinefeed
    \/ Flag(in, s.pos) = "cr" /\ Flag(in, s.pos + 1) = "end" /\ x = 1 /\ l = Yes
    \/ Flag(in, s.pos) = "cr" /\ Flag(in, s.pos + 1) \notin {"lf", "end"} /\ x = 1 /\ l = s.dfa.pendingLinefeed
RowTurn(in, s, t) ==
    /\ ~s.dfa.quoted
    /\ \E x \in {1, 2}, l \in {Yes, No} :
          /\ RowEnds(in, s, x, l)
          /\ t = St(s.pos + x, s.pos + x, Unset, 0, No, <<>>, Append(s.rows, TheRow(in, s)),
                    Dfa(s.dfa.quoted, s.dfa.pendingQuote, l))
Start(s) == IF s.fieldStart = Unset THEN s.pos - s.rowStart ELSE s.fieldStart
ContentTurn(in, s, t) ==
    /\ IsContent(in, s.pos, s.dfa.quoted)
    /\ LET end == RunEnd(in, s.pos, s.dfa.quoted)
       IN  t = St(end, s.rowStart, Start(s), end - (Start(s) + s.rowStart), s.doubled, s.fields, s.rows, s.dfa)
PendingTurn(in, s, t) ==
    /\ Flag(in, s.pos) = "quote" /\ s.dfa.quoted /\ Flag(in, s.pos + 1) = "end"
    /\ t = St(s.pos, s.rowStart, s.fieldStart, s.fieldLength, s.doubled, s.fields, s.rows,
              Dfa(s.dfa.quoted, Yes, s.dfa.pendingLinefeed))
CloseTurn(in, s, t) ==
    /\ Flag(in, s.pos) = "quote" /\ s.dfa.quoted /\ Flag(in, s.pos + 1) \in Separators
    /\ t = St(s.pos + 1, s.rowStart, s.fieldStart, s.fieldLength, s.doubled, s.fields, s.rows,
              Dfa(No, s.dfa.pendingQuote, s.dfa.pendingLinefeed))
DoubleTurn(in, s, t) ==
    /\ Flag(in, s.pos) = "quote" /\ s.dfa.quoted /\ Flag(in, s.pos + 1) = "quote"
    /\ t = St(s.pos + 2, s.rowStart, s.fieldStart, s.fieldLength + 2, Yes, s.fields, s.rows, s.dfa)
CountTurn(in, s, t) ==
    /\ Flag(in, s.pos) = "quote"
    /\ \/ s.dfa.quoted /\ Flag(in, s.pos + 1) \notin Separators \cup {"end", "quote"}
       \/ ~s.dfa.quoted /\ s.fieldLength > 0
    /\ t = St(s.pos + 1, s.rowStart, s.fieldStart, s.fieldLength + 1, s.doubled, s.fields, s.rows, s.dfa)
OpenTurn(in, s, t) ==
    /\ Flag(in, s.pos) = "quote" /\ ~s.dfa.quoted /\ s.fieldLength = 0
    /\ t = St(s.pos + 1, s.rowStart,
              IF s.fieldStart = Unset /\ s.pos + 1 < Len(in) THEN s.pos + 1 - s.rowStart ELSE s.fieldStart,
              0, s.doubled, s.fields, s.rows, Dfa(Yes, s.dfa.pendingQuote, s.dfa.pendingLinefeed))

LEMMA FlagIs ==
    ASSUME NEW in \in Seq(Sym), NEW i \in Nat
    PROVE  /\ i < Len(in) => Flag(in, i) = in[i + 1] /\ in[i + 1] \in Sym /\ Flag(in, i) # "end"
           /\ ~(i < Len(in)) => Flag(in, i) = "end"
<1>1. i < Len(in) => in[i + 1] \in Sym
  BY ElementOfSeq
<1>2. "end" \notin Sym
  BY DEF Sym, Byte, Separators
<1> QED BY <1>1, <1>2, Zenon DEF Flag

LEMMA SymKinds ==
    /\ \A x : x \in Separators <=> x = "delim" \/ x = "cr" \/ x = "lf"
    /\ \A x : x \in Sym <=> x \in Separators \/ x = "quote" \/ x = "other" \/ x = "bom"
BY DEF Sym, Byte, Separators

LEMMA NotContent ==
    ASSUME NEW in \in Seq(Sym), NEW i \in Nat, i < Len(in), NEW q
    PROVE  IsContent(in, i, q) <=> Flag(in, i) # "quote" /\ (q \/ Flag(in, i) \notin Separators)
<1>1. Flag(in, i) = in[i + 1] /\ in[i + 1] \in Sym
  BY FlagIs
<1>2. in[i + 1] \in {"other", "bom"} <=> in[i + 1] # "quote" /\ in[i + 1] \notin Separators
  BY <1>1, SymKinds
<1> QED BY <1>1, <1>2, Zenon DEF IsContent

LEMMA StepCases ==
    ASSUME NEW in \in Seq(Sym), NEW s, Good(in, s), ~Stopped(in, s)
    PROVE  LET t == Step(in, s)
           IN  \/ DelimTurn(in, s, t) \/ RowTurn(in, s, t) \/ ContentTurn(in, s, t)
               \/ PendingTurn(in, s, t) \/ CloseTurn(in, s, t) \/ DoubleTurn(in, s, t)
               \/ CountTurn(in, s, t) \/ OpenTurn(in, s, t)
<1> DEFINE p == s.pos  r == s.rowStart  a == s.fieldStart  n == s.fieldLength  b == s.doubled
           f == s.fields  R == s.rows  q == s.dfa.quoted  k == s.dfa.pendingQuote
           l == s.dfa.pendingLinefeed
           S == St(p, r, a, n, b, f, R, Dfa(q, k, l))
           flag == Flag(in, p)
           next == Flag(in, p + 1)
           t == Step(in, s)
<1>1. s = S /\ s.dfa = Dfa(q, k, l)
  <2>1. s.dfa = Dfa(q, k, l)
    BY Zenon DEF Good, IsDfa
  <2>2. s = St(p, r, a, n, b, f, R, s.dfa)
    BY Zenon DEF Good, IsState
  <2> QED BY <2>1, <2>2, Zenon
<1>2. p \in Nat /\ n \in Nat /\ Len(in) \in Nat /\ p < Len(in) /\ l \in {Yes, No} /\ (b = No \/ n > 0)
  BY LenProperties DEF Good, Stopped
<1> HIDE DEF p, r, a, n, b, f, R, q, k, l
<1>3. /\ flag = "quote" /\ q => t = AtQuoteInQuotes(in, S)
      /\ flag = "quote" /\ ~q => t = AtQuote(in, S)
      /\ flag = "delim" /\ ~q => t = AtDelimiter(in, S)
      /\ flag = "cr" /\ ~q => t = AtCarriageReturn(in, S)
      /\ flag = "lf" /\ ~q => t = AtNewline(in, S)
      /\ flag # "quote" /\ (q \/ flag \notin Separators) => t = AtContent(in, S)
  <2>1. t = Step(in, S)
    BY <1>1, Zenon
  <2>2. /\ flag = "quote" /\ q => Step(in, S) = AtQuoteInQuotes(in, S)
        /\ flag = "quote" /\ ~q => Step(in, S) = AtQuote(in, S)
        /\ flag = "delim" /\ ~q => Step(in, S) = AtDelimiter(in, S)
        /\ flag = "cr" /\ ~q => Step(in, S) = AtCarriageReturn(in, S)
        /\ flag = "lf" /\ ~q => Step(in, S) = AtNewline(in, S)
        /\ flag # "quote" /\ (q \/ flag \notin Separators) => Step(in, S) = AtContent(in, S)
    BY StepIs
  <2> HIDE DEF t, S, flag
  <2> QED BY <2>1, <2>2, Zenon
<1>4. flag \in Sym
  BY <1>2, FlagIs
<1> HIDE DEF t, S
<1>5. CASE flag = "delim" /\ ~q
  <2>1. t = St(p + 1, r, Unset, 0, No, Append(f, Field(in, r, a, n, b)), R, Dfa(q, k, l))
    <3>1. AtDelimiter(in, S) = St(p + 1, r, Unset, 0, No, Append(f, Field(in, r, a, n, b)), R, Dfa(q, k, l))
      BY AtDelimiterIs DEF S
    <3> QED BY <1>3, <1>5, <3>1, Zenon
  <2>2. DelimTurn(in, s, t)
    BY <1>1, <1>5, <2>1, Zenon DEF DelimTurn, TheField, p, r, a, n, b, f, R, q, k, l
  <2> QED BY <2>2, Zenon DEF t
<1>6. CASE flag \in {"lf", "cr"} /\ ~q
  <2> DEFINE row == Append(R, Row(RowFields(in, r, a, n, b, f), r, p))
  <2>1. \E x \in {1, 2}, m \in {Yes, No} :
           RowEnds(in, s, x, m) /\ t = St(p + x, p + x, Unset, 0, No, <<>>, row, Dfa(q, k, m))
    <3>1. CASE flag = "lf"
      <4>1. t = St(p + 1, p + 1, Unset, 0, No, <<>>, row, Dfa(q, k, l))
        <5>1. AtNewline(in, St(p, r, a, n, b, f, R, Dfa(q, k, l))) =
                St(p + 1, p + 1, Unset, 0, No, <<>>, row, Dfa(q, k, l))
          BY <1>2, AtNewlineIs
        <5> HIDE DEF row
        <5> QED BY <1>3, <1>6, <3>1, <5>1, Zenon DEF S
      <4>2. RowEnds(in, s, 1, l)
        BY <3>1, Zenon DEF RowEnds, l, p
      <4> HIDE DEF row
      <4> QED BY <4>1, <4>2, <1>2
    <3>2. CASE flag = "cr"
      <4> DEFINE x == IF next = "lf" THEN 2 ELSE 1
                 m == IF next = "end" THEN Yes ELSE l
      <4>1. t = St(p + x, p + x, Unset, 0, No, <<>>, row, Dfa(q, k, m))
        <5>1. AtCarriageReturn(in, St(p, r, a, n, b, f, R, Dfa(q, k, l))) =
                St(p + x, p + x, Unset, 0, No, <<>>, row, Dfa(q, k, m))
          BY <1>2, AtCarriageReturnIs
        <5> HIDE DEF row, x, m
        <5> QED BY <1>3, <1>6, <3>2, <5>1, Zenon DEF S
      <4>2. /\ next = "lf" => next # "end"
            /\ next = "end" => next # "lf"
        OBVIOUS
      <4>3. RowEnds(in, s, x, m)
        <5>1. CASE next = "lf"
          BY <5>1, <4>2, <3>2, Zenon DEF RowEnds, l, p
        <5>2. CASE next = "end"
          BY <5>2, <4>2, <3>2, Zenon DEF RowEnds, l, p
        <5>3. CASE next # "lf" /\ next # "end"
          <6>1. next \notin {"lf", "end"}
            BY <5>3
          <6> QED BY <5>3, <6>1, <3>2, Zenon DEF RowEnds, l, p
        <5> QED BY <5>1, <5>2, <5>3
      <4>4. x \in {1, 2} /\ m \in {Yes, No}
        BY <1>2
      <4> HIDE DEF row, x, m
      <4> QED BY <4>1, <4>3, <4>4
    <3> QED BY <1>6, <3>1, <3>2
  <2>2. RowTurn(in, s, t)
    <3>1. TheRow(in, s) = Row(RowFields(in, r, a, n, b, f), r, p)
      BY Zenon DEF TheRow, p, r, a, n, b, f
    <3> QED BY <1>6, <2>1, <3>1, Zenon DEF RowTurn, p, q, k, R
  <2> QED BY <2>2, Zenon DEF t
<1>7. CASE flag # "quote" /\ (q \/ flag \notin Separators)
  <2> DEFINE start == IF a = Unset THEN p - r ELSE a
             end == RunEnd(in, p, q)
  <2>1. t = St(end, r, start, end - (start + r), b, f, R, Dfa(q, k, l))
    <3>1. AtContent(in, S) = St(end, r, start, end - (start + r), b, f, R, Dfa(q, k, l))
      BY AtContentIs DEF S
    <3> HIDE DEF start, end
    <3> QED BY <1>3, <1>7, <3>1, Zenon
  <2>2. IsContent(in, p, q)
    BY <1>2, <1>7, NotContent, Zenon
  <2>3. start = Start(s)
    BY Zenon DEF Start, a, p, r
  <2> HIDE DEF start
  <2>4. ContentTurn(in, s, t)
    BY <1>1, <2>1, <2>2, <2>3, Zenon DEF ContentTurn, p, r, b, f, R, q, k, l
  <2> QED BY <2>4, Zenon DEF t
<1>8. CASE flag = "quote" /\ q
  <2>1. /\ next = "end" => t = St(p, r, a, n, b, f, R, Dfa(q, Yes, l))
        /\ next \in Separators => t = St(p + 1, r, a, n, b, f, R, Dfa(No, k, l))
        /\ next = "quote" => t = St(p + 2, r, a, n + 2, Yes, f, R, Dfa(q, k, l))
        /\ next \notin Separators /\ next # "end" /\ next # "quote" =>
             t = St(p + 1, r, a, n + 1, b, f, R, Dfa(q, k, l))
    <3> DEFINE u == AtQuoteInQuotes(in, S)
    <3>1. /\ next = "end" => u = St(p, r, a, n, b, f, R, Dfa(q, Yes, l))
          /\ next \in Separators => u = St(p + 1, r, a, n, b, f, R, Dfa(No, k, l))
          /\ next = "quote" => u = St(p + 2, r, a, n + 2, Yes, f, R, Dfa(q, k, l))
          /\ next \notin Separators /\ next # "end" /\ next # "quote" =>
               u = St(p + 1, r, a, n + 1, b, f, R, Dfa(q, k, l))
      BY AtQuoteInQuotesIs DEF S
    <3>2. t = u
      BY <1>3, <1>8
    <3> HIDE DEF u, next
    <3> QED BY <3>1, <3>2, Zenon
  <2>2. CASE next = "end"
    <3>1. PendingTurn(in, s, t)
      BY <1>8, <2>1, <2>2, Zenon DEF PendingTurn, p, r, a, n, b, f, R, q, l
    <3> QED BY <3>1, Zenon DEF t
  <2>3. CASE next \in Separators
    <3>1. CloseTurn(in, s, t)
      BY <1>8, <2>1, <2>3, Zenon DEF CloseTurn, p, r, a, n, b, f, R, q, k, l
    <3> QED BY <3>1, Zenon DEF t
  <2>4. CASE next = "quote"
    <3>1. DoubleTurn(in, s, t)
      BY <1>1, <1>8, <2>1, <2>4, Zenon DEF DoubleTurn, p, r, a, n, b, f, R, q, k, l
    <3> QED BY <3>1, Zenon DEF t
  <2>5. CASE next \notin Separators /\ next # "end" /\ next # "quote"
    <3>1. next \notin Separators \cup {"end", "quote"}
      BY <2>5
    <3>2. CountTurn(in, s, t)
      BY <1>1, <1>8, <2>1, <2>5, <3>1, Zenon DEF CountTurn, p, r, a, n, b, f, R, q, k, l
    <3> QED BY <3>2, Zenon DEF t
  <2> QED BY <2>2, <2>3, <2>4, <2>5
<1>9. CASE flag = "quote" /\ ~q
  <2>1. /\ n > 0 => t = St(p + 1, r, a, n + 1, b, f, R, Dfa(q, k, l))
        /\ ~(n > 0) => t = St(p + 1, r, IF a = Unset /\ p + 1 < Len(in) THEN p + 1 - r ELSE a,
                                     n, b, f, R, Dfa(Yes, k, l))
    <3> DEFINE u == AtQuote(in, S)
               c == IF a = Unset /\ p + 1 < Len(in) THEN p + 1 - r ELSE a
    <3>1. /\ n > 0 => u = St(p + 1, r, a, n + 1, b, f, R, Dfa(q, k, l))
          /\ ~(n > 0) => u = St(p + 1, r, c, n, b, f, R, Dfa(Yes, k, l))
      BY AtQuoteIs DEF S
    <3>2. t = u
      BY <1>3, <1>9
    <3> HIDE DEF u
    <3> QED BY <3>1, <3>2, Zenon
  <2>2. CASE n > 0
    <3>1. CountTurn(in, s, t)
      BY <1>1, <1>9, <2>1, <2>2, Zenon DEF CountTurn, p, r, a, n, b, f, R, q, k, l
    <3> QED BY <3>1, Zenon DEF t
  <2>3. CASE ~(n > 0)
    <3>1. n = 0
      BY <2>3, <1>2
    <3>2. OpenTurn(in, s, t)
      BY <1>9, <2>1, <2>3, <3>1, Zenon DEF OpenTurn, p, r, a, n, b, f, R, q, k, l
    <3> QED BY <3>2, Zenon DEF t
  <2> QED BY <2>2, <2>3
<1>10. \/ flag = "delim" /\ ~q
       \/ flag \in {"lf", "cr"} /\ ~q
       \/ flag # "quote" /\ (q \/ flag \notin Separators)
       \/ flag = "quote" /\ q
       \/ flag = "quote" /\ ~q
  BY <1>4, SymKinds
<1> QED BY <1>5, <1>6, <1>7, <1>8, <1>9, <1>10

LEMMA MadeState ==
    ASSUME NEW p, NEW r, NEW a, NEW n, NEW b, NEW f, NEW R, NEW q, NEW k, NEW l
    PROVE  LET s == St(p, r, a, n, b, f, R, Dfa(q, k, l))
           IN  /\ s.pos = p /\ s.rowStart = r /\ s.fieldStart = a /\ s.fieldLength = n
               /\ s.doubled = b /\ s.fields = f /\ s.rows = R /\ s.dfa = Dfa(q, k, l)
               /\ s.dfa.quoted = q /\ s.dfa.pendingQuote = k /\ s.dfa.pendingLinefeed = l
               /\ IsState(s) /\ IsDfa(s.dfa)
<1> DEFINE d == Dfa(q, k, l)
           s == St(p, r, a, n, b, f, R, d)
<1>1. /\ s.pos = p /\ s.rowStart = r /\ s.fieldStart = a /\ s.fieldLength = n
      /\ s.doubled = b /\ s.fields = f /\ s.rows = R /\ s.dfa = d
  BY StMembers
<1>2. d.quoted = q /\ d.pendingQuote = k /\ d.pendingLinefeed = l
  BY DfaMembers
<1>3. IsState(s)
  <2>1. St(s.pos, s.rowStart, s.fieldStart, s.fieldLength, s.doubled, s.fields, s.rows, s.dfa) =
          St(p, r, a, n, b, f, R, d)
    <3> HIDE DEF s, d
    <3> QED BY <1>1
  <2> QED BY <2>1, Zenon DEF IsState
<1>4. IsDfa(d)
  BY <1>2, Zenon DEF IsDfa
<1> HIDE DEF d, s
<1>5. /\ s.dfa.quoted = q /\ s.dfa.pendingQuote = k /\ s.dfa.pendingLinefeed = l
      /\ IsState(s) /\ IsDfa(s.dfa)
  BY <1>1, <1>2, <1>3, <1>4, Zenon
<1> QED BY <1>1, <1>5, Zenon DEF d, s

LEMMA RowsBeforeAppend ==
    ASSUME NEW R, IsSeq(R), NEW r \in Nat, NEW p \in Nat, NEW e \in Nat, RowsBefore(R, r), r <= p, p < e, NEW f
    PROVE  RowsBefore(Append(R, Row(f, r, p)), e)
<1> DEFINE x == Row(f, r, p)
<1>1. x.start = r /\ x.end = p
  BY DEF Row
<1> HIDE DEF x
<1> DEFINE Q == Append(R, x)
<1>2. Len(R) \in Nat /\ Len(Q) = Len(R) + 1 /\ Q[Len(R) + 1] = x /\ \A i \in 1..Len(R) : Q[i] = R[i]
  BY SeqAppends
<1> HIDE DEF Q
<1>3. ASSUME NEW i \in 1..Len(Q)
      PROVE  Q[i].start \in Nat /\ Q[i].end \in Nat /\ Q[i].start <= Q[i].end /\ Q[i].end < e
  <2>1. CASE i = Len(R) + 1
    BY <1>1, <1>2, <2>1
  <2>2. CASE i # Len(R) + 1
    <3>1. i \in 1..Len(R) /\ Q[i] = R[i]
      BY <1>2, <2>2
    <3>2. R[i].start \in Nat /\ R[i].end \in Nat /\ R[i].start <= R[i].end /\ R[i].end < r
      BY <3>1 DEF RowsBefore
    <3>3. R[i].end < e
      BY <3>2
    <3> QED BY <3>1, <3>2, <3>3
  <2> QED BY <2>1, <2>2
<1>4. RowsBefore(Q, e)
  BY <1>3 DEF RowsBefore
<1> QED BY <1>4 DEF Q, x

LEMMA GoodMade ==
    ASSUME NEW in, NEW p \in 0..Len(in), NEW r \in 0..p, NEW a, NEW n \in Nat, NEW b \in {Yes, No},
           NEW f, NEW R, NEW q, NEW k, NEW l \in {Yes, No}, Len(in) \in Nat,
           a # Unset => a \in Nat /\ r + a <= p,
           b = Yes => n > 0,
           IsSeq(f), IsSeq(R), R # <<>> => r > 0, RowsBefore(R, r)
    PROVE  Good(in, St(p, r, a, n, b, f, R, Dfa(q, k, l)))
<1> DEFINE s == St(p, r, a, n, b, f, R, Dfa(q, k, l))
<1>1. /\ s.pos = p /\ s.rowStart = r /\ s.fieldStart = a /\ s.fieldLength = n
      /\ s.doubled = b /\ s.fields = f /\ s.rows = R
      /\ s.dfa.pendingLinefeed = l /\ IsState(s) /\ IsDfa(s.dfa)
  BY MadeState
<1> HIDE DEF s
<1>2. Good(in, s)
  BY <1>1 DEF Good
<1> QED BY <1>2 DEF s

(* What a state is made of. *)
LEMMA GoodState ==
    ASSUME NEW in, NEW s, Good(in, s)
    PROVE  /\ s.dfa = Dfa(s.dfa.quoted, s.dfa.pendingQuote, s.dfa.pendingLinefeed)
           /\ s = St(s.pos, s.rowStart, s.fieldStart, s.fieldLength, s.doubled, s.fields, s.rows,
                     Dfa(s.dfa.quoted, s.dfa.pendingQuote, s.dfa.pendingLinefeed))
<1>1. s.dfa = Dfa(s.dfa.quoted, s.dfa.pendingQuote, s.dfa.pendingLinefeed)
  BY Zenon DEF Good, IsDfa
<1>2. s = St(s.pos, s.rowStart, s.fieldStart, s.fieldLength, s.doubled, s.fields, s.rows, s.dfa)
  BY Zenon DEF Good, IsState
<1> QED BY <1>1, <1>2, Zenon

LEMMA StepIsGood ==
    ASSUME NEW in \in Seq(Sym), NEW s, Good(in, s), ~Stopped(in, s)
    PROVE  /\ Good(in, Step(in, s))
           /\ Step(in, s).pos > s.pos \/ Step(in, s).dfa.pendingQuote
<1> DEFINE p == s.pos  r == s.rowStart  a == s.fieldStart  n == s.fieldLength  b == s.doubled
           f == s.fields  R == s.rows  q == s.dfa.quoted  k == s.dfa.pendingQuote
           l == s.dfa.pendingLinefeed
           t == Step(in, s)
           Claim(u) == Good(in, u) /\ (u.pos > p \/ u.dfa.pendingQuote)
<1>1. /\ p \in Nat /\ n \in Nat /\ Len(in) \in Nat /\ p < Len(in) /\ l \in {Yes, No} /\ b \in {Yes, No}
      /\ b = Yes => n > 0
      /\ r \in 0..p /\ (a # Unset => a \in Nat /\ r + a <= p)
      /\ IsSeq(f) /\ IsSeq(R) /\ (R # <<>> => r > 0) /\ RowsBefore(R, r)
  BY LenProperties DEF Good, Stopped
<1>2. s.dfa = Dfa(q, k, l)
  BY GoodState
<1>3. \/ DelimTurn(in, s, t) \/ RowTurn(in, s, t) \/ ContentTurn(in, s, t)
      \/ PendingTurn(in, s, t) \/ CloseTurn(in, s, t) \/ DoubleTurn(in, s, t)
      \/ CountTurn(in, s, t) \/ OpenTurn(in, s, t)
  BY StepCases
<1>4. \A i \in Nat : Flag(in, i) # "end" => i < Len(in)
  BY FlagIs
<1>5. Yes # No /\ "end" \notin Separators /\ "lf" # "end"
  BY TruthValues DEF Separators
<1>6. ASSUME NEW x \in 1..2, p + x <= Len(in), NEW r2 \in 0..(p + x), NEW a2, NEW n2 \in Nat, NEW b2 \in {Yes, No}, NEW f2, NEW R2,
             NEW q2, NEW k2, NEW l2 \in {Yes, No},
             a2 # Unset => a2 \in Nat /\ r2 + a2 <= p + x, b2 = Yes => n2 > 0,
             IsSeq(f2), IsSeq(R2), R2 # <<>> => r2 > 0, RowsBefore(R2, r2)
      PROVE  Claim(St(p + x, r2, a2, n2, b2, f2, R2, Dfa(q2, k2, l2)))
  <2> DEFINE u == St(p + x, r2, a2, n2, b2, f2, R2, Dfa(q2, k2, l2))
  <2> HIDE DEF p
  <2>1. p + x \in 0..Len(in)
    BY <1>1, <1>6
  <2>2. Good(in, u)
    BY <1>1, <1>6, <2>1, GoodMade
  <2>3. u.pos = p + x
    BY MadeState
  <2> HIDE DEF u
  <2> QED BY <2>2, <2>3, <1>1 DEF u
<1>7. CASE DelimTurn(in, s, t)
  <2> DEFINE g == Append(f, TheField(in, s))
  <2>1. t = St(p + 1, r, Unset, 0, No, g, R, Dfa(q, k, l))
    BY <1>7, <1>2, Zenon DEF DelimTurn
  <2>2. IsSeq(g)
    BY <1>1, SeqAppends
  <2> HIDE DEF Claim, p, r, a, n, b, f, R, q, k, l, t, g
  <2>3. /\ 1 \in 1..2 /\ p + 1 <= Len(in) /\ r \in 0..(p + 1) /\ 0 \in Nat /\ No \in {Yes, No}
        /\ (Unset # Unset => Unset \in Nat /\ r + Unset <= p + 1) /\ (No = Yes => 0 > 0)
    BY <1>1, <1>5
  <2>4. Claim(St(p + 1, r, Unset, 0, No, g, R, Dfa(q, k, l)))
    BY <1>1, <1>6, <2>2, <2>3
  <2> HIDE DEF Claim
  <2>5. Claim(t)
    BY <2>1, <2>4, Zenon
  <2> QED BY <2>5, Zenon DEF Claim, p, t
<1>8. CASE RowTurn(in, s, t)
  <2> DEFINE Q == Append(R, TheRow(in, s))
  <2>1. PICK x \in {1, 2}, m \in {Yes, No} :
           RowEnds(in, s, x, m) /\ t = St(p + x, p + x, Unset, 0, No, <<>>, Q, Dfa(q, k, m))
    BY <1>8, Zenon DEF RowTurn
  <2>2. IsSeq(Q)
    BY <1>1, SeqAppends
  <2>3. p + x <= Len(in)
    <3>1. CASE x = 1
      BY <3>1, <1>1
    <3>2. CASE x = 2
      <4>1. Flag(in, p + 1) = "lf"
        BY <2>1, <3>2 DEF RowEnds
      <4>2. p + 1 < Len(in)
        BY <4>1, <1>1, <1>4, <1>5
      <4> QED BY <3>2, <4>2, <1>1
    <3> QED BY <2>1, <3>1, <3>2
  <2> HIDE DEF Claim, p, r, a, n, b, f, R, q, k, l, t, Q
  <2>4. x \in 1..2 /\ p + x \in 0..(p + x) /\ p + x > 0 /\ 0 \in Nat
    BY <1>1, <2>1
  <2>5. RowsBefore(Q, p + x)
    <3>1. p + x \in Nat /\ p < p + x /\ r \in Nat /\ r <= p
      BY <1>1, <2>1
    <3> QED BY <1>1, <3>1, RowsBeforeAppend DEF TheRow, Q, p, r, R
  <2>6. /\ (Unset # Unset => Unset \in Nat /\ p + x + Unset <= p + x) /\ (No = Yes => 0 > 0)
        /\ No \in {Yes, No} /\ IsSeq(<<>>)
    BY <1>5, EmptyIsSeq
  <2>7. Claim(St(p + x, p + x, Unset, 0, No, <<>>, Q, Dfa(q, k, m)))
    BY <1>6, <2>2, <2>3, <2>4, <2>5, <2>6, <2>1
  <2>8. Claim(t)
    BY <2>1, <2>7, Zenon
  <2> QED BY <2>8, Zenon DEF Claim, p, t
<1>9. CASE ContentTurn(in, s, t)
  <2> DEFINE e == RunEnd(in, p, q)
             c == Start(s)
             m == e - (c + r)
  <2>1. t = St(e, r, c, m, b, f, R, Dfa(q, k, l))
    BY <1>9, <1>2, Zenon DEF ContentTurn
  <2>2. e \in p..Len(in) /\ ~IsContent(in, e, q)
    BY <1>1, RunEndIs
  <2>3. IsContent(in, p, q)
    BY <1>9, Zenon DEF ContentTurn
  <2>4. e \in (p + 1)..Len(in)
    <3> HIDE DEF p, q, e
    <3>1. e # p
      BY <2>2, <2>3, Zenon
    <3> QED BY <1>1, <2>2, <3>1
  <2>5. c \in Nat /\ c + r <= p
    BY <1>1 DEF Start
  <2> HIDE DEF Claim, p, r, a, n, b, f, R, q, k, l, t, e, c
  <2>6. m \in Nat /\ m > 0 /\ c # Unset /\ e \in 0..Len(in) /\ r \in 0..e /\ r + c <= e /\ e > p
    BY <1>1, <2>4, <2>5 DEF Unset
  <2> HIDE DEF m
  <2>7. Good(in, St(e, r, c, m, b, f, R, Dfa(q, k, l)))
    BY <1>1, <2>5, <2>6, GoodMade
  <2>8. St(e, r, c, m, b, f, R, Dfa(q, k, l)).pos = e
    BY MadeState
  <2>9. Claim(t)
    BY <2>1, <2>6, <2>7, <2>8 DEF Claim
  <2> QED BY <2>9, Zenon DEF Claim, p, t
<1>10. CASE PendingTurn(in, s, t)
  <2>1. t = St(p, r, a, n, b, f, R, Dfa(q, Yes, l))
    BY <1>10, Zenon DEF PendingTurn
  <2> HIDE DEF p, r, a, n, b, f, R, q, k, l, t
  <2>2. p \in 0..Len(in)
    BY <1>1
  <2>3. Good(in, t)
    BY <1>1, <2>1, <2>2, GoodMade
  <2>4. t.dfa.pendingQuote = Yes
    BY <2>1, MadeState
  <2>5. Claim(t)
    BY <2>3, <2>4, TruthValues, Zenon
  <2> QED BY <2>5, Zenon DEF Claim, p, t
<1>11. CASE CloseTurn(in, s, t)
  <2>1. t = St(p + 1, r, a, n, b, f, R, Dfa(No, k, l))
    BY <1>11, Zenon DEF CloseTurn
  <2> HIDE DEF Claim, p, r, a, n, b, f, R, q, k, l, t
  <2>2. 1 \in 1..2 /\ p + 1 <= Len(in) /\ r \in 0..(p + 1) /\ (a # Unset => a \in Nat /\ r + a <= p + 1)
    BY <1>1
  <2>3. Claim(t)
    BY <1>1, <1>6, <2>1, <2>2
  <2> QED BY <2>3, Zenon DEF Claim, p, t
<1>12. CASE DoubleTurn(in, s, t)
  <2>1. t = St(p + 2, r, a, n + 2, Yes, f, R, Dfa(q, k, l)) /\ Flag(in, p + 1) = "quote"
    BY <1>2, <1>12, Zenon DEF DoubleTurn
  <2> HIDE DEF Claim, p, r, a, n, b, f, R, q, k, l, t
  <2>2. p + 1 < Len(in)
    BY <1>1, <1>4, <2>1
  <2>3. /\ 2 \in 1..2 /\ p + 2 <= Len(in) /\ r \in 0..(p + 2) /\ (a # Unset => a \in Nat /\ r + a <= p + 2)
        /\ n + 2 \in Nat /\ n + 2 > 0
    BY <1>1, <2>2
  <2>4. Claim(t)
    BY <1>1, <1>6, <2>1, <2>3
  <2> QED BY <2>4, Zenon DEF Claim, p, t
<1>13. CASE CountTurn(in, s, t)
  <2>1. t = St(p + 1, r, a, n + 1, b, f, R, Dfa(q, k, l))
    BY <1>2, <1>13, Zenon DEF CountTurn
  <2> HIDE DEF Claim, p, r, a, n, b, f, R, q, k, l, t
  <2>2. /\ 1 \in 1..2 /\ p + 1 <= Len(in) /\ r \in 0..(p + 1) /\ (a # Unset => a \in Nat /\ r + a <= p + 1)
        /\ n + 1 \in Nat /\ n + 1 > 0
    BY <1>1
  <2>3. Claim(t)
    BY <1>1, <1>6, <2>1, <2>2
  <2> QED BY <2>3, Zenon DEF Claim, p, t
<1>14. CASE OpenTurn(in, s, t)
  <2> DEFINE c == IF a = Unset /\ p + 1 < Len(in) THEN p + 1 - r ELSE a
  <2>1. t = St(p + 1, r, c, 0, b, f, R, Dfa(Yes, k, l)) /\ n = 0
    BY <1>14, Zenon DEF OpenTurn
  <2> HIDE DEF Claim, p, r, a, n, b, f, R, q, k, l, t
  <2>2. /\ 1 \in 1..2 /\ p + 1 <= Len(in) /\ r \in 0..(p + 1) /\ (c # Unset => c \in Nat /\ r + c <= p + 1)
    BY <1>1
  <2> HIDE DEF c
  <2>3. 0 \in Nat /\ (b = Yes => 0 > 0)
    BY <1>1, <2>1
  <2>4. Claim(t)
    BY <1>1, <1>6, <2>1, <2>2, <2>3
  <2> QED BY <2>4, Zenon DEF Claim, p, t
<1> HIDE DEF t
<1> QED BY <1>3, <1>7, <1>8, <1>9, <1>10, <1>11, <1>12, <1>13, <1>14, Zenon

-----------------------------------------------------------------------------
(* The loop, turn by turn, and the chunk.                                  *)

(* The loop from a first state b, turn by turn. *)
IsRun(g, in, b, N) == g = [n \in 0..N |-> IF n = 0 THEN b ELSE Turn(in, g[n - 1])]
At(in, b, n) == (CHOOSE g : IsRun(g, in, b, n))[n]

LEMMA RunValues ==
    ASSUME NEW in, NEW b, NEW N \in Nat, NEW g, IsRun(g, in, b, N)
    PROVE  /\ g[0] = b
           /\ \A n \in 0..N : n # 0 => g[n] = Turn(in, g[n - 1])
<1>1. \A n \in 0..N : g[n] = IF n = 0 THEN b ELSE Turn(in, g[n - 1])
  <2> DEFINE h == [n \in 0..N |-> IF n = 0 THEN b ELSE Turn(in, g[n - 1])]
  <2>1. \A n \in 0..N : h[n] = IF n = 0 THEN b ELSE Turn(in, g[n - 1])
    BY Zenon
  <2>2. g = h
    BY Zenon DEF IsRun
  <2> HIDE DEF h
  <2> QED BY <2>1, <2>2
<1>2. 0 \in 0..N
  OBVIOUS
<1> QED BY <1>1, <1>2

LEMMA RunExists ==
    ASSUME NEW in, NEW b, NEW N \in Nat
    PROVE  \E g : IsRun(g, in, b, N)
<1> DEFINE T == {m \in Nat : \E g : IsRun(g, in, b, m)}
<1>1. 0 \in T
  <2> DEFINE g == [n \in 0..0 |-> b]
  <2>1. g = [n \in 0..0 |-> IF n = 0 THEN b ELSE Turn(in, g[n - 1])]
    OBVIOUS
  <2> HIDE DEF g
  <2> QED BY <2>1 DEF IsRun
<1>2. ASSUME NEW m \in Nat, m \in T PROVE m + 1 \in T
  <2>1. PICK g : IsRun(g, in, b, m)
    BY <1>2
  <2> DEFINE h == [n \in 0..(m + 1) |-> IF n = m + 1 THEN Turn(in, g[m]) ELSE g[n]]
  <2>2. g[0] = b /\ \A n \in 0..m : n # 0 => g[n] = Turn(in, g[n - 1])
    BY <2>1, RunValues
  <2>3. \A n \in 0..(m + 1) : h[n] = IF n = 0 THEN b ELSE Turn(in, h[n - 1])
    <3>1. h[0] = b
      BY <2>2
    <3>2. ASSUME NEW n \in 0..(m + 1), n # 0 PROVE h[n] = Turn(in, h[n - 1])
      <4>1. n - 1 \in 0..(m + 1) /\ n - 1 # m + 1 /\ h[n - 1] = g[n - 1]
        BY <3>2
      <4>2. CASE n = m + 1
        BY <4>1, <4>2
      <4>3. CASE n # m + 1
        <5>1. n \in 0..m /\ h[n] = g[n]
          BY <4>3
        <5> HIDE DEF h
        <5> QED BY <3>2, <4>1, <5>1, <2>2
      <4> QED BY <4>2, <4>3
    <3> HIDE DEF h
    <3> QED BY <3>1, <3>2
  <2>4. h = [n \in 0..(m + 1) |-> h[n]]
    OBVIOUS
  <2> HIDE DEF h
  <2>5. h = [n \in 0..(m + 1) |-> IF n = 0 THEN b ELSE Turn(in, h[n - 1])]
    BY <2>3, <2>4
  <2>6. IsRun(h, in, b, m + 1)
    BY <2>5, Zenon DEF IsRun
  <2> QED BY <2>6
<1> HIDE DEF T
<1>3. N \in T
  BY <1>1, <1>2, Induction
<1> QED BY <1>3 DEF T

LEMMA RunUnique ==
    ASSUME NEW in, NEW b, NEW N \in Nat, NEW M \in Nat, NEW g, NEW h,
           IsRun(g, in, b, N), IsRun(h, in, b, M),
           NEW n \in Nat, n <= N, n <= M
    PROVE  g[n] = h[n]
<1> DEFINE T == {m \in Nat : m <= N /\ m <= M => g[m] = h[m]}
<1>1. /\ g[0] = b /\ \A m \in 0..N : m # 0 => g[m] = Turn(in, g[m - 1])
      /\ h[0] = b /\ \A m \in 0..M : m # 0 => h[m] = Turn(in, h[m - 1])
  BY RunValues
<1>2. 0 \in T
  BY <1>1
<1>3. ASSUME NEW m \in Nat, m \in T PROVE m + 1 \in T
  <2>1. CASE m + 1 <= N /\ m + 1 <= M
    <3>1. m + 1 \in 0..N /\ m + 1 \in 0..M /\ m + 1 # 0 /\ (m + 1) - 1 = m /\ g[m] = h[m]
      BY <1>3, <2>1
    <3> QED BY <1>1, <3>1
  <2>2. CASE ~(m + 1 <= N /\ m + 1 <= M)
    BY <2>2
  <2> QED BY <2>1, <2>2
<1> HIDE DEF T
<1>4. n \in T
  BY <1>2, <1>3, Induction
<1> QED BY <1>4 DEF T

LEMMA AtIs ==
    ASSUME NEW in, NEW b, NEW N \in Nat, NEW g, IsRun(g, in, b, N), NEW n \in Nat, n <= N
    PROVE  g[n] = At(in, b, n)
<1> DEFINE c == CHOOSE h : IsRun(h, in, b, n)
<1>1. IsRun(c, in, b, n)
  <2>1. \E h : IsRun(h, in, b, n)
    BY RunExists
  <2> QED BY <2>1, Zenon
<1>2. At(in, b, n) = c[n]
  BY Zenon DEF At
<1> HIDE DEF c
<1>3. g[n] = c[n]
  BY <1>1, RunUnique
<1> QED BY <1>2, <1>3

LEMMA AtTurns ==
    ASSUME NEW in, NEW b
    PROVE  /\ At(in, b, 0) = b
           /\ \A n \in Nat : At(in, b, n + 1) = Turn(in, At(in, b, n))
<1>1. ASSUME NEW n \in Nat
      PROVE  /\ At(in, b, n + 1) = Turn(in, At(in, b, n))
             /\ At(in, b, 0) = b
  <2> DEFINE N == n + 1
  <2> N \in Nat /\ n \in Nat /\ n <= N /\ 0 <= N
    OBVIOUS
  <2> HIDE DEF N
  <2>1. PICK g : IsRun(g, in, b, N)
    BY RunExists
  <2>2. g[0] = b /\ \A m \in 0..N : m # 0 => g[m] = Turn(in, g[m - 1])
    BY <2>1, RunValues
  <2>3. g[N] = At(in, b, N) /\ g[n] = At(in, b, n) /\ g[0] = At(in, b, 0)
    BY <2>1, AtIs
  <2>4. N \in 0..N /\ N # 0 /\ N - 1 = n
    BY DEF N
  <2> QED BY <2>2, <2>3, <2>4 DEF N
<1>2. 0 \in Nat
  OBVIOUS
<1> QED BY <1>1, <1>2

LEMMA ParseIs ==
    ASSUME NEW in, Len(in) \in Nat, NEW dfa, NEW scanBom
    PROVE  Parse(in, dfa, scanBom) = At(in, Begin(in, dfa, scanBom), Len(in) + 1)
<1> DEFINE b == Begin(in, dfa, scanBom)
           N == Len(in) + 1
           c == CHOOSE h : h = [n \in 0..N |-> IF n = 0 THEN b ELSE Turn(in, h[n - 1])]
<1>1. Parse(in, dfa, scanBom) = c[N]
  BY Zenon DEF Parse
<1>2. \E h : IsRun(h, in, b, N)
  BY RunExists
<1>3. IsRun(c, in, b, N)
  BY <1>2, Zenon DEF IsRun
<1> HIDE DEF c, b
<1>4. c[N] = At(in, b, N)
  BY <1>3, AtIs
<1> QED BY <1>1, <1>4 DEF b

-----------------------------------------------------------------------------
(* The loop takes a byte per turn, and stops. *)
LEMMA RunIsGood ==
    ASSUME NEW in \in Seq(Sym), NEW b, Good(in, b), NEW n \in Nat
    PROVE  /\ Good(in, At(in, b, n))
           /\ Stopped(in, At(in, b, n)) \/ At(in, b, n).pos >= n
<1> DEFINE T == {m \in Nat : /\ Good(in, At(in, b, m))
                             /\ Stopped(in, At(in, b, m)) \/ At(in, b, m).pos >= m}
<1>1. 0 \in T
  <2>1. At(in, b, 0) = b
    BY AtTurns
  <2>2. b.pos >= 0
    BY DEF Good
  <2> QED BY <2>1, <2>2
<1>2. ASSUME NEW m \in Nat, m \in T PROVE m + 1 \in T
  <2> DEFINE s == At(in, b, m)
             t == At(in, b, m + 1)
  <2>1. t = Turn(in, s)
    BY AtTurns
  <2>2. Good(in, s) /\ (Stopped(in, s) \/ s.pos >= m)
    BY <1>2
  <2> HIDE DEF s, t
  <2>3. CASE Stopped(in, s)
    <3>1. t = s
      BY <2>1, <2>3, Zenon DEF Turn
    <3>2. Good(in, t) /\ Stopped(in, t)
      BY <2>2, <2>3, <3>1
    <3> QED BY <3>2 DEF t
  <2>4. CASE ~Stopped(in, s)
    <3>1. t = Step(in, s)
      BY <2>1, <2>4, Zenon DEF Turn
    <3>2. Good(in, t) /\ (t.pos > s.pos \/ t.dfa.pendingQuote)
      BY <2>2, <2>4, <3>1, StepIsGood
    <3>3. Stopped(in, t) \/ t.pos >= m + 1
      <4>1. CASE t.dfa.pendingQuote
        BY <4>1 DEF Stopped
      <4>2. CASE t.pos > s.pos
        <5>1. t.pos \in Int /\ s.pos \in Int /\ s.pos >= m
          BY <2>2, <2>4, <3>2 DEF Good
        <5> QED BY <4>2, <5>1
      <4> QED BY <3>2, <4>1, <4>2
    <3> QED BY <3>2, <3>3 DEF t
  <2> QED BY <2>3, <2>4
<1> HIDE DEF T
<1>3. n \in T
  BY <1>1, <1>2, Induction
<1> QED BY <1>3 DEF T

LEMMA RunStops ==
    ASSUME NEW in \in Seq(Sym), NEW b, Good(in, b)
    PROVE  Stopped(in, At(in, b, Len(in) + 1))
<1>1. Len(in) \in Nat
  BY LenProperties
<1> DEFINE t == At(in, b, Len(in) + 1)
<1>2. Good(in, t) /\ (Stopped(in, t) \/ t.pos >= Len(in) + 1)
  BY <1>1, RunIsGood
<1> HIDE DEF t
<1>3. t.pos \in 0..Len(in)
  BY <1>2 DEF Good
<1>4. Stopped(in, t)
  BY <1>1, <1>2, <1>3
<1> QED BY <1>4 DEF t

LEMMA StoppedStays ==
    ASSUME NEW in, NEW b, NEW n \in Nat, Stopped(in, At(in, b, n)), NEW m \in Nat, n <= m
    PROVE  At(in, b, m) = At(in, b, n)
<1> DEFINE T == {i \in Nat : At(in, b, n + i) = At(in, b, n)}
<1>1. 0 \in T
  OBVIOUS
<1>2. ASSUME NEW i \in Nat, i \in T PROVE i + 1 \in T
  <2>1. At(in, b, (n + i) + 1) = Turn(in, At(in, b, n + i)) /\ At(in, b, n + i) = At(in, b, n)
    BY <1>2, AtTurns
  <2>2. Turn(in, At(in, b, n)) = At(in, b, n)
    BY Zenon DEF Turn
  <2>3. (n + i) + 1 = n + (i + 1)
    OBVIOUS
  <2>4. At(in, b, n + (i + 1)) = At(in, b, n)
    BY <2>1, <2>2, <2>3
  <2> QED BY <2>4
<1> HIDE DEF T
<1>3. m - n \in Nat
  OBVIOUS
<1>4. m - n \in T
  BY <1>1, <1>2, <1>3, Induction
<1>5. n + (m - n) = m
  OBVIOUS
<1> QED BY <1>4, <1>5 DEF T

(* A state in which the loop has stopped is its last one. *)
LEMMA StoppedIsLast ==
    ASSUME NEW in \in Seq(Sym), NEW b, Good(in, b), NEW n \in Nat, Stopped(in, At(in, b, n))
    PROVE  At(in, b, n) = At(in, b, Len(in) + 1)
<1>1. Len(in) + 1 \in Nat
  BY LenProperties
<1> DEFINE N == Len(in) + 1
<1>2. Stopped(in, At(in, b, N))
  BY RunStops
<1> HIDE DEF N
<1>3. CASE n <= N
  BY <1>1, <1>3, StoppedStays DEF N
<1>4. CASE N <= n
  BY <1>1, <1>2, <1>4, StoppedStays DEF N
<1>5. n <= N \/ N <= n
  BY <1>1 DEF N
<1> QED BY <1>3, <1>4, <1>5 DEF N

-----------------------------------------------------------------------------
(* The first state. *)
FreshAt(p, d) == St(p, p, Unset, 0, No, <<>>, <<>>, d)

LEMMA StripBomIs ==
    ASSUME NEW in, NEW d, NEW scanBom
    PROVE  StripBom(in, FreshAt(0, d), scanBom) =
             IF scanBom /\ Flag(in, 0) = "bom" THEN St(1, 0, Unset, 0, No, <<>>, <<>>, d) ELSE FreshAt(0, d)
<1> DEFINE s == FreshAt(0, d)
           t == St(1, 0, Unset, 0, No, <<>>, <<>>, d)
<1>1. s.pos = 0
  BY StMembers DEF FreshAt
<1>2. [s EXCEPT !.pos = 1] = t
  BY DEF St, FreshAt
<1>3. 0 + 1 = 1
  OBVIOUS
<1> HIDE DEF s, t
<1>4. StripBom(in, s, scanBom) = IF scanBom /\ Flag(in, s.pos) = "bom" THEN [s EXCEPT !.pos = s.pos + 1] ELSE s
  BY Zenon DEF StripBom
<1>5. StripBom(in, s, scanBom) = IF scanBom /\ Flag(in, 0) = "bom" THEN [s EXCEPT !.pos = 1] ELSE s
  BY <1>1, <1>3, <1>4, Zenon
<1>6. StripBom(in, s, scanBom) = IF scanBom /\ Flag(in, 0) = "bom" THEN t ELSE s
  BY <1>2, <1>5, Zenon
<1> QED BY <1>6, Zenon DEF s, t

LEMMA BeginFrom ==
    ASSUME NEW in, NEW d, NEW scanBom
    PROVE  Begin(in, d, scanBom) =
             ResolvePendingQuote(in, ResolvePendingLinefeed(in, StripBom(in, FreshAt(0, d), scanBom)))
BY Zenon DEF Begin, FreshAt, St, No

LEMMA PendingLinefeedIs ==
    ASSUME NEW in, NEW p, NEW r, NEW a, NEW n, NEW b, NEW f, NEW R, NEW q, NEW k, NEW l
    PROVE  LET s == St(p, r, a, n, b, f, R, Dfa(q, k, l))
               t == ResolvePendingLinefeed(in, s)
           IN  /\ ~l \/ p >= Len(in) => t = s
               /\ l /\ ~(p >= Len(in)) /\ Flag(in, p) = "lf" => t = St(p + 1, p + 1, a, n, b, f, R, Dfa(q, k, No))
               /\ l /\ ~(p >= Len(in)) /\ Flag(in, p) # "lf" => t = St(p, r, a, n, b, f, R, Dfa(q, k, No))
<1> DEFINE d == Dfa(q, k, l)
           s == St(p, r, a, n, b, f, R, d)
           t == ResolvePendingLinefeed(in, s)
           e == Dfa(q, k, No)
           u == St(p, r, a, n, b, f, R, e)
           v == St(p + 1, p + 1, a, n, b, f, R, e)
<1>1. s.pos = p /\ s.dfa = d
  BY StMembers
<1>2. d.pendingLinefeed = l
  BY DfaMembers
<1>3. [d EXCEPT !.pendingLinefeed = No] = e
  BY DEF Dfa
<1> HIDE DEF d, e
<1>4. [s EXCEPT !.dfa = e] = u
  BY DEF St
<1>5. [u EXCEPT !.pos = p + 1] = St(p + 1, r, a, n, b, f, R, e)
  BY DEF St
<1>6. [St(p + 1, r, a, n, b, f, R, e) EXCEPT !.rowStart = p + 1] = v
  BY DEF St
<1>7. u.pos = p
  BY StMembers
<1> HIDE DEF s, u
<1>8. [u EXCEPT !.pos = p + 1, !.rowStart = p + 1] = [[u EXCEPT !.pos = p + 1] EXCEPT !.rowStart = p + 1]
  OBVIOUS
<1>9. [u EXCEPT !.pos = p + 1, !.rowStart = p + 1] = v
  BY <1>5, <1>6, <1>8
<1>10. t = IF ~l \/ p >= Len(in) THEN s
           ELSE IF Flag(in, p) = "lf" THEN [u EXCEPT !.pos = p + 1, !.rowStart = p + 1] ELSE u
  <2>1. [s EXCEPT !.dfa = [s.dfa EXCEPT !.pendingLinefeed = FALSE]] = u
    BY <1>1, <1>3, <1>4, Zenon DEF No
  <2> DEFINE w == [s EXCEPT !.dfa = [s.dfa EXCEPT !.pendingLinefeed = FALSE]]
  <2>2. t = IF ~s.dfa.pendingLinefeed \/ s.pos >= Len(in) THEN s
            ELSE IF Flag(in, s.pos) = "lf" THEN [w EXCEPT !.pos = w.pos + 1, !.rowStart = s.pos + 1] ELSE w
    BY Zenon DEF ResolvePendingLinefeed
  <2> HIDE DEF w
  <2>3. w = u
    BY <2>1 DEF w
  <2> HIDE DEF t
  <2> QED BY <1>1, <1>2, <1>7, <2>2, <2>3, Zenon
<1> HIDE DEF v, t
<1>11. /\ ~l \/ p >= Len(in) => t = s
       /\ l /\ ~(p >= Len(in)) /\ Flag(in, p) = "lf" => t = v
       /\ l /\ ~(p >= Len(in)) /\ Flag(in, p) # "lf" => t = u
  BY <1>9, <1>10, Zenon
<1> QED BY <1>11, Zenon DEF s, t, u, v, d, e

LEMMA PendingQuoteIs ==
    ASSUME NEW in, NEW p, NEW r, NEW a, NEW n, NEW b, NEW f, NEW R, NEW q, NEW k, NEW l
    PROVE  LET s == St(p, r, a, n, b, f, R, Dfa(q, k, l))
               t == ResolvePendingQuote(in, s)
               next == Flag(in, p)
           IN  /\ ~k \/ p >= Len(in) => t = s
               /\ k /\ ~(p >= Len(in)) =>
                    /\ next \in Separators => t = St(p, r, a, n, b, f, R, Dfa(No, No, l))
                    /\ next = "quote" => t = St(p + 1, r, a, n + 1, Yes, f, R, Dfa(Yes, No, l))
                    /\ next \notin Separators /\ next # "quote" => t = St(p, r, a, n + 1, b, f, R, Dfa(Yes, No, l))
<1> DEFINE d == Dfa(q, k, l)
           s == St(p, r, a, n, b, f, R, d)
           t == ResolvePendingQuote(in, s)
           next == Flag(in, p)
           e == Dfa(IF next \in Separators THEN No ELSE Yes, No, l)
           u == St(p, r, a, n, b, f, R, e)
<1>1. s.pos = p /\ s.dfa = d /\ s.fieldLength = n
  BY StMembers
<1>2. d.pendingQuote = k
  BY DfaMembers
<1>3. [d EXCEPT !.pendingQuote = No, !.quoted = IF next \in Separators THEN No ELSE Yes] = e
  <2> DEFINE y == IF next \in Separators THEN No ELSE Yes
  <2> HIDE DEF y
  <2>1. [d EXCEPT !.pendingQuote = No] = Dfa(q, No, l)
    BY DEF Dfa
  <2>2. [Dfa(q, No, l) EXCEPT !.quoted = y] = Dfa(y, No, l)
    BY DEF Dfa
  <2> HIDE DEF d
  <2>3. [d EXCEPT !.pendingQuote = No, !.quoted = y] = [[d EXCEPT !.pendingQuote = No] EXCEPT !.quoted = y]
    OBVIOUS
  <2> QED BY <2>1, <2>2, <2>3 DEF y
<1> HIDE DEF d, e
<1>4. [s EXCEPT !.dfa = e] = u
  BY DEF St
<1>5. u.pos = p /\ u.fieldLength = n
  BY StMembers
<1>6. [u EXCEPT !.doubled = Yes] = St(p, r, a, n, Yes, f, R, e)
  BY DEF St
<1>7. [St(p, r, a, n, Yes, f, R, e) EXCEPT !.fieldLength = n + 1] = St(p, r, a, n + 1, Yes, f, R, e)
  BY DEF St
<1>8. [St(p, r, a, n + 1, Yes, f, R, e) EXCEPT !.pos = p + 1] = St(p + 1, r, a, n + 1, Yes, f, R, e)
  BY DEF St
<1>9. [u EXCEPT !.fieldLength = n + 1] = St(p, r, a, n + 1, b, f, R, e)
  BY DEF St
<1> HIDE DEF s, u
<1>10. [u EXCEPT !.doubled = Yes, !.fieldLength = n + 1, !.pos = p + 1] =
         [[[u EXCEPT !.doubled = Yes] EXCEPT !.fieldLength = n + 1] EXCEPT !.pos = p + 1]
  OBVIOUS
<1>11. [u EXCEPT !.doubled = Yes, !.fieldLength = n + 1, !.pos = p + 1] = St(p + 1, r, a, n + 1, Yes, f, R, e)
  BY <1>6, <1>7, <1>8, <1>10
<1>12. t = IF ~k \/ p >= Len(in) THEN s
           ELSE CASE next \in Separators -> u
                  [] next = "quote" -> [u EXCEPT !.doubled = Yes, !.fieldLength = n + 1, !.pos = p + 1]
                  [] OTHER -> [u EXCEPT !.fieldLength = n + 1]
  <2> DEFINE w == [s EXCEPT !.dfa = [[s.dfa EXCEPT !.pendingQuote = FALSE] EXCEPT !.quoted = Flag(in, s.pos) \notin Separators]]
             y == IF next \in Separators THEN No ELSE Yes
  <2>1. (next \notin Separators) = y
    BY Zenon DEF Yes, No
  <2>2. [[s.dfa EXCEPT !.pendingQuote = FALSE] EXCEPT !.quoted = Flag(in, s.pos) \notin Separators] = [[d EXCEPT !.pendingQuote = No] EXCEPT !.quoted = y]
    <3> HIDE DEF y
    <3> QED BY <1>1, <2>1, Zenon DEF No
  <2>3. [[d EXCEPT !.pendingQuote = No] EXCEPT !.quoted = y] = [d EXCEPT !.pendingQuote = No, !.quoted = y]
    <3> HIDE DEF y
    <3> QED OBVIOUS
  <2>4. w = u
    <3> HIDE DEF y
    <3>1. [[s.dfa EXCEPT !.pendingQuote = FALSE] EXCEPT !.quoted = Flag(in, s.pos) \notin Separators] = e
      BY <2>2, <2>3, <1>3, Zenon DEF y
    <3> QED BY <3>1, <1>4, Zenon
  <2>5. t = IF ~s.dfa.pendingQuote \/ s.pos >= Len(in) THEN s
            ELSE CASE Flag(in, s.pos) \in Separators -> u
                   [] Flag(in, s.pos) = "quote" -> [u EXCEPT !.doubled = Yes, !.fieldLength = u.fieldLength + 1, !.pos = u.pos + 1]
                   [] OTHER -> [u EXCEPT !.fieldLength = u.fieldLength + 1]
    <3> DEFINE z == [s EXCEPT !.dfa.pendingQuote = FALSE, !.dfa.quoted = Flag(in, s.pos) \notin Separators]
    <3>1. t = IF ~s.dfa.pendingQuote \/ s.pos >= Len(in) THEN s
            ELSE CASE Flag(in, s.pos) \in Separators -> z
                   [] Flag(in, s.pos) = "quote" -> [z EXCEPT !.doubled = Yes, !.fieldLength = z.fieldLength + 1, !.pos = z.pos + 1]
                   [] OTHER -> [z EXCEPT !.fieldLength = z.fieldLength + 1]
      BY Zenon DEF ResolvePendingQuote, Yes
    <3>2. z = w
      OBVIOUS
    <3>3. z = u
      BY <3>2, <2>4
    <3> HIDE DEF z, w, t
    <3> QED BY <3>1, <3>3
  <2> HIDE DEF w, t
  <2>6. /\ s.dfa.pendingQuote <=> k
        /\ s.pos = p /\ u.pos = p /\ u.fieldLength = n
    BY <1>1, <1>2, <1>5, Zenon
  <2> QED BY <2>5, <2>6
<1>13. next \in Separators => next # "quote"
  BY DEF Separators
<1> HIDE DEF t, next
<1>14. /\ ~k \/ p >= Len(in) => t = s
       /\ k /\ ~(p >= Len(in)) =>
            /\ next \in Separators => t = u
            /\ next = "quote" => t = St(p + 1, r, a, n + 1, Yes, f, R, e)
            /\ next \notin Separators /\ next # "quote" => t = St(p, r, a, n + 1, b, f, R, e)
  <2>1. CASE ~k \/ p >= Len(in)
    BY <1>12, <2>1, Zenon
  <2>2. CASE k /\ ~(p >= Len(in))
    <3>1. t = CASE next \in Separators -> u
                [] next = "quote" -> [u EXCEPT !.doubled = Yes, !.fieldLength = n + 1, !.pos = p + 1]
                [] OTHER -> [u EXCEPT !.fieldLength = n + 1]
      BY <1>12, <2>2, Zenon
    <3>2. next \in Separators => t = u
      BY <3>1, <1>13, Zenon
    <3>3. next = "quote" => t = St(p + 1, r, a, n + 1, Yes, f, R, e)
      BY <3>1, <1>11, <1>13, Zenon
    <3>4. next \notin Separators /\ next # "quote" => t = St(p, r, a, n + 1, b, f, R, e)
      BY <3>1, <1>9, Zenon
    <3> QED BY <2>2, <3>2, <3>3, <3>4, Zenon
  <2> QED BY <2>1, <2>2, Zenon
<1>15. /\ next \in Separators => e = Dfa(No, No, l)
       /\ next \notin Separators => e = Dfa(Yes, No, l)
  BY Zenon DEF e
<1>16. /\ ~k \/ p >= Len(in) => t = s
       /\ k /\ ~(p >= Len(in)) =>
            /\ next \in Separators => t = St(p, r, a, n, b, f, R, Dfa(No, No, l))
            /\ next = "quote" => t = St(p + 1, r, a, n + 1, Yes, f, R, Dfa(Yes, No, l))
            /\ next \notin Separators /\ next # "quote" => t = St(p, r, a, n + 1, b, f, R, Dfa(Yes, No, l))
  BY <1>13, <1>14, <1>15, Zenon DEF u
<1> QED BY <1>16, Zenon DEF s, t, d, next

LEMMA BeginIsGood ==
    ASSUME NEW in \in Seq(Sym), NEW q, NEW k, NEW l \in {Yes, No}, NEW scanBom
    PROVE  Good(in, Begin(in, Dfa(q, k, l), scanBom))
<1> DEFINE d == Dfa(q, k, l)
           s == StripBom(in, FreshAt(0, d), scanBom)
           t == ResolvePendingLinefeed(in, s)
           u == ResolvePendingQuote(in, t)
<1>0. Len(in) \in Nat
  BY LenProperties
<1>1. \E p \in {0, 1} : p <= Len(in) /\ s = St(p, 0, Unset, 0, No, <<>>, <<>>, d)
  <2>1. CASE scanBom /\ Flag(in, 0) = "bom"
    <3>1. s = St(1, 0, Unset, 0, No, <<>>, <<>>, d)
      BY <2>1, StripBomIs, Zenon
    <3>2. 0 < Len(in)
      BY <2>1, FlagIs
    <3>3. 1 <= Len(in) /\ 1 \in {0, 1}
      BY <3>2, <1>0
    <3> HIDE DEF s, d
    <3> QED BY <3>1, <3>3
  <2>2. CASE ~(scanBom /\ Flag(in, 0) = "bom")
    <3>1. s = St(0, 0, Unset, 0, No, <<>>, <<>>, d)
      BY <2>2, StripBomIs, Zenon DEF FreshAt
    <3>2. 0 <= Len(in) /\ 0 \in {0, 1}
      BY <1>0
    <3> HIDE DEF s, d
    <3> QED BY <3>1, <3>2
  <2> QED BY <2>1, <2>2
<1>2. PICK p \in {0, 1} : p <= Len(in) /\ s = St(p, 0, Unset, 0, No, <<>>, <<>>, Dfa(q, k, l))
  BY <1>1
<1> HIDE DEF s
<1>3. \E p1 \in 0..Len(in) : \E r1 \in 0..p1, l1 \in {Yes, No} :
         t = St(p1, r1, Unset, 0, No, <<>>, <<>>, Dfa(q, k, l1))
  <2> DEFINE x == St(p, 0, Unset, 0, No, <<>>, <<>>, Dfa(q, k, l))
  <2>1. /\ ~l \/ p >= Len(in) => ResolvePendingLinefeed(in, x) = x
        /\ l /\ ~(p >= Len(in)) /\ Flag(in, p) = "lf" =>
             ResolvePendingLinefeed(in, x) = St(p + 1, p + 1, Unset, 0, No, <<>>, <<>>, Dfa(q, k, No))
        /\ l /\ ~(p >= Len(in)) /\ Flag(in, p) # "lf" =>
             ResolvePendingLinefeed(in, x) = St(p, 0, Unset, 0, No, <<>>, <<>>, Dfa(q, k, No))
    BY PendingLinefeedIs
  <2>2. t = ResolvePendingLinefeed(in, x)
    BY <1>2
  <2> HIDE DEF t, x
  <2>3. p \in Nat /\ p \in 0..Len(in) /\ 0 \in 0..p /\ p + 1 \in 0..(p + 1)
    BY <1>0, <1>2
  <2>4. CASE ~l \/ p >= Len(in)
    <3>1. t = St(p, 0, Unset, 0, No, <<>>, <<>>, Dfa(q, k, l))
      BY <2>1, <2>2, <2>4, Zenon DEF x
    <3> QED BY <2>3, <3>1
  <2>5. CASE l /\ ~(p >= Len(in)) /\ Flag(in, p) = "lf"
    <3>1. t = St(p + 1, p + 1, Unset, 0, No, <<>>, <<>>, Dfa(q, k, No))
      BY <2>1, <2>2, <2>5, Zenon
    <3>2. p + 1 \in 0..Len(in)
      BY <2>3, <2>5, <1>0
    <3> QED BY <2>3, <3>1, <3>2
  <2>6. CASE l /\ ~(p >= Len(in)) /\ Flag(in, p) # "lf"
    <3>1. t = St(p, 0, Unset, 0, No, <<>>, <<>>, Dfa(q, k, No))
      BY <2>1, <2>2, <2>6, Zenon
    <3> QED BY <2>3, <3>1
  <2> QED BY <2>4, <2>5, <2>6, Zenon
<1>4a. PICK p1 \in 0..Len(in) : \E r1 \in 0..p1, l1 \in {Yes, No} :
         t = St(p1, r1, Unset, 0, No, <<>>, <<>>, Dfa(q, k, l1))
  BY <1>3
<1>4. PICK r1 \in 0..p1, l1 \in {Yes, No} :
         t = St(p1, r1, Unset, 0, No, <<>>, <<>>, Dfa(q, k, l1))
  BY <1>4a
<1> HIDE DEF t
<1>5. Good(in, u)
  <2> DEFINE x == St(p1, r1, Unset, 0, No, <<>>, <<>>, Dfa(q, k, l1))
             next == Flag(in, p1)
  <2>1. /\ ~k \/ p1 >= Len(in) => ResolvePendingQuote(in, x) = x
        /\ k /\ ~(p1 >= Len(in)) =>
             /\ next \in Separators =>
                  ResolvePendingQuote(in, x) = St(p1, r1, Unset, 0, No, <<>>, <<>>, Dfa(No, No, l1))
             /\ next = "quote" =>
                  ResolvePendingQuote(in, x) = St(p1 + 1, r1, Unset, 0 + 1, Yes, <<>>, <<>>, Dfa(Yes, No, l1))
             /\ next \notin Separators /\ next # "quote" =>
                  ResolvePendingQuote(in, x) = St(p1, r1, Unset, 0 + 1, No, <<>>, <<>>, Dfa(Yes, No, l1))
    BY PendingQuoteIs
  <2>2. u = ResolvePendingQuote(in, x)
    BY <1>4
  <2>3. /\ IsSeq(<<>>) /\ 0 \in Nat /\ 0 + 1 \in Nat /\ 0 + 1 > 0 /\ Yes \in {Yes, No} /\ No \in {Yes, No}
        /\ (No = Yes => 0 > 0) /\ (No = Yes => 0 + 1 > 0)
        /\ (Unset # Unset => Unset \in Nat /\ r1 + Unset <= p1)
    BY EmptyIsSeq, YesIsNotNo
  <2> RowsBefore(<<>>, r1)
    BY DEF RowsBefore
  <2>4. ASSUME NEW n1 \in Nat, NEW b1 \in {Yes, No}, NEW q1, NEW k1, b1 = Yes => n1 > 0
        PROVE  /\ Good(in, St(p1, r1, Unset, n1, b1, <<>>, <<>>, Dfa(q1, k1, l1)))
               /\ p1 < Len(in) => Good(in, St(p1 + 1, r1, Unset, n1, b1, <<>>, <<>>, Dfa(q1, k1, l1)))
    <3>1. Good(in, St(p1, r1, Unset, n1, b1, <<>>, <<>>, Dfa(q1, k1, l1)))
      BY <1>0, <2>3, <2>4, GoodMade
    <3>2. ASSUME p1 < Len(in) PROVE Good(in, St(p1 + 1, r1, Unset, n1, b1, <<>>, <<>>, Dfa(q1, k1, l1)))
      <4> DEFINE p2 == p1 + 1
      <4>1. p2 \in 0..Len(in) /\ r1 \in 0..p2
        BY <3>2, <1>0
      <4> HIDE DEF p2
      <4>2. Good(in, St(p2, r1, Unset, n1, b1, <<>>, <<>>, Dfa(q1, k1, l1)))
        BY <1>0, <2>3, <2>4, <4>1, GoodMade
      <4> QED BY <4>2 DEF p2
    <3> QED BY <3>1, <3>2
  <2> HIDE DEF u
  <2>5. CASE ~k \/ p1 >= Len(in)
    <3>1. u = St(p1, r1, Unset, 0, No, <<>>, <<>>, Dfa(q, k, l1))
      BY <2>1, <2>2, <2>5, Zenon
    <3> QED BY <3>1, <2>3, <2>4
  <2>6. CASE k /\ ~(p1 >= Len(in))
    <3>0. p1 < Len(in)
      BY <2>6, <1>0
    <3>1. CASE next \in Separators
      <4>1. u = St(p1, r1, Unset, 0, No, <<>>, <<>>, Dfa(No, No, l1))
        BY <2>1, <2>2, <2>6, <3>1, Zenon
      <4> QED BY <4>1, <2>3, <2>4
    <3>2. CASE next = "quote"
      <4>1. u = St(p1 + 1, r1, Unset, 0 + 1, Yes, <<>>, <<>>, Dfa(Yes, No, l1))
        BY <2>1, <2>2, <2>6, <3>2, Zenon
      <4> QED BY <4>1, <2>3, <2>4, <3>0
    <3>3. CASE next \notin Separators /\ next # "quote"
      <4>1. u = St(p1, r1, Unset, 0 + 1, No, <<>>, <<>>, Dfa(Yes, No, l1))
        BY <2>1, <2>2, <2>6, <3>3, Zenon
      <4> QED BY <4>1, <2>3, <2>4
    <3> QED BY <3>1, <3>2, <3>3
  <2> QED BY <2>5, <2>6
<1>6. u = Begin(in, d, scanBom)
  BY BeginFrom, Zenon DEF s, t
<1> QED BY <1>5, <1>6

LEMMA ParseIsGood ==
    ASSUME NEW in \in Seq(Sym), NEW q, NEW k, NEW l \in {Yes, No}, NEW scanBom
    PROVE  Good(in, Parse(in, Dfa(q, k, l), scanBom)) /\ Stopped(in, Parse(in, Dfa(q, k, l), scanBom))
<1> DEFINE d == Dfa(q, k, l)
           b == Begin(in, d, scanBom)
<1>1. Len(in) \in Nat /\ Len(in) + 1 \in Nat
  BY LenProperties
<1>2. Good(in, b)
  BY BeginIsGood
<1> HIDE DEF d
<1>3. Parse(in, d, scanBom) = At(in, b, Len(in) + 1)
  BY <1>1, ParseIs
<1> HIDE DEF b
<1>4. Good(in, At(in, b, Len(in) + 1)) /\ Stopped(in, At(in, b, Len(in) + 1))
  BY <1>1, <1>2, RunIsGood, RunStops
<1>5. Good(in, Parse(in, d, scanBom)) /\ Stopped(in, Parse(in, d, scanBom))
  BY <1>3, <1>4
<1> QED BY <1>5 DEF d

-----------------------------------------------------------------------------
(* What a window reads.                                                    *)

LEMMA MinIs ==
    ASSUME NEW a \in Int, NEW b \in Int
    PROVE  Min({a, b}) = IF a < b THEN a ELSE b
<1> DEFINE m == IF a < b THEN a ELSE b
           c == CHOOSE x \in {a, b} : \A y \in {a, b} : x =< y
<1>1. m \in {a, b} /\ \A y \in {a, b} : m =< y
  OBVIOUS
<1>2. c \in {a, b} /\ \A y \in {a, b} : c =< y
  <2>1. \E x \in {a, b} : \A y \in {a, b} : x =< y
    <3> HIDE DEF m
    <3> QED BY <1>1
  <2> QED BY <2>1, Zenon
<1>3. Min({a, b}) = c
  BY Zenon DEF Min
<1> HIDE DEF c
<1> QED BY <1>2, <1>3

-----------------------------------------------------------------------------
(* Where the source is read from: the bytes kept are those before pos. *)
Position(inp, p, h, cutShort) ==
    /\ p \in 0..Len(inp.source)
    /\ inp.kind = "mmap" =>
          h = <<>> \/ (p = 0 /\ h = SubSeq(inp.source, 1, Min({inp.head, Len(inp.source)})))
    /\ inp.kind = "stream" =>
          /\ h \in Seq(Sym) /\ Len(h) <= p
          /\ h = Cut(inp.source, p - Len(h), p)
    /\ inp.kind = "stream" /\ cutShort => p = Len(inp.source)

LEMMA InputIs ==
    ASSUME NEW inp \in Inputs
    PROVE  /\ inp.source \in Seq(Sym) /\ Len(inp.source) \in Nat
           /\ inp.kind \in {"mmap", "stream"}
           /\ inp.head \in Nat /\ inp.head > 0 /\ inp.chunk \in Nat /\ inp.head <= inp.chunk
           /\ Cardinality(inp.workers) \in Nat /\ Cardinality(inp.workers) >= 1
           /\ inp.chunk * Cardinality(inp.workers) \in Nat
           /\ inp.chunk <= inp.chunk * Cardinality(inp.workers)
<1>1. /\ inp.source \in Seq(Byte \cup {"bom"}) /\ inp.kind \in {"mmap", "stream"}
      /\ inp.head \in Nat /\ inp.chunk \in Nat /\ 0 < inp.head /\ inp.head <= inp.chunk
      /\ IsFiniteSet(inp.workers) /\ inp.workers # {}
  BY WindowsAssumption
<1>2. inp.source \in Seq(Sym) /\ Len(inp.source) \in Nat
  BY <1>1, LenProperties DEF Sym
<1>3. Cardinality(inp.workers) \in Nat /\ Cardinality(inp.workers) # 0
  BY <1>1, FS_CardinalityType, FS_EmptySet
<1> DEFINE c == inp.chunk
           w == Cardinality(inp.workers)
<1>4. c \in Nat /\ w \in Nat /\ w >= 1
  BY <1>1, <1>3
<1> HIDE DEF c, w
<1>5. c * w \in Nat /\ c <= c * w
  BY <1>4, Z3
<1> QED BY <1>1, <1>2, <1>4, <1>5 DEF c, w

DfaOK(d) == \E q, k : \E l \in {Yes, No} : d = Dfa(q, k, l)

LEMMA EndsInDfa ==
    ASSUME NEW in, NEW s, Good(in, s)
    PROVE  DfaOK(s.dfa)
<1>1. s.dfa = Dfa(s.dfa.quoted, s.dfa.pendingQuote, s.dfa.pendingLinefeed) /\ s.dfa.pendingLinefeed \in {Yes, No}
  BY GoodState DEF Good
<1> QED BY <1>1 DEF DfaOK

LEMMA OutsideInside == DfaOK(Outside) /\ DfaOK(Inside)
<1>1. Outside = Dfa(No, No, No)
  BY OutsideIs
<1>2. Inside = Dfa(Yes, No, No)
  <2>1. Inside = [Outside EXCEPT !.quoted = Yes]
    BY Zenon DEF Inside, Yes
  <2>2. [Dfa(No, No, No) EXCEPT !.quoted = Yes] = Dfa(Yes, No, No)
    BY DEF Dfa
  <2> QED BY <1>1, <2>1, <2>2
<1> QED BY <1>1, <1>2 DEF DfaOK

(* The fragments, without their truth values. *)
Frag(bytes, offset, present) == [bytes |-> bytes, offset |-> offset, present |-> present]

LEMMA FragmentIs ==
    /\ NoFragment = Frag(<<>>, 0, No)
    /\ \A bytes, offset : Fragment(bytes, offset) = Frag(bytes, offset, Yes)
BY Zenon DEF NoFragment, Fragment, Frag, Yes, No

LEMMA FragMembers ==
    ASSUME NEW x, NEW y, NEW z
    PROVE  Frag(x, y, z).bytes = x /\ Frag(x, y, z).offset = y /\ Frag(x, y, z).present = z
BY DEF Frag

LEMMA NoFragmentIs == ~NoFragment.present
<1>1. NoFragment.present = No
  BY FragmentIs, FragMembers
<1> QED BY <1>1, TruthValues, Zenon

LEMMA AFragmentIs ==
    ASSUME NEW x, NEW y
    PROVE  Fragment(x, y).present /\ Fragment(x, y).offset = y /\ Fragment(x, y).bytes = x
<1>1. Fragment(x, y) = Frag(x, y, Yes)
  BY FragmentIs
<1>2. Fragment(x, y).present = Yes /\ Fragment(x, y).offset = y /\ Fragment(x, y).bytes = x
  BY <1>1, FragMembers
<1> QED BY <1>2, TruthValues, Zenon

LEMMA NoFields == Fields(<<>>) = <<>>
BY DEF Fields

ChunkShape(c) == c = [offset |-> c.offset, bytes |-> c.bytes, atRecordStart |-> c.atRecordStart, scanBom |-> c.scanBom]

(* What a parsed chunk is. *)
LEMMA PartIs ==
    ASSUME NEW c, ChunkShape(c), c.bytes \in Seq(Sym), c.offset \in Nat, NEW initial, NEW s, Good(c.bytes, s)
    PROVE  LET part == SplitRows(c, initial, s)
           IN  /\ ChunkShape(part.chunk) /\ part.chunk.bytes = c.bytes /\ part.chunk.offset = c.offset
               /\ c.atRecordStart => part.chunk.atRecordStart /\ ~part.prefix.present
               /\ part.ending = s.dfa
               /\ part.completePrefix = s.rowStart
               /\ part.rows = <<>> \/ s.rowStart > 0
               /\ part.prefix.present => part.prefix.offset \in c.offset..(c.offset + Len(c.bytes))
               /\ part.suffix.present => part.suffix.offset = c.offset + s.rowStart
<1> DEFINE atStart == c.atRecordStart \/ initial.pendingLinefeed
           inside == ~atStart /\ s.rows = <<>>
           prefix == IF atStart THEN NoFragment
                     ELSE IF inside THEN Fragment(c.bytes, c.offset)
                     ELSE Fragment(RawBytes(c.bytes, s.rows[1]), c.offset + s.rows[1].start)
           suffix == IF inside \/ s.rowStart >= Len(c.bytes) THEN NoFragment
                     ELSE Fragment(SubSeq(c.bytes, s.rowStart + 1, Len(c.bytes)), c.offset + s.rowStart)
           rows == Fields(IF atStart \/ inside THEN s.rows ELSE Tail(s.rows))
           chunk == [c EXCEPT !.atRecordStart = atStart]
           part == SplitRows(c, initial, s)
<1>1. part = [chunk |-> chunk, initial |-> initial, ending |-> s.dfa, completePrefix |-> s.rowStart,
              prefix |-> prefix, rows |-> rows, suffix |-> suffix]
  BY Zenon DEF SplitRows
<1>2. ChunkShape(chunk) /\ chunk.bytes = c.bytes /\ chunk.offset = c.offset /\ chunk.atRecordStart = atStart
  <2> DEFINE a == c.offset  b == c.bytes  e == c.scanBom  f == c.atRecordStart
  <2>1. c = [offset |-> a, bytes |-> b, atRecordStart |-> f, scanBom |-> e]
    BY Zenon DEF ChunkShape
  <2> HIDE DEF a, b, e, f, atStart
  <2>2. chunk = [offset |-> a, bytes |-> b, atRecordStart |-> atStart, scanBom |-> e]
    BY <2>1
  <2>3. chunk.offset = a /\ chunk.bytes = b /\ chunk.atRecordStart = atStart /\ chunk.scanBom = e
    BY <2>2
  <2> HIDE DEF chunk
  <2>4. ChunkShape(chunk)
    BY <2>2, <2>3, Zenon DEF ChunkShape
  <2> QED BY <2>3, <2>4, Zenon DEF a, b
<1>3. /\ s.rowStart \in Nat /\ IsSeq(s.rows) /\ (s.rows # <<>> => s.rowStart > 0)
      /\ RowsBefore(s.rows, s.rowStart) /\ s.rowStart <= Len(c.bytes) /\ Len(c.bytes) \in Nat
  BY LenProperties DEF Good
<1> HIDE DEF chunk
<1>4. c.atRecordStart => chunk.atRecordStart /\ ~prefix.present
  <2>1. ASSUME c.atRecordStart PROVE chunk.atRecordStart /\ ~prefix.present
    <3>1. atStart
      BY <2>1, Zenon
    <3>2. prefix = NoFragment
      BY <3>1, Zenon
    <3> HIDE DEF prefix, atStart
    <3> QED BY <1>2, <3>1, <3>2, NoFragmentIs, Zenon
  <2> QED BY <2>1
<1>5. rows = <<>> \/ s.rowStart > 0
  <2>1. CASE s.rows = <<>>
    <3>1. atStart \/ inside
      BY <2>1, Zenon
    <3>2. rows = Fields(s.rows)
      BY <3>1, Zenon
    <3> HIDE DEF rows
    <3> QED BY <2>1, <3>2, NoFields
  <2>2. CASE s.rows # <<>>
    BY <1>3, <2>2
  <2> QED BY <2>1, <2>2
<1>6. prefix.present => prefix.offset \in c.offset..(c.offset + Len(c.bytes))
  <2>1. CASE atStart
    <3>1. prefix = NoFragment
      BY <2>1, Zenon
    <3> HIDE DEF prefix
    <3> QED BY <3>1, NoFragmentIs, Zenon
  <2>2. CASE inside
    <3>1. prefix = Fragment(c.bytes, c.offset)
      BY <2>2, Zenon
    <3> HIDE DEF prefix
    <3>2. prefix.offset = c.offset
      BY <3>1, AFragmentIs
    <3> QED BY <1>3, <3>2
  <2>3. CASE ~atStart /\ ~inside
    <3>1. prefix = Fragment(RawBytes(c.bytes, s.rows[1]), c.offset + s.rows[1].start)
      BY <2>3, Zenon
    <3> HIDE DEF prefix
    <3>2. prefix.offset = c.offset + s.rows[1].start
      BY <3>1, AFragmentIs
    <3>3. s.rows # <<>>
      BY <2>3, Zenon
    <3>4. 1 \in 1..Len(s.rows)
      <4>1. PICK S : s.rows \in Seq(S)
        BY <1>3 DEF IsSeq
      <4> QED BY <3>3, <4>1, EmptySeq, LenProperties
    <3>5. s.rows[1].start \in Nat /\ s.rows[1].start < s.rowStart
      BY <1>3, <3>4 DEF RowsBefore
    <3> QED BY <1>3, <3>2, <3>5
  <2> QED BY <2>1, <2>2, <2>3
<1>7. suffix.present => suffix.offset = c.offset + s.rowStart
  <2>1. CASE inside \/ s.rowStart >= Len(c.bytes)
    <3>1. suffix = NoFragment
      BY <2>1, Zenon
    <3> HIDE DEF suffix
    <3> QED BY <3>1, NoFragmentIs, Zenon
  <2>2. CASE ~(inside \/ s.rowStart >= Len(c.bytes))
    <3>1. suffix = Fragment(SubSeq(c.bytes, s.rowStart + 1, Len(c.bytes)), c.offset + s.rowStart)
      BY <2>2, Zenon
    <3> HIDE DEF suffix
    <3> QED BY <3>1, AFragmentIs
  <2> QED BY <2>1, <2>2
<1> HIDE DEF prefix, suffix, rows
<1>8. /\ part.chunk = chunk /\ part.ending = s.dfa /\ part.completePrefix = s.rowStart
      /\ part.prefix = prefix /\ part.rows = rows /\ part.suffix = suffix
  BY <1>1
<1> HIDE DEF part
<1>9. /\ ChunkShape(part.chunk) /\ part.chunk.bytes = c.bytes /\ part.chunk.offset = c.offset
      /\ c.atRecordStart => part.chunk.atRecordStart /\ ~part.prefix.present
      /\ part.ending = s.dfa
      /\ part.completePrefix = s.rowStart
      /\ part.rows = <<>> \/ s.rowStart > 0
      /\ part.prefix.present => part.prefix.offset \in c.offset..(c.offset + Len(c.bytes))
      /\ part.suffix.present => part.suffix.offset = c.offset + s.rowStart
  BY <1>2, <1>4, <1>5, <1>6, <1>7, <1>8, Zenon
<1> QED BY <1>9, Zenon DEF part

-----------------------------------------------------------------------------
(* A chunk of the window, the i-th. *)
ChunkAt(base, length, c, i) ==
    /\ ChunkShape(c) /\ c.bytes \in Seq(Sym) /\ c.offset \in Nat
    /\ base <= c.offset /\ c.offset + Len(c.bytes) <= base + length
    /\ IF i = 1 THEN c.atRecordStart ELSE base < c.offset

(* The chunk as it was parsed, from whatever state. *)
PartAt(base, length, part, i) ==
    /\ ChunkAt(base, length, part.chunk, i)
    /\ DfaOK(part.ending)
    /\ part.completePrefix \in 0..Len(part.chunk.bytes)
    /\ part.rows = <<>> \/ part.completePrefix > 0
    /\ part.prefix.present =>
          i # 1 /\ part.prefix.offset \in part.chunk.offset..(part.chunk.offset + Len(part.chunk.bytes))
    /\ part.suffix.present => part.suffix.offset = part.chunk.offset + part.completePrefix

LEMMA ParseChunkIs ==
    ASSUME NEW base \in Nat, NEW length \in Nat, NEW i, NEW c, ChunkAt(base, length, c, i),
           NEW d, DfaOK(d), NEW scanBom
    PROVE  PartAt(base, length, ParseChunk(c, d, scanBom), i)
<1> DEFINE s == Parse(c.bytes, d, scanBom)
           part == SplitRows(c, d, s)
<1>1. Good(c.bytes, s)
  <2>1. PICK q, k : \E l \in {Yes, No} : d = Dfa(q, k, l)
    BY DEF DfaOK
  <2>2. PICK l \in {Yes, No} : d = Dfa(q, k, l)
    BY <2>1
  <2>3. c.bytes \in Seq(Sym)
    BY DEF ChunkAt
  <2>4. Good(c.bytes, Parse(c.bytes, Dfa(q, k, l), scanBom))
    BY <2>3, ParseIsGood
  <2> QED BY <2>2, <2>4
<1>2. ParseChunk(c, d, scanBom) = part
  BY Zenon DEF ParseChunk
<1> HIDE DEF s
<1>3. /\ ChunkShape(part.chunk) /\ part.chunk.bytes = c.bytes /\ part.chunk.offset = c.offset
      /\ c.atRecordStart => part.chunk.atRecordStart /\ ~part.prefix.present
      /\ part.ending = s.dfa
      /\ part.completePrefix = s.rowStart
      /\ part.rows = <<>> \/ s.rowStart > 0
      /\ part.prefix.present => part.prefix.offset \in c.offset..(c.offset + Len(c.bytes))
      /\ part.suffix.present => part.suffix.offset = c.offset + s.rowStart
  <2>1. ChunkShape(c) /\ c.bytes \in Seq(Sym) /\ c.offset \in Nat
    BY DEF ChunkAt
  <2> QED BY <1>1, <2>1, PartIs
<1> HIDE DEF part
<1>4. ChunkAt(base, length, part.chunk, i)
  BY <1>3, Zenon DEF ChunkAt
<1>5. DfaOK(part.ending)
  BY <1>1, <1>3, EndsInDfa
<1>6. s.rowStart \in 0..Len(c.bytes)
  BY <1>1, LenProperties DEF Good, ChunkAt
<1>7. part.prefix.present => i # 1
  BY <1>3, Zenon DEF ChunkAt
<1>8. PartAt(base, length, part, i)
  BY <1>3, <1>4, <1>5, <1>6, <1>7, Zenon DEF PartAt
<1> QED BY <1>2, <1>8

-----------------------------------------------------------------------------
(* The validator's record still incomplete lies in the window, and not at  *)
(* its start once rows were released.                                      *)
ValidatorShape(v) == v = [expected |-> v.expected, pending |-> v.pending, released |-> v.released]
Validated(base, length, v) ==
    /\ ValidatorShape(v) /\ DfaOK(v.expected)
    /\ v.pending.present =>
          /\ v.pending.offset \in base..(base + length)
          /\ v.released = <<>> \/ base < v.pending.offset

LEMMA ReleaseKeeps ==
    ASSUME NEW base \in Nat, NEW length \in Nat, NEW i, NEW part, PartAt(base, length, part, i),
           NEW v, Validated(base, length, v), i = 1 => v.released = <<>>
    PROVE  Validated(base, length, Release(v, part))
<1> DEFINE pending == Concatenate(v.pending, part.prefix)
           joined == [v EXCEPT !.pending = pending, !.expected = part.ending]
           done == IF part.prefix.present THEN ReleasePending(joined) ELSE joined
           r == Release(v, part)
           M(e, p, x) == [expected |-> e, pending |-> p, released |-> x]
<1>0. \A e, p, x : M(e, p, x).expected = e /\ M(e, p, x).pending = p /\ M(e, p, x).released = x
  OBVIOUS
<1>1. joined = M(part.ending, pending, v.released)
  <2> DEFINE e == v.expected  p == v.pending  x == v.released
  <2>1. v = [expected |-> e, pending |-> p, released |-> x]
    BY Zenon DEF Validated, ValidatorShape
  <2> HIDE DEF e, p, x, pending
  <2>2. [v EXCEPT !.pending = pending] = [expected |-> e, pending |-> pending, released |-> x]
    BY <2>1
  <2>3. [[expected |-> e, pending |-> pending, released |-> x] EXCEPT !.expected = part.ending] = [expected |-> part.ending, pending |-> pending, released |-> x]
    OBVIOUS
  <2>4. joined = [[v EXCEPT !.pending = pending] EXCEPT !.expected = part.ending]
    OBVIOUS
  <2> QED BY <2>2, <2>3, <2>4 DEF x
<1> HIDE DEF pending, joined
<1>2. r = IF part.prefix.present /\ part.completePrefix = 0 THEN joined
          ELSE [done EXCEPT !.released = done.released \o part.rows, !.pending = part.suffix]
  BY Zenon DEF Release, joined, pending
<1>3. \E x : done = M(part.ending, IF part.prefix.present THEN NoFragment ELSE pending, x)
             /\ (~part.prefix.present => x = v.released)
  <2>1. CASE part.prefix.present
    <3>1. done = ReleasePending(joined)
      BY <2>1, Zenon
    <3> DEFINE y == joined.released \o Materialize(joined.pending)
    <3>2. ReleasePending(joined) = [joined EXCEPT !.released = y, !.pending = NoFragment]
      BY Zenon DEF ReleasePending
    <3> HIDE DEF y, done
    <3>3. [joined EXCEPT !.released = y] = M(part.ending, pending, y)
      BY <1>1
    <3>4. [M(part.ending, pending, y) EXCEPT !.pending = NoFragment] = M(part.ending, NoFragment, y)
      OBVIOUS
    <3>5. [joined EXCEPT !.released = y, !.pending = NoFragment] = [[joined EXCEPT !.released = y] EXCEPT !.pending = NoFragment]
      OBVIOUS
    <3> HIDE DEF M
    <3>6. done = M(part.ending, NoFragment, y)
      BY <3>1, <3>2, <3>3, <3>4, <3>5
    <3> QED BY <2>1, <3>6, Zenon
  <2>2. CASE ~part.prefix.present
    <3>1. done = joined
      BY <2>2, Zenon
    <3> HIDE DEF done, M
    <3> QED BY <1>1, <2>2, <3>1, Zenon
  <2> QED BY <2>1, <2>2
<1>4. PICK x : done = M(part.ending, IF part.prefix.present THEN NoFragment ELSE pending, x)
             /\ (~part.prefix.present => x = v.released)
  BY <1>3
<1> HIDE DEF done
<1>5. [done EXCEPT !.released = done.released \o part.rows, !.pending = part.suffix] =
        M(part.ending, part.suffix, x \o part.rows)
  <2> DEFINE p == IF part.prefix.present THEN NoFragment ELSE pending
             y == x \o part.rows
  <2>1. done.released = x
    BY <1>0, <1>4, Zenon
  <2> HIDE DEF p, y
  <2>2. [M(part.ending, p, x) EXCEPT !.released = y] = M(part.ending, p, y)
    OBVIOUS
  <2>3. [M(part.ending, p, y) EXCEPT !.pending = part.suffix] = M(part.ending, part.suffix, y)
    OBVIOUS
  <2>4. [done EXCEPT !.released = y, !.pending = part.suffix] = [[done EXCEPT !.released = y] EXCEPT !.pending = part.suffix]
    OBVIOUS
  <2>5. done = M(part.ending, p, x)
    BY <1>4, Zenon DEF p
  <2> HIDE DEF M
  <2>6. [done EXCEPT !.released = y, !.pending = part.suffix] = M(part.ending, part.suffix, y)
    BY <2>2, <2>3, <2>4, <2>5
  <2> QED BY <2>1, <2>6 DEF y
<1>6. DfaOK(part.ending) /\ part.completePrefix \in 0..Len(part.chunk.bytes)
  BY DEF PartAt
<1>7. /\ part.chunk.offset \in Nat /\ Len(part.chunk.bytes) \in Nat
      /\ base <= part.chunk.offset /\ part.chunk.offset + Len(part.chunk.bytes) <= base + length
      /\ i # 1 => base < part.chunk.offset
  <2>1. ChunkAt(base, length, part.chunk, i)
    BY DEF PartAt
  <2> QED BY <2>1, LenProperties DEF ChunkAt
<1>8. ASSUME NEW e, NEW p, NEW y, DfaOK(e),
             p.present => p.offset \in base..(base + length) /\ (y = <<>> \/ base < p.offset)
      PROVE  Validated(base, length, M(e, p, y))
  <2> DEFINE m == M(e, p, y)
  <2>1. m.expected = e /\ m.pending = p /\ m.released = y
    OBVIOUS
  <2>2. ValidatorShape(m)
    BY <2>1 DEF ValidatorShape
  <2> HIDE DEF m
  <2>3. Validated(base, length, m)
    BY <1>8, <2>1, <2>2, Zenon DEF Validated
  <2> QED BY <2>3 DEF m
<1> HIDE DEF M
<1>9. CASE part.prefix.present /\ part.completePrefix = 0
  <2>1. r = M(part.ending, pending, v.released)
    BY <1>1, <1>2, <1>9, Zenon
  <2>2. i # 1 /\ part.prefix.offset \in part.chunk.offset..(part.chunk.offset + Len(part.chunk.bytes))
    BY <1>9 DEF PartAt
  <2> DEFINE f == part.prefix.offset  g == part.chunk.offset  n == Len(part.chunk.bytes)
  <2>2a. f \in g..(g + n) /\ g \in Nat /\ n \in Nat /\ base < g /\ g + n <= base + length
    BY <1>7, <2>2
  <2> HIDE DEF f, g, n
  <2>2b. f \in base..(base + length) /\ base < f
    BY <2>2a
  <2>3. part.prefix.offset \in base..(base + length) /\ base < part.prefix.offset
    BY <2>2b DEF f
  <2>4. pending.present => pending.offset \in base..(base + length) /\ (v.released = <<>> \/ base < pending.offset)
    <3>1. CASE ~v.pending.present
      <4>1. pending = part.prefix
        BY <3>1, Zenon DEF pending, Concatenate
      <4> QED BY <2>3, <4>1, Zenon
    <3>2. CASE v.pending.present
      <4>1. pending = Fragment(v.pending.bytes \o part.prefix.bytes, v.pending.offset)
        BY <1>9, <3>2, Zenon DEF pending, Concatenate
      <4>2. pending.offset = v.pending.offset
        BY <4>1, AFragmentIs
      <4>3. v.pending.offset \in base..(base + length) /\ (v.released = <<>> \/ base < v.pending.offset)
        BY <3>2, Zenon DEF Validated
      <4> QED BY <4>2, <4>3, Zenon
    <3> QED BY <3>1, <3>2
  <2>5. Validated(base, length, r)
    BY <1>6, <1>8, <2>1, <2>4, Zenon
  <2> QED BY <2>5
<1>10. CASE ~(part.prefix.present /\ part.completePrefix = 0)
  <2> DEFINE y == x \o part.rows
  <2>1. r = M(part.ending, part.suffix, y)
    BY <1>2, <1>5, <1>10, Zenon
  <2>2. part.suffix.present => part.suffix.offset \in base..(base + length) /\ (y = <<>> \/ base < part.suffix.offset)
    <3>1. ASSUME part.suffix.present
          PROVE  part.suffix.offset \in base..(base + length) /\ (y = <<>> \/ base < part.suffix.offset)
      <4>1. part.suffix.offset = part.chunk.offset + part.completePrefix
        BY <3>1, Zenon DEF PartAt
      <4>2. part.suffix.offset \in base..(base + length)
        BY <1>6, <1>7, <4>1
      <4>3. CASE i # 1
        BY <1>6, <1>7, <4>1, <4>3
      <4>4. CASE i = 1
        <5>1. ~part.prefix.present
          BY <4>4, Zenon DEF PartAt
        <5>2. x = <<>>
          BY <1>4, <4>4, <5>1
        <5>3. CASE part.rows = <<>>
          BY <4>2, <5>2, <5>3
        <5>4. CASE part.completePrefix > 0
          BY <1>6, <1>7, <4>1, <4>2, <5>4
        <5>5. part.rows = <<>> \/ part.completePrefix > 0
          BY DEF PartAt
        <5> QED BY <5>3, <5>4, <5>5
      <4> QED BY <4>2, <4>3, <4>4
    <3> QED BY <3>1
  <2> HIDE DEF y
  <2>3. Validated(base, length, r)
    BY <1>6, <1>8, <2>1, <2>2, Zenon
  <2> QED BY <2>3
<1> QED BY <1>9, <1>10

(* What a read gives: bytes of the source from where the last window's     *)
(* complete records ended, up to past.                                     *)
IsRead(inp, p, h, r) ==
    /\ r.base = (IF inp.kind = "mmap" THEN p ELSE p - Len(h))
    /\ r.base \in Nat /\ r.past \in r.base..Len(inp.source)
    /\ r.bytes = Cut(inp.source, r.base, r.past)
    /\ r.exhausted => r.past = Len(inp.source)
    /\ ~r.exhausted => r.bytes # <<>>
    /\ inp.kind = "stream" /\ r.short => r.past = Len(inp.source)

LEMMA CutIsSeq ==
    ASSUME NEW s \in Seq(Sym), NEW a \in Nat, NEW b \in a..Len(s)
    PROVE  Cut(s, a, b) \in Seq(Sym) /\ Len(Cut(s, a, b)) = b - a
BY CutFacts

LEMMA BytesIs ==
    ASSUME NEW s \in Seq(Sym), NEW p \in 0..Len(s), NEW n \in Nat
    PROVE  LET e == IF p + n < Len(s) THEN p + n ELSE Len(s)
           IN  /\ Min({p + n, Len(s)}) = e
               /\ e \in p..Len(s)
               /\ SubSeq(s, p + 1, Min({p + n, Len(s)})) = Cut(s, p, e)
               /\ Len(Cut(s, p, e)) = e - p
<1> DEFINE e == IF p + n < Len(s) THEN p + n ELSE Len(s)
<1>1. Len(s) \in Nat /\ p \in Nat
  BY LenProperties
<1>2. Min({p + n, Len(s)}) = e
  BY <1>1, MinIs
<1>3. e \in p..Len(s)
  BY <1>1
<1> HIDE DEF e
<1>4. Len(Cut(s, p, e)) = e - p
  BY <1>1, <1>3, CutIsSeq
<1>5. SubSeq(s, p + 1, Min({p + n, Len(s)})) = Cut(s, p, e)
  BY <1>2 DEF Cut
<1> QED BY <1>2, <1>3, <1>4, <1>5 DEF e

LEMMA MmapReadIs ==
    ASSUME input \in Inputs, Position(input, pos, head, short), kind = "mmap"
    PROVE  IsRead(input, pos, head, MmapRead)
<1> DEFINE n == IF head # <<>> THEN Len(head) ELSE Min({Len(source) - pos, WindowSize})
           r == MmapRead
           e == IF pos + n < Len(source) THEN pos + n ELSE Len(source)
<1>1. /\ source \in Seq(Sym) /\ Len(source) \in Nat /\ input.head \in Nat /\ input.head > 0
      /\ WindowSize \in Nat /\ WindowSize > 0 /\ input.kind = "mmap" /\ pos \in 0..Len(source)
  <2>1. /\ input.source \in Seq(Sym) /\ Len(input.source) \in Nat
        /\ input.head \in Nat /\ input.head > 0 /\ input.chunk \in Nat /\ input.head <= input.chunk
        /\ input.chunk * Cardinality(input.workers) \in Nat
        /\ input.chunk <= input.chunk * Cardinality(input.workers)
    BY InputIs
  <2>2. pos \in 0..Len(input.source)
    BY DEF Position
  <2> DEFINE w == input.chunk * Cardinality(input.workers)
  <2>3. w \in Nat /\ w > 0
    BY <2>1
  <2> HIDE DEF w
  <2> QED BY <2>1, <2>2, <2>3 DEF source, kind, WindowSize, ChunkSize, Workers, w
<1>2. n \in Nat /\ pos + n <= Len(source) /\ (pos + n # Len(source) => n > 0)
  <2>1. CASE head # <<>>
    <3>1. pos = 0 /\ head = SubSeq(source, 1, Min({input.head, Len(source)}))
      BY <1>1, <2>1 DEF Position, source
    <3> DEFINE m == IF 0 + input.head < Len(source) THEN 0 + input.head ELSE Len(source)
    <3>2. Min({0 + input.head, Len(source)}) = m /\ m \in 0..Len(source) /\ SubSeq(source, 0 + 1, Min({0 + input.head, Len(source)})) = Cut(source, 0, m)
          /\ Len(Cut(source, 0, m)) = m - 0
      <4>1. 0 \in 0..Len(source)
        BY <1>1
      <4> QED BY <1>1, <4>1, BytesIs
    <3>3. 0 + input.head = input.head /\ 0 + 1 = 1
      BY <1>1
    <3>4. Len(head) = m
      <4>1. m \in Nat
        BY <1>1
      <4> HIDE DEF m
      <4>2. head = Cut(source, 0, m)
        BY <3>1, <3>2, <3>3
      <4> QED BY <4>1, <4>2, <3>2
    <3>5. n = m
      BY <2>1, <3>4
    <3>6. m \in Nat /\ m <= Len(source) /\ (m # Len(source) => m > 0)
      BY <1>1
    <3> HIDE DEF n, m
    <3> QED BY <1>1, <3>1, <3>5, <3>6
  <2>2. CASE head = <<>>
    <3> DEFINE a == Len(source) - pos
    <3>1. n = Min({a, WindowSize})
      BY <2>2
    <3>2. a \in Nat
      BY <1>1
    <3> HIDE DEF a
    <3>3. n = IF a < WindowSize THEN a ELSE WindowSize
      BY <1>1, <3>1, <3>2, MinIs
    <3>4. n \in Nat /\ n <= a /\ (n # a => n > 0)
      BY <1>1, <3>2, <3>3
    <3> HIDE DEF n
    <3> QED BY <1>1, <3>4 DEF a
  <2> QED BY <2>1, <2>2
<1>3. /\ r.bytes = Bytes(pos, n) /\ r.base = pos /\ r.past = pos + n
      /\ r.exhausted = (pos + n = Len(source)) 
  <2> HIDE DEF n
  <2>1. r = [bytes |-> Bytes(pos, n), base |-> pos, past |-> pos + n,
             exhausted |-> pos + n = Len(source), short |-> FALSE]
    BY Zenon DEF MmapRead, n
  <2> HIDE DEF r
  <2> DEFINE b == Bytes(pos, n)  q == pos + n  x == (pos + n = Len(source))  f == FALSE
  <2> HIDE DEF b, q, x, f
  <2>2. r = [bytes |-> b, base |-> pos, past |-> q, exhausted |-> x, short |-> f]
    BY <2>1, Zenon DEF b, q, x, f
  <2>3. r.bytes = b /\ r.base = pos /\ r.past = q /\ r.exhausted = x
    BY <2>2
  <2> QED BY <2>3 DEF b, q, x
<1> HIDE DEF n, r
<1>4. r.bytes = Cut(source, pos, e) /\ e = pos + n /\ Len(Cut(source, pos, e)) = e - pos
  <2>1. /\ SubSeq(source, pos + 1, Min({pos + n, Len(source)})) = Cut(source, pos, e)
        /\ Len(Cut(source, pos, e)) = e - pos
    BY <1>1, <1>2, BytesIs
  <2>2. e = pos + n
    BY <1>1, <1>2
  <2> HIDE DEF e
  <2> QED BY <1>3, <2>1, <2>2 DEF Bytes
<1> HIDE DEF e
<1>5. /\ r.base = pos /\ r.base \in Nat /\ r.past \in r.base..Len(source)
      /\ r.bytes = Cut(source, r.base, r.past)
  BY <1>1, <1>2, <1>3, <1>4
<1>6. r.exhausted => r.past = Len(source)
  BY <1>3
<1>7. ~r.exhausted => r.bytes # <<>>
  <2>1. ASSUME ~r.exhausted PROVE r.bytes # <<>>
    <3>1. pos + n # Len(source)
      BY <1>3, <2>1, Zenon
    <3>2. Len(r.bytes) > 0
      BY <1>1, <1>2, <1>4, <3>1
    <3> QED BY <3>2
  <2> QED BY <2>1
<1>8. IsRead(input, pos, head, r)
  BY <1>1, <1>5, <1>6, <1>7 DEF IsRead, source
<1> QED BY <1>8 DEF r

LEMMA StreamReadIs ==
    ASSUME input \in Inputs, Position(input, pos, head, short), kind = "stream"
    PROVE  IsRead(input, pos, head, StreamRead)
<1> DEFINE asked == IF Len(head) < WindowSize THEN WindowSize - Len(head) ELSE ChunkSize
           got == IF short THEN <<>> ELSE Bytes(pos, asked)
           hitEnd == short \/ Len(got) < asked
           r == StreamRead
           e == IF pos + asked < Len(source) THEN pos + asked ELSE Len(source)
           c == IF short THEN pos ELSE e
           h == Len(head)
<1>1. /\ source \in Seq(Sym) /\ Len(source) \in Nat /\ ChunkSize \in Nat /\ ChunkSize > 0
      /\ WindowSize \in Nat /\ WindowSize > 0 /\ input.kind = "stream" /\ pos \in 0..Len(source)
      /\ h \in Nat /\ h <= pos /\ head = Cut(source, pos - h, pos) /\ (short => pos = Len(source))
  <2>1. /\ input.source \in Seq(Sym) /\ Len(input.source) \in Nat
        /\ input.head \in Nat /\ input.head > 0 /\ input.chunk \in Nat /\ input.head <= input.chunk
        /\ input.chunk * Cardinality(input.workers) \in Nat
        /\ input.chunk <= input.chunk * Cardinality(input.workers)
    BY InputIs
  <2>2. /\ pos \in 0..Len(input.source) /\ head \in Seq(Sym) /\ Len(head) <= pos
        /\ head = Cut(input.source, pos - Len(head), pos) /\ (short => pos = Len(input.source))
    BY DEF Position, kind
  <2>3. Len(head) \in Nat
    BY <2>2, LenProperties
  <2> DEFINE w == input.chunk * Cardinality(input.workers)
  <2>4. w \in Nat /\ w > 0 /\ input.chunk > 0
    BY <2>1
  <2> HIDE DEF w
  <2> QED BY <2>1, <2>2, <2>3, <2>4 DEF source, kind, WindowSize, ChunkSize, Workers, w
<1>2. asked \in Nat /\ asked > 0
  BY <1>1
<1>3. /\ r.bytes = head \o got /\ r.base = pos - h /\ r.past = pos + Len(got)
      /\ r.exhausted = (hitEnd \/ head \o got = <<>>) /\ r.short = hitEnd
  <2> HIDE DEF asked, got
  <2>1. r = [bytes |-> head \o got, base |-> pos - h, past |-> pos + Len(got),
             exhausted |-> hitEnd \/ head \o got = <<>>, short |-> hitEnd]
    BY Zenon DEF StreamRead, asked, got
  <2> HIDE DEF r
  <2> DEFINE b == head \o got  o == pos - h  q == pos + Len(got)  x == (hitEnd \/ head \o got = <<>>)
             y == hitEnd
  <2>2. r = [bytes |-> b, base |-> o, past |-> q, exhausted |-> x, short |-> y]
    BY <2>1, Zenon
  <2> HIDE DEF b, o, q, x, y
  <2>3. r.bytes = b /\ r.base = o /\ r.past = q /\ r.exhausted = x /\ r.short = y
    BY <2>2
  <2> QED BY <2>3, Zenon DEF b, o, q, x, y
<1> HIDE DEF asked, r
<1>4. /\ got = Cut(source, pos, c) /\ c \in pos..Len(source) /\ Len(got) = c - pos
      /\ (hitEnd => c = Len(source)) /\ (~hitEnd => c > pos)
  <2>1. CASE short
    <3>1. got = <<>> /\ c = pos /\ pos = Len(source) /\ Len(got) = 0
      BY <1>1, <2>1
    <3>2. Cut(source, pos, pos) = <<>>
      BY <1>1, CutNone
    <3> QED BY <1>1, <2>1, <3>1, <3>2
  <2>2. CASE ~short
    <3>1. /\ SubSeq(source, pos + 1, Min({pos + asked, Len(source)})) = Cut(source, pos, e)
          /\ e \in pos..Len(source) /\ Len(Cut(source, pos, e)) = e - pos
      BY <1>1, <1>2, BytesIs
    <3>2. got = Cut(source, pos, e)
      BY <2>2, <3>1 DEF Bytes
    <3>3. c = e
      BY <2>2
    <3> HIDE DEF got, c
    <3>4. Len(got) = e - pos
      BY <3>1, <3>2
    <3>5. Len(got) < asked => e = Len(source)
      BY <1>1, <1>2, <3>4
    <3>6. ~(Len(got) < asked) => e > pos
      BY <1>1, <1>2, <3>1, <3>4
    <3> HIDE DEF e
    <3> QED BY <2>2, <3>1, <3>2, <3>3, <3>4, <3>5, <3>6
  <2> QED BY <2>1, <2>2
<1> HIDE DEF got, c, e
<1> DEFINE a == pos - h
<1>5. a \in Nat /\ pos \in a..Len(source) /\ c \in a..Len(source) /\ pos + Len(got) = c
  BY <1>1, <1>4
<1>6. head \o got = Cut(source, a, c)
  BY <1>1, <1>4, <1>5, CutConcat
<1>7. Len(head \o got) = c - a
  BY <1>1, <1>5, <1>6, CutIsSeq
<1>8. ~hitEnd => Len(head \o got) > 0
  BY <1>1, <1>4, <1>7
<1>9. ~hitEnd => head \o got # <<>>
  BY <1>8
<1>10. r.exhausted = hitEnd
  BY <1>3, <1>9, Zenon
<1>11. /\ r.base = pos - Len(head) /\ r.base \in Nat /\ r.past \in r.base..Len(source)
       /\ r.bytes = Cut(source, r.base, r.past)
  BY <1>3, <1>5, <1>6
<1> HIDE DEF a, hitEnd
<1>12. r.exhausted => r.past = Len(source)
  BY <1>3, <1>4, <1>5, <1>10
<1>13. ~r.exhausted => r.bytes # <<>>
  BY <1>3, <1>9, <1>10
<1>14. r.short => r.past = Len(source)
  BY <1>3, <1>4, <1>5
<1>15. input.kind # "mmap"
  BY <1>1
<1>16. IsRead(input, pos, head, r)
  BY <1>1, <1>11, <1>12, <1>13, <1>14, <1>15 DEF IsRead, source
<1> QED BY <1>16 DEF r

LEMMA ReadIs ==
    ASSUME input \in Inputs, Position(input, pos, head, short)
    PROVE  /\ IsRead(input, pos, head, Read)
           /\ Read.base = Restart
<1>1. kind = "mmap" \/ kind = "stream"
  BY InputIs DEF kind
<1>2. CASE kind = "mmap"
  <2>1. Read = MmapRead
    BY <1>2 DEF Read
  <2>2. IsRead(input, pos, head, Read)
    BY <1>2, <2>1, MmapReadIs
  <2> QED BY <2>2 DEF IsRead, Restart, kind
<1>3. CASE kind = "stream"
  <2>1. Read = StreamRead
    BY <1>3 DEF Read
  <2>2. IsRead(input, pos, head, Read)
    BY <1>3, <2>1, StreamReadIs
  <2> QED BY <2>2 DEF IsRead, Restart, kind
<1> QED BY <1>1, <1>2, <1>3

-----------------------------------------------------------------------------
(* The windows of any source: what is kept, and that each moves on.        *)

(* What next() leaves behind when its window is done. *)
Finished(inp, base, past, bytes, prefix, exhausted, p, h) ==
    IF inp.kind = "mmap" THEN p = base + prefix /\ h = <<>>
    ELSE p = past /\ h = IF exhausted THEN <<>> ELSE SubSeq(bytes, prefix + 1, Len(bytes))

ShortFits(inp, p, sh) == inp.kind = "stream" /\ sh => p = Len(inp.source)
RestartOf(inp, p, h) == IF inp.kind = "mmap" THEN p ELSE p - Len(h)

FinishedAt(inp, base, past, prefix, exhausted, p, h, sh) ==
    /\ inp \in Inputs /\ base \in Nat /\ past \in base..Len(inp.source)
    /\ prefix \in 0..(past - base)
    /\ ShortFits(inp, past, sh)
    /\ Finished(inp, base, past, Cut(inp.source, base, past), prefix, exhausted, p, h)

LEMMA FinishIs ==
    ASSUME NEW inp, NEW base, NEW past, NEW prefix, NEW exhausted, NEW p, NEW h, NEW sh,
           FinishedAt(inp, base, past, prefix, exhausted, p, h, sh)
    PROVE  /\ Position(inp, p, h, sh)
           /\ ~exhausted => RestartOf(inp, p, h) = base + prefix
<1> DEFINE s == inp.source
           bytes == Cut(s, base, past)
<1>0. /\ inp \in Inputs /\ base \in Nat /\ past \in base..Len(inp.source)
      /\ prefix \in 0..(past - base)
      /\ ShortFits(inp, past, sh)
      /\ Finished(inp, base, past, Cut(inp.source, base, past), prefix, exhausted, p, h)
  BY Zenon DEF FinishedAt
<1>1. s \in Seq(Sym) /\ Len(s) \in Nat /\ inp.kind \in {"mmap", "stream"}
  BY <1>0, InputIs
<1>2. bytes \in Seq(Sym) /\ Len(bytes) = past - base /\ past \in Nat
  BY <1>0, <1>1, CutIsSeq
<1>2a. inp.kind = "stream" /\ sh => past = Len(s)
  BY <1>0, Zenon DEF ShortFits
<1>3. CASE inp.kind = "mmap"
  <2>1. p = base + prefix /\ h = <<>>
    BY <1>0, <1>3 DEF Finished
  <2>2. p \in 0..Len(s)
    BY <1>0, <1>1, <1>2, <2>1
  <2>3. Position(inp, p, h, sh)
    <3>1. inp.kind # "stream"
      BY <1>0, <1>3
    <3> QED BY <1>0, <3>1, <2>1, <2>2, Zenon DEF Position
  <2> QED BY <1>0, <1>3, <2>1, <2>3 DEF RestartOf
<1>4. CASE inp.kind = "stream"
  <2>1. p = past /\ h = IF exhausted THEN <<>> ELSE SubSeq(bytes, prefix + 1, Len(bytes))
    BY <1>0, <1>4 DEF Finished
  <2>2. CASE exhausted
    <3>1. h = <<>>
      BY <1>0, <2>1, <2>2
    <3>2. <<>> \in Seq(Sym) /\ Len(<<>>) = 0
      OBVIOUS
    <3>3. Cut(s, past, past) = <<>>
      BY <1>0, <1>1, <1>2, CutNone
    <3>4. past - 0 = past /\ 0 <= past /\ past \in 0..Len(s)
      BY <1>0, <1>2, <1>1
    <3>5. Position(inp, p, h, sh)
      BY <1>0, <1>2a, <1>4, <2>1, <3>1, <3>2, <3>3, <3>4 DEF Position
    <3> QED BY <1>0, <2>2, <3>5
  <2>3. CASE ~exhausted
    <3> DEFINE n == past - base
    <3>0. n \in Nat /\ prefix \in 0..n /\ prefix \in Nat /\ n \in prefix..(past - base)
      BY <1>0, <1>2
    <3>1. h = Cut(bytes, prefix, n)
      BY <1>0, <1>2, <2>1, <2>3 DEF Cut
    <3>2. Cut(Cut(s, base, past), prefix, n) = Cut(s, base + prefix, base + n)
      BY <1>0, <1>1, <3>0, CutCut
    <3> DEFINE b == base + prefix
    <3>3. base + n = past /\ b \in Nat /\ past \in b..Len(s)
      BY <1>0, <1>2, <3>0
    <3>4. h = Cut(s, b, past)
      BY <1>0, <3>1, <3>2, <3>3
    <3> HIDE DEF b
    <3>5. h \in Seq(Sym) /\ Len(h) = past - b
      BY <1>0, <1>1, <3>3, <3>4, CutIsSeq
    <3>6. past - Len(h) = b /\ Len(h) <= past /\ past \in 0..Len(s)
      BY <1>0, <1>1, <1>2, <3>3, <3>5
    <3>7. Position(inp, p, h, sh)
      BY <1>0, <1>2a, <1>4, <2>1, <3>4, <3>5, <3>6 DEF Position
    <3>8. RestartOf(inp, p, h) = b
      BY <1>0, <1>4, <2>1, <3>6 DEF RestartOf
    <3> QED BY <1>0, <3>7, <3>8 DEF b
  <2> QED BY <1>0, <2>2, <2>3
<1> QED BY <1>0, <1>1, <1>3, <1>4

-----------------------------------------------------------------------------
(* The window under way, between its read and its end. *)
TaskAt(base, length, t, i) ==
    \/ t.status = "waiting" /\ ChunkAt(base, length, t.chunk, i) /\ DfaOK(t.guess)
    \/ t.status = "parsed" /\ PartAt(base, length, t.parsed, i)
    \/ t.status = "released"

TasksAt(base, length, tasks) ==
    \E n \in Nat \ {0} :
        /\ tasks = [i \in 1..n |-> tasks[i]]
        /\ \A i \in 1..n : TaskAt(base, length, tasks[i], i)

IsWindow(win) ==
    win = [bytes |-> win.bytes, base |-> win.base, exhausted |-> win.exhausted, tasks |-> win.tasks]

WindowAt(inp, p, sh, h, win, v) ==
    /\ IsWindow(win)
    /\ h = <<>>
    /\ win.base \in Nat /\ p \in win.base..Len(inp.source) /\ win.base < p
    /\ win.bytes = Cut(inp.source, win.base, p)
    /\ win.exhausted => p = Len(inp.source)
    /\ ShortFits(inp, p, sh)
    /\ TasksAt(win.base, p - win.base, win.tasks)
    /\ Validated(win.base, p - win.base, v)
    /\ win.tasks[1].status # "released" => v.released = <<>>

WInv(inp, p, h, sh, win, v, rd) ==
    /\ inp \in Inputs
    /\ Position(inp, p, h, sh)
    /\ rd.reads \in 0..2
    /\ win.tasks # <<>> => WindowAt(inp, p, sh, h, win, v)

WindowInv == WInv(input, pos, head, short, window, valid, reader)

LEMMA NewValidatorIs ==
    ASSUME NEW base, NEW length
    PROVE  Validated(base, length, NewValidator) /\ NewValidator.released = <<>>
<1> DEFINE e == Outside  p == NoFragment
           v == NewValidator
<1>1. v = [expected |-> e, pending |-> p, released |-> <<>>]
  BY Zenon DEF NewValidator
<1> HIDE DEF e, p, v
<1>2. v.expected = e /\ v.pending = p /\ v.released = <<>>
  BY <1>1
<1>3. ValidatorShape(v)
  BY <1>1, <1>2, Zenon DEF ValidatorShape
<1>4. DfaOK(v.expected)
  BY <1>2, OutsideInside DEF e
<1>5. ~v.pending.present
  BY <1>2, NoFragmentIs DEF p
<1>6. Validated(base, length, v)
  BY <1>3, <1>4, <1>5, Zenon DEF Validated
<1> QED BY <1>2, <1>6 DEF v

LEMMA InitIsWindow == Init => WindowInv
<1> SUFFICES ASSUME Init PROVE WindowInv
  OBVIOUS
<1>1. input \in Inputs /\ window.tasks = <<>> /\ reader.reads = 0
  BY DEF Init, NoWindow
<1>2. input.source \in Seq(Sym) /\ Len(input.source) \in Nat /\ input.kind \in {"mmap", "stream"} /\ input.head \in Nat
  BY <1>1, InputIs
<1> DEFINE s == input.source
           e == IF 0 + input.head < Len(s) THEN 0 + input.head ELSE Len(s)
<1>3. /\ Min({0 + input.head, Len(s)}) = e /\ e \in 0..Len(s)
      /\ SubSeq(s, 0 + 1, Min({0 + input.head, Len(s)})) = Cut(s, 0, e) /\ Len(Cut(s, 0, e)) = e - 0
  <2>1. 0 \in 0..Len(s)
    BY <1>2
  <2> QED BY <1>2, <2>1, BytesIs
<1>4. head = SubSeq(s, 0 + 1, Min({0 + input.head, Len(s)}))
  BY DEF Init, Bytes, source
<1>5. Position(input, pos, head, short)
  <2>1. CASE input.kind = "mmap"
    <3>1. pos = 0 /\ 0 \in 0..Len(s)
      BY <1>2, <2>1 DEF Init, kind
    <3>2. 0 + 1 = 1 /\ 0 + input.head = input.head
      BY <1>2
    <3> QED BY <1>4, <2>1, <3>1, <3>2 DEF Position
  <2>2. CASE input.kind = "stream"
    <3>0. e \in Nat /\ Len(Cut(s, 0, e)) = e
      BY <1>2, <1>3
    <3>1. pos = Len(head) /\ (short => Len(s) < input.head)
      BY <2>2 DEF Init, kind, source
    <3>2. short => e = Len(s)
      BY <1>2, <3>1
    <3> HIDE DEF e
    <3>2a. head = Cut(s, 0, e)
      BY <1>3, <1>4
    <3>2b. Len(head) = e
      BY <3>0, <3>2a
    <3>3. head = Cut(s, 0, e) /\ Len(head) = e /\ pos = e /\ pos - Len(head) = 0
      BY <3>0, <3>1, <3>2a, <3>2b
    <3>4. head \in Seq(Sym)
      BY <1>2, <1>3, <3>3, CutIsSeq
    <3>5. Len(head) <= pos /\ pos \in 0..Len(s)
      BY <1>3, <3>3, <3>0
    <3> QED BY <2>2, <3>2, <3>3, <3>4, <3>5 DEF Position
  <2> QED BY <1>2, <2>1, <2>2
<1> QED BY <1>1, <1>5 DEF WindowInv, WInv

LEMMA FirstRow ==
    ASSUME NEW in, NEW s, Good(in, s)
    PROVE  /\ s.rows # <<>> => s.rowStart > 0
           /\ s.rowStart \in 0..Len(in)
BY DEF Good

LEMMA CountedReads ==
    ASSUME NEW n \in 0..2
    PROVE  Min({n + 1, 2}) \in 0..2 /\ (n > 0 => Min({n + 1, 2}) = 2)
<1>1. Min({n + 1, 2}) = IF n + 1 < 2 THEN n + 1 ELSE 2
  BY MinIs
<1> QED BY <1>1

-----------------------------------------------------------------------------
(* The serial parser is always asked to start outside quotes, or between a *)
(* CR and the LF after it.                                                 *)
LEMMA CarriedIs ==
    ASSUME NEW d, DfaOK(d)
    PROVE  DfaOK(Carried(d))
<1>1. CASE d.pendingLinefeed
  <2>1. Carried(d) = d
    BY <1>1, Zenon DEF Carried
  <2> QED BY <2>1
<1>2. CASE ~d.pendingLinefeed
  <2>1. Carried(d) = Outside
    BY <1>2, Zenon DEF Carried
  <2> QED BY <2>1, OutsideInside
<1> QED BY <1>1, <1>2

SerialInv == WindowInv /\ DfaOK(serial.initial)

LEMMA SerialWindowKeeps ==
    ASSUME SerialInv, SerialWindow
    PROVE  /\ SerialInv'
           /\ reader.reads > 0 => Restart' > Restart \/ eof' \/ TooLarge'
<1> DEFINE r == Read
           in == r.bytes
           empty == kind = "mmap" /\ in = <<>>
           parsed == Parse(in, serial.initial, ~serial.bomScanned)
           ended == IF r.exhausted /\ ~empty THEN EndFeed(in, parsed) ELSE parsed
<1>1. /\ input \in Inputs /\ Position(input, pos, head, short) /\ reader.reads \in 0..2
      /\ DfaOK(serial.initial)
  BY DEF SerialInv, WindowInv, WInv
<1>2. IsRead(input, pos, head, r) /\ r.base = Restart
  BY <1>1, ReadIs
<1> DEFINE base == r.base  past == r.past
<1>3. /\ base \in Nat /\ past \in base..Len(input.source) /\ in = Cut(input.source, base, past)
      /\ r.exhausted => past = Len(input.source)
      /\ input.kind = "stream" /\ r.short => past = Len(input.source)
  BY <1>2 DEF IsRead
<1>4. input.source \in Seq(Sym) /\ Len(input.source) \in Nat
  BY <1>1, InputIs
<1>5. /\ WantsWindow
      /\ serial' = IF empty THEN serial
                   ELSE [initial |-> Carried(parsed.dfa), bomScanned |-> TRUE,
                         utf8Bom |-> IF serial.bomScanned THEN serial.utf8Bom
                                          ELSE Flag(in, 0) = "bom"]
      /\ CountRead(ended.rows)
      /\ short' = r.short
      /\ Finish(base, past, in, parsed.rowStart, r.exhausted)
      /\ UNCHANGED <<input, whole, scanned, window, valid>>
  BY Zenon DEF SerialWindow
<1> HIDE DEF r
<1>6. in \in Seq(Sym) /\ Len(in) = past - base
  <2> HIDE DEF base, past
  <2> QED BY <1>3, <1>4, CutIsSeq
<1> HIDE DEF in, base, past
<1>7. Good(in, parsed)
  <2>1. PICK q, k : \E l \in {Yes, No} : serial.initial = Dfa(q, k, l)
    BY <1>1 DEF DfaOK
  <2>2. PICK l \in {Yes, No} : serial.initial = Dfa(q, k, l)
    BY <2>1
  <2> DEFINE scan == ~serial.bomScanned
  <2> HIDE DEF scan
  <2>3. Good(in, Parse(in, Dfa(q, k, l), scan))
    BY <1>6, ParseIsGood
  <2> QED BY <2>2, <2>3 DEF scan
<1> HIDE DEF parsed
<1>8. /\ parsed.rows # <<>> => parsed.rowStart > 0
      /\ parsed.rowStart \in 0..(past - base)
  BY <1>6, <1>7, FirstRow
<1> DEFINE x == r.exhausted  p == pos'  h == head'  sh == short'
<1>9. Finished(input, base, past, in, parsed.rowStart, x, p, h) /\ eof' = x
  BY <1>5, Zenon DEF Finish, Finished, kind
<1>10. ShortFits(input, past, sh)
  <2>1. sh = r.short
    BY <1>5
  <2> HIDE DEF sh
  <2> QED BY <1>3, <2>1, Zenon DEF past, ShortFits
<1>11. Position(input, p, h, sh) /\ (~x => RestartOf(input, p, h) = base + parsed.rowStart)
  <2> HIDE DEF x, p, h, sh
  <2>1. Finished(input, base, past, Cut(input.source, base, past), parsed.rowStart, x, p, h)
    BY <1>9, <1>3 DEF in, base, past
  <2>2. base \in Nat /\ past \in base..Len(input.source)
    BY <1>3 DEF base, past
  <2>3. parsed.rowStart \in 0..(past - base)
    BY <1>8
  <2>4. input \in Inputs
    BY <1>1
  <2> DEFINE k == parsed.rowStart
  <2>5. FinishedAt(input, base, past, k, x, p, h, sh)
    BY <1>10, <2>1, <2>2, <2>3, <2>4, Zenon DEF FinishedAt
  <2> HIDE DEF k
  <2>6. Position(input, p, h, sh) /\ (~x => RestartOf(input, p, h) = base + k)
    BY <2>5, FinishIs
  <2> QED BY <2>6, Zenon DEF k
<1>12. window.tasks = <<>> /\ window' = window /\ input' = input
  BY <1>5, Zenon DEF WantsWindow, Idle
<1>14. reader' = [reads |-> Min({reader.reads + 1, 2}), yield |-> Len(ended.rows)]
  BY <1>5, Zenon DEF CountRead
<1>15. reader'.reads = Min({reader.reads + 1, 2}) /\ reader'.yield = Len(ended.rows)
  <2> DEFINE a == Min({reader.reads + 1, 2})  b == Len(ended.rows)
  <2> HIDE DEF a, b
  <2> QED BY <1>14 DEF a, b
<1>16. reader'.reads \in 0..2 /\ (reader.reads > 0 => reader'.reads = 2)
  BY <1>1, <1>15, CountedReads
<1>17. DfaOK(serial'.initial)
  <2>1. DfaOK(Carried(parsed.dfa))
    BY <1>7, EndsInDfa, CarriedIs
  <2>2. CASE empty
    <3>1. serial' = serial
      BY <1>5, <2>2, Zenon
    <3> QED BY <1>1, <3>1
  <2>3. CASE ~empty
    <3> DEFINE a == Carried(parsed.dfa)  b == TRUE
               c == IF serial.bomScanned THEN serial.utf8Bom ELSE Flag(in, 0) = "bom"
    <3>1. serial' = [initial |-> a, bomScanned |-> b, utf8Bom |-> c]
      BY <1>5, <2>3, Zenon
    <3> HIDE DEF a, b, c
    <3>2. serial'.initial = a
      BY <3>1
    <3> QED BY <2>1, <3>2 DEF a
  <2> QED BY <2>2, <2>3
<1>18. WInv(input, p, h, sh, window', valid', reader')
  BY <1>1, <1>11, <1>12, <1>16, Zenon DEF WInv
<1>19. SerialInv'
  BY <1>12, <1>17, <1>18, Zenon DEF SerialInv, WindowInv
<1>20. ASSUME reader.reads > 0 PROVE Restart' > Restart \/ eof' \/ TooLarge'
  <2>1. CASE x
    BY <1>9, <2>1, Zenon
  <2>2. CASE ~x
    <3>1. ended = parsed
      BY <2>2, Zenon
    <3>2. Restart' = base + parsed.rowStart
      <4>1. RestartOf(input, p, h) = base + parsed.rowStart
        BY <1>11, <2>2, Zenon
      <4>2. Restart' = RestartOf(input', p, h)
        BY Zenon DEF Restart, RestartOf, kind
      <4> QED BY <4>1, <4>2, <1>12
    <3>3. CASE parsed.rows = <<>>
      <4>1. reader'.yield = 0
        <5>1. Len(parsed.rows) = 0
          BY <3>3
        <5> QED BY <1>15, <3>1, <5>1
      <4>2. TooLarge'
        BY <1>16, <1>20, <4>1 DEF TooLarge
      <4> QED BY <4>2
    <3>4. CASE parsed.rows # <<>>
      <4>1. parsed.rowStart > 0 /\ parsed.rowStart \in Nat /\ base \in Nat
        BY <1>3, <1>8, <3>4 DEF base
      <4>2. Restart' > base
        BY <3>2, <4>1
      <4> QED BY <1>2, <4>2 DEF base
    <3> QED BY <3>3, <3>4
  <2> QED BY <2>1, <2>2
<1> QED BY <1>19, <1>20

(* The window is cut into chunks that lie in it, each one after the first  *)
(* not at its start.                                                       *)
LEMMA ChunkNumbers ==
    ASSUME NEW n \in Nat, NEW c \in Nat, c > 0, n > 0, NEW i \in 1..((n + c - 1) \div c)
    PROVE  /\ (n + c - 1) \div c \in Nat \ {0}
           /\ (i - 1) * c \in Nat /\ (i - 1) * c < n
           /\ i # 1 => (i - 1) * c > 0
<1> DEFINE m == (n + c - 1) \div c
<1>1. m \in Int /\ m * c <= n + c - 1
  BY Z3
<1>2. i \in Int /\ i >= 1 /\ i <= m
  OBVIOUS
<1> HIDE DEF m
<1>3. (i - 1) * c >= 0 /\ (i - 1) * c \in Int
  BY <1>2, Z3
<1>4. (i - 1) * c <= (m - 1) * c
  BY <1>1, <1>2, Z3
<1>5. (m - 1) * c = m * c - c
  BY <1>1, Z3
<1>6. m * c \in Int /\ (m - 1) * c \in Int
  BY <1>1, Z3
<1>7. (i - 1) * c < n
  BY <1>1, <1>3, <1>4, <1>5, <1>6
<1>8. i # 1 => (i - 1) * c > 0
  BY <1>2, Z3
<1>9. m \in Nat \ {0}
  BY <1>1, <1>2
<1> QED BY <1>3, <1>7, <1>8, <1>9 DEF m

LEMMA ChunkIs ==
    ASSUME NEW s \in Seq(Sym), NEW base \in Nat, NEW past \in base..Len(s), base < past,
           NEW n \in Nat, n < past - base, NEW i, i # 1 => n > 0, NEW c \in Nat, NEW first, NEW scan,
           i = 1 => first
    PROVE  LET bytes == Cut(s, base, past)
           IN  ChunkAt(base, past - base,
                   [offset |-> base + n,
                    bytes |-> SubSeq(bytes, n + 1, Min({n + c, Len(bytes)})),
                    atRecordStart |-> first, scanBom |-> scan], i)
<1> DEFINE bytes == Cut(s, base, past)
           part == SubSeq(bytes, n + 1, Min({n + c, Len(bytes)}))
           o == base + n
           k == [offset |-> o, bytes |-> part, atRecordStart |-> first, scanBom |-> scan]
<1>1. bytes \in Seq(Sym) /\ Len(bytes) = past - base /\ past \in Nat
  <2>1. Len(s) \in Nat /\ past \in Nat
    BY LenProperties
  <2> QED BY <2>1, CutIsSeq
<1> HIDE DEF bytes
<1> DEFINE e == IF n + c < Len(bytes) THEN n + c ELSE Len(bytes)
<1>2. part = Cut(bytes, n, e) /\ e \in n..Len(bytes) /\ Len(Cut(bytes, n, e)) = e - n
  <2>1. n \in 0..Len(bytes)
    BY <1>1
  <2> QED BY <1>1, <2>1, BytesIs
<1>3. Cut(bytes, n, e) \in Seq(Sym)
  <2> HIDE DEF e
  <2> QED BY <1>1, <1>2, CutIsSeq
<1> HIDE DEF e, part
<1>4. part \in Seq(Sym) /\ Len(part) = e - n
  BY <1>2, <1>3
<1> HIDE DEF o
<1>5. k.offset = o /\ k.bytes = part /\ k.atRecordStart = first /\ k.scanBom = scan
  OBVIOUS
<1>6. ChunkShape(k)
  BY <1>5 DEF ChunkShape
<1> HIDE DEF k
<1>7. o \in Nat /\ base <= o /\ o + Len(part) <= base + (past - base) /\ (i # 1 => base < o)
  BY <1>1, <1>2, <1>4 DEF o
<1>8. ChunkAt(base, past - base, k, i)
  BY <1>4, <1>5, <1>6, <1>7, Zenon DEF ChunkAt
<1> QED BY <1>8 DEF k, o, part, bytes

LEMMA SpeculativeWindowKeeps ==
    ASSUME SerialInv, SpeculativeWindow
    PROVE  SerialInv' /\ ~Idle'
<1> DEFINE r == Read
           base == r.base  past == r.past  bytes == r.bytes
           T(g) == [i \in DOMAIN g |-> [chunk |-> Chunk(bytes, base, i), guess |-> g[i],
                            status |-> "waiting"]]
<1>1. /\ input \in Inputs /\ Position(input, pos, head, short) /\ reader.reads \in 0..2
      /\ DfaOK(serial.initial)
  BY DEF SerialInv, WindowInv, WInv
<1>2. IsRead(input, pos, head, r)
  BY <1>1, ReadIs
<1>3. /\ base \in Nat /\ past \in base..Len(input.source) /\ bytes = Cut(input.source, base, past)
      /\ r.exhausted => past = Len(input.source)
      /\ input.kind = "stream" /\ r.short => past = Len(input.source)
  BY <1>2 DEF IsRead
<1>4. input.source \in Seq(Sym) /\ Len(input.source) \in Nat /\ ChunkSize \in Nat /\ ChunkSize > 0
  <2>1. input.source \in Seq(Sym) /\ Len(input.source) \in Nat /\ input.head \in Nat /\ input.head > 0
        /\ input.chunk \in Nat /\ input.head <= input.chunk
    BY <1>1, InputIs
  <2> QED BY <2>1 DEF ChunkSize
<1>5. PICK g \in [1..ChunkCount(bytes) -> {Outside, Inside}] :
         window' = [bytes |-> bytes, base |-> base, exhausted |-> r.exhausted, tasks |-> T(g)]
  BY Zenon DEF SpeculativeWindow
<1>6. /\ IsSpeculative(bytes) /\ valid' = NewValidator /\ pos' = past /\ head' = <<>> /\ short' = r.short
      /\ UNCHANGED <<input, serial, reader>>
  BY Zenon DEF SpeculativeWindow
<1> HIDE DEF r, base, past, bytes
<1>7. bytes \in Seq(Sym) /\ Len(bytes) = past - base
  BY <1>3, <1>4, CutIsSeq
<1>8. past \in Nat /\ base < past
  BY <1>3, <1>4, <1>6, <1>7 DEF IsSpeculative
<1> DEFINE n == ChunkCount(bytes)
<1>9. ASSUME NEW i \in 1..n
      PROVE  n \in Nat \ {0} /\ ChunkAt(base, past - base, Chunk(bytes, base, i), i)
  <2> DEFINE l == Len(bytes)  c == ChunkSize
  <2>1. l \in Nat /\ l > 0 /\ c \in Nat /\ c > 0 /\ n = (l + c - 1) \div c
    BY <1>3, <1>4, <1>7, <1>8 DEF ChunkCount
  <2> HIDE DEF l, c, n
  <2> DEFINE o == (i - 1) * c
  <2>2. n \in Nat \ {0} /\ o \in Nat /\ o < l /\ (i # 1 => o > 0)
    BY <2>1, <1>9, ChunkNumbers
  <2> DEFINE first == (i = 1)  scan == (i = 1 /\ base = 0)
  <2>3. i = 1 => first
    OBVIOUS
  <2> HIDE DEF o, first, scan
  <2>4. o < past - base
    BY <1>7, <2>2 DEF l
  <2> DEFINE B == Cut(input.source, base, past)
  <2>5. ChunkAt(base, past - base, [offset |-> base + o,
                    bytes |-> SubSeq(B, o + 1, Min({o + c, Len(B)})),
                    atRecordStart |-> first, scanBom |-> scan], i)
    BY <1>3, <1>4, <1>8, <2>1, <2>2, <2>3, <2>4, ChunkIs
  <2>6. Chunk(bytes, base, i) = [offset |-> base + o,
                    bytes |-> SubSeq(B, o + 1, Min({o + c, Len(B)})),
                    atRecordStart |-> first, scanBom |-> scan]
    <3> HIDE DEF B
    <3>1. bytes = B
      BY <1>3 DEF B
    <3> QED BY <3>1, Zenon DEF Chunk, o, c, first, scan
  <2> HIDE DEF B
  <2> QED BY <2>2, <2>5, <2>6
<1>10. n \in Nat \ {0} /\ 1 \in 1..n
  <2> DEFINE l == Len(bytes)  c == ChunkSize
  <2>1. l \in Nat /\ l > 0 /\ c \in Nat /\ c > 0 /\ n = (l + c - 1) \div c
    BY <1>3, <1>4, <1>7, <1>8 DEF ChunkCount
  <2> HIDE DEF l, c, n
  <2>2. n \in Int /\ n > 0
    BY <2>1, Z3
  <2> QED BY <2>2
<1> DEFINE tasks == T(g)  W == window'
<1>11. /\ DOMAIN tasks = 1..n
       /\ \A i \in 1..n : tasks[i] = [chunk |-> Chunk(bytes, base, i), guess |-> g[i], status |-> "waiting"]
       /\ \A i \in 1..n : g[i] \in {Outside, Inside}
       /\ tasks = [i \in 1..n |-> tasks[i]]
  <2> HIDE DEF n
  <2>1. DOMAIN g = 1..n /\ \A i \in 1..n : g[i] \in {Outside, Inside}
    BY <1>5 DEF n
  <2> QED BY <2>1
<1> HIDE DEF T, tasks
<1>12. TasksAt(base, past - base, tasks)
  <2>1. ASSUME NEW i \in 1..n PROVE TaskAt(base, past - base, tasks[i], i)
    <3> DEFINE c == Chunk(bytes, base, i)  k == g[i]
    <3>1. tasks[i] = [chunk |-> c, guess |-> k, status |-> "waiting"]
      BY <1>11
    <3>2. ChunkAt(base, past - base, c, i) /\ DfaOK(k)
      BY <1>9, <1>11, OutsideInside
    <3> HIDE DEF c, k
    <3>3. tasks[i].status = "waiting" /\ tasks[i].chunk = c /\ tasks[i].guess = k
      BY <3>1
    <3> QED BY <3>2, <3>3, Zenon DEF TaskAt
  <2> QED BY <1>10, <1>11, <2>1, Zenon DEF TasksAt
<1>13. W = [bytes |-> bytes, base |-> base, exhausted |-> r.exhausted, tasks |-> tasks]
  BY <1>5 DEF tasks
<1> HIDE DEF W
<1> DEFINE x == r.exhausted
<1>14. W.bytes = bytes /\ W.base = base /\ W.exhausted = x /\ W.tasks = tasks
  <2>1. W = [bytes |-> bytes, base |-> base, exhausted |-> x, tasks |-> tasks]
    BY <1>13
  <2> HIDE DEF x
  <2> QED BY <2>1
<1>15. IsWindow(W)
  BY <1>13, <1>14, Zenon DEF IsWindow
<1>16. Validated(base, past - base, NewValidator) /\ NewValidator.released = <<>>
  BY NewValidatorIs
<1>17. ShortFits(input, past, r.short)
  BY <1>3, Zenon DEF ShortFits
<1>18. WindowAt(input, past, r.short, <<>>, W, NewValidator)
  BY <1>3, <1>8, <1>12, <1>14, <1>15, <1>16, <1>17, Zenon DEF WindowAt
<1>19. Position(input, past, <<>>, r.short)
  <2> DEFINE sh == r.short  k == past - base
  <2>1. k \in 0..(past - base) /\ base + k = past
    BY <1>3, <1>8
  <2> DEFINE B == Cut(input.source, base, past)
  <2>2. (input.kind = "stream" /\ ~(input.kind = "mmap")) \/ input.kind = "mmap"
    <3>1. input.kind \in {"mmap", "stream"}
      BY <1>1, InputIs
    <3> QED BY <3>1
  <2>3. Finished(input, base, past, B, k, Yes, past, <<>>)
    <3> HIDE DEF B, k
    <3> QED BY <2>1, TruthValues, Zenon DEF Finished
  <2> HIDE DEF k, sh
  <2>4. FinishedAt(input, base, past, k, Yes, past, <<>>, sh)
    BY <1>1, <1>3, <1>17, <2>1, <2>3, Zenon DEF FinishedAt, sh
  <2>5. Position(input, past, <<>>, sh)
    BY <2>4, FinishIs
  <2> QED BY <2>5 DEF sh
<1>20. W.tasks # <<>>
  BY <1>10, <1>11, <1>14
<1>21. WInv(input, past, <<>>, r.short, W, NewValidator, reader)
  BY <1>1, <1>18, <1>19, Zenon DEF WInv
<1>22. SerialInv'
  BY <1>1, <1>6, <1>21, Zenon DEF SerialInv, WindowInv, W
<1>23. ~Idle'
  BY <1>20 DEF Idle, W
<1> QED BY <1>22, <1>23

(* A chunk task replaced: the window is otherwise as it was. *)
LEMMA TaskReplaced ==
    ASSUME NEW base, NEW length, NEW win, IsWindow(win), TasksAt(base, length, win.tasks),
           NEW i \in DOMAIN win.tasks, NEW t, TaskAt(base, length, t, i)
    PROVE  LET w == [win EXCEPT !.tasks[i] = t]
           IN  /\ IsWindow(w) /\ w.bytes = win.bytes /\ w.base = win.base /\ w.exhausted = win.exhausted
               /\ TasksAt(base, length, w.tasks)
               /\ w.tasks[i] = t
               /\ \A j \in DOMAIN win.tasks : j # i => w.tasks[j] = win.tasks[j]
               /\ w.tasks # <<>>
               /\ 1 \in DOMAIN win.tasks
<1> DEFINE b == win.bytes  o == win.base  x == win.exhausted  T == win.tasks
           U == [T EXCEPT ![i] = t]
           w == [win EXCEPT !.tasks[i] = t]
<1>1. win = [bytes |-> b, base |-> o, exhausted |-> x, tasks |-> T]
  BY Zenon DEF IsWindow
<1>2. PICK n \in Nat \ {0} : T = [k \in 1..n |-> T[k]] /\ \A k \in 1..n : TaskAt(base, length, T[k], k)
  BY DEF TasksAt
<1>3. DOMAIN T = 1..n /\ 1 \in 1..n
  BY <1>2
<1>4. /\ DOMAIN U = 1..n /\ U[i] = t /\ \A j \in 1..n : j # i => U[j] = T[j]
      /\ U = [k \in 1..n |-> U[k]]
  <2>1. i \in 1..n
    BY <1>3
  <2> HIDE DEF T
  <2> QED BY <1>3, <2>1
<1>5. w = [win EXCEPT !.tasks = U]
  OBVIOUS
<1>5a. i \in 1..n
  BY <1>3
<1> HIDE DEF b, o, x, T, U, w
<1>6. w = [bytes |-> b, base |-> o, exhausted |-> x, tasks |-> U]
  BY <1>1, <1>5
<1>7. w.bytes = b /\ w.base = o /\ w.exhausted = x /\ w.tasks = U
  BY <1>6
<1>8. IsWindow(w)
  BY <1>6, <1>7, Zenon DEF IsWindow
<1>9. ASSUME NEW k \in 1..n PROVE TaskAt(base, length, U[k], k)
  <2>1. CASE k = i
    BY <1>4, <2>1
  <2>2. CASE k # i
    BY <1>2, <1>4, <2>2
  <2> QED BY <2>1, <2>2
<1>10. TasksAt(base, length, U)
  BY <1>4, <1>9, Zenon DEF TasksAt
<1>11. U # <<>>
  BY <1>3, <1>4
<1>12. /\ IsWindow(w) /\ w.bytes = b /\ w.base = o /\ w.exhausted = x
       /\ TasksAt(base, length, w.tasks)
       /\ w.tasks[i] = t
       /\ \A j \in DOMAIN T : j # i => w.tasks[j] = T[j]
       /\ w.tasks # <<>>
       /\ 1 \in DOMAIN T
  BY <1>3, <1>4, <1>7, <1>8, <1>10, <1>11
<1> QED BY <1>12, Zenon DEF w, b, o, x, T

LEMMA TaskIs ==
    ASSUME NEW base, NEW length, NEW tasks, TasksAt(base, length, tasks), NEW i \in DOMAIN tasks
    PROVE  /\ TaskAt(base, length, tasks[i], i) /\ i \in Nat \ {0}
           /\ \A j \in 1..i : j \in DOMAIN tasks
<1>1. PICK n \in Nat \ {0} : tasks = [k \in 1..n |-> tasks[k]] /\ \A k \in 1..n : TaskAt(base, length, tasks[k], k)
  BY DEF TasksAt
<1>2. DOMAIN tasks = 1..n
  BY <1>1
<1> QED BY <1>1, <1>2

LEMMA StatusOf ==
    /\ \A c : [status |-> "parsed", parsed |-> c].status = "parsed" /\ [status |-> "parsed", parsed |-> c].parsed = c
    /\ [status |-> "released"].status = "released"
OBVIOUS

LEMMA ParseTaskKeeps ==
    ASSUME SerialInv, NEW w, NEW i \in DOMAIN window.tasks, ParseTask(w, i)
    PROVE  SerialInv' /\ ~Idle'
<1> DEFINE win == window  base == win.base  length == pos - base
           task == win.tasks[i]
           scanBom == task.chunk.scanBom /\ w \notin scanned
           c == ParseChunk(task.chunk, task.guess, scanBom)
           t == [status |-> "parsed", parsed |-> c]
           W == window'
<1>1. /\ input \in Inputs /\ Position(input, pos, head, short) /\ reader.reads \in 0..2
      /\ DfaOK(serial.initial)
      /\ (win.tasks # <<>> => WindowAt(input, pos, short, head, win, valid))
  BY Zenon DEF SerialInv, WindowInv, WInv
<1>2. win.tasks # <<>>
  OBVIOUS
<1>3. WindowAt(input, pos, short, head, win, valid)
  BY <1>1, <1>2
<1>4. /\ IsWindow(win) /\ TasksAt(base, length, win.tasks) /\ base \in Nat /\ length \in Nat
  <2>1. Len(input.source) \in Nat
    BY <1>1, InputIs
  <2> QED BY <1>3, <2>1 DEF WindowAt
<1>5. /\ task.status = "waiting" /\ W = [win EXCEPT !.tasks[i] = t]
      /\ UNCHANGED <<input, pos, head, short, serial, valid, reader>>
  BY Zenon DEF ParseTask
<1>6. TaskAt(base, length, task, i)
  BY <1>4, TaskIs
<1>7. ChunkAt(base, length, task.chunk, i) /\ DfaOK(task.guess)
  <2> HIDE DEF task
  <2>1. task.status # "parsed" /\ task.status # "released"
    BY <1>5
  <2> QED BY <1>6, <2>1, Zenon DEF TaskAt
<1> DEFINE sb == scanBom
<1>8. PartAt(base, length, c, i)
  <2>1. PartAt(base, length, ParseChunk(task.chunk, task.guess, sb), i)
    <3> HIDE DEF sb
    <3> QED BY <1>4, <1>7, ParseChunkIs
  <2> QED BY <2>1
<1> HIDE DEF c
<1>9. TaskAt(base, length, t, i)
  <2>1. t.status = "parsed" /\ t.parsed = c
    BY StatusOf
  <2> HIDE DEF t
  <2> QED BY <1>8, <2>1, Zenon DEF TaskAt
<1> HIDE DEF t
<1>10. /\ IsWindow(W) /\ W.bytes = win.bytes /\ W.base = win.base /\ W.exhausted = win.exhausted
       /\ TasksAt(base, length, W.tasks)
       /\ W.tasks[i] = t
       /\ \A j \in DOMAIN win.tasks : j # i => W.tasks[j] = win.tasks[j]
       /\ W.tasks # <<>> /\ 1 \in DOMAIN win.tasks
  <2> DEFINE v == [win EXCEPT !.tasks[i] = t]
  <2>1. /\ IsWindow(v) /\ v.bytes = win.bytes /\ v.base = win.base /\ v.exhausted = win.exhausted
        /\ TasksAt(base, length, v.tasks)
        /\ v.tasks[i] = t
        /\ \A j \in DOMAIN win.tasks : j # i => v.tasks[j] = win.tasks[j]
        /\ v.tasks # <<>> /\ 1 \in DOMAIN win.tasks
    BY <1>4, <1>9, TaskReplaced
  <2>2. W = v
    BY <1>5
  <2> HIDE DEF v, W, win
  <2> QED BY <2>1, <2>2, Zenon
<1>11. W.tasks[1].status # "released" => valid.released = <<>>
  <2>1. win.tasks[1].status # "released" => valid.released = <<>>
    BY <1>3, Zenon DEF WindowAt
  <2>2. win.tasks[1].status = "released" => W.tasks[1].status = "released"
    <3>1. ASSUME win.tasks[1].status = "released" PROVE W.tasks[1].status = "released"
      <4>1. i # 1
        BY <1>5, <3>1
      <4> HIDE DEF W, win
      <4> QED BY <1>10, <3>1, <4>1
    <3> QED BY <3>1
  <2> QED BY <2>1, <2>2
<1>12. WindowAt(input, pos, short, head, W, valid)
  <2> HIDE DEF W
  <2> QED BY <1>3, <1>10, <1>11, Zenon DEF WindowAt, length, base
<1>13. WInv(input, pos, head, short, W, valid, reader)
  <2> HIDE DEF W
  <2> QED BY <1>1, <1>12, Zenon DEF WInv
<1>14. SerialInv'
  BY <1>1, <1>5, <1>13, Zenon DEF SerialInv, WindowInv
<1>15. ~Idle'
  BY <1>10 DEF Idle
<1> QED BY <1>14, <1>15

LEMMA ValidateKeeps ==
    ASSUME SerialInv, Validate
    PROVE  SerialInv' /\ ~Idle'
<1> DEFINE win == window  base == win.base  length == pos - base
           t == [status |-> "released"]
           W == window'
           V == valid'
<1>1. /\ input \in Inputs /\ Position(input, pos, head, short) /\ reader.reads \in 0..2
      /\ DfaOK(serial.initial)
      /\ (win.tasks # <<>> => WindowAt(input, pos, short, head, win, valid))
  BY Zenon DEF SerialInv, WindowInv, WInv
<1>2. PICK i \in DOMAIN win.tasks :
         /\ win.tasks[i].status = "parsed"
         /\ \A j \in 1..(i - 1) : win.tasks[j].status = "released"
         /\ V = ValidateAndRelease(valid, win.tasks[i].parsed)
         /\ W = [win EXCEPT !.tasks[i] = t]
  BY Zenon DEF Validate
<1>2a. UNCHANGED <<input, pos, head, short, serial, reader>>
  BY Zenon DEF Validate
<1>3. WindowAt(input, pos, short, head, win, valid)
  BY <1>1, <1>2
<1>4. /\ IsWindow(win) /\ TasksAt(base, length, win.tasks) /\ base \in Nat /\ length \in Nat
      /\ Validated(base, length, valid)
  <2>1. Len(input.source) \in Nat
    BY <1>1, InputIs
  <2> QED BY <1>3, <2>1 DEF WindowAt
<1>5. TaskAt(base, length, win.tasks[i], i) /\ i \in Nat \ {0}
  BY <1>4, TaskIs
<1> DEFINE part == win.tasks[i].parsed
           p == IF part.initial = valid.expected THEN part
                ELSE ParseChunk(part.chunk, valid.expected, part.chunk.scanBom)
<1>6. PartAt(base, length, part, i)
  <2> DEFINE u == win.tasks[i]
  <2>1. u.status # "waiting" /\ u.status # "released"
    BY <1>2
  <2> HIDE DEF u
  <2>2. TaskAt(base, length, u, i)
    BY <1>5 DEF u
  <2> QED BY <2>1, <2>2, Zenon DEF TaskAt, u
<1>7. PartAt(base, length, p, i)
  <2>1. CASE part.initial = valid.expected
    BY <1>6, <2>1
  <2>2. CASE part.initial # valid.expected
    <3>1. ChunkAt(base, length, part.chunk, i)
      BY <1>6, Zenon DEF PartAt
    <3>2. DfaOK(valid.expected)
      BY <1>4, Zenon DEF Validated
    <3> DEFINE c == part.chunk  e == valid.expected  sb == part.chunk.scanBom
    <3>3. PartAt(base, length, ParseChunk(c, e, sb), i)
      <4> HIDE DEF c, e, sb, part
      <4> QED BY <1>4, <3>1, <3>2, ParseChunkIs DEF c, e
    <3>4. p = ParseChunk(c, e, sb)
      BY <2>2
    <3> HIDE DEF p
    <3> QED BY <3>3, <3>4
  <2> QED BY <2>1, <2>2
<1>8. V = Release(valid, p)
  BY <1>2, Zenon DEF ValidateAndRelease
<1>9. i = 1 => valid.released = <<>>
  <2>1. ASSUME i = 1 PROVE valid.released = <<>>
    <3>1. win.tasks[1].status # "released"
      BY <1>2, <2>1
    <3> QED BY <1>3, <3>1, Zenon DEF WindowAt
  <2> QED BY <2>1
<1> HIDE DEF p
<1>10. Validated(base, length, V)
  <2>1. Validated(base, length, Release(valid, p))
    BY <1>4, <1>7, <1>9, ReleaseKeeps
  <2> QED BY <1>8, <2>1
<1>11. TaskAt(base, length, t, i)
  <2>1. t.status = "released"
    BY StatusOf
  <2> HIDE DEF t
  <2> QED BY <2>1, Zenon DEF TaskAt
<1> HIDE DEF t
<1>12. /\ IsWindow(W) /\ W.bytes = win.bytes /\ W.base = win.base /\ W.exhausted = win.exhausted
       /\ TasksAt(base, length, W.tasks)
       /\ W.tasks[i] = t
       /\ \A j \in DOMAIN win.tasks : j # i => W.tasks[j] = win.tasks[j]
       /\ W.tasks # <<>> /\ 1 \in DOMAIN win.tasks
  <2> DEFINE v == [win EXCEPT !.tasks[i] = t]
  <2>1. /\ IsWindow(v) /\ v.bytes = win.bytes /\ v.base = win.base /\ v.exhausted = win.exhausted
        /\ TasksAt(base, length, v.tasks)
        /\ v.tasks[i] = t
        /\ \A j \in DOMAIN win.tasks : j # i => v.tasks[j] = win.tasks[j]
        /\ v.tasks # <<>> /\ 1 \in DOMAIN win.tasks
    BY <1>4, <1>11, TaskReplaced
  <2>2. W = v
    BY <1>2
  <2> HIDE DEF v, W, win
  <2> QED BY <2>1, <2>2, Zenon
<1>13. W.tasks[1].status = "released"
  <2>1. CASE i = 1
    <3>1. W.tasks[1] = t
      BY <1>12, <2>1
    <3> QED BY <3>1, StatusOf DEF t
  <2>2. CASE i # 1
    <3>1. 1 \in 1..(i - 1)
      BY <1>5, <2>2
    <3>2. win.tasks[1].status = "released"
      BY <1>2, <3>1
    <3>3. W.tasks[1] = win.tasks[1]
      <4> HIDE DEF W, win
      <4> QED BY <1>12, <2>2
    <3> QED BY <3>2, <3>3
  <2> QED BY <2>1, <2>2
<1>14. WindowAt(input, pos, short, head, W, V)
  <2> HIDE DEF W, V
  <2> QED BY <1>3, <1>10, <1>12, <1>13, Zenon DEF WindowAt, length, base
<1>15. WInv(input, pos, head, short, W, V, reader)
  <2> HIDE DEF W, V
  <2> QED BY <1>1, <1>14, Zenon DEF WInv
<1>16. SerialInv'
  BY <1>1, <1>2a, <1>15, Zenon DEF SerialInv, WindowInv
<1>17. ~Idle'
  BY <1>12 DEF Idle
<1> QED BY <1>16, <1>17

LEMMA FinishWindowKeeps ==
    ASSUME SerialInv, FinishWindow
    PROVE  /\ SerialInv'
           /\ reader.reads > 0 => Restart' > window.base \/ eof' \/ TooLarge'
<1> DEFINE win == window  base == win.base  length == pos - base
           x == win.exhausted
           ended == IF x THEN ReleasePending(valid) ELSE valid
           prefix == IF ended.pending.present THEN ended.pending.offset - base
                             ELSE Len(win.bytes)
           p == pos'  h == head'
<1>1. /\ input \in Inputs /\ Position(input, pos, head, short) /\ reader.reads \in 0..2
      /\ DfaOK(serial.initial)
      /\ (win.tasks # <<>> => WindowAt(input, pos, short, head, win, valid))
  BY Zenon DEF SerialInv, WindowInv, WInv
<1>2. /\ win.tasks # <<>>
      /\ CountRead(ended.released)
      /\ Finish(base, pos, win.bytes, prefix, x)
      /\ window' = NoWindow
      /\ UNCHANGED <<input, short, serial>>
  BY Zenon DEF FinishWindow, Idle
<1>3. WindowAt(input, pos, short, head, win, valid)
  BY <1>1, <1>2
<1>4. /\ base \in Nat /\ pos \in base..Len(input.source) /\ base < pos
      /\ win.bytes = Cut(input.source, base, pos) /\ Validated(base, length, valid)
      /\ ShortFits(input, pos, short)
  BY <1>3, Zenon DEF WindowAt
<1>5. input.source \in Seq(Sym) /\ Len(input.source) \in Nat
  BY <1>1, InputIs
<1>6. Len(win.bytes) = length /\ pos \in Nat /\ length \in Nat /\ length > 0
  <2> HIDE DEF base, length
  <2>1. Len(win.bytes) = pos - base
    BY <1>4, <1>5, CutIsSeq
  <2> QED BY <1>4, <1>5, <2>1 DEF length
<1>7. ended.pending.present => ended.pending.offset \in base..(base + length)
  <2>1. CASE x
    <3>1. ended = ReleasePending(valid)
      BY <2>1, Zenon
    <3> DEFINE y == valid.released \o Materialize(valid.pending)
               e == valid.expected  q == valid.pending  z == valid.released
    <3>2. ReleasePending(valid) = [valid EXCEPT !.released = y, !.pending = NoFragment]
      BY Zenon DEF ReleasePending
    <3>3. valid = [expected |-> e, pending |-> q, released |-> z]
      BY <1>4, Zenon DEF Validated, ValidatorShape
    <3> HIDE DEF y, e, q, z, ended
    <3>4. [valid EXCEPT !.released = y] = [expected |-> e, pending |-> q, released |-> y]
      BY <3>3
    <3>5. [[expected |-> e, pending |-> q, released |-> y] EXCEPT !.pending = NoFragment].pending = NoFragment
      OBVIOUS
    <3>6. [valid EXCEPT !.released = y, !.pending = NoFragment] = [[valid EXCEPT !.released = y] EXCEPT !.pending = NoFragment]
      OBVIOUS
    <3>7. ended.pending = NoFragment
      BY <3>1, <3>2, <3>4, <3>5, <3>6
    <3> QED BY <3>7, NoFragmentIs, Zenon
  <2>2. CASE ~x
    <3>1. ended = valid
      BY <2>2, Zenon
    <3> HIDE DEF ended, base, length
    <3> QED BY <1>4, <3>1, Zenon DEF Validated
  <2> QED BY <2>1, <2>2
<1>8. prefix \in 0..length
  <2>1. CASE ended.pending.present
    <3>1. prefix = ended.pending.offset - base
      BY <2>1, Zenon
    <3>2. ended.pending.offset \in base..(base + length)
      BY <1>7, <2>1
    <3> HIDE DEF prefix, ended, length
    <3> QED BY <1>4, <1>6, <3>1, <3>2
  <2>2. CASE ~ended.pending.present
    <3>1. prefix = length
      BY <1>6, <2>2, Zenon
    <3> HIDE DEF prefix, length
    <3> QED BY <1>6, <3>1
  <2> QED BY <2>1, <2>2
<1>9. ~x => ended = valid
  BY Zenon
<1> HIDE DEF prefix
<1>10. Finished(input, base, pos, win.bytes, prefix, x, p, h) /\ eof' = x
  BY <1>2, Zenon DEF Finish, Finished, kind
<1>11. FinishedAt(input, base, pos, prefix, x, p, h, short)
  BY <1>1, <1>4, <1>8, <1>10, Zenon DEF FinishedAt, length
<1>12. Position(input, p, h, short) /\ (~x => RestartOf(input, p, h) = base + prefix)
  <2> HIDE DEF x, p, h, base
  <2> QED BY <1>11, FinishIs
<1>13. reader' = [reads |-> Min({reader.reads + 1, 2}), yield |-> Len(ended.released)]
  BY <1>2, Zenon DEF CountRead
<1>14. reader'.reads = Min({reader.reads + 1, 2}) /\ reader'.yield = Len(ended.released)
  <2> DEFINE a == Min({reader.reads + 1, 2})  b == Len(ended.released)
  <2> HIDE DEF a, b
  <2> QED BY <1>13 DEF a, b
<1>15. reader'.reads \in 0..2 /\ (reader.reads > 0 => reader'.reads = 2)
  BY <1>1, <1>14, CountedReads
<1>16. NoWindow.tasks = <<>>
  BY DEF NoWindow
<1>17. WInv(input, p, h, short, window', valid', reader')
  <2>1. window'.tasks = <<>>
    BY <1>2, <1>16
  <2> QED BY <1>1, <1>12, <1>15, <2>1, Zenon DEF WInv
<1>18. SerialInv'
  BY <1>1, <1>2, <1>17, Zenon DEF SerialInv, WindowInv
<1>19. ASSUME reader.reads > 0 PROVE Restart' > base \/ eof' \/ TooLarge'
  <2>1. CASE x
    BY <1>10, <2>1, Zenon
  <2>2. CASE ~x
    <3>1. ended = valid
      BY <1>9, <2>2
    <3>2. Restart' = base + prefix
      <4>1. RestartOf(input, p, h) = base + prefix
        BY <1>12, <2>2, Zenon
      <4>2. Restart' = RestartOf(input', p, h)
        BY Zenon DEF Restart, RestartOf, kind
      <4> QED BY <4>1, <4>2, <1>2
    <3>3. CASE valid.released = <<>>
      <4>1. reader'.yield = 0
        <5>1. Len(valid.released) = 0
          BY <3>3
        <5> QED BY <1>14, <3>1, <5>1
      <4>2. TooLarge'
        BY <1>15, <1>19, <4>1 DEF TooLarge
      <4> QED BY <4>2
    <3>4. CASE valid.released # <<>>
      <4>1. prefix > 0
        <5>1. CASE valid.pending.present
          <6>1. base < valid.pending.offset /\ valid.pending.offset \in base..(base + length)
            BY <1>4, <3>4, <5>1, Zenon DEF Validated
          <6>2. prefix = valid.pending.offset - base
            BY <3>1, <5>1, Zenon DEF prefix
          <6> HIDE DEF length
          <6> QED BY <1>4, <1>6, <6>1, <6>2
        <5>2. CASE ~valid.pending.present
          <6>1. prefix = Len(win.bytes)
            BY <3>1, <5>2, Zenon DEF prefix
          <6> QED BY <1>6, <6>1
        <5> QED BY <5>1, <5>2
      <4>2. Restart' > base
        <5>1. prefix \in Nat
          BY <1>6, <1>8
        <5> QED BY <1>4, <3>2, <4>1, <5>1
      <4> QED BY <4>2
    <3> QED BY <3>3, <3>4
  <2> QED BY <2>1, <2>2
<1> QED BY <1>18, <1>19

LEMMA WindowStutters ==
    ASSUME SerialInv, UNCHANGED vars
    PROVE  SerialInv'
BY Zenon DEF SerialInv, WindowInv, vars

Moves == Idle' /\ reader.reads > 0 => Restart' > WindowStart \/ eof' \/ TooLarge'

LEMMA WindowSteps ==
    ASSUME SerialInv, [Next]_vars
    PROVE  SerialInv' /\ (Moves \/ UNCHANGED vars)
<1>1. CASE SerialWindow
  <2>1. SerialInv' /\ (reader.reads > 0 => Restart' > Restart \/ eof' \/ TooLarge')
    BY <1>1, SerialWindowKeeps
  <2>2. WindowStart = Restart
    BY <1>1, Zenon DEF SerialWindow, WantsWindow, WindowStart
  <2> QED BY <2>1, <2>2, Zenon DEF Moves
<1>2. CASE SpeculativeWindow
  BY <1>2, SpeculativeWindowKeeps, Zenon DEF Moves
<1>3. ASSUME NEW w \in Workers, NEW i \in DOMAIN window.tasks, ParseTask(w, i)
      PROVE  SerialInv' /\ (Moves \/ UNCHANGED vars)
  BY <1>3, ParseTaskKeeps, Zenon DEF Moves
<1>4. CASE Validate
  BY <1>4, ValidateKeeps, Zenon DEF Moves
<1>5. CASE FinishWindow
  <2>1. SerialInv' /\ (reader.reads > 0 => Restart' > window.base \/ eof' \/ TooLarge')
    BY <1>5, FinishWindowKeeps
  <2>2. WindowStart = window.base
    BY <1>5, Zenon DEF FinishWindow, WindowStart
  <2> QED BY <2>1, <2>2, Zenon DEF Moves
<1>6. CASE Done
  <2>1. UNCHANGED vars
    BY <1>6, Zenon DEF Done
  <2> QED BY <2>1, WindowStutters
<1>7. CASE UNCHANGED vars
  BY <1>7, WindowStutters
<1> QED BY <1>1, <1>2, <1>3, <1>4, <1>5, <1>6, <1>7 DEF Next

LEMMA InitIsSerial == Init => SerialInv
<1>1. ASSUME Init PROVE DfaOK(serial.initial)
  <2>1. serial.initial = Outside
    BY <1>1 DEF Init
  <2> QED BY <2>1, OutsideInside
<1> QED BY <1>1, InitIsWindow DEF SerialInv

THEOREM WindowsMoveOn == Spec => MovesOn
<1>1. SerialInv /\ [Next]_vars => [Moves]_vars
  BY WindowSteps, Zenon
<1> QED BY <1>1, InitIsSerial, WindowSteps, PTL DEF Spec, MovesOn, Moves

-----------------------------------------------------------------------------
(* The loop over a whole source, and what holds of it in any state.        *)

AnyTurn(in, s, t) ==
    \/ DelimTurn(in, s, t) \/ RowTurn(in, s, t) \/ ContentTurn(in, s, t)
    \/ PendingTurn(in, s, t) \/ CloseTurn(in, s, t) \/ DoubleTurn(in, s, t)
    \/ CountTurn(in, s, t) \/ OpenTurn(in, s, t)

(* The state after a turn that ends a record is known. *)
LEMMA RowEndsAgree ==
    ASSUME NEW in, NEW s, NEW x, NEW l, NEW y, NEW m, RowEnds(in, s, x, l), RowEnds(in, s, y, m)
    PROVE  x = y /\ l = m
<1> DEFINE flag == Flag(in, s.pos)  next == Flag(in, s.pos + 1)
<1>1. \/ flag = "lf" /\ x = 1 /\ l = s.dfa.pendingLinefeed
      \/ flag = "cr" /\ next = "lf" /\ x = 2 /\ l = s.dfa.pendingLinefeed
      \/ flag = "cr" /\ next = "end" /\ x = 1 /\ l = Yes
      \/ flag = "cr" /\ next \notin {"lf", "end"} /\ x = 1 /\ l = s.dfa.pendingLinefeed
  BY Zenon DEF RowEnds
<1>2. \/ flag = "lf" /\ y = 1 /\ m = s.dfa.pendingLinefeed
      \/ flag = "cr" /\ next = "lf" /\ y = 2 /\ m = s.dfa.pendingLinefeed
      \/ flag = "cr" /\ next = "end" /\ y = 1 /\ m = Yes
      \/ flag = "cr" /\ next \notin {"lf", "end"} /\ y = 1 /\ m = s.dfa.pendingLinefeed
  BY Zenon DEF RowEnds
<1> DEFINE P == s.dfa.pendingLinefeed  Y == Yes
<1> HIDE DEF flag, next, P, Y
<1>3. \/ flag = "lf" /\ x = 1 /\ l = P
      \/ flag = "cr" /\ next = "lf" /\ x = 2 /\ l = P
      \/ flag = "cr" /\ next = "end" /\ x = 1 /\ l = Y
      \/ flag = "cr" /\ next \notin {"lf", "end"} /\ x = 1 /\ l = P
  BY <1>1, Zenon DEF P, Y
<1>4. \/ flag = "lf" /\ y = 1 /\ m = P
      \/ flag = "cr" /\ next = "lf" /\ y = 2 /\ m = P
      \/ flag = "cr" /\ next = "end" /\ y = 1 /\ m = Y
      \/ flag = "cr" /\ next \notin {"lf", "end"} /\ y = 1 /\ m = P
  BY <1>2, Zenon DEF P, Y
<1> QED BY <1>3, <1>4

LEMMA TurnsAgree ==
    ASSUME NEW in \in Seq(Sym), NEW s, s.pos \in Nat, s.pos < Len(in), s.fieldLength \in Nat,
           NEW t, NEW u, AnyTurn(in, s, t), AnyTurn(in, s, u)
    PROVE  t = u
<1> DEFINE flag == Flag(in, s.pos)  next == Flag(in, s.pos + 1)
           q == s.dfa.quoted
           Q == IF q THEN 1 ELSE 0
           end == RunEnd(in, s.pos, s.dfa.quoted)
           E1 == St(s.pos + 1, s.rowStart, Unset, 0, No, Append(s.fields, TheField(in, s)), s.rows, s.dfa)
           E3 == St(end, s.rowStart, Start(s), end - (Start(s) + s.rowStart), s.doubled, s.fields, s.rows, s.dfa)
           E4 == St(s.pos, s.rowStart, s.fieldStart, s.fieldLength, s.doubled, s.fields, s.rows,
                    Dfa(s.dfa.quoted, Yes, s.dfa.pendingLinefeed))
           E5 == St(s.pos + 1, s.rowStart, s.fieldStart, s.fieldLength, s.doubled, s.fields, s.rows,
                    Dfa(No, s.dfa.pendingQuote, s.dfa.pendingLinefeed))
           E6 == St(s.pos + 2, s.rowStart, s.fieldStart, s.fieldLength + 2, Yes, s.fields, s.rows, s.dfa)
           E7 == St(s.pos + 1, s.rowStart, s.fieldStart, s.fieldLength + 1, s.doubled, s.fields, s.rows, s.dfa)
           E8 == St(s.pos + 1, s.rowStart,
                    IF s.fieldStart = Unset /\ s.pos + 1 < Len(in) THEN s.pos + 1 - s.rowStart ELSE s.fieldStart,
                    0, s.doubled, s.fields, s.rows, Dfa(Yes, s.dfa.pendingQuote, s.dfa.pendingLinefeed))
           Known(v) ==
             \/ flag = "delim" /\ Q = 0 /\ v = E1
             \/ (flag = "lf" \/ flag = "cr") /\ Q = 0 /\ RowTurn(in, s, v)
             \/ flag # "quote" /\ (Q = 1 \/ flag \notin Separators) /\ v = E3
             \/ flag = "quote" /\ Q = 1 /\ next = "end" /\ v = E4
             \/ flag = "quote" /\ Q = 1 /\ next \in Separators /\ v = E5
             \/ flag = "quote" /\ Q = 1 /\ next = "quote" /\ v = E6
             \/ flag = "quote" /\ Q = 1 /\ next \notin Separators \cup {"end", "quote"} /\ v = E7
             \/ flag = "quote" /\ Q = 0 /\ s.fieldLength > 0 /\ v = E7
             \/ flag = "quote" /\ Q = 0 /\ s.fieldLength = 0 /\ v = E8
<1>1. (q <=> Q = 1) /\ (~q <=> Q = 0)
  <2>1. CASE q
    <3>1. Q = 1
      BY <2>1, Zenon
    <3> HIDE DEF q, Q
    <3>2. 1 # 0
      OBVIOUS
    <3> QED BY <2>1, <3>1, <3>2, Zenon
  <2>2. CASE ~q
    <3>1. Q = 0
      BY <2>2, Zenon
    <3> HIDE DEF q, Q
    <3>2. 1 # 0
      OBVIOUS
    <3> QED BY <2>2, <3>1, <3>2, Zenon
  <2> QED BY <2>1, <2>2
<1>2. IsContent(in, s.pos, q) <=> flag # "quote" /\ (q \/ flag \notin Separators)
  BY NotContent
<1>3. ASSUME NEW v, AnyTurn(in, s, v) PROVE Known(v)
  <2> HIDE DEF flag, next, q, Q, end
  <2>1. CASE DelimTurn(in, s, v)
    BY <2>1, <1>1, Zenon DEF DelimTurn, flag, q
  <2>2. CASE RowTurn(in, s, v)
    <3>1. ~q /\ (flag = "lf" \/ flag = "cr")
      BY <2>2, Zenon DEF RowTurn, RowEnds, flag, q
    <3> QED BY <2>2, <3>1, <1>1, Zenon
  <2>3. CASE ContentTurn(in, s, v)
    <3>1. IsContent(in, s.pos, q) /\ v = E3
      BY <2>3, Zenon DEF ContentTurn, q, end
    <3> QED BY <3>1, <1>1, <1>2, Zenon
  <2>4. CASE PendingTurn(in, s, v)
    BY <2>4, <1>1, Zenon DEF PendingTurn, flag, next, q
  <2>5. CASE CloseTurn(in, s, v)
    BY <2>5, <1>1, Zenon DEF CloseTurn, flag, next, q
  <2>6. CASE DoubleTurn(in, s, v)
    BY <2>6, <1>1, Zenon DEF DoubleTurn, flag, next, q
  <2>7. CASE CountTurn(in, s, v)
    BY <2>7, <1>1, Zenon DEF CountTurn, flag, next, q
  <2>8. CASE OpenTurn(in, s, v)
    BY <2>8, <1>1, Zenon DEF OpenTurn, flag, q
  <2> QED BY <1>3, <2>1, <2>2, <2>3, <2>4, <2>5, <2>6, <2>7, <2>8, Zenon DEF AnyTurn
<1>4. RowTurn(in, s, t) /\ RowTurn(in, s, u) => t = u
  <2>1. ASSUME RowTurn(in, s, t), RowTurn(in, s, u) PROVE t = u
    <3> DEFINE E(x, l) == St(s.pos + x, s.pos + x, Unset, 0, No, <<>>, Append(s.rows, TheRow(in, s)),
                    Dfa(s.dfa.quoted, s.dfa.pendingQuote, l))
    <3>1. PICK x \in {1, 2}, l \in {Yes, No} : RowEnds(in, s, x, l) /\ t = E(x, l)
      BY <2>1, Zenon DEF RowTurn
    <3>2. PICK y \in {1, 2}, m \in {Yes, No} : RowEnds(in, s, y, m) /\ u = E(y, m)
      BY <2>1, Zenon DEF RowTurn
    <3>3. x = y /\ l = m
      BY <3>1, <3>2, RowEndsAgree
    <3> HIDE DEF E
    <3> QED BY <3>1, <3>2, <3>3
  <2> QED BY <2>1
<1>5. Known(t) /\ Known(u)
  BY <1>3, Zenon
<1> DEFINE T2 == RowTurn(in, s, t)  U2 == RowTurn(in, s, u)
<1> HIDE DEF flag, next, Q, E1, E3, E4, E5, E6, E7, E8, T2, U2
<1>6. /\ \/ flag = "delim" /\ Q = 0 /\ t = E1
         \/ (flag = "lf" \/ flag = "cr") /\ Q = 0 /\ T2
         \/ flag # "quote" /\ (Q = 1 \/ flag \notin Separators) /\ t = E3
         \/ flag = "quote" /\ Q = 1 /\ next = "end" /\ t = E4
         \/ flag = "quote" /\ Q = 1 /\ next \in Separators /\ t = E5
         \/ flag = "quote" /\ Q = 1 /\ next = "quote" /\ t = E6
         \/ flag = "quote" /\ Q = 1 /\ next \notin Separators \cup {"end", "quote"} /\ t = E7
         \/ flag = "quote" /\ Q = 0 /\ s.fieldLength > 0 /\ t = E7
         \/ flag = "quote" /\ Q = 0 /\ s.fieldLength = 0 /\ t = E8
      /\ \/ flag = "delim" /\ Q = 0 /\ u = E1
         \/ (flag = "lf" \/ flag = "cr") /\ Q = 0 /\ U2
         \/ flag # "quote" /\ (Q = 1 \/ flag \notin Separators) /\ u = E3
         \/ flag = "quote" /\ Q = 1 /\ next = "end" /\ u = E4
         \/ flag = "quote" /\ Q = 1 /\ next \in Separators /\ u = E5
         \/ flag = "quote" /\ Q = 1 /\ next = "quote" /\ u = E6
         \/ flag = "quote" /\ Q = 1 /\ next \notin Separators \cup {"end", "quote"} /\ u = E7
         \/ flag = "quote" /\ Q = 0 /\ s.fieldLength > 0 /\ u = E7
         \/ flag = "quote" /\ Q = 0 /\ s.fieldLength = 0 /\ u = E8
  BY <1>5, Zenon DEF T2, U2
<1>7. T2 /\ U2 => t = u
  BY <1>4 DEF T2, U2
<1> QED BY <1>6, <1>7 DEF Separators

LEMMA StepIsTurn ==
    ASSUME NEW in \in Seq(Sym), NEW s, Good(in, s), ~Stopped(in, s)
    PROVE  /\ AnyTurn(in, s, Step(in, s))
           /\ \A t : AnyTurn(in, s, t) => Step(in, s) = t
<1>1. AnyTurn(in, s, Step(in, s))
  <2> DEFINE t == Step(in, s)
  <2>1. \/ DelimTurn(in, s, t) \/ RowTurn(in, s, t) \/ ContentTurn(in, s, t)
        \/ PendingTurn(in, s, t) \/ CloseTurn(in, s, t) \/ DoubleTurn(in, s, t)
        \/ CountTurn(in, s, t) \/ OpenTurn(in, s, t)
    BY StepCases
  <2> HIDE DEF t
  <2>2. AnyTurn(in, s, t)
    BY <2>1, Zenon DEF AnyTurn
  <2> QED BY <2>2 DEF t
<1>2. s.pos \in Nat /\ s.pos < Len(in) /\ s.fieldLength \in Nat
  BY LenProperties DEF Good, Stopped
<1> QED BY <1>1, <1>2, TurnsAgree

(* What holds of the parser in a chunk it starts outside quotes. *)
Sound(in, s) ==
    /\ s.dfa.quoted \in {Yes, No} /\ s.dfa.pendingQuote \in {Yes, No}
    /\ s.fieldStart = Unset => s.fieldLength = 0
    /\ s.fieldStart # Unset => s.rowStart + s.fieldStart + s.fieldLength <= s.pos
    /\ s.dfa.quoted = Yes /\ s.fieldStart = Unset => s.pos = Len(in)
    /\ s.dfa.pendingLinefeed = Yes => s.pos = Len(in)
    /\ s.dfa.pendingQuote = Yes => s.pos + 1 = Len(in) /\ in[s.pos + 1] = "quote"
    /\ s.rowStart > 0 => in[s.rowStart] \in {"cr", "lf"}
    /\ s.rowStart < s.pos =>
          \/ s.fields # <<>> \/ s.fieldLength > 0 \/ in[s.pos] \in {"delim", "quote"}
          \/ s.pos = 1 /\ in[1] = "bom"

LEMMA SoundMade ==
    ASSUME NEW in, NEW p, NEW r, NEW a, NEW n, NEW b, NEW f, NEW R,
           NEW q \in {Yes, No}, NEW k \in {Yes, No}, NEW l,
           a = Unset => n = 0,
           a # Unset => r + a + n <= p,
           q = Yes /\ a = Unset => p = Len(in),
           l = Yes => p = Len(in),
           k = Yes => p + 1 = Len(in) /\ in[p + 1] = "quote",
           r > 0 => in[r] \in {"cr", "lf"},
           r < p => \/ f # <<>> \/ n > 0 \/ in[p] \in {"delim", "quote"} \/ (p = 1 /\ in[1] = "bom")
    PROVE  Sound(in, St(p, r, a, n, b, f, R, Dfa(q, k, l)))
<1> DEFINE s == St(p, r, a, n, b, f, R, Dfa(q, k, l))
<1>1. /\ s.pos = p /\ s.rowStart = r /\ s.fieldStart = a /\ s.fieldLength = n
      /\ s.fields = f /\ s.dfa.quoted = q /\ s.dfa.pendingQuote = k /\ s.dfa.pendingLinefeed = l
  BY MadeState
<1> HIDE DEF s
<1>2. Sound(in, s)
  BY <1>1 DEF Sound
<1> QED BY <1>2 DEF s

(* A state the loop goes on from. *)
LEMMA LiveState ==
    ASSUME NEW in \in Seq(Sym), NEW s, Good(in, s), Sound(in, s), ~Stopped(in, s)
    PROVE  /\ s.pos \in Nat /\ s.pos < Len(in) /\ Len(in) \in Nat
           /\ s.dfa.pendingQuote = No /\ s.dfa.pendingLinefeed = No
           /\ s.dfa.quoted = Yes => s.fieldStart # Unset
           /\ s.dfa = Dfa(s.dfa.quoted, No, No)
<1>1. ~(s.pos >= Len(in)) /\ ~s.dfa.pendingQuote
  BY Zenon DEF Stopped
<1>2. s.pos \in Nat /\ s.pos < Len(in) /\ Len(in) \in Nat
  BY <1>1, LenProperties DEF Good
<1>3. s.dfa.pendingQuote = No
  <2>1. s.dfa.pendingQuote # Yes
    BY <1>1, TruthValues, Zenon
  <2> QED BY <2>1 DEF Sound
<1>4. s.dfa.pendingLinefeed = No
  BY <1>2 DEF Sound, Good
<1>5. s.dfa.quoted = Yes => s.fieldStart # Unset
  BY <1>2 DEF Sound
<1>6. s.dfa = Dfa(s.dfa.quoted, No, No)
  BY <1>3, <1>4, GoodState
<1> QED BY <1>2, <1>3, <1>4, <1>5, <1>6

LEMMA TruthOf ==
    ASSUME NEW q \in {Yes, No}
    PROVE  (q => q = Yes) /\ (~q => q = No) /\ (q = Yes => q) /\ (q = No => ~q)
<1>1. q = Yes \/ q = No
  OBVIOUS
<1> QED BY <1>1, TruthValues, Zenon

LEMMA TurnIsSound ==
    ASSUME NEW in \in Seq(Sym), NEW s, Good(in, s), Sound(in, s), ~Stopped(in, s),
           NEW t, AnyTurn(in, s, t)
    PROVE  Sound(in, t)
<1> DEFINE p == s.pos  r == s.rowStart  a == s.fieldStart  n == s.fieldLength  b == s.doubled
           f == s.fields  R == s.rows  q == s.dfa.quoted
<1>1. /\ p \in Nat /\ p < Len(in) /\ Len(in) \in Nat
      /\ s.dfa.pendingQuote = No /\ s.dfa.pendingLinefeed = No
      /\ (q = Yes => a # Unset)
      /\ s.dfa = Dfa(q, No, No)
  BY LiveState
<1>2. /\ r \in Nat /\ r <= p /\ n \in Nat /\ (a # Unset => a \in Nat /\ r + a <= p) /\ IsSeq(f)
  BY <1>1 DEF Good
<1>3. /\ q \in {Yes, No}
      /\ (a = Unset => n = 0)
      /\ (a # Unset => r + a + n <= p)
      /\ (r > 0 => in[r] \in {"cr", "lf"})
      /\ (r < p => \/ f # <<>> \/ n > 0 \/ in[p] \in {"delim", "quote"}
                  \/ (p = 1 /\ in[1] = "bom"))
  BY DEF Sound
<1>4. Yes # No /\ (q => q = Yes) /\ (~q => q = No)
  BY <1>3, TruthOf, YesIsNotNo
<1>5. Flag(in, p) = in[p + 1]
  BY <1>1, FlagIs
<1> HIDE DEF p, r, a, n, b, f, R, q
<1>6. CASE DelimTurn(in, s, t)
  <2> DEFINE g == Append(f, TheField(in, s))
  <2>1. t = St(p + 1, r, Unset, 0, No, g, R, Dfa(q, No, No)) /\ ~q
    BY <1>1, <1>6, Zenon DEF DelimTurn, p, r, f, R, q
  <2>2. g # <<>>
    BY <1>2, SeqAppends
  <2> HIDE DEF g
  <2>3. q = No
    BY <2>1, <1>4, Zenon
  <2> DEFINE o == p + 1
  <2> HIDE DEF o
  <2>4. Sound(in, St(o, r, Unset, 0, No, g, R, Dfa(q, No, No)))
    BY <1>3, <1>4, <2>2, <2>3, SoundMade
  <2> QED BY <2>1, <2>4 DEF o
<1>7. CASE RowTurn(in, s, t)
  <2>1. PICK x \in {1, 2}, l \in {Yes, No} :
          /\ RowEnds(in, s, x, l)
          /\ t = St(s.pos + x, s.pos + x, Unset, 0, No, <<>>, Append(s.rows, TheRow(in, s)),
                    Dfa(s.dfa.quoted, s.dfa.pendingQuote, l))
    BY <1>7, Zenon DEF RowTurn
  <2>2. ~q
    BY <1>7, Zenon DEF RowTurn, q
  <2>3. q = No
    BY <2>2, <1>4, Zenon
  <2> DEFINE o == p + x  Q == Append(R, TheRow(in, s))
  <2>4. t = St(o, o, Unset, 0, No, <<>>, Q, Dfa(No, No, l))
    BY <2>1, <2>3, <1>1, Zenon DEF p, R, q
  <2>5. (l = Yes => o = Len(in)) /\ in[o] \in {"cr", "lf"} /\ o \in Nat
    <3>1. CASE Flag(in, p) = "lf" /\ x = 1 /\ l = s.dfa.pendingLinefeed
      BY <3>1, <1>1, <1>4, <1>5
    <3>2. CASE Flag(in, p) = "cr" /\ Flag(in, p + 1) = "lf" /\ x = 2 /\ l = s.dfa.pendingLinefeed
      <4>1. p + 1 \in Nat
        BY <1>1
      <4>2. p + 1 < Len(in) /\ in[(p + 1) + 1] = "lf"
        BY <3>2, <4>1, FlagIs
      <4> QED BY <3>2, <4>2, <1>1, <1>4
    <3>3. CASE Flag(in, p) = "cr" /\ Flag(in, p + 1) = "end" /\ x = 1 /\ l = Yes
      <4>1. p + 1 \in Nat
        BY <1>1
      <4>2. ~(p + 1 < Len(in))
        BY <3>3, <4>1, FlagIs
      <4> QED BY <3>3, <4>2, <1>1, <1>4, <1>5
    <3>4. CASE Flag(in, p) = "cr" /\ Flag(in, p + 1) \notin {"lf", "end"} /\ x = 1 /\ l = s.dfa.pendingLinefeed
      BY <3>4, <1>1, <1>4, <1>5
    <3> QED BY <2>1, <3>1, <3>2, <3>3, <3>4 DEF RowEnds, p
  <2> HIDE DEF o, Q
  <2>6. Sound(in, St(o, o, Unset, 0, No, <<>>, Q, Dfa(No, No, l)))
    <3>1. /\ No \in {Yes, No}
          /\ Unset = Unset => 0 = 0
          /\ Unset # Unset => o + Unset + 0 <= o
          /\ No = Yes /\ Unset = Unset => o = Len(in)
          /\ l = Yes => o = Len(in)
          /\ No = Yes => o + 1 = Len(in) /\ in[o + 1] = "quote"
          /\ o > 0 => in[o] \in {"cr", "lf"}
          /\ o < o => \/ <<>> # <<>> \/ 0 > 0 \/ in[o] \in {"delim", "quote"}
                      \/ (o = 1 /\ in[1] = "bom")
      BY <1>4, <2>5
    <3> QED BY <3>1, SoundMade
  <2> QED BY <2>4, <2>6
<1>8. CASE ContentTurn(in, s, t)
  <2> DEFINE e == RunEnd(in, p, q)
             c == IF a = Unset THEN p - r ELSE a
             m == e - (c + r)
  <2>1. t = St(e, r, c, m, b, f, R, Dfa(q, No, No)) /\ IsContent(in, p, q)
    BY <1>1, <1>8, Zenon DEF ContentTurn, Start, p, r, a, b, f, R, q
  <2>2. e \in p..Len(in) /\ ~IsContent(in, e, q)
    <3>1. p \in 0..Len(in)
      BY <1>1
    <3> QED BY <1>1, <3>1, RunEndIs
  <2>3. e # p
    BY <2>1, <2>2
  <2> HIDE DEF e
  <2>4. c \in Nat /\ c + r <= p /\ c # Unset
    BY <1>1, <1>2 DEF Unset
  <2> HIDE DEF c
  <2>5. r + c + m <= e /\ m > 0
    BY <1>1, <1>2, <2>2, <2>3, <2>4
  <2> HIDE DEF m
  <2>6. Sound(in, St(e, r, c, m, b, f, R, Dfa(q, No, No)))
    BY <1>3, <1>4, <2>4, <2>5, SoundMade
  <2> QED BY <2>1, <2>6
<1>9. CASE PendingTurn(in, s, t)
  <2>1. t = St(p, r, a, n, b, f, R, Dfa(q, Yes, No)) /\ q /\ Flag(in, p) = "quote" /\ Flag(in, p + 1) = "end"
    BY <1>1, <1>9, Zenon DEF PendingTurn, p, r, a, n, b, f, R, q
  <2>2. p + 1 = Len(in) /\ in[p + 1] = "quote"
    <3>1. p + 1 \in Nat
      BY <1>1
    <3>2. ~(p + 1 < Len(in))
      BY <2>1, <3>1, FlagIs
    <3> QED BY <1>1, <1>5, <2>1, <3>2
  <2>3. a # Unset
    BY <1>1, <1>4, <2>1, Zenon
  <2>4. Sound(in, St(p, r, a, n, b, f, R, Dfa(q, Yes, No)))
    BY <1>3, <1>4, <2>2, <2>3, SoundMade
  <2> QED BY <2>1, <2>4
<1>10. CASE CloseTurn(in, s, t)
  <2> DEFINE o == p + 1
  <2>1. t = St(o, r, a, n, b, f, R, Dfa(No, No, No)) /\ Flag(in, p) = "quote"
    BY <1>1, <1>10, Zenon DEF CloseTurn, p, r, a, n, b, f, R
  <2>2. in[o] \in {"delim", "quote"} /\ (a # Unset => r + a + n <= o)
    BY <1>1, <1>2, <1>3, <1>5, <2>1
  <2> HIDE DEF o
  <2>3. Sound(in, St(o, r, a, n, b, f, R, Dfa(No, No, No)))
    BY <1>3, <1>4, <2>2, SoundMade
  <2> QED BY <2>1, <2>3
<1>11. CASE DoubleTurn(in, s, t)
  <2> DEFINE o == p + 2  m == n + 2
  <2>1. t = St(o, r, a, m, Yes, f, R, Dfa(q, No, No)) /\ q
    BY <1>1, <1>11, Zenon DEF DoubleTurn, p, r, a, n, f, R, q
  <2>2. a # Unset
    BY <1>1, <1>4, <2>1, Zenon
  <2>3. r + a + m <= o /\ m > 0
    BY <1>1, <1>2, <1>3, <2>2
  <2> HIDE DEF o, m
  <2>4. Sound(in, St(o, r, a, m, Yes, f, R, Dfa(q, No, No)))
    BY <1>3, <1>4, <2>2, <2>3, SoundMade
  <2> QED BY <2>1, <2>4
<1>12. CASE CountTurn(in, s, t)
  <2> DEFINE o == p + 1  m == n + 1
  <2>1. t = St(o, r, a, m, b, f, R, Dfa(q, No, No)) /\ (q \/ n > 0)
    BY <1>1, <1>12, Zenon DEF CountTurn, p, r, a, n, b, f, R, q
  <2>2. a # Unset
    <3>1. CASE q
      BY <1>1, <1>4, <3>1, Zenon
    <3>2. CASE n > 0
      BY <1>3, <3>2
    <3> QED BY <2>1, <3>1, <3>2
  <2>3. r + a + m <= o /\ m > 0
    BY <1>1, <1>2, <1>3, <2>2
  <2> HIDE DEF o, m
  <2>4. Sound(in, St(o, r, a, m, b, f, R, Dfa(q, No, No)))
    BY <1>3, <1>4, <2>2, <2>3, SoundMade
  <2> QED BY <2>1, <2>4
<1>13. CASE OpenTurn(in, s, t)
  <2> DEFINE o == p + 1
             c == IF a = Unset /\ p + 1 < Len(in) THEN p + 1 - r ELSE a
  <2>1. t = St(o, r, c, 0, b, f, R, Dfa(Yes, No, No)) /\ Flag(in, p) = "quote" /\ n = 0
    BY <1>1, <1>13, Zenon DEF OpenTurn, p, r, a, n, b, f, R
  <2>2. /\ in[o] \in {"delim", "quote"} /\ (c # Unset => r + c + 0 <= o)
        /\ (c = Unset => o = Len(in))
    <3>1. p + 1 - r \in Nat
      BY <1>1, <1>2
    <3> QED BY <1>1, <1>2, <1>3, <1>5, <2>1, <3>1 DEF Unset
  <2> HIDE DEF o, c
  <2>3. Sound(in, St(o, r, c, 0, b, f, R, Dfa(Yes, No, No)))
    BY <1>3, <1>4, <2>2, SoundMade
  <2> QED BY <2>1, <2>3
<1> QED BY <1>6, <1>7, <1>8, <1>9, <1>10, <1>11, <1>12, <1>13 DEF AnyTurn

-----------------------------------------------------------------------------
(* The state in a window as one of the run over the whole source, and its  *)
(* turns as turns of that run.                                             *)

(* The parser's state in a window that starts at o of the source, as one   *)
(* of the run over the whole source, which had emitted the rows pre.       *)
ShiftRow(row, o) == Row(row.fields, row.start + o, row.end + o)
ShiftRows(rows, o) == [i \in 1..Len(rows) |-> ShiftRow(rows[i], o)]
Joined(pre, rows, o) == pre \o ShiftRows(rows, o)
Lift(s, o, pre) ==
    St(s.pos + o, s.rowStart + o, s.fieldStart, s.fieldLength, s.doubled, s.fields,
       Joined(pre, s.rows, o), s.dfa)

LEMMA ShiftedRows ==
    ASSUME NEW rows, IsSeq(rows), NEW o
    PROVE  /\ IsSeq(ShiftRows(rows, o)) /\ Len(ShiftRows(rows, o)) = Len(rows) /\ Len(rows) \in Nat
           /\ \A i \in 1..Len(rows) : ShiftRows(rows, o)[i] = ShiftRow(rows[i], o)
<1>1. Len(rows) \in Nat
  BY LenProperties DEF IsSeq
<1> DEFINE y == ShiftRows(rows, o)
           S == {ShiftRow(rows[i], o) : i \in 1..Len(rows)}
<1>2. y = [i \in 1..Len(rows) |-> ShiftRow(rows[i], o)]
  BY DEF ShiftRows
<1>3. \A i \in 1..Len(rows) : ShiftRow(rows[i], o) \in S
  OBVIOUS
<1> HIDE DEF y, S
<1>4. y \in Seq(S) /\ Len(y) = Len(rows) /\ \A i \in 1..Len(rows) : y[i] = ShiftRow(rows[i], o)
  BY <1>1, <1>2, <1>3
<1>5. IsSeq(y)
  BY <1>4 DEF IsSeq
<1> QED BY <1>1, <1>4, <1>5 DEF y

LEMMA JoinedIs ==
    ASSUME NEW pre, IsSeq(pre), NEW rows, IsSeq(rows), NEW o
    PROVE  /\ IsSeq(Joined(pre, rows, o)) /\ Len(pre) \in Nat /\ Len(rows) \in Nat
           /\ Len(Joined(pre, rows, o)) = Len(pre) + Len(rows)
           /\ \A i \in 1..Len(pre) : Joined(pre, rows, o)[i] = pre[i]
           /\ \A i \in 1..Len(rows) : Joined(pre, rows, o)[Len(pre) + i] = ShiftRow(rows[i], o)
<1> DEFINE y == ShiftRows(rows, o)  v == Joined(pre, rows, o)
<1>1. IsSeq(y) /\ Len(y) = Len(rows) /\ Len(rows) \in Nat /\ \A i \in 1..Len(rows) : y[i] = ShiftRow(rows[i], o)
  BY ShiftedRows
<1> HIDE DEF y
<1>2. /\ IsSeq(pre \o y) /\ Len(pre) \in Nat /\ Len(pre \o y) = Len(pre) + Len(y)
      /\ \A i \in 1..(Len(pre) + Len(y)) : (pre \o y)[i] = IF i <= Len(pre) THEN pre[i] ELSE y[i - Len(pre)]
  BY <1>1, ConcatIs
<1>3. v = pre \o y
  BY Zenon DEF Joined, y
<1> HIDE DEF v
<1>4. /\ IsSeq(v) /\ Len(v) = Len(pre) + Len(rows)
      /\ \A i \in 1..(Len(pre) + Len(rows)) : v[i] = IF i <= Len(pre) THEN pre[i] ELSE y[i - Len(pre)]
  BY <1>1, <1>2, <1>3, Zenon
<1>5. ASSUME NEW i \in 1..Len(rows) PROVE v[Len(pre) + i] = ShiftRow(rows[i], o)
  <2>1. Len(pre) + i \in 1..(Len(pre) + Len(rows)) /\ ~(Len(pre) + i <= Len(pre)) /\ (Len(pre) + i) - Len(pre) = i
    BY <1>1, <1>2
  <2> QED BY <1>1, <1>4, <2>1
<1>6. ASSUME NEW i \in 1..Len(pre) PROVE v[i] = pre[i]
  <2>1. i \in 1..(Len(pre) + Len(rows)) /\ i <= Len(pre)
    BY <1>1, <1>2
  <2> QED BY <1>4, <2>1
<1> QED BY <1>1, <1>2, <1>4, <1>5, <1>6 DEF v

LEMMA ShiftedAppend ==
    ASSUME NEW pre, IsSeq(pre), NEW rows, IsSeq(rows), NEW x, NEW o
    PROVE  Joined(pre, Append(rows, x), o) = Append(Joined(pre, rows, o), ShiftRow(x, o))
<1> DEFINE a == Append(rows, x)
           sa == ShiftRows(a, o)
           sr == ShiftRows(rows, o)
           u == pre \o sa
           v == pre \o sr
           w == Append(v, ShiftRow(x, o))
           m == Len(pre)  n == Len(rows)
<1>1. IsSeq(a) /\ n \in Nat /\ Len(a) = n + 1 /\ (\A i \in 1..n : a[i] = rows[i]) /\ a[n + 1] = x
  BY SeqAppends
<1> HIDE DEF a
<1>2. IsSeq(sa) /\ Len(sa) = n + 1 /\ \A i \in 1..(n + 1) : sa[i] = ShiftRow(a[i], o)
  BY <1>1, ShiftedRows
<1>3. IsSeq(sr) /\ Len(sr) = n /\ \A i \in 1..n : sr[i] = ShiftRow(rows[i], o)
  BY ShiftedRows
<1> HIDE DEF sa, sr, n
<1>4. /\ IsSeq(u) /\ m \in Nat /\ Len(u) = m + (n + 1)
      /\ \A i \in 1..(m + (n + 1)) : u[i] = IF i <= m THEN pre[i] ELSE sa[i - m]
  BY <1>2, ConcatIs
<1>5. /\ IsSeq(v) /\ Len(v) = m + n
      /\ \A i \in 1..(m + n) : v[i] = IF i <= m THEN pre[i] ELSE sr[i - m]
  BY <1>3, ConcatIs
<1> DEFINE z == ShiftRow(x, o)
<1> HIDE DEF u, v, z, m
<1>6. IsSeq(w) /\ Len(w) = (m + n) + 1 /\ (\A i \in 1..(m + n) : w[i] = v[i]) /\ w[(m + n) + 1] = z
  <2>1. Len(v) = m + n /\ IsSeq(v)
    BY <1>5
  <2> QED BY <2>1, SeqAppends DEF z
<1> HIDE DEF w
<1>7. Len(u) = Len(w)
  BY <1>1, <1>4, <1>6
<1>8. ASSUME NEW i \in 1..Len(u) PROVE u[i] = w[i]
  <2>1. i \in 1..(m + (n + 1)) /\ i \in Nat
    BY <1>4
  <2>2. CASE i <= m
    <3>1. i \in 1..(m + n)
      BY <1>1, <1>4, <2>1, <2>2
    <3> QED BY <1>4, <1>5, <1>6, <2>1, <2>2, <3>1
  <2>3. CASE ~(i <= m) /\ i # m + (n + 1)
    <3>1. i \in 1..(m + n) /\ i - m \in 1..n /\ i - m \in 1..(n + 1)
      BY <1>1, <1>4, <2>1, <2>3
    <3>2. u[i] = sa[i - m] /\ sa[i - m] = ShiftRow(a[i - m], o) /\ a[i - m] = rows[i - m]
      BY <1>1, <1>2, <1>4, <2>1, <2>3, <3>1
    <3>3. w[i] = v[i] /\ v[i] = sr[i - m] /\ sr[i - m] = ShiftRow(rows[i - m], o)
      BY <1>3, <1>5, <1>6, <2>3, <3>1
    <3> QED BY <3>2, <3>3
  <2>4. CASE i = m + (n + 1)
    <3>1. ~(i <= m) /\ i - m = n + 1 /\ n + 1 \in 1..(n + 1) /\ i = (m + n) + 1
      BY <1>1, <1>4, <2>4
    <3>2. u[i] = sa[n + 1] /\ sa[n + 1] = ShiftRow(a[n + 1], o)
      BY <1>2, <1>4, <2>1, <3>1
    <3> QED BY <1>1, <1>6, <3>1, <3>2 DEF z
  <2> QED BY <2>2, <2>3, <2>4
<1>9. u = w
  BY <1>4, <1>6, <1>7, <1>8, IsSeqEqual
<1>10. Joined(pre, Append(rows, x), o) = u /\ Joined(pre, rows, o) = v
  BY Zenon DEF Joined, u, v, sa, sr, a
<1>11. w = Append(v, ShiftRow(x, o))
  BY Zenon DEF w, z
<1> QED BY <1>9, <1>10, <1>11

-----------------------------------------------------------------------------
(* The window's bytes are the source's. *)
IsCut(W, o, past, w) ==
    /\ W \in Seq(Sym) /\ o \in Nat /\ past \in o..Len(W) /\ w = Cut(W, o, past)

LEMMA CutBytes ==
    ASSUME NEW W, NEW o, NEW past, NEW w, IsCut(W, o, past, w)
    PROVE  /\ w \in Seq(Sym) /\ Len(w) = past - o /\ o \in Nat /\ past \in Nat /\ Len(W) \in Nat
           /\ past <= Len(W) /\ o <= past
           /\ \A i \in 1..Len(w) : w[i] = W[o + i]
           /\ Len(w) \in Nat
<1>1. W \in Seq(Sym) /\ o \in Nat /\ past \in o..Len(W) /\ w = Cut(W, o, past)
  BY DEF IsCut
<1>2. Len(W) \in Nat
  BY <1>1, LenProperties
<1>3. w \in Seq(Sym) /\ Len(w) = past - o /\ \A i \in 1..(past - o) : w[i] = W[o + i]
  BY <1>1, CutFacts
<1> QED BY <1>1, <1>2, <1>3

LEMMA FlagLifts ==
    ASSUME NEW W, NEW o, NEW past, NEW w, IsCut(W, o, past, w), NEW i \in Nat,
           i < Len(w) \/ past = Len(W)
    PROVE  Flag(W, i + o) = Flag(w, i)
<1>1. /\ w \in Seq(Sym) /\ Len(w) = past - o /\ o \in Nat /\ past \in Nat /\ Len(W) \in Nat
      /\ past <= Len(W) /\ o <= past
      /\ \A j \in 1..Len(w) : w[j] = W[o + j]
      /\ W \in Seq(Sym)
  <2>1. W \in Seq(Sym)
    BY DEF IsCut
  <2> QED BY <2>1, CutBytes
<1> DEFINE k == i + o
<1>2. k \in Nat
  BY <1>1
<1>3. CASE i < Len(w)
  <2>1. i + 1 \in 1..Len(w) /\ k < Len(W) /\ o + (i + 1) = k + 1
    BY <1>1, <1>3
  <2>2. Flag(w, i) = w[i + 1]
    BY <1>1, <1>3, FlagIs
  <2> HIDE DEF k
  <2>3. Flag(W, k) = W[k + 1]
    BY <1>1, <1>2, <2>1, FlagIs
  <2> QED BY <1>1, <2>1, <2>2, <2>3 DEF k
<1>4. CASE ~(i < Len(w))
  <2>1. ~(k < Len(W))
    BY <1>1, <1>4
  <2>2. Flag(w, i) = "end"
    BY <1>1, <1>4, FlagIs
  <2> HIDE DEF k
  <2>3. Flag(W, k) = "end"
    BY <1>1, <1>2, <2>1, FlagIs
  <2> QED BY <2>2, <2>3 DEF k
<1> QED BY <1>3, <1>4

LEMMA ContentLifts ==
    ASSUME NEW W, NEW o, NEW past, NEW w, IsCut(W, o, past, w), NEW i \in Nat, i < Len(w), NEW q
    PROVE  IsContent(W, i + o, q) <=> IsContent(w, i, q)
<1>1. /\ w \in Seq(Sym) /\ Len(w) = past - o /\ o \in Nat /\ past \in Nat /\ Len(W) \in Nat
      /\ past <= Len(W) /\ o <= past
      /\ W \in Seq(Sym)
  <2>1. W \in Seq(Sym)
    BY DEF IsCut
  <2> QED BY <2>1, CutBytes
<1> DEFINE k == i + o
<1>2. k \in Nat /\ k < Len(W)
  BY <1>1
<1>3. Flag(W, k) = Flag(w, i)
  BY FlagLifts
<1> HIDE DEF k
<1>4. IsContent(W, k, q) <=> Flag(W, k) # "quote" /\ (q \/ Flag(W, k) \notin Separators)
  BY <1>1, <1>2, NotContent
<1>5. IsContent(w, i, q) <=> Flag(w, i) # "quote" /\ (q \/ Flag(w, i) \notin Separators)
  BY <1>1, NotContent
<1>6. IsContent(W, k, q) <=> IsContent(w, i, q)
  BY <1>3, <1>4, <1>5, Zenon
<1> QED BY <1>6 DEF k

LEMMA RunEndLifts ==
    ASSUME NEW W, NEW o, NEW past, NEW w, IsCut(W, o, past, w), NEW i \in Nat, i < Len(w), NEW q,
           RunEnd(w, i, q) < Len(w) \/ past = Len(W)
    PROVE  RunEnd(W, i + o, q) = RunEnd(w, i, q) + o
<1> DEFINE e == RunEnd(w, i, q)  k == i + o  d == e + o
<1>1. /\ w \in Seq(Sym) /\ Len(w) = past - o /\ o \in Nat /\ past \in Nat /\ Len(W) \in Nat
      /\ past <= Len(W) /\ o <= past /\ Len(w) \in Nat
      /\ W \in Seq(Sym)
  <2>1. W \in Seq(Sym)
    BY DEF IsCut
  <2> QED BY <2>1, CutBytes
<1>2. e \in i..Len(w) /\ ~IsContent(w, e, q) /\ \A j \in i..(e - 1) : IsContent(w, j, q)
  <2>1. i \in 0..Len(w)
    BY <1>1
  <2> QED BY <1>1, <2>1, RunEndIs
<1> HIDE DEF e
<1>3. ~IsContent(W, d, q)
  <2>1. CASE e < Len(w)
    <3>1. e \in Nat
      BY <1>2
    <3> QED BY <1>2, <2>1, <3>1, ContentLifts
  <2>2. CASE ~(e < Len(w))
    <3>1. past = Len(W)
      BY <2>2 DEF e
    <3>2. ~(d < Len(W))
      BY <1>1, <1>2, <2>2, <3>1
    <3> QED BY <3>2, Zenon DEF IsContent
  <2> QED BY <2>1, <2>2
<1>4. ASSUME NEW j \in k..(d - 1) PROVE IsContent(W, j, q)
  <2> DEFINE m == j - o
  <2>1. m \in Nat /\ m < Len(w) /\ m \in i..(e - 1) /\ m + o = j
    BY <1>1, <1>2
  <2> HIDE DEF m
  <2>2. IsContent(w, m, q)
    BY <1>2, <2>1
  <2>3. IsContent(W, m + o, q)
    BY <2>1, <2>2, ContentLifts
  <2> QED BY <2>1, <2>3
<1>5. k \in 0..Len(W) /\ d \in k..Len(W)
  BY <1>1, <1>2
<1> HIDE DEF k, d
<1>6. RunEnd(W, k, q) = d
  BY <1>1, <1>3, <1>4, <1>5, RunEndIsFirst
<1> QED BY <1>6 DEF k, d, e

FieldFits(w, r, a, n) ==
    /\ r \in Nat /\ n \in Nat
    /\ a = Unset => r + n <= Len(w)
    /\ a # Unset => a \in Nat /\ r + a + n <= Len(w)

LEMMA FieldLifts ==
    ASSUME NEW W, NEW o, NEW past, NEW w, IsCut(W, o, past, w), NEW r, NEW a, NEW n, NEW b,
           FieldFits(w, r, a, n)
    PROVE  Field(W, r + o, a, n, b) = Field(w, r, a, n, b)
<1>1. /\ w \in Seq(Sym) /\ Len(w) = past - o /\ o \in Nat /\ past \in Nat /\ Len(W) \in Nat
      /\ past <= Len(W) /\ o <= past /\ Len(w) \in Nat
      /\ W \in Seq(Sym) /\ w = Cut(W, o, past) /\ past \in o..Len(W)
  BY CutBytes DEF IsCut
<1>0. /\ r \in Nat /\ n \in Nat
      /\ (a = Unset => r + n <= Len(w))
      /\ (a # Unset => a \in Nat /\ r + a + n <= Len(w))
  BY DEF FieldFits
<1> DEFINE c == IF a = Unset THEN 0 ELSE a
           x == r + c
           y == x + n
<1>1a. c \in Nat /\ r + c + n <= Len(w)
  BY <1>0, <1>1
<1> HIDE DEF c
<1>2. c \in Nat /\ x \in Nat /\ y \in x..(past - o) /\ y \in Nat
  BY <1>0, <1>1, <1>1a
<1>3. Raw(w, r, a, n) = Cut(w, x, y)
  <2>1. Raw(w, r, a, n) = SubSeq(w, x + 1, IF y < Len(w) THEN y ELSE Len(w))
    BY Zenon DEF Raw, c
  <2>2. (IF y < Len(w) THEN y ELSE Len(w)) = y
    BY <1>1, <1>2
  <2> QED BY <2>1, <2>2 DEF Cut
<1> DEFINE X == (r + o) + c  Y == X + n
<1>4. Raw(W, r + o, a, n) = Cut(W, X, Y)
  <2>1. Raw(W, r + o, a, n) = SubSeq(W, X + 1, IF Y < Len(W) THEN Y ELSE Len(W))
    BY Zenon DEF Raw, c
  <2>2. (IF Y < Len(W) THEN Y ELSE Len(W)) = Y
    BY <1>0, <1>1, <1>2
  <2> QED BY <2>1, <2>2 DEF Cut
<1>5. X = o + x /\ Y = o + y
  BY <1>0, <1>1, <1>2
<1> HIDE DEF x, y, X, Y
<1>6. Cut(Cut(W, o, past), x, y) = Cut(W, o + x, o + y)
  BY <1>1, <1>2, CutCut
<1>7. Raw(W, r + o, a, n) = Raw(w, r, a, n)
  BY <1>1, <1>3, <1>4, <1>5, <1>6
<1> QED BY <1>7, Zenon DEF Field

LEMMA LiftOf ==
    ASSUME NEW p, NEW r, NEW a, NEW n, NEW b, NEW f, NEW R, NEW d, NEW o, NEW pre
    PROVE  Lift(St(p, r, a, n, b, f, R, d), o, pre) =
             St(p + o, r + o, a, n, b, f, Joined(pre, R, o), d)
<1> DEFINE s == St(p, r, a, n, b, f, R, d)
<1>1. /\ s.pos = p /\ s.rowStart = r /\ s.fieldStart = a /\ s.fieldLength = n
      /\ s.doubled = b /\ s.fields = f /\ s.rows = R /\ s.dfa = d
  BY StMembers
<1> HIDE DEF s
<1>2. Lift(s, o, pre) = St(p + o, r + o, a, n, b, f, Joined(pre, R, o), d)
  BY <1>1, Zenon DEF Lift
<1> QED BY <1>2 DEF s

LEMMA LiftMembers ==
    ASSUME NEW s, NEW o, NEW pre
    PROVE  LET u == Lift(s, o, pre)
           IN  /\ u.pos = s.pos + o /\ u.rowStart = s.rowStart + o /\ u.fieldStart = s.fieldStart
               /\ u.fieldLength = s.fieldLength /\ u.doubled = s.doubled /\ u.fields = s.fields
               /\ u.rows = Joined(pre, s.rows, o) /\ u.dfa = s.dfa
<1> DEFINE p == s.pos + o  r == s.rowStart + o  a == s.fieldStart  n == s.fieldLength
           b == s.doubled  f == s.fields  R == Joined(pre, s.rows, o)  d == s.dfa
           u == Lift(s, o, pre)
<1>1. u = St(p, r, a, n, b, f, R, d)
  BY Zenon DEF Lift
<1> HIDE DEF p, r, a, n, b, f, R, d, u
<1>2. /\ u.pos = p /\ u.rowStart = r /\ u.fieldStart = a /\ u.fieldLength = n
      /\ u.doubled = b /\ u.fields = f /\ u.rows = R /\ u.dfa = d
  BY <1>1, StMembers
<1> QED BY <1>2 DEF p, r, a, n, b, f, R, d, u

(* A state of the loop in a window of the source. *)
InWindow(W, o, past, w, v, pre) ==
    /\ IsCut(W, o, past, w) /\ Good(w, v) /\ Sound(w, v) /\ ~Stopped(w, v) /\ IsSeq(pre)

LEMMA WindowFacts ==
    ASSUME NEW W, NEW o, NEW past, NEW w, NEW v, NEW pre, InWindow(W, o, past, w, v, pre)
    PROVE  LET u == Lift(v, o, pre)
           IN  /\ w \in Seq(Sym) /\ Len(w) = past - o /\ o \in Nat /\ past \in Nat /\ Len(W) \in Nat
               /\ past <= Len(W) /\ o <= past /\ Len(w) \in Nat /\ W \in Seq(Sym)
               /\ v.pos \in Nat /\ v.pos < Len(w)
               /\ v.dfa.pendingQuote = No /\ v.dfa.pendingLinefeed = No /\ v.dfa.quoted \in {Yes, No}
               /\ v.dfa = Dfa(v.dfa.quoted, No, No)
               /\ v.rowStart \in Nat /\ v.rowStart <= v.pos /\ v.fieldLength \in Nat
               /\ (v.fieldStart = Unset => v.fieldLength = 0)
               /\ (v.fieldStart # Unset => v.fieldStart \in Nat /\ v.rowStart + v.fieldStart + v.fieldLength <= v.pos)
               /\ IsSeq(v.fields) /\ IsSeq(v.rows)
               /\ Flag(W, u.pos) = Flag(w, v.pos)
               /\ TheField(W, u) = TheField(w, v)
               /\ TheRow(W, u) = ShiftRow(TheRow(w, v), o)
<1> DEFINE u == Lift(v, o, pre)
<1>1. /\ w \in Seq(Sym) /\ Len(w) = past - o /\ o \in Nat /\ past \in Nat /\ Len(W) \in Nat
      /\ past <= Len(W) /\ o <= past /\ Len(w) \in Nat
  BY CutBytes DEF InWindow
<1>2. W \in Seq(Sym)
  BY DEF InWindow, IsCut
<1>3. Good(w, v) /\ Sound(w, v) /\ ~Stopped(w, v) /\ IsSeq(pre) /\ IsCut(W, o, past, w)
  BY Zenon DEF InWindow
<1>4. /\ v.pos \in Nat /\ v.pos < Len(w)
      /\ v.dfa.pendingQuote = No /\ v.dfa.pendingLinefeed = No
      /\ v.dfa = Dfa(v.dfa.quoted, No, No)
  BY <1>1, <1>3, LiveState
<1>5. /\ v.dfa.quoted \in {Yes, No}
      /\ v.rowStart \in Nat /\ v.rowStart <= v.pos /\ v.fieldLength \in Nat
      /\ (v.fieldStart = Unset => v.fieldLength = 0)
      /\ (v.fieldStart # Unset => v.fieldStart \in Nat /\ v.rowStart + v.fieldStart + v.fieldLength <= v.pos)
      /\ IsSeq(v.fields) /\ IsSeq(v.rows)
  BY <1>3, <1>4 DEF Good, Sound
<1>6. /\ u.pos = v.pos + o /\ u.rowStart = v.rowStart + o /\ u.fieldStart = v.fieldStart
      /\ u.fieldLength = v.fieldLength /\ u.doubled = v.doubled /\ u.fields = v.fields
  BY LiftMembers
<1> HIDE DEF u
<1>7. Flag(W, u.pos) = Flag(w, v.pos)
  BY <1>3, <1>4, <1>6, FlagLifts
<1> DEFINE r == v.rowStart  a == v.fieldStart  n == v.fieldLength  b == v.doubled  f == v.fields  p == v.pos
<1>8. Field(W, r + o, a, n, b) = Field(w, r, a, n, b)
  <2>1. FieldFits(w, r, a, n)
    BY <1>1, <1>4, <1>5 DEF FieldFits
  <2> HIDE DEF r, a, n, b
  <2> QED BY <1>3, <2>1, FieldLifts
<1>9. TheField(W, u) = TheField(w, v)
  BY <1>6, <1>8, Zenon DEF TheField
<1>10. RowFields(W, r + o, a, n, b, f) = RowFields(w, r, a, n, b, f)
  BY <1>8, Zenon DEF RowFields
<1>11. TheRow(W, u) = Row(RowFields(w, r, a, n, b, f), r + o, p + o)
  BY <1>6, <1>10, Zenon DEF TheRow
<1> DEFINE g == RowFields(w, r, a, n, b, f)
<1>12. ShiftRow(TheRow(w, v), o) = Row(g, r + o, p + o)
  <2>1. TheRow(w, v) = Row(g, r, p)
    BY Zenon DEF TheRow
  <2> HIDE DEF g, r, p
  <2>2. Row(g, r, p).fields = g /\ Row(g, r, p).start = r /\ Row(g, r, p).end = p
    BY DEF Row
  <2> QED BY <2>1, <2>2 DEF ShiftRow
<1>13. TheRow(W, u) = ShiftRow(TheRow(w, v), o)
  BY <1>11, <1>12
<1> QED BY <1>1, <1>2, <1>4, <1>5, <1>7, <1>9, <1>13 DEF u

(* A turn that looks at no byte after the window. *)
Uncut(W, past, w, v) ==
    \/ past = Len(W)
    \/ ~v.dfa.quoted /\ Flag(w, v.pos) \in {"delim", "lf"}
    \/ /\ v.pos + 1 < Len(w)
       /\ IsContent(w, v.pos, v.dfa.quoted) => RunEnd(w, v.pos, v.dfa.quoted) < Len(w)

LEMMA DelimLifts ==
    ASSUME NEW W, NEW o, NEW past, NEW w, NEW v, NEW pre, InWindow(W, o, past, w, v, pre),
           NEW t, DelimTurn(w, v, t)
    PROVE  DelimTurn(W, Lift(v, o, pre), Lift(t, o, pre))
<1> DEFINE u == Lift(v, o, pre)  p == v.pos  r == v.rowStart  R == v.rows  d == v.dfa
           g == Append(v.fields, TheField(w, v))  x == Lift(t, o, pre)
<1>1. o \in Nat /\ p \in Nat /\ Flag(W, u.pos) = Flag(w, v.pos) /\ TheField(W, u) = TheField(w, v)
  BY WindowFacts
<1>2. u.pos = p + o /\ u.rowStart = r + o /\ u.fields = v.fields /\ u.rows = Joined(pre, R, o) /\ u.dfa = d
  BY LiftMembers
<1>3. t = St(p + 1, r, Unset, 0, No, g, R, d) /\ ~d.quoted /\ Flag(w, p) = "delim"
  BY Zenon DEF DelimTurn
<1>4. x = St((p + 1) + o, r + o, Unset, 0, No, g, Joined(pre, R, o), d)
  <2> HIDE DEF g, R, d, p, r
  <2> QED BY <1>3, LiftOf
<1>5. (p + 1) + o = (p + o) + 1
  BY <1>1
<1> HIDE DEF u, x
<1>6. DelimTurn(W, u, x)
  BY <1>1, <1>2, <1>3, <1>4, <1>5, Zenon DEF DelimTurn
<1> QED BY <1>6 DEF u, x

LEMMA RowLifts ==
    ASSUME NEW W, NEW o, NEW past, NEW w, NEW v, NEW pre, InWindow(W, o, past, w, v, pre),
           NEW t, RowTurn(w, v, t),
           past = Len(W) \/ v.pos + 1 < Len(w) \/ Flag(w, v.pos) = "lf"
    PROVE  RowTurn(W, Lift(v, o, pre), Lift(t, o, pre))
<1> DEFINE u == Lift(v, o, pre)  p == v.pos  r == v.rowStart  R == v.rows  d == v.dfa
           X == Lift(t, o, pre)
<1>1. /\ o \in Nat /\ p \in Nat /\ Flag(W, u.pos) = Flag(w, v.pos) /\ TheRow(W, u) = ShiftRow(TheRow(w, v), o)
      /\ IsSeq(R)
  BY WindowFacts
<1>2. u.pos = p + o /\ u.rowStart = r + o /\ u.fields = v.fields /\ u.rows = Joined(pre, R, o) /\ u.dfa = d
  BY LiftMembers
<1>3. PICK x \in {1, 2}, l \in {Yes, No} :
          /\ RowEnds(w, v, x, l)
          /\ t = St(p + x, p + x, Unset, 0, No, <<>>, Append(R, TheRow(w, v)),
                    Dfa(d.quoted, d.pendingQuote, l))
  BY Zenon DEF RowTurn
<1>4. ~d.quoted
  BY Zenon DEF RowTurn
<1> DEFINE e == Dfa(d.quoted, d.pendingQuote, l)  Q == Append(R, TheRow(w, v))
<1>5. X = St((p + x) + o, (p + x) + o, Unset, 0, No, <<>>, Joined(pre, Q, o), e)
  <2> HIDE DEF Q, R, d, p, r, e
  <2> QED BY <1>3, LiftOf DEF Q, e
<1>6. (p + x) + o = (p + o) + x
  BY <1>1
<1>7. Joined(pre, Q, o) = Append(Joined(pre, R, o), TheRow(W, u))
  <2>1. IsSeq(pre)
    BY DEF InWindow
  <2> DEFINE y == TheRow(w, v)
  <2> HIDE DEF y, R, u
  <2>2. Joined(pre, Append(R, y), o) = Append(Joined(pre, R, o), ShiftRow(y, o))
    BY <1>1, <2>1, ShiftedAppend
  <2>3. TheRow(W, u) = ShiftRow(y, o) /\ Q = Append(R, y)
    BY <1>1 DEF y
  <2> HIDE DEF Q
  <2> QED BY <2>2, <2>3
<1>8. RowEnds(W, u, x, l)
  <2>1. CASE Flag(w, p) = "lf"
    <3>1. x = 1 /\ l = d.pendingLinefeed
      BY <1>3, <2>1 DEF RowEnds
    <3> HIDE DEF u
    <3> QED BY <1>1, <1>2, <2>1, <3>1, Zenon DEF RowEnds
  <2>2. CASE Flag(w, p) # "lf"
    <3>1. IsCut(W, o, past, w)
      BY DEF InWindow
    <3> DEFINE p1 == p + 1
    <3>2. p1 \in Nat /\ (p1 < Len(w) \/ past = Len(W)) /\ p1 + o = (p + o) + 1
      BY <1>1, <2>2
    <3> HIDE DEF p1
    <3>3. Flag(W, p1 + o) = Flag(w, p1)
      BY <3>1, <3>2, FlagLifts
    <3>4. Flag(W, u.pos + 1) = Flag(w, v.pos + 1)
      <4> HIDE DEF u
      <4> QED BY <1>2, <3>2, <3>3 DEF p1
    <3>5. u.dfa.pendingLinefeed = v.dfa.pendingLinefeed
      BY <1>2
    <3> HIDE DEF u
    <3> QED BY <1>1, <1>3, <3>4, <3>5, Zenon DEF RowEnds
  <2> QED BY <2>1, <2>2
<1>9. RowTurn(W, u, X)
  <2> HIDE DEF u, X, Q
  <2>1. X = St(u.pos + x, u.pos + x, Unset, 0, No, <<>>, Append(u.rows, TheRow(W, u)),
                    Dfa(u.dfa.quoted, u.dfa.pendingQuote, l))
    BY <1>2, <1>5, <1>6, <1>7
  <2>2. ~u.dfa.quoted
    BY <1>2, <1>4
  <2> QED BY <1>8, <2>1, <2>2, Zenon DEF RowTurn
<1> QED BY <1>9 DEF u, X

LEMMA ContentTurnLifts ==
    ASSUME NEW W, NEW o, NEW past, NEW w, NEW v, NEW pre, InWindow(W, o, past, w, v, pre),
           NEW t, ContentTurn(w, v, t),
           past = Len(W) \/ RunEnd(w, v.pos, v.dfa.quoted) < Len(w)
    PROVE  ContentTurn(W, Lift(v, o, pre), Lift(t, o, pre))
<1> DEFINE u == Lift(v, o, pre)  p == v.pos  r == v.rowStart  R == v.rows  d == v.dfa  q == v.dfa.quoted
           a == v.fieldStart  b == v.doubled  f == v.fields
           X == Lift(t, o, pre)  e == RunEnd(w, p, q)  c == Start(v)  m == e - (c + r)
<1>1. /\ o \in Nat /\ p \in Nat /\ p < Len(w) /\ Flag(W, u.pos) = Flag(w, v.pos)
      /\ r \in Nat /\ Len(w) \in Nat /\ (a # Unset => a \in Nat)
  BY WindowFacts
<1>2. /\ u.pos = p + o /\ u.rowStart = r + o /\ u.fieldStart = a /\ u.doubled = b
      /\ u.fields = f /\ u.rows = Joined(pre, R, o) /\ u.dfa = d
  BY LiftMembers
<1>3. t = St(e, r, c, m, b, f, R, d) /\ IsContent(w, p, q)
  BY Zenon DEF ContentTurn
<1>4. X = St(e + o, r + o, c, m, b, f, Joined(pre, R, o), d)
  <2> HIDE DEF e, r, c, m, b, f, R, d
  <2> QED BY <1>3, LiftOf
<1>5. IsCut(W, o, past, w)
  BY DEF InWindow
<1>6. RunEnd(W, p + o, q) = e + o
  <2>1. p \in Nat /\ p < Len(w) /\ (RunEnd(w, p, q) < Len(w) \/ past = Len(W))
    BY <1>1
  <2> HIDE DEF p, q
  <2> QED BY <1>5, <2>1, RunEndLifts DEF e
<1>7. IsContent(W, p + o, q) <=> IsContent(w, p, q)
  <2> HIDE DEF p, q
  <2> QED BY <1>1, <1>5, ContentLifts
<1>8. c = IF a = Unset THEN p - r ELSE a
  BY Zenon DEF Start
<1>9. Start(u) = IF a = Unset THEN (p + o) - (r + o) ELSE a
  <2> HIDE DEF u
  <2> QED BY <1>2, Zenon DEF Start
<1>10. e \in Nat
  <2>1. p \in 0..Len(w)
    BY <1>1
  <2> HIDE DEF p, q
  <2>2. e \in p..Len(w)
    BY <1>1, <2>1, RunEndIs DEF e
  <2> QED BY <1>1, <2>2
<1> HIDE DEF u, X, e, c, p, r, a, q, R, d, b, f
<1>11. Start(u) = c /\ c \in Int
  BY <1>1, <1>8, <1>9
<1>12. m = (e + o) - (c + (r + o))
  BY <1>1, <1>10, <1>11
<1> HIDE DEF m
<1>13. ContentTurn(W, u, X)
  <2>1. u.dfa.quoted = q
    BY <1>2 DEF d, q
  <2>2. X = St(RunEnd(W, u.pos, u.dfa.quoted), u.rowStart, Start(u), RunEnd(W, u.pos, u.dfa.quoted) - (Start(u) + u.rowStart),
               u.doubled, u.fields, u.rows, u.dfa)
    BY <1>2, <1>4, <1>6, <1>11, <1>12, <2>1
  <2>3. IsContent(W, u.pos, u.dfa.quoted)
    BY <1>2, <1>3, <1>7, <2>1, Zenon
  <2> QED BY <2>2, <2>3, Zenon DEF ContentTurn
<1> QED BY <1>13 DEF u, X

(* The byte after a turn's own, in the window and in the source. *)
LEMMA NextLifts ==
    ASSUME NEW W, NEW o, NEW past, NEW w, NEW v, NEW pre, InWindow(W, o, past, w, v, pre),
           past = Len(W) \/ v.pos + 1 < Len(w)
    PROVE  /\ Flag(W, Lift(v, o, pre).pos + 1) = Flag(w, v.pos + 1)
           /\ Lift(v, o, pre).pos + 1 < Len(W) <=> v.pos + 1 < Len(w)
<1> DEFINE u == Lift(v, o, pre)  p == v.pos  p1 == p + 1
<1>1. /\ o \in Nat /\ p \in Nat /\ Len(w) = past - o /\ past \in Nat /\ Len(W) \in Nat
      /\ past <= Len(W) /\ o <= past
  BY WindowFacts
<1>2. u.pos = p + o
  BY LiftMembers
<1>3. IsCut(W, o, past, w)
  BY DEF InWindow
<1> HIDE DEF u
<1>4. p1 \in Nat /\ (p1 < Len(w) \/ past = Len(W)) /\ p1 + o = u.pos + 1
  BY <1>1, <1>2
<1>5. (u.pos + 1 < Len(W)) <=> (p1 < Len(w))
  BY <1>1, <1>2, <1>4
<1> HIDE DEF p1
<1>6. Flag(W, p1 + o) = Flag(w, p1)
  BY <1>3, <1>4, FlagLifts
<1>7. Flag(W, u.pos + 1) = Flag(w, p1)
  BY <1>4, <1>6
<1> QED BY <1>5, <1>7 DEF u, p1

LEMMA PendingLifts ==
    ASSUME NEW W, NEW o, NEW past, NEW w, NEW v, NEW pre, InWindow(W, o, past, w, v, pre),
           NEW t, PendingTurn(w, v, t), past = Len(W) \/ v.pos + 1 < Len(w)
    PROVE  PendingTurn(W, Lift(v, o, pre), Lift(t, o, pre))
<1> DEFINE u == Lift(v, o, pre)  p == v.pos  r == v.rowStart  R == v.rows  d == v.dfa
           a == v.fieldStart  n == v.fieldLength  b == v.doubled  f == v.fields
           e == Dfa(d.quoted, Yes, d.pendingLinefeed)  X == Lift(t, o, pre)
<1>1. Flag(W, u.pos) = Flag(w, v.pos)
  BY WindowFacts
<1>2. /\ u.pos = p + o /\ u.rowStart = r + o /\ u.fieldStart = a /\ u.fieldLength = n /\ u.doubled = b
      /\ u.fields = f /\ u.rows = Joined(pre, R, o) /\ u.dfa = d
  BY LiftMembers
<1>3. t = St(p, r, a, n, b, f, R, e) /\ d.quoted /\ Flag(w, p) = "quote" /\ Flag(w, p + 1) = "end"
  BY Zenon DEF PendingTurn
<1>4. Flag(W, u.pos + 1) = Flag(w, v.pos + 1)
  BY NextLifts
<1>5. X = St(p + o, r + o, a, n, b, f, Joined(pre, R, o), e)
  <2> HIDE DEF p, r, a, n, b, f, R, e
  <2> QED BY <1>3, LiftOf
<1> HIDE DEF u, X
<1>6. PendingTurn(W, u, X)
  BY <1>1, <1>2, <1>3, <1>4, <1>5, Zenon DEF PendingTurn
<1> QED BY <1>6 DEF u, X

LEMMA CloseLifts ==
    ASSUME NEW W, NEW o, NEW past, NEW w, NEW v, NEW pre, InWindow(W, o, past, w, v, pre),
           NEW t, CloseTurn(w, v, t), past = Len(W) \/ v.pos + 1 < Len(w)
    PROVE  CloseTurn(W, Lift(v, o, pre), Lift(t, o, pre))
<1> DEFINE u == Lift(v, o, pre)  p == v.pos  r == v.rowStart  R == v.rows  d == v.dfa
           a == v.fieldStart  n == v.fieldLength  b == v.doubled  f == v.fields
           e == Dfa(No, d.pendingQuote, d.pendingLinefeed)  X == Lift(t, o, pre)
<1>1. Flag(W, u.pos) = Flag(w, v.pos) /\ o \in Nat /\ p \in Nat
  BY WindowFacts
<1>2. /\ u.pos = p + o /\ u.rowStart = r + o /\ u.fieldStart = a /\ u.fieldLength = n /\ u.doubled = b
      /\ u.fields = f /\ u.rows = Joined(pre, R, o) /\ u.dfa = d
  BY LiftMembers
<1>3. t = St(p + 1, r, a, n, b, f, R, e) /\ d.quoted /\ Flag(w, p) = "quote" /\ Flag(w, p + 1) \in Separators
  BY Zenon DEF CloseTurn
<1>4. Flag(W, u.pos + 1) = Flag(w, v.pos + 1)
  BY NextLifts
<1>5. X = St((p + 1) + o, r + o, a, n, b, f, Joined(pre, R, o), e)
  <2> HIDE DEF p, r, a, n, b, f, R, e
  <2> QED BY <1>3, LiftOf
<1>6. (p + 1) + o = (p + o) + 1
  BY <1>1
<1> HIDE DEF u, X
<1>7. CloseTurn(W, u, X)
  BY <1>1, <1>2, <1>3, <1>4, <1>5, <1>6, Zenon DEF CloseTurn
<1> QED BY <1>7 DEF u, X

LEMMA DoubleLifts ==
    ASSUME NEW W, NEW o, NEW past, NEW w, NEW v, NEW pre, InWindow(W, o, past, w, v, pre),
           NEW t, DoubleTurn(w, v, t), past = Len(W) \/ v.pos + 1 < Len(w)
    PROVE  DoubleTurn(W, Lift(v, o, pre), Lift(t, o, pre))
<1> DEFINE u == Lift(v, o, pre)  p == v.pos  r == v.rowStart  R == v.rows  d == v.dfa
           a == v.fieldStart  n == v.fieldLength  f == v.fields  X == Lift(t, o, pre)
<1>1. Flag(W, u.pos) = Flag(w, v.pos) /\ o \in Nat /\ p \in Nat
  BY WindowFacts
<1>2. /\ u.pos = p + o /\ u.rowStart = r + o /\ u.fieldStart = a /\ u.fieldLength = n
      /\ u.fields = f /\ u.rows = Joined(pre, R, o) /\ u.dfa = d
  BY LiftMembers
<1>3. t = St(p + 2, r, a, n + 2, Yes, f, R, d) /\ d.quoted /\ Flag(w, p) = "quote" /\ Flag(w, p + 1) = "quote"
  BY Zenon DEF DoubleTurn
<1>4. Flag(W, u.pos + 1) = Flag(w, v.pos + 1)
  BY NextLifts
<1>5. X = St((p + 2) + o, r + o, a, n + 2, Yes, f, Joined(pre, R, o), d)
  <2> HIDE DEF p, r, a, n, f, R, d
  <2> QED BY <1>3, LiftOf
<1>6. (p + 2) + o = (p + o) + 2
  BY <1>1
<1> HIDE DEF u, X
<1>7. DoubleTurn(W, u, X)
  BY <1>1, <1>2, <1>3, <1>4, <1>5, <1>6, Zenon DEF DoubleTurn
<1> QED BY <1>7 DEF u, X

LEMMA CountLifts ==
    ASSUME NEW W, NEW o, NEW past, NEW w, NEW v, NEW pre, InWindow(W, o, past, w, v, pre),
           NEW t, CountTurn(w, v, t), past = Len(W) \/ v.pos + 1 < Len(w)
    PROVE  CountTurn(W, Lift(v, o, pre), Lift(t, o, pre))
<1> DEFINE u == Lift(v, o, pre)  p == v.pos  r == v.rowStart  R == v.rows  d == v.dfa
           a == v.fieldStart  n == v.fieldLength  b == v.doubled  f == v.fields  X == Lift(t, o, pre)
<1>1. Flag(W, u.pos) = Flag(w, v.pos) /\ o \in Nat /\ p \in Nat
  BY WindowFacts
<1>2. /\ u.pos = p + o /\ u.rowStart = r + o /\ u.fieldStart = a /\ u.fieldLength = n /\ u.doubled = b
      /\ u.fields = f /\ u.rows = Joined(pre, R, o) /\ u.dfa = d
  BY LiftMembers
<1>3. /\ t = St(p + 1, r, a, n + 1, b, f, R, d) /\ Flag(w, p) = "quote"
      /\ \/ d.quoted /\ Flag(w, p + 1) \notin Separators \cup {"end", "quote"}
         \/ ~d.quoted /\ n > 0
  BY Zenon DEF CountTurn
<1>4. Flag(W, u.pos + 1) = Flag(w, v.pos + 1)
  BY NextLifts
<1>5. X = St((p + 1) + o, r + o, a, n + 1, b, f, Joined(pre, R, o), d)
  <2> HIDE DEF p, r, a, n, b, f, R, d
  <2> QED BY <1>3, LiftOf
<1>6. (p + 1) + o = (p + o) + 1
  BY <1>1
<1> HIDE DEF u, X
<1>7. CountTurn(W, u, X)
  <2>1. X = St(u.pos + 1, u.rowStart, u.fieldStart, u.fieldLength + 1, u.doubled, u.fields, u.rows, u.dfa)
    BY <1>2, <1>5, <1>6, Zenon
  <2>2. \/ u.dfa.quoted /\ Flag(W, u.pos + 1) \notin Separators \cup {"end", "quote"}
        \/ ~u.dfa.quoted /\ u.fieldLength > 0
    BY <1>2, <1>3, <1>4, Zenon
  <2> QED BY <1>1, <1>3, <2>1, <2>2, Zenon DEF CountTurn
<1> QED BY <1>7 DEF u, X

LEMMA OpenLifts ==
    ASSUME NEW W, NEW o, NEW past, NEW w, NEW v, NEW pre, InWindow(W, o, past, w, v, pre),
           NEW t, OpenTurn(w, v, t), past = Len(W) \/ v.pos + 1 < Len(w)
    PROVE  OpenTurn(W, Lift(v, o, pre), Lift(t, o, pre))
<1> DEFINE u == Lift(v, o, pre)  p == v.pos  r == v.rowStart  R == v.rows  d == v.dfa
           a == v.fieldStart  b == v.doubled  f == v.fields
           c == IF a = Unset /\ p + 1 < Len(w) THEN p + 1 - r ELSE a
           C == IF a = Unset /\ u.pos + 1 < Len(W) THEN u.pos + 1 - u.rowStart ELSE a
           e == Dfa(Yes, d.pendingQuote, d.pendingLinefeed)  X == Lift(t, o, pre)
<1>1. Flag(W, u.pos) = Flag(w, v.pos) /\ o \in Nat /\ p \in Nat /\ r \in Nat
  BY WindowFacts
<1>2. /\ u.pos = p + o /\ u.rowStart = r + o /\ u.fieldStart = a /\ u.fieldLength = v.fieldLength /\ u.doubled = b
      /\ u.fields = f /\ u.rows = Joined(pre, R, o) /\ u.dfa = d
  BY LiftMembers
<1>3. t = St(p + 1, r, c, 0, b, f, R, e) /\ ~d.quoted /\ Flag(w, p) = "quote" /\ v.fieldLength = 0
  BY Zenon DEF OpenTurn
<1>4. u.pos + 1 < Len(W) <=> p + 1 < Len(w)
  BY NextLifts
<1>5. X = St((p + 1) + o, r + o, c, 0, b, f, Joined(pre, R, o), e)
  <2> HIDE DEF p, r, c, b, f, R, e
  <2> QED BY <1>3, LiftOf
<1>6. (p + 1) + o = (p + o) + 1
  BY <1>1
<1> HIDE DEF u, X
<1>7. C = c
  <2>1. u.pos + 1 - u.rowStart = p + 1 - r
    BY <1>1, <1>2
  <2> QED BY <1>4, <2>1
<1> HIDE DEF c, C
<1>8. X = St(u.pos + 1, u.rowStart, C, 0, u.doubled, u.fields, u.rows, Dfa(Yes, u.dfa.pendingQuote, u.dfa.pendingLinefeed))
  BY <1>2, <1>5, <1>6, <1>7, Zenon
<1>9. C = IF u.fieldStart = Unset /\ u.pos + 1 < Len(W) THEN u.pos + 1 - u.rowStart ELSE u.fieldStart
  BY <1>2 DEF C
<1>10. OpenTurn(W, u, X)
  <2>1. ~u.dfa.quoted /\ Flag(W, u.pos) = "quote" /\ u.fieldLength = 0
    BY <1>1, <1>2, <1>3, Zenon
  <2> QED BY <1>8, <1>9, <2>1, Zenon DEF OpenTurn
<1> QED BY <1>10 DEF u, X

(* A turn that looks at nothing behind the window is one of the source's. *)
LEMMA TurnLifts ==
    ASSUME NEW W, NEW o, NEW past, NEW w, NEW v, NEW pre, InWindow(W, o, past, w, v, pre),
           NEW t, AnyTurn(w, v, t), Uncut(W, past, w, v)
    PROVE  AnyTurn(W, Lift(v, o, pre), Lift(t, o, pre))
<1> DEFINE near == past = Len(W) \/ v.pos + 1 < Len(w)
<1>1. \/ near \/ (~v.dfa.quoted /\ Flag(w, v.pos) \in {"delim", "lf"})
  BY Zenon DEF Uncut
<1>2. Flag(w, v.pos) = "quote" => near
  BY <1>1
<1> HIDE DEF near
<1>3. CASE DelimTurn(w, v, t)
  BY <1>3, DelimLifts, Zenon DEF AnyTurn
<1>4. CASE RowTurn(w, v, t)
  <2>1. near \/ Flag(w, v.pos) = "lf"
    <3>1. PICK x \in {1, 2}, l \in {Yes, No} : RowEnds(w, v, x, l)
      BY <1>4, Zenon DEF RowTurn
    <3>2. Flag(w, v.pos) \in {"lf", "cr"}
      BY <3>1, Zenon DEF RowEnds
    <3> QED BY <1>1, <3>2
  <2>2. past = Len(W) \/ v.pos + 1 < Len(w) \/ Flag(w, v.pos) = "lf"
    BY <2>1 DEF near
  <2> QED BY <1>4, <2>2, RowLifts, Zenon DEF AnyTurn
<1>5. CASE ContentTurn(w, v, t)
  <2>1. IsContent(w, v.pos, v.dfa.quoted)
    BY <1>5, Zenon DEF ContentTurn
  <2>2. past = Len(W) \/ RunEnd(w, v.pos, v.dfa.quoted) < Len(w)
    <3>1. ~(~v.dfa.quoted /\ Flag(w, v.pos) \in {"delim", "lf"})
      <4>1. w \in Seq(Sym) /\ v.pos \in Nat /\ v.pos < Len(w)
        BY WindowFacts
      <4>0. IsContent(w, v.pos, v.dfa.quoted) <=>
              Flag(w, v.pos) # "quote" /\ (v.dfa.quoted \/ Flag(w, v.pos) \notin Separators)
        BY <4>1, NotContent
      <4>2. Flag(w, v.pos) # "quote" /\ (v.dfa.quoted \/ Flag(w, v.pos) \notin Separators)
        BY <2>1, <4>0, Zenon
      <4>3. Flag(w, v.pos) \in {"delim", "lf"} => Flag(w, v.pos) \in Separators
        BY DEF Separators
      <4> QED BY <4>2, <4>3, Zenon
    <3> QED BY <2>1, <3>1, Zenon DEF Uncut
  <2> QED BY <1>5, <2>2, ContentTurnLifts, Zenon DEF AnyTurn
<1>6. CASE PendingTurn(w, v, t)
  <2>1. past = Len(W) \/ v.pos + 1 < Len(w)
    BY <1>2, <1>6, Zenon DEF PendingTurn, near
  <2> QED BY <1>6, <2>1, PendingLifts, Zenon DEF AnyTurn
<1>7. CASE CloseTurn(w, v, t)
  <2>1. past = Len(W) \/ v.pos + 1 < Len(w)
    BY <1>2, <1>7, Zenon DEF CloseTurn, near
  <2> QED BY <1>7, <2>1, CloseLifts, Zenon DEF AnyTurn
<1>8. CASE DoubleTurn(w, v, t)
  <2>1. past = Len(W) \/ v.pos + 1 < Len(w)
    BY <1>2, <1>8, Zenon DEF DoubleTurn, near
  <2> QED BY <1>8, <2>1, DoubleLifts, Zenon DEF AnyTurn
<1>9. CASE CountTurn(w, v, t)
  <2>1. past = Len(W) \/ v.pos + 1 < Len(w)
    BY <1>2, <1>9, Zenon DEF CountTurn, near
  <2> QED BY <1>9, <2>1, CountLifts, Zenon DEF AnyTurn
<1>10. CASE OpenTurn(w, v, t)
  <2>1. past = Len(W) \/ v.pos + 1 < Len(w)
    BY <1>2, <1>10, Zenon DEF OpenTurn, near
  <2> QED BY <1>10, <2>1, OpenLifts, Zenon DEF AnyTurn
<1> QED BY <1>3, <1>4, <1>5, <1>6, <1>7, <1>8, <1>9, <1>10 DEF AnyTurn

-----------------------------------------------------------------------------
(* The states that run reaches, and where a window takes it up.            *)

(* The states of the run over the whole source. *)
WholeBegin(W) == Begin(W, Outside, TRUE)
Reached(W, s) == \E n \in Nat : s = At(W, WholeBegin(W), n)

(* A chunk begins outside quotes, at a record or behind a CR. *)
LEMMA BeginIsSound ==
    ASSUME NEW in \in Seq(Sym), NEW l \in {Yes, No}, NEW scanBom
    PROVE  LET b == Begin(in, Dfa(No, No, l), scanBom)
           IN  /\ Sound(in, b) /\ b.rows = <<>>
               /\ ~(scanBom /\ Flag(in, 0) = "bom") =>
                    /\ l = No => b = FreshAt(0, Outside)
                    /\ l = Yes /\ in = <<>> => b = FreshAt(0, Dfa(No, No, Yes))
                    /\ l = Yes /\ in # <<>> => b = FreshAt(IF in[1] = "lf" THEN 1 ELSE 0, Outside)
               /\ scanBom /\ Flag(in, 0) = "bom" /\ l = No => b = St(1, 0, Unset, 0, No, <<>>, <<>>, Outside)
<1> DEFINE d == Dfa(No, No, l)
           s == StripBom(in, FreshAt(0, d), scanBom)
           t == ResolvePendingLinefeed(in, s)
           b == Begin(in, d, scanBom)
           N == Len(in)
           Marked == scanBom /\ Flag(in, 0) = "bom"
<1>0. N \in Nat
  BY LenProperties
<1>0a. (l => l = Yes) /\ (~l => l = No) /\ (l = Yes => l) /\ (l = No => ~l)
  BY TruthOf, Zenon
<1>1. \E p \in {0, 1} : /\ p <= N /\ (p = 1 <=> Marked)
                        /\ (p = 1 => in[1] = "bom")
                        /\ s = St(p, 0, Unset, 0, No, <<>>, <<>>, Dfa(No, No, l))
  <2>1. CASE Marked
    <3>1. s = St(1, 0, Unset, 0, No, <<>>, <<>>, d)
      BY <2>1, StripBomIs, Zenon
    <3>2. 0 < N /\ in[1] = "bom"
      BY <2>1, <1>0, FlagIs
    <3>3. 1 <= N /\ 1 \in {0, 1}
      BY <3>2, <1>0
    <3> HIDE DEF s, d, Marked
    <3> QED BY <2>1, <3>1, <3>2, <3>3 DEF d
  <2>2. CASE ~Marked
    <3>1. s = St(0, 0, Unset, 0, No, <<>>, <<>>, d)
      BY <2>2, StripBomIs, Zenon DEF FreshAt
    <3>2. 0 <= N /\ 0 \in {0, 1} /\ 0 # 1
      BY <1>0
    <3> HIDE DEF s, d, Marked
    <3> QED BY <2>2, <3>1, <3>2 DEF d
  <2> QED BY <2>1, <2>2
<1>2. PICK p \in {0, 1} : /\ p <= N /\ (p = 1 <=> Marked)
                          /\ (p = 1 => in[1] = "bom")
                          /\ s = St(p, 0, Unset, 0, No, <<>>, <<>>, Dfa(No, No, l))
  BY <1>1, Zenon
<1> HIDE DEF s, Marked
<1> DEFINE x == St(p, 0, Unset, 0, No, <<>>, <<>>, Dfa(No, No, l))
           O == Dfa(No, No, No)
<1>3. b = ResolvePendingQuote(in, t)
  BY BeginFrom, Zenon DEF s
<1>4. t = ResolvePendingLinefeed(in, x)
  BY <1>2
<1> HIDE DEF t
<1>5. /\ l = No \/ p >= N => t = x
      /\ l = Yes /\ ~(p >= N) /\ Flag(in, p) = "lf" => t = St(p + 1, p + 1, Unset, 0, No, <<>>, <<>>, O)
      /\ l = Yes /\ ~(p >= N) /\ Flag(in, p) # "lf" => t = St(p, 0, Unset, 0, No, <<>>, <<>>, O)
  <2>1. /\ ~l \/ p >= N => ResolvePendingLinefeed(in, x) = x
        /\ l /\ ~(p >= N) /\ Flag(in, p) = "lf" =>
             ResolvePendingLinefeed(in, x) = St(p + 1, p + 1, Unset, 0, No, <<>>, <<>>, O)
        /\ l /\ ~(p >= N) /\ Flag(in, p) # "lf" =>
             ResolvePendingLinefeed(in, x) = St(p, 0, Unset, 0, No, <<>>, <<>>, O)
    BY PendingLinefeedIs
  <2> HIDE DEF x, O
  <2> QED BY <1>0a, <1>4, <2>1, Zenon
<1>6. ASSUME NEW p1, NEW r1, NEW m, t = St(p1, r1, Unset, 0, No, <<>>, <<>>, Dfa(No, No, m))
      PROVE  b = t
  <2>1. ~No
    BY TruthValues, Zenon
  <2> DEFINE y == St(p1, r1, Unset, 0, No, <<>>, <<>>, Dfa(No, No, m))
  <2>2. ~No \/ p1 >= Len(in) => ResolvePendingQuote(in, y) = y
    BY PendingQuoteIs
  <2> HIDE DEF y, b
  <2>3. t = y
    BY <1>6 DEF y
  <2>4. ResolvePendingQuote(in, y) = y
    BY <2>1, <2>2, Zenon
  <2> QED BY <1>3, <2>3, <2>4
<1> HIDE DEF b
<1>7. CASE l = No \/ p >= N
  <2>1. t = x
    BY <1>5, <1>7, Zenon
  <2>2. b = x
    BY <1>6, <2>1 DEF x
  <2>3. l = Yes => p = N
    <3> QED BY <1>0, <1>2, <1>7, YesIsNotNo
  <2>4. Sound(in, x)
    <3>1. /\ No \in {Yes, No}
          /\ Unset = Unset => 0 = 0
          /\ No = Yes /\ Unset = Unset => p = Len(in)
          /\ l = Yes => p = Len(in)
          /\ No = Yes => p + 1 = Len(in) /\ in[p + 1] = "quote"
          /\ 0 > 0 => in[0] \in {"cr", "lf"}
          /\ 0 < p => \/ <<>> # <<>> \/ 0 > 0 \/ in[p] \in {"delim", "quote"}
                      \/ (p = 1 /\ in[1] = "bom")
      BY <1>0, <1>2, <2>3, YesIsNotNo
    <3> QED BY <3>1, SoundMade
  <2>5. x.rows = <<>>
    BY MadeState
  <2>6. ASSUME ~Marked
        PROVE  /\ l = No => x = FreshAt(0, Outside)
               /\ l = Yes /\ in = <<>> => x = FreshAt(0, Dfa(No, No, Yes))
               /\ ~(l = Yes /\ in # <<>>)
    <3>1. p = 0
      BY <1>2, <2>6
    <3>2. l = No => x = FreshAt(0, Outside)
      BY <3>1, OutsideIs DEF FreshAt
    <3>3. l = Yes => x = FreshAt(0, Dfa(No, No, Yes))
      BY <3>1 DEF FreshAt
    <3>4. l = Yes => in = <<>>
      <4>1. l = Yes => Len(in) = 0
        BY <2>3, <3>1
      <4> QED BY <4>1, EmptySeq
    <3> HIDE DEF x
    <3> QED BY <3>2, <3>3, <3>4
  <2>7. ASSUME Marked, l = No PROVE x = St(1, 0, Unset, 0, No, <<>>, <<>>, Outside)
    BY <1>2, <2>7, OutsideIs
  <2> HIDE DEF x
  <2> QED BY <2>2, <2>4, <2>5, <2>6, <2>7, Zenon DEF b, d, Marked
<1>8. CASE l = Yes /\ ~(p >= N)
  <2>1. p < N /\ p \in Nat /\ l = Yes /\ l # No
    BY <1>0, <1>2, <1>8, YesIsNotNo
  <2>2. Flag(in, p) = in[p + 1]
    BY <2>1, FlagIs
  <2>3. \E k \in {0, 1} :
           /\ t = St(p + k, IF k = 1 THEN p + 1 ELSE 0, Unset, 0, No, <<>>, <<>>, O)
           /\ k = 1 <=> in[p + 1] = "lf"
    <3>1. CASE Flag(in, p) = "lf"
      BY <1>5, <1>8, <2>1, <2>2, <3>1
    <3>2. CASE Flag(in, p) # "lf"
      BY <1>5, <1>8, <2>1, <2>2, <3>2
    <3> QED BY <3>1, <3>2
  <2>4. PICK k \in {0, 1} :
           /\ t = St(p + k, IF k = 1 THEN p + 1 ELSE 0, Unset, 0, No, <<>>, <<>>, O)
           /\ k = 1 <=> in[p + 1] = "lf"
    BY <2>3
  <2> DEFINE c == p + k  r == IF k = 1 THEN p + 1 ELSE 0
             y == St(c, r, Unset, 0, No, <<>>, <<>>, O)
  <2>5. b = y /\ t = y
    <3>1. t = St(c, r, Unset, 0, No, <<>>, <<>>, Dfa(No, No, No))
      BY <2>4
    <3> HIDE DEF c, r
    <3> QED BY <1>6, <3>1
  <2>6. Sound(in, y)
    <3>1. /\ No \in {Yes, No}
          /\ Unset = Unset => 0 = 0
          /\ No = Yes /\ Unset = Unset => c = Len(in)
          /\ No = Yes => c = Len(in)
          /\ No = Yes => c + 1 = Len(in) /\ in[c + 1] = "quote"
          /\ r > 0 => in[r] \in {"cr", "lf"}
          /\ r < c => \/ <<>> # <<>> \/ 0 > 0 \/ in[c] \in {"delim", "quote"}
                      \/ (c = 1 /\ in[1] = "bom")
      BY <1>0, <1>2, <2>1, <2>4, YesIsNotNo
    <3> HIDE DEF c, r
    <3> QED BY <3>1, SoundMade
  <2>7. y.rows = <<>>
    BY MadeState
  <2>8. in # <<>>
    BY <1>0, <2>1
  <2>9. ASSUME ~Marked
        PROVE  y = FreshAt(IF in[1] = "lf" THEN 1 ELSE 0, Outside)
    <3>1. p = 0
      BY <1>2, <2>9
    <3>2. c = (IF in[1] = "lf" THEN 1 ELSE 0) /\ r = c
      BY <2>4, <3>1
    <3> HIDE DEF c, r
    <3> QED BY <3>2, OutsideIs DEF FreshAt
  <2> HIDE DEF y
  <2> QED BY <2>1, <2>5, <2>6, <2>7, <2>8, <2>9, Zenon DEF b, d, Marked
<1> QED BY <1>7, <1>8, Zenon

LEMMA WholeBeginIs ==
    ASSUME NEW W \in Seq(Sym)
    PROVE  LET b == WholeBegin(W)
           IN  /\ Good(W, b) /\ Sound(W, b) /\ b.rows = <<>>
               /\ Flag(W, 0) # "bom" => b = FreshAt(0, Outside)
               /\ Flag(W, 0) = "bom" => b = St(1, 0, Unset, 0, No, <<>>, <<>>, Outside)
<1> DEFINE b == WholeBegin(W)  c == Begin(W, Dfa(No, No, No), Yes)
<1>1. b = c
  <2>1. Yes = TRUE
    BY Zenon DEF Yes
  <2> QED BY <2>1, OutsideIs, Zenon DEF WholeBegin
<1>2. No \in {Yes, No} /\ No = No
  OBVIOUS
<1>3. /\ Sound(W, c) /\ c.rows = <<>>
      /\ ~(Yes /\ Flag(W, 0) = "bom") => (No = No => c = FreshAt(0, Outside))
      /\ Yes /\ Flag(W, 0) = "bom" /\ No = No => c = St(1, 0, Unset, 0, No, <<>>, <<>>, Outside)
  BY <1>2, BeginIsSound
<1>4. Good(W, c)
  BY <1>2, BeginIsGood
<1> HIDE DEF b, c
<1>5. /\ Flag(W, 0) # "bom" => c = FreshAt(0, Outside)
      /\ Flag(W, 0) = "bom" => c = St(1, 0, Unset, 0, No, <<>>, <<>>, Outside)
  BY <1>3, TruthValues, Zenon
<1>6. /\ Good(W, b) /\ Sound(W, b) /\ b.rows = <<>>
      /\ Flag(W, 0) # "bom" => b = FreshAt(0, Outside)
      /\ Flag(W, 0) = "bom" => b = St(1, 0, Unset, 0, No, <<>>, <<>>, Outside)
  BY <1>1, <1>3, <1>4, <1>5
<1> QED BY <1>6 DEF b

LEMMA ReachedIs ==
    ASSUME NEW W \in Seq(Sym), NEW s, Reached(W, s)
    PROVE  Good(W, s) /\ Sound(W, s)
<1> DEFINE b == WholeBegin(W)
           T == {m \in Nat : Sound(W, At(W, b, m))}
<1>1. Good(W, b) /\ Sound(W, b)
  BY WholeBeginIs
<1> HIDE DEF b
<1>2. 0 \in T
  BY <1>1, AtTurns
<1>3. ASSUME NEW m \in Nat, m \in T PROVE m + 1 \in T
  <2> DEFINE x == At(W, b, m)  y == At(W, b, m + 1)
  <2>1. y = Turn(W, x)
    BY AtTurns
  <2>2. Good(W, x)
    BY <1>1, RunIsGood
  <2>3. Sound(W, x)
    BY <1>3
  <2> HIDE DEF x, y
  <2>4. Sound(W, y)
    <3>1. CASE Stopped(W, x)
      <4>1. y = x
        BY <2>1, <3>1, Zenon DEF Turn
      <4> QED BY <2>3, <4>1
    <3>2. CASE ~Stopped(W, x)
      <4>1. y = Step(W, x)
        BY <2>1, <3>2, Zenon DEF Turn
      <4>2. AnyTurn(W, x, y)
        BY <2>2, <3>2, <4>1, StepIsTurn
      <4> QED BY <2>2, <2>3, <3>2, <4>2, TurnIsSound
    <3> QED BY <3>1, <3>2
  <2> QED BY <2>4 DEF y
<1>4. PICK n \in Nat : s = At(W, b, n)
  BY DEF Reached, b
<1>5. Good(W, s)
  BY <1>1, <1>4, RunIsGood
<1>6. n \in T
  <2> HIDE DEF T
  <2> QED BY <1>2, <1>3, Induction
<1> QED BY <1>4, <1>5, <1>6

LEMMA ReachedSteps ==
    ASSUME NEW W \in Seq(Sym), NEW s, Reached(W, s), ~Stopped(W, s)
    PROVE  /\ Reached(W, Step(W, s)) /\ AnyTurn(W, s, Step(W, s))
           /\ \A t : AnyTurn(W, s, t) => Reached(W, t) /\ t = Step(W, s)
<1> DEFINE b == WholeBegin(W)
<1>1. PICK n \in Nat : s = At(W, b, n)
  BY DEF Reached
<1> HIDE DEF b
<1>2. At(W, b, n + 1) = Step(W, s)
  <2>1. At(W, b, n + 1) = Turn(W, s)
    BY <1>1, AtTurns
  <2> QED BY <2>1, Zenon DEF Turn
<1>3. Reached(W, Step(W, s))
  <2>1. n + 1 \in Nat
    OBVIOUS
  <2> QED BY <1>2, <2>1 DEF Reached, b
<1>4. Good(W, s)
  BY ReachedIs
<1>5. AnyTurn(W, s, Step(W, s)) /\ \A t : AnyTurn(W, s, t) => Step(W, s) = t
  BY <1>4, StepIsTurn
<1> QED BY <1>3, <1>5

LEMMA ReachedLast ==
    ASSUME NEW W \in Seq(Sym), NEW s, Reached(W, s), Stopped(W, s)
    PROVE  s = Parse(W, Outside, TRUE)
<1> DEFINE b == WholeBegin(W)
<1>1. PICK n \in Nat : s = At(W, b, n)
  BY DEF Reached
<1>2. Good(W, b) /\ Len(W) \in Nat
  BY WholeBeginIs, LenProperties
<1>3. Parse(W, Outside, TRUE) = At(W, b, Len(W) + 1)
  BY <1>2, ParseIs DEF WholeBegin
<1> HIDE DEF b
<1>4. At(W, b, n) = At(W, b, Len(W) + 1)
  BY <1>1, <1>2, StoppedIsLast
<1> QED BY <1>1, <1>3, <1>4

LEMMA ParseIsReached ==
    ASSUME NEW W \in Seq(Sym)
    PROVE  Reached(W, Parse(W, Outside, TRUE)) /\ Stopped(W, Parse(W, Outside, TRUE))
<1> DEFINE b == WholeBegin(W)
<1>1. Good(W, b) /\ Len(W) \in Nat
  BY WholeBeginIs, LenProperties
<1>2. Parse(W, Outside, TRUE) = At(W, b, Len(W) + 1)
  BY <1>1, ParseIs DEF WholeBegin
<1>3. Len(W) + 1 \in Nat
  BY <1>1
<1>4. Reached(W, At(W, b, Len(W) + 1))
  BY <1>3 DEF Reached
<1> HIDE DEF b
<1>5. Stopped(W, At(W, b, Len(W) + 1))
  BY <1>1, RunStops
<1> QED BY <1>2, <1>4, <1>5

LEMMA BeginIsReached ==
    ASSUME NEW W \in Seq(Sym)
    PROVE  Reached(W, WholeBegin(W))
<1>1. At(W, WholeBegin(W), 0) = WholeBegin(W) /\ 0 \in Nat
  BY AtTurns
<1> QED BY <1>1 DEF Reached

(* The state in which a record starts at p, after the rows R. *)
Fresh(p, R, d) == St(p, p, Unset, 0, No, <<>>, R, d)
BetweenCRLF == Dfa(No, No, Yes)

(* A window that starts at o in state d goes on where the run over the     *)
(* whole source has emitted the rows pre.  The LF of a CR LF may be left   *)
(* over.                                                                   *)
Resumes(W, o, d, scanBom, pre) ==
    \/ scanBom /\ d = Outside /\ o = 0 /\ pre = <<>>
    \/ ~scanBom /\ d = Outside /\ Reached(W, Fresh(o, pre, Outside))
    \/ /\ ~scanBom /\ d = BetweenCRLF /\ o < Len(W)
       /\ Reached(W, Fresh(IF W[o + 1] = "lf" THEN o + 1 ELSE o, pre, Outside))
    \/ ~scanBom /\ d = BetweenCRLF /\ o = Len(W) /\ Reached(W, Fresh(o, pre, BetweenCRLF))

LEMMA NothingJoined ==
    ASSUME NEW pre, IsSeq(pre), NEW o
    PROVE  Joined(pre, <<>>, o) = pre
<1> DEFINE v == Joined(pre, <<>>, o)
           none == <<>>
<1>1. IsSeq(none) /\ Len(none) = 0 /\ none = <<>>
  BY EmptyIsSeq
<1> HIDE DEF none
<1>2. /\ IsSeq(Joined(pre, none, o)) /\ Len(pre) \in Nat
      /\ Len(Joined(pre, none, o)) = Len(pre) + Len(none)
      /\ \A i \in 1..Len(pre) : Joined(pre, none, o)[i] = pre[i]
  BY <1>1, JoinedIs
<1>3. IsSeq(v) /\ Len(v) = Len(pre) /\ \A i \in 1..Len(v) : v[i] = pre[i]
  <2> DEFINE u == Joined(pre, none, o)
  <2>1. v = u
    BY <1>1
  <2> HIDE DEF u, v
  <2>2. IsSeq(u) /\ Len(u) = Len(pre) /\ \A i \in 1..Len(pre) : u[i] = pre[i]
    BY <1>1, <1>2 DEF u
  <2> QED BY <2>1, <2>2
<1> HIDE DEF v
<1>4. v = pre
  BY <1>3, IsSeqEqual
<1> QED BY <1>4 DEF v

LEMMA LiftFresh ==
    ASSUME NEW p \in Nat, NEW d, NEW o \in Nat, NEW pre, IsSeq(pre)
    PROVE  Lift(FreshAt(p, d), o, pre) = Fresh(o + p, pre, d)
<1>1. Lift(FreshAt(p, d), o, pre) = St(p + o, p + o, Unset, 0, No, <<>>, Joined(pre, <<>>, o), d)
  BY LiftOf DEF FreshAt
<1>2. Joined(pre, <<>>, o) = pre /\ p + o = o + p
  BY NothingJoined
<1> QED BY <1>1, <1>2 DEF Fresh

LEMMA FreshResumes ==
    ASSUME NEW W \in Seq(Sym), NEW o \in Nat, NEW pre, NEW l \in {Yes, No},
           Reached(W, Fresh(o, pre, Dfa(No, No, l)))
    PROVE  Resumes(W, o, Carried(Dfa(No, No, l)), No, pre)
<1> DEFINE d == Dfa(No, No, l)  s == Fresh(o, pre, d)
<1>1. s.pos = o /\ s.dfa.pendingLinefeed = l
  BY MadeState DEF Fresh
<1>2. d.pendingLinefeed = l
  BY DfaMembers
<1>3. ~No
  BY TruthValues, Zenon
<1>4. CASE l = No
  <2>1. d = Outside
    BY <1>4, OutsideIs
  <2> HIDE DEF d
  <2>0. ~d.pendingLinefeed
    <3>1. d.pendingLinefeed \in {Yes, No} /\ d.pendingLinefeed = No
      BY <1>2, <1>4
    <3> QED BY <3>1, TruthOf, Zenon
  <2>2. Carried(d) = Outside
    BY <2>0, Zenon DEF Carried
  <2>3. Reached(W, Fresh(o, pre, Outside))
    BY <2>1 DEF d
  <2>4. Resumes(W, o, Carried(d), No, pre)
    BY <1>3, <2>2, <2>3, Zenon DEF Resumes
  <2> QED BY <2>4 DEF d
<1>5. CASE l = Yes
  <2>1. d = BetweenCRLF
    BY <1>5 DEF BetweenCRLF
  <2>2. Sound(W, s)
    BY ReachedIs
  <2> HIDE DEF s
  <2>3. o = Len(W)
    BY <1>1, <1>5, <2>2 DEF Sound
  <2> HIDE DEF d
  <2>0. d.pendingLinefeed
    <3>1. d.pendingLinefeed \in {Yes, No} /\ d.pendingLinefeed = Yes
      BY <1>2, <1>5
    <3> QED BY <3>1, TruthOf, Zenon
  <2>4. Carried(d) = d
    BY <2>0, Zenon DEF Carried
  <2>5. Reached(W, Fresh(o, pre, BetweenCRLF))
    BY <2>1 DEF d
  <2>6. Resumes(W, o, Carried(d), No, pre)
    BY <1>3, <2>1, <2>3, <2>4, <2>5, Zenon DEF Resumes
  <2> QED BY <2>6 DEF d
<1> QED BY <1>4, <1>5

IsFresh(b) == \E p \in Nat, l \in {Yes, No} : b = FreshAt(p, Dfa(No, No, l))
Marks(W, o, scanBom) == scanBom /\ Flag(W, 0) = "bom" /\ o = 0

LEMMA FreshStarts ==
    ASSUME NEW W, NEW o \in Nat, NEW pre, IsSeq(pre), NEW p \in Nat, NEW l \in {Yes, No},
           Reached(W, Fresh(o + p, pre, Dfa(No, No, l)))
    PROVE  LET b == FreshAt(p, Dfa(No, No, l))
           IN  Reached(W, Lift(b, o, pre)) /\ IsFresh(b) /\ b.rows = <<>>
<1> DEFINE b == FreshAt(p, Dfa(No, No, l))
<1>1. Lift(b, o, pre) = Fresh(o + p, pre, Dfa(No, No, l))
  BY LiftFresh
<1>2. b.rows = <<>>
  BY MadeState DEF FreshAt
<1>3. IsFresh(b)
  BY Zenon DEF IsFresh
<1> HIDE DEF b
<1>4. Reached(W, Lift(b, o, pre))
  BY <1>1
<1> QED BY <1>2, <1>3, <1>4 DEF b

(* A window begins where the run over the whole source goes on. *)
LEMMA BeginLifts ==
    ASSUME NEW W, NEW o, NEW past, NEW w, IsCut(W, o, past, w), o < past \/ o = Len(W),
           NEW d, NEW scanBom, NEW pre, IsSeq(pre), Resumes(W, o, d, scanBom, pre)
    PROVE  LET b == Begin(w, d, scanBom)
           IN  /\ Reached(W, Lift(b, o, pre)) /\ Sound(w, b) /\ Good(w, b)
               /\ Marks(W, o, scanBom) \/ IsFresh(b)
               /\ b.rows = <<>>
<1> DEFINE b == Begin(w, d, scanBom)
           Marked == scanBom /\ Flag(w, 0) = "bom"
           Claim == /\ Reached(W, Lift(b, o, pre)) /\ Sound(w, b) /\ Good(w, b)
                    /\ Marks(W, o, scanBom) \/ IsFresh(b)
                    /\ b.rows = <<>>
<1> SUFFICES Claim
  OBVIOUS
<1>1. /\ w \in Seq(Sym) /\ Len(w) = past - o /\ o \in Nat /\ past \in Nat /\ Len(W) \in Nat
      /\ past <= Len(W) /\ o <= past /\ Len(w) \in Nat
      /\ \A i \in 1..Len(w) : w[i] = W[o + i]
  BY CutBytes
<1>1a. W \in Seq(Sym)
  BY DEF IsCut
<1>2. Flag(W, 0 + o) = Flag(w, 0)
  BY <1>1, FlagLifts
<1>3. Yes \in {Yes, No} /\ No \in {Yes, No} /\ 0 \in Nat /\ 1 \in Nat /\ Yes # No
  BY YesIsNotNo
<1>4. Sound(w, Begin(w, Dfa(No, No, No), scanBom)) /\ Sound(w, Begin(w, Dfa(No, No, Yes), scanBom))
  BY <1>1, <1>3, BeginIsSound
<1>5. Good(w, Begin(w, Dfa(No, No, No), scanBom)) /\ Good(w, Begin(w, Dfa(No, No, Yes), scanBom))
  BY <1>1, <1>3, BeginIsGood
<1>6. /\ ~Marked => Begin(w, Dfa(No, No, No), scanBom) = FreshAt(0, Outside)
      /\ Marked => Begin(w, Dfa(No, No, No), scanBom) = St(1, 0, Unset, 0, No, <<>>, <<>>, Outside)
      /\ ~Marked =>
           /\ w = <<>> => Begin(w, Dfa(No, No, Yes), scanBom) = FreshAt(0, Dfa(No, No, Yes))
           /\ w # <<>> => Begin(w, Dfa(No, No, Yes), scanBom) = FreshAt(IF w[1] = "lf" THEN 1 ELSE 0, Outside)
  <2>1. LET c == Begin(w, Dfa(No, No, No), scanBom)
        IN  /\ ~(scanBom /\ Flag(w, 0) = "bom") => (No = No => c = FreshAt(0, Outside))
            /\ scanBom /\ Flag(w, 0) = "bom" /\ No = No => c = St(1, 0, Unset, 0, No, <<>>, <<>>, Outside)
    BY <1>1, <1>3, BeginIsSound
  <2>2. LET c == Begin(w, Dfa(No, No, Yes), scanBom)
        IN  ~(scanBom /\ Flag(w, 0) = "bom") =>
              /\ Yes = Yes /\ w = <<>> => c = FreshAt(0, Dfa(No, No, Yes))
              /\ Yes = Yes /\ w # <<>> => c = FreshAt(IF w[1] = "lf" THEN 1 ELSE 0, Outside)
    BY <1>1, <1>3, BeginIsSound
  <2> QED BY <2>1, <2>2, Zenon
<1>7. ASSUME NEW p \in Nat, NEW l \in {Yes, No}, NEW x, NEW y, x = FreshAt(p, Dfa(No, No, l)), b = x,
             y = Fresh(o + p, pre, Dfa(No, No, l)), Reached(W, y), Sound(w, b), Good(w, b)
      PROVE  Claim
  <2> DEFINE c == FreshAt(p, Dfa(No, No, l))
  <2>0. Reached(W, Fresh(o + p, pre, Dfa(No, No, l)))
    BY <1>7
  <2>1. Reached(W, Lift(c, o, pre)) /\ IsFresh(c) /\ c.rows = <<>>
    BY <1>1, <2>0, FreshStarts
  <2> HIDE DEF b, c
  <2>2. Reached(W, Lift(b, o, pre)) /\ IsFresh(b) /\ b.rows = <<>>
    BY <1>7, <2>1 DEF c
  <2> QED BY <1>7, <2>2, Zenon
<1>8. CASE scanBom /\ d = Outside /\ o = 0 /\ pre = <<>>
  <2>1. /\ Flag(W, 0) # "bom" => WholeBegin(W) = FreshAt(0, Outside)
        /\ Flag(W, 0) = "bom" => WholeBegin(W) = St(1, 0, Unset, 0, No, <<>>, <<>>, Outside)
    BY <1>1a, WholeBeginIs
  <2>2. Reached(W, WholeBegin(W))
    BY <1>1a, BeginIsReached
  <2>3. d = Dfa(No, No, No)
    BY <1>8, OutsideIs
  <2>3a. b = Begin(w, Dfa(No, No, No), scanBom)
    BY <2>3
  <2>4. Sound(w, b) /\ Good(w, b)
    BY <1>4, <1>5, <2>3
  <2>5. Flag(W, 0) = Flag(w, 0)
    <3>1. 0 + o = 0
      BY <1>8
    <3> QED BY <1>2, <3>1
  <2>6. CASE Flag(w, 0) = "bom"
    <3>0. Marked
      BY <1>8, <2>6, Zenon
    <3>1. b = St(1, 0, Unset, 0, No, <<>>, <<>>, Outside)
      BY <1>6, <2>3a, <3>0, Zenon
    <3>2. b = WholeBegin(W)
      BY <2>1, <2>5, <2>6, <3>1
    <3>3. Lift(b, o, pre) = b
      <4>1. Lift(St(1, 0, Unset, 0, No, <<>>, <<>>, Outside), o, pre) =
              St(1 + o, 0 + o, Unset, 0, No, <<>>, Joined(pre, <<>>, o), Outside)
        BY LiftOf
      <4>2. 1 + o = 1 /\ 0 + o = 0
        BY <1>8
      <4>3. Joined(pre, <<>>, o) = pre /\ pre = <<>>
        BY <1>8, NothingJoined
      <4> HIDE DEF b
      <4> QED BY <3>1, <4>1, <4>2, <4>3
    <3>4. b.rows = <<>>
      <4>1. St(1, 0, Unset, 0, No, <<>>, <<>>, Outside).rows = <<>>
        BY StMembers
      <4> HIDE DEF b
      <4> QED BY <3>1, <4>1
    <3> HIDE DEF b
    <3>5. Reached(W, Lift(b, o, pre))
      BY <2>2, <3>2, <3>3
    <3>6. Marks(W, o, scanBom)
      <4>1. Flag(W, 0) = "bom"
        BY <2>5, <2>6
      <4> QED BY <1>8, <4>1, Zenon DEF Marks
    <3> QED BY <2>4, <3>4, <3>5, <3>6, Zenon
  <2>7. CASE Flag(w, 0) # "bom"
    <3>1. b = FreshAt(0, Outside)
      BY <1>6, <2>3a, <2>7, Zenon
    <3>2. WholeBegin(W) = FreshAt(0, Outside)
      BY <2>1, <2>5, <2>7
    <3>3. Fresh(o + 0, pre, Outside) = FreshAt(0, Outside)
      BY <1>8 DEF Fresh, FreshAt
    <3>4. Reached(W, Fresh(o + 0, pre, Dfa(No, No, No))) /\ b = FreshAt(0, Dfa(No, No, No))
      BY <2>2, <3>1, <3>2, <3>3, OutsideIs
    <3> DEFINE x == FreshAt(0, Dfa(No, No, No))  y == Fresh(o + 0, pre, Dfa(No, No, No))
    <3>5. x = FreshAt(0, Dfa(No, No, No)) /\ b = x /\ y = Fresh(o + 0, pre, Dfa(No, No, No)) /\ Reached(W, y)
      BY <3>4
    <3> HIDE DEF b, Claim, x, y
    <3> QED BY <1>3, <1>7, <2>4, <3>5
  <2> QED BY <2>6, <2>7
<1>9. ASSUME ~scanBom PROVE ~Marked
  BY <1>9, Zenon
<1>10. CASE ~scanBom /\ d = Outside /\ Reached(W, Fresh(o, pre, Outside))
  <2>1. d = Dfa(No, No, No)
    BY <1>10, OutsideIs
  <2>2. b = FreshAt(0, Dfa(No, No, No)) /\ Sound(w, b) /\ Good(w, b)
    BY <1>4, <1>5, <1>6, <1>9, <1>10, <2>1, OutsideIs, Zenon
  <2>3. Reached(W, Fresh(o + 0, pre, Dfa(No, No, No)))
    <3>1. o + 0 = o
      BY <1>1
    <3> QED BY <1>10, <3>1, OutsideIs
  <2> DEFINE x == FreshAt(0, Dfa(No, No, No))  y == Fresh(o + 0, pre, Dfa(No, No, No))
  <2>5. x = FreshAt(0, Dfa(No, No, No)) /\ b = x /\ y = Fresh(o + 0, pre, Dfa(No, No, No)) /\ Reached(W, y)
    BY <2>2, <2>3
  <2> HIDE DEF b, Claim, x, y
  <2> QED BY <1>3, <1>7, <2>2, <2>5
<1>11. CASE /\ ~scanBom /\ d = BetweenCRLF /\ o < Len(W)
            /\ Reached(W, Fresh(IF W[o + 1] = "lf" THEN o + 1 ELSE o, pre, Outside))
  <2> DEFINE p == IF w[1] = "lf" THEN 1 ELSE 0
  <2>0. o < Len(W) /\ d = BetweenCRLF /\ Reached(W, Fresh(IF W[o + 1] = "lf" THEN o + 1 ELSE o, pre, Outside))
    BY <1>11, Zenon
  <2>1. Len(w) > 0 /\ w # <<>> /\ w[1] = W[o + 1]
    <3>1. Len(w) > 0
      BY <1>1, <2>0
    <3>2. 1 \in 1..Len(w)
      BY <1>1, <3>1
    <3> QED BY <1>1, <3>1, <3>2
  <2>2. d = Dfa(No, No, Yes)
    BY <2>0 DEF BetweenCRLF
  <2>2a. Begin(w, Dfa(No, No, Yes), scanBom) = FreshAt(p, Outside)
    BY <1>6, <1>9, <1>11, <2>1, Zenon
  <2>2b. b = Begin(w, Dfa(No, No, Yes), scanBom)
    BY <2>2
  <2>3. b = FreshAt(p, Dfa(No, No, No)) /\ Sound(w, b) /\ Good(w, b) /\ p \in Nat
    BY <1>4, <1>5, <2>2a, <2>2b, OutsideIs
  <2>4. Reached(W, Fresh(o + p, pre, Dfa(No, No, No)))
    <3>1. o + p = IF W[o + 1] = "lf" THEN o + 1 ELSE o
      BY <1>1, <2>1
    <3> QED BY <2>0, <3>1, OutsideIs
  <2> DEFINE x == FreshAt(p, Dfa(No, No, No))  y == Fresh(o + p, pre, Dfa(No, No, No))
  <2>5. x = FreshAt(p, Dfa(No, No, No)) /\ b = x /\ y = Fresh(o + p, pre, Dfa(No, No, No)) /\ Reached(W, y)
    BY <2>3, <2>4
  <2> HIDE DEF b, p, Claim, x, y
  <2> QED BY <1>3, <1>7, <2>3, <2>5
<1>12. CASE ~scanBom /\ d = BetweenCRLF /\ o = Len(W) /\ Reached(W, Fresh(o, pre, BetweenCRLF))
  <2>0. o = Len(W) /\ d = BetweenCRLF /\ Reached(W, Fresh(o, pre, BetweenCRLF))
    BY <1>12, Zenon
  <2>1. w = <<>>
    <3>1. Len(w) = 0
      BY <1>1, <2>0
    <3> QED BY <1>1, <3>1, EmptySeq
  <2>2. d = Dfa(No, No, Yes)
    BY <2>0 DEF BetweenCRLF
  <2>2a. Begin(w, Dfa(No, No, Yes), scanBom) = FreshAt(0, Dfa(No, No, Yes))
    BY <1>6, <1>9, <1>12, <2>1, Zenon
  <2>2b. b = Begin(w, Dfa(No, No, Yes), scanBom)
    BY <2>2
  <2>3. b = FreshAt(0, Dfa(No, No, Yes)) /\ Sound(w, b) /\ Good(w, b)
    BY <1>4, <1>5, <2>2a, <2>2b
  <2>4. Reached(W, Fresh(o + 0, pre, Dfa(No, No, Yes)))
    <3>1. o + 0 = o
      BY <1>1
    <3> QED BY <2>0, <3>1 DEF BetweenCRLF
  <2> DEFINE x == FreshAt(0, Dfa(No, No, Yes))  y == Fresh(o + 0, pre, Dfa(No, No, Yes))
  <2>5. x = FreshAt(0, Dfa(No, No, Yes)) /\ b = x /\ y = Fresh(o + 0, pre, Dfa(No, No, Yes)) /\ Reached(W, y)
    BY <2>3, <2>4
  <2> HIDE DEF b, Claim, x, y
  <2> QED BY <1>3, <1>7, <2>3, <2>5
<1> HIDE DEF Claim
<1>13. \/ scanBom /\ d = Outside /\ o = 0 /\ pre = <<>>
       \/ ~scanBom /\ d = Outside /\ Reached(W, Fresh(o, pre, Outside))
       \/ /\ ~scanBom /\ d = BetweenCRLF /\ o < Len(W)
          /\ Reached(W, Fresh(IF W[o + 1] = "lf" THEN o + 1 ELSE o, pre, Outside))
       \/ ~scanBom /\ d = BetweenCRLF /\ o = Len(W) /\ Reached(W, Fresh(o, pre, BetweenCRLF))
  BY Zenon DEF Resumes
<1> QED BY <1>8, <1>10, <1>11, <1>12, <1>13, Zenon

-----------------------------------------------------------------------------
(* The window that goes along with the run, up to the byte it is cut at.   *)

(* The turns that end no record. *)
OtherTurn(in, s, t) ==
    \/ DelimTurn(in, s, t) \/ ContentTurn(in, s, t)
    \/ PendingTurn(in, s, t) \/ CloseTurn(in, s, t) \/ DoubleTurn(in, s, t)
    \/ CountTurn(in, s, t) \/ OpenTurn(in, s, t)

LEMMA RowOrOther ==
    ASSUME NEW in, NEW s, NEW t, AnyTurn(in, s, t)
    PROVE  RowTurn(in, s, t) \/ OtherTurn(in, s, t)
BY Zenon DEF AnyTurn, OtherTurn

LEMMA OtherIsAny ==
    ASSUME NEW in, NEW s, NEW t, OtherTurn(in, s, t)
    PROVE  AnyTurn(in, s, t)
BY Zenon DEF AnyTurn, OtherTurn

LEMMA OtherKeepsRows ==
    ASSUME NEW in \in Seq(Sym), NEW s, Good(in, s), Sound(in, s), ~Stopped(in, s),
           NEW t, OtherTurn(in, s, t)
    PROVE  t.rows = s.rows /\ t.rowStart = s.rowStart /\ t.dfa.pendingLinefeed = No
<1>1. s.dfa.pendingQuote = No /\ s.dfa.pendingLinefeed = No /\ s.dfa = Dfa(s.dfa.quoted, No, No)
  BY LiveState
<1> DEFINE r == s.rowStart  R == s.rows  d == s.dfa
<1>2. \E p, a, n, b, f, q, k : t = St(p, r, a, n, b, f, R, Dfa(q, k, No))
  <2> HIDE DEF r, R
  <2>1. CASE DelimTurn(in, s, t)
    BY <1>1, <2>1, Zenon DEF DelimTurn, r, R
  <2>2. CASE ContentTurn(in, s, t)
    BY <1>1, <2>2, Zenon DEF ContentTurn, r, R
  <2>3. CASE PendingTurn(in, s, t)
    BY <1>1, <2>3, Zenon DEF PendingTurn, r, R
  <2>4. CASE CloseTurn(in, s, t)
    BY <1>1, <2>4, Zenon DEF CloseTurn, r, R
  <2>5. CASE DoubleTurn(in, s, t)
    BY <1>1, <2>5, Zenon DEF DoubleTurn, r, R
  <2>6. CASE CountTurn(in, s, t)
    BY <1>1, <2>6, Zenon DEF CountTurn, r, R
  <2>7. CASE OpenTurn(in, s, t)
    BY <1>1, <2>7, Zenon DEF OpenTurn, r, R
  <2> QED BY <2>1, <2>2, <2>3, <2>4, <2>5, <2>6, <2>7, Zenon DEF OtherTurn
<1>3. PICK p, a, n, b, f, q, k : t = St(p, r, a, n, b, f, R, Dfa(q, k, No))
  BY <1>2, Zenon
<1> HIDE DEF r, R
<1>4. t.rows = R /\ t.rowStart = r /\ t.dfa.pendingLinefeed = No
  BY <1>3, MadeState
<1> QED BY <1>4 DEF r, R

LEMMA OtherFlags ==
    ASSUME NEW in \in Seq(Sym), NEW s, s.pos \in Nat, s.pos < Len(in), NEW t, OtherTurn(in, s, t)
    PROVE  /\ ~(~s.dfa.quoted /\ Flag(in, s.pos) \in {"cr", "lf"})
           /\ IsContent(in, s.pos, s.dfa.quoted) => ContentTurn(in, s, t)
<1> DEFINE flag == Flag(in, s.pos)  q == s.dfa.quoted
<1>1. IsContent(in, s.pos, q) <=> flag # "quote" /\ (q \/ flag \notin Separators)
  BY NotContent
<1>2. "delim" \in Separators /\ "cr" \in Separators /\ "lf" \in Separators
  BY DEF Separators
<1>3. ContentTurn(in, s, t) \/ (flag = "delim" /\ ~q) \/ flag = "quote"
  BY Zenon DEF OtherTurn, DelimTurn, PendingTurn, CloseTurn, DoubleTurn, CountTurn, OpenTurn
<1>4. ContentTurn(in, s, t) => IsContent(in, s.pos, q)
  BY Zenon DEF ContentTurn
<1> HIDE DEF flag
<1>5. "delim" # "cr" /\ "delim" # "lf" /\ "quote" # "cr" /\ "quote" # "lf" /\ "delim" # "quote"
  OBVIOUS
<1>6. flag \in {"cr", "lf"} => flag = "cr" \/ flag = "lf"
  OBVIOUS
<1>7. ~(~q /\ flag \in {"cr", "lf"}) /\ (IsContent(in, s.pos, q) => ContentTurn(in, s, t))
  BY <1>1, <1>2, <1>3, <1>4, <1>5, <1>6, Zenon
<1> QED BY <1>7 DEF flag

LEMMA RowMade ==
    ASSUME NEW in \in Seq(Sym), NEW s, Good(in, s), Sound(in, s), ~Stopped(in, s),
           NEW t, RowTurn(in, s, t)
    PROVE  \E x \in {1, 2}, l \in {Yes, No} :
             /\ RowEnds(in, s, x, l)
             /\ t = St(s.pos + x, s.pos + x, Unset, 0, No, <<>>, Append(s.rows, TheRow(in, s)), Dfa(No, No, l))
             /\ ~s.dfa.quoted /\ Flag(in, s.pos) \in {"cr", "lf"}
<1>1. s.dfa.pendingQuote = No /\ s.dfa.quoted \in {Yes, No}
  BY LiveState DEF Sound
<1>2. ~s.dfa.quoted
  BY Zenon DEF RowTurn
<1>3. s.dfa.quoted = No
  BY <1>1, <1>2, TruthOf, Zenon
<1>4. PICK x \in {1, 2}, l \in {Yes, No} :
          /\ RowEnds(in, s, x, l)
          /\ t = St(s.pos + x, s.pos + x, Unset, 0, No, <<>>, Append(s.rows, TheRow(in, s)),
                    Dfa(s.dfa.quoted, s.dfa.pendingQuote, l))
  BY Zenon DEF RowTurn
<1>5. Flag(in, s.pos) \in {"cr", "lf"}
  BY <1>4, Zenon DEF RowEnds
<1>6. t = St(s.pos + x, s.pos + x, Unset, 0, No, <<>>, Append(s.rows, TheRow(in, s)), Dfa(No, No, l))
  BY <1>1, <1>3, <1>4
<1> QED BY <1>2, <1>4, <1>5, <1>6, Zenon

LEMMA LiveLift ==
    ASSUME NEW W, NEW o, NEW past, NEW w, NEW v, NEW pre, InWindow(W, o, past, w, v, pre)
    PROVE  ~Stopped(W, Lift(v, o, pre))
<1> DEFINE u == Lift(v, o, pre)
<1>1. u.pos = v.pos + o /\ u.dfa = v.dfa
  BY LiftMembers
<1>2. /\ v.pos \in Nat /\ v.pos < Len(w) /\ Len(w) = past - o /\ o \in Nat /\ past \in Nat
      /\ past <= Len(W) /\ Len(W) \in Nat
  BY WindowFacts
<1>3. ~v.dfa.pendingQuote
  BY Zenon DEF InWindow, Stopped
<1> HIDE DEF u
<1>4. ~(u.pos >= Len(W))
  BY <1>1, <1>2
<1>5. ~Stopped(W, u)
  BY <1>1, <1>3, <1>4, Zenon DEF Stopped
<1> QED BY <1>5 DEF u

(* The run over the whole source passes the end of the window before it    *)
(* emits another row.                                                      *)
Passed(W, past, pre) == \E y : Reached(W, y) /\ y.rows = pre /\ y.pos >= past

LEMMA StoppedPasses ==
    ASSUME NEW W, NEW o, NEW past, NEW w, IsCut(W, o, past, w), NEW v, Good(w, v), NEW pre, IsSeq(pre),
           Reached(W, Lift(v, o, pre)), Stopped(w, v), v.rows = <<>>, past < Len(W)
    PROVE  Passed(W, past, pre)
<1> DEFINE u == Lift(v, o, pre)
<1>1. u.pos = v.pos + o /\ u.dfa = v.dfa /\ u.rows = Joined(pre, v.rows, o)
  BY LiftMembers
<1>2. /\ Len(w) = past - o /\ o \in Nat /\ past \in Nat /\ Len(W) \in Nat /\ o <= past
  BY CutBytes
<1>3. W \in Seq(Sym) /\ v.pos \in Nat
  BY LenProperties DEF IsCut, Good
<1>4. Sound(W, u)
  BY <1>3, ReachedIs
<1> HIDE DEF u
<1>5. u.rows = pre
  BY <1>1, NothingJoined
<1>6. u.pos >= past
  <2>1. CASE v.pos >= Len(w)
    BY <1>1, <1>2, <1>3, <2>1
  <2>2. CASE v.dfa.pendingQuote
    <3>1. v.dfa.pendingQuote \in {Yes, No}
      BY <1>1, <1>4 DEF Sound
    <3>2. v.dfa.pendingQuote = Yes
      BY <2>2, <3>1, TruthOf, Zenon
    <3>3. u.pos + 1 = Len(W)
      BY <1>1, <1>4, <3>2 DEF Sound
    <3> QED BY <1>1, <1>2, <1>3, <3>3
  <2> QED BY <2>1, <2>2 DEF Stopped
<1> QED BY <1>5, <1>6 DEF Passed, u

(* A CR at the end of a window ends its record, whatever follows.          *)
LEMMA CutRow ==
    ASSUME NEW W, NEW o, NEW past, NEW w, NEW v, NEW pre, InWindow(W, o, past, w, v, pre),
           Reached(W, Lift(v, o, pre)), NEW t, RowTurn(w, v, t),
           past < Len(W), ~(v.pos + 1 < Len(w)), Flag(w, v.pos) # "lf"
    PROVE  /\ Resumes(W, o + t.rowStart, Carried(t.dfa), No, Joined(pre, t.rows, o))
           /\ Stopped(w, t) /\ t.rows # <<>>
<1> DEFINE u == Lift(v, o, pre)  row == TheRow(w, v)  R == Append(v.rows, row)
           Q == Joined(pre, R, o)  d == Dfa(No, No, Yes)
<1>1. /\ w \in Seq(Sym) /\ Len(w) = past - o /\ o \in Nat /\ past \in Nat /\ Len(W) \in Nat
      /\ past <= Len(W) /\ o <= past /\ Len(w) \in Nat /\ W \in Seq(Sym)
      /\ v.pos \in Nat /\ v.pos < Len(w)
      /\ Flag(W, u.pos) = Flag(w, v.pos) /\ TheRow(W, u) = ShiftRow(row, o)
      /\ IsSeq(v.rows) /\ v.dfa.pendingLinefeed = No /\ v.dfa.pendingQuote = No
  BY WindowFacts
<1>2. IsCut(W, o, past, w) /\ Good(w, v) /\ Sound(w, v) /\ ~Stopped(w, v) /\ IsSeq(pre)
  BY Zenon DEF InWindow
<1>3. u.pos = v.pos + o /\ u.rows = Joined(pre, v.rows, o) /\ u.dfa = v.dfa
  BY LiftMembers
<1>4. v.pos + 1 = Len(w) /\ u.pos + 1 = past
  <2> HIDE DEF u
  <2> QED BY <1>1, <1>3
<1>5. PICK x \in {1, 2}, l \in {Yes, No} :
             /\ RowEnds(w, v, x, l)
             /\ t = St(v.pos + x, v.pos + x, Unset, 0, No, <<>>, Append(v.rows, TheRow(w, v)), Dfa(No, No, l))
             /\ ~v.dfa.quoted /\ Flag(w, v.pos) \in {"cr", "lf"}
  BY <1>1, <1>2, RowMade
<1>6. Flag(w, v.pos) = "cr"
  BY <1>5
<1>7. Flag(w, v.pos + 1) = "end"
  <2> DEFINE i == v.pos + 1
  <2>1. i \in Nat /\ ~(i < Len(w))
    BY <1>1
  <2> HIDE DEF i
  <2>2. Flag(w, i) = "end"
    BY <1>1, <2>1, FlagIs
  <2> QED BY <2>2 DEF i
<1>8. x = 1 /\ l = Yes
  BY <1>5, <1>6, <1>7 DEF RowEnds
<1> DEFINE e == Len(w)
<1>9. t = St(e, e, Unset, 0, No, <<>>, R, d)
  BY <1>4, <1>5, <1>8
<1>10. t.pos = e /\ t.rowStart = e /\ t.rows = R /\ t.dfa = d
  <2> HIDE DEF R, d, e
  <2> QED BY <1>9, StMembers
<1>11. Stopped(w, t)
  <2>1. t.pos >= Len(w)
    BY <1>1, <1>10
  <2> QED BY <2>1, Zenon DEF Stopped
<1>12. t.rows # <<>>
  <2> DEFINE S == v.rows
  <2> HIDE DEF row, S
  <2>1. Append(S, row) # <<>>
    BY <1>1, SeqAppends DEF S
  <2> QED BY <1>10, <2>1 DEF S
(* The run over the whole source looks at the byte behind the window. *)
<1>13. o + t.rowStart = past /\ past < Len(W)
  BY <1>1, <1>10
<1> HIDE DEF u
<1>14. Flag(W, u.pos + 1) = W[past + 1] /\ W[past + 1] # "end"
  <2>1. Flag(W, past) = W[past + 1] /\ Flag(W, past) # "end"
    BY <1>1, FlagIs
  <2> QED BY <1>4, <2>1
<1> DEFINE y == IF W[past + 1] = "lf" THEN 2 ELSE 1
           z == St(u.pos + y, u.pos + y, Unset, 0, No, <<>>, Append(u.rows, TheRow(W, u)), Dfa(No, No, No))
<1>15. RowEnds(W, u, y, No) /\ y \in {1, 2}
  <2>1. u.dfa.pendingLinefeed = No /\ Flag(W, u.pos) = "cr"
    BY <1>1, <1>3, <1>6
  <2>2. CASE W[past + 1] = "lf"
    <3>1. Flag(W, u.pos + 1) = "lf" /\ y = 2
      BY <1>14, <2>2
    <3> QED BY <2>1, <3>1 DEF RowEnds
  <2>3. CASE W[past + 1] # "lf"
    <3>1. Flag(W, u.pos + 1) \notin {"lf", "end"} /\ y = 1
      BY <1>14, <2>3
    <3> QED BY <2>1, <3>1 DEF RowEnds
  <2> QED BY <2>2, <2>3
<1>16. RowTurn(W, u, z)
  <2>1. ~v.dfa.quoted /\ v.dfa.quoted \in {Yes, No}
    BY <1>2, <1>5 DEF Sound
  <2>2. u.dfa.quoted = No /\ u.dfa.pendingQuote = No /\ ~u.dfa.quoted
    <3>1. v.dfa.quoted = No
      BY <2>1, TruthOf, Zenon
    <3>2. ~u.dfa.quoted
      BY <1>3, <2>1
    <3> QED BY <1>1, <1>3, <3>1, <3>2
  <2>3. z = St(u.pos + y, u.pos + y, Unset, 0, No, <<>>, Append(u.rows, TheRow(W, u)),
               Dfa(u.dfa.quoted, u.dfa.pendingQuote, No))
    BY <2>2
  <2>4. No \in {Yes, No}
    OBVIOUS
  <2> HIDE DEF y, z
  <2> QED BY <1>15, <2>2, <2>3, <2>4, Zenon DEF RowTurn
<1>17. Reached(W, z)
  <2>1. ~Stopped(W, u)
    BY LiveLift DEF u
  <2>2. AnyTurn(W, u, z)
    <3> HIDE DEF z
    <3> QED BY <1>16, Zenon DEF AnyTurn
  <2>3. Reached(W, u)
    BY DEF u
  <2> HIDE DEF z
  <2> QED BY <1>1, <2>1, <2>2, <2>3, ReachedSteps
<1>18. z = Fresh(IF W[past + 1] = "lf" THEN past + 1 ELSE past, Q, Outside)
  <2>1. u.pos + y = IF W[past + 1] = "lf" THEN past + 1 ELSE past
    BY <1>1, <1>3, <1>4
  <2>2. Append(u.rows, TheRow(W, u)) = Q
    <3>1. Joined(pre, Append(v.rows, row), o) = Append(Joined(pre, v.rows, o), ShiftRow(row, o))
      <4> HIDE DEF row
      <4> QED BY <1>1, <1>2, ShiftedAppend
    <3> HIDE DEF row
    <3> QED BY <1>1, <1>3, <3>1
  <2> HIDE DEF y, Q
  <2> QED BY <2>1, <2>2, OutsideIs DEF Fresh
<1>19. Carried(t.dfa) = BetweenCRLF
  <2>1. t.dfa.pendingLinefeed = Yes
    BY <1>10, DfaMembers
  <2>2. t.dfa.pendingLinefeed
    <3>1. t.dfa.pendingLinefeed \in {Yes, No}
      BY <2>1
    <3> QED BY <2>1, <3>1, TruthOf, Zenon
  <2>3. Carried(t.dfa) = t.dfa
    BY <2>2, Zenon DEF Carried
  <2> QED BY <1>10, <2>3 DEF BetweenCRLF
<1>20. Resumes(W, past, BetweenCRLF, No, Q)
  <2>1. Reached(W, Fresh(IF W[past + 1] = "lf" THEN past + 1 ELSE past, Q, Outside))
    BY <1>17, <1>18
  <2>2. ~No
    BY TruthValues, Zenon
  <2> HIDE DEF Q
  <2> QED BY <1>13, <2>1, <2>2, Zenon DEF Resumes
<1>21. Joined(pre, t.rows, o) = Q
  BY <1>10
<1> HIDE DEF Q
<1> QED BY <1>11, <1>12, <1>13, <1>19, <1>20, <1>21

(* Any other turn that looks behind the window ends the window's loop, and *)
(* the run over the whole source passes the end of the window with it.     *)
LEMMA CutOther ==
    ASSUME NEW W, NEW o, NEW past, NEW w, NEW v, NEW pre, InWindow(W, o, past, w, v, pre),
           Reached(W, Lift(v, o, pre)), NEW t, OtherTurn(w, v, t), ~Uncut(W, past, w, v)
    PROVE  /\ Stopped(w, t) /\ past < Len(W)
           /\ v.rows = <<>> => Passed(W, past, pre)
<1> DEFINE u == Lift(v, o, pre)  y == Step(W, u)  q == v.dfa.quoted
<1>1. /\ w \in Seq(Sym) /\ Len(w) = past - o /\ o \in Nat /\ past \in Nat /\ Len(W) \in Nat
      /\ past <= Len(W) /\ o <= past /\ Len(w) \in Nat /\ W \in Seq(Sym)
      /\ v.pos \in Nat /\ v.pos < Len(w)
      /\ Flag(W, u.pos) = Flag(w, v.pos)
  BY WindowFacts
<1>2. IsCut(W, o, past, w) /\ Good(w, v) /\ Sound(w, v) /\ ~Stopped(w, v) /\ IsSeq(pre)
  BY Zenon DEF InWindow
<1>3. u.pos = v.pos + o /\ u.rows = Joined(pre, v.rows, o) /\ u.dfa = v.dfa
  BY LiftMembers
<1>4. ~Stopped(W, u) /\ Reached(W, u)
  BY LiveLift
<1>5. past < Len(W)
  <2>1. past # Len(W)
    BY Zenon DEF Uncut
  <2> QED BY <1>1, <2>1
<1> HIDE DEF u
<1>6. Reached(W, y) /\ AnyTurn(W, u, y)
  BY <1>1, <1>4, ReachedSteps
<1>7. Good(W, u) /\ Good(W, y) /\ Sound(W, u) /\ Sound(W, y)
  BY <1>1, <1>4, <1>6, ReachedIs
<1>8. y.pos > u.pos \/ y.dfa.pendingQuote
  BY <1>1, <1>4, <1>7, StepIsGood
<1> HIDE DEF y
<1>9. OtherTurn(W, u, y)
  <2>1. ~RowTurn(W, u, y)
    <3> SUFFICES ASSUME RowTurn(W, u, y) PROVE FALSE
      OBVIOUS
    <3>1. ~u.dfa.quoted /\ Flag(W, u.pos) \in {"cr", "lf"}
      <4>1. PICK x \in {1, 2}, l \in {Yes, No} :
             /\ RowEnds(W, u, x, l)
             /\ y = St(u.pos + x, u.pos + x, Unset, 0, No, <<>>, Append(u.rows, TheRow(W, u)), Dfa(No, No, l))
             /\ ~u.dfa.quoted /\ Flag(W, u.pos) \in {"cr", "lf"}
        BY <1>1, <1>4, <1>7, RowMade
      <4> QED BY <4>1, Zenon
    <3>2. ~(~v.dfa.quoted /\ Flag(w, v.pos) \in {"cr", "lf"})
      BY <1>1, OtherFlags
    <3> QED BY <1>1, <1>3, <3>1, <3>2
  <2> QED BY <1>6, <2>1, RowOrOther
<1>10. v.rows = <<>> => y.rows = pre
  <2>1. y.rows = u.rows
    BY <1>1, <1>4, <1>7, <1>9, OtherKeepsRows
  <2> QED BY <1>2, <1>3, <2>1, NothingJoined
<1>11. /\ \/ ~(v.pos + 1 < Len(w))
          \/ IsContent(w, v.pos, q) /\ ~(RunEnd(w, v.pos, q) < Len(w))
  BY Zenon DEF Uncut
<1>12. AnyTurn(w, v, t)
  BY OtherIsAny
<1>13. t = Step(w, v)
  BY <1>1, <1>2, <1>12, StepIsTurn
<1>14. t.pos > v.pos \/ t.dfa.pendingQuote
  BY <1>1, <1>2, <1>13, StepIsGood
<1>14a. Good(w, t)
  BY <1>1, <1>2, <1>13, StepIsGood
<1>15. CASE ~(v.pos + 1 < Len(w))
  <2>1. v.pos + 1 = Len(w) /\ u.pos + 1 = past
    BY <1>1, <1>3, <1>15
  <2>2. Stopped(w, t)
    <3>1. CASE t.pos > v.pos
      <4>1. t.pos \in Int
        BY <1>1, <1>14a DEF Good
      <4>2. t.pos >= Len(w)
        BY <1>1, <2>1, <3>1, <4>1
      <4> QED BY <4>2, Zenon DEF Stopped
    <3>2. CASE t.dfa.pendingQuote
      BY <3>2, Zenon DEF Stopped
    <3> QED BY <1>14, <3>1, <3>2
  <2>3. y.pos >= past
    <3>0. y.pos \in Int /\ u.pos \in Int
      BY <1>1, <1>7 DEF Good
    <3>1. CASE y.pos > u.pos
      BY <1>1, <2>1, <3>0, <3>1
    <3>2. CASE y.dfa.pendingQuote
      <4>1. y.dfa.pendingQuote \in {Yes, No}
        BY <1>7 DEF Sound
      <4>2. y.dfa.pendingQuote = Yes
        BY <3>2, <4>1, TruthOf, Zenon
      <4>3. y.pos + 1 = Len(W)
        BY <1>7, <4>2 DEF Sound
      <4> QED BY <1>1, <1>5, <3>0, <4>3
    <3> QED BY <1>8, <3>1, <3>2
  <2> QED BY <1>5, <1>6, <1>10, <2>2, <2>3 DEF Passed
<1>16. CASE IsContent(w, v.pos, q) /\ ~(RunEnd(w, v.pos, q) < Len(w))
  <2> DEFINE i == v.pos  e == RunEnd(w, i, q)  k == i + o  f == RunEnd(W, k, q)
  <2>1. e \in i..Len(w) /\ ~IsContent(w, e, q) /\ \A j \in i..(e - 1) : IsContent(w, j, q)
    <3>1. i \in 0..Len(w)
      BY <1>1
    <3> HIDE DEF i, q
    <3> QED BY <1>1, <3>1, RunEndIs
  <2>2. e = Len(w)
    <3> HIDE DEF e
    <3> QED BY <1>1, <1>16, <2>1 DEF e
  <2>3. ContentTurn(w, v, t)
    BY <1>1, <1>16, OtherFlags, Zenon
  <2>4. t.pos = e
    <3> DEFINE c == Start(v)
    <3>1. t = St(e, v.rowStart, c, e - (c + v.rowStart), v.doubled, v.fields, v.rows, v.dfa)
      BY <2>3, Zenon DEF ContentTurn
    <3> HIDE DEF e, c
    <3> QED BY <3>1, StMembers
  <2>5. Stopped(w, t)
    <3>1. t.pos >= Len(w)
      BY <1>1, <2>2, <2>4
    <3> QED BY <3>1, Zenon DEF Stopped
  <2>6. IsContent(W, k, q)
    <3>1. IsContent(W, i + o, q) <=> IsContent(w, i, q)
      <4> HIDE DEF q
      <4> QED BY <1>1, <1>2, ContentLifts
    <3> QED BY <1>16, <3>1, Zenon
  <2>7. ContentTurn(W, u, y)
    <3>1. u.pos \in Nat /\ u.pos < Len(W)
      BY <1>1, <1>3
    <3>2. IsContent(W, u.pos, u.dfa.quoted)
      BY <1>3, <2>6, Zenon
    <3>3. IsContent(W, u.pos, u.dfa.quoted) => ContentTurn(W, u, y)
      BY <1>1, <1>9, <3>1, OtherFlags
    <3> QED BY <3>2, <3>3, Zenon
  <2>8. y.pos = f
    <3> DEFINE c == Start(u)  g == RunEnd(W, u.pos, u.dfa.quoted)
    <3>1. y = St(g, u.rowStart, c, g - (c + u.rowStart), u.doubled, u.fields, u.rows, u.dfa)
      BY <2>7, Zenon DEF ContentTurn
    <3>2. g = f
      BY <1>3, Zenon
    <3> HIDE DEF g, c, f
    <3>3. y.pos = g
      BY <3>1, StMembers
    <3> QED BY <3>2, <3>3
  <2>9. f \in k..Len(W) /\ ~IsContent(W, f, q)
    <3>1. k \in 0..Len(W)
      BY <1>1
    <3> HIDE DEF k, q
    <3> QED BY <1>1, <3>1, RunEndIs
  <2>10. f >= past
    <3> SUFFICES ASSUME ~(f >= past) PROVE FALSE
      OBVIOUS
    <3> HIDE DEF f, e
    <3> DEFINE j == f - o
    <3>1. j \in Nat /\ j < Len(w) /\ j \in i..(e - 1) /\ j + o = f
      BY <1>1, <2>1, <2>2, <2>9
    <3> HIDE DEF j, q
    <3>2. IsContent(w, j, q)
      BY <2>1, <3>1
    <3>3. IsContent(W, j + o, q)
      BY <1>2, <3>1, <3>2, ContentLifts
    <3> QED BY <2>9, <3>1, <3>3
  <2> HIDE DEF f
  <2>11. y.pos >= past
    BY <2>8, <2>10
  <2> QED BY <1>5, <1>6, <1>10, <2>5, <2>11 DEF Passed
<1> QED BY <1>11, <1>15, <1>16

(* The loop in a window that starts at o, as it goes along with the run    *)
(* over the whole source.                                                  *)
Track(W, o, past, w, pre, scanBom, v) ==
    /\ Good(w, v) /\ Sound(w, v)
    /\ Reached(W, Lift(v, o, pre)) \/ (Stopped(w, v) /\ past < Len(W))
    /\ \/ Marks(W, o, scanBom) /\ v.rows = <<>>
       \/ Resumes(W, o + v.rowStart, Carried(v.dfa), No, Joined(pre, v.rows, o))
    /\ Stopped(w, v) /\ past < Len(W) /\ v.rows = <<>> => Passed(W, past, pre)

LEMMA BeginTracks ==
    ASSUME NEW W, NEW o, NEW past, NEW w, IsCut(W, o, past, w), o < past \/ o = Len(W),
           NEW d, NEW scanBom, NEW pre, IsSeq(pre), Resumes(W, o, d, scanBom, pre)
    PROVE  Track(W, o, past, w, pre, scanBom, Begin(w, d, scanBom))
<1> DEFINE b == Begin(w, d, scanBom)
<1>1. /\ Reached(W, Lift(b, o, pre)) /\ Sound(w, b) /\ Good(w, b)
      /\ Marks(W, o, scanBom) \/ IsFresh(b)
      /\ b.rows = <<>>
  BY BeginLifts
<1>2. W \in Seq(Sym) /\ o \in Nat
  BY DEF IsCut
<1> HIDE DEF b
<1>3. ASSUME IsFresh(b)
      PROVE  Resumes(W, o + b.rowStart, Carried(b.dfa), No, Joined(pre, b.rows, o))
  <2>1. PICK p \in Nat, l \in {Yes, No} : b = FreshAt(p, Dfa(No, No, l))
    BY <1>3, Zenon DEF IsFresh
  <2> DEFINE d1 == Dfa(No, No, l)
  <2>2. Lift(FreshAt(p, d1), o, pre) = Fresh(o + p, pre, d1)
    BY <1>2, LiftFresh
  <2>3. b.rowStart = p /\ b.dfa = d1
    <3>1. FreshAt(p, d1).rowStart = p /\ FreshAt(p, d1).dfa = d1
      BY MadeState DEF FreshAt
    <3> QED BY <2>1, <3>1
  <2>4. Joined(pre, b.rows, o) = pre
    BY <1>1, NothingJoined
  <2>5. Reached(W, Fresh(o + p, pre, Dfa(No, No, l)))
    BY <1>1, <2>1, <2>2
  <2> DEFINE k == o + p
  <2>6. k \in Nat
    BY <1>2
  <2> HIDE DEF k
  <2>7. Reached(W, Fresh(k, pre, Dfa(No, No, l)))
    BY <2>5 DEF k
  <2>8. Resumes(W, k, Carried(Dfa(No, No, l)), No, pre)
    BY <1>2, <2>6, <2>7, FreshResumes
  <2>9. o + b.rowStart = k
    BY <2>3 DEF k
  <2> HIDE DEF d1
  <2> QED BY <2>3, <2>4, <2>8, <2>9 DEF d1
<1>4. Stopped(w, b) /\ past < Len(W) => Passed(W, past, pre)
  BY <1>1, StoppedPasses
<1>5. Track(W, o, past, w, pre, scanBom, b)
  BY <1>1, <1>3, <1>4, Zenon DEF Track
<1> QED BY <1>5 DEF b

LEMMA RowKeeps ==
    ASSUME NEW W, NEW o, NEW past, NEW w, NEW v, NEW pre, InWindow(W, o, past, w, v, pre),
           NEW t, RowTurn(w, v, t), Reached(W, Lift(t, o, pre))
    PROVE  Resumes(W, o + t.rowStart, Carried(t.dfa), No, Joined(pre, t.rows, o)) /\ t.rows # <<>>
<1> DEFINE row == TheRow(w, v)
<1>1. w \in Seq(Sym) /\ W \in Seq(Sym) /\ o \in Nat /\ v.pos \in Nat /\ IsSeq(v.rows)
  BY WindowFacts
<1>2. Good(w, v) /\ Sound(w, v) /\ ~Stopped(w, v)
  BY Zenon DEF InWindow
<1>3. PICK x \in {1, 2}, l \in {Yes, No} :
             /\ RowEnds(w, v, x, l)
             /\ t = St(v.pos + x, v.pos + x, Unset, 0, No, <<>>, Append(v.rows, TheRow(w, v)), Dfa(No, No, l))
             /\ ~v.dfa.quoted /\ Flag(w, v.pos) \in {"cr", "lf"}
  BY <1>1, <1>2, RowMade
<1> DEFINE e == v.pos + x  R == Append(v.rows, row)  d == Dfa(No, No, l)  S == v.rows
<1>4. t = St(e, e, Unset, 0, No, <<>>, R, d) /\ e \in Nat
  BY <1>1, <1>3
<1>5. R # <<>>
  <2> HIDE DEF row, S
  <2>1. Append(S, row) # <<>>
    BY <1>1, SeqAppends DEF S
  <2> QED BY <2>1 DEF S
<1> HIDE DEF e, R, S
<1>6. t.rowStart = e /\ t.rows = R /\ t.dfa = d
  BY <1>4, MadeState
<1>7. Lift(t, o, pre) = St(e + o, e + o, Unset, 0, No, <<>>, Joined(pre, R, o), d)
  <2> HIDE DEF d
  <2> QED BY <1>4, LiftOf
<1> DEFINE k == o + e  Q == Joined(pre, R, o)
<1>8. k \in Nat /\ e + o = k
  BY <1>1, <1>4
<1> HIDE DEF k, Q
<1>9. Reached(W, Fresh(k, Q, Dfa(No, No, l)))
  <2>1. Lift(t, o, pre) = Fresh(k, Q, Dfa(No, No, l))
    BY <1>7, <1>8 DEF Fresh, Q
  <2> QED BY <2>1
<1>10. Resumes(W, k, Carried(Dfa(No, No, l)), No, Q)
  BY <1>1, <1>8, <1>9, FreshResumes
<1>11. o + t.rowStart = k /\ Joined(pre, t.rows, o) = Q
  BY <1>6 DEF k, Q
<1> QED BY <1>5, <1>6, <1>10, <1>11

LEMMA TurnTracks ==
    ASSUME NEW W, NEW o, NEW past, NEW w, IsCut(W, o, past, w), NEW pre, IsSeq(pre), NEW scanBom,
           NEW v, Track(W, o, past, w, pre, scanBom, v), ~Stopped(w, v)
    PROVE  Track(W, o, past, w, pre, scanBom, Step(w, v))
<1> DEFINE t == Step(w, v)  u == Lift(v, o, pre)
           Keeps(s) == Resumes(W, o + s.rowStart, Carried(s.dfa), No, Joined(pre, s.rows, o))
<1> SUFFICES Track(W, o, past, w, pre, scanBom, t)
  OBVIOUS
<1>1. Good(w, v) /\ Sound(w, v) /\ Reached(W, u)
  BY Zenon DEF Track
<1>2. InWindow(W, o, past, w, v, pre)
  BY <1>1, Zenon DEF InWindow
<1>3. w \in Seq(Sym) /\ W \in Seq(Sym) /\ o \in Nat /\ v.dfa.pendingLinefeed = No
  BY <1>2, WindowFacts
<1>4. AnyTurn(w, v, t)
  BY <1>1, <1>3, StepIsTurn
<1>5. Good(w, t)
  BY <1>1, <1>3, StepIsGood
<1> HIDE DEF t
<1>6. Sound(w, t)
  BY <1>1, <1>3, <1>4, TurnIsSound
<1>7. ~Stopped(W, u)
  BY <1>2, LiveLift
<1>8. Uncut(W, past, w, v) => Reached(W, Lift(t, o, pre))
  <2> SUFFICES ASSUME Uncut(W, past, w, v) PROVE Reached(W, Lift(t, o, pre))
    OBVIOUS
  <2> DEFINE x == Lift(t, o, pre)
  <2>1. AnyTurn(W, u, x)
    BY <1>2, <1>4, TurnLifts
  <2> HIDE DEF u, x
  <2>2. Reached(W, x)
    BY <1>1, <1>3, <1>7, <2>1, ReachedSteps
  <2> QED BY <2>2 DEF x
<1>9. ASSUME Reached(W, Lift(t, o, pre)), Stopped(w, t), past < Len(W), t.rows = <<>>
      PROVE  Passed(W, past, pre)
  BY <1>5, <1>9, StoppedPasses
<1>10. CASE RowTurn(w, v, t)
  <2>1. CASE Uncut(W, past, w, v)
    <3>1. Reached(W, Lift(t, o, pre))
      BY <1>8, <2>1
    <3>2. Keeps(t) /\ t.rows # <<>>
      BY <1>2, <1>10, <3>1, RowKeeps
    <3> QED BY <1>5, <1>6, <3>1, <3>2, Zenon DEF Track
  <2>2. CASE ~Uncut(W, past, w, v)
    <3>1. past # Len(W) /\ (v.dfa.quoted \/ Flag(w, v.pos) \notin {"delim", "lf"})
      BY <2>2, Zenon DEF Uncut
    <3>2. ~v.dfa.quoted
      BY <1>10, Zenon DEF RowTurn
    <3>3. Flag(w, v.pos) # "lf"
      <4>1. Flag(w, v.pos) \notin {"delim", "lf"}
        BY <3>1, <3>2, Zenon
      <4> QED BY <4>1
    <3>4. past < Len(W)
      <4>1. past \in Nat /\ past <= Len(W) /\ Len(W) \in Nat
        BY CutBytes
      <4> QED BY <3>1, <4>1
    <3>5. Flag(w, v.pos) \in {"cr", "lf"}
      <4>1. PICK x \in {1, 2}, l \in {Yes, No} : RowEnds(w, v, x, l)
        BY <1>10, Zenon DEF RowTurn
      <4> QED BY <4>1, Zenon DEF RowEnds
    <3>6. ~IsContent(w, v.pos, v.dfa.quoted)
      <4>1. v.pos \in Nat /\ v.pos < Len(w)
        BY <1>2, WindowFacts
      <4>2. IsContent(w, v.pos, v.dfa.quoted) <=>
              Flag(w, v.pos) # "quote" /\ (v.dfa.quoted \/ Flag(w, v.pos) \notin Separators)
        BY <1>3, <4>1, NotContent
      <4>3. Flag(w, v.pos) \in Separators
        BY <3>5 DEF Separators
      <4> QED BY <3>2, <4>2, <4>3, Zenon
    <3>7. ~(v.pos + 1 < Len(w))
      BY <2>2, <3>6, Zenon DEF Uncut
    <3>8. Keeps(t) /\ Stopped(w, t) /\ t.rows # <<>>
      BY <1>1, <1>2, <1>10, <3>3, <3>4, <3>7, CutRow
    <3> QED BY <1>5, <1>6, <3>4, <3>8, Zenon DEF Track
  <2> QED BY <2>1, <2>2
<1>11. CASE OtherTurn(w, v, t)
  <2>1. t.rows = v.rows /\ t.rowStart = v.rowStart /\ t.dfa.pendingLinefeed = No
    BY <1>1, <1>3, <1>11, OtherKeepsRows
  <2>2. ASSUME NEW d, d.pendingLinefeed = No PROVE Carried(d) = Outside
    <3>1. ~d.pendingLinefeed
      <4>1. d.pendingLinefeed \in {Yes, No}
        BY <2>2
      <4> QED BY <2>2, <4>1, TruthOf, Zenon
    <3> QED BY <3>1, Zenon DEF Carried
  <2>3. Carried(t.dfa) = Outside /\ Carried(v.dfa) = Outside
    BY <1>3, <2>1, <2>2
  <2>4. \/ Marks(W, o, scanBom) /\ t.rows = <<>>
        \/ Keeps(t)
    <3>1. (Marks(W, o, scanBom) /\ v.rows = <<>>) \/ Keeps(v)
      BY Zenon DEF Track
    <3> QED BY <2>1, <2>3, <3>1
  <2>5. CASE Uncut(W, past, w, v)
    <3>1. Reached(W, Lift(t, o, pre))
      BY <1>8, <2>5
    <3>2. Stopped(w, t) /\ past < Len(W) /\ t.rows = <<>> => Passed(W, past, pre)
      BY <1>9, <3>1
    <3> QED BY <1>5, <1>6, <2>4, <3>1, <3>2, Zenon DEF Track
  <2>6. CASE ~Uncut(W, past, w, v)
    <3>1. Stopped(w, t) /\ past < Len(W) /\ (v.rows = <<>> => Passed(W, past, pre))
      BY <1>1, <1>2, <1>11, <2>6, CutOther
    <3>2. t.rows = <<>> => Passed(W, past, pre)
      BY <2>1, <3>1
    <3> QED BY <1>5, <1>6, <2>4, <3>1, <3>2, Zenon DEF Track
  <2> QED BY <2>5, <2>6
<1> QED BY <1>4, <1>10, <1>11, RowOrOther

LEMMA WindowTracks ==
    ASSUME NEW W, NEW o, NEW past, NEW w, IsCut(W, o, past, w), o < past \/ o = Len(W),
           NEW d, NEW scanBom, NEW pre, IsSeq(pre), Resumes(W, o, d, scanBom, pre)
    PROVE  LET v == Parse(w, d, scanBom)
           IN  Track(W, o, past, w, pre, scanBom, v) /\ Stopped(w, v)
<1> DEFINE b == Begin(w, d, scanBom)
           T == {m \in Nat : Track(W, o, past, w, pre, scanBom, At(w, b, m))}
<1>1. Track(W, o, past, w, pre, scanBom, b)
  BY BeginTracks
<1>2. w \in Seq(Sym) /\ Len(w) \in Nat
  BY CutBytes
<1>3. Parse(w, d, scanBom) = At(w, b, Len(w) + 1)
  BY <1>2, ParseIs
<1> HIDE DEF b
<1>4. 0 \in T
  BY <1>1, AtTurns
<1>5. ASSUME NEW m \in Nat, m \in T PROVE m + 1 \in T
  <2> DEFINE x == At(w, b, m)  y == At(w, b, m + 1)
  <2>1. y = Turn(w, x)
    BY AtTurns
  <2>2. Track(W, o, past, w, pre, scanBom, x)
    BY <1>5
  <2> HIDE DEF x, y
  <2>3. CASE Stopped(w, x)
    <3>1. y = x
      BY <2>1, <2>3, Zenon DEF Turn
    <3>2. Track(W, o, past, w, pre, scanBom, y)
      BY <2>2, <3>1
    <3> QED BY <3>2 DEF y
  <2>4. CASE ~Stopped(w, x)
    <3>1. y = Step(w, x)
      BY <2>1, <2>4, Zenon DEF Turn
    <3>2. Track(W, o, past, w, pre, scanBom, y)
      BY <2>2, <2>4, <3>1, TurnTracks
    <3> QED BY <3>2 DEF y
  <2> QED BY <2>3, <2>4
<1> DEFINE n == Len(w) + 1
<1>6. n \in Nat
  BY <1>2
<1> HIDE DEF n
<1>7. n \in T
  <2> HIDE DEF T
  <2> QED BY <1>4, <1>5, <1>6, Induction
<1>8. Track(W, o, past, w, pre, scanBom, At(w, b, n))
  BY <1>7
<1>9. Good(w, b)
  BY <1>1, Zenon DEF Track
<1>10. Stopped(w, At(w, b, n))
  BY <1>2, <1>9, RunStops DEF n
<1> QED BY <1>3, <1>8, <1>10 DEF n

-----------------------------------------------------------------------------
(* The end of the source, and the rows of any source in one reader's hands. *)

(* The end of the source: the last record is emitted. *)
EndsOpen(in) == Len(in) > 0 /\ in[Len(in)] \in {"delim", "quote"}
LastFields(in, s) ==
    IF s.fieldLength > 0 \/ EndsOpen(in) THEN Append(s.fields, TheField(in, s)) ELSE s.fields
EndRows(in, s) ==
    IF LastFields(in, s) # <<>> THEN Append(s.rows, Row(LastFields(in, s), s.rowStart, Len(in)))
    ELSE s.rows

LEMMA PushRowIs ==
    ASSUME NEW p, NEW r, NEW a, NEW n, NEW b, NEW f, NEW R, NEW d, NEW e
    PROVE  PushRow(St(p, r, a, n, b, f, R, d), e).rows = Append(R, Row(f, r, e))
<1> DEFINE s == St(p, r, a, n, b, f, R, d)
           x == Append(R, Row(f, r, e))
<1>1. s.rowStart = r /\ s.fields = f /\ s.rows = R
  BY StMembers
<1>2. [s EXCEPT !.rows = x] = St(p, r, a, n, b, f, x, d)
  <2> HIDE DEF x
  <2> QED BY DEF St
<1> HIDE DEF s
<1>3. PushRow(s, e) = [s EXCEPT !.rows = x]
  <2>1. Row(f, r, e) = [fields |-> s.fields, start |-> s.rowStart, end |-> e]
    BY <1>1 DEF Row
  <2>2. PushRow(s, e) = [s EXCEPT !.rows = Append(s.rows, [fields |-> s.fields, start |-> s.rowStart, end |-> e])]
    BY Zenon DEF PushRow
  <2> QED BY <1>1, <2>1, <2>2
<1> HIDE DEF x
<1>4. PushRow(s, e).rows = x
  BY <1>2, <1>3, StMembers
<1> QED BY <1>4 DEF s, x

LEMMA EndFeedIs ==
    ASSUME NEW in, NEW s, Good(in, s)
    PROVE  EndFeed(in, s).rows = EndRows(in, s)
<1> DEFINE p == s.pos  r == s.rowStart  a == s.fieldStart  n == s.fieldLength  b == s.doubled
           f == s.fields  R == s.rows  d == s.dfa
           g == Append(f, TheField(in, s))
           t == IF s.fieldLength > 0 \/ EndsOpen(in) THEN PushField(in, s) ELSE s
           h == LastFields(in, s)
<1>1. s = St(p, r, a, n, b, f, R, d)
  BY Zenon DEF Good, IsState
<1>2. PushField(in, s) = St(p, r, Unset, 0, No, g, R, d)
  <2>1. PushField(in, St(p, r, a, n, b, f, R, d)) = St(p, r, Unset, 0, No, Append(f, Field(in, r, a, n, b)), R, d)
    BY PushFieldIs
  <2>2. g = Append(f, Field(in, r, a, n, b))
    BY Zenon DEF TheField
  <2> QED BY <1>1, <2>1, <2>2
<1>3. EndFeed(in, s) = IF t.fields # <<>> THEN PushRow(t, Len(in)) ELSE t
  BY Zenon DEF EndFeed, EndsOpen
<1>4. /\ s.fieldLength > 0 \/ EndsOpen(in) => h = g
      /\ ~(s.fieldLength > 0 \/ EndsOpen(in)) => h = f
  BY Zenon DEF LastFields
<1>5. \E a1, n1, b1 : t = St(p, r, a1, n1, b1, h, R, d)
  <2> HIDE DEF p, r, a, n, b, f, R, d, g, h
  <2>1. CASE s.fieldLength > 0 \/ EndsOpen(in)
    <3>1. t = St(p, r, Unset, 0, No, h, R, d)
      BY <1>2, <1>4, <2>1, Zenon
    <3> QED BY <3>1, Zenon
  <2>2. CASE ~(s.fieldLength > 0 \/ EndsOpen(in))
    <3>1. t = St(p, r, a, n, b, h, R, d)
      BY <1>1, <1>4, <2>2, Zenon
    <3> QED BY <3>1, Zenon
  <2> QED BY <2>1, <2>2, Zenon
<1>6. PICK a1, n1, b1 : t = St(p, r, a1, n1, b1, h, R, d)
  BY <1>5, Zenon
<1> HIDE DEF p, r, a, n, b, f, R, d, g, h, t
<1>7. t.fields = h /\ t.rows = R
  BY <1>6, StMembers
<1>8. PushRow(t, Len(in)).rows = Append(R, Row(h, r, Len(in)))
  BY <1>6, PushRowIs
<1>9. EndFeed(in, s).rows = IF h # <<>> THEN Append(R, Row(h, r, Len(in))) ELSE R
  BY <1>3, <1>7, <1>8, Zenon
<1> QED BY <1>9, Zenon DEF EndRows, h, R, r

(* At the end of the source the last window's record is the source's. *)
LEMMA EndRowsLift ==
    ASSUME NEW W, NEW o, NEW past, NEW w, IsCut(W, o, past, w), o < past, past = Len(W),
           NEW v, Good(w, v), Sound(w, v), NEW pre, IsSeq(pre)
    PROVE  EndRows(W, Lift(v, o, pre)) = Joined(pre, EndRows(w, v), o)
<1> DEFINE u == Lift(v, o, pre)
<1>1. /\ w \in Seq(Sym) /\ Len(w) = past - o /\ o \in Nat /\ past \in Nat /\ Len(W) \in Nat
      /\ past <= Len(W) /\ o <= past /\ Len(w) \in Nat
      /\ \A j \in 1..Len(w) : w[j] = W[o + j]
  BY CutBytes
<1>2. /\ u.rowStart = v.rowStart + o /\ u.fieldStart = v.fieldStart
      /\ u.fieldLength = v.fieldLength /\ u.doubled = v.doubled /\ u.fields = v.fields
      /\ u.rows = Joined(pre, v.rows, o)
  BY LiftMembers
<1>3. EndsOpen(W) <=> EndsOpen(w)
  <2>1. Len(w) \in 1..Len(w) /\ o + Len(w) = Len(W) /\ Len(w) > 0 /\ Len(W) > 0
    BY <1>1
  <2>2. w[Len(w)] = W[Len(W)]
    BY <1>1, <2>1
  <2> QED BY <2>1, <2>2, Zenon DEF EndsOpen
<1> DEFINE r == v.rowStart  a == v.fieldStart  n == v.fieldLength  b == v.doubled
<1>4. Field(W, r + o, a, n, b) = Field(w, r, a, n, b)
  <2>1. FieldFits(w, r, a, n)
    <3>1. /\ v.pos \in 0..Len(w) /\ v.rowStart \in 0..v.pos /\ v.fieldLength \in Nat
          /\ (v.fieldStart # Unset => v.fieldStart \in Nat)
      BY DEF Good
    <3>2. /\ (v.fieldStart = Unset => v.fieldLength = 0)
          /\ (v.fieldStart # Unset => v.rowStart + v.fieldStart + v.fieldLength <= v.pos)
      BY DEF Sound
    <3> QED BY <1>1, <3>1, <3>2 DEF FieldFits
  <2> HIDE DEF r, a, n, b
  <2> QED BY <2>1, FieldLifts
<1>5. TheField(W, u) = TheField(w, v)
  <2> HIDE DEF u
  <2>1. TheField(W, u) = Field(W, r + o, a, n, b)
    BY <1>2, Zenon DEF TheField
  <2>2. TheField(w, v) = Field(w, r, a, n, b)
    BY Zenon DEF TheField
  <2> QED BY <1>4, <2>1, <2>2
<1> HIDE DEF u
<1>6. LastFields(W, u) = LastFields(w, v)
  BY <1>2, <1>3, <1>5, Zenon DEF LastFields
<1> DEFINE h == LastFields(w, v)  row == Row(h, v.rowStart, Len(w))
<1>7. ShiftRow(row, o) = Row(h, u.rowStart, Len(W))
  <2>1. row.fields = h /\ row.start = v.rowStart /\ row.end = Len(w)
    BY DEF Row
  <2> HIDE DEF row
  <2>2. ShiftRow(row, o) = Row(h, v.rowStart + o, Len(w) + o)
    BY <2>1 DEF ShiftRow
  <2>3. Len(w) + o = Len(W)
    BY <1>1
  <2> QED BY <1>2, <2>2, <2>3
<1>8. Joined(pre, Append(v.rows, row), o) = Append(Joined(pre, v.rows, o), ShiftRow(row, o))
  <2>1. IsSeq(v.rows)
    BY DEF Good
  <2> HIDE DEF row
  <2> QED BY <2>1, ShiftedAppend
<1> HIDE DEF h
<1>9. CASE h # <<>>
  <2>1. EndRows(w, v) = Append(v.rows, row)
    BY <1>9, Zenon DEF EndRows, h
  <2>2. EndRows(W, u) = Append(u.rows, Row(h, u.rowStart, Len(W)))
    BY <1>6, <1>9, Zenon DEF EndRows, h
  <2> HIDE DEF row
  <2>3. EndRows(W, u) = Joined(pre, EndRows(w, v), o)
    BY <1>2, <1>7, <1>8, <2>1, <2>2, Zenon
  <2> QED BY <2>3 DEF u
<1>10. CASE h = <<>>
  <2>1. EndRows(w, v) = v.rows
    BY <1>10, Zenon DEF EndRows, h
  <2>2. EndRows(W, u) = u.rows
    BY <1>6, <1>10, Zenon DEF EndRows, h
  <2>3. EndRows(W, u) = Joined(pre, EndRows(w, v), o)
    BY <1>2, <2>1, <2>2, Zenon
  <2> QED BY <2>3 DEF u
<1> QED BY <1>9, <1>10

LEMMA NoBytesLeft ==
    ASSUME NEW w \in Seq(Sym), Len(w) = 0
    PROVE  w = <<>> /\ ~EndsOpen(w)
<1>1. w = <<>>
  BY EmptySeq
<1>2. ~(Len(w) > 0)
  BY SMT
<1> QED BY <1>1, <1>2, Zenon DEF EndsOpen

(* A state in which nothing of a record has been read. *)
LEMMA FreshEnds ==
    ASSUME NEW in, NEW p, NEW R, NEW d, ~EndsOpen(in)
    PROVE  EndRows(in, Fresh(p, R, d)) = R
<1> DEFINE s == Fresh(p, R, d)
<1>1. s.fieldLength = 0 /\ s.fields = <<>> /\ s.rows = R
  BY StMembers DEF Fresh
<1> HIDE DEF s
<1>2. ~(s.fieldLength > 0)
  BY <1>1
<1>3. LastFields(in, s) = <<>>
  BY <1>1, <1>2, Zenon DEF LastFields
<1>4. EndRows(in, s) = R
  BY <1>1, <1>3, Zenon DEF EndRows
<1> QED BY <1>4 DEF s

(* A read beyond the last byte: no row is left. *)
LEMMA EmptyWindow ==
    ASSUME NEW W, NEW o, NEW past, NEW w, IsCut(W, o, past, w), o = Len(W),
           NEW d, NEW scanBom, NEW pre, IsSeq(pre), Resumes(W, o, d, scanBom, pre)
    PROVE  LET v == Parse(w, d, scanBom)
           IN  /\ w = <<>> /\ v.rows = <<>> /\ EndRows(w, v) = <<>>
               /\ Reached(W, Lift(v, o, pre)) /\ Stopped(W, Lift(v, o, pre))
               /\ EndRows(W, Lift(v, o, pre)) = pre
<1> DEFINE v == Parse(w, d, scanBom)  b == Begin(w, d, scanBom)
<1>1. /\ Reached(W, Lift(b, o, pre)) /\ Good(w, b)
      /\ Marks(W, o, scanBom) \/ IsFresh(b)
  BY BeginLifts
<1>2. /\ w \in Seq(Sym) /\ Len(w) = past - o /\ o \in Nat /\ past \in Nat /\ Len(W) \in Nat
      /\ past <= Len(W) /\ o <= past /\ Len(w) \in Nat
  BY CutBytes
<1>3. Len(w) = 0
  BY <1>2
<1>3a. w = <<>> /\ ~EndsOpen(w)
  BY <1>2, <1>3, NoBytesLeft
<1>4. W \in Seq(Sym)
  BY DEF IsCut
<1>5. ~Marks(W, o, scanBom)
  <2>1. Flag(W, 0) = "bom" => 0 < Len(W)
    <3>1. ~(0 < Len(W)) => Flag(W, 0) = "end"
      BY <1>4, FlagIs
    <3> QED BY <3>1
  <2>2. ~(Flag(W, 0) = "bom" /\ o = 0)
    BY <1>2, <2>1
  <2> QED BY <2>2, Zenon DEF Marks
<1>6. PICK p \in Nat, l \in {Yes, No} : b = FreshAt(p, Dfa(No, No, l))
  BY <1>1, <1>5, Zenon DEF IsFresh
<1> DEFINE e == Dfa(No, No, l)
<1>7. b.pos = p /\ b.rowStart = p /\ b.rows = <<>>
  <2>1. FreshAt(p, e).pos = p /\ FreshAt(p, e).rowStart = p /\ FreshAt(p, e).rows = <<>>
    BY MadeState DEF FreshAt
  <2> HIDE DEF e
  <2> QED BY <1>6, <2>1 DEF e
<1>8. p = 0
  <2>1. b.pos \in 0..Len(w)
    BY <1>1 DEF Good
  <2> QED BY <1>3, <1>7, <2>1
<1>9. v = b
  <2>1. v = At(w, b, Len(w) + 1) /\ b = At(w, b, 0)
    <3> HIDE DEF b
    <3>1. Parse(w, d, scanBom) = At(w, Begin(w, d, scanBom), Len(w) + 1)
      BY <1>2, ParseIs
    <3> QED BY <3>1, AtTurns DEF b
  <2>2. Stopped(w, b)
    <3>1. b.pos >= Len(w)
      BY <1>3, <1>7
    <3> QED BY <3>1, Zenon DEF Stopped
  <2> HIDE DEF b, v
  <2>3. Stopped(w, At(w, b, 0))
    BY <2>1, <2>2
  <2>4. At(w, b, 0) = At(w, b, Len(w) + 1)
    BY <1>1, <1>2, <2>3, StoppedIsLast
  <2> QED BY <2>1, <2>4
<1> HIDE DEF v, b
<1>10. Lift(b, o, pre) = Fresh(o + p, pre, e)
  BY <1>2, <1>6, LiftFresh
<1>11. b = Fresh(p, <<>>, e)
  BY <1>6, Zenon DEF Fresh, FreshAt, e
<1>12. EndRows(w, b) = <<>>
  BY <1>3a, <1>11, FreshEnds
<1> DEFINE u == Lift(b, o, pre)
<1>13. u.pos = o /\ u.rowStart = o
  <2>1. u.pos = b.pos + o /\ u.rowStart = b.rowStart + o
    BY LiftMembers
  <2> HIDE DEF u
  <2> QED BY <1>2, <1>7, <1>8, <2>1
<1>14. Sound(W, u)
  BY <1>1, <1>4, ReachedIs
<1>15. ~EndsOpen(W)
  <2> HIDE DEF u
  <2>1. o > 0 => W[o] \in {"cr", "lf"}
    BY <1>13, <1>14 DEF Sound
  <2>2. ~(Len(W) > 0 /\ W[Len(W)] \in {"delim", "quote"})
    BY <2>1
  <2> QED BY <2>2, Zenon DEF EndsOpen
<1>16. EndRows(W, u) = pre
  <2> HIDE DEF u, e
  <2> QED BY <1>10, <1>15, FreshEnds DEF u
<1>17. Stopped(W, u)
  <2> HIDE DEF u
  <2>1. u.pos >= Len(W)
    BY <1>2, <1>13
  <2> QED BY <2>1, Zenon DEF Stopped
<1>18. /\ v.rows = <<>> /\ EndRows(w, v) = <<>>
       /\ Reached(W, Lift(v, o, pre)) /\ Stopped(W, Lift(v, o, pre))
       /\ EndRows(W, Lift(v, o, pre)) = pre
  BY <1>1, <1>7, <1>9, <1>12, <1>16, <1>17
<1> QED BY <1>3a, <1>18 DEF v

(* The loop stops at the end of the source. *)
LEMMA StoppedLifts ==
    ASSUME NEW W, NEW o, NEW past, NEW w, IsCut(W, o, past, w), past = Len(W),
           NEW v, Good(w, v), Stopped(w, v), NEW pre
    PROVE  Stopped(W, Lift(v, o, pre))
<1> DEFINE u == Lift(v, o, pre)
<1>1. u.pos = v.pos + o /\ u.dfa = v.dfa
  BY LiftMembers
<1>2. Len(w) = past - o /\ o \in Nat /\ Len(W) \in Nat /\ o <= past /\ Len(w) \in Nat
  BY CutBytes
<1>3. v.pos \in 0..Len(w)
  BY DEF Good
<1> HIDE DEF u
<1>4. CASE v.pos >= Len(w)
  <2>1. u.pos >= Len(W)
    BY <1>1, <1>2, <1>3, <1>4
  <2>2. Stopped(W, u)
    BY <2>1, Zenon DEF Stopped
  <2> QED BY <2>2 DEF u
<1>5. CASE v.dfa.pendingQuote
  <2>1. Stopped(W, u)
    BY <1>1, <1>5, Zenon DEF Stopped
  <2> QED BY <2>1 DEF u
<1> QED BY <1>4, <1>5, Zenon DEF Stopped

(* A window that ends where the source ends emits the rows that are left. *)
LEMMA WindowEnds ==
    ASSUME NEW W, NEW o, NEW past, NEW w, IsCut(W, o, past, w), past = Len(W),
           NEW d, NEW scanBom, NEW pre, IsSeq(pre), Resumes(W, o, d, scanBom, pre)
    PROVE  LET v == Parse(w, d, scanBom)
           IN  /\ ParseAll(W).rows = Joined(pre, EndFeed(w, v).rows, o)
               /\ IsSeq(EndFeed(w, v).rows)
               /\ w = <<>> => EndFeed(w, v).rows = v.rows
<1> DEFINE v == Parse(w, d, scanBom)  u == Lift(v, o, pre)
           Claim == /\ ParseAll(W).rows = Joined(pre, EndFeed(w, v).rows, o)
                    /\ IsSeq(EndFeed(w, v).rows)
                    /\ w = <<>> => EndFeed(w, v).rows = v.rows
<1> SUFFICES Claim
  OBVIOUS
<1>1. /\ w \in Seq(Sym) /\ Len(w) = past - o /\ o \in Nat /\ past \in Nat /\ Len(W) \in Nat
      /\ o <= past /\ Len(w) \in Nat
  BY CutBytes
<1>2. W \in Seq(Sym) /\ (o < past \/ o = Len(W))
  <2>1. W \in Seq(Sym)
    BY DEF IsCut
  <2> QED BY <1>1, <2>1
<1>3. Track(W, o, past, w, pre, scanBom, v) /\ Stopped(w, v)
  BY <1>2, WindowTracks
<1>4. Good(w, v) /\ Sound(w, v) /\ Reached(W, u)
  <2>1. ~(past < Len(W))
    BY <1>1
  <2> QED BY <1>3, <2>1, Zenon DEF Track
<1>5. EndFeed(w, v).rows = EndRows(w, v)
  <2> HIDE DEF v
  <2> QED BY <1>4, EndFeedIs
<1>6. Good(W, u)
  BY <1>2, <1>4, ReachedIs
<1>7. Stopped(W, u)
  <2> HIDE DEF v
  <2> QED BY <1>3, <1>4, StoppedLifts
<1>8. ParseAll(W).rows = EndRows(W, u)
  <2> HIDE DEF u
  <2>1. u = Parse(W, Outside, TRUE)
    BY <1>2, <1>4, <1>7, ReachedLast
  <2>2. EndFeed(W, u).rows = EndRows(W, u)
    BY <1>6, EndFeedIs
  <2>3. ParseAll(W) = EndFeed(W, u)
    BY <2>1, Zenon DEF ParseAll
  <2> QED BY <2>2, <2>3
<1>9. CASE o < past
  <2> HIDE DEF v
  <2>1. EndRows(W, u) = Joined(pre, EndRows(w, v), o)
    BY <1>4, <1>9, EndRowsLift
  <2>2. IsSeq(EndRows(w, v))
    <3>1. IsSeq(v.rows)
      BY <1>4 DEF Good
    <3> DEFINE row == Row(LastFields(w, v), v.rowStart, Len(w))
    <3> HIDE DEF row
    <3>2. IsSeq(Append(v.rows, row))
      BY <3>1, SeqAppends
    <3>3. EndRows(w, v) = Append(v.rows, row) \/ EndRows(w, v) = v.rows
      BY Zenon DEF EndRows, row
    <3> QED BY <3>1, <3>2, <3>3
  <2>3. w # <<>>
    BY <1>1, <1>9
  <2> QED BY <1>5, <1>8, <2>1, <2>2, <2>3
<1>10. CASE o = Len(W)
  <2>1. v.rows = <<>> /\ EndRows(w, v) = <<>> /\ EndRows(W, u) = pre
    BY <1>10, EmptyWindow
  <2>2. Joined(pre, <<>>, o) = pre
    BY NothingJoined
  <2> HIDE DEF u, v
  <2> QED BY <1>5, <1>8, <2>1, <2>2, EmptyIsSeq
<1> QED BY <1>2, <1>9, <1>10

(* Rows emitted stay; those emitted from p on end there or later. *)
Extends(x, y) ==
    /\ IsSeq(x) /\ IsSeq(y) /\ Len(x) <= Len(y)
    /\ \A i \in 1..Len(x) : y[i] = x[i]
EmittedFrom(x, y, p) ==
    /\ Extends(x, y)
    /\ \A i \in (Len(x) + 1)..Len(y) : y[i].end \in Nat /\ y[i].end >= p

LEMMA NothingEmitted ==
    ASSUME NEW x, IsSeq(x), NEW p
    PROVE  EmittedFrom(x, x, p)
<1>1. Len(x) \in Nat
  BY LenProperties DEF IsSeq
<1> QED BY <1>1 DEF EmittedFrom, Extends

LEMMA OneEmitted ==
    ASSUME NEW x, NEW y, NEW p \in Nat, EmittedFrom(x, y, p), NEW f, NEW r, NEW e \in Nat, e >= p
    PROVE  EmittedFrom(x, Append(y, Row(f, r, e)), p)
<1> DEFINE row == Row(f, r, e)  z == Append(y, row)
<1>1. row.end = e
  BY DEF Row
<1>2. /\ IsSeq(x) /\ IsSeq(y) /\ Len(x) <= Len(y) /\ (\A i \in 1..Len(x) : y[i] = x[i])
      /\ \A i \in (Len(x) + 1)..Len(y) : y[i].end \in Nat /\ y[i].end >= p
  BY DEF EmittedFrom, Extends
<1>3. Len(x) \in Nat
  BY <1>2, LenProperties DEF IsSeq
<1> HIDE DEF row
<1>4. /\ IsSeq(z) /\ Len(y) \in Nat /\ Len(z) = Len(y) + 1
      /\ (\A i \in 1..Len(y) : z[i] = y[i]) /\ z[Len(y) + 1] = row
  BY <1>2, SeqAppends
<1> HIDE DEF z
<1>5. Extends(x, z)
  BY <1>2, <1>3, <1>4 DEF Extends
<1>6. ASSUME NEW i \in (Len(x) + 1)..Len(z) PROVE z[i].end \in Nat /\ z[i].end >= p
  <2>1. CASE i \in 1..Len(y)
    <3>1. i \in (Len(x) + 1)..Len(y)
      BY <1>3, <1>4, <2>1
    <3> QED BY <1>2, <1>4, <2>1, <3>1
  <2>2. CASE i = Len(y) + 1
    BY <1>1, <1>4, <2>2
  <2> QED BY <1>3, <1>4, <2>1, <2>2
<1>7. EmittedFrom(x, z, p)
  BY <1>5, <1>6 DEF EmittedFrom
<1> QED BY <1>7 DEF z, row

LEMMA TurnEmits ==
    ASSUME NEW W \in Seq(Sym), NEW s, Reached(W, s), ~Stopped(W, s),
           NEW x, NEW p \in Nat, EmittedFrom(x, s.rows, p), s.pos >= p
    PROVE  EmittedFrom(x, Step(W, s).rows, p) /\ Step(W, s).pos >= p
<1> DEFINE t == Step(W, s)
<1>1. Good(W, s) /\ Sound(W, s)
  BY ReachedIs
<1>2. Reached(W, t) /\ AnyTurn(W, s, t)
  BY ReachedSteps
<1>3. Good(W, t) /\ Sound(W, t)
  <2> HIDE DEF t
  <2> QED BY <1>2, ReachedIs
<1>4. t.pos > s.pos \/ t.dfa.pendingQuote
  BY <1>1, StepIsGood
<1> HIDE DEF t
<1>5. s.pos \in Nat /\ s.pos < Len(W) /\ Len(W) \in Nat
  BY <1>1, LiveState
<1>6. t.pos \in Nat
  BY <1>3, <1>5 DEF Good
<1>7. t.pos >= p
  <2>1. CASE t.pos > s.pos
    BY <1>5, <1>6, <2>1
  <2>2. CASE t.dfa.pendingQuote
    <3>1. t.dfa.pendingQuote \in {Yes, No}
      BY <1>3 DEF Sound
    <3>2. t.dfa.pendingQuote = Yes
      BY <2>2, <3>1, TruthOf, Zenon
    <3>3. t.pos + 1 = Len(W)
      BY <1>3, <3>2 DEF Sound
    <3> QED BY <1>5, <1>6, <3>3
  <2> QED BY <1>4, <2>1, <2>2
<1>8. EmittedFrom(x, t.rows, p)
  <2>1. CASE RowTurn(W, s, t)
    <3>1. PICK k \in {1, 2}, l \in {Yes, No} :
             /\ RowEnds(W, s, k, l)
             /\ t = St(s.pos + k, s.pos + k, Unset, 0, No, <<>>, Append(s.rows, TheRow(W, s)), Dfa(No, No, l))
      BY <1>1, <2>1, RowMade
    <3> DEFINE R == Append(s.rows, TheRow(W, s))
               f == RowFields(W, s.rowStart, s.fieldStart, s.fieldLength, s.doubled, s.fields)
    <3>2. t.rows = R
      <4> DEFINE j == s.pos + k
      <4>1. t = St(j, j, Unset, 0, No, <<>>, R, Dfa(No, No, l))
        BY <3>1, Zenon
      <4> HIDE DEF R, j
      <4> QED BY <4>1, MadeState
    <3>3. R = Append(s.rows, Row(f, s.rowStart, s.pos))
      BY Zenon DEF TheRow
    <3> HIDE DEF R, f
    <3>4. EmittedFrom(x, Append(s.rows, Row(f, s.rowStart, s.pos)), p)
      BY <1>5, OneEmitted
    <3> QED BY <3>2, <3>3, <3>4
  <2>2. CASE OtherTurn(W, s, t)
    <3>1. t.rows = s.rows
      BY <1>1, <2>2, OtherKeepsRows
    <3> QED BY <3>1
  <2> QED BY <1>2, <2>1, <2>2, RowOrOther
<1> QED BY <1>7, <1>8 DEF t

(* What the whole source yields after a state its run reaches. *)
LEMMA RunEmits ==
    ASSUME NEW W \in Seq(Sym), NEW y, Reached(W, y)
    PROVE  EmittedFrom(y.rows, Parse(W, Outside, TRUE).rows, y.pos)
<1> DEFINE b == WholeBegin(W)
<1>1. PICK n \in Nat : y = At(W, b, n)
  BY DEF Reached
<1>2. Good(W, y)
  BY ReachedIs
<1>3. Len(W) \in Nat /\ Good(W, b)
  BY WholeBeginIs, LenProperties
<1>4. y.pos \in Nat /\ IsSeq(y.rows)
  BY <1>2, <1>3 DEF Good
<1> DEFINE p == y.pos  x == y.rows
           T == {m \in Nat : EmittedFrom(x, At(W, b, n + m).rows, p) /\ At(W, b, n + m).pos >= p}
<1>5. 0 \in T
  <2>1. At(W, b, n + 0) = y
    BY <1>1
  <2>2. EmittedFrom(x, y.rows, p) /\ y.pos >= p
    BY <1>4, NothingEmitted
  <2> HIDE DEF x, p, b
  <2> QED BY <2>1, <2>2
<1> HIDE DEF x, p, b
<1>6. ASSUME NEW m \in Nat, m \in T PROVE m + 1 \in T
  <2> DEFINE k == n + m  s == At(W, b, k)  t == At(W, b, k + 1)
  <2>1. k \in Nat /\ n + (m + 1) = k + 1
    OBVIOUS
  <2>2. EmittedFrom(x, s.rows, p) /\ s.pos >= p
    BY <1>6
  <2> HIDE DEF k
  <2>3. t = Turn(W, s)
    BY <2>1, AtTurns
  <2>4. Reached(W, s)
    BY <2>1, Zenon DEF Reached, b
  <2> HIDE DEF s, t
  <2>5. EmittedFrom(x, t.rows, p) /\ t.pos >= p
    <3>1. CASE Stopped(W, s)
      <4>1. t = s
        BY <2>3, <3>1, Zenon DEF Turn
      <4> QED BY <2>2, <4>1
    <3>2. CASE ~Stopped(W, s)
      <4>1. t = Step(W, s)
        BY <2>3, <3>2, Zenon DEF Turn
      <4>2. p \in Nat
        BY <1>4 DEF p
      <4> QED BY <2>2, <2>4, <3>2, <4>1, <4>2, TurnEmits
    <3> QED BY <3>1, <3>2
  <2>6. EmittedFrom(x, At(W, b, n + (m + 1)).rows, p) /\ At(W, b, n + (m + 1)).pos >= p
    BY <2>1, <2>5 DEF t
  <2> QED BY <2>6
<1> DEFINE N == Len(W) + 1
<1>7. N \in Nat /\ N <= n + N /\ n + N \in Nat
  BY <1>3
<1>8. Parse(W, Outside, TRUE) = At(W, b, N)
  BY <1>3, ParseIs DEF WholeBegin, b
<1>9. Stopped(W, At(W, b, N))
  BY <1>3, RunStops
<1> HIDE DEF N
<1>10. N \in T
  <2> HIDE DEF T
  <2> QED BY <1>5, <1>6, <1>7, Induction
<1>11. EmittedFrom(x, At(W, b, n + N).rows, p)
  BY <1>10
<1> DEFINE M == n + N
<1> HIDE DEF M
<1>12. At(W, b, M) = At(W, b, N)
  <2>1. M \in Nat /\ N <= M
    BY <1>7 DEF M
  <2> QED BY <1>7, <1>9, <2>1, StoppedStays
<1> QED BY <1>8, <1>11, <1>12 DEF M, x, p

LEMMA AllEmits ==
    ASSUME NEW W \in Seq(Sym), NEW y, Reached(W, y)
    PROVE  /\ EmittedFrom(y.rows, ParseAll(W).rows, y.pos)
           /\ Stopped(W, y) => EmittedFrom(y.rows, ParseAll(W).rows, Len(W))
<1> DEFINE s == Parse(W, Outside, TRUE)  h == LastFields(W, s)  Z == Append(s.rows, Row(h, s.rowStart, Len(W)))
<1>1. Good(W, s)
  BY ParseIsReached, ReachedIs
<1>2. Len(W) \in Nat /\ Good(W, y)
  BY LenProperties, ReachedIs
<1>3. EmittedFrom(y.rows, s.rows, y.pos)
  BY RunEmits
<1>4. y.pos \in Nat /\ y.pos <= Len(W) /\ IsSeq(y.rows)
  BY <1>2 DEF Good
<1>5. Stopped(W, y) => EmittedFrom(y.rows, s.rows, Len(W))
  <2>1. Stopped(W, y) => y = s
    BY ReachedLast
  <2>2. EmittedFrom(y.rows, y.rows, Len(W))
    BY <1>4, NothingEmitted
  <2> QED BY <2>1, <2>2
<1>6. ParseAll(W).rows = EndRows(W, s)
  <2> HIDE DEF s
  <2>1. EndFeed(W, s).rows = EndRows(W, s)
    BY <1>1, EndFeedIs
  <2>2. ParseAll(W) = EndFeed(W, s)
    BY Zenon DEF ParseAll, s
  <2> QED BY <2>1, <2>2
<1>7. EndRows(W, s) = Z \/ EndRows(W, s) = s.rows
  BY Zenon DEF EndRows
<1> HIDE DEF s, h
<1>8. EmittedFrom(y.rows, Z, y.pos)
  BY <1>2, <1>3, <1>4, OneEmitted
<1>9. ASSUME Stopped(W, y) PROVE EmittedFrom(y.rows, Z, Len(W))
  <2> DEFINE e == Len(W)
  <2>1. e \in Nat /\ e >= e
    BY <1>2
  <2> HIDE DEF e
  <2>2. EmittedFrom(y.rows, s.rows, e)
    BY <1>5, <1>9 DEF e
  <2>3. EmittedFrom(y.rows, Append(s.rows, Row(h, s.rowStart, e)), e)
    BY <2>1, <2>2, OneEmitted
  <2> QED BY <2>3 DEF e
<1> HIDE DEF Z
<1> QED BY <1>3, <1>5, <1>6, <1>7, <1>8, <1>9

LEMMA FieldsAre ==
    ASSUME NEW rows, IsSeq(rows)
    PROVE  /\ IsSeq(Fields(rows)) /\ Len(Fields(rows)) = Len(rows) /\ Len(rows) \in Nat
           /\ \A i \in 1..Len(rows) : Fields(rows)[i] = rows[i].fields
<1>1. Len(rows) \in Nat /\ DOMAIN rows = 1..Len(rows)
  BY LenProperties DEF IsSeq
<1> DEFINE y == Fields(rows)
           S == {rows[i].fields : i \in 1..Len(rows)}
<1>2. y = [i \in 1..Len(rows) |-> rows[i].fields]
  BY <1>1 DEF Fields
<1>3. \A i \in 1..Len(rows) : rows[i].fields \in S
  OBVIOUS
<1> HIDE DEF y, S
<1>4. y \in Seq(S) /\ Len(y) = Len(rows) /\ \A i \in 1..Len(rows) : y[i] = rows[i].fields
  BY <1>1, <1>2, <1>3
<1>5. IsSeq(y)
  BY <1>4 DEF IsSeq
<1> QED BY <1>1, <1>4, <1>5 DEF y

LEMMA FieldsJoin ==
    ASSUME NEW pre, IsSeq(pre), NEW rows, IsSeq(rows), NEW o
    PROVE  Fields(Joined(pre, rows, o)) = Fields(pre) \o Fields(rows)
<1> DEFINE z == Joined(pre, rows, o)
<1>1. /\ IsSeq(z) /\ Len(pre) \in Nat /\ Len(rows) \in Nat /\ Len(z) = Len(pre) + Len(rows)
      /\ \A i \in 1..Len(pre) : z[i] = pre[i]
      /\ \A i \in 1..Len(rows) : z[Len(pre) + i] = ShiftRow(rows[i], o)
  BY JoinedIs
<1> HIDE DEF z
<1> DEFINE a == Fields(pre)  b == Fields(rows)  c == Fields(z)  e == a \o b
<1>2. /\ IsSeq(a) /\ Len(a) = Len(pre) /\ \A i \in 1..Len(pre) : a[i] = pre[i].fields
      /\ IsSeq(b) /\ Len(b) = Len(rows) /\ \A i \in 1..Len(rows) : b[i] = rows[i].fields
      /\ IsSeq(c) /\ Len(c) = Len(z) /\ \A i \in 1..Len(z) : c[i] = z[i].fields
  BY <1>1, FieldsAre
<1> HIDE DEF a, b, c
<1>3. /\ IsSeq(e) /\ Len(e) = Len(a) + Len(b)
      /\ \A i \in 1..(Len(a) + Len(b)) : e[i] = IF i <= Len(a) THEN a[i] ELSE b[i - Len(a)]
  BY <1>2, ConcatIs
<1> HIDE DEF e
<1>4. \A x : ShiftRow(x, o).fields = x.fields
  BY DEF ShiftRow, Row
<1>5. ASSUME NEW i \in 1..Len(c) PROVE c[i] = e[i]
  <2>1. CASE i <= Len(pre)
    <3>1. i \in 1..Len(pre) /\ i \in 1..Len(z)
      BY <1>1, <1>2, <2>1
    <3>2. c[i] = pre[i].fields
      BY <1>1, <1>2, <3>1
    <3>3. e[i] = a[i]
      BY <1>1, <1>2, <1>3, <2>1, <3>1
    <3> QED BY <1>2, <3>1, <3>2, <3>3
  <2>2. CASE ~(i <= Len(pre))
    <3> DEFINE j == i - Len(pre)
    <3>1. j \in 1..Len(rows) /\ i = Len(pre) + j /\ i \in 1..Len(z)
      BY <1>1, <1>2, <2>2
    <3> HIDE DEF j
    <3>2. z[i] = ShiftRow(rows[j], o)
      BY <1>1, <3>1
    <3>3. c[i] = rows[j].fields
      BY <1>2, <1>4, <3>1, <3>2
    <3>4. e[i] = b[j]
      BY <1>1, <1>2, <1>3, <2>2, <3>1 DEF j
    <3> QED BY <1>2, <3>1, <3>3, <3>4
  <2> QED BY <2>1, <2>2
<1>6. c = e
  BY <1>1, <1>2, <1>3, <1>5, IsSeqEqual
<1> QED BY <1>6 DEF a, b, c, e, z

LEMMA PrefixIs ==
    ASSUME NEW s, NEW t, Extends(s, t)
    PROVE  IsPrefix(s, t)
<1>1. IsSeq(s) /\ IsSeq(t) /\ Len(s) <= Len(t) /\ \A i \in 1..Len(s) : t[i] = s[i]
  BY DEF Extends
<1>2. Len(s) \in Nat /\ Len(t) \in Nat
  BY <1>1, LenProperties DEF IsSeq
<1>3. SubSeq(s, 1, Len(s)) = SubSeq(t, 1, Len(s))
  <2>1. SubSeq(s, 1, Len(s)) = [i \in 1..(Len(s) - 1 + 1) |-> s[i + 1 - 1]]
    BY <1>1, <1>2 DEF IsSeq
  <2>2. SubSeq(t, 1, Len(s)) = [i \in 1..(Len(s) - 1 + 1) |-> t[i + 1 - 1]]
    BY <1>1, <1>2 DEF IsSeq
  <2>3. \A i \in 1..(Len(s) - 1 + 1) : i + 1 - 1 \in 1..Len(s)
    BY <1>2
  <2> QED BY <1>1, <2>1, <2>2, <2>3
<1> QED BY <1>1, <1>3 DEF IsPrefix

(* The rows emitted so far are the first of the source's. *)
LEMMA PrefixOfRows ==
    ASSUME NEW x, NEW y, NEW p, EmittedFrom(x, y, p)
    PROVE  IsPrefix(Fields(x), Fields(y)) /\ IsPrefix(Fields(y), Fields(y))
<1>1. IsSeq(x) /\ IsSeq(y) /\ Len(x) <= Len(y) /\ \A i \in 1..Len(x) : y[i] = x[i]
  BY DEF EmittedFrom, Extends
<1> DEFINE a == Fields(x)  b == Fields(y)
<1>2. /\ IsSeq(a) /\ Len(a) = Len(x) /\ Len(x) \in Nat /\ \A i \in 1..Len(x) : a[i] = x[i].fields
      /\ IsSeq(b) /\ Len(b) = Len(y) /\ Len(y) \in Nat /\ \A i \in 1..Len(y) : b[i] = y[i].fields
  BY <1>1, FieldsAre
<1> HIDE DEF a, b
<1>3. \A i \in 1..Len(a) : i \in 1..Len(y)
  BY <1>1, <1>2
<1>4. Extends(a, b)
  BY <1>1, <1>2, <1>3 DEF Extends
<1>5. Extends(b, b)
  BY <1>2 DEF Extends
<1> QED BY <1>4, <1>5, PrefixIs DEF a, b

LEMMA ResumesFrom ==
    ASSUME NEW W \in Seq(Sym), NEW o, NEW d, NEW scanBom, NEW pre, Resumes(W, o, d, scanBom, pre)
    PROVE  IsPrefix(Fields(pre), Fields(ParseAll(W).rows))
<1>1. \E y : Reached(W, y) /\ y.rows = pre
  <2>1. CASE pre = <<>>
    <3>1. Reached(W, WholeBegin(W)) /\ WholeBegin(W).rows = <<>>
      BY BeginIsReached, WholeBeginIs
    <3> QED BY <2>1, <3>1
  <2>2. CASE pre # <<>>
    <3>1. \E p, e : Reached(W, Fresh(p, pre, e))
      BY <2>2, Zenon DEF Resumes
    <3>2. PICK p, e : Reached(W, Fresh(p, pre, e))
      BY <3>1, Zenon
    <3>3. Fresh(p, pre, e).rows = pre
      BY StMembers DEF Fresh
    <3> QED BY <3>2, <3>3
  <2> QED BY <2>1, <2>2
<1>2. PICK y : Reached(W, y) /\ y.rows = pre
  BY <1>1
<1>3. EmittedFrom(pre, ParseAll(W).rows, y.pos)
  BY <1>2, AllEmits
<1> QED BY <1>3, PrefixOfRows

(* The head holds the first record of a source with a mark. *)
LEMMA MarkedRecordFits ==
    ASSUME NEW W \in Seq(Sym), NEW h \in Nat, MarkFits(W, h), Flag(W, 0) = "bom",
           NEW y, Reached(W, y), y.rows = <<>>,
           y.pos >= h \/ (Stopped(W, y) /\ Len(W) >= h)
    PROVE  FALSE
<1> DEFINE R == ParseAll(W).rows
<1>1. R # <<>> /\ R[1].end < h
  BY Zenon DEF MarkFits
<1> HIDE DEF R
<1>2. EmittedFrom(<<>>, R, y.pos) /\ (Stopped(W, y) => EmittedFrom(<<>>, R, Len(W)))
  BY AllEmits DEF R
<1>3. Good(W, y) /\ Len(W) \in Nat
  BY ReachedIs, LenProperties
<1>4. y.pos \in Nat
  BY <1>3 DEF Good
<1>5. \E p \in Nat : p >= h /\ EmittedFrom(<<>>, R, p)
  BY <1>2, <1>3, <1>4
<1>6. PICK p \in Nat : p >= h /\ EmittedFrom(<<>>, R, p)
  BY <1>5
<1> DEFINE none == <<>>
<1>7. Len(none) = 0
  OBVIOUS
<1>8. EmittedFrom(none, R, p)
  BY <1>6
<1> HIDE DEF none
<1>9. IsSeq(R) /\ \A i \in (Len(none) + 1)..Len(R) : R[i].end \in Nat /\ R[i].end >= p
  BY <1>8 DEF EmittedFrom, Extends
<1>10. Len(R) \in Nat /\ Len(R) # 0
  <2>1. PICK S : R \in Seq(S)
    BY <1>9 DEF IsSeq
  <2> QED BY <1>1, <2>1, EmptySeq, LenProperties
<1>11. 1 \in (Len(none) + 1)..Len(R)
  BY <1>7, <1>10
<1>12. R[1].end \in Nat /\ R[1].end >= p
  BY <1>9, <1>11
<1> QED BY <1>1, <1>6, <1>12

(* A window after which the source goes on. *)
LEMMA WindowGoesOn ==
    ASSUME NEW W, NEW o, NEW past, NEW w, IsCut(W, o, past, w), o < past,
           NEW d, NEW scanBom, NEW pre, IsSeq(pre), Resumes(W, o, d, scanBom, pre),
           NEW h \in Nat, MarkFits(W, h), scanBom => past >= h
    PROVE  LET v == Parse(w, d, scanBom)
           IN  /\ Resumes(W, o + v.rowStart, Carried(v.dfa), No, Joined(pre, v.rows, o))
               /\ IsSeq(v.rows)
<1> DEFINE v == Parse(w, d, scanBom)
<1>1. Track(W, o, past, w, pre, scanBom, v) /\ Stopped(w, v)
  BY WindowTracks
<1>2. /\ Good(w, v)
      /\ Reached(W, Lift(v, o, pre)) \/ past < Len(W)
      /\ \/ Marks(W, o, scanBom) /\ v.rows = <<>>
         \/ Resumes(W, o + v.rowStart, Carried(v.dfa), No, Joined(pre, v.rows, o))
      /\ past < Len(W) /\ v.rows = <<>> => Passed(W, past, pre)
  BY <1>1, Zenon DEF Track
<1> HIDE DEF v
<1>3. IsSeq(v.rows)
  BY <1>2 DEF Good
<1>4. /\ past \in Nat /\ Len(W) \in Nat /\ past <= Len(W) /\ W \in Seq(Sym)
  BY CutBytes DEF IsCut
<1>5. ASSUME Marks(W, o, scanBom), v.rows = <<>> PROVE FALSE
  <2>1. scanBom /\ Flag(W, 0) = "bom" /\ o = 0
    BY <1>5, Zenon DEF Marks
  <2>2. pre = <<>> /\ past >= h
    BY <2>1, Zenon DEF Resumes
  <2>3. CASE past < Len(W)
    <3>1. PICK y : Reached(W, y) /\ y.rows = pre /\ y.pos >= past
      BY <1>2, <1>5, <2>3 DEF Passed
    <3>2. y.pos \in Nat
      <4>1. Good(W, y)
        BY <1>4, <3>1, ReachedIs
      <4> QED BY <1>4, <4>1 DEF Good
    <3>3. y.pos >= h
      BY <1>4, <2>2, <3>1, <3>2
    <3> QED BY <1>4, <2>1, <2>2, <3>1, <3>3, MarkedRecordFits
  <2>4. CASE ~(past < Len(W))
    <3> DEFINE u == Lift(v, o, pre)
    <3>1. past = Len(W)
      BY <1>4, <2>4
    <3>2. Reached(W, u)
      BY <1>2, <2>4
    <3>3. Stopped(W, u)
      BY <1>1, <1>2, <3>1, StoppedLifts DEF v
    <3>4. u.rows = <<>>
      <4>1. u.rows = Joined(pre, v.rows, o)
        BY LiftMembers
      <4>2. Joined(pre, <<>>, o) = pre
        BY NothingJoined
      <4> HIDE DEF u
      <4> QED BY <1>5, <2>2, <4>1, <4>2
    <3> HIDE DEF u
    <3> QED BY <1>4, <2>1, <2>2, <3>1, <3>2, <3>3, <3>4, MarkedRecordFits
  <2> QED BY <2>3, <2>4
<1> QED BY <1>2, <1>3, <1>5 DEF v

(* The bytes read for format guessing are the first window's: its end is   *)
(* theirs, or lies beyond.                                                 *)
NothingRead(inp, p, h, sh) ==
    LET e == IF inp.head < Len(inp.source) THEN inp.head ELSE Len(inp.source)
    IN  /\ h = Cut(inp.source, 0, e)
        /\ p = IF inp.kind = "mmap" THEN 0 ELSE e
        /\ inp.kind = "stream" /\ Len(inp.source) < inp.head => sh

(* The reader with one worker, between two windows: it has the rows pre,   *)
(* and the next window goes on where the source's run has emitted them.    *)
OneWorker(inp, whl, p, h, sh, ser, win, rows, ended) ==
    /\ whl = ParseAll(inp.source)
    /\ win.tasks = <<>>
    /\ ended => rows = Fields(whl.rows)
    /\ ~ended =>
          /\ \E pre : /\ IsSeq(pre) /\ rows = Fields(pre)
                      /\ Resumes(inp.source, RestartOf(inp, p, h), ser.initial, ~ser.bomScanned, pre)
          /\ ser.bomScanned \/ NothingRead(inp, p, h, sh)

Serial(inp) == Cardinality(inp.workers) = 1 /\ MarkFits(inp.source, inp.head)
RowsInv ==
    /\ SerialInv
    /\ Serial(input) => OneWorker(input, whole, pos, head, short, serial, window, out, eof)

LEMMA ResumesTruth ==
    ASSUME NEW W, NEW o, NEW d, NEW x, NEW y, NEW pre, x <=> y, Resumes(W, o, d, x, pre)
    PROVE  Resumes(W, o, d, y, pre)
BY Zenon DEF Resumes

LEMMA InitIsOneWorker == Init => RowsInv
<1> SUFFICES ASSUME Init PROVE RowsInv
  OBVIOUS
<1>1. SerialInv
  BY InitIsSerial
<1>2. /\ input \in Inputs /\ window.tasks = <<>> /\ whole = ParseAll(input.source)
      /\ out = <<>> /\ eof = FALSE
      /\ serial = [initial |-> Outside, bomScanned |-> FALSE, utf8Bom |-> FALSE]
      /\ pos = (IF input.kind = "mmap" THEN 0 ELSE Len(head))
      /\ short = (input.kind = "stream" /\ Len(input.source) < input.head)
  BY DEF Init, NoWindow, source, kind
<1>3. input.source \in Seq(Sym) /\ Len(input.source) \in Nat /\ input.kind \in {"mmap", "stream"} /\ input.head \in Nat
  BY <1>2, InputIs
<1> DEFINE s == input.source
           e == IF input.head < Len(s) THEN input.head ELSE Len(s)
<1>4. /\ head = Cut(s, 0, e) /\ Len(head) = e /\ e \in Nat
  <2> DEFINE c == IF 0 + input.head < Len(s) THEN 0 + input.head ELSE Len(s)
  <2>1. 0 \in 0..Len(s)
    BY <1>3
  <2>2. /\ c \in 0..Len(s)
        /\ SubSeq(s, 0 + 1, Min({0 + input.head, Len(s)})) = Cut(s, 0, c) /\ Len(Cut(s, 0, c)) = c - 0
    BY <1>3, <2>1, BytesIs
  <2>3. head = SubSeq(s, 0 + 1, Min({0 + input.head, Len(s)}))
    BY DEF Init, Bytes, source
  <2>4. c = e
    BY <1>3
  <2> HIDE DEF c, e
  <2>5. head = Cut(s, 0, c)
    BY <2>2, <2>3, Zenon
  <2>6. Len(Cut(s, 0, c)) = c /\ c \in Nat
    BY <1>3, <2>2
  <2> QED BY <2>4, <2>5, <2>6
<1>5. NothingRead(input, pos, head, short)
  BY <1>2, <1>3, <1>4 DEF NothingRead
<1>6. RestartOf(input, pos, head) = 0
  <2> HIDE DEF e
  <2> QED BY <1>2, <1>3, <1>4 DEF RestartOf
<1>7. serial.initial = Outside /\ ~serial.bomScanned
  BY <1>2, Zenon
<1>8. IsSeq(<<>>) /\ out = Fields(<<>>)
  BY <1>2, EmptyIsSeq, NoFields
<1>9. Resumes(s, RestartOf(input, pos, head), serial.initial, ~serial.bomScanned, <<>>)
  BY <1>6, <1>7, Zenon DEF Resumes
<1> HIDE DEF e
<1>10. ~eof
  BY <1>2, Zenon
<1>11. OneWorker(input, whole, pos, head, short, serial, window, out, eof)
  BY <1>2, <1>5, <1>8, <1>9, <1>10, Zenon DEF OneWorker
<1> QED BY <1>1, <1>11, Zenon DEF RowsInv

(* The first window holds the head, unless it is the source's only one. *)
LEMMA FirstWindow ==
    ASSUME input \in Inputs, Position(input, pos, head, short), NothingRead(input, pos, head, short),
           ~Read.exhausted
    PROVE  Read.past >= input.head
<1> DEFINE s == input.source  L == Len(s)
           e == IF input.head < L THEN input.head ELSE L
<1>1. /\ s \in Seq(Sym) /\ L \in Nat /\ input.kind \in {"mmap", "stream"} /\ input.head \in Nat
      /\ input.head > 0 /\ WindowSize \in Nat
  BY InputIs DEF WindowSize, Workers, ChunkSize
<1>2. /\ head = Cut(s, 0, e)
      /\ pos = (IF input.kind = "mmap" THEN 0 ELSE e)
      /\ (input.kind = "stream" /\ L < input.head => short)
  BY DEF NothingRead
<1>3. e \in 0..L /\ (e = input.head \/ (e = L /\ L < input.head)) /\ e \in Nat
  BY <1>1
<1>4. IsRead(input, pos, head, Read)
  BY ReadIs
<1> HIDE DEF e
<1>5. Len(head) = e
  BY <1>1, <1>2, <1>3, CutIsSeq
<1>6. CASE input.kind = "mmap"
  <2>1. Read = MmapRead
    BY <1>6, Zenon DEF Read, kind
  <2>2. head # <<>>
    <3>1. CASE L = 0
      <4>1. Read.base = 0 /\ Read.past \in Read.base..L /\ Read.bytes = Cut(s, Read.base, Read.past) /\ Read.bytes # <<>>
        BY <1>2, <1>4, <1>6 DEF IsRead
      <4>2. Read.past = 0 /\ 0 \in 0..Len(s)
        BY <1>1, <3>1, <4>1
      <4>3. Cut(s, 0, 0) = <<>>
        BY <1>1, <4>2, CutNone
      <4> QED BY <4>1, <4>2, <4>3
    <3>2. CASE L # 0
      <4>1. e > 0
        BY <1>1, <1>3, <3>2
      <4> QED BY <1>5, <4>1
    <3> QED BY <3>1, <3>2
  <2> DEFINE n == IF head # <<>> THEN Len(head) ELSE Min({Len(source) - pos, WindowSize})
  <2>3. n = e
    BY <1>5, <2>2
  <2>4. MmapRead = [bytes |-> Bytes(pos, n), base |-> pos, past |-> pos + n,
                    exhausted |-> pos + n = Len(source), short |-> FALSE]
    BY Zenon DEF MmapRead
  <2> HIDE DEF n
  <2>5. MmapRead.past = pos + n /\ (MmapRead.exhausted <=> pos + n = Len(source))
    BY <2>4
  <2>6. pos + n = e
    BY <1>2, <1>3, <1>6, <2>3
  <2>7. e # L
    BY <2>1, <2>5, <2>6 DEF source
  <2> QED BY <1>1, <1>3, <2>1, <2>5, <2>6, <2>7
<1>7. CASE input.kind = "stream"
  <2>0. Read = StreamRead
    BY <1>7, Zenon DEF Read, kind
  <2> DEFINE asked == IF Len(head) < WindowSize THEN WindowSize - Len(head) ELSE ChunkSize
             got == IF short THEN <<>> ELSE Bytes(pos, asked)
             hitEnd == short \/ Len(got) < asked
             bs == head \o got  bb == pos - Len(head)  bp == pos + Len(got)
             be == hitEnd \/ head \o got = <<>>
  <2>1. StreamRead = [bytes |-> bs, base |-> bb, past |-> bp, exhausted |-> be, short |-> hitEnd]
    BY Zenon DEF StreamRead
  <2>2. short => hitEnd
    BY Zenon
  <2>3. hitEnd => be
    BY Zenon
  <2>4. bp = pos + Len(got)
    OBVIOUS
  <2>5. short => got = <<>>
    OBVIOUS
  <2>6. Len(got) \in Nat
    <3>1. CASE short
      <4>1. got = <<>>
        BY <2>5, <3>1
      <4> HIDE DEF got
      <4> QED BY <4>1
    <3>2. CASE ~short
      <4>1. got = Bytes(pos, asked)
        BY <3>2
      <4>2. pos \in 0..L /\ asked \in Nat
        <5>1. pos \in 0..L
          BY DEF Position
        <5>2. input.chunk \in Nat
          BY InputIs
        <5> QED BY <1>1, <1>3, <1>5, <5>1, <5>2 DEF ChunkSize
      <4> HIDE DEF got, asked
      <4> DEFINE c == IF pos + asked < L THEN pos + asked ELSE L
      <4>3. /\ c \in pos..L /\ SubSeq(s, pos + 1, Min({pos + asked, L})) = Cut(s, pos, c)
            /\ Len(Cut(s, pos, c)) = c - pos
        BY <1>1, <4>2, BytesIs
      <4>4. got = Cut(s, pos, c)
        BY <4>1, <4>3 DEF Bytes, source
      <4>5. Len(got) = c - pos
        BY <4>3, <4>4
      <4> HIDE DEF c
      <4> QED BY <4>2, <4>3, <4>5, <1>1
    <3> QED BY <3>1, <3>2
  <2> HIDE DEF bs, bb, bp, be, hitEnd, got
  <2>7. StreamRead.past = bp /\ StreamRead.exhausted = be
    BY <2>1
  <2>8. ~short
    BY <2>0, <2>2, <2>3, <2>7, Zenon
  <2>9. e = input.head
    BY <1>2, <1>3, <1>7, <2>8
  <2> QED BY <1>1, <1>2, <1>3, <1>7, <2>0, <2>4, <2>6, <2>7, <2>9
<1> QED BY <1>1, <1>6, <1>7

LEMMA OneWorkerSteps ==
    ASSUME SerialInv, SerialWindow, MarkFits(input.source, input.head),
           OneWorker(input, whole, pos, head, short, serial, window, out, eof)
    PROVE  OneWorker(input', whole', pos', head', short', serial', window', out', eof')
<1> DEFINE r == Read
           in == r.bytes
           empty == kind = "mmap" /\ in = <<>>
           d == serial.initial
           scan == ~serial.bomScanned
           v == Parse(in, d, scan)
           ended == IF r.exhausted /\ ~empty THEN EndFeed(in, v) ELSE v
           base == r.base  past == r.past
           W == input.source
<1>1. /\ input \in Inputs /\ Position(input, pos, head, short)
  BY DEF SerialInv, WindowInv, WInv
<1>2. IsRead(input, pos, head, r) /\ base = Restart
  BY <1>1, ReadIs
<1>3. W \in Seq(Sym) /\ Len(W) \in Nat /\ input.head \in Nat
  BY <1>1, InputIs
<1>4. /\ base \in Nat /\ past \in base..Len(W) /\ in = Cut(W, base, past)
      /\ r.exhausted => past = Len(W)
      /\ ~r.exhausted => in # <<>>
      /\ input.kind = "stream" /\ r.short => past = Len(W)
  BY <1>2 DEF IsRead
<1>5. /\ WantsWindow
      /\ serial' = IF empty THEN serial
                   ELSE [initial |-> Carried(v.dfa), bomScanned |-> TRUE,
                         utf8Bom |-> IF serial.bomScanned THEN serial.utf8Bom
                                          ELSE Flag(in, 0) = "bom"]
      /\ out' = out \o Fields(ended.rows)
      /\ short' = r.short
      /\ Finish(base, past, in, v.rowStart, r.exhausted)
      /\ UNCHANGED <<input, whole, scanned, window, valid>>
  BY Zenon DEF SerialWindow
<1>6. ~eof
  BY <1>5, Zenon DEF WantsWindow
<1>7. /\ whole = ParseAll(W) /\ window.tasks = <<>>
      /\ \E pre : /\ IsSeq(pre) /\ out = Fields(pre)
                  /\ Resumes(W, RestartOf(input, pos, head), d, scan, pre)
      /\ serial.bomScanned \/ NothingRead(input, pos, head, short)
  BY <1>6, Zenon DEF OneWorker
<1>8. PICK pre : IsSeq(pre) /\ out = Fields(pre) /\ Resumes(W, RestartOf(input, pos, head), d, scan, pre)
  BY <1>7, Zenon
<1>9. RestartOf(input, pos, head) = base
  BY <1>2, Zenon DEF RestartOf, Restart, kind
<1>10. scan => (~r.exhausted => past >= input.head)
  BY <1>1, <1>7, FirstWindow
<1>11. IsCut(W, base, past, in)
  <2> HIDE DEF base, past, in, W
  <2> QED BY <1>3, <1>4 DEF IsCut
<1>12. Resumes(W, base, d, scan, pre)
  BY <1>8, <1>9
<1>13. eof' = r.exhausted
  BY <1>5, Zenon DEF Finish
<1>14. /\ input' = input /\ whole' = whole /\ window' = window
  BY <1>5, Zenon
<1> DEFINE W2 == input'.source  p == pos'  h == head'  sh == short'  x == r.exhausted
<1>15. CASE x
  <2> HIDE DEF r
  <2>1. past = Len(W)
    BY <1>4, <1>15
  <2> HIDE DEF base, past, in, W, d, scan
  <2>2. /\ ParseAll(W).rows = Joined(pre, EndFeed(in, v).rows, base)
        /\ IsSeq(EndFeed(in, v).rows)
        /\ in = <<>> => EndFeed(in, v).rows = v.rows
    BY <1>8, <1>11, <1>12, <2>1, WindowEnds
  <2> DEFINE E == EndFeed(in, v).rows
  <2>3. ended.rows = E
    <3> HIDE DEF v
    <3>1. CASE empty
      BY <2>2, <3>1
    <3>2. CASE ~empty
      BY <1>15, <3>2
    <3> QED BY <3>1, <3>2
  <2> HIDE DEF v, ended, E
  <2>4. Fields(Joined(pre, E, base)) = Fields(pre) \o Fields(E)
    BY <1>8, <2>2, FieldsJoin DEF E
  <2>5. out' = Fields(pre) \o Fields(E)
    BY <1>5, <1>8, <2>3, Zenon
  <2>6. out' = Fields(whole'.rows)
    <3>1. whole'.rows = Joined(pre, E, base)
      BY <1>7, <1>14, <2>2 DEF E
    <3> QED BY <2>4, <2>5, <3>1, Zenon
  <2>7. whole' = ParseAll(input'.source) /\ window'.tasks = <<>>
    BY <1>7, <1>14 DEF W
  <2>8. eof'
    BY <1>13, <1>15, Zenon
  <2> QED BY <2>6, <2>7, <2>8, Zenon DEF OneWorker
<1>16. CASE ~x
  <2> HIDE DEF r
  <2>1. in # <<>>
    BY <1>4, <1>16
  <2>2. base < past
    <3>1. CASE base = past
      <4> HIDE DEF base, past, in, W
      <4>1. base \in 0..Len(W)
        BY <1>3, <1>4, <3>1
      <4>2. Cut(W, base, base) = <<>>
        BY <1>3, <4>1, CutNone
      <4> QED BY <1>4, <2>1, <3>1, <4>2
    <3> HIDE DEF base, past
    <3> QED BY <1>3, <1>4, <3>1
  <2>3. ~empty /\ ended = v
    BY <1>16, <2>1, Zenon
  <2>4. scan => past >= input.head
    BY <1>10, <1>16, Zenon
  <2>5. MarkFits(W, input.head)
    OBVIOUS
  <2>6. serial' = [initial |-> Carried(v.dfa), bomScanned |-> TRUE,
                   utf8Bom |-> IF serial.bomScanned THEN serial.utf8Bom ELSE Flag(in, 0) = "bom"]
    BY <1>5, <2>3, Zenon
  <2> DEFINE n == input.head
  <2>7. n \in Nat /\ MarkFits(W, n) /\ (scan => past >= n)
    BY <1>3, <2>4, <2>5
  <2> HIDE DEF base, past, in, W, d, scan, n, empty
  <2>8. /\ Resumes(W, base + v.rowStart, Carried(v.dfa), No, Joined(pre, v.rows, base))
        /\ IsSeq(v.rows)
    BY <1>8, <1>11, <1>12, <2>2, <2>7, WindowGoesOn
  <2>9. /\ in \in Seq(Sym) /\ Len(in) = past - base
    BY <1>11, CutBytes
  <2>10. Good(in, v)
    <3>1. base < past \/ base = Len(W)
      BY <2>2
    <3>2. Track(W, base, past, in, pre, scan, v)
      BY <1>8, <1>11, <1>12, <3>1, WindowTracks
    <3> QED BY <3>2, Zenon DEF Track
  <2> HIDE DEF v
  <2>11. v.rowStart \in 0..(past - base)
    BY <2>9, <2>10, FirstRow
  <2>12. Finished(input, base, past, in, v.rowStart, x, p, h)
    BY <1>5, Zenon DEF Finish, Finished, kind
  <2>13. ShortFits(input, past, sh)
    <3>1. sh = r.short
      BY <1>5
    <3> HIDE DEF sh
    <3> QED BY <1>4, <3>1, Zenon DEF ShortFits, W
  <2>14. RestartOf(input, p, h) = base + v.rowStart
    <3> HIDE DEF x, p, h, sh
    <3>1. Finished(input, base, past, Cut(input.source, base, past), v.rowStart, x, p, h)
      BY <2>12, <1>4 DEF W
    <3>2. base \in Nat /\ past \in base..Len(input.source)
      BY <1>4 DEF W
    <3> DEFINE k == v.rowStart
    <3>3. FinishedAt(input, base, past, k, x, p, h, sh)
      BY <1>1, <2>11, <2>13, <3>1, <3>2, Zenon DEF FinishedAt
    <3> HIDE DEF k
    <3>4. ~x => RestartOf(input, p, h) = base + k
      BY <3>3, FinishIs
    <3> QED BY <1>16, <3>4, Zenon DEF k
  <2> DEFINE Q == Joined(pre, v.rows, base)
  <2>15. IsSeq(Q)
    BY <1>8, <2>8, JoinedIs
  <2>16. out' = Fields(Q)
    <3>1. Fields(Joined(pre, v.rows, base)) = Fields(pre) \o Fields(v.rows)
      BY <1>8, <2>8, FieldsJoin
    <3> QED BY <1>5, <1>8, <2>3, <3>1, Zenon
  <2> DEFINE y == Carried(v.dfa)
             c == IF serial.bomScanned THEN serial.utf8Bom ELSE Flag(in, 0) = "bom"
             t == TRUE
  <2>17. serial'.initial = y /\ serial'.bomScanned = t
    <3>1. serial' = [initial |-> y, bomScanned |-> t, utf8Bom |-> c]
      BY <2>6, Zenon
    <3> HIDE DEF y, c, t
    <3> QED BY <3>1
  <2>18. serial'.bomScanned /\ (No <=> ~serial'.bomScanned)
    BY <2>17, TruthValues, Zenon
  <2> HIDE DEF Q, y
  <2>19. Resumes(W, RestartOf(input, p, h), serial'.initial, No, Q)
    BY <2>8, <2>14, <2>17 DEF Q, y
  <2>20. Resumes(W, RestartOf(input, p, h), serial'.initial, ~serial'.bomScanned, Q)
    <3> DEFINE z == ~serial'.bomScanned  o == RestartOf(input, p, h)  e == serial'.initial
    <3>1. (No <=> z) /\ Resumes(W, o, e, No, Q)
      BY <2>18, <2>19, Zenon
    <3> HIDE DEF z, o, e
    <3>2. Resumes(W, o, e, z, Q)
      BY <3>1, ResumesTruth
    <3> QED BY <3>2 DEF z, o, e
  <2>21. Resumes(input'.source, RestartOf(input', p, h), serial'.initial, ~serial'.bomScanned, Q)
    BY <1>14, <2>20 DEF W
  <2>22. whole' = ParseAll(input'.source) /\ window'.tasks = <<>>
    BY <1>7, <1>14 DEF W
  <2>23. ~eof'
    BY <1>13, <1>16, Zenon
  <2> QED BY <2>15, <2>16, <2>18, <2>21, <2>22, <2>23, Zenon DEF OneWorker
<1> QED BY <1>15, <1>16

LEMMA OneWorkerStutters ==
    ASSUME OneWorker(input, whole, pos, head, short, serial, window, out, eof), UNCHANGED vars
    PROVE  OneWorker(input', whole', pos', head', short', serial', window', out', eof')
BY Zenon DEF vars

LEMMA SerialInputs ==
    ASSUME [Next]_vars
    PROVE  input' = input
BY Zenon DEF Next, vars, SerialWindow, SpeculativeWindow, ParseTask, Validate, FinishWindow, Done

LEMMA RowsSteps ==
    ASSUME RowsInv, [Next]_vars
    PROVE  RowsInv'
<1>1. SerialInv /\ SerialInv'
  BY WindowSteps DEF RowsInv
<1>2. input' = input
  BY SerialInputs
<1>3. ASSUME Serial(input)
      PROVE  OneWorker(input', whole', pos', head', short', serial', window', out', eof')
  <2>1. Cardinality(Workers) = 1 /\ MarkFits(input.source, input.head)
    BY <1>3, Zenon DEF Serial, Workers
  <2>2. OneWorker(input, whole, pos, head, short, serial, window, out, eof)
    BY <1>3, Zenon DEF RowsInv
  <2>3. window.tasks = <<>>
    BY <2>2, Zenon DEF OneWorker
  <2>4. CASE SerialWindow
    BY <1>1, <2>1, <2>2, <2>4, OneWorkerSteps
  <2>5. ~SpeculativeWindow
    <3>1. ~(Cardinality(Workers) > 1)
      BY <2>1
    <3> QED BY <3>1, Zenon DEF SpeculativeWindow, IsSpeculative
  <2>6. ~Validate /\ ~FinishWindow
    BY <2>3, Zenon DEF Validate, FinishWindow, Idle
  <2>7. DOMAIN window.tasks = {}
    BY <2>3
  <2>8. CASE UNCHANGED vars
    BY <2>2, <2>8, OneWorkerStutters
  <2>9. Done => UNCHANGED vars
    BY Zenon DEF Done
  <2>10. SerialWindow \/ UNCHANGED vars
    BY <2>5, <2>6, <2>7, <2>9, Zenon DEF Next
  <2> QED BY <2>4, <2>8, <2>10
<1>4. Serial(input') => OneWorker(input', whole', pos', head', short', serial', window', out', eof')
  BY <1>2, <1>3, Zenon
<1> QED BY <1>1, <1>4, Zenon DEF RowsInv

LEMMA RowsAgree ==
    ASSUME RowsInv, MarkFits(source, input.head)
    PROVE  SameRows
<1> SUFFICES ASSUME Cardinality(Workers) = 1
             PROVE  Agrees(out, Fields(whole.rows))
  BY Zenon DEF SameRows
<1>1. input \in Inputs
  BY DEF RowsInv, SerialInv, WindowInv, WInv
<1>2. OneWorker(input, whole, pos, head, short, serial, window, out, eof)
  BY Zenon DEF RowsInv, Serial, Workers, source
<1>3. source \in Seq(Sym) /\ whole = ParseAll(source)
  BY <1>1, <1>2, InputIs DEF OneWorker, source
<1>4. CASE eof
  <2>1. out = Fields(whole.rows)
    BY <1>2, <1>4, Zenon DEF OneWorker
  <2>2. IsPrefix(Fields(whole.rows), Fields(whole.rows))
    <3>1. Reached(source, WholeBegin(source))
      BY <1>3, BeginIsReached
    <3>2. EmittedFrom(WholeBegin(source).rows, whole.rows, WholeBegin(source).pos)
      BY <1>3, <3>1, AllEmits
    <3> QED BY <3>2, PrefixOfRows
  <2> QED BY <2>1, <2>2, Zenon DEF Agrees
<1>5. CASE ~eof
  <2>1. \E pre : /\ out = Fields(pre)
                 /\ Resumes(source, RestartOf(input, pos, head), serial.initial, ~serial.bomScanned, pre)
    BY <1>2, <1>5, Zenon DEF OneWorker, source
  <2>2. PICK pre : /\ out = Fields(pre)
                   /\ Resumes(source, RestartOf(input, pos, head), serial.initial, ~serial.bomScanned, pre)
    BY <2>1, Zenon
  <2> DEFINE z == ~serial.bomScanned  o == RestartOf(input, pos, head)  e == serial.initial
  <2> HIDE DEF z, o, e
  <2>3. Resumes(source, o, e, z, pre)
    BY <2>2 DEF z, o, e
  <2>4. IsPrefix(Fields(pre), Fields(ParseAll(source).rows))
    BY <1>3, <2>3, ResumesFrom
  <2> QED BY <1>3, <1>5, <2>2, <2>4, Zenon DEF Agrees
<1> QED BY <1>4, <1>5

(* However the source is cut into windows, a reader without parse workers  *)
(* besides its own hands over the rows of the source in one piece          *)
(* (mmap.cpp and stream.hpp next(), the incomplete record read again): any *)
(* bytes, any head and chunk size, mmap or stream.  Only a source with a   *)
(* byte order mark is asked for a first record that ends within the head.  *)
THEOREM SerialRowsAreTheSources == Spec => [](MarkFits(source, input.head) => SameRows)
<1>1. RowsInv /\ [Next]_vars => RowsInv'
  BY RowsSteps
<1>2. RowsInv => (MarkFits(source, input.head) => SameRows)
  BY RowsAgree
<1> QED BY <1>1, <1>2, InitIsOneWorker, PTL DEF Spec

-----------------------------------------------------------------------------
(* What a writer writes, and that the parser reads it back.                *)

LEMMA DoubledIs ==
    ASSUME NEW field \in Seq(Byte)
    PROVE  \E off : IsDoubled(Byte, field, Doubled(field), off)
<1>1. QuotesTwice(field) = Doubled(field)
  BY Zenon DEF QuotesTwice, Doubled
<1>2. "quote" \in Byte
  BY DEF Byte
<1>3. \E off : IsDoubled(Byte, field, QuotesTwice(field), off)
  BY <1>2, QuotesTwiceIs
<1> QED BY <1>1, <1>3

LEMMA UndoubleIs ==
    ASSUME NEW S, NEW raw \in Seq(S)
    PROVE  \E f, g : IsSecond(f, raw) /\ IsThinned(g, f, raw) /\ Undouble(raw) = g[Len(raw)]
<1> DEFINE f == CHOOSE h : h = [i \in 0..Len(raw) |->
                   /\ i > 1 /\ raw[i] = "quote" /\ raw[i - 1] = "quote" /\ ~h[i - 1]]
           g == CHOOSE h : h = [i \in 0..Len(raw) |->
                   IF i = 0 THEN <<>> ELSE IF f[i] THEN h[i - 1] ELSE Append(h[i - 1], raw[i])]
<1>1. Undouble(raw) = g[Len(raw)]
  BY DEF Undouble
<1>2. Len(raw) \in Nat
  BY LenProperties
<1>3. \E h : IsSecond(h, raw)
  BY <1>2, SecondExists
<1>4. IsSecond(f, raw)
  BY <1>3, Zenon DEF IsSecond
<1> HIDE DEF f
<1>5. \E h : IsThinned(h, f, raw)
  BY ThinnedExists
<1>6. IsThinned(g, f, raw)
  BY <1>5, Zenon DEF IsThinned
<1> HIDE DEF g
<1> QED BY <1>1, <1>4, <1>6

(* Undouble takes back what Doubled did, for any field: pairs of quotes,   *)
(* quotes at either end.                                                   *)
LEMMA Undoubled ==
    ASSUME NEW field \in Seq(Byte)
    PROVE  Undouble(Doubled(field)) = field
<1> DEFINE raw == Doubled(field)
<1>1. PICK off : IsDoubled(Byte, field, raw, off)
  BY DoubledIs
<1> HIDE DEF raw
<1>2. raw \in Seq(Byte)
  BY <1>1 DEF IsDoubled
<1>3. PICK f, g : IsSecond(f, raw) /\ IsThinned(g, f, raw) /\ Undouble(raw) = g[Len(raw)]
  BY <1>2, UndoubleIs
<1>4. g[Len(raw)] = field
  BY <1>1, <1>3, SecondsDropped
<1> QED BY <1>3, <1>4 DEF raw

(* A field without quotes is written as it is between its quotes. *)
LEMMA NothingDoubled ==
    ASSUME NEW field \in Seq(Byte), \A i \in 1..Len(field) : field[i] # "quote"
    PROVE  Doubled(field) = field
<1>1. Len(field) \in Nat /\ DOMAIN field = 1..Len(field)
  BY LenProperties
<1>2. [i \in DOMAIN field |-> IF field[i] = "quote" THEN <<"quote", "quote">> ELSE <<field[i]>>] =
        [i \in 1..Len(field) |-> <<field[i]>>]
  BY <1>1
<1>3. FlattenSeq([i \in 1..Len(field) |-> <<field[i]>>]) = field
  BY FlattenSingles
<1> QED BY <1>2, <1>3, Zenon DEF Doubled

(* The text e stands at p of W. *)
Stands(W, p, e) == p + Len(e) <= Len(W) /\ \A i \in 1..Len(e) : W[p + i] = e[i]

LEMMA RawIs ==
    ASSUME NEW W \in Seq(Sym), NEW e \in Seq(Byte), NEW r \in Nat, NEW a \in Nat, Stands(W, r + a, e)
    PROVE  Raw(W, r, a, Len(e)) = e
<1>1. Len(W) \in Nat /\ Len(e) \in Nat /\ e \in Seq(Sym)
  <2>1. Byte \subseteq Sym
    BY DEF Sym
  <2>2. \A i \in 1..Len(e) : e[i] \in Byte
    BY ElementOfSeq
  <2>3. Len(e) \in Nat /\ Len(W) \in Nat
    BY LenProperties
  <2> QED BY <2>1, <2>2, <2>3
<1> DEFINE x == r + a
           y == x + Len(e)
<1>2. x \in Nat /\ y \in Nat /\ y <= Len(W) /\ y \in x..Len(W) /\ y - x = Len(e) /\ \A i \in 1..Len(e) : W[x + i] = e[i]
  BY <1>1 DEF Stands
<1>3. a # Unset
  BY DEF Unset
<1>4. Raw(W, r, a, Len(e)) = SubSeq(W, x + 1, IF y < Len(W) THEN y ELSE Len(W))
  BY <1>3, Zenon DEF Raw
<1>5. (IF y < Len(W) THEN y ELSE Len(W)) = y
  BY <1>1, <1>2
<1> HIDE DEF x, y
<1>6. Raw(W, r, a, Len(e)) = Cut(W, x, y)
  BY <1>4, <1>5 DEF Cut
<1>7. /\ Cut(W, x, y) \in Seq(Sym) /\ Len(Cut(W, x, y)) = y - x
      /\ \A i \in 1..(y - x) : Cut(W, x, y)[i] = W[x + i]
  BY <1>2, CutFacts
<1>8. Cut(W, x, y) = e
  BY <1>1, <1>2, <1>7, SeqEqual
<1> QED BY <1>6, <1>8

(* The state after the bytes of a field, the last ones read. *)
FieldEnds(W, p, r, f, R, field, quoteless) ==
    \E a, n, b :
        /\ Reached(W, St(p, r, a, n, b, f, R, Outside))
        /\ n \in Nat /\ (b = No \/ n > 0)
        /\ Field(W, r, a, n, b) = field
        /\ a = Unset => n = 0 /\ field = <<>> /\ quoteless

(* A field without quotes around it. *)
LEMMA PlainRead ==
    ASSUME NEW W \in Seq(Sym), NEW p \in Nat, NEW r \in 0..p, NEW f, NEW R,
           NEW field \in Seq(Byte), ~NeedsQuotes(field), Stands(W, p, field),
           p + Len(field) < Len(W), W[p + Len(field) + 1] \in {"delim", "lf"},
           Reached(W, St(p, r, Unset, 0, No, f, R, Outside))
    PROVE  FieldEnds(W, p + Len(field), r, f, R, field, TRUE)
<1> DEFINE s == St(p, r, Unset, 0, No, f, R, Outside)
<1>1. Len(W) \in Nat /\ Len(field) \in Nat /\ r \in Nat /\ r <= p /\ DOMAIN field = 1..Len(field)
  BY LenProperties
<1>2. \A i \in 1..Len(field) : field[i] = "other" /\ W[p + i] = "other"
  <2> SUFFICES ASSUME NEW i \in 1..Len(field) PROVE field[i] = "other" /\ W[p + i] = "other"
    OBVIOUS
  <2>1. field[i] \in Byte /\ field[i] \notin Separators \cup {"quote"}
    BY <1>1, ElementOfSeq DEF NeedsQuotes
  <2>2. W[p + i] = field[i]
    BY DEF Stands
  <2> QED BY <2>1, <2>2 DEF Byte
<1>3. CASE field = <<>>
  <2>1. Len(field) = 0 /\ p + Len(field) = p
    BY <1>3
  <2>2. Raw(W, r, Unset, 0) = <<>>
    <3>1. Raw(W, r, Unset, 0) = SubSeq(W, (r + 0) + 1, IF (r + 0) + 0 < Len(W) THEN (r + 0) + 0 ELSE Len(W))
      BY Zenon DEF Raw
    <3>2. (r + 0) + 1 = r + 1 /\ (IF (r + 0) + 0 < Len(W) THEN (r + 0) + 0 ELSE Len(W)) = r
      BY <1>1, <2>1
    <3>3. SubSeq(W, r + 1, r) = <<>>
      <4>1. r \in 0..Len(W)
        BY <1>1, <2>1
      <4> QED BY <4>1, CutNone DEF Cut
    <3> QED BY <3>1, <3>2, <3>3
  <2>3. Field(W, r, Unset, 0, No) = <<>>
    BY <2>2, TruthValues, Zenon DEF Field
  <2>4. Reached(W, St(p + Len(field), r, Unset, 0, No, f, R, Outside))
    BY <2>1
  <2>5. 0 \in Nat
    OBVIOUS
  <2> QED BY <1>3, <2>3, <2>4, <2>5, Zenon DEF FieldEnds
<1>4. CASE field # <<>>
  <2> DEFINE e == p + Len(field)
  <2>1. Len(field) > 0 /\ e \in Nat /\ e > p /\ e < Len(W) /\ e \in p..Len(W) /\ p \in 0..Len(W) /\ p < Len(W)
    BY <1>1, <1>4, EmptySeq
  <2>2. \A i \in p..(e - 1) : IsContent(W, i, No)
    <3> SUFFICES ASSUME NEW i \in p..(e - 1) PROVE IsContent(W, i, No)
      OBVIOUS
    <3>1. i \in Nat /\ i < Len(W) /\ i + 1 - p \in 1..Len(field) /\ p + (i + 1 - p) = i + 1
      BY <1>1, <2>1
    <3>2. W[i + 1] = "other"
      BY <1>2, <3>1
    <3>3. W[i + 1] \in {"other", "bom"}
      BY <3>2
    <3> QED BY <3>1, <3>3, TruthValues, Zenon DEF IsContent
  <2>3. ~IsContent(W, e, No)
    <3>1. W[e + 1] \notin {"other", "bom"}
      OBVIOUS
    <3> QED BY <3>1, TruthValues, Zenon DEF IsContent
  <2> HIDE DEF e
  <2>4. RunEnd(W, p, No) = e
    BY <1>1, <2>1, <2>2, <2>3, RunEndIsFirst
  <2>5. IsContent(W, p, No)
    <3>1. p \in p..(e - 1)
      BY <2>1
    <3> QED BY <2>2, <3>1
  <2> DEFINE t == St(e, r, p - r, e - p, No, f, R, Outside)
  <2>6. s.pos = p /\ s.rowStart = r /\ s.fieldStart = Unset /\ s.doubled = No /\ s.fields = f /\ s.rows = R
        /\ s.dfa = Outside
    BY StMembers
  <2>7. s.dfa.quoted = No
    BY <2>6, OutsideIs, DfaMembers
  <2> HIDE DEF s
  <2>8. Start(s) = p - r /\ e - ((p - r) + r) = e - p
    BY <1>1, <2>1, <2>6 DEF Start
  <2>9. ContentTurn(W, s, t)
    BY <2>4, <2>5, <2>6, <2>7, <2>8, Zenon DEF ContentTurn, t
  <2>10. AnyTurn(W, s, t)
    BY <2>9 DEF AnyTurn
  <2>11. Reached(W, s)
    BY DEF s
  <2>12. ~Stopped(W, s)
    <3>1. ~s.dfa.pendingQuote
      <4>1. s.dfa.pendingQuote = No
        BY <2>6, OutsideIs, DfaMembers
      <4> QED BY <4>1, TruthValues, Zenon
    <3>2. ~(s.pos >= Len(W))
      BY <1>1, <2>1, <2>6
    <3> QED BY <3>1, <3>2, Zenon DEF Stopped
  <2>13. Reached(W, t)
    BY <2>10, <2>11, <2>12, ReachedSteps
  <2>14. e - p = Len(field) /\ p - r \in Nat /\ r + (p - r) = p /\ e - p \in Nat
    BY <1>1, <2>1 DEF e
  <2>15. Raw(W, r, p - r, Len(field)) = field
    BY <1>1, <2>14, RawIs
  <2>16. Field(W, r, p - r, e - p, No) = field
    BY <2>14, <2>15, TruthValues, Zenon DEF Field
  <2>17. p - r # Unset
    BY <2>14 DEF Unset
  <2>18. FieldEnds(W, e, r, f, R, field, TRUE)
    BY <2>13, <2>14, <2>16, <2>17, Zenon DEF FieldEnds, t
  <2> QED BY <2>18 DEF e
<1> QED BY <1>3, <1>4

-----------------------------------------------------------------------------
(* Between quotes. *)
Seen(field, j) == IF \E i \in 1..j : field[i] = "quote" THEN Yes ELSE No

(* The state after the first j bytes of a field between quotes. *)
Between(x, off, j, r, f, R, field) ==
    St(x + off[j], r, x - r, off[j], Seen(field, j), f, R, Dfa(Yes, No, No))

QuotedAt(W, x, r, field, raw, off) ==
    /\ W \in Seq(Sym) /\ field \in Seq(Byte) /\ x \in Nat /\ r \in Nat /\ r < x
    /\ IsDoubled(Byte, field, raw, off)
    /\ Stands(W, x, raw)
    /\ x + Len(raw) + 1 < Len(W)
    /\ W[x + Len(raw) + 1] = "quote"
    /\ W[x + Len(raw) + 2] \in {"delim", "lf"}

(* What stands at each place. *)
LEMMA QuotedBytes ==
    ASSUME NEW W, NEW x, NEW r, NEW field, NEW raw, NEW off, QuotedAt(W, x, r, field, raw, off)
    PROVE  /\ Len(W) \in Nat /\ Len(field) \in Nat /\ Len(raw) \in Nat /\ x \in Nat /\ r \in Nat /\ r < x
           /\ off[0] = 0 /\ off[Len(field)] = Len(raw)
           /\ \A j \in 0..Len(field) : off[j] \in Nat /\ x + off[j] + 1 < Len(W)
           /\ \A j \in 1..Len(field) :
                 IF field[j] = "quote"
                 THEN /\ off[j] = off[j - 1] + 2
                      /\ W[x + off[j - 1] + 1] = "quote" /\ W[x + off[j - 1] + 2] = "quote"
                 ELSE /\ off[j] = off[j - 1] + 1
                      /\ W[x + off[j - 1] + 1] # "quote"
<1>1. /\ W \in Seq(Sym) /\ field \in Seq(Byte) /\ x \in Nat /\ r \in Nat /\ r < x
      /\ IsDoubled(Byte, field, raw, off)
      /\ Stands(W, x, raw)
      /\ x + Len(raw) + 1 < Len(W)
  BY Zenon DEF QuotedAt
<1>2. /\ Len(field) \in Nat /\ Len(raw) \in Nat
      /\ \A j \in 0..Len(field) : off[j] \in Nat /\ off[j] <= Len(raw) /\ j <= off[j]
      /\ \A j \in 1..Len(field) : off[j - 1] \in Nat /\ off[j - 1] + 1 <= off[j]
  BY <1>1, OffsetsGrow
<1>3. Len(W) \in Nat
  BY <1>1, LenProperties
<1>4. off[0] = 0 /\ off[Len(field)] = Len(raw)
      /\ \A j \in 1..Len(field) :
            IF field[j] = "quote"
            THEN /\ off[j] = off[j - 1] + 2
                 /\ raw[off[j - 1] + 1] = "quote" /\ raw[off[j - 1] + 2] = "quote"
            ELSE /\ off[j] = off[j - 1] + 1
                 /\ raw[off[j - 1] + 1] = field[j]
  BY <1>1, Zenon DEF IsDoubled
<1>5. \A i \in 1..Len(raw) : W[x + i] = raw[i]
  BY <1>1, Zenon DEF Stands
<1>6. ASSUME NEW j \in 0..Len(field) PROVE off[j] \in Nat /\ x + off[j] + 1 < Len(W)
  <2>1. off[j] \in Nat /\ off[j] <= Len(raw)
    BY <1>2
  <2> QED BY <1>1, <1>2, <1>3, <2>1
<1>7. ASSUME NEW j \in 1..Len(field)
      PROVE  IF field[j] = "quote"
             THEN /\ off[j] = off[j - 1] + 2
                  /\ W[x + off[j - 1] + 1] = "quote" /\ W[x + off[j - 1] + 2] = "quote"
             ELSE /\ off[j] = off[j - 1] + 1
                  /\ W[x + off[j - 1] + 1] # "quote"
  <2> DEFINE o == off[j - 1]
  <2>1. o \in Nat /\ off[j] \in Nat /\ off[j] <= Len(raw)
    <3>1. j \in 0..Len(field)
      BY <1>2
    <3> QED BY <1>2, <3>1
  <2>2. /\ field[j] = "quote" => off[j] = o + 2 /\ raw[o + 1] = "quote" /\ raw[o + 2] = "quote"
        /\ field[j] # "quote" => off[j] = o + 1 /\ raw[o + 1] # "quote"
    BY <1>4
  <2> HIDE DEF o
  <2>3. CASE field[j] = "quote"
    <3>1. o + 1 \in 1..Len(raw) /\ o + 2 \in 1..Len(raw) /\ x + (o + 1) = x + o + 1 /\ x + (o + 2) = x + o + 2
      BY <1>1, <1>2, <2>1, <2>2, <2>3
    <3> QED BY <1>5, <2>2, <2>3, <3>1 DEF o
  <2>4. CASE field[j] # "quote"
    <3>1. o + 1 \in 1..Len(raw) /\ x + (o + 1) = x + o + 1
      BY <1>1, <1>2, <2>1, <2>2, <2>4
    <3> QED BY <1>5, <2>2, <2>4, <3>1 DEF o
  <2> QED BY <2>3, <2>4
<1> QED BY <1>1, <1>2, <1>3, <1>4, <1>6, <1>7

LEMMA BetweenIs ==
    ASSUME NEW W, NEW x, NEW r, NEW field, NEW raw, NEW off, QuotedAt(W, x, r, field, raw, off),
           NEW f, NEW R, NEW j \in 0..Len(field)
    PROVE  LET s == Between(x, off, j, r, f, R, field)
           IN  /\ s.pos = x + off[j] /\ s.rowStart = r /\ s.fieldStart = x - r /\ s.fieldLength = off[j]
               /\ s.doubled = Seen(field, j) /\ s.fields = f /\ s.rows = R /\ s.dfa = Dfa(Yes, No, No)
               /\ s.dfa.quoted = Yes /\ s.dfa.pendingQuote = No /\ s.dfa.pendingLinefeed = No
               /\ s.dfa.quoted
               /\ ~Stopped(W, s)
               /\ x - r \in Nat /\ x - r # Unset
<1> DEFINE s == Between(x, off, j, r, f, R, field)
<1>1. /\ s.pos = x + off[j] /\ s.rowStart = r /\ s.fieldStart = x - r /\ s.fieldLength = off[j]
      /\ s.doubled = Seen(field, j) /\ s.fields = f /\ s.rows = R /\ s.dfa = Dfa(Yes, No, No)
  BY StMembers DEF Between
<1>2. s.dfa.quoted = Yes /\ s.dfa.pendingQuote = No /\ s.dfa.pendingLinefeed = No
  BY <1>1, DfaMembers
<1>3. s.dfa.quoted /\ ~s.dfa.pendingQuote
  BY <1>2, TruthValues, Zenon
<1>4. Len(W) \in Nat /\ x \in Nat /\ r \in Nat /\ r < x /\ off[j] \in Nat /\ x + off[j] + 1 < Len(W)
  BY QuotedBytes
<1> HIDE DEF s
<1>5. ~(s.pos >= Len(W))
  BY <1>1, <1>4
<1>6. ~Stopped(W, s)
  BY <1>3, <1>5, Zenon DEF Stopped
<1>7. x - r \in Nat /\ x - r # Unset
  BY <1>4 DEF Unset
<1> QED BY <1>1, <1>2, <1>3, <1>6, <1>7 DEF s

LEMMA SeenIs ==
    ASSUME NEW field, NEW j \in Nat
    PROVE  /\ Seen(field, 0) = No
           /\ Seen(field, j) \in {Yes, No}
           /\ Seen(field, j) = No => \A i \in 1..j : field[i] # "quote"
           /\ field[j + 1] = "quote" => Seen(field, j + 1) = Yes
           /\ \A m \in Nat : j <= m /\ (\A i \in (j + 1)..m : field[i] # "quote") => Seen(field, m) = Seen(field, j)
<1>1. Seen(field, 0) = No
  <2>1. ~\E i \in 1..0 : field[i] = "quote"
    OBVIOUS
  <2> QED BY <2>1, Zenon DEF Seen
<1>2. Seen(field, j) \in {Yes, No}
  BY Zenon DEF Seen
<1>3. Seen(field, j) = No => \A i \in 1..j : field[i] # "quote"
  BY YesIsNotNo, Zenon DEF Seen
<1>4. field[j + 1] = "quote" => Seen(field, j + 1) = Yes
  <2>1. j + 1 \in 1..(j + 1)
    OBVIOUS
  <2> QED BY <2>1, Zenon DEF Seen
<1>5. ASSUME NEW m \in Nat, j <= m, \A i \in (j + 1)..m : field[i] # "quote"
      PROVE  Seen(field, m) = Seen(field, j)
  <2>1. (\E i \in 1..m : field[i] = "quote") <=> (\E i \in 1..j : field[i] = "quote")
    <3>1. \A i \in 1..m : i \in 1..j \/ i \in (j + 1)..m
      OBVIOUS
    <3>2. \A i \in 1..j : i \in 1..m
      BY <1>5
    <3> QED BY <1>5, <3>1, <3>2, Zenon
  <2> QED BY <2>1, Zenon DEF Seen
<1> QED BY <1>1, <1>2, <1>3, <1>4, <1>5

(* A doubled quote. *)
LEMMA BetweenDoubles ==
    ASSUME NEW W, NEW x, NEW r, NEW field, NEW raw, NEW off, QuotedAt(W, x, r, field, raw, off),
           NEW f, NEW R, NEW j \in Nat, j < Len(field), field[j + 1] = "quote",
           Reached(W, Between(x, off, j, r, f, R, field))
    PROVE  Reached(W, Between(x, off, j + 1, r, f, R, field))
<1> DEFINE s == Between(x, off, j, r, f, R, field)
           t == Between(x, off, j + 1, r, f, R, field)
<1>1. /\ Len(W) \in Nat /\ Len(field) \in Nat /\ x \in Nat
      /\ \A i \in 0..Len(field) : off[i] \in Nat /\ x + off[i] + 1 < Len(W)
      /\ \A i \in 1..Len(field) :
            IF field[i] = "quote"
            THEN /\ off[i] = off[i - 1] + 2
                 /\ W[x + off[i - 1] + 1] = "quote" /\ W[x + off[i - 1] + 2] = "quote"
            ELSE /\ off[i] = off[i - 1] + 1
                 /\ W[x + off[i - 1] + 1] # "quote"
  BY QuotedBytes
<1>2. j + 1 \in 1..Len(field) /\ (j + 1) - 1 = j /\ j \in 0..Len(field) /\ j + 1 \in 0..Len(field)
  BY <1>1
<1>3. /\ off[j + 1] = off[j] + 2 /\ W[x + off[j] + 1] = "quote" /\ W[x + off[j] + 2] = "quote"
      /\ off[j] \in Nat /\ x + off[j + 1] + 1 < Len(W)
  BY <1>1, <1>2
<1>4. /\ s.pos = x + off[j] /\ s.rowStart = r /\ s.fieldStart = x - r /\ s.fieldLength = off[j]
      /\ s.fields = f /\ s.rows = R /\ s.dfa = Dfa(Yes, No, No)
      /\ s.dfa.quoted
      /\ ~Stopped(W, s)
  BY <1>2, BetweenIs
<1>5. Flag(W, s.pos) = "quote" /\ Flag(W, s.pos + 1) = "quote"
  <2> DEFINE o == off[j]
  <2>1. o \in Nat /\ W[x + o + 1] = "quote" /\ W[x + o + 2] = "quote" /\ x + (o + 2) + 1 < Len(W)
    BY <1>3
  <2> HIDE DEF o
  <2>2. x + o < Len(W) /\ (x + o) + 1 < Len(W) /\ ((x + o) + 1) + 1 = x + o + 2
    BY <1>1, <2>1
  <2>3. Flag(W, x + o) = "quote" /\ Flag(W, (x + o) + 1) = "quote"
    BY <2>1, <2>2 DEF Flag
  <2> QED BY <1>4, <2>3 DEF o
<1>6. t = St(s.pos + 2, s.rowStart, s.fieldStart, s.fieldLength + 2, Yes, s.fields, s.rows, s.dfa)
  <2>1. Seen(field, j + 1) = Yes
    BY SeenIs
  <2>2. x + off[j + 1] = s.pos + 2 /\ off[j + 1] = s.fieldLength + 2
    BY <1>1, <1>3, <1>4
  <2> HIDE DEF s
  <2> QED BY <1>4, <2>1, <2>2 DEF Between
<1> HIDE DEF s, t
<1>7. AnyTurn(W, s, t)
  BY <1>4, <1>5, <1>6, Zenon DEF DoubleTurn, AnyTurn
<1>8. Reached(W, t)
  BY <1>4, <1>7, ReachedSteps DEF s, QuotedAt
<1> QED BY <1>8 DEF t

(* A run of other bytes. *)
LEMMA BetweenRuns ==
    ASSUME NEW W, NEW x, NEW r, NEW field, NEW raw, NEW off, QuotedAt(W, x, r, field, raw, off),
           NEW f, NEW R, NEW j \in Nat, j < Len(field), field[j + 1] # "quote",
           Reached(W, Between(x, off, j, r, f, R, field))
    PROVE  \E m \in (j + 1)..Len(field) : Reached(W, Between(x, off, m, r, f, R, field))
<1> DEFINE s == Between(x, off, j, r, f, R, field)
           T == {k \in Nat : k > j /\ (k = Len(field) \/ field[k + 1] = "quote")}
<1>1. /\ Len(W) \in Nat /\ Len(field) \in Nat /\ x \in Nat /\ r \in Nat /\ r < x
      /\ off[Len(field)] = Len(raw)
      /\ \A i \in 0..Len(field) : off[i] \in Nat /\ x + off[i] + 1 < Len(W)
      /\ \A i \in 1..Len(field) :
            IF field[i] = "quote"
            THEN /\ off[i] = off[i - 1] + 2
                 /\ W[x + off[i - 1] + 1] = "quote" /\ W[x + off[i - 1] + 2] = "quote"
            ELSE /\ off[i] = off[i - 1] + 1
                 /\ W[x + off[i - 1] + 1] # "quote"
  BY QuotedBytes
<1>2. Len(field) \in T
  BY <1>1
<1>3. PICK m \in T : \A k \in T : m <= k
  BY <1>2, LeastNumber
<1>4. m \in Nat /\ m > j /\ m <= Len(field) /\ (m = Len(field) \/ field[m + 1] = "quote")
  BY <1>2, <1>3
<1>5. \A i \in (j + 1)..m : field[i] # "quote"
  <2> SUFFICES ASSUME NEW i \in (j + 1)..m, field[i] = "quote" PROVE FALSE
    OBVIOUS
  <2>1. i # j + 1 /\ i - 1 \in Nat /\ i - 1 > j /\ (i - 1) + 1 = i /\ i - 1 < m
    BY <1>4
  <2>2. i - 1 \in T
    BY <2>1
  <2> HIDE DEF T
  <2>3. m <= i - 1
    BY <1>3, <2>2
  <2> QED BY <1>4, <2>1, <2>3
<1> HIDE DEF T
<1> DEFINE o == off[j]
           K == {d \in Nat : j + d <= m => off[j + d] = o + d}
<1>6. o \in Nat /\ j \in 0..Len(field) /\ m \in 0..Len(field)
  BY <1>1, <1>4
<1>7. 0 \in K
  BY <1>6
<1>8. ASSUME NEW d \in Nat, d \in K PROVE d + 1 \in K
  <2> SUFFICES ASSUME j + (d + 1) <= m PROVE off[j + (d + 1)] = o + (d + 1)
    OBVIOUS
  <2>1. j + (d + 1) \in 1..Len(field) /\ (j + (d + 1)) - 1 = j + d /\ j + (d + 1) \in (j + 1)..m /\ j + d <= m
    BY <1>1, <1>4
  <2>2. off[j + d] = o + d /\ off[j + (d + 1)] = off[j + d] + 1
    BY <1>1, <1>5, <1>8, <2>1
  <2> QED BY <1>6, <2>2
<1> HIDE DEF K
<1>9. \A d \in Nat : j + d <= m => off[j + d] = o + d
  <2>1. Nat \subseteq K
    BY <1>7, <1>8, Induction
  <2> QED BY <2>1 DEF K
<1> DEFINE e == x + off[m]
<1>10. off[m] = o + (m - j)
  <2>1. m - j \in Nat /\ j + (m - j) = m
    BY <1>4
  <2> QED BY <1>9, <2>1
<1> HIDE DEF o
<1>11. \A i \in (x + o)..(e - 1) : IsContent(W, i, Yes)
  <2> SUFFICES ASSUME NEW i \in (x + o)..(e - 1) PROVE IsContent(W, i, Yes)
    OBVIOUS
  <2> DEFINE d == i - (x + o)
  <2>1. d \in Nat /\ j + d <= m /\ j + (d + 1) \in 1..Len(field) /\ (j + (d + 1)) - 1 = j + d
        /\ j + (d + 1) \in (j + 1)..m /\ i = x + (o + d) /\ i \in Nat
    <3>1. x \in Nat /\ o \in Nat /\ j \in Nat /\ m \in Nat /\ j < m /\ m <= Len(field) /\ Len(field) \in Nat
      BY <1>1, <1>4, <1>6
    <3> DEFINE z == off[m]
    <3>2. z = o + (m - j)
      BY <1>10
    <3>3. i \in (x + o)..((x + z) - 1)
      BY Zenon
    <3> HIDE DEF z
    <3> QED BY <3>1, <3>2, <3>3
  <2> HIDE DEF d
  <2>2. off[j + d] = o + d /\ W[x + off[j + d] + 1] # "quote"
    BY <1>1, <1>5, <1>9, <2>1
  <2>3. W[i + 1] # "quote"
    BY <2>1, <2>2
  <2>4. i < Len(W)
    <3>1. x + off[j + d] + 1 < Len(W)
      <4>1. j + d \in 0..Len(field)
        BY <1>4, <2>1
      <4> QED BY <1>1, <4>1
    <3> QED BY <1>1, <1>6, <2>1, <2>2, <3>1
  <2> QED BY <2>3, <2>4, TruthValues, Zenon DEF IsContent
<1>12. e \in Nat /\ e < Len(W) /\ e \in (x + o)..Len(W) /\ x + o \in 0..Len(W) /\ x + o < e /\ x + o \in Nat
  <2>1. off[m] \in Nat /\ x + off[m] + 1 < Len(W)
    BY <1>1, <1>6
  <2>2. x \in Nat /\ o \in Nat /\ j \in Nat /\ m \in Nat /\ j < m /\ Len(W) \in Nat
    BY <1>1, <1>4, <1>6
  <2> DEFINE z == off[m]
  <2>3. z = o + (m - j) /\ z \in Nat /\ x + z + 1 < Len(W)
    BY <1>10, <2>1
  <2> HIDE DEF z
  <2>4. x + z \in Nat /\ x + z < Len(W) /\ x + z \in (x + o)..Len(W) /\ x + o \in 0..Len(W) /\ x + o < x + z /\ x + o \in Nat
    BY <2>2, <2>3
  <2> QED BY <2>4 DEF z
<1>13. W[e + 1] = "quote"
  <2>1. CASE m = Len(field)
    <3>1. e + 1 = x + Len(raw) + 1
      BY <1>1, <2>1
    <3> QED BY <3>1, Zenon DEF QuotedAt
  <2>2. CASE m # Len(field)
    <3>1. m + 1 \in 1..Len(field) /\ (m + 1) - 1 = m /\ field[m + 1] = "quote"
      BY <1>1, <1>4, <2>2
    <3> QED BY <1>1, <3>1
  <2> QED BY <2>1, <2>2
<1>14. ~IsContent(W, e, Yes)
  BY <1>13, TruthValues, Zenon DEF IsContent
<1> HIDE DEF o, e
<1>15. RunEnd(W, x + o, Yes) = e
  BY <1>1, <1>11, <1>12, <1>14, RunEndIsFirst
<1>16. IsContent(W, x + o, Yes)
  <2>1. x + o \in (x + o)..(e - 1)
    BY <1>12
  <2> QED BY <1>11, <2>1
<1> DEFINE t == Between(x, off, m, r, f, R, field)
<1>17. /\ s.pos = x + o /\ s.rowStart = r /\ s.fieldStart = x - r
       /\ s.doubled = Seen(field, j) /\ s.fields = f /\ s.rows = R /\ s.dfa = Dfa(Yes, No, No)
       /\ s.dfa.quoted = Yes
       /\ ~Stopped(W, s)
       /\ x - r \in Nat /\ x - r # Unset
  BY <1>6, BetweenIs DEF o
<1> HIDE DEF s
<1>18. Start(s) = x - r
  BY <1>17, Zenon DEF Start
<1>19. e - ((x - r) + r) = off[m]
  <2>1. off[m] \in Nat
    BY <1>1, <1>6
  <2> QED BY <1>1, <2>1 DEF e
<1>20. Seen(field, m) = Seen(field, j)
  BY <1>4, <1>5, SeenIs
<1>21. t = St(e, s.rowStart, Start(s), e - (Start(s) + s.rowStart), s.doubled, s.fields, s.rows, s.dfa)
  BY <1>17, <1>18, <1>19, <1>20 DEF Between, e
<1> HIDE DEF t
<1>22. ContentTurn(W, s, t)
  <2>1. RunEnd(W, s.pos, s.dfa.quoted) = e /\ IsContent(W, s.pos, s.dfa.quoted)
    BY <1>15, <1>16, <1>17
  <2> QED BY <1>21, <2>1, Zenon DEF ContentTurn
<1>23. AnyTurn(W, s, t)
  BY <1>22 DEF AnyTurn
<1>24. Reached(W, t)
  BY <1>17, <1>23, ReachedSteps DEF s, QuotedAt
<1>25. m \in (j + 1)..Len(field)
  BY <1>1, <1>4
<1> QED BY <1>24, <1>25 DEF t

(* So the last byte of the field is reached. *)
LEMMA BetweenEnds ==
    ASSUME NEW W, NEW x, NEW r, NEW field, NEW raw, NEW off, QuotedAt(W, x, r, field, raw, off),
           NEW f, NEW R, Reached(W, Between(x, off, 0, r, f, R, field))
    PROVE  Reached(W, Between(x, off, Len(field), r, f, R, field))
<1> DEFINE T == {j \in Nat : j <= Len(field) =>
                    \E m \in j..Len(field) : Reached(W, Between(x, off, m, r, f, R, field))}
<1>1. Len(field) \in Nat
  BY QuotedBytes
<1>2. 0 \in T
  <2>1. 0 \in 0..Len(field)
    BY <1>1
  <2> QED BY <2>1
<1>3. ASSUME NEW j \in Nat, j \in T PROVE j + 1 \in T
  <2> SUFFICES ASSUME j + 1 <= Len(field)
               PROVE  \E m \in (j + 1)..Len(field) : Reached(W, Between(x, off, m, r, f, R, field))
    OBVIOUS
  <2>1. PICK m \in j..Len(field) : Reached(W, Between(x, off, m, r, f, R, field))
    BY <1>1, <1>3
  <2>2. CASE m # j
    <3>1. m \in (j + 1)..Len(field)
      BY <1>1, <2>2
    <3> QED BY <2>1, <3>1
  <2>3. CASE m = j
    <3>1. Reached(W, Between(x, off, j, r, f, R, field)) /\ j < Len(field)
      BY <1>1, <2>1, <2>3
    <3>2. CASE field[j + 1] = "quote"
      <4>1. Reached(W, Between(x, off, j + 1, r, f, R, field))
        BY <3>1, <3>2, BetweenDoubles
      <4>2. j + 1 \in (j + 1)..Len(field)
        BY <1>1
      <4> QED BY <4>1, <4>2
    <3>3. CASE field[j + 1] # "quote"
      BY <3>1, <3>3, BetweenRuns
    <3> QED BY <3>2, <3>3
  <2> QED BY <2>2, <2>3
<1> HIDE DEF T
<1>4. Len(field) \in T
  BY <1>1, <1>2, <1>3, Induction
<1>5. PICK m \in Len(field)..Len(field) : Reached(W, Between(x, off, m, r, f, R, field))
  BY <1>1, <1>4 DEF T
<1>6. m = Len(field)
  BY <1>1, <1>5
<1> QED BY <1>5, <1>6

(* Outside quotes the loop goes on while there are bytes. *)
LEMMA OutsideGoesOn ==
    ASSUME NEW W, Len(W) \in Nat, NEW q \in Nat, q < Len(W), NEW r, NEW a, NEW n, NEW b, NEW f, NEW R
    PROVE  LET s == St(q, r, a, n, b, f, R, Outside)
           IN  /\ s.pos = q /\ s.rowStart = r /\ s.fieldStart = a /\ s.fieldLength = n /\ s.doubled = b
               /\ s.fields = f /\ s.rows = R /\ s.dfa = Outside
               /\ s.dfa.quoted = No /\ s.dfa.pendingQuote = No /\ s.dfa.pendingLinefeed = No
               /\ ~s.dfa.quoted /\ ~Stopped(W, s)
<1> DEFINE s == St(q, r, a, n, b, f, R, Outside)
<1>1. /\ s.pos = q /\ s.rowStart = r /\ s.fieldStart = a /\ s.fieldLength = n /\ s.doubled = b
      /\ s.fields = f /\ s.rows = R /\ s.dfa = Outside
  BY StMembers
<1>2. s.dfa.quoted = No /\ s.dfa.pendingQuote = No /\ s.dfa.pendingLinefeed = No
  BY <1>1, OutsideIs, DfaMembers
<1>3. ~s.dfa.quoted /\ ~s.dfa.pendingQuote
  BY <1>2, TruthValues, Zenon
<1> HIDE DEF s
<1>4. ~(s.pos >= Len(W))
  BY <1>1
<1>5. ~Stopped(W, s)
  BY <1>3, <1>4, Zenon DEF Stopped
<1> QED BY <1>1, <1>2, <1>3, <1>5 DEF s

LEMMA DelimiterRead ==
    ASSUME NEW W \in Seq(Sym), NEW q \in Nat, q < Len(W), W[q + 1] = "delim",
           NEW r, NEW a, NEW n, NEW b, NEW f, NEW R, Reached(W, St(q, r, a, n, b, f, R, Outside))
    PROVE  Reached(W, St(q + 1, r, Unset, 0, No, Append(f, Field(W, r, a, n, b)), R, Outside))
<1> DEFINE s == St(q, r, a, n, b, f, R, Outside)
           t == St(q + 1, r, Unset, 0, No, Append(f, Field(W, r, a, n, b)), R, Outside)
<1>1. Len(W) \in Nat
  BY LenProperties
<1>2. /\ s.pos = q /\ s.rowStart = r /\ s.fieldStart = a /\ s.fieldLength = n /\ s.doubled = b
      /\ s.fields = f /\ s.rows = R /\ s.dfa = Outside /\ ~s.dfa.quoted /\ ~Stopped(W, s)
  BY <1>1, OutsideGoesOn
<1>3. Flag(W, q) = "delim"
  BY DEF Flag
<1>4. Reached(W, s)
  OBVIOUS
<1> HIDE DEF s
<1>5. TheField(W, s) = Field(W, r, a, n, b)
  BY <1>2, Zenon DEF TheField
<1>6. DelimTurn(W, s, t)
  BY <1>2, <1>3, <1>5, Zenon DEF DelimTurn
<1>7. AnyTurn(W, s, t)
  BY <1>6 DEF AnyTurn
<1> HIDE DEF t
<1>8. Reached(W, t)
  BY <1>2, <1>4, <1>7, ReachedSteps
<1> QED BY <1>8 DEF t

LEMMA NewlineRead ==
    ASSUME NEW W \in Seq(Sym), NEW q \in Nat, q < Len(W), W[q + 1] = "lf",
           NEW r, NEW a, NEW n, NEW b, NEW f, NEW R, Reached(W, St(q, r, a, n, b, f, R, Outside))
    PROVE  Reached(W, Fresh(q + 1, Append(R, Row(RowFields(W, r, a, n, b, f), r, q)), Outside))
<1> DEFINE s == St(q, r, a, n, b, f, R, Outside)
           row == Row(RowFields(W, r, a, n, b, f), r, q)
           t == St(q + 1, q + 1, Unset, 0, No, <<>>, Append(R, row), Outside)
<1>1. Len(W) \in Nat
  BY LenProperties
<1>2. /\ s.pos = q /\ s.rowStart = r /\ s.fieldStart = a /\ s.fieldLength = n /\ s.doubled = b
      /\ s.fields = f /\ s.rows = R /\ s.dfa = Outside /\ ~s.dfa.quoted /\ ~Stopped(W, s)
      /\ s.dfa.quoted = No /\ s.dfa.pendingQuote = No /\ s.dfa.pendingLinefeed = No
  BY <1>1, OutsideGoesOn
<1>3. Flag(W, q) = "lf"
  BY DEF Flag
<1>4. Reached(W, s)
  OBVIOUS
<1> HIDE DEF s
<1>5. TheRow(W, s) = row
  BY <1>2, Zenon DEF TheRow
<1> HIDE DEF row
<1>6. RowEnds(W, s, 1, No)
  BY <1>2, <1>3, Zenon DEF RowEnds
<1>7. t = St(s.pos + 1, s.pos + 1, Unset, 0, No, <<>>, Append(s.rows, TheRow(W, s)), Dfa(s.dfa.quoted, s.dfa.pendingQuote, No))
  BY <1>2, <1>5, OutsideIs
<1> HIDE DEF t
<1>8. 1 \in {1, 2} /\ No \in {Yes, No}
  BY Zenon
<1>9. RowTurn(W, s, t)
  BY <1>2, <1>6, <1>7, <1>8, Zenon DEF RowTurn
<1>10. AnyTurn(W, s, t)
  BY <1>9 DEF AnyTurn
<1>11. Reached(W, t)
  BY <1>2, <1>4, <1>10, ReachedSteps
<1> QED BY <1>11 DEF t, row, Fresh

-----------------------------------------------------------------------------
(* A field between quotes. *)
LEMMA QuotedRead ==
    ASSUME NEW W, NEW p \in Nat, NEW r \in 0..p, NEW f, NEW R, NEW field, NEW raw, NEW off,
           QuotedAt(W, p + 1, r, field, raw, off), raw = Doubled(field), W[p + 1] = "quote",
           Reached(W, St(p, r, Unset, 0, No, f, R, Outside))
    PROVE  FieldEnds(W, p + Len(raw) + 2, r, f, R, field, FALSE)
<1> DEFINE x == p + 1
           s == St(p, r, Unset, 0, No, f, R, Outside)
<1>1. /\ Len(W) \in Nat /\ Len(field) \in Nat /\ Len(raw) \in Nat /\ r \in Nat
      /\ off[0] = 0 /\ off[Len(field)] = Len(raw)
      /\ \A j \in 0..Len(field) : off[j] \in Nat /\ x + off[j] + 1 < Len(W)
  BY QuotedBytes
<1>2. /\ W \in Seq(Sym) /\ field \in Seq(Byte) /\ x \in Nat
      /\ Stands(W, x, raw) /\ x + Len(raw) + 1 < Len(W)
      /\ W[x + Len(raw) + 1] = "quote" /\ W[x + Len(raw) + 2] \in {"delim", "lf"}
      /\ IsDoubled(Byte, field, raw, off)
  BY Zenon DEF QuotedAt
<1>3. p < Len(W) /\ x < Len(W) /\ x > p /\ x - r \in Nat /\ r + (x - r) = x
  BY <1>1, <1>2
<1>4. /\ s.pos = p /\ s.rowStart = r /\ s.fieldStart = Unset /\ s.fieldLength = 0 /\ s.doubled = No
      /\ s.fields = f /\ s.rows = R /\ s.dfa = Outside /\ ~s.dfa.quoted /\ ~Stopped(W, s)
      /\ s.dfa.quoted = No /\ s.dfa.pendingQuote = No /\ s.dfa.pendingLinefeed = No
  BY <1>1, <1>3, OutsideGoesOn
<1>5. Flag(W, p) = "quote"
  BY <1>3 DEF Flag
<1> DEFINE open == Between(x, off, 0, r, f, R, field)
<1>6. open = St(x, r, x - r, 0, No, f, R, Dfa(Yes, No, No))
  <2>1. Seen(field, 0) = No
    <3>1. 0 \in Nat
      OBVIOUS
    <3> QED BY <3>1, SeenIs
  <2>2. x + off[0] = x
    BY <1>1, <1>2
  <2> HIDE DEF x
  <2> QED BY <1>1, <2>1, <2>2 DEF Between
<1>7. Reached(W, s)
  OBVIOUS
<1> HIDE DEF s, open
<1>8. (IF s.fieldStart = Unset /\ s.pos + 1 < Len(W) THEN s.pos + 1 - s.rowStart ELSE s.fieldStart) = x - r
  BY <1>3, <1>4
<1>9. OpenTurn(W, s, open)
  <2>1. s.pos + 1 = x
    BY <1>4
  <2> HIDE DEF x
  <2> QED BY <1>4, <1>5, <1>6, <1>8, <2>1, Zenon DEF OpenTurn
<1>10. AnyTurn(W, s, open)
  BY <1>9 DEF AnyTurn
<1>11. Reached(W, open)
  BY <1>2, <1>4, <1>7, <1>10, ReachedSteps
<1> HIDE DEF x
<1>12. Reached(W, Between(x, off, Len(field), r, f, R, field))
  BY <1>11, BetweenEnds DEF open, x
<1> DEFINE u == Between(x, off, Len(field), r, f, R, field)
           b == Seen(field, Len(field))
           q == x + Len(raw)
           t == St(q + 1, r, x - r, Len(raw), b, f, R, Outside)
<1>13. /\ u.pos = q /\ u.rowStart = r /\ u.fieldStart = x - r /\ u.fieldLength = Len(raw)
       /\ u.doubled = b /\ u.fields = f /\ u.rows = R /\ u.dfa = Dfa(Yes, No, No)
       /\ u.dfa.quoted = Yes /\ u.dfa.pendingQuote = No /\ u.dfa.pendingLinefeed = No
       /\ u.dfa.quoted
       /\ ~Stopped(W, u)
       /\ x - r \in Nat /\ x - r # Unset
  <2>1. Len(field) \in 0..Len(field)
    BY <1>1
  <2>2. QuotedAt(W, x, r, field, raw, off)
    BY DEF x
  <2>3. off[Len(field)] = Len(raw)
    BY <1>1
  <2> QED BY <2>1, <2>2, <2>3, BetweenIs
<1>14. Reached(W, u)
  BY <1>12
<1> HIDE DEF u
<1>15. Flag(W, q) = "quote" /\ Flag(W, q + 1) \in Separators
  <2>1. q < Len(W) /\ q + 1 < Len(W) /\ (q + 1) + 1 = x + Len(raw) + 2
    BY <1>1, <1>2
  <2>2. Flag(W, q) = W[q + 1] /\ Flag(W, q + 1) = W[(q + 1) + 1]
    BY <2>1 DEF Flag
  <2>3. W[q + 1] = "quote" /\ W[(q + 1) + 1] \in {"delim", "lf"}
    BY <1>2, <2>1
  <2> QED BY <2>2, <2>3 DEF Separators
<1> HIDE DEF q, b
<1>16. t = St(u.pos + 1, u.rowStart, u.fieldStart, u.fieldLength, u.doubled, u.fields, u.rows,
              Dfa(No, u.dfa.pendingQuote, u.dfa.pendingLinefeed))
  BY <1>13, OutsideIs
<1> HIDE DEF t
<1>17. CloseTurn(W, u, t)
  BY <1>13, <1>15, <1>16, Zenon DEF CloseTurn
<1>18. AnyTurn(W, u, t)
  BY <1>17 DEF AnyTurn
<1>19. Reached(W, t)
  BY <1>2, <1>13, <1>14, <1>18, ReachedSteps
<1>20. Raw(W, r, x - r, Len(raw)) = raw
  <2>1. raw \in Seq(Byte)
    BY <1>2 DEF IsDoubled
  <2> QED BY <1>1, <1>2, <1>3, <1>13, <2>1, RawIs
<1>21. b \in {Yes, No} /\ (b = No => \A i \in 1..Len(field) : field[i] # "quote")
  BY <1>1, SeenIs DEF b
<1>22. Field(W, r, x - r, Len(raw), b) = field
  <2>1. CASE b = Yes
    <3>1. Field(W, r, x - r, Len(raw), b) = Undouble(raw)
      BY <1>20, <2>1, TruthValues, Zenon DEF Field
    <3> QED BY <1>2, <3>1, Undoubled
  <2>2. CASE b = No
    <3>1. Field(W, r, x - r, Len(raw), b) = raw
      BY <1>20, <2>2, TruthValues, Zenon DEF Field
    <3>2. Doubled(field) = field
      BY <1>2, <1>21, <2>2, NothingDoubled
    <3> QED BY <3>1, <3>2
  <2> QED BY <1>21, <2>1, <2>2
<1>23. b = No \/ Len(raw) > 0
  <2>1. CASE Len(field) = 0
    <3>1. b = No
      <4>1. 0 \in Nat
        OBVIOUS
      <4> QED BY <2>1, <4>1, SeenIs DEF b
    <3> QED BY <3>1
  <2>2. CASE Len(field) # 0
    <3>1. Len(field) \in 0..Len(field) /\ Len(field) > 0
      BY <1>1, <2>2
    <3>2. Len(field) <= off[Len(field)]
      BY <1>2, <3>1, OffsetsGrow
    <3> QED BY <1>1, <3>1, <3>2
  <2> QED BY <2>1, <2>2
<1>24. q + 1 = p + Len(raw) + 2
  BY <1>1 DEF q, x
<1>25. FieldEnds(W, q + 1, r, f, R, field, FALSE)
  BY <1>1, <1>13, <1>19, <1>22, <1>23, Zenon DEF FieldEnds, t
<1> QED BY <1>24, <1>25

(* A field as the writer writes it. *)
LEMMA FieldRead ==
    ASSUME NEW W \in Seq(Sym), NEW p \in Nat, NEW r \in 0..p, NEW f, NEW R,
           NEW field \in Seq(Byte), NEW minimal,
           Stands(W, p, Escaped(field, minimal)),
           p + Len(Escaped(field, minimal)) < Len(W),
           W[p + Len(Escaped(field, minimal)) + 1] \in {"delim", "lf"},
           Reached(W, St(p, r, Unset, 0, No, f, R, Outside))
    PROVE  FieldEnds(W, p + Len(Escaped(field, minimal)), r, f, R, field, minimal)
<1> DEFINE raw == Doubled(field)
<1>1. CASE NeedsQuotes(field) \/ ~minimal
  <2> DEFINE e == <<"quote">> \o raw \o <<"quote">>
  <2>1. Escaped(field, minimal) = e
    BY <1>1, Zenon DEF Escaped
  <2>2. PICK off : IsDoubled(Byte, field, raw, off)
    BY DoubledIs
  <2>3. raw \in Seq(Byte)
    BY <2>2 DEF IsDoubled
  <2> HIDE DEF raw
  <2>4. /\ Len(e) = Len(raw) + 2 /\ Len(raw) \in Nat
        /\ e[1] = "quote" /\ e[Len(raw) + 2] = "quote"
        /\ \A i \in 1..Len(raw) : e[1 + i] = raw[i]
    BY <2>3, QuotesAround DEF Byte
  <2> HIDE DEF e
  <2>5. Len(W) \in Nat /\ r \in Nat /\ r <= p
    BY LenProperties
  <2>6. p + Len(raw) + 2 < Len(W) /\ W[p + Len(raw) + 3] \in {"delim", "lf"}
    <3>1. p + Len(e) = p + Len(raw) + 2 /\ p + Len(e) + 1 = p + Len(raw) + 3
      BY <2>4
    <3> QED BY <2>1, <3>1
  <2>7. \A i \in 1..(Len(raw) + 2) : W[p + i] = e[i]
    BY <2>1, <2>4 DEF Stands
  <2>8. W[p + 1] = "quote" /\ W[p + (Len(raw) + 2)] = "quote"
    <3>1. 1 \in 1..(Len(raw) + 2) /\ Len(raw) + 2 \in 1..(Len(raw) + 2)
      BY <2>4
    <3> QED BY <2>4, <2>7, <3>1
  <2>9. \A i \in 1..Len(raw) : W[(p + 1) + i] = raw[i]
    <3> SUFFICES ASSUME NEW i \in 1..Len(raw) PROVE W[(p + 1) + i] = raw[i]
      OBVIOUS
    <3>1. 1 + i \in 1..(Len(raw) + 2) /\ p + (1 + i) = (p + 1) + i
      BY <2>4
    <3> QED BY <2>4, <2>7, <3>1
  <2>10. Stands(W, p + 1, raw)
    <3>1. (p + 1) + Len(raw) <= Len(W)
      BY <2>4, <2>5, <2>6
    <3> QED BY <2>9, <3>1 DEF Stands
  <2>11. QuotedAt(W, p + 1, r, field, raw, off)
    <3>1. /\ p + 1 \in Nat /\ r < p + 1 /\ (p + 1) + Len(raw) + 1 = p + (Len(raw) + 2)
          /\ (p + 1) + Len(raw) + 2 = p + Len(raw) + 3 /\ (p + 1) + Len(raw) + 1 < Len(W)
      BY <2>4, <2>5, <2>6
    <3> QED BY <2>2, <2>5, <2>6, <2>8, <2>10, <3>1 DEF QuotedAt
  <2>12. FieldEnds(W, p + Len(raw) + 2, r, f, R, field, FALSE)
    BY <2>8, <2>11, QuotedRead DEF raw
  <2>13. FieldEnds(W, p + Len(raw) + 2, r, f, R, field, minimal)
    BY <2>12, Zenon DEF FieldEnds
  <2>14. p + Len(e) = p + Len(raw) + 2
    BY <2>4
  <2> QED BY <2>1, <2>13, <2>14
<1>2. CASE ~(NeedsQuotes(field) \/ ~minimal)
  <2>1. Escaped(field, minimal) = field /\ ~NeedsQuotes(field) /\ minimal
    BY <1>2, Zenon DEF Escaped
  <2>2. FieldEnds(W, p + Len(field), r, f, R, field, TRUE)
    BY <2>1, PlainRead
  <2>3. FieldEnds(W, p + Len(field), r, f, R, field, minimal)
    BY <2>1, <2>2, Zenon DEF FieldEnds
  <2> QED BY <2>1, <2>3
<1> QED BY <1>1, <1>2

-----------------------------------------------------------------------------
(* The text of a row: the delimiter before each field but the first, and   *)
(* at[i] bytes up to the end of field i.                                   *)
Gap(i) == IF i = 1 THEN 0 ELSE 1
Before(i) == IF i = 1 THEN <<>> ELSE <<"delim">>
Part(i, e) == Before(i) \o e
IsRowText(row, minimal, text, at) ==
    /\ text \in Seq(Byte) /\ at \in [0..Len(row) -> Nat]
    /\ at[0] = 0 /\ at[Len(row)] = Len(text)
    /\ \A i \in 1..Len(row) :
          /\ at[i] = at[i - 1] + Gap(i) + Len(Escaped(row[i], minimal))
          /\ i # 1 => text[at[i - 1] + 1] = "delim"
          /\ \A k \in 1..Len(Escaped(row[i], minimal)) :
                text[at[i - 1] + Gap(i) + k] = Escaped(row[i], minimal)[k]

LEMMA PartIsText ==
    ASSUME NEW e \in Seq(Byte), NEW i
    PROVE  /\ Part(i, e) \in Seq(Byte) /\ Len(Part(i, e)) = Gap(i) + Len(e) /\ Len(e) \in Nat
           /\ i # 1 => Part(i, e)[1] = "delim"
           /\ \A k \in 1..Len(e) : Part(i, e)[Gap(i) + k] = e[k]
<1> DEFINE part == Part(i, e)
           g == Before(i)
           d == <<"delim">>
<1>1. g \in Seq(Byte) /\ Len(g) = Gap(i) /\ (i # 1 => g[1] = "delim") /\ Len(e) \in Nat /\ Gap(i) \in Nat
  <2>1. d \in Seq(Byte) /\ Len(d) = 1 /\ d[1] = "delim"
    BY DEF Byte, Separators
  <2>2. <<>> \in Seq(Byte) /\ Len(<<>>) = 0 /\ Len(e) \in Nat
    BY EmptySeq, LenProperties
  <2>3. CASE i = 1
    <3>1. g = <<>> /\ Gap(i) = 0
      BY <2>3 DEF Gap, Before
    <3> HIDE DEF g
    <3> QED BY <2>2, <2>3, <3>1
  <2>4. CASE i # 1
    <3>1. g = d /\ Gap(i) = 1
      BY <2>4 DEF Gap, Before
    <3> HIDE DEF g, d
    <3> QED BY <2>1, <2>2, <2>4, <3>1
  <2> QED BY <2>3, <2>4
<1>2. part = g \o e
  BY Zenon DEF Part
<1> HIDE DEF g, part
<1>3. /\ part \in Seq(Byte) /\ Len(part) = Len(g) + Len(e)
      /\ \A k \in 1..(Len(g) + Len(e)) : part[k] = IF k <= Len(g) THEN g[k] ELSE e[k - Len(g)]
  BY <1>2, <1>1, ConcatProperties
<1>4. i # 1 => part[1] = "delim"
  BY <1>1, <1>3 DEF Gap
<1>5. ASSUME NEW k \in 1..Len(e) PROVE part[Gap(i) + k] = e[k]
  <2>1. Gap(i) + k \in 1..(Len(g) + Len(e)) /\ ~(Gap(i) + k <= Len(g)) /\ (Gap(i) + k) - Len(g) = k
    BY <1>1
  <2> QED BY <1>3, <2>1
<1> QED BY <1>1, <1>3, <1>4, <1>5 DEF part

LEMMA RowTextIs ==
    ASSUME NEW row \in Seq(Seq(Byte)), NEW minimal \in BOOLEAN
    PROVE  \E at : IsRowText(row, minimal, Delimited(row, minimal), at)
<1> DEFINE part(i) == (IF i = 1 THEN <<>> ELSE <<"delim">>) \o Escaped(row[i], minimal)
           parts == [i \in 1..Len(row) |-> part(i)]
           at == [i \in 0..Len(row) |-> Len(FlatTo(parts, i))]
           text == FlattenSeq(parts)
<1>1. Len(row) \in Nat /\ DOMAIN row = 1..Len(row) /\ \A i \in 1..Len(row) : row[i] \in Seq(Byte)
  BY LenProperties, ElementOfSeq
<1>2. \A i \in 1..Len(row) : Escaped(row[i], minimal) \in Seq(Byte)
  BY <1>1, EscapedType
<1>3. \A i \in 1..Len(row) :
        /\ part(i) \in Seq(Byte) /\ Len(part(i)) = Gap(i) + Len(Escaped(row[i], minimal))
        /\ Len(Escaped(row[i], minimal)) \in Nat
        /\ i # 1 => part(i)[1] = "delim"
        /\ \A k \in 1..Len(Escaped(row[i], minimal)) : part(i)[Gap(i) + k] = Escaped(row[i], minimal)[k]
  <2> SUFFICES ASSUME NEW i \in 1..Len(row)
               PROVE  /\ part(i) \in Seq(Byte) /\ Len(part(i)) = Gap(i) + Len(Escaped(row[i], minimal))
                      /\ Len(Escaped(row[i], minimal)) \in Nat
                      /\ i # 1 => part(i)[1] = "delim"
                      /\ \A k \in 1..Len(Escaped(row[i], minimal)) : part(i)[Gap(i) + k] = Escaped(row[i], minimal)[k]
    OBVIOUS
  <2> DEFINE e == Escaped(row[i], minimal)
  <2>1. e \in Seq(Byte)
    BY <1>2
  <2> HIDE DEF e
  <2> DEFINE y == part(i)
  <2>2. y = Part(i, e)
    BY Zenon DEF e, Before, Part
  <2> HIDE DEF y
  <2>3. /\ y \in Seq(Byte) /\ Len(y) = Gap(i) + Len(e) /\ Len(e) \in Nat
        /\ i # 1 => y[1] = "delim"
        /\ \A k \in 1..Len(e) : y[Gap(i) + k] = e[k]
    BY <2>1, <2>2, PartIsText
  <2> QED BY <2>3, Zenon DEF e, y
<1>4. Delimited(row, minimal) = text
  BY <1>1, Zenon DEF Delimited
<1> HIDE DEF part
<1>5. parts \in [1..Len(row) -> Seq(Byte)] /\ \A i \in 1..Len(row) : parts[i] = part(i)
  BY <1>3
<1> HIDE DEF parts
<1>6. parts \in Seq(Seq(Byte)) /\ Len(parts) = Len(row)
  <2> DEFINE S == Seq(Byte)
  <2>1. parts \in [1..Len(row) -> S]
    BY <1>5
  <2> HIDE DEF S
  <2>2. parts \in Seq(S) /\ Len(parts) = Len(row)
    BY <1>1, <2>1, LenProperties
  <2> QED BY <2>2 DEF S
<1>7. text \in Seq(Byte)
  BY <1>6, FlattenType
<1>8. /\ \A n \in 0..Len(row) : Len(FlatTo(parts, n)) \in Nat
      /\ Len(FlatTo(parts, 0)) = 0
      /\ Len(FlatTo(parts, Len(row))) = Len(text)
      /\ \A n \in 1..Len(row) : Len(FlatTo(parts, n)) = Len(FlatTo(parts, n - 1)) + Len(parts[n])
  BY <1>6, FlatToLen
<1>9. at \in [0..Len(row) -> Nat] /\ at[0] = 0 /\ at[Len(row)] = Len(text)
  BY <1>1, <1>8
<1>10. \A n \in 1..Len(row) : at[n] = at[n - 1] + Len(parts[n]) /\ at[n - 1] = Len(FlatTo(parts, n - 1)) /\ at[n - 1] \in Nat
  <2> SUFFICES ASSUME NEW n \in 1..Len(row)
               PROVE  at[n] = at[n - 1] + Len(parts[n]) /\ at[n - 1] = Len(FlatTo(parts, n - 1)) /\ at[n - 1] \in Nat
    OBVIOUS
  <2>1. n \in 0..Len(row) /\ n - 1 \in 0..Len(row)
    BY <1>1
  <2> QED BY <1>8, <2>1
<1>11. \A j \in 1..Len(row) : \A k \in 1..Len(parts[j]) : text[at[j - 1] + k] = parts[j][k]
  <2> SUFFICES ASSUME NEW j \in 1..Len(row), NEW k \in 1..Len(parts[j])
               PROVE  text[at[j - 1] + k] = parts[j][k]
    OBVIOUS
  <2>1. text[Len(FlatTo(parts, j - 1)) + k] = parts[j][k]
    BY <1>6, FlatToHolds
  <2> QED BY <1>10, <2>1
<1> HIDE DEF at, text
<1>12. ASSUME NEW i \in 1..Len(row)
       PROVE  /\ at[i] = at[i - 1] + Gap(i) + Len(Escaped(row[i], minimal))
              /\ i # 1 => text[at[i - 1] + 1] = "delim"
              /\ \A k \in 1..Len(Escaped(row[i], minimal)) :
                    text[at[i - 1] + Gap(i) + k] = Escaped(row[i], minimal)[k]
  <2> DEFINE e == Escaped(row[i], minimal)
             o == at[i - 1]
             y == parts[i]
  <2>1. /\ y \in Seq(Byte) /\ Len(y) = Gap(i) + Len(e)
        /\ Len(e) \in Nat /\ (i # 1 => y[1] = "delim")
        /\ \A k \in 1..Len(e) : y[Gap(i) + k] = e[k]
    BY <1>3, <1>5
  <2>2. at[i] = o + Len(y) /\ o \in Nat
    BY <1>10
  <2>3. \A k \in 1..Len(y) : text[o + k] = y[k]
    BY <1>11
  <2> HIDE DEF e, o, y
  <2>4. Gap(i) \in Nat /\ (i # 1 => Gap(i) = 1)
    BY DEF Gap
  <2>5. at[i] = o + Gap(i) + Len(e)
    BY <2>1, <2>2, <2>4
  <2>6. i # 1 => text[o + 1] = "delim"
    BY <2>1, <2>3, <2>4
  <2>7. \A k \in 1..Len(e) : text[o + Gap(i) + k] = e[k]
    <3> SUFFICES ASSUME NEW k \in 1..Len(e) PROVE text[o + Gap(i) + k] = e[k]
      OBVIOUS
    <3>1. Gap(i) + k \in 1..Len(y) /\ o + (Gap(i) + k) = o + Gap(i) + k
      BY <2>1, <2>2, <2>4
    <3> QED BY <2>1, <2>3, <3>1
  <2> QED BY <2>5, <2>6, <2>7 DEF e, o
<1>13. IsRowText(row, minimal, text, at)
  BY <1>7, <1>9, <1>12, Zenon DEF IsRowText
<1> QED BY <1>4, <1>13

(* A row as the writer writes it, from where a record starts. *)
LEMMA RowRead ==
    ASSUME NEW W \in Seq(Sym), NEW p \in Nat, NEW R, NEW row \in Seq(Seq(Byte)), NEW minimal \in BOOLEAN,
           ~(minimal /\ row = <<(<<>>)>>),
           Stands(W, p, RowBytes(row, minimal)),
           Reached(W, Fresh(p, R, Outside))
    PROVE  \E e : Reached(W, Fresh(p + Len(RowBytes(row, minimal)), Append(R, Row(row, p, e)), Outside))
<1> DEFINE text == Delimited(row, minimal)
<1>1. PICK at : IsRowText(row, minimal, text, at)
  BY RowTextIs
<1> HIDE DEF text
<1>2. /\ text \in Seq(Byte) /\ at \in [0..Len(row) -> Nat] /\ at[0] = 0 /\ at[Len(row)] = Len(text)
      /\ \A i \in 1..Len(row) :
          /\ at[i] = at[i - 1] + Gap(i) + Len(Escaped(row[i], minimal))
          /\ i # 1 => text[at[i - 1] + 1] = "delim"
          /\ \A k \in 1..Len(Escaped(row[i], minimal)) :
                text[at[i - 1] + Gap(i) + k] = Escaped(row[i], minimal)[k]
  BY <1>1, Zenon DEF IsRowText
<1>3. /\ Len(row) \in Nat /\ Len(text) \in Nat /\ Len(W) \in Nat
      /\ \A i \in 1..Len(row) : row[i] \in Seq(Byte) /\ Escaped(row[i], minimal) \in Seq(Byte)
                                /\ Len(Escaped(row[i], minimal)) \in Nat
  <2>1. Len(row) \in Nat /\ Len(text) \in Nat /\ Len(W) \in Nat
    BY <1>2, LenProperties
  <2>2. ASSUME NEW i \in 1..Len(row)
        PROVE  row[i] \in Seq(Byte) /\ Escaped(row[i], minimal) \in Seq(Byte)
               /\ Len(Escaped(row[i], minimal)) \in Nat
    <3>1. row[i] \in Seq(Byte)
      BY ElementOfSeq
    <3>2. Escaped(row[i], minimal) \in Seq(Byte)
      BY <3>1, EscapedType
    <3> QED BY <3>1, <3>2, LenProperties
  <2> QED BY <2>1, <2>2
<1> DEFINE bytes == RowBytes(row, minimal)
           lf == <<"lf">>
<1>4. /\ Len(bytes) = Len(text) + 1 /\ bytes[Len(text) + 1] = "lf"
      /\ \A i \in 1..Len(text) : bytes[i] = text[i]
  <2>1. lf \in Seq(Byte) /\ Len(lf) = 1 /\ lf[1] = "lf"
    BY DEF Byte, Separators
  <2>2. bytes = text \o lf
    BY Zenon DEF RowBytes, text
  <2> HIDE DEF bytes, lf
  <2>3. /\ Len(bytes) = Len(text) + Len(lf)
        /\ \A i \in 1..(Len(text) + Len(lf)) : bytes[i] = IF i <= Len(text) THEN text[i] ELSE lf[i - Len(text)]
    <3>1. text \in Seq(Byte) /\ lf \in Seq(Byte)
      BY <1>2, <2>1
    <3>2. /\ Len(text \o lf) = Len(text) + Len(lf)
          /\ \A i \in 1..(Len(text) + Len(lf)) : (text \o lf)[i] = IF i <= Len(text) THEN text[i] ELSE lf[i - Len(text)]
      BY <3>1, ConcatProperties
    <3> QED BY <2>2, <3>2
  <2>4. Len(bytes) = Len(text) + 1
    BY <2>1, <2>3
  <2>5. bytes[Len(text) + 1] = "lf"
    <3>1. Len(text) + 1 \in 1..(Len(text) + Len(lf)) /\ ~(Len(text) + 1 <= Len(text)) /\ (Len(text) + 1) - Len(text) = 1
      BY <1>3, <2>1
    <3> QED BY <2>1, <2>3, <3>1
  <2>6. ASSUME NEW i \in 1..Len(text) PROVE bytes[i] = text[i]
    <3>1. i \in 1..(Len(text) + Len(lf)) /\ i <= Len(text)
      BY <1>3, <2>1
    <3> QED BY <2>3, <3>1
  <2> QED BY <2>4, <2>5, <2>6
<1>5. p + Len(bytes) <= Len(W) /\ \A i \in 1..Len(bytes) : W[p + i] = bytes[i]
  BY Zenon DEF Stands
<1> HIDE DEF bytes
<1>6. /\ p + Len(text) < Len(W) /\ W[p + Len(text) + 1] = "lf"
      /\ \A i \in 1..Len(text) : W[p + i] = text[i]
  <2>1. Len(text) + 1 \in 1..Len(bytes) /\ p + (Len(text) + 1) = p + Len(text) + 1
    BY <1>3, <1>4
  <2>2. \A i \in 1..Len(text) : i \in 1..Len(bytes)
    BY <1>3, <1>4
  <2> QED BY <1>3, <1>4, <1>5, <2>1, <2>2
<1>7. \A i \in 0..Len(row) : at[i] \in Nat
  BY <1>2
<1>8. \A i \in 1..Len(row) : at[i - 1] \in Nat /\ at[i] \in Nat /\ at[i - 1] + Gap(i) <= at[i] /\ Gap(i) \in Nat
  <2> SUFFICES ASSUME NEW i \in 1..Len(row)
               PROVE  at[i - 1] \in Nat /\ at[i] \in Nat /\ at[i - 1] + Gap(i) <= at[i] /\ Gap(i) \in Nat
    OBVIOUS
  <2>1. i - 1 \in 0..Len(row) /\ i \in 0..Len(row)
    BY <1>3
  <2>2. at[i - 1] \in Nat /\ at[i] \in Nat /\ Gap(i) \in Nat
    BY <1>7, <2>1 DEF Gap
  <2> QED BY <1>2, <1>3, <2>2
<1>9. \A i \in 0..Len(row) : at[i] <= Len(text)
  <2> DEFINE D == {d \in Nat : d <= Len(row) => at[Len(row) - d] <= Len(text)}
  <2>1. 0 \in D
    <3>1. Len(row) - 0 = Len(row)
      BY <1>3
    <3> QED BY <1>2, <1>3, <3>1
  <2>2. ASSUME NEW d \in Nat, d \in D PROVE d + 1 \in D
    <3> SUFFICES ASSUME d + 1 <= Len(row) PROVE at[Len(row) - (d + 1)] <= Len(text)
      OBVIOUS
    <3>1. Len(row) - d \in 1..Len(row) /\ (Len(row) - d) - 1 = Len(row) - (d + 1) /\ d <= Len(row)
      BY <1>3
    <3> DEFINE x == at[Len(row) - d]
               y == at[Len(row) - (d + 1)]
               g == Gap(Len(row) - d)
    <3>2. x <= Len(text) /\ y \in Nat /\ x \in Nat /\ y + g <= x /\ g \in Nat
      BY <1>8, <2>2, <3>1
    <3> HIDE DEF x, y, g
    <3>3. y <= Len(text)
      BY <1>3, <3>2
    <3> QED BY <3>3 DEF y
  <2> HIDE DEF D
  <2>3. Nat \subseteq D
    BY <2>1, <2>2, Induction
  <2> SUFFICES ASSUME NEW i \in 0..Len(row) PROVE at[i] <= Len(text)
    OBVIOUS
  <2>4. Len(row) - i \in Nat /\ Len(row) - i <= Len(row) /\ Len(row) - (Len(row) - i) = i
    BY <1>3
  <2> QED BY <2>3, <2>4 DEF D
(* What stands behind field i. *)
<1>10. ASSUME NEW i \in 1..Len(row)
       PROVE  /\ p + at[i] \in Nat /\ p + at[i] < Len(W)
              /\ i < Len(row) => W[p + at[i] + 1] = "delim"
              /\ i = Len(row) => W[p + at[i] + 1] = "lf"
  <2>1. at[i] \in Nat /\ at[i] <= Len(text)
    BY <1>3, <1>7, <1>9
  <2>2. i < Len(row) => W[p + at[i] + 1] = "delim"
    <3> SUFFICES ASSUME i < Len(row) PROVE W[p + at[i] + 1] = "delim"
      OBVIOUS
    <3>1. i + 1 \in 1..Len(row) /\ (i + 1) - 1 = i /\ i + 1 # 1 /\ i + 1 \in 0..Len(row)
      BY <1>3
    <3>2. text[at[i] + 1] = "delim" /\ at[i] + 1 <= at[i + 1] /\ at[i + 1] <= Len(text) /\ at[i + 1] \in Nat
      BY <1>2, <1>8, <1>9, <3>1 DEF Gap
    <3>3. at[i] + 1 \in 1..Len(text) /\ p + (at[i] + 1) = p + at[i] + 1
      <4> DEFINE b == at[i]
                 c == at[i + 1]
      <4>1. b \in Nat /\ c \in Nat /\ b + 1 <= c /\ c <= Len(text) /\ Len(text) \in Nat
        BY <1>3, <2>1, <3>2
      <4> HIDE DEF b, c
      <4>2. b + 1 \in 1..Len(text) /\ p + (b + 1) = p + b + 1
        BY <4>1
      <4> QED BY <4>2 DEF b
    <3> QED BY <1>6, <3>2, <3>3
  <2>3. i = Len(row) => W[p + at[i] + 1] = "lf"
    BY <1>2, <1>6
  <2>4. p + at[i] < Len(W)
    BY <1>3, <1>6, <2>1
  <2> QED BY <2>1, <2>2, <2>3, <2>4
(* Field i, read from behind the delimiter before it. *)
<1>11. ASSUME NEW i \in 1..Len(row), NEW f,
              Reached(W, St(p + at[i - 1] + Gap(i), p, Unset, 0, No, f, R, Outside))
       PROVE  FieldEnds(W, p + at[i], p, f, R, row[i], minimal)
  <2> DEFINE o == p + at[i - 1] + Gap(i)
             field == row[i]
             e == Escaped(field, minimal)
  <2>1. o \in Nat /\ p \in 0..o /\ field \in Seq(Byte) /\ Len(e) \in Nat /\ o + Len(e) = p + at[i]
    <3>1. i - 1 \in 0..Len(row) /\ field \in Seq(Byte) /\ Len(e) \in Nat
      BY <1>3
    <3> DEFINE b == at[i - 1]
               g == Gap(i)
               w == Len(e)
    <3>2. b \in Nat /\ g \in Nat /\ at[i] = b + g + w
      BY <1>2, <1>8
    <3>3. w \in Nat
      BY <3>1
    <3> HIDE DEF b, g, w
    <3>4. p + b + g \in Nat /\ p \in 0..(p + b + g) /\ (p + b + g) + w = p + (b + g + w)
      BY <3>2, <3>3
    <3> QED BY <3>1, <3>2, <3>4 DEF b, g, w
  <2>2. p + at[i] < Len(W) /\ W[p + at[i] + 1] \in {"delim", "lf"}
    <3>1. i < Len(row) \/ i = Len(row)
      BY <1>3
    <3> QED BY <1>10, <3>1
  <2>3. \A k \in 1..Len(e) : W[o + k] = e[k]
    <3> SUFFICES ASSUME NEW k \in 1..Len(e) PROVE W[o + k] = e[k]
      OBVIOUS
    <3> DEFINE x == at[i - 1] + Gap(i) + k
    <3>1. text[x] = e[k]
      BY <1>2
    <3>2. x \in 1..Len(text) /\ p + x = o + k
      <4> DEFINE b == at[i - 1]
                 g == Gap(i)
      <4>1. at[i] <= Len(text) /\ at[i] = b + g + Len(e)
        <5>1. i \in 0..Len(row)
          BY <1>3
        <5> QED BY <1>2, <1>9, <5>1
      <4>2. b \in Nat /\ g \in Nat
        BY <1>8
      <4>3. k \in 1..Len(e) /\ Len(e) \in Nat /\ Len(text) \in Nat
        BY <1>3, <2>1
      <4> HIDE DEF b, g, e
      <4>4. b + g + k \in 1..Len(text) /\ p + (b + g + k) = p + b + g + k
        BY <4>1, <4>2, <4>3
      <4> QED BY <4>4 DEF b, g
    <3> HIDE DEF x, o, e
    <3> QED BY <1>6, <3>1, <3>2
  <2>4. Reached(W, St(o, p, Unset, 0, No, f, R, Outside))
    BY <1>11
  <2> HIDE DEF o, field
  <2>5. o + Len(e) < Len(W) /\ W[o + Len(e) + 1] \in {"delim", "lf"} /\ o + Len(e) <= Len(W)
    <3>1. o + Len(e) < Len(W) /\ W[o + Len(e) + 1] \in {"delim", "lf"}
      BY <2>1, <2>2
    <3> HIDE DEF e
    <3> QED BY <1>3, <2>1, <3>1
  <2>6. Stands(W, o, e)
    BY <2>3, <2>5 DEF Stands
  <2>7. FieldEnds(W, o + Len(e), p, f, R, field, minimal)
    BY <2>1, <2>4, <2>5, <2>6, FieldRead
  <2> HIDE DEF e
  <2>8. FieldEnds(W, p + at[i], p, f, R, field, minimal)
    BY <2>1, <2>7
  <2> QED BY <2>8 DEF field
<1>12. Reached(W, St(p, p, Unset, 0, No, <<>>, R, Outside))
  BY DEF Fresh
<1>13. ASSUME NEW f, NEW a, NEW n, NEW b, Reached(W, St(p + Len(text), p, a, n, b, f, R, Outside))
       PROVE  Reached(W, Fresh(p + Len(bytes), Append(R, Row(RowFields(W, p, a, n, b, f), p, p + Len(text))), Outside))
  <2> DEFINE q == p + Len(text)
  <2>1. q \in Nat /\ q < Len(W) /\ W[q + 1] = "lf" /\ q + 1 = p + Len(bytes)
    BY <1>3, <1>4, <1>6
  <2>2. Reached(W, St(q, p, a, n, b, f, R, Outside))
    BY <1>13
  <2> HIDE DEF q
  <2>3. Reached(W, Fresh(q + 1, Append(R, Row(RowFields(W, p, a, n, b, f), p, q)), Outside))
    BY <2>1, <2>2, NewlineRead
  <2> QED BY <2>1, <2>3 DEF q
<1>14. CASE Len(row) = 0
  <2>1. row = <<>> /\ p + Len(text) = p
    BY <1>2, <1>14, EmptySeq
  <2>2. Reached(W, St(p + Len(text), p, Unset, 0, No, <<>>, R, Outside))
    BY <1>12, <2>1
  <2>3. RowFields(W, p, Unset, 0, No, <<>>) = row
    <3>1. ~HasField(Unset, 0, <<>>)
      BY DEF HasField
    <3> QED BY <2>1, <3>1, Zenon DEF RowFields
  <2>4. Reached(W, Fresh(p + Len(bytes), Append(R, Row(row, p, p + Len(text))), Outside))
    BY <1>13, <2>2, <2>3
  <2> QED BY <2>4 DEF bytes
<1>15. CASE Len(row) # 0
  <2> DEFINE T == {i \in Nat : i + 1 <= Len(row) =>
                      FieldEnds(W, p + at[i + 1], p, TakeN(row, i), R, row[i + 1], minimal)}
  <2>1. 0 \in T
    <3>1. 1 \in 1..Len(row) /\ 1 - 1 = 0 /\ 0 + 1 = 1
      BY <1>3, <1>15
    <3>2. p + at[1 - 1] + Gap(1) = p
      BY <1>2, <3>1 DEF Gap
    <3>3. FieldEnds(W, p + at[1], p, <<>>, R, row[1], minimal)
      BY <1>11, <1>12, <3>1, <3>2
    <3>4. TakeN(row, 0) = <<>>
      BY TakeNone
    <3> QED BY <3>1, <3>3, <3>4
  <2>2. ASSUME NEW i \in Nat, i \in T PROVE i + 1 \in T
    <3> SUFFICES ASSUME (i + 1) + 1 <= Len(row)
                 PROVE  FieldEnds(W, p + at[(i + 1) + 1], p, TakeN(row, i + 1), R, row[(i + 1) + 1], minimal)
      OBVIOUS
    <3> DEFINE k == i + 1
               f == TakeN(row, i)
    <3>1. k \in 1..Len(row) /\ k < Len(row) /\ k + 1 \in 1..Len(row) /\ (k + 1) - 1 = k /\ k + 1 # 1 /\ k \in Nat
          /\ i + 1 <= Len(row)
      BY <1>3
    <3>2. FieldEnds(W, p + at[k], p, f, R, row[k], minimal)
      BY <2>2, <3>1
    <3>3. TakeN(row, k) = Append(f, row[k])
      BY <3>1, TakeNext
    <3> HIDE DEF k, f
    <3>4. PICK a, n, b : /\ Reached(W, St(p + at[k], p, a, n, b, f, R, Outside))
                         /\ Field(W, p, a, n, b) = row[k]
      BY <3>2, Zenon DEF FieldEnds
    <3>5. p + at[k] \in Nat /\ p + at[k] < Len(W) /\ W[p + at[k] + 1] = "delim"
      BY <1>10, <3>1
    <3> DEFINE q == p + at[k]
    <3> HIDE DEF q
    <3>6. Reached(W, St(q + 1, p, Unset, 0, No, Append(f, row[k]), R, Outside))
      BY <3>4, <3>5, DelimiterRead DEF q
    <3>7. q + 1 = p + at[(k + 1) - 1] + Gap(k + 1)
      BY <3>1 DEF q, Gap
    <3>8. FieldEnds(W, p + at[k + 1], p, TakeN(row, k), R, row[k + 1], minimal)
      BY <1>11, <3>1, <3>3, <3>6, <3>7
    <3> QED BY <3>8 DEF k
  <2> HIDE DEF T
  <2> DEFINE m == Len(row) - 1
             f == TakeN(row, m)
             last == row[Len(row)]
  <2>3. m \in Nat /\ m + 1 = Len(row)
    BY <1>3, <1>15
  <2>4. m \in T
    BY <2>1, <2>2, <2>3, Induction
  <2>5. FieldEnds(W, p + at[Len(row)], p, f, R, last, minimal)
    BY <1>3, <2>3, <2>4 DEF T
  <2>6. row = Append(f, last)
    <3>1. TakeN(row, m + 1) = Append(TakeN(row, m), row[m + 1])
      <4>1. m \in Nat /\ m < Len(row)
        BY <1>3, <2>3
      <4> HIDE DEF m
      <4> QED BY <4>1, TakeNext
    <3>2. TakeN(row, Len(row)) = row
      BY TakeAll
    <3> QED BY <2>3, <3>1, <3>2
  <2>7. PICK a, n, b : /\ Reached(W, St(p + at[Len(row)], p, a, n, b, f, R, Outside))
                       /\ Field(W, p, a, n, b) = last
                       /\ a = Unset => n = 0 /\ last = <<>> /\ minimal
    BY <2>5, Zenon DEF FieldEnds
  <2>8. HasField(a, n, f)
    <3>1. CASE a # Unset
      BY <3>1, Zenon DEF HasField
    <3>2. CASE a = Unset /\ f = <<>>
      <4>1. row = Append(<<>>, <<>>) /\ minimal
        BY <2>6, <2>7, <3>2
      <4>2. Append(<<>>, <<>>) = <<(<<>>)>>
        OBVIOUS
      <4> QED BY <4>1, <4>2
    <3>3. CASE f # <<>>
      BY <3>3, Zenon DEF HasField
    <3> QED BY <3>1, <3>2, <3>3
  <2>9. RowFields(W, p, a, n, b, f) = row
    BY <2>6, <2>7, <2>8, Zenon DEF RowFields
  <2>10. Reached(W, St(p + Len(text), p, a, n, b, f, R, Outside))
    BY <1>2, <2>7
  <2>11. Reached(W, Fresh(p + Len(bytes), Append(R, Row(row, p, p + Len(text))), Outside))
    BY <1>13, <2>9, <2>10
  <2> QED BY <2>11 DEF bytes
<1> QED BY <1>14, <1>15

(* All of a writer's rows. *)
LEMMA RenderedRead ==
    ASSUME NEW rows \in Seq(RowSet), Minimal => <<(<<>>)>> \notin RowSet
    PROVE  Table(Rendered(rows)) = rows
<1> DEFINE parts == [i \in 1..Len(rows) |-> RowBytes(rows[i], Minimal)]
           W == FlattenSeq(parts)
           at(k) == Len(FlatTo(parts, k))
<1>1. /\ Len(rows) \in Nat /\ DOMAIN rows = 1..Len(rows)
      /\ \A i \in 1..Len(rows) : rows[i] \in RowSet
  BY LenProperties, ElementOfSeq
<1>2. /\ Minimal \in BOOLEAN
      /\ \A i \in 1..Len(rows) : /\ rows[i] \in Seq(Seq(Byte)) /\ ~(Minimal /\ rows[i] = <<(<<>>)>>)
                                 /\ RowBytes(rows[i], Minimal) \in Seq(Byte)
  BY <1>1, RowBytesType, WriterAssumption
<1>3. Rendered(rows) = W
  BY <1>1, Zenon DEF Rendered
<1>4. parts \in [1..Len(rows) -> Seq(Byte)] /\ \A i \in 1..Len(rows) : parts[i] = RowBytes(rows[i], Minimal)
  BY <1>2
<1> HIDE DEF parts
<1>5. parts \in Seq(Seq(Byte)) /\ Len(parts) = Len(rows)
  BY <1>1, <1>4, IsASeq, LenProperties
<1>6. W \in Seq(Byte) /\ W \in Seq(Sym) /\ Len(W) \in Nat /\ \A i \in 1..Len(W) : W[i] \in Byte
  <2>1. W \in Seq(Byte)
    BY <1>5, FlattenType
  <2>2. Byte \subseteq Sym
    BY DEF Sym
  <2> HIDE DEF W
  <2>3. \A i \in 1..Len(W) : W[i] \in Byte
    BY <2>1, ElementOfSeq
  <2> QED BY <2>1, <2>2, <2>3, LenProperties
<1>7. /\ \A n \in 0..Len(rows) : at(n) \in Nat
      /\ at(0) = 0 /\ at(Len(rows)) = Len(W)
      /\ \A n \in 1..Len(rows) : at(n) = at(n - 1) + Len(parts[n])
  BY <1>5, FlatToLen
<1>8. \A n \in 0..Len(rows) : at(n) <= Len(W)
  <2> SUFFICES ASSUME NEW n \in 0..Len(rows) PROVE at(n) <= Len(W)
    OBVIOUS
  <2>1. Len(rows) \in 0..Len(rows) /\ n <= Len(rows)
    BY <1>1
  <2> QED BY <1>5, <1>7, <2>1, FlatToGrows
<1>9. \A n \in 1..Len(rows) : \A k \in 1..Len(parts[n]) : W[at(n - 1) + k] = parts[n][k]
  BY <1>5, FlatToHolds
<1> HIDE DEF W, at
<1> DEFINE RowsRead(k) == \E R : /\ Reached(W, Fresh(at(k), R, Outside))
                             /\ IsSeq(R) /\ Len(R) = k
                             /\ \A i \in 1..k : R[i].fields = rows[i]
           T == {k \in Nat : k <= Len(rows) => RowsRead(k)}
<1>10. 0 \in T
  <2>1. Flag(W, 0) # "bom"
    <3>1. CASE Len(W) = 0
      BY <3>1 DEF Flag
    <3>2. CASE Len(W) # 0
      <4>1. 1 \in 1..Len(W) /\ 0 < Len(W) /\ 0 + 1 = 1
        BY <1>6, <3>2
      <4>2. W[1] \in Byte /\ Flag(W, 0) = W[1]
        BY <1>6, <4>1 DEF Flag
      <4> QED BY <4>2 DEF Byte, Separators
    <3> QED BY <3>1, <3>2
  <2>2. WholeBegin(W) = FreshAt(0, Outside)
    BY <1>6, <2>1, WholeBeginIs
  <2>3. Reached(W, Fresh(0, <<>>, Outside))
    <3>1. Reached(W, WholeBegin(W))
      BY <1>6, BeginIsReached
    <3> QED BY <2>2, <3>1, Zenon DEF Fresh, FreshAt
  <2>4. IsSeq(<<>>) /\ Len(<<>>) = 0 /\ \A i \in 1..0 : <<>>[i].fields = rows[i]
    BY EmptyIsSeq
  <2>5. RowsRead(0)
    BY <1>7, <2>3, <2>4
  <2> QED BY <2>5
<1>11. ASSUME NEW k \in Nat, k \in T PROVE k + 1 \in T
  <2> SUFFICES ASSUME k + 1 <= Len(rows) PROVE RowsRead(k + 1)
    OBVIOUS
  <2> DEFINE row == rows[k + 1]
             p == at(k)
  <2>1. k + 1 \in 1..Len(rows) /\ (k + 1) - 1 = k /\ k \in 0..Len(rows) /\ k + 1 \in 0..Len(rows)
    BY <1>1
  <2>2. PICK R : /\ Reached(W, Fresh(p, R, Outside))
                 /\ IsSeq(R) /\ Len(R) = k
                 /\ \A i \in 1..k : R[i].fields = rows[i]
    BY <1>1, <1>11, <2>1
  <2>3. /\ row \in Seq(Seq(Byte)) /\ ~(Minimal /\ row = <<(<<>>)>>) /\ parts[k + 1] = RowBytes(row, Minimal)
        /\ p \in Nat /\ at(k + 1) = p + Len(parts[k + 1]) /\ at(k + 1) <= Len(W)
        /\ \A j \in 1..Len(parts[k + 1]) : W[p + j] = parts[k + 1][j]
    BY <1>2, <1>4, <1>7, <1>8, <1>9, <2>1
  <2> HIDE DEF row, p
  <2>4. Stands(W, p, RowBytes(row, Minimal))
    BY <2>3 DEF Stands
  <2>5. \E e : Reached(W, Fresh(p + Len(RowBytes(row, Minimal)), Append(R, Row(row, p, e)), Outside))
    BY <1>2, <1>6, <2>2, <2>3, <2>4, RowRead
  <2>6. PICK e : Reached(W, Fresh(p + Len(RowBytes(row, Minimal)), Append(R, Row(row, p, e)), Outside))
    BY <2>5
  <2> DEFINE x == Row(row, p, e)
             Q == Append(R, x)
  <2>7. x.fields = row
    BY DEF Row
  <2> HIDE DEF x
  <2>8. IsSeq(Q) /\ Len(Q) = k + 1 /\ (\A i \in 1..k : Q[i] = R[i]) /\ Q[k + 1] = x
    BY <2>2, SeqAppends
  <2> HIDE DEF Q
  <2>9. \A i \in 1..(k + 1) : Q[i].fields = rows[i]
    <3> SUFFICES ASSUME NEW i \in 1..(k + 1) PROVE Q[i].fields = rows[i]
      OBVIOUS
    <3>1. i \in 1..k \/ i = k + 1
      OBVIOUS
    <3> QED BY <2>2, <2>7, <2>8, <3>1 DEF row
  <2>10. Reached(W, Fresh(at(k + 1), Q, Outside))
    BY <2>3, <2>6 DEF Q, x
  <2> QED BY <2>8, <2>9, <2>10
<1> HIDE DEF T
<1>12. Len(rows) \in T
  BY <1>1, <1>10, <1>11, Induction
<1>13. PICK R : /\ Reached(W, Fresh(Len(W), R, Outside))
                /\ IsSeq(R) /\ Len(R) = Len(rows)
                /\ \A i \in 1..Len(rows) : R[i].fields = rows[i]
  BY <1>1, <1>7, <1>12 DEF T
<1> DEFINE s == Fresh(Len(W), R, Outside)
<1>14. Stopped(W, s)
  <2>1. s.pos = Len(W)
    BY StMembers DEF Fresh
  <2>2. s.pos >= Len(W)
    BY <1>6, <2>1
  <2> QED BY <2>2, Zenon DEF Stopped
<1>15. s = Parse(W, Outside, TRUE)
  BY <1>6, <1>13, <1>14, ReachedLast
<1>16. ~EndsOpen(W)
  <2>1. CASE Len(W) = 0
    BY <2>1 DEF EndsOpen
  <2>2. CASE Len(W) # 0
    <3> DEFINE n == Len(rows)
    <3>1. n # 0
      BY <1>7, <2>2
    <3>2. n \in 1..n /\ n - 1 \in 0..n /\ n \in Nat
      BY <1>1, <3>1
    <3>3. /\ Len(W) = at(n - 1) + Len(parts[n]) /\ at(n - 1) \in Nat
          /\ \A k \in 1..Len(parts[n]) : W[at(n - 1) + k] = parts[n][k]
      BY <1>7, <1>9, <3>2
    <3> DEFINE last == rows[n]
               text == Delimited(last, Minimal)
               lf == <<"lf">>
    <3>4. parts[n] = text \o lf
      BY <1>4, <3>2, Zenon DEF RowBytes
    <3>5. text \in Seq(Byte)
      <4>1. \E y : IsRowText(last, Minimal, text, y)
        BY <1>2, <3>2, RowTextIs
      <4> QED BY <4>1, Zenon DEF IsRowText
    <3>6. lf \in Seq(Byte) /\ Len(lf) = 1 /\ lf[1] = "lf"
      BY DEF Byte, Separators
    <3> HIDE DEF text, lf, n
    <3>7. /\ Len(text \o lf) = Len(text) + Len(lf) /\ Len(text) \in Nat
          /\ \A i \in 1..(Len(text) + Len(lf)) : (text \o lf)[i] = IF i <= Len(text) THEN text[i] ELSE lf[i - Len(text)]
      BY <3>5, <3>6, ConcatProperties, LenProperties
    <3>8. Len(parts[n]) = Len(text) + 1 /\ parts[n][Len(text) + 1] = "lf"
      BY <3>4, <3>6, <3>7
    <3>9. W[Len(W)] = "lf"
      <4>1. Len(text) + 1 \in 1..Len(parts[n])
        BY <3>7, <3>8
      <4> QED BY <3>3, <3>8, <4>1
    <3> QED BY <3>9 DEF EndsOpen
  <2> QED BY <2>1, <2>2
<1>17. ParseAll(W).rows = R
  <2>1. ParseAll(W) = EndFeed(W, s)
    BY <1>15, Zenon DEF ParseAll
  <2>2. Good(W, s)
    BY <1>6, <1>13, ReachedIs
  <2>3. EndFeed(W, s).rows = EndRows(W, s)
    BY <2>2, EndFeedIs
  <2>4. EndRows(W, s) = R
    BY <1>16, FreshEnds
  <2> QED BY <2>1, <2>3, <2>4
<1>18. /\ IsSeq(Fields(R)) /\ Len(Fields(R)) = Len(rows)
       /\ \A i \in 1..Len(rows) : Fields(R)[i] = rows[i]
  BY <1>13, FieldsAre
<1>19. IsSeq(rows)
  BY DEF IsSeq
<1>20. Fields(R) = rows
  BY <1>18, <1>19, IsSeqEqual
<1> QED BY <1>3, <1>17, <1>20, Zenon DEF Table

(* ReadsBack, "every field survives serialization and parsing"             *)
(* (tests/test_round_trip.cpp:142): whatever rows are given, with          *)
(* delimiters, line endings and quotes anywhere in them, and however they  *)
(* are batched, flushed and moved, the parser reads them back from what    *)
(* was written.  Only a row of one empty field must not be written without *)
(* quotes: it is a blank line.                                             *)
THEOREM RowsAreReadBack ==
    ASSUME Minimal => <<(<<>>)>> \notin RowSet
    PROVE  WriterSpec => []ReadsBack
<1>1. ASSUME WriterInv, NothingLost PROVE ReadsBack
  <2> SUFFICES ASSUME NEW s \in Streams \ replaced PROVE Table(Written(s)) = given[s]
    BY DEF ReadsBack
  <2>1. Written(s) = Rendered(given[s])
    BY <1>1, Zenon DEF NothingLost
  <2>2. given[s] \in Seq(RowSet)
    BY <1>1 DEF WriterInv, GivenType
  <2> DEFINE rows == given[s]
  <2> HIDE DEF rows
  <2>3. Table(Rendered(rows)) = rows
    BY <2>2, RenderedRead DEF rows
  <2> QED BY <2>1, <2>3 DEF rows
<1> QED BY <1>1, SpecInv, NoRowIsLost, PTL
=============================================================================
