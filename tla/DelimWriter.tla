---------------------------- MODULE DelimWriter ----------------------------
(***************************************************************************)
(* DelimWriter: rows are escaped into a batch buffer that is written to    *)
(* the output stream at once, when it has grown, on flush() or by the      *)
(* destructor (src/include/internal/csv_writer.hpp).  Writers are movable, *)
(* buffer and stream pointer included.                                     *)
(*                                                                         *)
(* Bytes are the classes of module ParserCore, so that what was written    *)
(* can be read by the library's own parser.  A field given as a number is  *)
(* written as the text of module NumberText, which needs no escaping.      *)
(***************************************************************************)
EXTENDS ParserCore, SequencesExt

None == "none"

CONSTANTS Streams,     \* the output streams; each starts with a writer of its own
          RowSet,      \* the rows a caller may write
          Minimal,     \* quote_minimal
          Threshold,   \* batch_flush_threshold_ (64 KiB)
          MaxRows      \* bound: rows written to a stream

ASSUME WriterAssumption ==
    /\ None \notin Streams
    /\ RowSet \subseteq Seq(Seq(Byte))
    /\ Minimal \in BOOLEAN
    /\ Threshold \in Nat \ {0} /\ MaxRows \in Nat

VARIABLES writer,    \* per writer: its stream (out), batch_buffer_, auto_flush_ and quote_minimal
          content,   \* per stream: the bytes written to it
          given,     \* per stream: the rows the callers wrote
          replaced   \* the streams whose writer was assigned over with rows in its buffer

writerVars == <<writer, content, given, replaced>>

(* Each stream's writer is named after it. *)
Writers == Streams

-----------------------------------------------------------------------------
(* write_escaped_field() and write_quoted_field(). *)
Doubled(field) ==
    FlattenSeq([i \in DOMAIN field |->
        IF field[i] = "quote" THEN <<"quote", "quote">> ELSE <<field[i]>>])

(* Mutant: a CR does not ask for quotes. *)
NeedsQuotesButForCr(field) ==
    \E i \in DOMAIN field : field[i] \in {"delim", "lf", "quote"}

NeedsQuotes(field) ==
    \E i \in DOMAIN field : field[i] \in Separators \cup {"quote"}

Escaped(field, minimal) ==
    IF NeedsQuotes(field) \/ ~minimal
    THEN <<"quote">> \o Doubled(field) \o <<"quote">>
    ELSE field

Delimited(row, minimal) ==
    FlattenSeq([i \in DOMAIN row |->
        (IF i = 1 THEN <<>> ELSE <<"delim">>) \o Escaped(row[i], minimal)])

(* One row with its end_record(). *)
RowBytes(row, minimal) == Delimited(row, minimal) \o <<"lf">>

-----------------------------------------------------------------------------
WriterInit ==
    /\ writer = [w \in Writers |-> [out |-> w, buffer |-> <<>>, autoFlush |-> TRUE,
                                    minimal |-> Minimal]]
    /\ content = [s \in Streams |-> <<>>]
    /\ given = [s \in Streams |-> <<>>]
    /\ replaced = {}

(* The batch buffer holds these bytes; it is written out if the condition  *)
(* holds (flush_batch(), flush_batch_if_needed()).                         *)
Batch(w, bytes, flush) ==
    LET s == writer[w].out
    IN  /\ writer' = [writer EXCEPT ![w].buffer = IF flush THEN <<>> ELSE bytes]
        /\ content' = IF flush THEN [content EXCEPT ![s] = @ \o bytes] ELSE content

(* operator<< and write_row(): one row, then finish_write_call(). *)
WriteRow(w, row) ==
    /\ writer[w].out # None
    /\ Len(given[writer[w].out]) < MaxRows
    /\ LET bytes == writer[w].buffer \o RowBytes(row, writer[w].minimal)
       IN  Batch(w, bytes, writer[w].autoFlush \/ Len(bytes) >= Threshold)
    /\ given' = [given EXCEPT ![writer[w].out] = Append(@, row)]
    /\ UNCHANGED replaced

(* write_rows(): the batch is flushed between rows when it has grown. *)
WriteRows(w, first, second) ==
    /\ writer[w].out # None
    /\ Len(given[writer[w].out]) + 1 < MaxRows
    /\ LET s == writer[w].out
           one == writer[w].buffer \o RowBytes(first, writer[w].minimal)
           full == Len(one) >= Threshold
           two == (IF full THEN <<>> ELSE one) \o RowBytes(second, writer[w].minimal)
           flush == writer[w].autoFlush \/ Len(two) >= Threshold
       IN  /\ writer' = [writer EXCEPT ![w].buffer = IF flush THEN <<>> ELSE two]
           /\ content' = [content EXCEPT ![s] =
                  @ \o (IF full THEN one ELSE <<>>) \o (IF flush THEN two ELSE <<>>)]
           /\ given' = [given EXCEPT ![s] = @ \o <<first, second>>]
    /\ UNCHANGED replaced

Flush(w) ==
    /\ writer[w].out # None
    /\ Batch(w, writer[w].buffer, TRUE)
    /\ UNCHANGED <<given, replaced>>

SetAutoFlush(w, value) ==
    /\ writer' = [writer EXCEPT ![w].autoFlush = value]
    /\ UNCHANGED <<content, given, replaced>>

(* Mutant: the stream pointer is kept. *)
MovedFromWithStream(v) == [writer[v] EXCEPT !.buffer = <<>>, !.minimal = TRUE]

(* A moved-from writer has no stream; its quote_minimal is reset. *)
MovedFrom(v) == [out |-> None, buffer |-> <<>>, autoFlush |-> writer[v].autoFlush,
                 minimal |-> TRUE]

(* w = std::move(v), the move constructor when w's object was moved from   *)
(* or destroyed.  w's own buffer is overwritten.                           *)
MoveTo(w, v) ==
    /\ w # v
    /\ writer' = [writer EXCEPT ![w] = writer[v], ![v] = MovedFrom(v)]
    /\ replaced' = IF writer[w].buffer # <<>> THEN replaced \cup {writer[w].out} ELSE replaced
    /\ UNCHANGED <<content, given>>

(* Mutant: the destructor does not flush the batch. *)
DestroyUnflushed(w) ==
    /\ writer[w].out # None
    /\ writer' = [writer EXCEPT ![w].out = None, ![w].buffer = <<>>]
    /\ UNCHANGED <<content, given, replaced>>

(* The destructor of a writer that still has a stream. *)
Destroy(w) ==
    /\ writer[w].out # None
    /\ LET s == writer[w].out
       IN  content' = [content EXCEPT ![s] = @ \o writer[w].buffer]
    /\ writer' = [writer EXCEPT ![w].out = None, ![w].buffer = <<>>]
    /\ UNCHANGED <<given, replaced>>

WriterNext ==
    \E w \in Writers :
        \/ \E row \in RowSet : WriteRow(w, row)
        \/ \E first, second \in RowSet : WriteRows(w, first, second)
        \/ Flush(w)
        \/ \E value \in BOOLEAN : SetAutoFlush(w, value)
        \/ \E v \in Writers : MoveTo(w, v)
        \/ Destroy(w)

WriterSpec == WriterInit /\ [][WriterNext]_writerVars

-----------------------------------------------------------------------------
(* The bytes of a stream's rows still in a buffer. *)
Pending(s) ==
    LET holders == {w \in Writers : writer[w].out = s}
    IN  IF holders = {} THEN <<>> ELSE writer[CHOOSE w \in holders : TRUE].buffer

Written(s) == content[s] \o Pending(s)
Rendered(rows) == FlattenSeq([i \in DOMAIN rows |-> RowBytes(rows[i], Minimal)])

(* The types of the writers and of the history; a writer without a stream  *)
(* holds no rows back.                                                     *)
TypeOK ==
    /\ \A w \in Writers :
          /\ writer[w].out \in Streams \cup {None}
          /\ writer[w].buffer # <<>> => writer[w].out # None
          /\ writer[w].autoFlush \in BOOLEAN /\ writer[w].minimal \in BOOLEAN
    /\ replaced \subseteq Streams
    /\ \A s \in Streams : Len(given[s]) <= MaxRows

(* A stream has one writer at most, whatever was moved where: no two       *)
(* destructors flush to it.                                                *)
OneWriterPerStream ==
    \A w, v \in Writers : writer[w].out # None /\ writer[w].out = writer[v].out => w = v

(* Every row given for a stream is on the stream or in its writer's        *)
(* buffer, in the order given and quoted as its first writer was told,     *)
(* across flushes, moves and destruction.  The exception is a writer that  *)
(* was assigned over: its buffer is overwritten (line 296), not written.   *)
NothingLost == \A s \in Streams \ replaced : Written(s) = Rendered(given[s])

(* tests/test_round_trip.cpp:142, "every field survives serialization and  *)
(* parsing": what the writer wrote, the parser reads as the rows given.    *)
(* The exception is a row of one empty field, which RowSet leaves out.     *)
ReadsBack == \A s \in Streams \ replaced : Table(Written(s)) = given[s]
=============================================================================
