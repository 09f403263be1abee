--------------------------- MODULE LazyRowReader ---------------------------
(***************************************************************************)
(* The row reader of fastpycsv, which filters a batch at a time and hands  *)
(* the rows out one by one: LazyCSVRowReader.  lists(), tuples() and       *)
(* dicts() share its position, and their chunks are repeated calls of      *)
(* read_next_row().                                                        *)
(*   src/python/fastpycsv_reader.cpp                                       *)
(***************************************************************************)
EXTENDS RowPredicates, SequencesExt

CONSTANTS
  Files,      (* sequences of rows                                        *)
  BatchSizes, (* of at least one row                                      *)
  Filters     (* predicates, sets of clauses                              *)

ASSUME ReaderAssumption ==
    /\ BatchSizes \subseteq Nat \ {0}
    /\ \A file \in Files : file \in Seq({file[i] : i \in DOMAIN file})

VARIABLES
  rows, size,       (* the file and batch_size_                           *)
  predicate,        (* predicate_, {} when there is none                  *)
  rows_read,        (* rows read from reader_                             *)
  pending_rows,     (* numbers of the rows read ahead and not handed out  *)
  delivered,        (* numbers of the rows handed out                     *)
  answer            (* how the last call ended                            *)

readerVars == <<rows, size, predicate, rows_read, pending_rows, delivered, answer>>

ReaderInit ==
    /\ rows \in Files /\ size \in BatchSizes
    /\ predicate = {} /\ rows_read = 0 /\ pending_rows = <<>>
    /\ delivered = <<>> /\ answer = "none"

(* Mutant: the rows read ahead under the old filter stay. *)
KeepRowsReadAhead(p, append) ==
    /\ predicate' = IF append THEN predicate \cup p ELSE p
    /\ answer' = "none"
    /\ UNCHANGED <<rows, size, rows_read, pending_rows, delivered>>

(* filter(predicate, append); the facade refuses None. *)
SetFilter(p, append) ==
    /\ predicate' = IF append THEN predicate \cup p ELSE p
    /\ pending_rows' = <<>>
    /\ answer' = "none"
    /\ UNCHANGED <<rows, size, rows_read, delivered>>

HandOut(i) == delivered' = Append(delivered, i) /\ answer' = "row"

(* Without a filter rows come straight from the CSVReader. *)
ReadRow ==
    /\ predicate = {} /\ rows_read < Len(rows)
    /\ HandOut(rows_read + 1)
    /\ rows_read' = rows_read + 1
    /\ UNCHANGED <<rows, size, predicate, pending_rows>>

TakePending ==
    /\ predicate # {} /\ pending_rows # <<>>
    /\ HandOut(Head(pending_rows))
    /\ pending_rows' = Tail(pending_rows)
    /\ UNCHANGED <<rows, size, predicate, rows_read>>

(* Rows of the batch that starts at `from` which pass. *)
MatchesFrom(from) ==
    LET batch == SubSeq(rows, from + 1, Min({from + size, Len(rows)}))
        matches == Matches(predicate, batch)
        kept[i \in 0..Len(batch)] ==
            IF i = 0 THEN <<>>
            ELSE IF matches[i] THEN Append(kept[i - 1], from + i) ELSE kept[i - 1]
    IN  kept[Len(batch)]

(* read_filtered_chunk(): batches are read until one holds a row that      *)
(* passes, whose first one is handed out.                                  *)
ReadFilteredChunk ==
    /\ predicate # {} /\ pending_rows = <<>>
    /\ \E n \in 0..Len(rows) :
         LET from == rows_read + n * size
         IN  /\ from < Len(rows) /\ MatchesFrom(from) # <<>>
             /\ \A h \in 0..(n - 1) : MatchesFrom(rows_read + h * size) = <<>>
             /\ HandOut(Head(MatchesFrom(from)))
             /\ pending_rows' = Tail(MatchesFrom(from))
             /\ rows_read' = Min({from + size, Len(rows)})
    /\ UNCHANGED <<rows, size, predicate>>

NoMoreRows ==
    /\ IF predicate = {} THEN rows_read = Len(rows)
       ELSE /\ pending_rows = <<>>
            /\ \A i \in rows_read + 1 .. Len(rows) : ~MatchesRow(predicate, rows[i])
    /\ rows_read' = Len(rows) /\ answer' = "end"
    /\ UNCHANGED <<rows, size, predicate, pending_rows, delivered>>

ReaderNext ==
    \/ \E p \in Filters, append \in BOOLEAN : SetFilter(p, append)
    \/ ReadRow \/ TakePending \/ ReadFilteredChunk \/ NoMoreRows

ReaderSpec == ReaderInit /\ [][ReaderNext]_readerVars

-----------------------------------------------------------------------------
(* Everything before the first row read ahead has been dealt with. *)
Stream == INSTANCE FilteredRows WITH
    Passes <- MatchesRow, filter <- predicate,
    passed <- IF pending_rows = <<>> THEN rows_read ELSE Head(pending_rows) - 1

(* The reader that works in batches, on several threads, hands out the     *)
(* stream of the rows that pass, in order, none twice, none that the       *)
(* filter in force rejects, and none missing except for what a filter set  *)
(* half-way finds read ahead.  (docs/api.md, reader.filter().)             *)
FilteredStream == Stream!Spec
=============================================================================
