----------------------------- MODULE ParserCore -----------------------------
(***************************************************************************)
(* CSVParserCore: the byte loop that turns one chunk of a source into rows *)
(* (src/include/internal/parser/core.hpp).  The parser is a function of    *)
(* the chunk and of the DFA state it starts in, so it is written as        *)
(* operators on a record s that holds the members the loop assigns:        *)
(*                                                                         *)
(*   pos       data_pos_                 fieldStart   field_start_         *)
(*   rowStart  current_row_.data_start   fieldLength  field_length_        *)
(*   fields    the current row's fields  doubled      field_has_double_... *)
(*   rows      the rows emitted so far   dfa          the ParserDFAState   *)
(*                                                                         *)
(* A byte is its ParseFlags class, which is all the loop looks at.  The    *)
(* three bytes of a UTF-8 byte order mark are one class, "bom", which may  *)
(* stand at the start of a source.  Positions count from 0, as in the      *)
(* code.                                                                   *)
(***************************************************************************)
EXTENDS Integers, Sequences

Separators == {"delim", "cr", "lf"}
Byte == Separators \cup {"quote", "other"}

Unset == -1

Outside == [quoted |-> FALSE, pendingQuote |-> FALSE, pendingLinefeed |-> FALSE]
Inside == [Outside EXCEPT !.quoted = TRUE]

(* The class of the byte at position i, and "end" beyond the last one. *)
Flag(in, i) == IF i < Len(in) THEN in[i + 1] ELSE "end"

(* The byte at i is part of a run of field content: compound_parse_flag    *)
(* makes everything but a quote ordinary content inside quotes.            *)
IsContent(in, i, quoted) ==
    /\ i < Len(in)
    /\ IF quoted THEN in[i + 1] # "quote" ELSE in[i + 1] \in {"other", "bom"}

RunEnd(in, i, quoted) ==
    CHOOSE j \in i..Len(in) :
        /\ ~IsContent(in, j, quoted)
        /\ \A k \in i..(j - 1) : IsContent(in, k, quoted)

-----------------------------------------------------------------------------
(* Every pair of quotes becomes one, scanned from the left: quote i goes   *)
(* exactly when it is the second of a pair.                                *)
Undouble(raw) ==
    LET second[i \in 0..Len(raw)] ==
            /\ i > 1
            /\ raw[i] = "quote"
            /\ raw[i - 1] = "quote"
            /\ ~second[i - 1]
        kept[i \in 0..Len(raw)] ==
            IF i = 0 THEN <<>>
            ELSE IF second[i] THEN kept[i - 1] ELSE Append(kept[i - 1], raw[i])
    IN  kept[Len(raw)]

FieldBytes(in, s) ==
    LET first == s.rowStart + (IF s.fieldStart = Unset THEN 0 ELSE s.fieldStart)
        past == first + s.fieldLength
    IN  SubSeq(in, first + 1, IF past < Len(in) THEN past ELSE Len(in))

PushField(in, s) ==
    LET raw == FieldBytes(in, s)
    IN  [s EXCEPT !.fields = Append(@, IF s.doubled THEN Undouble(raw) ELSE raw),
                  !.doubled = FALSE,
                  !.fieldStart = Unset,
                  !.fieldLength = 0]

PushRow(s, rawEnd) ==
    [s EXCEPT !.rows = Append(@, [fields |-> s.fields, start |-> s.rowStart, end |-> rawEnd])]

(* A record ends at rawEnd; the next one starts at s.pos. *)
FinishRow(in, s, rawEnd) ==
    LET hasField == s.fieldLength > 0 \/ s.fieldStart # Unset \/ s.fields # <<>>
        t == PushRow(IF hasField THEN PushField(in, s) ELSE s, rawEnd)
    IN  [t EXCEPT !.fields = <<>>, !.rowStart = s.pos]

-----------------------------------------------------------------------------
(* The cases of the switch in parse(). *)
AtDelimiter(in, s) == [PushField(in, s) EXCEPT !.pos = @ + 1]

AtNewline(in, s) == FinishRow(in, [s EXCEPT !.pos = @ + 1], s.pos)

(* Mutant: a CR ends the record whatever follows. *)
AtCarriageReturnAlone(in, s) ==
    FinishRow(in, [s EXCEPT !.pos = @ + 1,
                            !.dfa.pendingLinefeed = @ \/ Flag(in, s.pos + 1) = "end"], s.pos)

AtCarriageReturn(in, s) ==
    LET next == Flag(in, s.pos + 1)
    IN  FinishRow(in, [s EXCEPT !.pos = @ + (IF next = "lf" THEN 2 ELSE 1),
                                !.dfa.pendingLinefeed = @ \/ next = "end"], s.pos)

AtContent(in, s) ==
    LET start == IF s.fieldStart = Unset THEN s.pos - s.rowStart ELSE s.fieldStart
        end == RunEnd(in, s.pos, s.dfa.quoted)
    IN  [s EXCEPT !.fieldStart = start, !.pos = end,
                  !.fieldLength = end - (start + s.rowStart)]

AtQuoteInQuotes(in, s) ==
    LET next == Flag(in, s.pos + 1)
    IN  CASE next = "end" -> [s EXCEPT !.dfa.pendingQuote = TRUE]
          [] next \in Separators -> [s EXCEPT !.dfa.quoted = FALSE, !.pos = @ + 1]
          [] next = "quote" -> [s EXCEPT !.pos = @ + 2, !.fieldLength = @ + 2, !.doubled = TRUE]
          [] OTHER -> [s EXCEPT !.pos = @ + 1, !.fieldLength = @ + 1]

AtQuote(in, s) ==
    IF s.fieldLength > 0
    THEN [s EXCEPT !.pos = @ + 1, !.fieldLength = @ + 1]
    ELSE [s EXCEPT !.dfa.quoted = TRUE, !.pos = @ + 1,
                   !.fieldStart = IF @ = Unset /\ s.pos + 1 < Len(in)
                                  THEN s.pos + 1 - s.rowStart ELSE @]

(* One turn of the loop. *)
Step(in, s) ==
    LET flag == Flag(in, s.pos)
    IN  CASE flag = "quote" /\ s.dfa.quoted  -> AtQuoteInQuotes(in, s)
          [] flag = "quote" /\ ~s.dfa.quoted -> AtQuote(in, s)
          [] flag = "delim" /\ ~s.dfa.quoted -> AtDelimiter(in, s)
          [] flag = "cr" /\ ~s.dfa.quoted    -> AtCarriageReturn(in, s)
          [] flag = "lf" /\ ~s.dfa.quoted    -> AtNewline(in, s)
          [] OTHER                           -> AtContent(in, s)

(* The loop has read the chunk, or has met a quote whose meaning depends   *)
(* on the next chunk's first byte.                                         *)
Stopped(in, s) == s.pos >= Len(in) \/ s.dfa.pendingQuote

Turn(in, s) == IF Stopped(in, s) THEN s ELSE Step(in, s)

-----------------------------------------------------------------------------
StripBom(in, s, scanBom) ==
    IF scanBom /\ Flag(in, s.pos) = "bom" THEN [s EXCEPT !.pos = @ + 1] ELSE s

ResolvePendingLinefeed(in, s) ==
    IF ~s.dfa.pendingLinefeed \/ s.pos >= Len(in) THEN s
    ELSE LET t == [s EXCEPT !.dfa.pendingLinefeed = FALSE]
         IN  IF Flag(in, s.pos) = "lf"
             THEN [t EXCEPT !.pos = @ + 1, !.rowStart = s.pos + 1]
             ELSE t

ResolvePendingQuote(in, s) ==
    IF ~s.dfa.pendingQuote \/ s.pos >= Len(in) THEN s
    ELSE LET next == Flag(in, s.pos)
             t == [s EXCEPT !.dfa.pendingQuote = FALSE, !.dfa.quoted = next \notin Separators]
         IN  CASE next \in Separators -> t
               [] next = "quote" -> [t EXCEPT !.doubled = TRUE, !.fieldLength = @ + 1, !.pos = @ + 1]
               [] OTHER -> [t EXCEPT !.fieldLength = @ + 1]

Begin(in, dfa, scanBom) ==
    LET fresh == [pos |-> 0, rowStart |-> 0, fieldStart |-> Unset, fieldLength |-> 0,
                  doubled |-> FALSE, fields |-> <<>>, rows |-> <<>>, dfa |-> dfa]
    IN  ResolvePendingQuote(in, ResolvePendingLinefeed(in, StripBom(in, fresh, scanBom)))

(* parse_chunk(): the loop, until it stops; a turn takes a byte or ends    *)
(* the loop.  s.rows are the chunk's rows, s.rowStart the length of its    *)
(* prefix of complete rows and s.dfa its ending state.                     *)
Parse(in, dfa, scanBom) ==
    LET turns[n \in 0..(Len(in) + 1)] ==
            IF n = 0 THEN Begin(in, dfa, scanBom) ELSE Turn(in, turns[n - 1])
    IN  turns[Len(in) + 1]

(* end_feed(): no more bytes follow the chunk, whose loop ended in s. *)
EndFeed(in, s) ==
    LET emptyLastField == Len(in) > 0 /\ in[Len(in)] \in {"delim", "quote"}
        t == IF s.fieldLength > 0 \/ emptyLastField THEN PushField(in, s) ELSE s
    IN  IF t.fields # <<>> THEN PushRow(t, Len(in)) ELSE t

(* Mutant: the pending linefeed is forgotten with the rest. *)
CarriedNever(dfa) == Outside

(* The state the next parse_chunk() without options starts in. *)
Carried(dfa) == IF dfa.pendingLinefeed THEN dfa ELSE Outside

-----------------------------------------------------------------------------
Fields(rows) == [i \in DOMAIN rows |-> rows[i].fields]

(* What the parser makes of a whole source given to it as one chunk. *)
ParseAll(in) == EndFeed(in, Parse(in, Outside, TRUE))
Table(in) == Fields(ParseAll(in).rows)
=============================================================================
