--------------------------- MODULE RenderedTables ---------------------------
(***************************************************************************)
(* Tables as other programs write them (RFC 4180 and its relatives): every *)
(* field quoted or not as its content allows, every record ended by CR,    *)
(* LF or CR LF, a blank line anywhere, the last record with or without an  *)
(* ending.  A table and its text grow together; the parser must make the   *)
(* one of the other.                                                       *)
(***************************************************************************)
EXTENDS FormatGuess

CONSTANTS Contents,  \* the fields' contents
          MaxBytes   \* bound: the text's length

VARIABLES text, table, closed

vars == <<text, table, closed>>

Endings == { <<"lf">>, <<"cr">>, <<"cr", "lf">> }

Quoted(content) ==
    <<"quote">> \o FlattenSeq([i \in DOMAIN content |->
        IF content[i] = "quote" THEN <<"quote", "quote">> ELSE <<content[i]>>]) \o <<"quote">>

IsPlain(content) == \A i \in DOMAIN content : content[i] \in {"other", "rival"}

(* The ways to write a field. *)
Forms(content) == {Quoted(content)} \cup (IF IsPlain(content) THEN {content} ELSE {})

(* The ways to write a record; one of a single empty field has to be       *)
(* quoted.                                                                 *)
Written(record) ==
    LET add(texts, content) == {t \o <<"delim">> \o form : t \in texts, form \in Forms(content)}
        first == Forms(record[1]) \ (IF Len(record) = 1 THEN { <<>> } ELSE {})
    IN  FoldLeft(add, first, Tail(record))

Records == {<<a>> : a \in Contents} \cup {<<a, b>> : a, b \in Contents} \cup {<<<<>>, <<>>, <<>>>>}

Init == text = <<>> /\ table = <<>> /\ closed = FALSE

Add(row, bytes, last) ==
    /\ ~closed
    /\ Len(text \o bytes) <= MaxBytes
    /\ text' = text \o bytes
    /\ table' = Append(table, row)
    /\ closed' = last

Record ==
    \E record \in Records : \E bytes \in Written(record), ending \in Endings :
        Add(record, bytes \o ending, FALSE)

LastRecord == \E record \in Records : \E bytes \in Written(record) : Add(record, bytes, TRUE)

(* After a CR, a line that starts with LF would be no blank line. *)
BlankLine ==
    \E ending \in Endings :
        /\ ~(text # <<>> /\ Last(text) = "cr" /\ ending[1] = "lf")
        /\ Add(<<>>, ending, FALSE)

Next == Record \/ LastRecord \/ BlankLine

Spec == Init /\ [][Next]_vars

-----------------------------------------------------------------------------
(* JOURNEY_OF_A_CSV_FIELD.md:83, what CSVParserCore handles: delimiters,   *)
(* quotes, doubled quotes, CR, LF and CR LF endings.  The parser's rows    *)
(* are the table's records, field by field.                                *)
SeenTable == [i \in DOMAIN table |-> [c \in DOMAIN table[i] |-> Seen(table[i][c], "delim")]]
ReadsTable == Table(Seen(text, "delim")) = SeenTable

-----------------------------------------------------------------------------
(* What the setters of CSVFormat promise of a format: the delimiter or the *)
(* header row that was set last, or "guess", and whether names were; after *)
(* header_row() no header is guessed for them any more.                    *)
Told(format) == [format |-> format, delim |-> "guess", header |-> "guess", names |-> FALSE,
                 rowSet |-> FALSE]

Tell(t) ==
    {[t EXCEPT !.format = Delimiter(@, <<"delim">>), !.delim = "delim"]}
    \cup {[t EXCEPT !.format = Delimiter(@, delims), !.delim = "guess"] :
              delims \in {<<"rival", "delim">>, <<"delim", "rival">>}}
    \cup {[t EXCEPT !.format = HeaderRow(@, row), !.header = ToString(row), !.names = FALSE,
                    !.rowSet = TRUE] : row \in {-1, 1}}
    \cup {[t EXCEPT !.format = ColumnNames(@), !.header = "guess", !.names = TRUE]}

(* The formats after up to four calls. *)
Configured ==
    LET more(formats, i) == formats \cup UNION {Tell(t) : t \in formats}
    IN  FoldLeft(more, {Told(GuessCsv), [Told(Format) EXCEPT !.delim = "delim"]}, <<1, 2, 3, 4>>)

(* A table whose delimiter and width the heuristic should find: most       *)
(* records have two fields, and no field holds an ending or the rival.     *)
Guessable ==
    LET count(n) == Cardinality({i \in DOMAIN table : Len(table[i]) = n})
    IN  /\ count(2) > count(1) + count(3) /\ 2 * count(2) > 3 * count(3)
        /\ \A i \in DOMAIN table : \A c \in DOMAIN table[i] : \A k \in DOMAIN table[i][c] :
              table[i][c][k] \in {"other", "quote", "delim"}

(* driver.hpp:88: "If the first row has >= columns than the mode, it's     *)
(* treated as the header", otherwise "the first row with the mode length". *)
HeaderOf ==
    IF Len(table[1]) >= 2 THEN 0 ELSE Min({i \in DOMAIN table : Len(table[i]) = 2}) - 1

(* A reader's format is the one its CSVFormat was told, in whatever order  *)
(* (issues #195, #285), and the table's where it was told nothing.         *)
FormatResolved ==
    Guessable =>
        \A t \in Configured : \A r \in Resolve(t.format, text) :
            /\ r.delim = "delim"
            /\ r.names = t.names
            /\ CASE t.header # "guess" -> ToString(r.header) = t.header
                 [] t.names /\ (t.delim # "guess" \/ t.rowSet) -> r.header = -1
                 [] OTHER -> r.header = HeaderOf /\ r.n_cols = 2
=============================================================================
