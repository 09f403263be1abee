---------------------------- MODULE FormatGuess ----------------------------
(***************************************************************************)
(* The format a reader ends up with: what its CSVFormat was told, and what *)
(* guess_format() makes of the head of the source for the rest.            *)
(*   src/include/internal/csv_format.{hpp,cpp}, parser/guessing.cpp,       *)
(*   CSVParserDriverBase::resolve_format_from_head in parser/driver.cpp    *)
(*                                                                         *)
(* A source has two bytes that may be its delimiter: "delim", and "rival", *)
(* which somebody else might use.  Quotes are on and are the default ones, *)
(* which the guess takes for granted.                                      *)
(***************************************************************************)
EXTENDS ParserCore, SequencesExt, FiniteSetsExt

Delimiters == {"delim", "rival"}

(* The bytes as a parser sees them whose delimiter is d. *)
Seen(in, d) ==
    [i \in DOMAIN in |-> IF in[i] = d THEN "delim"
                         ELSE IF in[i] \in Delimiters THEN "other" ELSE in[i]]

-----------------------------------------------------------------------------
(* CSVFormat and its setters. *)

Format == [delims |-> <<"delim">>, header |-> 0, header_set |-> FALSE,
           names |-> FALSE, names_set |-> FALSE, policy |-> "IGNORE_ROW"]

Delimiter(f, delims) == [f EXCEPT !.delims = delims]

GuessCsv == Delimiter(Format, <<"rival", "delim">>)

ColumnNames(f) == [f EXCEPT !.names = TRUE, !.names_set = TRUE, !.header = -1]

HeaderRow(f, row) ==
    [f EXCEPT !.header = row, !.header_set = TRUE, !.names = FALSE, !.names_set = FALSE,
              !.policy = IF row < 0 THEN "KEEP" ELSE @]

-----------------------------------------------------------------------------
(* The possible results of calculate_score(): the tallies of row lengths   *)
(* are visited in no particular order, so any of the best may be the mode. *)
(* Rows count from 0, blank lines among them.                              *)
CalculateScore(head, d) ==
    LET rows == Table(Seen(head, d))
        numbers(n) == {i \in DOMAIN rows : Len(rows[i]) = n}
        lengths == {Len(rows[i]) : i \in DOMAIN rows} \ {0}
        score(n) == n * Cardinality(numbers(n))
        best == {n \in lengths : \A k \in lengths : score(k) <= score(n)}
        header(n) == IF Len(rows[1]) >= n THEN 0 ELSE Min(numbers(n)) - 1
    IN  IF lengths = {} THEN {[score |-> 0, header |-> 0, n_cols |-> 0]}
        ELSE {[score |-> score(n), header |-> header(n), n_cols |-> n] : n \in best}

(* The first delimiter with the highest score. *)
GuessFormat(head, delims) ==
    LET try(guesses, d) ==
            {IF result.score > guess.score THEN result @@ [delim |-> d] ELSE guess :
                guess \in guesses, result \in CalculateScore(head, d)}
    IN  FoldLeft(try, {[delim |-> delims[1], score |-> 0, header |-> 0, n_cols |-> 0]}, delims)

(* Mutant: a header that was set is guessed again. *)
ResolveAnew(f, head) ==
    {[delim |-> guess.delim, header |-> guess.header, names |-> f.names, n_cols |-> guess.n_cols] :
        guess \in GuessFormat(head, f.delims)}

(* resolve_format_from_head() *)
Resolve(f, head) ==
    LET infer_delimiter == Len(f.delims) > 1
        infer_header == ~f.header_set /\ (infer_delimiter \/ ~f.names_set)
        infer_n_cols == f.header < 0 /\ ~f.names
    IN  IF ~(infer_delimiter \/ infer_header \/ infer_n_cols)
        THEN {[delim |-> f.delims[1], header |-> f.header, names |-> f.names, n_cols |-> 0]}
        ELSE {[delim |-> IF infer_delimiter THEN guess.delim ELSE f.delims[1],
               header |-> IF infer_header THEN guess.header ELSE f.header,
               names |-> f.names,
               n_cols |-> guess.n_cols] : guess \in GuessFormat(head, f.delims)}
=============================================================================
