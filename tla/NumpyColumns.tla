---------------------------- MODULE NumpyColumns ----------------------------
(***************************************************************************)
(* How fastpycsv builds a NumPy array from the cells of one column without *)
(* knowing its type: NumpyColumnBuffer and NumpyColumnPlan.                *)
(*   src/python/fastpycsv_numpy.cpp                                        *)
(*                                                                         *)
(* A cell has a kind (what classify_field_scalar() finds), its text, and   *)
(* the number it stands for, TRUE being "1".  Of the vectors ints, floats, *)
(* bools and strings one at most is in use: it is `list`.                  *)
(***************************************************************************)
EXTENDS Naturals, Sequences, SequencesExt

CellKinds == {"NULL", "INT64", "FLOAT64", "BOOL", "STRING"}

(* Values: <<"INT64", n>>, <<"BOOL", n>>, <<"FLOAT64", x>>, <<"STRING", s>>, *)
(* an integer or truth value as a double, and NaN.                         *)
Text(cell) == <<"STRING", cell.text>>
AsDouble(n) == <<"double", n>>
NaN == <<"nan">>
NoText == <<"STRING", "">>
Repeated(value, n) == [i \in 1..n |-> value]

Plan == [kind |-> "UNKNOWN", nullable |-> FALSE]
StringPlan == [Plan EXCEPT !.kind = "STRING"]
Buffer(plan) ==
    [kind |-> plan.kind, nullable |-> plan.nullable, list |-> <<>>, floats |-> FALSE,
     seen |-> 0, replay |-> FALSE]

StorageKind(b) ==
    IF b.kind = "STRING" \/ (b.kind \in {"INT64", "BOOL"} /\ ~b.nullable)
    THEN b.kind ELSE "FLOAT64"

Push(b, value) == [b EXCEPT !.list = Append(@, value), !.seen = @ + 1]

AppendFloat(b, cell) ==
    Push([b EXCEPT !.floats = TRUE],
         IF cell.kind = "FLOAT64" THEN <<"FLOAT64", cell.value>> ELSE AsDouble(cell.value))

(* Mutant: what was stored is not converted. *)
PromoteFromNow(b) == [b EXCEPT !.floats = TRUE]

PromoteToFloat(b) ==
    IF b.floats THEN b
    ELSE [b EXCEPT !.floats = TRUE, !.list = [i \in DOMAIN @ |-> AsDouble(@[i][2])]]

(* What was stored is dropped: the column is to be read again as strings.  *)
RequestStringReplay(b) ==
    [b EXCEPT !.kind = "STRING", !.nullable = FALSE, !.replay = TRUE, !.floats = FALSE,
              !.list = <<>>, !.seen = @ + 1]

AppendNull(b) ==
    LET nullable == [b EXCEPT !.nullable = TRUE]
    IN  IF b.kind = "UNKNOWN" THEN [nullable EXCEPT !.seen = @ + 1]
        ELSE Push(PromoteToFloat(nullable), NaN)

AppendStringish(b, cell) ==
    IF b.kind = "UNKNOWN"
    THEN Push([b EXCEPT !.kind = "STRING", !.list = Repeated(NoText, b.seen)], Text(cell))
    ELSE RequestStringReplay(b)

StartTypedColumn(b, cell) ==
    LET typed == [b EXCEPT !.kind = cell.kind]
    IN  IF b.nullable \/ cell.kind = "FLOAT64"
        THEN AppendFloat([typed EXCEPT !.list = Repeated(NaN, b.seen)], cell)
        ELSE Push(typed, <<cell.kind, cell.value>>)

AppendCurrentKind(b, cell) ==
    IF StorageKind(b) = "FLOAT64" THEN AppendFloat(b, cell)
    ELSE Push(b, <<cell.kind, cell.value>>)

AppendCasted(b, cell) ==
    CASE b.replay -> [b EXCEPT !.seen = @ + 1]
      [] ~b.replay /\ b.kind = "STRING" -> Push(b, Text(cell))
      [] b.kind # "STRING" /\ cell.kind = "NULL" -> AppendNull(b)
      [] b.kind # "STRING" /\ cell.kind = "STRING" -> AppendStringish(b, cell)
      [] b.kind = "UNKNOWN" /\ cell.kind \notin {"NULL", "STRING"} -> StartTypedColumn(b, cell)
      [] b.kind = cell.kind /\ b.kind # "STRING" -> AppendCurrentKind(b, cell)
      [] {b.kind, cell.kind} = {"INT64", "FLOAT64"} ->
            AppendFloat([PromoteToFloat(b) EXCEPT !.kind = "FLOAT64"], cell)
      [] "BOOL" \in {b.kind, cell.kind} /\ {b.kind, cell.kind} \cap {"INT64", "FLOAT64"} # {} ->
            RequestStringReplay(b)

(* append_numpy_column(): cells of a column whose type is being found. *)
AppendInferring(b, cell) ==
    IF StorageKind(b) = "STRING" /\ ~b.replay THEN Push(b, Text(cell)) ELSE AppendCasted(b, cell)

(* append_fixed_casted(): cells of a column whose type is given.  What is  *)
(* not of it becomes zero or NaN.                                          *)
AppendFixed(b, cell) ==
    LET number == cell.kind \in {"INT64", "BOOL", "FLOAT64"}
        storage == StorageKind(b)
    IN  IF b.kind = "UNKNOWN" THEN AppendCasted(b, cell)
        ELSE IF storage = "STRING" THEN Push(b, Text(cell))
        ELSE IF storage = "FLOAT64" THEN (IF number THEN AppendFloat(b, cell)
                                          ELSE Push([b EXCEPT !.floats = TRUE], NaN))
        ELSE Push(b, <<storage, IF cell.kind = storage THEN cell.value ELSE "0">>)

(* Without cast=True. *)
AppendString(b, cell) == Push([b EXCEPT !.kind = "STRING"], Text(cell))

AppendCell(mode, b, cell) ==
    CASE mode = "text" -> AppendString(b, cell)
      [] mode = "infer" -> AppendInferring(b, cell)
      [] mode = "fixed" -> AppendFixed(b, cell)

(* The buffer of a column of which something may be known. *)
Fill(mode, plan, cells) ==
    LET filled[n \in 0..Len(cells)] ==
            IF n = 0 THEN Buffer(plan) ELSE AppendCell(mode, filled[n - 1], cells[n])
    IN  filled[Len(cells)]

Finalize(b) ==
    IF b.kind = "UNKNOWN"
    THEN [b EXCEPT !.kind = "FLOAT64", !.list = Repeated(NaN, b.seen), !.floats = TRUE]
    ELSE b

IntoPython(b) == [dtype |-> StorageKind(b), values |-> b.list]

(* The second pass of read_numpy(), over the columns that asked for it. *)
Replay(b, cells) ==
    IF b.replay
    THEN [b EXCEPT !.replay = FALSE, !.list = [i \in DOMAIN cells |-> Text(cells[i])]]
    ELSE b

-----------------------------------------------------------------------------
(* Plans: what is known of a column after one or several batches. *)

Numeric == {"INT64", "FLOAT64"}

(* Mutant: the last batch decides. *)
PromoteToObserved(target, observed) == IF observed.kind = "UNKNOWN" THEN target ELSE observed

PromotePlan(target, observed) ==
    LET nullable == target.nullable \/ observed.nullable
    IN  CASE observed.kind = "UNKNOWN" -> [target EXCEPT !.nullable = nullable]
          [] observed.kind = "STRING" -> StringPlan
          [] observed.kind \notin {"UNKNOWN", "STRING"} ->
               IF target.kind \in {"UNKNOWN", observed.kind}
               THEN [kind |-> observed.kind, nullable |-> nullable]
               ELSE IF {target.kind, observed.kind} \subseteq Numeric
               THEN [kind |-> "FLOAT64", nullable |-> nullable]
               ELSE StringPlan

(* infer_numpy_batch_schema() of one column. *)
InferPlan(plan, cells) ==
    LET b == Fill("infer", Plan, cells)
    IN  PromotePlan(plan, [kind |-> b.kind, nullable |-> b.nullable])
=============================================================================
