--------------------------- MODULE MCRowStorage ----------------------------
(***************************************************************************)
(* Small chunks for TLC: rows of raw and realized fields, texts that fill  *)
(* a page, exceed it, or exceed the four pages a block grows to, and rows  *)
(* of empty fields; also rows inserted into a DataFrame.  Readers do not   *)
(* touch each other, so one is enough.  And a field that was read, with    *)
(* every sort of text: integers on either side of each width, fractions    *)
(* with a point or a comma, numbers that were written.                     *)
(***************************************************************************)
EXTENDS RowStorage, FieldValue

VARIABLE client

F(raw, pairs) == [raw |-> raw, pairs |-> pairs]
Shapes == {F(0, 0), F(1, 0), F(2, 1), F(4, 1), F(9, 2)}

SmallSources ==
    { [inserted |-> FALSE, rows |-> rows] :
          rows \in {<<<<f>>, <<g, h>>, <<k>>>> : f, g, h, k \in Shapes}
              \cup {<<<<f, f, f>>, <<f, f>>>> : f \in {F(0, 0), F(3, 1)}} }
    \cup { [inserted |-> TRUE, rows |-> <<<<f, g, h>>>>] :
              f, g, h \in {F(0, 0), F(1, 0), F(4, 0)} }

SmallInts == -1500..1500
IntTypes == {"int8", "uint8", "int64"}
Ranges == [T \in IntTypes |->
    IF T = "int8" THEN -128..127 ELSE IF T = "uint8" THEN 0..255 ELSE SmallInts]
SmallTexts ==
    { IntegerText(n) : n \in {-1501, -1500, -129, -128, -1, 0, 127, 128, 255, 256, 1500, 1501} }
    \cup { Literal(negative, <<2>>, symbol, <<5>>) : negative \in BOOLEAN, symbol \in {".", ","} }
    \cup { Word(kind) : kind \in {"NULL", "STRING", "BOOL", "TIMESTAMP"} }
SmallNumbers == {-1004500, -9996, -5, 0, 4, 999, 1995, 9950, 12345, 100000, 1099999}

(* The one stands still while the other runs. *)
MCInit ==
    /\ client \in {"reader", "field"}
    /\ IF client = "reader"
       THEN /\ Init
            /\ text = Word("NULL") /\ number = 0 /\ csv_field = <<>>
            /\ separator = "." /\ asked = <<>> /\ answers = <<>>
       ELSE /\ FieldInit
            /\ source = [inserted |-> FALSE, rows |-> <<>>] /\ eager = FALSE
            /\ pc = "stopped" /\ field = 0 /\ row_start = 0 /\ queue = <<>>
            /\ arena = <<>> /\ fields = <<>> /\ scalars = <<>>
            /\ reader = [r \in Readers |-> [at |-> "idle"]]

MCNext ==
    \/ client = "reader" /\ Next /\ UNCHANGED <<fieldVars, client>>
    \/ client = "field" /\ FieldNext /\ UNCHANGED <<vars, client>>

MCSpec == MCInit /\ [][MCNext]_<<vars, fieldVars, client>>
=============================================================================
