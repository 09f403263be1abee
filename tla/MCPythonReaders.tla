--------------------------- MODULE MCPythonReaders ---------------------------
(***************************************************************************)
(* A Python program reads a small file, into arrays or row by row.         *)
(* Columns of up to four cells of every kind, nulls empty and blank, and   *)
(* files with a key column for the filters.  Batches of two rows or more   *)
(* are filtered in parallel.                                               *)
(***************************************************************************)
EXTENDS NumpyBatches, LazyRowReader

Cell(kind, text, value) == [kind |-> kind, text |-> text, value |-> value]
Empty == Cell("NULL", "", "")
Blank == Cell("NULL", " ", "")
AnInt == Cell("INT64", "1", "1")
AFloat == Cell("FLOAT64", "2.5", "2.5")
ABool == Cell("BOOL", "true", "1")
AStr == Cell("STRING", "x", "")
Values == {Empty, Blank, AnInt, AFloat, ABool, AStr}

Key(b) == Cell("INT64", b, b)
Keys == {Key("0"), Key("1")}
Clause(c, accepts) == [column |-> c, accepts |-> accepts]
KeyIsOne == {Clause(1, {Key("1")})}

Job(file, cols, p, filtered, cast, schema, n) ==
    [rows |-> file, columns |-> cols, predicate |-> p, filtered |-> filtered,
     cast |-> cast, schema |-> schema, size |-> n]

Schemas == {"none", "sample", "batch", "global"}

SmallJobs ==
    { Job(file, <<1>>, {}, FALSE, TRUE, schema, n) :
          file \in UNION {[1..len -> [1..1 -> Values]] : len \in 0..4},
          schema \in Schemas, n \in {2} }
    \cup
    { Job(file, cols, KeyIsOne, TRUE, cast, schema, n) :
          file \in UNION {[1..len -> Keys \X (Values \ {ABool})] : len \in 0..3},
          cols \in {<<2, 1>>}, cast \in BOOLEAN, schema \in Schemas, n \in {1, 2} }

TwoColumns == {Key("0"), Key("1")} \X {Key("0"), Key("1")}
SmallFiles == UNION {[1..len -> TwoColumns] : len \in 0..5}
SmallFilters == {KeyIsOne, {Clause(2, {Key("1")})}}

(* Which of the two it uses; the other stands before an empty file. *)
VARIABLE client
NoJob == Job(<<>>, <<1>>, {}, FALSE, FALSE, "batch", 1)
allVars == <<numpyVars, readerVars, client>>

MCInit ==
    /\ \/ client = "arrays" /\ rows = <<>> /\ size = 1
       \/ client = "rows" /\ job = NoJob
    /\ Init /\ ReaderInit

MCNext ==
    \/ client = "arrays" /\ Next /\ UNCHANGED <<readerVars, client>>
    \/ client = "rows" /\ ReaderNext /\ UNCHANGED <<numpyVars, client>>

MCSpec == MCInit /\ [][MCNext]_allVars
AllJobs == SmallJobs \cup {NoJob}
=============================================================================
