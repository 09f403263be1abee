---------------------------- MODULE NumpyBatches ----------------------------
(***************************************************************************)
(* read_numpy() and read_numpy_batches() of fastpycsv: the columns of a    *)
(* file, or of each batch of its rows, as NumPy arrays, filtered, and of   *)
(* the type their cells call for.  The machine is NumpyBatchReader, whose  *)
(* constructor is Init and whose next() is one of NextBatch, LastCall and  *)
(* AlreadyDone; read_numpy() is a job without a schema mode.               *)
(*   src/python/fastpycsv_numpy.cpp                                        *)
(***************************************************************************)
EXTENDS NumpyColumns, RowPredicates

CONSTANT Jobs  (* [rows, columns, predicate, filtered, cast, schema, size], *)
               (* schema being "none" for read_numpy()                     *)

ASSUME JobsAssumption == \A j \in Jobs :
    /\ j.rows \in Seq({j.rows[i] : i \in DOMAIN j.rows})
    /\ j.columns \in Seq({j.columns[h] : h \in DOMAIN j.columns})
    /\ \A i \in DOMAIN j.rows, h \in DOMAIN j.columns : j.rows[i][j.columns[h]].kind \in CellKinds
    /\ j.filtered \in BOOLEAN /\ j.cast \in BOOLEAN
    /\ j.schema \in {"none", "sample", "batch", "global"}
    /\ j.size \in Nat \ {0}

VARIABLES
  job,
  plans,         (* plan_: what is known of each selected column          *)
  position,      (* rows read by reader_                                  *)
  pending,       (* <<pending_rows_>> while has_pending_rows_, else <<>>  *)
  emitted_rows,
  done,
  batches        (* what next() has returned: [rows, columns]             *)

numpyVars == <<job, plans, position, pending, emitted_rows, done, batches>>

(* The rows of one read_chunk(), and of all the calls left. *)
ChunkAt(j, from) == SubSeq(j.rows, from + 1, Min({from + j.size, Len(j.rows)}))
ChunksFrom(j, from) ==
    [k \in 1..((Len(j.rows) - from + j.size - 1) \div j.size) |-> ChunkAt(j, from + (k - 1) * j.size)]

RowsKept(rows, keep) ==
    FlattenSeq([i \in DOMAIN rows |-> IF keep[i] THEN <<rows[i]>> ELSE <<>>])

(* Rows that excluded_rows_for_predicate() leaves. *)
Included(j, rows) ==
    IF j.filtered THEN RowsKept(rows, Matches(j.predicate, rows)) ELSE rows

Cells(rows, c) == [i \in DOMAIN rows |-> rows[i][c]]

InferSchema(j, ps, rows) ==
    IF Included(j, rows) = <<>> \/ \A i \in DOMAIN ps : ps[i].kind = "STRING" THEN ps
    ELSE [i \in DOMAIN ps |-> InferPlan(ps[i], Cells(Included(j, rows), j.columns[i]))]

AppendMode(j, inferring) ==
    IF ~j.cast THEN "text" ELSE IF inferring THEN "infer" ELSE "fixed"

(* materialize_numpy_batch(): the included rows as one array per column. *)
Materialize(j, ps, rows, inferring) ==
    [rows |-> rows,
     columns |-> [i \in DOMAIN ps |->
         IntoPython(Finalize(Fill(AppendMode(j, inferring), ps[i], Cells(rows, j.columns[i]))))]]

FirstPlans(j) == [i \in DOMAIN j.columns |-> IF j.cast THEN Plan ELSE StringPlan]

InferGlobally(j) ==
    LET chunks == ChunksFrom(j, 0)
        inferred[k \in 0..Len(chunks)] ==
            IF k = 0 THEN FirstPlans(j) ELSE InferSchema(j, inferred[k - 1], chunks[k])
    IN  inferred[Len(chunks)]

-----------------------------------------------------------------------------
Sampling == job.cast /\ job.schema = "sample" /\ job.rows # <<>>

Init ==
    /\ job \in Jobs
    /\ pending = IF Sampling THEN <<ChunkAt(job, 0)>> ELSE <<>>
    /\ position = IF Sampling THEN Len(ChunkAt(job, 0)) ELSE 0
    /\ plans = IF job.cast /\ job.schema = "global" THEN InferGlobally(job)
               ELSE IF Sampling THEN InferSchema(job, FirstPlans(job), ChunkAt(job, 0))
               ELSE FirstPlans(job)
    /\ emitted_rows = 0 /\ done = FALSE /\ batches = <<>>

(* Mutant: next() forgets the batch the schema was sampled from. *)
ChunksUnread == ChunksFrom(job, position)

Chunks == pending \o ChunksFrom(job, position)

InferPerBatch == job.cast /\ job.schema = "batch"

(* A batch without included rows is passed over. *)
NextBatch ==
    /\ ~done /\ job.schema # "none"
    /\ \E k \in DOMAIN Chunks :
         LET rows == Included(job, Chunks[k])
             ps == IF InferPerBatch THEN InferSchema(job, plans, Chunks[k]) ELSE plans
         IN  /\ rows # <<>>
             /\ \A h \in 1..(k - 1) : Included(job, Chunks[h]) = <<>>
             /\ batches' = Append(batches, Materialize(job, ps, rows, InferPerBatch))
             /\ emitted_rows' = emitted_rows + Len(rows)
             /\ position' = Min({position + (k - Len(pending)) * job.size, Len(job.rows)})
    /\ pending' = <<>>
    /\ UNCHANGED <<job, plans, done>>

LastCall ==
    /\ ~done /\ job.schema # "none"
    /\ \A k \in DOMAIN Chunks : Included(job, Chunks[k]) = <<>>
    /\ done' = TRUE
    /\ batches' = IF emitted_rows = 0
                  THEN Append(batches, Materialize(job, plans, <<>>, InferPerBatch)) ELSE batches
    /\ position' = Len(job.rows)
    /\ pending' = <<>>
    /\ UNCHANGED <<job, plans, emitted_rows>>

(* StopIteration, however often next() is called. *)
AlreadyDone == done /\ UNCHANGED numpyVars

(* All chunks into the same buffers, and the columns that came to hold     *)
(* text after other values once more from the file.                        *)
ReadNumpy ==
    /\ ~done /\ job.schema = "none"
    /\ LET rows == FlattenSeq([k \in DOMAIN Chunks |-> Included(job, Chunks[k])])
           Column(i) == LET cells == Cells(rows, job.columns[i])
                            filled == Fill(AppendMode(job, TRUE), plans[i], cells)
                        IN  IntoPython(Finalize(Replay(filled, cells)))
       IN  /\ batches' = <<[rows |-> rows, columns |-> [i \in DOMAIN plans |-> Column(i)]]>>
           /\ emitted_rows' = Len(rows)
    /\ done' = TRUE /\ position' = Len(job.rows)
    /\ UNCHANGED <<job, plans, pending>>

Next == ReadNumpy \/ NextBatch \/ LastCall \/ AlreadyDone
Spec == Init /\ [][Next]_numpyVars

-----------------------------------------------------------------------------
(* What a column is when all its cells are seen at once. *)
CastKind(cells) ==
    LET kinds == {cells[i].kind : i \in DOMAIN cells}
    IN  CASE "STRING" \in kinds \/ ("BOOL" \in kinds /\ kinds \cap Numeric # {}) -> "STRING"
          [] kinds \subseteq {"INT64"} /\ kinds # {} -> "INT64"
          [] kinds = {"BOOL"} -> "BOOL"
          [] OTHER -> "FLOAT64"

(* A cell of such a column; a null of a text column may lose its blanks. *)
IsCell(value, cell, kind) ==
    CASE kind = "STRING" -> value = Text(cell) \/ (cell.kind = "NULL" /\ value = NoText)
      [] kind \in {"INT64", "BOOL"} -> value = <<kind, cell.value>>
      [] kind = "FLOAT64" -> value = CASE cell.kind = "NULL" -> NaN
                                       [] cell.kind = "FLOAT64" -> <<"FLOAT64", cell.value>>
                                       [] OTHER -> AsDouble(cell.value)

IsCast(array, cells, kind) ==
    /\ array.dtype = kind
    /\ Len(array.values) = Len(cells)
    /\ \A i \in DOMAIN cells : IsCell(array.values[i], cells[i], kind)

IncludedRows ==
    RowsKept(job.rows, [i \in DOMAIN job.rows |->
                           ~job.filtered \/ MatchesRow(job.predicate, job.rows[i])])
Kind(rows, c) == IF job.cast THEN CastKind(Cells(rows, c)) ELSE "STRING"

(* However nulls, numbers, truth values and texts follow each other in a   *)
(* column, read_numpy() returns the array that looking at all its cells at *)
(* once would give: integers stored before a double or a null appear are   *)
(* converted, and a column whose text comes late is read again.  (Append-  *)
(* Casted, PromoteToFloat, replay_string_columns.)                         *)
ReadNumpyIsCast ==
    done /\ job.schema = "none" =>
        \A i \in DOMAIN job.columns :
            IsCast(batches[1].columns[i], Cells(IncludedRows, job.columns[i]),
                   Kind(IncludedRows, job.columns[i]))

(* The batches hold the rows that pass the filter, each once and in order, *)
(* all columns of a batch have the length of its rows, no batch is empty   *)
(* unless it is the only one, and none comes after the last call.          *)
BatchesCoverRows ==
    LET rows == FlattenSeq([k \in DOMAIN batches |-> batches[k].rows])
    IN  /\ IsPrefix(rows, IncludedRows) /\ Len(rows) = emitted_rows
        /\ done => rows = IncludedRows /\ batches # <<>>
        /\ \A k \in DOMAIN batches :
             /\ \/ Len(batches[k].rows) \in 1..job.size
                \/ Len(batches) = 1 /\ (IncludedRows = <<>> \/ job.schema = "none")
             /\ \A i \in DOMAIN job.columns :
                  Len(batches[k].columns[i].values) = Len(batches[k].rows)

(* The rows whose cells decide the types of batch k: all, or its own, or   *)
(* those of the first batch read.                                          *)
SchemaRows(k) ==
    CASE job.schema = "global" -> IncludedRows
      [] job.schema = "batch" -> batches[k].rows
      [] job.schema = "sample" -> Included(job, ChunkAt(job, 0))

(* schema="global" gives every batch the types read_numpy() would find;    *)
(* schema="batch" those of its own rows; schema="sample" those of the      *)
(* first batch read, provided that it held a value of the column, and its  *)
(* own cells are then faithful.  (docs/numpy.md; promote_numpy_column_plan *)
(* over batches, append_fixed_casted with the result.)                     *)
BatchTypes ==
    job.schema # "none" => \A k \in DOMAIN batches : \A i \in DOMAIN job.columns :
        LET c == job.columns[i]
            rows == SchemaRows(k)
            array == batches[k].columns[i]
            decided == \E h \in DOMAIN rows : rows[h][c].kind # "NULL"
        IN  IF job.schema = "sample" /\ job.cast
            THEN decided => /\ array.dtype = Kind(rows, c)
                            /\ batches[k].rows = rows => IsCast(array, Cells(rows, c), Kind(rows, c))
            ELSE IsCast(array, Cells(batches[k].rows, c), Kind(rows, c))
=============================================================================
