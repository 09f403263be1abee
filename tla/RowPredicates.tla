--------------------------- MODULE RowPredicates ---------------------------
(***************************************************************************)
(* The filters of fastpycsv over a batch of rows: a predicate is the set   *)
(* of its clauses, a clause being a column and the cells of it that match  *)
(* (equal, less, ..., all_of flattened); the rows of a large batch are     *)
(* shared out to workers in ranges.                                        *)
(*   src/python/fastpycsv_predicate.cpp                                    *)
(***************************************************************************)
EXTENDS Naturals, Sequences, FiniteSetsExt

CONSTANTS
  ParallelMinRows,     (* PREDICATE_PARALLEL_MIN_ROWS                        *)
  HardwareThreads      (* std::thread::hardware_concurrency(), 0 if unknown *)

ASSUME PredicateAssumption ==
    /\ ParallelMinRows \in Nat \ {0}
    /\ HardwareThreads \in Nat

WorkerCount(n) ==
    CASE n < ParallelMinRows -> 0
      [] n >= ParallelMinRows /\ HardwareThreads = 0 -> 1
      [] n >= ParallelMinRows /\ HardwareThreads > 0 ->
            Min({HardwareThreads, n \div ParallelMinRows})

ChunkCount(n) ==
    CASE n = 0 -> 0
      [] n > 0 /\ WorkerCount(n) = 0 -> 1
      [] n > 0 /\ WorkerCount(n) > 0 -> Min({n, WorkerCount(n) * 4})

RowsOfChunk(n, chunk) ==
    (n * (chunk - 1)) \div ChunkCount(n) + 1 .. (n * chunk) \div ChunkCount(n)

MatchesRow(predicate, row) == \A clause \in predicate : row[clause.column] \in clause.accepts

(* The matches of a batch, every worker writing those of its own chunks. *)
Matches(predicate, rows) ==
    [i \in DOMAIN rows |-> \E chunk \in 1..ChunkCount(Len(rows)) :
        i \in RowsOfChunk(Len(rows), chunk) /\ MatchesRow(predicate, rows[i])]
=============================================================================
