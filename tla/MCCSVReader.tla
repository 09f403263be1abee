---------------------------- MODULE MCCSVReader ----------------------------
(***************************************************************************)
(* Small sources for CSVReader.  A byte stands for half a chunk: the chunk *)
(* is 2 bytes, the head 1 byte, so that three or four rows need several    *)
(* windows and a row of 3 bytes fits in none.                              *)
(***************************************************************************)
EXTENDS CSVReader

Line(end, cols) == [end |-> end, cols |-> cols]

(* A header and three good rows. *)
Plain == <<Line(1, 2), Line(2, 2), Line(3, 2), Line(4, 2)>>

(* A header, then a good, a short, a blank and two good rows. *)
Ragged == <<Line(1, 2), Line(2, 2), Line(3, 1), Line(4, 0), Line(5, 2), Line(6, 2)>>

(* A row of three bytes in the middle. *)
Oversized == <<Line(1, 2), Line(4, 2), Line(5, 2)>>

Source(lines) ==
  [rows |-> lines, terminated |-> TRUE, mmap |-> TRUE, may_fail |-> FALSE,
   head |-> 1, chunk |-> 2, workers |-> 1, threading |-> TRUE,
   policy |-> "IGNORE_ROW", header |-> 0, named |-> FALSE, n_cols |-> 2]

AnyKind(sources) ==
  { [s EXCEPT !.mmap = m, !.terminated = t] :
      s \in sources, m \in BOOLEAN, t \in BOOLEAN }

AnyPolicy(sources) == { [s EXCEPT !.policy = p] : s \in sources, p \in Policies }

(* One chunk per parse worker, appended as a batch. *)
Parallel(s) == [s EXCEPT !.chunk = 1, !.workers = 3]

CompleteSources ==
  AnyKind(AnyPolicy({Source(Ragged), Source(Oversized)})
          \cup {Source(Plain), Parallel(Source(Plain)),
                [Source(Ragged) EXCEPT !.header = -1, !.policy = "KEEP"],
                [Source(Ragged) EXCEPT !.named = TRUE, !.n_cols = 1]})
  \cup AnyKind({Source(<<>>)})

FailingSources == { [s EXCEPT !.may_fail = TRUE] : s \in AnyKind({Source(Plain), Source(Oversized)}) }

ThreadedSources == CompleteSources \cup FailingSources

Sequential(sources) == { [s EXCEPT !.threading = FALSE, !.workers = 1] : s \in sources }

SequentialSources ==
  Sequential(FailingSources \cup { s \in CompleteSources : s.policy # "THROW" })

AnySources == ThreadedSources \cup SequentialSources

EarlyEndSources == {Source(Plain)}
=============================================================================
