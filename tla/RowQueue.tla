------------------------------ MODULE RowQueue ------------------------------
(***************************************************************************)
(* The contract of the parser's row queue (RowDequeLike, row_deque.hpp):   *)
(* a FIFO of parsed rows, written by the parsing thread and read by the    *)
(* thread that calls CSVReader, with one flag telling whether a producer   *)
(* is still at work.  SingleThreadDeque is this contract almost word for   *)
(* word; ThreadSafeDeque implements it with batches, a mutex, a condition  *)
(* variable and two atomics (module ThreadSafeDeque).                      *)
(***************************************************************************)
EXTENDS Naturals, Sequences

CONSTANTS
  Row,         (* the rows that may be queued                              *)
  MaxBatch,    (* bound: longest batch one append_rows call hands over     *)
  NotifySize   (* rows that must be queued before a waiter is woken early  *)

VARIABLES
  rows,        (* queued rows, oldest first                                *)
  is_waitable, (* TRUE while a producer announces more rows                *)
  taken        (* history: every row removed so far, in order of removal   *)

queueVars == <<rows, is_waitable, taken>>

Empty == rows = <<>>

Size == Len(rows)

(* Faulty variants: a batch goes to the wrong end, and kill_all does not end *)
(* a wait.                                                                  *)
AppendRowsAtFront(batch) ==
  /\ batch # <<>>
  /\ rows' = batch \o rows
  /\ UNCHANGED <<is_waitable, taken>>

WaitForRowsOnly == Size >= NotifySize

(* The condition under which wait() lets its caller go on. *)
WaitIsOver == Size >= NotifySize \/ ~is_waitable

PushBack(r) ==
  /\ rows' = Append(rows, r)
  /\ UNCHANGED <<is_waitable, taken>>

AppendRows(batch) ==
  /\ batch # <<>>
  /\ rows' = rows \o batch
  /\ UNCHANGED <<is_waitable, taken>>

(* pop_front() has no empty case: the caller must know that a row is there. *)
PopFront ==
  /\ rows # <<>>
  /\ taken' = Append(taken, Head(rows))
  /\ rows' = Tail(rows)
  /\ UNCHANGED is_waitable

(* drain_front(out, max_items): up to max_items rows, as many as there are. *)
DrainCount(max_items) == IF Size < max_items THEN Size ELSE max_items

DrainFront(max_items) ==
  /\ rows' = SubSeq(rows, DrainCount(max_items) + 1, Len(rows))
  /\ taken' = taken \o SubSeq(rows, 1, DrainCount(max_items))
  /\ UNCHANGED is_waitable

NotifyAll == is_waitable' = TRUE  /\ UNCHANGED <<rows, taken>>
KillAll   == is_waitable' = FALSE /\ UNCHANGED <<rows, taken>>

-----------------------------------------------------------------------------
(* The queue on its own: any interleaving of the operations above. *)

Init ==
  /\ rows = <<>>
  /\ is_waitable = FALSE
  /\ taken = <<>>

Next ==
  \/ \E r \in Row : PushBack(r)
  \/ \E n \in 1..MaxBatch : \E batch \in [1..n -> Row] : AppendRows(batch)
  \/ PopFront
  \/ \E n \in 1..Len(rows) : DrainFront(n)
  \/ NotifyAll
  \/ KillAll

Spec == Init /\ [][Next]_queueVars
=============================================================================
