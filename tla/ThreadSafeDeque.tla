-------------------------- MODULE ThreadSafeDeque --------------------------
(***************************************************************************)
(* internals::ThreadSafeDeque: the row queue in its threaded build, one    *)
(* producer (the parsing worker) and one consumer (the caller of           *)
(* CSVReader).  Rows are stored in batches; a mutex guards the batches,    *)
(* the two flags _is_empty and _is_waitable are atomics that the consumer  *)
(* reads without it, and wait() sleeps on a condition variable.            *)
(*                                                                         *)
(* A locked operation is two steps, because the lock-free readers can look *)
(* in between: the first acquires the mutex and changes the batches or     *)
(* stores a flag, the second stores or signals the rest and releases it.   *)
(***************************************************************************)
EXTENDS Naturals, Sequences, SequencesExt

CONSTANTS
  MaxRows,     (* bound: rows the producer pushes in all                   *)
  MaxBatch,    (* bound: longest batch passed to append_rows               *)
  NotifySize   (* _notify_size                                             *)

ASSUME DequeAssumption ==
  MaxRows \in Nat /\ MaxBatch \in Nat \ {0} /\ NotifySize \in Nat \ {0}

Row == 1..MaxRows

VARIABLES
  batches, front_index, size,   (* guarded by the mutex                    *)
  is_empty, is_waitable,        (* atomics                                 *)
  lock,                         (* the mutex: its holder or "free"         *)
  asleep,                       (* the consumer sleeps on _cond            *)
  ppc, cpc,                     (* program points of the two threads       *)
  pushed,                       (* rows handed to the queue so far         *)
  want,                         (* rows drain_front still has to move      *)
  got,                          (* rows moved out to the consumer          *)
  confirmed                     (* how many of them by finished operations *)

shared == <<batches, front_index, size>>
counts == <<got, confirmed>>
vars == <<shared, is_empty, is_waitable, lock, asleep, ppc, cpc, pushed, want, counts>>

ProducerStates == {"off", "start", "on", "announce", "publish", "ending", "stopped"}
ConsumerStates == {"idle", "look", "join", "announce", "guard", "wait", "dozing",
                   "woken", "rows", "draining", "popped"}

Acquire(t) == lock = "free" /\ lock' = t
Release(t) == lock = t /\ lock' = "free"

(* _cond.notify_all(): the sleeper, if any, will try for the mutex again. *)
Signal == asleep' = FALSE

WaitIsOver == size >= NotifySize \/ ~is_waitable

(* Faulty variants of definitions below. *)

(* The position in the discarded batch is kept for the next one. *)
AdvanceKeepsIndex(n) ==
  /\ size' = size - n
  /\ front_index' = front_index + n
  /\ batches' = IF front_index + n >= Len(Head(batches)) THEN Tail(batches) ELSE batches

(* kill_all() without the mutex, the lost wakeup of PR 298. *)
KillAllUnlocked ==
  /\ ppc = "on"
  /\ is_waitable' = FALSE
  /\ asleep' = FALSE
  /\ ppc' = IF pushed < MaxRows THEN "off" ELSE "stopped"
  /\ UNCHANGED <<shared, is_empty, lock, cpc, pushed, want, counts>>

(* A span is always copied from the start of the front batch. *)
DrainSpanFromStart ==
  /\ cpc = "draining"
  /\ want > 0
  /\ LET available == Len(Head(batches)) - front_index
         take == IF available < want THEN available ELSE want
     IN  /\ got' = got \o SubSeq(Head(batches), 1, take)
         /\ size' = size - take
         /\ IF take = available
            THEN batches' = Tail(batches) /\ front_index' = 0
            ELSE front_index' = front_index + take /\ UNCHANGED batches
         /\ want' = want - take
  /\ UNCHANGED <<is_empty, is_waitable, lock, asleep, ppc, cpc, pushed, confirmed>>

(* The empty flag is set although rows are left. *)
PublishEmptyAlways ==
  /\ cpc = "popped" \/ (cpc = "draining" /\ want = 0)
  /\ is_empty' = TRUE
  /\ Release("consumer")
  /\ cpc' = "idle"
  /\ confirmed' = Len(got)
  /\ UNCHANGED <<shared, is_waitable, asleep, ppc, pushed, want, got>>

(* discard_exhausted_front_batch and its twin in drain_front_batches:       *)
(* a batch whose rows are all gone leaves the storage.                      *)
Exhausted(front) == batches # <<>> /\ front >= Len(Head(batches))

Advance(n) ==
  /\ size' = size - n
  /\ IF Exhausted(front_index + n)
     THEN batches' = Tail(batches) /\ front_index' = 0
     ELSE front_index' = front_index + n /\ UNCHANGED batches

-----------------------------------------------------------------------------
(* The producer: notify_all, then any pushes, then kill_all (read_csv). *)

(* notify_all: the flag, then the signal, both under the mutex. *)
NotifyAll ==
  /\ ppc = "start"
  /\ Acquire("producer")
  /\ is_waitable' = TRUE
  /\ ppc' = "announce"
  /\ UNCHANGED <<shared, is_empty, asleep, cpc, pushed, want, counts>>

NotifyAllSignal ==
  /\ ppc = "announce"
  /\ Signal
  /\ Release("producer")
  /\ ppc' = "on"
  /\ UNCHANGED <<shared, is_empty, is_waitable, cpc, pushed, want, counts>>

(* push_back stores a batch of one row, append_rows the batch it is given   *)
(* (an empty one is no operation).                                          *)
StoreBatch(n) ==
  /\ ppc = "on"
  /\ pushed + n <= MaxRows
  /\ Acquire("producer")
  /\ batches' = Append(batches, [k \in 1..n |-> pushed + k])
  /\ size' = size + n
  /\ pushed' = pushed + n
  /\ ppc' = "publish"
  /\ UNCHANGED <<front_index, is_empty, is_waitable, asleep, cpc, want, counts>>

PushBack == StoreBatch(1)

AppendRows == \E n \in 2..MaxBatch : StoreBatch(n)

(* Both end by clearing the empty flag and waking the consumer if enough    *)
(* rows are queued.                                                         *)
PublishRows ==
  /\ ppc = "publish"
  /\ is_empty' = FALSE
  /\ IF size >= NotifySize THEN Signal ELSE UNCHANGED asleep
  /\ Release("producer")
  /\ ppc' = "on"
  /\ UNCHANGED <<shared, is_waitable, cpc, pushed, want, counts>>

KillAll ==
  /\ ppc = "on"
  /\ Acquire("producer")
  /\ is_waitable' = FALSE
  /\ ppc' = "ending"
  /\ UNCHANGED <<shared, is_empty, asleep, cpc, pushed, want, counts>>

(* The reader starts another cycle only while there is something to parse. *)
KillAllSignal ==
  /\ ppc = "ending"
  /\ Signal
  /\ Release("producer")
  /\ ppc' = IF pushed < MaxRows THEN "off" ELSE "stopped"
  /\ UNCHANGED <<shared, is_empty, is_waitable, cpc, pushed, want, counts>>

-----------------------------------------------------------------------------
(* The consumer, as CSVReader uses the queue. *)

(* empty(): no mutex. *)
LookEmpty ==
  /\ cpc = "idle"
  /\ cpc' = IF is_empty THEN "look" ELSE "rows"
  /\ UNCHANGED <<shared, is_empty, is_waitable, lock, asleep, ppc, pushed, want, counts>>

(* is_waitable(): no mutex. *)
LookWaitable ==
  /\ cpc = "look"
  /\ cpc' = IF is_waitable THEN "guard" ELSE "join"
  /\ UNCHANGED <<shared, is_empty, is_waitable, lock, asleep, ppc, pushed, want, counts>>

(* The worker is joined; if the source is not finished, the reader announces*)
(* the next one itself before it starts it.                                 *)
JoinFinished ==
  /\ cpc = "join"
  /\ ppc = "stopped"
  /\ cpc' = "idle"
  /\ UNCHANGED <<shared, is_empty, is_waitable, lock, asleep, ppc, pushed, want, counts>>

NotifyAllAgain ==
  /\ cpc = "join"
  /\ ppc = "off"
  /\ Acquire("consumer")
  /\ is_waitable' = TRUE
  /\ cpc' = "announce"
  /\ UNCHANGED <<shared, is_empty, asleep, ppc, pushed, want, counts>>

StartProducer ==
  /\ cpc = "announce"
  /\ Signal
  /\ Release("consumer")
  /\ cpc' = "idle"
  /\ ppc' = "start"
  /\ UNCHANGED <<shared, is_empty, is_waitable, pushed, want, counts>>

(* wait(), its early guard. *)
WaitGuard ==
  /\ cpc = "guard"
  /\ cpc' = IF is_waitable THEN "wait" ELSE "idle"
  /\ UNCHANGED <<shared, is_empty, is_waitable, lock, asleep, ppc, pushed, want, counts>>

(* _cond.wait: the predicate is evaluated under the mutex, the first time   *)
(* and whenever the sleeper was signalled ...                               *)
WaitTest ==
  /\ cpc = "wait" /\ ~asleep
  /\ Acquire("consumer")
  /\ cpc' = IF WaitIsOver THEN "woken" ELSE "dozing"
  /\ UNCHANGED <<shared, is_empty, is_waitable, asleep, ppc, pushed, want, counts>>

WaitReturns ==
  /\ cpc = "woken"
  /\ Release("consumer")
  /\ cpc' = "idle"
  /\ UNCHANGED <<shared, is_empty, is_waitable, asleep, ppc, pushed, want, counts>>

(* ... and releasing the mutex and falling asleep are one step. *)
WaitSleeps ==
  /\ cpc = "dozing"
  /\ asleep' = TRUE
  /\ Release("consumer")
  /\ cpc' = "wait"
  /\ UNCHANGED <<shared, is_empty, is_waitable, ppc, pushed, want, counts>>

(* A condition variable may wake its waiter for no reason. *)
SpuriousWake ==
  /\ asleep
  /\ asleep' = FALSE
  /\ UNCHANGED <<shared, is_empty, is_waitable, lock, ppc, cpc, pushed, want, counts>>

(* pop_front: the first row of the front batch. *)
PopFront ==
  /\ cpc = "rows"
  /\ Acquire("consumer")
  /\ got' = Append(got, Head(batches)[front_index + 1])
  /\ Advance(1)
  /\ cpc' = "popped"
  /\ UNCHANGED <<is_empty, is_waitable, asleep, ppc, pushed, want, confirmed>>

(* drain_front(out, max_items): as many rows as there are, up to max_items. *)
DrainFront ==
  /\ cpc = "rows"
  /\ Acquire("consumer")
  /\ \E max_items \in 2..MaxRows :
       want' = IF size < max_items THEN size ELSE max_items
  /\ cpc' = "draining"
  /\ UNCHANGED <<shared, is_empty, is_waitable, asleep, ppc, pushed, counts>>

(* One turn of the loop in drain_front_batches: a span of the front batch. *)
DrainSpan ==
  /\ cpc = "draining"
  /\ want > 0
  /\ LET available == Len(Head(batches)) - front_index
         take == IF available < want THEN available ELSE want
     IN  /\ got' = got \o SubSeq(Head(batches), front_index + 1, front_index + take)
         /\ Advance(take)
         /\ want' = want - take
  /\ UNCHANGED <<is_empty, is_waitable, lock, asleep, ppc, cpc, pushed, confirmed>>

(* Both end by setting the empty flag if nothing is left. *)
PublishEmpty ==
  /\ cpc = "popped" \/ (cpc = "draining" /\ want = 0)
  /\ is_empty' = (is_empty \/ size = 0)
  /\ Release("consumer")
  /\ cpc' = "idle"
  /\ confirmed' = Len(got)
  /\ UNCHANGED <<shared, is_waitable, asleep, ppc, pushed, want, got>>

-----------------------------------------------------------------------------

Init ==
  /\ batches = <<>> /\ front_index = 0 /\ size = 0
  /\ is_empty = TRUE /\ is_waitable = FALSE
  /\ lock = "free" /\ asleep = FALSE
  /\ ppc = "off" /\ cpc = "idle"
  /\ pushed = 0 /\ want = 0
  /\ got = <<>> /\ confirmed = 0

Producer ==
  \/ NotifyAll \/ NotifyAllSignal
  \/ PushBack \/ AppendRows \/ PublishRows
  \/ KillAll \/ KillAllSignal

Consumer ==
  \/ LookEmpty \/ LookWaitable
  \/ JoinFinished \/ NotifyAllAgain \/ StartProducer
  \/ WaitGuard \/ WaitTest \/ WaitReturns \/ WaitSleeps
  \/ PopFront \/ DrainFront \/ DrainSpan \/ PublishEmpty

Next == Producer \/ Consumer \/ SpuriousWake

Spec == Init /\ [][Next]_vars

(* Both threads run.  The producer's fairness is strong: a consumer woken   *)
(* over and over for no reason takes and releases the mutex each time, and  *)
(* the producer is one day the one that gets it in between.  No spurious    *)
(* wake-up is ever owed.                                                    *)
FairSpec == Spec /\ SF_vars(Producer) /\ WF_vars(Consumer)

-----------------------------------------------------------------------------
(* Properties. *)

TypeOK ==
  /\ batches \in Seq(Seq(Nat))
  /\ front_index \in Nat /\ size \in Nat
  /\ is_empty \in BOOLEAN /\ is_waitable \in BOOLEAN /\ asleep \in BOOLEAN
  /\ lock \in {"free", "producer", "consumer"}
  /\ ppc \in ProducerStates /\ cpc \in ConsumerStates
  /\ pushed \in 0..MaxRows /\ want \in Nat
  /\ got \in Seq(Nat) /\ confirmed \in Nat

(* The consumer never asks for a row that is not there: when it goes for    *)
(* rows, and at every turn of the drain loop, the front batch has one.      *)
FrontRowExists ==
  cpc = "rows" \/ (cpc = "draining" /\ want > 0)
    => batches # <<>> /\ front_index < Len(Head(batches))

(* The rows in storage, first to last. *)
Stored ==
  LET all == FlattenSeq(batches) IN SubSeq(all, front_index + 1, Len(all))

(***************************************************************************)
(* The deque implements RowQueue.  An operation takes effect when it       *)
(* publishes the empty flag: rows being pushed are not there yet, rows     *)
(* being popped still are.                                                 *)
(***************************************************************************)
VisibleRows ==
  SubSeq(got, confirmed + 1, Len(got))
    \o (IF ppc = "publish" THEN SubSeq(Stored, 1, Len(Stored) - Len(Last(batches)))
                           ELSE Stored)

Contract == INSTANCE RowQueue WITH
  rows  <- VisibleRows,
  taken <- SubSeq(got, 1, confirmed)

ContractSpec == Contract!Spec

(* Critical invariant 3: the lock-free empty() is the emptiness of the      *)
(* queue, at every instant and not only when the mutex is free.             *)
EmptyFlagAccurate == is_empty <=> VisibleRows = <<>>

(* A waiting consumer gets on: it is woken by enough rows or by kill_all.   *)
WaitEnds == (cpc = "wait") ~> (cpc = "idle")
=============================================================================
