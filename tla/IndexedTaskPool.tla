-------------------------- MODULE IndexedTaskPool --------------------------
(***************************************************************************)
(* internals::parallel::IndexedTaskPool: a fixed set of threads that run   *)
(* the tasks 0 .. task_count-1 of one parallel_for() call at a time.  The  *)
(* speculative parser and DataFrameExecutor use it.                        *)
(*                                                                         *)
(* A section under mutex_ is one step: whatever is read without the mutex  *)
(* (next_task_, task_count_, current_task_) is read by steps of its own.   *)
(***************************************************************************)
EXTENDS Integers, FiniteSets

CONSTANTS
  Workers,     (* workers_; empty when the pool was asked for at most one  *)
  SerialUpTo,  (* calls of at most this many tasks stay on their thread    *)
  MaxTasks,    (* bound: largest task_count                                *)
  MaxCalls     (* bound: calls of parallel_for before the destructor       *)

ASSUME PoolAssumption ==
  /\ IsFiniteSet(Workers)
  /\ SerialUpTo \in Nat /\ MaxTasks \in Nat /\ MaxCalls \in Nat

VARIABLES
  next_task,             (* atomic                                         *)
  task_count, active_workers, generation, completed_generation, stop,
  current_task,          (* TRUE while it holds the caller's function      *)
  task_exception,        (* the task it came from, or -1                   *)
  pc,                    (* of each worker                                 *)
  seen_generation, task_index,   (* locals of each worker_loop             *)
  cpc,                   (* of the thread that owns the pool               *)
  wanted,                (* task_count argument of the call in progress    *)
  captured,              (* captured_exception                             *)
  answer,                (* how the last call ended                        *)
  calls,                 (* calls so far                                   *)
  begun, running, thrown (* history of the call: tasks begun, running, that*)
                         (* threw                                          *)

shared  == <<next_task, task_count, active_workers, generation,
             completed_generation, stop, current_task, task_exception>>
locals  == <<pc, seen_generation, task_index>>
caller  == <<cpc, wanted, captured, answer, calls>>
history == <<begun, running, thrown>>
vars    == <<shared, locals, caller, history>>

WorkerStates == {"ready", "asleep", "fetch", "call", "run", "catch", "leave", "ended"}
CallerStates == {"idle", "called", "serial", "serial_run", "notify", "done_test",
                 "done_asleep", "returning", "stop_notify", "joining", "destroyed"}

NoTask == -1

-----------------------------------------------------------------------------
(* Faulty variants of definitions below. *)

(* The first worker to run out of tasks completes the generation. *)
FirstToLeaveCompletes(w) ==
  /\ pc[w] = "leave"
  /\ active_workers' = active_workers - 1
  /\ completed_generation' = seen_generation[w]
  /\ cpc' = IF cpc = "done_asleep" THEN "done_test" ELSE cpc
  /\ pc' = [pc EXCEPT ![w] = "ready"]
  /\ UNCHANGED <<next_task, task_count, generation, stop, current_task, task_exception,
                 seen_generation, task_index, wanted, captured, answer, calls, history>>

(* The last worker completes the generation and notifies nobody. *)
LeaveSilently(w) ==
  /\ pc[w] = "leave"
  /\ active_workers' = active_workers - 1
  /\ completed_generation' = IF active_workers = 1 THEN seen_generation[w]
                                                  ELSE completed_generation
  /\ pc' = [pc EXCEPT ![w] = "ready"]
  /\ UNCHANGED <<next_task, task_count, generation, stop, current_task, task_exception,
                 seen_generation, task_index, caller, history>>

(* notify_one where notify_all is needed. *)
WakeOneWorker ==
  IF \E w \in Workers : pc[w] = "asleep"
  THEN \E w \in Workers : pc[w] = "asleep" /\ pc' = [pc EXCEPT ![w] = "ready"]
  ELSE UNCHANGED pc

(* The task counter is reset only once the workers are being woken. *)
NotifyThenReset ==
  /\ cpc = "notify"
  /\ pc' = [w \in Workers |-> IF pc[w] = "asleep" THEN "ready" ELSE pc[w]]
  /\ next_task' = 0
  /\ cpc' = "done_test"
  /\ UNCHANGED <<task_count, active_workers, generation, completed_generation, stop,
                 current_task, task_exception, seen_generation, task_index, wanted,
                 captured, answer, calls, history>>

(* The exception is cleared before it is captured. *)
TakeNoResult ==
  /\ cpc = "done_test"
  /\ completed_generation = generation
  /\ captured' = NoTask
  /\ current_task' = FALSE
  /\ task_exception' = NoTask
  /\ cpc' = "returning"
  /\ UNCHANGED <<next_task, task_count, active_workers, generation, completed_generation,
                 stop, locals, wanted, answer, calls, history>>

-----------------------------------------------------------------------------
(* A worker: worker_loop. *)

TaskReady(w) == stop \/ generation # seen_generation[w]

(* task_ready_.wait: test the predicate under the mutex, sleep if it fails; *)
(* woken by notify_all, or for no reason, test it again.                    *)
WorkerSleeps(w) ==
  /\ pc[w] = "ready"
  /\ ~TaskReady(w)
  /\ pc' = [pc EXCEPT ![w] = "asleep"]
  /\ UNCHANGED <<shared, seen_generation, task_index, caller, history>>

SpuriousWake(w) ==
  /\ pc[w] = "asleep"
  /\ pc' = [pc EXCEPT ![w] = "ready"]
  /\ UNCHANGED <<shared, seen_generation, task_index, caller, history>>

WorkerJoinsIn(w) ==
  /\ pc[w] = "ready"
  /\ TaskReady(w)
  /\ ~stop
  /\ seen_generation' = [seen_generation EXCEPT ![w] = generation]
  /\ pc' = [pc EXCEPT ![w] = "fetch"]
  /\ UNCHANGED <<shared, task_index, caller, history>>

WorkerEnds(w) ==
  /\ pc[w] = "ready"
  /\ stop
  /\ pc' = [pc EXCEPT ![w] = "ended"]
  /\ UNCHANGED <<shared, seen_generation, task_index, caller, history>>

FetchTask(w) ==
  /\ pc[w] = "fetch"
  /\ task_index' = [task_index EXCEPT ![w] = next_task]
  /\ next_task' = next_task + 1
  /\ pc' = [pc EXCEPT ![w] = "call"]
  /\ UNCHANGED <<task_count, active_workers, generation, completed_generation, stop,
                 current_task, task_exception, seen_generation, caller, history>>

(* task_count_ is compared without the mutex. *)
NoTaskLeft(w) ==
  /\ pc[w] = "call"
  /\ task_index[w] >= task_count
  /\ pc' = [pc EXCEPT ![w] = "leave"]
  /\ UNCHANGED <<shared, seen_generation, task_index, caller, history>>

BeginTask(w) ==
  /\ pc[w] = "call"
  /\ task_index[w] < task_count
  /\ begun' = begun \cup {task_index[w]}
  /\ running' = running \cup {task_index[w]}
  /\ pc' = [pc EXCEPT ![w] = "run"]
  /\ UNCHANGED <<shared, seen_generation, task_index, caller, thrown>>

EndTask(w) ==
  /\ pc[w] = "run"
  /\ running' = running \ {task_index[w]}
  /\ pc' = [pc EXCEPT ![w] = "fetch"]
  /\ UNCHANGED <<shared, seen_generation, task_index, caller, begun, thrown>>

TaskThrows(w) ==
  /\ pc[w] = "run"
  /\ running' = running \ {task_index[w]}
  /\ thrown' = thrown \cup {task_index[w]}
  /\ pc' = [pc EXCEPT ![w] = "catch"]
  /\ UNCHANGED <<shared, seen_generation, task_index, caller, begun>>

(* The first exception is kept, and no task is begun after it but those     *)
(* already fetched.                                                         *)
CatchException(w) ==
  /\ pc[w] = "catch"
  /\ IF task_exception = NoTask
     THEN task_exception' = task_index[w] /\ next_task' = task_count
     ELSE UNCHANGED <<task_exception, next_task>>
  /\ pc' = [pc EXCEPT ![w] = "leave"]
  /\ UNCHANGED <<task_count, active_workers, generation, completed_generation, stop,
                 current_task, seen_generation, task_index, caller, history>>

(* The last worker to leave completes the generation and notifies. *)
LeaveGeneration(w) ==
  /\ pc[w] = "leave"
  /\ active_workers' = active_workers - 1
  /\ IF active_workers = 1
     THEN /\ completed_generation' = seen_generation[w]
          /\ cpc' = IF cpc = "done_asleep" THEN "done_test" ELSE cpc
     ELSE UNCHANGED <<completed_generation, cpc>>
  /\ pc' = [pc EXCEPT ![w] = "ready"]
  /\ UNCHANGED <<next_task, task_count, generation, stop, current_task, task_exception,
                 seen_generation, task_index, wanted, captured, answer, calls, history>>

Worker(w) ==
  \/ WorkerSleeps(w) \/ WorkerJoinsIn(w) \/ WorkerEnds(w)
  \/ FetchTask(w) \/ NoTaskLeft(w) \/ BeginTask(w) \/ EndTask(w) \/ TaskThrows(w)
  \/ CatchException(w) \/ LeaveGeneration(w)

-----------------------------------------------------------------------------
(* The thread that owns the pool. *)

WakeWorkers == pc' = [w \in Workers |-> IF pc[w] = "asleep" THEN "ready" ELSE pc[w]]

Call ==
  /\ cpc = "idle"
  /\ calls < MaxCalls
  /\ calls' = calls + 1
  /\ wanted' \in 0..MaxTasks
  /\ begun' = {} /\ thrown' = {}
  /\ cpc' = "called"
  /\ UNCHANGED <<shared, locals, captured, answer, running>>

Return(how) == answer' = how /\ cpc' = "idle"

NothingToDo ==
  /\ cpc = "called"
  /\ wanted = 0
  /\ Return(NoTask)
  /\ UNCHANGED <<shared, locals, wanted, captured, calls, history>>

(* The serial fallback of the pool and of its two users. *)
OnCallersThread == Workers = {} \/ wanted <= SerialUpTo

RunSerial ==
  /\ cpc = "called"
  /\ wanted > 0
  /\ OnCallersThread
  /\ cpc' = "serial"
  /\ UNCHANGED <<shared, locals, wanted, captured, answer, calls, history>>

NextSerial == Cardinality(begun)

BeginSerial ==
  /\ cpc = "serial"
  /\ NextSerial < wanted
  /\ begun' = begun \cup {NextSerial}
  /\ running' = {NextSerial}
  /\ cpc' = "serial_run"
  /\ UNCHANGED <<shared, locals, wanted, captured, answer, calls, thrown>>

EndSerial ==
  /\ cpc = "serial_run"
  /\ running' = {}
  /\ cpc' = "serial"
  /\ UNCHANGED <<shared, locals, wanted, captured, answer, calls, begun, thrown>>

(* An exception leaves the loop, and parallel_for, at once. *)
SerialThrows ==
  /\ cpc = "serial_run"
  /\ thrown' = running
  /\ running' = {}
  /\ captured' = NextSerial - 1
  /\ cpc' = "returning"
  /\ UNCHANGED <<shared, locals, wanted, answer, calls, begun>>

SerialDone ==
  /\ cpc = "serial"
  /\ NextSerial = wanted
  /\ Return(NoTask)
  /\ UNCHANGED <<shared, locals, wanted, captured, calls, history>>

(* parallel_for, the first section under the mutex ... *)
Publish ==
  /\ cpc = "called"
  /\ wanted > 0
  /\ ~OnCallersThread
  /\ current_task' = TRUE
  /\ task_exception' = NoTask
  /\ next_task' = 0
  /\ task_count' = wanted
  /\ active_workers' = Cardinality(Workers)
  /\ generation' = generation + 1
  /\ cpc' = "notify"
  /\ UNCHANGED <<completed_generation, stop, locals, wanted, captured, answer, calls, history>>

NotifyTaskReady ==
  /\ cpc = "notify"
  /\ WakeWorkers
  /\ cpc' = "done_test"
  /\ UNCHANGED <<shared, seen_generation, task_index, wanted, captured, answer, calls, history>>

(* ... and the second: task_done_.wait, then clear the task. *)
CallerSleeps ==
  /\ cpc = "done_test"
  /\ completed_generation # generation
  /\ cpc' = "done_asleep"
  /\ UNCHANGED <<shared, locals, wanted, captured, answer, calls, history>>

SpuriousWakeCaller ==
  /\ cpc = "done_asleep"
  /\ cpc' = "done_test"
  /\ UNCHANGED <<shared, locals, wanted, captured, answer, calls, history>>

TakeResult ==
  /\ cpc = "done_test"
  /\ completed_generation = generation
  /\ captured' = task_exception
  /\ current_task' = FALSE
  /\ task_exception' = NoTask
  /\ cpc' = "returning"
  /\ UNCHANGED <<next_task, task_count, active_workers, generation, completed_generation,
                 stop, locals, wanted, answer, calls, history>>

Finish ==
  /\ cpc = "returning"
  /\ Return(captured)
  /\ captured' = NoTask
  /\ UNCHANGED <<shared, locals, wanted, calls, history>>

(* The destructor: stop_workers. *)
StopWorkers ==
  /\ cpc = "idle"
  /\ stop' = TRUE
  /\ generation' = generation + 1
  /\ cpc' = "stop_notify"
  /\ UNCHANGED <<next_task, task_count, active_workers, completed_generation,
                 current_task, task_exception, locals, wanted, captured, answer, calls, history>>

NotifyStop ==
  /\ cpc = "stop_notify"
  /\ WakeWorkers
  /\ cpc' = "joining"
  /\ UNCHANGED <<shared, seen_generation, task_index, wanted, captured, answer, calls, history>>

JoinWorkers ==
  /\ cpc = "joining"
  /\ \A w \in Workers : pc[w] = "ended"
  /\ cpc' = "destroyed"
  /\ UNCHANGED <<shared, locals, wanted, captured, answer, calls, history>>

(* Not a step of the program: the pool is gone. *)
Gone == cpc = "destroyed" /\ UNCHANGED vars

Serial == NothingToDo \/ RunSerial \/ BeginSerial \/ EndSerial \/ SerialThrows \/ SerialDone

Parallel == Publish \/ NotifyTaskReady \/ CallerSleeps \/ TakeResult \/ Finish

Destructor == NotifyStop \/ JoinWorkers

-----------------------------------------------------------------------------

Init ==
  /\ next_task = 0 /\ task_count = 0 /\ active_workers = 0
  /\ generation = 0 /\ completed_generation = 0
  /\ stop = FALSE /\ current_task = FALSE /\ task_exception = NoTask
  /\ pc = [w \in Workers |-> "ready"]
  /\ seen_generation = [w \in Workers |-> 0]
  /\ task_index = [w \in Workers |-> 0]
  /\ cpc = "idle" /\ wanted = 0 /\ captured = NoTask /\ answer = NoTask /\ calls = 0
  /\ begun = {} /\ running = {} /\ thrown = {}

Next ==
  \/ \E w \in Workers : Worker(w) \/ SpuriousWake(w)
  \/ Call \/ Serial \/ Parallel \/ SpuriousWakeCaller
  \/ StopWorkers \/ Destructor
  \/ Gone

Spec == Init /\ [][Next]_vars

(* Every thread runs, and tasks end.  Nobody owes a call or a destruction.  *)
FairSpec ==
  /\ Spec
  /\ \A w \in Workers : WF_vars(Worker(w))
  /\ WF_vars(Serial \/ Parallel \/ Destructor)

-----------------------------------------------------------------------------
(* Properties. *)

TypeOK ==
  /\ next_task \in Nat /\ task_count \in Nat /\ active_workers \in Nat
  /\ generation \in Nat /\ completed_generation \in Nat
  /\ stop \in BOOLEAN /\ current_task \in BOOLEAN
  /\ task_exception \in Int
  /\ pc \in [Workers -> WorkerStates]
  /\ seen_generation \in [Workers -> Nat]
  /\ task_index \in [Workers -> Nat]
  /\ cpc \in CallerStates
  /\ wanted \in Nat /\ captured \in Int /\ answer \in Int /\ calls \in Nat
  /\ begun \subseteq Nat /\ running \subseteq Nat /\ thrown \subseteq Nat

(* A worker in its task loop reads task_count_ and current_task_ without    *)
(* the mutex: meanwhile nobody writes them, since the caller is inside the  *)
(* very parallel_for the worker takes part in.                              *)
NoUnlockedRace ==
  \A w \in Workers : pc[w] \in {"fetch", "call", "run"} =>
    /\ cpc \in {"notify", "done_test", "done_asleep"}
    /\ completed_generation # generation
    /\ seen_generation[w] = generation
    /\ current_task

(* Two workers never hold the same task. *)
OneWorkerPerTask ==
  \A v, w \in Workers :
    /\ v # w
    /\ pc[v] \in {"call", "run"} /\ pc[w] \in {"call", "run"}
    /\ task_index[v] < task_count
    => task_index[v] # task_index[w]

(* The pool keeps the contract of ParallelFor. *)
Contract == INSTANCE ParallelFor WITH
  calling <- cpc \notin {"idle", "stop_notify", "joining", "destroyed"},
  todo    <- (0..(wanted - 1)) \ begun

ContractSpec == Contract!Spec

(* Every call returns and the destructor ends: neither waits for a thread   *)
(* that waits for it.                                                       *)
EveryCallReturns == (cpc = "called") ~> (cpc = "idle")

DestructorEnds == (cpc = "stop_notify") ~> (cpc = "destroyed")
=============================================================================
