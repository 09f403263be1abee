---------------------------- MODULE ParallelFor ----------------------------
(***************************************************************************)
(* What the callers of parallel_for(task_count, fn) rely on, with no       *)
(* threads in sight: fn is a closure over locals of the caller, so its     *)
(* calls must all lie inside the call of parallel_for, and the caller      *)
(* reads what they left behind as soon as it returns.                      *)
(***************************************************************************)
EXTENDS Integers, FiniteSets

VARIABLES
  calling,   (* TRUE from the call of parallel_for to its return           *)
  todo,      (* tasks not begun yet                                        *)
  running,   (* tasks begun and not ended                                  *)
  thrown,    (* tasks of this call that ended with an exception            *)
  answer     (* of the last call: the task whose exception it rethrew, or  *)
             (* NoTask when it returned normally                           *)

NoTask == -1

parallelVars == <<calling, todo, running, thrown, answer>>

Call ==
  /\ ~calling
  /\ calling' = TRUE
  /\ todo' = 0..(Cardinality(todo') - 1)
  /\ thrown' = {}
  /\ UNCHANGED <<running, answer>>

Begin(i) ==
  /\ calling
  /\ todo' = todo \ {i}
  /\ running' = running \cup {i}
  /\ UNCHANGED <<calling, thrown, answer>>

End(i) ==
  /\ running' = running \ {i}
  /\ thrown' \in {thrown, thrown \cup {i}}
  /\ UNCHANGED <<calling, todo, answer>>

(* All tasks are over; or one threw, and those begun are over. *)
Return ==
  /\ calling
  /\ running = {}
  /\ IF thrown = {} THEN todo = {} /\ answer' = NoTask
                    ELSE answer' \in thrown
  /\ calling' = FALSE
  /\ UNCHANGED <<todo, running, thrown>>

Init == ~calling /\ todo = {} /\ running = {} /\ thrown = {} /\ answer = NoTask

Next ==
  \/ Call
  \/ \E i \in todo : Begin(i)
  \/ \E i \in running : End(i)
  \/ Return

Spec == Init /\ [][Next]_parallelVars
=============================================================================
