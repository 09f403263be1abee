----------------------- MODULE IndexedTaskPoolProofs -----------------------
(***************************************************************************)
(* IndexedTaskPool for every set of workers, every number of tasks and     *)
(* every number of calls: the unlocked reads do not race, no task is run   *)
(* twice, and the pool implements ParallelFor.  The inductive invariant is *)
(* Inv.                                                                    *)
(***************************************************************************)
EXTENDS IndexedTaskPool, FiniteSetTheorems, TLAPS

(* The caller is between the publication of its task and its result. *)
Waiting == cpc \in {"notify", "done_test", "done_asleep"}

Stopping == cpc \in {"stop_notify", "joining", "destroyed"}

InLoop(w) == pc[w] \in {"fetch", "call", "run", "catch", "leave"}

(* The workers that active_workers_ counts: those that have not left the    *)
(* current generation, be it that they have not joined it yet.              *)
Active == {w \in Workers : InLoop(w) \/ seen_generation[w] # generation}

(* A worker past its last task of the current generation. *)
Left(w) == pc[w] = "leave" \/ w \notin Active

Generations ==
  /\ stop <=> Stopping
  /\ Stopping => active_workers = 0
  /\ ~Stopping => /\ active_workers = Cardinality(Active)
                  /\ active_workers = 0 <=> completed_generation = generation
  /\ completed_generation # generation => Waiting \/ Stopping
  /\ \A w \in Workers : /\ seen_generation[w] <= generation
                        /\ InLoop(w) => ~Stopping /\ seen_generation[w] = generation
                        /\ pc[w] = "ended" => Stopping
  /\ completed_generation <= generation

(* The call in progress, and its tasks, while the workers run them. *)
SharedCall ==
  Waiting =>
    /\ Workers # {} /\ wanted > 0 /\ task_count = wanted /\ current_task
    /\ begun \subseteq 0..(wanted - 1)
    /\ \A i \in begun : i < next_task
    /\ running = {task_index[w] : w \in {v \in Workers : pc[v] = "run"}}

Tasks ==
  Waiting => \A w \in Workers :
    /\ pc[w] \in {"call", "run"} /\ task_index[w] < wanted => task_index[w] < next_task
    /\ pc[w] = "call" /\ task_index[w] < wanted => task_index[w] \notin begun
    /\ pc[w] = "call" /\ task_index[w] >= wanted => next_task >= wanted
    /\ pc[w] = "run" => task_index[w] < wanted
    /\ pc[w] = "catch" => task_index[w] \in thrown
    /\ Left(w) => next_task >= wanted

(* What is lost when no exception is: nothing. *)
Outcome ==
  Waiting =>
    /\ task_exception = NoTask =>
         \A i \in 0..(wanted - 1) :
           i < next_task => \/ i \in begun
                            \/ \E w \in Workers : pc[w] = "call" /\ task_index[w] = i
    /\ task_exception # NoTask => task_exception \in thrown /\ next_task >= wanted
    /\ thrown # {} => task_exception # NoTask \/ \E w \in Workers : pc[w] = "catch"

(* The call while no worker takes part in it. *)
LonelyCall ==
  /\ cpc \in {"idle", "called", "serial", "returning"} \cup
             {"stop_notify", "joining", "destroyed"} => running = {}
  /\ cpc = "called" => begun = {} /\ thrown = {}
  /\ cpc \in {"serial", "serial_run"} =>
       /\ thrown = {}
       /\ \E k \in 0..wanted : begun = 0..(k - 1)
  /\ cpc = "serial_run" => begun # {} /\ running = {NextSerial - 1}
  /\ cpc = "returning" =>
       IF captured = NoTask THEN thrown = {} /\ begun = 0..(wanted - 1)
                            ELSE captured \in thrown

Inv ==
  /\ TypeOK
  /\ Generations
  /\ SharedCall
  /\ OneWorkerPerTask
  /\ Tasks
  /\ Outcome
  /\ LonelyCall

-----------------------------------------------------------------------------
(* active_workers_ is a head count, so it reaches 0 with the last worker. *)
LEMMA HeadCount ==
  ASSUME Inv
  PROVE  /\ IsFiniteSet(Active) /\ Cardinality(Active) \in Nat
         /\ Cardinality(Active) = 0 <=> Active = {}
<1>1. IsFiniteSet(Active)
  BY PoolAssumption, FS_Subset DEF Active
<1> QED BY <1>1, FS_CardinalityType, FS_EmptySet

(* A worker in its loop is counted, so the generation is under way, and so  *)
(* is the call.                                                             *)
LEMMA LoopIsCounted ==
  ASSUME Inv, NEW w \in Workers, InLoop(w)
  PROVE  /\ w \in Active /\ active_workers > 0
         /\ completed_generation # generation
         /\ seen_generation[w] = generation
         /\ Waiting /\ ~Stopping /\ ~stop
<1>1. w \in Active /\ ~Stopping /\ seen_generation[w] = generation
  BY DEF Inv, Generations, Active
<1>2. active_workers = Cardinality(Active) /\ active_workers > 0
  BY <1>1, HeadCount DEF Inv, Generations
<1> QED BY <1>1, <1>2 DEF Inv, Generations

(* When the generation is complete nobody is in its loop. *)
LEMMA NobodyLeft ==
  ASSUME Inv, ~Stopping, completed_generation = generation
  PROVE  /\ Active = {}
         /\ \A w \in Workers : pc[w] \in {"ready", "asleep"} /\ Left(w)
<1>1. Active = {}
  BY HeadCount DEF Inv, Generations
<1>2. \A w \in Workers : pc[w] \in {"ready", "asleep"}
  BY <1>1 DEF Inv, Generations, TypeOK, WorkerStates, Active, InLoop
<1> QED BY <1>1, <1>2 DEF Left

(* The mark of "no exception" is no task. *)
LEMMA NoTaskType == NoTask \in Int /\ \A i \in Nat : i # NoTask
BY DEF NoTask

LEMMA InitInv == Init => Inv
<1> SUFFICES ASSUME Init PROVE Inv
  OBVIOUS
<1>1. Active = {}
  BY DEF Init, Active, InLoop
<1>2. TypeOK
  BY NoTaskType DEF Init, TypeOK, WorkerStates, CallerStates
<1>3. Generations
  BY <1>1, FS_EmptySet DEF Init, Generations, Stopping, Waiting, InLoop
<1>4. SharedCall /\ OneWorkerPerTask /\ Tasks /\ Outcome /\ LonelyCall
  BY DEF Init, SharedCall, OneWorkerPerTask, Tasks, Outcome, LonelyCall, Waiting
<1> QED BY <1>2, <1>3, <1>4 DEF Inv

-----------------------------------------------------------------------------
(* Types. *)
LEMMA TypeStep ==
  ASSUME Inv, [Next]_vars
  PROVE  TypeOK'
<1> USE NoTaskType DEF TypeOK, shared, locals, caller, history
<1>0. TypeOK
  BY DEF Inv
<1>1. ASSUME NEW w \in Workers, Worker(w) \/ SpuriousWake(w)
      PROVE  TypeOK'
  <2> USE <1>0 DEF WorkerStates
  <2>1. CASE WorkerSleeps(w)     BY <2>1 DEF WorkerSleeps
  <2>2. CASE SpuriousWake(w)     BY <2>2 DEF SpuriousWake
  <2>3. CASE WorkerJoinsIn(w)    BY <2>3 DEF WorkerJoinsIn
  <2>4. CASE WorkerEnds(w)       BY <2>4 DEF WorkerEnds
  <2>5. CASE FetchTask(w)        BY <2>5 DEF FetchTask
  <2>6. CASE NoTaskLeft(w)       BY <2>6 DEF NoTaskLeft
  <2>7. CASE BeginTask(w)        BY <2>7 DEF BeginTask
  <2>8. CASE EndTask(w)          BY <2>8 DEF EndTask
  <2>9. CASE TaskThrows(w)       BY <2>9 DEF TaskThrows
  <2>10. CASE CatchException(w)  BY <2>10 DEF CatchException
  <2>11. CASE LeaveGeneration(w)
    <3>1. active_workers > 0
      BY <2>11, LoopIsCounted DEF LeaveGeneration, InLoop
    <3> QED BY <2>11, <3>1 DEF LeaveGeneration, CallerStates
  <2> QED BY <1>1, <2>1, <2>2, <2>3, <2>4, <2>5, <2>6, <2>7, <2>8, <2>9, <2>10, <2>11 DEF Worker
<1> USE DEF CallerStates
<1>2. CASE Call
  BY <1>0, <1>2, PoolAssumption DEF Call
<1>3. CASE Serial
  <2>1. CASE NothingToDo         BY <1>0, <2>1 DEF NothingToDo, Return
  <2>2. CASE RunSerial           BY <1>0, <2>2 DEF RunSerial
  <2>3. CASE EndSerial           BY <1>0, <2>3 DEF EndSerial
  <2>4. CASE SerialDone          BY <1>0, <2>4 DEF SerialDone, Return
  <2>5. ASSUME BeginSerial \/ SerialThrows PROVE NextSerial \in Nat
    <3>1. cpc \in {"serial", "serial_run"}
      BY <2>5 DEF BeginSerial, SerialThrows
    <3>2. PICK k \in 0..wanted : begun = 0..(k - 1)
      BY <3>1 DEF Inv, LonelyCall
    <3> QED BY <1>0, <3>2, FS_Interval DEF NextSerial
  <2>6. CASE BeginSerial         BY <1>0, <2>5, <2>6 DEF BeginSerial
  <2>7. CASE SerialThrows        BY <1>0, <2>5, <2>7 DEF SerialThrows
  <2> QED BY <1>3, <2>1, <2>2, <2>3, <2>4, <2>6, <2>7 DEF Serial
<1>4. CASE Parallel
  <2>1. CASE Publish
    BY <1>0, <2>1, PoolAssumption, FS_CardinalityType DEF Publish
  <2>2. CASE NotifyTaskReady
    BY <1>0, <2>2 DEF NotifyTaskReady, WakeWorkers, WorkerStates
  <2>3. CASE CallerSleeps        BY <1>0, <2>3 DEF CallerSleeps
  <2>4. CASE TakeResult          BY <1>0, <2>4 DEF TakeResult
  <2>5. CASE Finish              BY <1>0, <2>5 DEF Finish, Return
  <2> QED BY <1>4, <2>1, <2>2, <2>3, <2>4, <2>5 DEF Parallel
<1>5. CASE SpuriousWakeCaller    BY <1>0, <1>5 DEF SpuriousWakeCaller
<1>6. CASE StopWorkers           BY <1>0, <1>6 DEF StopWorkers
<1>7. CASE NotifyStop
  BY <1>0, <1>7 DEF NotifyStop, WakeWorkers, WorkerStates
<1>8. CASE JoinWorkers           BY <1>0, <1>8 DEF JoinWorkers
<1>9. CASE Gone \/ UNCHANGED vars
  BY <1>0, <1>9 DEF Gone, vars
<1> QED BY <1>1, <1>2, <1>3, <1>4, <1>5, <1>6, <1>7, <1>8, <1>9 DEF Next, Destructor

-----------------------------------------------------------------------------
(* Generations. *)

(* A step that leaves the counters alone, and no worker enters or leaves    *)
(* its loop.                                                                *)
LEMMA SameGenerations ==
  ASSUME Inv,
         UNCHANGED <<active_workers, generation, completed_generation, stop,
                     seen_generation>>,
         \A w \in Workers : /\ InLoop(w)' <=> InLoop(w)
                            /\ pc'[w] = "ended" => pc[w] = "ended" \/ Stopping,
         Stopping' <=> Stopping,
         Waiting => Waiting' \/ completed_generation = generation
  PROVE  Generations'
<1>1. Active' = Active
  BY DEF Active
<1> QED BY <1>1 DEF Inv, Generations

LEMMA GenerationsStep ==
  ASSUME Inv, [Next]_vars
  PROVE  Generations'
<1> USE DEF TypeOK, shared, locals, caller, history
<1>0. TypeOK /\ Generations
  BY DEF Inv
<1>1. ASSUME NEW w \in Workers, Worker(w) \/ SpuriousWake(w)
      PROVE  Generations'
  <2> USE <1>0 DEF InLoop, Waiting, Stopping
  <2>1. CASE WorkerSleeps(w)     BY <2>1, SameGenerations DEF WorkerSleeps
  <2>2. CASE SpuriousWake(w)     BY <2>2, SameGenerations DEF SpuriousWake
  <2>3. CASE WorkerJoinsIn(w)
    <3>1. seen_generation[w] # generation /\ ~stop
      BY <2>3 DEF WorkerJoinsIn, TaskReady
    <3>2. Active' = Active
      BY <2>3, <3>1 DEF WorkerJoinsIn, Active
    <3> QED BY <2>3, <3>1, <3>2 DEF WorkerJoinsIn, Generations
  <2>4. CASE WorkerEnds(w)
    <3>1. Stopping
      BY <2>4 DEF WorkerEnds, Generations
    <3> QED BY <2>4, <3>1, SameGenerations DEF WorkerEnds
  <2>5. CASE FetchTask(w)        BY <2>5, SameGenerations DEF FetchTask
  <2>6. CASE NoTaskLeft(w)       BY <2>6, SameGenerations DEF NoTaskLeft
  <2>7. CASE BeginTask(w)        BY <2>7, SameGenerations DEF BeginTask
  <2>8. CASE EndTask(w)          BY <2>8, SameGenerations DEF EndTask
  <2>9. CASE TaskThrows(w)       BY <2>9, SameGenerations DEF TaskThrows
  <2>10. CASE CatchException(w)  BY <2>10, SameGenerations DEF CatchException
  <2>11. CASE LeaveGeneration(w)
    <3>1. /\ w \in Active /\ active_workers > 0 /\ completed_generation # generation
          /\ seen_generation[w] = generation /\ Waiting /\ ~Stopping
      BY <2>11, LoopIsCounted DEF LeaveGeneration
    <3>2. Active' = Active \ {w}
      BY <2>11, <3>1 DEF LeaveGeneration, Active
    <3>3. Cardinality(Active') = active_workers - 1
      BY <3>1, <3>2, HeadCount, FS_RemoveElement, ZenonT(30) DEF Generations
    <3>4. ~Stopping' /\ Waiting'
      BY <2>11, <3>1 DEF LeaveGeneration
    <3> QED BY <2>11, <3>1, <3>3, <3>4 DEF LeaveGeneration, Generations
  <2> QED BY <1>1, <2>1, <2>2, <2>3, <2>4, <2>5, <2>6, <2>7, <2>8, <2>9, <2>10, <2>11 DEF Worker
<1> USE <1>0 DEF InLoop, Waiting, Stopping
<1>2. CASE Call                  BY <1>2, SameGenerations DEF Call
<1>3. CASE Serial
  <2>1. CASE NothingToDo         BY <2>1, SameGenerations DEF NothingToDo, Return
  <2>2. CASE RunSerial           BY <2>2, SameGenerations DEF RunSerial
  <2>3. CASE EndSerial           BY <2>3, SameGenerations DEF EndSerial
  <2>4. CASE SerialDone          BY <2>4, SameGenerations DEF SerialDone, Return
  <2>5. CASE BeginSerial         BY <2>5, SameGenerations DEF BeginSerial
  <2>6. CASE SerialThrows        BY <2>6, SameGenerations DEF SerialThrows
  <2> QED BY <1>3, <2>1, <2>2, <2>3, <2>4, <2>5, <2>6 DEF Serial
<1>4. CASE Parallel
  <2>1. CASE Publish
    <3>1. completed_generation = generation /\ ~Stopping
      BY <2>1 DEF Publish, Generations
    <3>2. \A w \in Workers : ~InLoop(w) /\ seen_generation[w] <= generation /\ pc[w] # "ended"
      BY <3>1, NobodyLeft DEF Generations
    <3>3. Active' = Workers
      BY <2>1, <3>2 DEF Publish, Active
    <3>4. Cardinality(Workers) \in Nat /\ Cardinality(Workers) # 0
      BY <2>1, PoolAssumption, FS_CardinalityType, FS_EmptySet DEF Publish, OnCallersThread
    <3> QED BY <2>1, <3>1, <3>2, <3>3, <3>4 DEF Publish, Generations
  <2>2. CASE NotifyTaskReady
    BY <2>2, SameGenerations DEF NotifyTaskReady, WakeWorkers
  <2>3. CASE CallerSleeps        BY <2>3, SameGenerations DEF CallerSleeps
  <2>4. CASE TakeResult          BY <2>4, SameGenerations DEF TakeResult
  <2>5. CASE Finish              BY <2>5, SameGenerations DEF Finish, Return
  <2> QED BY <1>4, <2>1, <2>2, <2>3, <2>4, <2>5 DEF Parallel
<1>5. CASE SpuriousWakeCaller    BY <1>5, SameGenerations DEF SpuriousWakeCaller
<1>6. CASE StopWorkers
  <2>1. completed_generation = generation /\ ~Stopping
    BY <1>6 DEF StopWorkers, Generations
  <2>2. \A w \in Workers : ~InLoop(w) /\ seen_generation[w] <= generation
    BY <2>1, NobodyLeft DEF Generations
  <2>3. active_workers = 0
    BY <2>1 DEF Generations
  <2> QED BY <1>6, <2>1, <2>2, <2>3 DEF StopWorkers, Generations
<1>7. CASE NotifyStop
  BY <1>7, SameGenerations DEF NotifyStop, WakeWorkers
<1>8. CASE JoinWorkers           BY <1>8, SameGenerations DEF JoinWorkers
<1>9. CASE Gone \/ UNCHANGED vars
  BY <1>9, SameGenerations DEF Gone, vars
<1> QED BY <1>1, <1>2, <1>3, <1>4, <1>5, <1>6, <1>7, <1>8, <1>9 DEF Next, Destructor

-----------------------------------------------------------------------------
(* Tasks. *)

TaskParts == SharedCall /\ OneWorkerPerTask /\ Tasks /\ Outcome

(* A step that moves no worker within its loop, touches no task, and does   *)
(* not publish one.                                                         *)
LEMMA SameTasks ==
  ASSUME Inv,
         UNCHANGED <<next_task, task_count, generation, task_exception, current_task,
                     seen_generation, task_index, wanted, begun, running, thrown>>,
         \A w \in Workers : /\ InLoop(w) <=> InLoop(w)'
                            /\ InLoop(w) => pc'[w] = pc[w],
         Waiting' => Waiting
  PROVE  TaskParts'
<1>1. Active' = Active
  BY DEF Active
<1>2. \A w \in Workers : Left(w)' <=> Left(w)
  BY <1>1 DEF Left, InLoop
<1>3. \A w \in Workers : /\ pc'[w] = "call" <=> pc[w] = "call"
                         /\ pc'[w] = "run" <=> pc[w] = "run"
                         /\ pc'[w] = "catch" <=> pc[w] = "catch"
  BY DEF InLoop
<1>4. SharedCall'
  BY <1>3 DEF Inv, SharedCall
<1>5. OneWorkerPerTask'
  BY <1>3 DEF Inv, OneWorkerPerTask
<1>6. Tasks'
  BY <1>2, <1>3 DEF Inv, Tasks
<1>7. Outcome'
  BY <1>3 DEF Inv, Outcome
<1> QED BY <1>4, <1>5, <1>6, <1>7 DEF TaskParts

(* A step that ends the call, or comes before its publication. *)
LEMMA NoTasks ==
  ASSUME Inv, ~Waiting', ~Waiting,
         \A w \in Workers : InLoop(w)' => InLoop(w)
  PROVE  TaskParts'
<1>1. \A w \in Workers : ~InLoop(w)
  BY LoopIsCounted
<1> QED BY <1>1 DEF InLoop, TaskParts, SharedCall, OneWorkerPerTask, Tasks, Outcome

LEMMA TaskStep ==
  ASSUME Inv, [Next]_vars
  PROVE  TaskParts'
<1> USE DEF TypeOK, shared, locals, caller, history
<1>0. TypeOK /\ Generations /\ TaskParts
  BY DEF Inv, TaskParts
<1>1. ASSUME NEW w \in Workers, Worker(w) \/ SpuriousWake(w)
      PROVE  TaskParts'
  <2> USE <1>0
  <2>1. CASE WorkerSleeps(w)     BY <2>1, SameTasks DEF WorkerSleeps, InLoop, Waiting
  <2>2. CASE SpuriousWake(w)     BY <2>2, SameTasks DEF SpuriousWake, InLoop, Waiting
  <2>4. CASE WorkerEnds(w)
    <3>1. ~Waiting
      BY <2>4 DEF WorkerEnds, Generations, Stopping, Waiting
    <3> QED BY <2>4, <3>1, NoTasks DEF WorkerEnds, InLoop, Waiting
  <2>3. CASE WorkerJoinsIn(w)
    <3>1. w \in Active /\ ~Stopping
      BY <2>3 DEF WorkerJoinsIn, TaskReady, Active, Generations
    <3>2. Active' = Active
      BY <2>3, <3>1 DEF WorkerJoinsIn, TaskReady, Active, InLoop
    <3>3. \A v \in Workers : Left(v)' <=> Left(v)
      BY <2>3, <3>2 DEF WorkerJoinsIn, Left
    <3>4. \A v \in Workers : /\ pc'[v] = "call" <=> pc[v] = "call"
                             /\ pc'[v] = "run" <=> pc[v] = "run"
                             /\ pc'[v] = "catch" <=> pc[v] = "catch"
      BY <2>3 DEF WorkerJoinsIn
    <3> QED BY <2>3, <3>3, <3>4
            DEF WorkerJoinsIn, TaskParts, SharedCall, OneWorkerPerTask, Tasks, Outcome, Waiting
  <2>5. CASE FetchTask(w)
    <3>1. w \in Active /\ Waiting
      BY <2>5, LoopIsCounted DEF FetchTask, InLoop
    <3>2. Active' = Active /\ Waiting'
      BY <2>5 , <3>1 DEF FetchTask, Active, InLoop, Waiting
    <3>3. \A v \in Workers \ {w} : pc'[v] = pc[v] /\ (Left(v)' <=> Left(v))
      BY <2>5, <3>2 DEF FetchTask, Left
    <3>4. SharedCall'
      BY <2>5, <3>1, <3>3 DEF FetchTask, TaskParts, SharedCall, Tasks, OneWorkerPerTask
    <3>5. OneWorkerPerTask'
      BY <2>5, <3>1, <3>3 DEF FetchTask, TaskParts, SharedCall, OneWorkerPerTask, Tasks
    <3>6. Tasks'
      BY <2>5, <3>1, <3>2, <3>3 DEF FetchTask, TaskParts, SharedCall, OneWorkerPerTask, Tasks, Outcome, Left
    <3>7. Outcome'
      BY <2>5, <3>1, <3>3 DEF FetchTask, TaskParts, SharedCall, Tasks, Outcome
    <3> QED BY <3>4, <3>5, <3>6, <3>7 DEF TaskParts
  <2>6. CASE NoTaskLeft(w)
    <3>1. w \in Active /\ Waiting
      BY <2>6, LoopIsCounted DEF NoTaskLeft, InLoop
    <3>2. Active' = Active /\ Waiting'
      BY <2>6 , <3>1 DEF NoTaskLeft, Active, InLoop, Waiting
    <3>3. \A v \in Workers \ {w} : pc'[v] = pc[v] /\ (Left(v)' <=> Left(v))
      BY <2>6, <3>2 DEF NoTaskLeft, Left
    <3>4. SharedCall'
      BY <2>6, <3>1, <3>3 DEF NoTaskLeft, TaskParts, SharedCall, Tasks, OneWorkerPerTask
    <3>5. OneWorkerPerTask'
      BY <2>6, <3>1, <3>3 DEF NoTaskLeft, TaskParts, SharedCall, OneWorkerPerTask, Tasks
    <3>6. Tasks'
      BY <2>6, <3>1, <3>2, <3>3 DEF NoTaskLeft, TaskParts, SharedCall, OneWorkerPerTask, Tasks, Outcome, Left
    <3>7. Outcome'
      BY <2>6, <3>1, <3>3 DEF NoTaskLeft, TaskParts, SharedCall, Tasks, Outcome
    <3> QED BY <3>4, <3>5, <3>6, <3>7 DEF TaskParts
  <2>7. CASE BeginTask(w)
    <3>1. w \in Active /\ Waiting
      BY <2>7, LoopIsCounted DEF BeginTask, InLoop
    <3>2. Active' = Active /\ Waiting'
      BY <2>7 , <3>1 DEF BeginTask, Active, InLoop, Waiting
    <3>3. \A v \in Workers \ {w} : pc'[v] = pc[v] /\ (Left(v)' <=> Left(v))
      BY <2>7, <3>2 DEF BeginTask, Left
    <3>4. SharedCall'
      <4>1. task_count = wanted /\ task_index[w] \in Nat /\ task_index[w] < wanted
        BY <2>7, <3>1 DEF BeginTask, TaskParts, SharedCall
      <4>2. begun' \subseteq 0..(wanted - 1) /\ \A i \in begun' : i < next_task
        <5>1. task_index[w] \in 0..(wanted - 1) /\ task_index[w] < next_task
          BY <2>7, <3>1, <4>1 DEF BeginTask, TaskParts, Tasks
        <5>2. begun' = begun \cup {task_index[w]} /\ wanted' = wanted /\ next_task' = next_task
          BY <2>7 DEF BeginTask
        <5> QED BY <3>1, <5>1, <5>2 DEF TaskParts, SharedCall
      <4>3. {v \in Workers : pc'[v] = "run"} = {v \in Workers : pc[v] = "run"} \cup {w}
        BY <2>7 DEF BeginTask
      <4>4. running' = {task_index[v] : v \in {u \in Workers : pc'[u] = "run"}}
        BY <2>7, <3>1, <4>3 DEF BeginTask, TaskParts, SharedCall
      <4> QED BY <2>7, <3>1, <4>2, <4>4 DEF BeginTask, TaskParts, SharedCall
    <3>5. OneWorkerPerTask'
      BY <2>7, <3>1, <3>3 DEF BeginTask, TaskParts, SharedCall, OneWorkerPerTask, Tasks
    <3>6. Tasks'
      BY <2>7, <3>1, <3>2, <3>3 DEF BeginTask, TaskParts, SharedCall, OneWorkerPerTask, Tasks, Outcome, Left
    <3>7. Outcome'
      BY <2>7, <3>1, <3>3 DEF BeginTask, TaskParts, SharedCall, Tasks, Outcome
    <3> QED BY <3>4, <3>5, <3>6, <3>7 DEF TaskParts
  <2>8. CASE EndTask(w)
    <3>1. w \in Active /\ Waiting
      BY <2>8, LoopIsCounted DEF EndTask, InLoop
    <3>2. Active' = Active /\ Waiting'
      BY <2>8 , <3>1 DEF EndTask, Active, InLoop, Waiting
    <3>3. \A v \in Workers \ {w} : pc'[v] = pc[v] /\ (Left(v)' <=> Left(v))
      BY <2>8, <3>2 DEF EndTask, Left
    <3>4. SharedCall'
      BY <2>8, <3>1, <3>3 DEF EndTask, TaskParts, SharedCall, Tasks, OneWorkerPerTask
    <3>5. OneWorkerPerTask'
      BY <2>8, <3>1, <3>3 DEF EndTask, TaskParts, SharedCall, OneWorkerPerTask, Tasks
    <3>6. Tasks'
      BY <2>8, <3>1, <3>2, <3>3 DEF EndTask, TaskParts, SharedCall, OneWorkerPerTask, Tasks, Outcome, Left
    <3>7. Outcome'
      BY <2>8, <3>1, <3>3 DEF EndTask, TaskParts, SharedCall, Tasks, Outcome
    <3> QED BY <3>4, <3>5, <3>6, <3>7 DEF TaskParts
  <2>9. CASE TaskThrows(w)
    <3>1. w \in Active /\ Waiting
      BY <2>9, LoopIsCounted DEF TaskThrows, InLoop
    <3>2. Active' = Active /\ Waiting'
      BY <2>9 , <3>1 DEF TaskThrows, Active, InLoop, Waiting
    <3>3. \A v \in Workers \ {w} : pc'[v] = pc[v] /\ (Left(v)' <=> Left(v))
      BY <2>9, <3>2 DEF TaskThrows, Left
    <3>4. SharedCall'
      BY <2>9, <3>1, <3>3 DEF TaskThrows, TaskParts, SharedCall, Tasks, OneWorkerPerTask
    <3>5. OneWorkerPerTask'
      BY <2>9, <3>1, <3>3 DEF TaskThrows, TaskParts, SharedCall, OneWorkerPerTask, Tasks
    <3>6. Tasks'
      BY <2>9, <3>1, <3>2, <3>3 DEF TaskThrows, TaskParts, SharedCall, OneWorkerPerTask, Tasks, Outcome, Left
    <3>7. Outcome'
      BY <2>9, <3>1, <3>3 DEF TaskThrows, TaskParts, SharedCall, Tasks, Outcome
    <3> QED BY <3>4, <3>5, <3>6, <3>7 DEF TaskParts
  <2>10. CASE CatchException(w)
    <3>1. w \in Active /\ Waiting
      BY <2>10, LoopIsCounted DEF CatchException, InLoop
    <3>2. Active' = Active /\ Waiting'
      BY <2>10 , <3>1 DEF CatchException, Active, InLoop, Waiting
    <3>3. \A v \in Workers \ {w} : pc'[v] = pc[v] /\ (Left(v)' <=> Left(v))
      BY <2>10, <3>2 DEF CatchException, Left
    <3>4. SharedCall'
      BY <2>10, <3>1, <3>3 DEF CatchException, TaskParts, SharedCall, Tasks, OneWorkerPerTask
    <3>5. OneWorkerPerTask'
      BY <2>10, <3>1, <3>3 DEF CatchException, TaskParts, SharedCall, OneWorkerPerTask, Tasks
    <3>6. Tasks'
      BY <2>10, <3>1, <3>2, <3>3 DEF CatchException, TaskParts, SharedCall, OneWorkerPerTask, Tasks, Outcome, Left
    <3>7. Outcome'
      <4>1. task_count = wanted /\ task_index[w] # NoTask /\ task_index[w] \in thrown
        BY <2>10, <3>1, NoTaskType DEF CatchException, TaskParts, SharedCall, Tasks
      <4>2. task_exception' # NoTask /\ task_exception' \in thrown' /\ next_task' >= wanted
        BY <2>10, <3>1, <4>1 DEF CatchException, TaskParts, Outcome
      <4> QED BY <2>10, <4>2 DEF CatchException, Outcome
    <3> QED BY <3>4, <3>5, <3>6, <3>7 DEF TaskParts
  <2>11. CASE LeaveGeneration(w)
    <3>1. w \in Active /\ Waiting /\ seen_generation[w] = generation
      BY <2>11, LoopIsCounted DEF LeaveGeneration, InLoop
    <3>2. Active' = Active \ {w} /\ Waiting'
      BY <2>11, <3>1 DEF LeaveGeneration, Active, InLoop, Waiting
    <3>3. \A v \in Workers : Left(v)' <=> Left(v)
      BY <2>11, <3>2 DEF LeaveGeneration, Left
    <3>4. \A v \in Workers : /\ pc'[v] = "call" <=> pc[v] = "call"
                             /\ pc'[v] = "run" <=> pc[v] = "run"
                             /\ pc'[v] = "catch" <=> pc[v] = "catch"
      BY <2>11 DEF LeaveGeneration
    <3> QED BY <2>11, <3>1, <3>2, <3>3, <3>4
            DEF LeaveGeneration, TaskParts, SharedCall, OneWorkerPerTask, Tasks, Outcome
  <2> QED BY <1>1, <2>1, <2>2, <2>3, <2>4, <2>5, <2>6, <2>7, <2>8, <2>9, <2>10, <2>11 DEF Worker
<1> USE <1>0 DEF InLoop, Waiting
<1>2. CASE Call                  BY <1>2, NoTasks DEF Call
<1>3. CASE Serial
  <2>1. CASE NothingToDo         BY <2>1, NoTasks DEF NothingToDo, Return
  <2>2. CASE RunSerial           BY <2>2, NoTasks DEF RunSerial
  <2>3. CASE EndSerial           BY <2>3, NoTasks DEF EndSerial
  <2>4. CASE SerialDone          BY <2>4, NoTasks DEF SerialDone, Return
  <2>5. CASE BeginSerial         BY <2>5, NoTasks DEF BeginSerial
  <2>6. CASE SerialThrows        BY <2>6, NoTasks DEF SerialThrows
  <2> QED BY <1>3, <2>1, <2>2, <2>3, <2>4, <2>5, <2>6 DEF Serial
<1>4. CASE Parallel
  <2>1. CASE Publish
    <3>1. completed_generation = generation /\ ~Stopping
      BY <2>1 DEF Publish, Generations, Stopping
    <3>2. \A w \in Workers : ~InLoop(w) /\ seen_generation[w] <= generation
      BY <3>1, NobodyLeft DEF Generations, InLoop
    <3>3. \A w \in Workers : ~InLoop(w)' /\ ~Left(w)'
      BY <2>1, <3>2 DEF Publish, Active, Left
    <3>4. running = {} /\ begun = {} /\ thrown = {}
      BY <2>1 DEF Inv, LonelyCall, Publish
    <3> QED BY <2>1, <3>3, <3>4
            DEF Publish, OnCallersThread, TaskParts, SharedCall, OneWorkerPerTask, Tasks, Outcome
  <2>2. CASE NotifyTaskReady
    BY <2>2, SameTasks DEF NotifyTaskReady, WakeWorkers
  <2>3. CASE CallerSleeps        BY <2>3, SameTasks DEF CallerSleeps
  <2>4. CASE TakeResult
    <3>1. completed_generation = generation /\ ~Stopping
      BY <2>4 DEF TakeResult, Generations, Stopping
    <3> QED BY <2>4, <3>1, NobodyLeft
            DEF TakeResult, TaskParts, SharedCall, OneWorkerPerTask, Tasks, Outcome
  <2>5. CASE Finish              BY <2>5, NoTasks DEF Finish, Return
  <2> QED BY <1>4, <2>1, <2>2, <2>3, <2>4, <2>5 DEF Parallel
<1>5. CASE SpuriousWakeCaller    BY <1>5, SameTasks DEF SpuriousWakeCaller
<1>6. CASE StopWorkers           BY <1>6, NoTasks DEF StopWorkers
<1>7. CASE NotifyStop            BY <1>7, NoTasks DEF NotifyStop, WakeWorkers
<1>8. CASE JoinWorkers           BY <1>8, NoTasks DEF JoinWorkers
<1>9. CASE Gone \/ UNCHANGED vars
  BY <1>9, SameTasks DEF Gone, vars
<1> QED BY <1>1, <1>2, <1>3, <1>4, <1>5, <1>6, <1>7, <1>8, <1>9 DEF Next, Destructor

-----------------------------------------------------------------------------
(* The call while no worker takes part in it. *)

(* The serial loop counts the tasks it has begun. *)
LEMMA SerialCount ==
  ASSUME Inv, cpc \in {"serial", "serial_run"}
  PROVE  /\ NextSerial \in 0..wanted
         /\ begun = 0..(NextSerial - 1)
         /\ thrown = {}
<1>1. PICK k \in 0..wanted : begun = 0..(k - 1)
  BY DEF Inv, LonelyCall
<1>2. NextSerial = k /\ k \in Nat
  BY <1>1, FS_Interval DEF NextSerial, Inv, TypeOK
<1> QED BY <1>1, <1>2 DEF Inv, LonelyCall

(* All tasks are begun, or one threw: what the caller takes when the        *)
(* generation is complete.                                                  *)
LEMMA ResultIsTrue ==
  ASSUME Inv, cpc = "done_test", completed_generation = generation
  PROVE  /\ running = {}
         /\ IF task_exception = NoTask THEN thrown = {} /\ begun = 0..(wanted - 1)
                                       ELSE task_exception \in thrown
<1>1. Waiting /\ ~Stopping
  BY DEF Waiting, Stopping
<1>2. \A w \in Workers : pc[w] \in {"ready", "asleep"} /\ Left(w)
  BY <1>1, NobodyLeft
<1>3. running = {}
  BY <1>1, <1>2 DEF Inv, SharedCall
<1>4. wanted \in Nat /\ next_task \in Nat /\ next_task >= wanted
  BY <1>1, <1>2 DEF Inv, SharedCall, Tasks, TypeOK
<1>5. CASE task_exception = NoTask
  <2>1. thrown = {}
    BY <1>1, <1>2, <1>5 DEF Inv, Outcome
  <2>2. \A i \in 0..(wanted - 1) : i \in begun
    BY <1>1, <1>2, <1>4, <1>5 DEF Inv, Outcome
  <2>3. begun \subseteq 0..(wanted - 1)
    BY <1>1 DEF Inv, SharedCall
  <2> QED BY <1>3, <1>5, <2>1, <2>2, <2>3
<1>6. CASE task_exception # NoTask
  BY <1>1, <1>3, <1>6 DEF Inv, Outcome
<1> QED BY <1>5, <1>6

LEMMA CallStep ==
  ASSUME Inv, [Next]_vars
  PROVE  LonelyCall'
<1> USE DEF shared, locals, caller, history
<1>0. TypeOK /\ LonelyCall
  BY DEF Inv
<1>1. ASSUME NEW w \in Workers, Worker(w) \/ SpuriousWake(w)
      PROVE  LonelyCall'
  <2>1. CASE UNCHANGED <<caller, history>>
    BY <1>0, <2>1 DEF LonelyCall, NextSerial
  <2>2. CASE InLoop(w)
    <3>1. cpc' \in {"notify", "done_test", "done_asleep"}
      BY <1>1, <2>2, LoopIsCounted
         DEF Worker, SpuriousWake, InLoop, Waiting, WorkerSleeps, WorkerJoinsIn, WorkerEnds,
             FetchTask, NoTaskLeft, BeginTask, EndTask, TaskThrows, CatchException,
             LeaveGeneration
    <3> QED BY <3>1 DEF LonelyCall
  <2>3. CASE ~InLoop(w)
    BY <1>1, <2>1, <2>3
       DEF Worker, SpuriousWake, InLoop, WorkerSleeps, WorkerJoinsIn, WorkerEnds,
           FetchTask, NoTaskLeft, BeginTask, EndTask, TaskThrows, CatchException,
           LeaveGeneration
  <2> QED BY <2>2, <2>3
<1> USE <1>0 DEF TypeOK
<1>2. CASE Call                  BY <1>2 DEF Call, LonelyCall
<1>3. CASE Serial
  <2>1. CASE NothingToDo         BY <2>1 DEF NothingToDo, Return, LonelyCall
  <2>2. CASE RunSerial
    <3>1. begun' = {} /\ thrown' = {} /\ running' = {} /\ cpc' = "serial" /\ wanted' = wanted
      BY <2>2 DEF RunSerial, LonelyCall
    <3>2. 0 \in 0..wanted' /\ begun' = 0..(0 - 1)
      BY <3>1
    <3> QED BY <3>1, <3>2 DEF LonelyCall
  <2>3. CASE BeginSerial
    <3>1. NextSerial \in Nat /\ NextSerial < wanted /\ begun = 0..(NextSerial - 1) /\ thrown = {}
      BY <2>3, SerialCount DEF BeginSerial
    <3>2. begun' = 0..((NextSerial + 1) - 1) /\ NextSerial + 1 \in 0..wanted'
      BY <2>3, <3>1 DEF BeginSerial
    <3>3. NextSerial' = NextSerial + 1
      BY <3>1, <3>2, FS_Interval DEF NextSerial
    <3>4. cpc' = "serial_run" /\ running' = {NextSerial} /\ thrown' = {}
      BY <2>3, <3>1 DEF BeginSerial
    <3>5. NextSerial \in begun' /\ running' = {NextSerial' - 1}
      BY <3>1, <3>2, <3>3, <3>4
    <3> QED BY <3>2, <3>4, <3>5 DEF LonelyCall
  <2>4. CASE EndSerial           BY <2>4 DEF EndSerial, LonelyCall
  <2>5. CASE SerialThrows
    <3>1. running = {NextSerial - 1} /\ NextSerial - 1 # NoTask
      <4>1. NextSerial \in Nat /\ begun = 0..(NextSerial - 1) /\ begun # {}
        BY <2>5, SerialCount DEF SerialThrows, LonelyCall
      <4> QED BY <2>5, <4>1, NoTaskType DEF SerialThrows, LonelyCall
    <3> QED BY <2>5, <3>1 DEF SerialThrows, LonelyCall
  <2>6. CASE SerialDone          BY <2>6 DEF SerialDone, Return, LonelyCall
  <2> QED BY <1>3, <2>1, <2>2, <2>3, <2>4, <2>5, <2>6 DEF Serial
<1>4. CASE Parallel
  <2>1. CASE Publish             BY <2>1 DEF Publish, LonelyCall
  <2>2. CASE NotifyTaskReady     BY <2>2 DEF NotifyTaskReady, LonelyCall
  <2>3. CASE CallerSleeps        BY <2>3 DEF CallerSleeps, LonelyCall
  <2>4. CASE TakeResult          BY <2>4, ResultIsTrue DEF TakeResult, LonelyCall
  <2>5. CASE Finish              BY <2>5 DEF Finish, Return, LonelyCall
  <2> QED BY <1>4, <2>1, <2>2, <2>3, <2>4, <2>5 DEF Parallel
<1>5. CASE SpuriousWakeCaller    BY <1>5 DEF SpuriousWakeCaller, LonelyCall
<1>6. CASE StopWorkers           BY <1>6 DEF StopWorkers, LonelyCall
<1>7. CASE NotifyStop            BY <1>7 DEF NotifyStop, LonelyCall
<1>8. CASE JoinWorkers           BY <1>8 DEF JoinWorkers, LonelyCall
<1>9. CASE Gone \/ UNCHANGED vars
  BY <1>9 DEF Gone, vars, LonelyCall, NextSerial
<1> QED BY <1>1, <1>2, <1>3, <1>4, <1>5, <1>6, <1>7, <1>8, <1>9 DEF Next, Destructor

-----------------------------------------------------------------------------
LEMMA InvStep == Inv /\ [Next]_vars => Inv'
BY TypeStep, GenerationsStep, TaskStep, CallStep DEF Inv, TaskParts

LEMMA InvHolds == Spec => []Inv
BY InitInv, InvStep, PTL DEF Spec

(* Every variable keeps its type; in particular active_workers_, which is   *)
(* decremented and unsigned, never falls below zero (worker_loop).          *)
THEOREM PoolTypes == Spec => []TypeOK
<1>1. Inv => TypeOK
  BY DEF Inv
<1> QED BY InvHolds, <1>1, PTL

(* task_count_ and current_task_, which a worker reads in its task loop     *)
(* without the mutex, are not written meanwhile: the caller is still inside *)
(* the parallel_for of that worker's generation (worker_loop).              *)
THEOREM UnlockedReadsAreSafe == Spec => []NoUnlockedRace
<1>1. Inv => NoUnlockedRace
  BY LoopIsCounted DEF NoUnlockedRace, InLoop, Waiting, Inv, SharedCall
<1> QED BY InvHolds, <1>1, PTL

(* Two workers never hold the same task of a call (next_task_.fetch_add).   *)
THEOREM NoTaskTwice == Spec => []OneWorkerPerTask
<1>1. Inv => OneWorkerPerTask
  BY DEF Inv
<1> QED BY InvHolds, <1>1, PTL

-----------------------------------------------------------------------------
(* The pool implements ParallelFor. *)

Calling == cpc \notin {"idle", "stop_notify", "joining", "destroyed"}

ToDo == (0..(wanted - 1)) \ begun

(* A step that changes nothing ParallelFor knows of. *)
LEMMA ContractStutter ==
  ASSUME UNCHANGED <<wanted, history, answer>>, Calling' = Calling
  PROVE  UNCHANGED Contract!parallelVars
BY DEF Contract!parallelVars, Calling, history

(* The instance has its own copy of the definition of Cardinality. *)
LEMMA SameCardinality ==
  ASSUME NEW S
  PROVE  Contract!Cardinality(S) = Cardinality(S)
BY DEF Contract!Cardinality, Cardinality

LEMMA BeginIsBegin ==
  ASSUME Inv, NEW i \in ToDo, Calling, Calling', UNCHANGED <<wanted, answer, thrown>>,
         begun' = begun \cup {i}, running' = running \cup {i}
  PROVE  Contract!Next
BY DEF Contract!Next, Contract!Begin, Calling, ToDo

LEMMA EndIsEnd ==
  ASSUME Inv, NEW i \in running, Calling' = Calling, UNCHANGED <<wanted, answer, begun>>,
         running' = running \ {i}, thrown' \in {thrown, thrown \cup {i}}
  PROVE  Contract!Next
BY DEF Contract!Next, Contract!End, Calling

LEMMA ContractStep ==
  ASSUME Inv, Inv', [Next]_vars
  PROVE  [Contract!Next]_(Contract!parallelVars)
<1> USE DEF shared, locals, caller, history
<1>0. TypeOK
  BY DEF Inv
<1>1. ASSUME NEW w \in Workers, Worker(w) \/ SpuriousWake(w)
      PROVE  [Contract!Next]_(Contract!parallelVars)
  <2>1. CASE BeginTask(w)
    <3>1. Waiting
      BY <2>1, LoopIsCounted DEF BeginTask, InLoop
    <3>2. task_index[w] \in ToDo
      BY <1>0, <2>1, <3>1 DEF BeginTask, Inv, SharedCall, Tasks, ToDo, TypeOK
    <3> QED BY <2>1, <3>1, <3>2, BeginIsBegin DEF BeginTask, Calling, Waiting
  <2>2. CASE EndTask(w) \/ TaskThrows(w)
    <3>1. Waiting /\ pc[w] = "run"
      BY <2>2, LoopIsCounted DEF EndTask, TaskThrows, InLoop
    <3>2. task_index[w] \in running
      BY <3>1 DEF Inv, SharedCall
    <3> QED BY <2>2, <3>2, EndIsEnd DEF EndTask, TaskThrows, Calling
  <2>3. CASE LeaveGeneration(w)
    BY <2>3, ContractStutter DEF LeaveGeneration, Calling
  <2>4. CASE WorkerSleeps(w) \/ SpuriousWake(w) \/ WorkerJoinsIn(w) \/ WorkerEnds(w)
    BY <2>4, ContractStutter DEF WorkerSleeps, SpuriousWake, WorkerJoinsIn, WorkerEnds, Calling
  <2>5. CASE FetchTask(w) \/ NoTaskLeft(w) \/ CatchException(w)
    BY <2>5, ContractStutter DEF FetchTask, NoTaskLeft, CatchException, Calling
  <2> QED BY <1>1, <2>1, <2>2, <2>3, <2>4, <2>5 DEF Worker
<1>2. CASE Call
  <2>1. wanted' \in Nat /\ begun' = {}
    BY <1>2, PoolAssumption DEF Call
  <2>2. ToDo' = 0..(wanted' - 1) /\ Cardinality(ToDo') = wanted'
    BY <2>1, FS_Interval DEF ToDo
  <2>3. ToDo' = 0..(Contract!Cardinality(ToDo') - 1)
    BY <2>2, SameCardinality
  <2>4. ~Calling /\ Calling' = TRUE /\ thrown' = {} /\ UNCHANGED <<running, answer>>
    BY <1>2 DEF Call, Calling
  <2>5. Contract!Call
    BY <2>3, <2>4, Zenon DEF Contract!Call, ToDo, Calling
  <2> QED BY <2>5 DEF Contract!Next
<1>3. CASE Serial
  <2>1. CASE NothingToDo
    <3>1. running = {} /\ thrown = {} /\ ToDo = {}
      BY <1>0, <2>1 DEF NothingToDo, Inv, LonelyCall, ToDo, TypeOK
    <3> QED BY <2>1, <3>1
            DEF NothingToDo, Return, Contract!Next, Contract!Return, ToDo, NoTask, Contract!NoTask
  <2>2. CASE RunSerial           BY <2>2, ContractStutter DEF RunSerial, Calling
  <2>3. CASE BeginSerial
    <3>1. running = {}
      BY <2>3 DEF BeginSerial, Inv, LonelyCall
    <3>2. NextSerial \in ToDo
      BY <1>0, <2>3, SerialCount DEF BeginSerial, ToDo, TypeOK
    <3> QED BY <2>3, <3>1, <3>2, BeginIsBegin DEF BeginSerial, Calling
  <2>4. ASSUME cpc = "serial_run" PROVE running = {NextSerial - 1} /\ thrown = {}
    BY <2>4 DEF Inv, LonelyCall
  <2>5. CASE EndSerial
    BY <2>4, <2>5, EndIsEnd DEF EndSerial, Calling
  <2>6. CASE SerialThrows
    BY <2>4, <2>6, EndIsEnd DEF SerialThrows, Calling
  <2>7. CASE SerialDone
    <3>1. running = {} /\ thrown = {} /\ ToDo = {}
      BY <1>0, <2>7, SerialCount DEF SerialDone, Inv, LonelyCall, ToDo, TypeOK
    <3> QED BY <2>7, <3>1
            DEF SerialDone, Return, Contract!Next, Contract!Return, ToDo, NoTask, Contract!NoTask
  <2> QED BY <1>3, <2>1, <2>2, <2>3, <2>5, <2>6, <2>7 DEF Serial
<1>4. CASE Parallel
  <2>1. CASE Publish \/ NotifyTaskReady \/ CallerSleeps \/ TakeResult
    BY <2>1, ContractStutter DEF Publish, NotifyTaskReady, CallerSleeps, TakeResult, Calling
  <2>2. CASE Finish
    <3>1. running = {} /\ IF captured = NoTask THEN thrown = {} /\ begun = 0..(wanted - 1)
                                               ELSE captured \in thrown
      BY <2>2 DEF Finish, Inv, LonelyCall
    <3> QED BY <2>2, <3>1
            DEF Finish, Return, Contract!Next, Contract!Return, NoTask, Contract!NoTask
  <2> QED BY <1>4, <2>1, <2>2 DEF Parallel
<1>5. CASE SpuriousWakeCaller \/ StopWorkers \/ Destructor
  BY <1>5, ContractStutter DEF SpuriousWakeCaller, StopWorkers, Destructor, NotifyStop,
     JoinWorkers, Calling
<1>6. CASE Gone \/ UNCHANGED vars
  BY <1>6, ContractStutter DEF Gone, vars, Calling
<1> QED BY <1>1, <1>2, <1>3, <1>4, <1>5, <1>6 DEF Next

(* The pool keeps its promise: every task is run once, inside the call, and *)
(* when parallel_for returns either all have been run and none threw, or it *)
(* rethrows an exception of one of them (parallel_for, worker_loop).        *)
THEOREM PoolImplementsParallelFor == Spec => ContractSpec
<1>1. Init => Contract!Init
  BY DEF Init, Contract!Init, NoTask, Contract!NoTask
<1>2. Inv /\ Inv' /\ [Next]_vars => [Contract!Next]_(Contract!parallelVars)
  BY ContractStep
<1> QED BY <1>1, <1>2, InvHolds, PTL DEF Spec, ContractSpec, Contract!Spec
=============================================================================
