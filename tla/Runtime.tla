------------------------------- MODULE Runtime -------------------------------
(***************************************************************************)
(* The life of the process-wide runtime: src/runtime.c, and initialisation,*)
(* worker_spawn, shutdown and worker_deinit of src/worker.c, with          *)
(* everything that is allocated on the way.  One thread, the owner, calls  *)
(* croutine_runtime_init, _run and _shutdown in any order and as often as  *)
(* it likes; other threads and the tasks on the workers spawn tasks and    *)
(* request shutdown at any time.  Every allocation may fail.               *)
(*                                                                         *)
(* How workers sleep, poll and are woken is the subject of module          *)
(* Scheduler; here a worker takes tasks, runs them, and leaves when it is  *)
(* told to.                                                                *)
(***************************************************************************)
EXTENDS Naturals, FiniteSets

CONSTANTS Owner,      \* the thread with the life-cycle calls
          Threads,    \* threads outside the runtime
          Workers,    \* the worker threads of croutine_runtime_run
          Tasks,      \* tasks that may be spawned
          MainTask,   \* the one that croutine_runtime_run spawns
          NoTask

Actors == {Owner} \cup Threads \cup Workers

ASSUME RuntimeAssumption == /\ MainTask \in Tasks
                            /\ NoTask \notin Tasks
                            /\ Owner \notin Threads \cup Workers
                            /\ Threads \cap Workers = {}
                            /\ IsFiniteSet(Workers)
                            /\ Workers # {}

VARIABLES
    \* src/runtime.c
    runtime_initialized, runtime_ever_initialized, runtime_ran,
    runtime_started_workers,  \* the workers created and not joined
    \* src/worker.c
    once,                     \* runtime_init_once has run
    runtime_init_ok,
    storage,                  \* what runtime_init_impl allocated and is not freed
    shutdown_requested,
    main_spawned,
    main_finished,            \* with scheduler_main_finished
    runnable_tasks,           \* the queued tasks
    owned,                    \* task -> what is allocated for it
    pc,                       \* actor -> where it is
    spawning,                 \* actor -> the task worker_spawn is making
    running                   \* worker -> the task it runs

runtimeVars == <<runtime_initialized, runtime_ever_initialized, runtime_ran,
                 runtime_started_workers>>
initVars == <<once, runtime_init_ok, storage>>
stopVars == <<shutdown_requested, main_finished>>
taskVars == <<runnable_tasks, owned, spawning, running>>
vars == <<runtimeVars, initVars, stopVars, main_spawned, taskVars, pc>>

SpawnPc == {"worker_init", "allocate", "publish", "poke"}
OwnerPc == {"idle", "create", "wait", "join", "drain", "deinit"}
WorkerPc == {"none", "loop", "running", "finished", "requeue", "exited"}

\* Every variable has its type.
TypeOK == /\ runtime_initialized \in BOOLEAN
          /\ runtime_ever_initialized \in BOOLEAN
          /\ runtime_ran \in BOOLEAN
          /\ runtime_started_workers \subseteq Workers
          /\ once \in BOOLEAN
          /\ runtime_init_ok \in BOOLEAN
          /\ storage \subseteq {"queue", "table", "poller"}
          /\ shutdown_requested \in BOOLEAN
          /\ main_spawned \in BOOLEAN
          /\ main_finished \in BOOLEAN
          /\ runnable_tasks \subseteq Tasks
          /\ owned \in [Tasks -> SUBSET {"task", "stack", "arg"}]
          /\ pc \in [Actors -> SpawnPc \cup OwnerPc \cup WorkerPc]
          /\ spawning \in [Actors -> Tasks \cup {NoTask}]
          /\ running \in [Workers -> Tasks \cup {NoTask}]

Init == /\ runtime_initialized = FALSE
        /\ runtime_ever_initialized = FALSE
        /\ runtime_ran = FALSE
        /\ runtime_started_workers = {}
        /\ once = FALSE
        /\ runtime_init_ok = FALSE
        /\ storage = {}
        /\ shutdown_requested = FALSE
        /\ main_spawned = FALSE
        /\ main_finished = FALSE
        /\ runnable_tasks = {}
        /\ owned = [t \in Tasks |-> {}]
        /\ pc = [a \in Actors |-> IF a \in Workers THEN "none" ELSE "idle"]
        /\ spawning = [a \in Actors |-> NoTask]
        /\ running = [w \in Workers |-> NoTask]

Goto(a, label) == pc' = [pc EXCEPT ![a] = label]

\* The actor runs code of the program and may call the library.
InProgram(a) == pc[a] = IF a \in Workers THEN "running" ELSE "idle"

\* Where a call returns to; when worker_spawn has queued the main task,
\* croutine_runtime_run goes on.
Return(a, ok) == IF a \in Workers THEN "running"
                 ELSE IF ok /\ spawning[a] = MainTask THEN "create"
                 ELSE "idle"
-----------------------------------------------------------------------------
(***************************************************************************)
(* worker_init.                                                            *)
(***************************************************************************)
InitOrder == <<"queue", "table", "poller">>

\* Mutant: the queue is forgotten when the poller cannot be made.
UndoneTableOnly(n) == IF n = 2 THEN {"table"} ELSE {InitOrder[i] : i \in 1 .. n}

\* What is freed again when the n pieces before the one that failed were there.
Undone(n) == {InitOrder[i] : i \in 1 .. n}

\* runtime_init_impl: the storage it may leave, all of it when it succeeds.
runtime_init_impl ==
    {{"queue", "table", "poller"}} \cup
    {{InitOrder[i] : i \in 1 .. n} \ Undone(n) : n \in 0 .. 2}

worker_init == IF once THEN UNCHANGED initVars
               ELSE /\ once' = TRUE
                    /\ storage' \in runtime_init_impl
                    /\ runtime_init_ok' = (storage' = {"queue", "table", "poller"})
-----------------------------------------------------------------------------
(***************************************************************************)
(* worker_spawn, for croutine_spawn and croutine_spawn_copy by any actor   *)
(* and for the main task by the owner in croutine_runtime_run.             *)
(***************************************************************************)
AllocationOrder == <<"task", "stack", "arg">>

\* Mutant: the stack stays when the argument cannot be copied.
FreedOnFailureNoStack(n) == IF n = 0 THEN {} ELSE {"task"}

\* What worker_spawn frees when it has n pieces and the next one fails.
FreedOnFailure(n) == {AllocationOrder[i] : i \in 1 .. n}

SpawnReturn(a, ok) == /\ Goto(a, Return(a, ok))
                      /\ spawning' = [spawning EXCEPT ![a] = NoTask]

\* croutine_spawn and croutine_spawn_copy, with a task that does not exist yet.
croutine_spawn(a, t) ==
    /\ InProgram(a)
    /\ t # MainTask
    /\ owned[t] = {}
    /\ \A b \in Actors : spawning[b] # t
    /\ spawning' = [spawning EXCEPT ![a] = t]
    /\ Goto(a, "worker_init")
    /\ UNCHANGED <<runtimeVars, initVars, stopVars, main_spawned,
                   runnable_tasks, owned, running>>

SpawnEnter(a) ==
    /\ pc[a] = "worker_init"
    /\ worker_init
    /\ IF runtime_init_ok' THEN Goto(a, "allocate") /\ UNCHANGED spawning
       ELSE SpawnReturn(a, FALSE)
    /\ UNCHANGED <<runtimeVars, stopVars, main_spawned, runnable_tasks, owned,
                   running>>

\* The task, its stack with the guard page, and a copy of the argument if there
\* is one to copy (never for the main task).
SpawnAllocate(a) ==
    LET t == spawning[a]
        have(n) == {AllocationOrder[i] : i \in 1 .. n}
    IN  /\ pc[a] = "allocate"
        /\ \/ /\ \E n \in {2, 3} : /\ t = MainTask => n = 2
                                   /\ owned' = [owned EXCEPT ![t] = have(n)]
              /\ Goto(a, "publish")
              /\ UNCHANGED spawning
           \/ /\ \E n \in 0 .. 2 :
                    /\ t = MainTask => n < 2
                    /\ owned' = [owned EXCEPT ![t] = have(n) \ FreedOnFailure(n)]
              /\ SpawnReturn(a, FALSE)
        /\ UNCHANGED <<runtimeVars, initVars, stopVars, main_spawned,
                       runnable_tasks, running>>

\* Mutant: the task is queued after shutdown was requested.
MayQueueLate == "queue" \in storage

\* worker_spawn queues the task unless shutdown was requested; a queue that was
\* freed refuses it.
MayQueue == ~ shutdown_requested /\ "queue" \in storage

\* Under main_mutex and scheduler_mutex.  The queue may be unable to grow; a task
\* that is not queued is cleaned up, and main_spawned taken back.
SpawnPublish(a) ==
    LET t == spawning[a]
    IN  /\ pc[a] = "publish"
        /\ \/ /\ MayQueue
              /\ t = MainTask => ~ main_spawned
              /\ runnable_tasks' = runnable_tasks \cup {t}
              /\ main_spawned' = (main_spawned \/ t = MainTask)
              /\ UNCHANGED owned
              /\ \/ /\ \E w \in Workers : pc[w] = "loop"    \* poller_waiter_active
                    /\ Goto(a, "poke") /\ UNCHANGED spawning
                 \/ SpawnReturn(a, TRUE)
           \/ /\ owned' = [owned EXCEPT ![t] = {}]
              /\ SpawnReturn(a, FALSE)
              /\ UNCHANGED <<runnable_tasks, main_spawned>>
        /\ UNCHANGED <<runtimeVars, initVars, stopVars, running>>

\* croutine_poller_wake, after the mutex was released.
Poke(a) == /\ pc[a] = "poke"
           /\ SpawnReturn(a, TRUE)
           /\ UNCHANGED <<runtimeVars, initVars, stopVars, main_spawned,
                          runnable_tasks, owned, running>>
-----------------------------------------------------------------------------
(***************************************************************************)
(* The workers, and the calls that stop them.                              *)
(***************************************************************************)
worker_request_shutdown == /\ shutdown_requested' = (shutdown_requested \/ runtime_init_ok)
                           /\ main_finished' = (main_finished \/ runtime_init_ok)

\* The poller is woken after the mutexes were released.
croutine_runtime_request_shutdown(a) ==
    /\ InProgram(a)
    /\ runtime_initialized
    /\ worker_request_shutdown
    /\ Goto(a, "poke")
    /\ UNCHANGED <<runtimeVars, initVars, main_spawned, taskVars>>

WorkerTakes(w, t) ==
    /\ pc[w] = "loop"
    /\ ~ shutdown_requested /\ ~ main_finished
    /\ t \in runnable_tasks
    /\ runnable_tasks' = runnable_tasks \ {t}
    /\ running' = [running EXCEPT ![w] = t]
    /\ Goto(w, "running")
    /\ UNCHANGED <<runtimeVars, initVars, stopVars, main_spawned, owned, spawning>>

\* task_finished: the main task tells the owner and the workers, then wakes the
\* poller; the worker cleans up.
TaskFinishes(w) ==
    /\ pc[w] = "running"
    /\ main_finished' = (main_finished \/ running[w] = MainTask)
    /\ Goto(w, "finished")
    /\ UNCHANGED <<runtimeVars, initVars, shutdown_requested, main_spawned,
                   taskVars>>

WorkerCleansUp(w) ==
    /\ pc[w] = "finished"
    /\ owned' = [owned EXCEPT ![running[w]] = {}]
    /\ running' = [running EXCEPT ![w] = NoTask]
    /\ Goto(w, "loop")
    /\ UNCHANGED <<runtimeVars, initVars, stopVars, main_spawned,
                   runnable_tasks, spawning>>

\* A task yields: shutdown_requested is read in one critical section, and the
\* task requeued in another one.
TaskYields(w) ==
    /\ pc[w] = "running"
    /\ owned' = IF shutdown_requested THEN [owned EXCEPT ![running[w]] = {}]
                ELSE owned
    /\ running' = IF shutdown_requested THEN [running EXCEPT ![w] = NoTask]
                  ELSE running
    /\ Goto(w, IF shutdown_requested THEN "loop" ELSE "requeue")
    /\ UNCHANGED <<runtimeVars, initVars, stopVars, main_spawned,
                   runnable_tasks, spawning>>

WorkerRequeues(w) ==
    /\ pc[w] = "requeue"
    /\ runnable_tasks' = runnable_tasks \cup {running[w]}
    /\ running' = [running EXCEPT ![w] = NoTask]
    /\ Goto(w, "loop")
    /\ UNCHANGED <<runtimeVars, initVars, stopVars, main_spawned, owned, spawning>>

WorkerExits(w) ==
    /\ pc[w] = "loop"
    /\ shutdown_requested \/ main_finished
    /\ Goto(w, "exited")
    /\ UNCHANGED <<runtimeVars, initVars, stopVars, main_spawned, taskVars>>
-----------------------------------------------------------------------------
(***************************************************************************)
(* The calls of the owner.                                                 *)
(***************************************************************************)
\* A call out of order, or with a bad configuration, returns at once.
RefusedCall == pc[Owner] = "idle" /\ UNCHANGED vars

\* Mutant: a runtime that was shut down may be initialised again.
MayInitAgain == ~ runtime_initialized

MayInit == ~ runtime_initialized /\ ~ runtime_ever_initialized

\* worker_reset_main_state comes before worker_init.
croutine_runtime_init ==
    /\ pc[Owner] = "idle"
    /\ MayInit
    /\ shutdown_requested' = FALSE
    /\ main_finished' = FALSE
    /\ main_spawned' = FALSE
    /\ worker_init
    /\ runtime_ever_initialized' = TRUE
    /\ runtime_initialized' = runtime_init_ok'
    /\ UNCHANGED <<runtime_ran, runtime_started_workers, taskVars, pc>>

croutine_runtime_run ==
    /\ pc[Owner] = "idle"
    /\ runtime_initialized /\ ~ runtime_ran
    /\ runtime_ran' = TRUE
    /\ spawning' = [spawning EXCEPT ![Owner] = MainTask]
    /\ Goto(Owner, "worker_init")
    /\ UNCHANGED <<runtime_initialized, runtime_ever_initialized,
                   runtime_started_workers, initVars, stopVars, main_spawned,
                   runnable_tasks, owned, running>>

RunCreatesWorker(w) ==
    /\ pc[Owner] = "create"
    /\ pc[w] = "none"
    /\ runtime_started_workers' = runtime_started_workers \cup {w}
    /\ pc' = [pc EXCEPT ![w] = "loop",
                        ![Owner] = IF runtime_started_workers' = Workers
                                   THEN "wait" ELSE "create"]
    /\ UNCHANGED <<runtime_initialized, runtime_ever_initialized, runtime_ran,
                   initVars, stopVars, main_spawned, taskVars>>

\* No memory for the threads' handles, or pthread_create fails.
RunCannotCreate ==
    /\ pc[Owner] = "create"
    /\ worker_request_shutdown
    /\ Goto(Owner, "join")
    /\ UNCHANGED <<runtimeVars, initVars, main_spawned, taskVars>>

worker_wait_for_main ==
    /\ pc[Owner] = "wait"
    /\ main_finished
    /\ Goto(Owner, "join")
    /\ UNCHANGED <<runtimeVars, initVars, stopVars, main_spawned, taskVars>>

\* Mutant: croutine_runtime_run returns when the main task has finished.
JoinedNot == TRUE

Joined == \A w \in runtime_started_workers : pc[w] = "exited"

RunJoins ==
    /\ pc[Owner] = "join"
    /\ Joined
    /\ runtime_started_workers' = {}
    /\ Goto(Owner, "idle")
    /\ UNCHANGED <<runtime_initialized, runtime_ever_initialized, runtime_ran,
                   initVars, stopVars, main_spawned, taskVars>>

croutine_runtime_shutdown ==
    /\ pc[Owner] = "idle"
    /\ runtime_initialized
    /\ worker_request_shutdown
    /\ Goto(Owner, "drain")
    /\ UNCHANGED <<runtimeVars, initVars, main_spawned, taskVars>>

\* The rest of croutine_runtime_shutdown: workers are joined, then the first half
\* of worker_deinit, under scheduler_mutex, cleans up the queued tasks.  (Tasks
\* that wait for descriptors, which it cleans up too, are in Scheduler.)
DeinitDrains ==
    /\ pc[Owner] = "drain"
    /\ Joined
    /\ runtime_started_workers' = {}
    /\ owned' = [t \in Tasks |-> IF t \in runnable_tasks THEN {} ELSE owned[t]]
    /\ runnable_tasks' = {}
    /\ Goto(Owner, "deinit")
    /\ UNCHANGED <<runtime_initialized, runtime_ever_initialized, runtime_ran,
                   initVars, stopVars, main_spawned, spawning, running>>

\* The second half, without the mutex.
DeinitFrees ==
    /\ pc[Owner] = "deinit"
    /\ storage' = {}
    /\ runtime_init_ok' = FALSE
    /\ runtime_initialized' = FALSE
    /\ Goto(Owner, "idle")
    /\ UNCHANGED <<runtime_ever_initialized, runtime_ran,
                   runtime_started_workers, once, stopVars, main_spawned,
                   taskVars>>

Next == \/ RefusedCall
        \/ croutine_runtime_init
        \/ croutine_runtime_run
        \/ RunCannotCreate
        \/ worker_wait_for_main
        \/ RunJoins
        \/ croutine_runtime_shutdown
        \/ DeinitDrains
        \/ DeinitFrees
        \/ \E w \in Workers : \/ RunCreatesWorker(w)
                              \/ TaskFinishes(w)
                              \/ WorkerCleansUp(w)
                              \/ TaskYields(w)
                              \/ WorkerRequeues(w)
                              \/ WorkerExits(w)
                              \/ \E t \in Tasks : WorkerTakes(w, t)
        \/ \E a \in Actors : \/ SpawnEnter(a)
                             \/ SpawnAllocate(a)
                             \/ SpawnPublish(a)
                             \/ Poke(a)
                             \/ croutine_runtime_request_shutdown(a)
                             \/ \E t \in Tasks : croutine_spawn(a, t)

Spec == Init /\ [][Next]_vars
-----------------------------------------------------------------------------
(***************************************************************************)
(* Safety.                                                                 *)
(***************************************************************************)
\* The queue, the wait table and the poller exist together or not at all: an
\* initialisation that fails half way takes back what it made.
InitAllOrNothing == storage = IF runtime_init_ok THEN {"queue", "table", "poller"}
                              ELSE {}

\* A worker that has not left its loop, and the tasks on it, use the queue and the
\* poller; both are there until the last worker was joined.
WorkersOutlivedByStorage ==
    (\E w \in Workers : pc[w] \notin {"none", "exited"}) =>
        storage = {"queue", "table", "poller"}

\* After croutine_runtime_shutdown nothing stays allocated, whoever was spawning
\* at that time: a task is with its spawner, or its memory is back.
ShutdownFreesAll ==
    once /\ ~ runtime_init_ok =>
        /\ storage = {}
        /\ \A t \in Tasks : owned[t] # {} => \E a \in Actors : spawning[a] = t

\* Allocated memory always has somebody who will free it: the spawner, the
\* queue, or the worker that runs the task.
EveryTaskHasAnOwner ==
    \A t \in Tasks : owned[t] # {} =>
        \/ \E a \in Actors : spawning[a] = t /\ pc[a] = "publish"
        \/ t \in runnable_tasks
        \/ \E w \in Workers : running[w] = t

\* The other way round: what is queued or running is allocated, with its stack.
QueuedAndRunningAreAlive ==
    \A t \in Tasks : t \in runnable_tasks \/ (\E w \in Workers : running[w] = t) =>
        {"task", "stack"} \subseteq owned[t]

\* The memory of a task belongs to exactly those who still use or free it: none is
\* lost between spawner, queue and worker, and none freed while it is queued or
\* runs, whichever allocation of worker_spawn fails.
MemoryFollowsTasks == EveryTaskHasAnOwner /\ QueuedAndRunningAreAlive

\* include/croutine/runtime.h: "one-shot. After shutdown, init will return false."
\* Shutdown is final: nothing resets the flag on which spawners, parking tasks and
\* workers rely, although worker_reset_main_state would.
ShutdownIsFinal == [][shutdown_requested => shutdown_requested']_vars
=============================================================================
