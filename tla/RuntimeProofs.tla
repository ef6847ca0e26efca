---------------------------- MODULE RuntimeProofs ----------------------------
(***************************************************************************)
(* Initialisation, shutdown and the ownership of every task's memory, for  *)
(* any number of threads, workers and tasks.                               *)
(***************************************************************************)
EXTENDS Runtime, TLAPS

Everything == {"queue", "table", "poller"}

\* Where an actor may be.
Places ==
    /\ pc[Owner] \in SpawnPc \cup OwnerPc
    /\ \A a \in Threads : pc[a] \in SpawnPc \cup {"idle"}
    /\ \A w \in Workers : pc[w] \in SpawnPc \cup WorkerPc

\* The storage is there while the runtime is initialised, and that is while the
\* owner is in croutine_runtime_run or has workers that were not joined.
LifeCycle ==
    /\ InitAllOrNothing
    /\ ~ once => ~ runtime_init_ok
    /\ runtime_initialized => runtime_init_ok /\ runtime_ever_initialized
    /\ pc[Owner] \in {"create", "wait", "join", "drain", "deinit"} => runtime_initialized
    /\ spawning[Owner] = MainTask => runtime_initialized
    /\ runtime_started_workers # {} => pc[Owner] \in {"create", "wait", "join"}
    /\ \A w \in Workers : pc[w] \notin {"none", "exited"} => w \in runtime_started_workers

\* Shutdown has been requested when worker_deinit begins, and nothing is queued
\* or running from then on.
Stopping ==
    /\ shutdown_requested => runtime_ever_initialized
    /\ pc[Owner] \in {"drain", "deinit"} => shutdown_requested
    /\ pc[Owner] = "deinit" => runnable_tasks = {}
    /\ ~ runtime_init_ok => runnable_tasks = {}

\* A task is made by one actor, and the main task by the owner, once.
Spawners ==
    /\ \A a, b \in Actors : spawning[a] # NoTask /\ spawning[a] = spawning[b] => a = b
    /\ \A a \in Actors :
          /\ pc[a] \in {"worker_init", "allocate", "publish"} => spawning[a] # NoTask
          /\ pc[a] \notin SpawnPc => spawning[a] = NoTask
          /\ spawning[a] = MainTask => a = Owner
    /\ ~ runtime_ran => /\ owned[MainTask] = {}
                        /\ spawning[Owner] # MainTask

\* A task that is being made is nowhere else.
Making ==
    \A a \in Actors :
       /\ pc[a] \in {"worker_init", "allocate"} => owned[spawning[a]] = {}
       /\ pc[a] = "publish" => /\ {"task", "stack"} \subseteq owned[spawning[a]]
                               /\ spawning[a] \notin runnable_tasks
                               /\ \A w \in Workers : running[w] # spawning[a]

\* A task that runs is on one worker and not queued.
Running ==
    /\ \A v, w \in Workers : running[v] # NoTask /\ running[v] = running[w] => v = w
    /\ \A w \in Workers : /\ running[w] \notin runnable_tasks
                          /\ running[w] = NoTask <=> pc[w] \in {"none", "loop", "exited"}

\* A task is with its spawner, in the queue or on one worker, and only there is
\* its memory allocated.
Ownership == Making /\ Running /\ EveryTaskHasAnOwner /\ QueuedAndRunningAreAlive

RuntimeInv == TypeOK /\ Places /\ LifeCycle /\ Stopping /\ Spawners /\ Ownership

USE DEF Actors, SpawnPc, OwnerPc, WorkerPc, runtimeVars, initVars, stopVars, taskVars

\* runtime_init_impl leaves everything or nothing.
LEMMA InitIsAllOrNothing == \A S \in runtime_init_impl : S = Everything \/ S = {}
  BY DEF runtime_init_impl, Undone, Everything

\* worker_init runs its body once.
LEMMA WorkerInitFacts ==
    ASSUME TypeOK, LifeCycle, worker_init
    PROVE  /\ once' = TRUE
           /\ runtime_init_ok' \in BOOLEAN
           /\ runtime_init_ok => UNCHANGED initVars
           /\ storage' = IF runtime_init_ok' THEN Everything ELSE {}
  <1>1. CASE once
    BY <1>1 DEF worker_init, TypeOK, LifeCycle, InitAllOrNothing, Everything
  <1>2. CASE ~ once
    BY <1>2, InitIsAllOrNothing, Zenon DEF worker_init, LifeCycle, Everything
  <1> QED
    BY <1>1, <1>2, Zenon

\* worker_spawn has the task with its stack, or nothing.
LEMMA SpawnAllocateFacts ==
    ASSUME NEW a \in Actors, SpawnAllocate(a)
    PROVE  \E S \in SUBSET {"task", "stack", "arg"} :
              /\ owned' = [owned EXCEPT ![spawning[a]] = S]
              /\ \/ {"task", "stack"} \subseteq S /\ Goto(a, "publish") /\ UNCHANGED spawning
                 \/ S = {} /\ SpawnReturn(a, FALSE)
  <1> DEFINE have(n) == {AllocationOrder[i] : i \in 1 .. n}
  <1>1. have(2) = {"task", "stack"} /\ have(3) = {"task", "stack", "arg"}
    <2>1. 1 .. 2 = {1, 2} /\ 1 .. 3 = {1, 2, 3}
      OBVIOUS
    <2> QED
      BY <2>1 DEF AllocationOrder
  <1>2. \A n \in 0 .. 2 : have(n) \ FreedOnFailure(n) = {}
    BY DEF FreedOnFailure
  <1> HIDE DEF have
  <1>3. \/ /\ \E n \in {2, 3} : owned' = [owned EXCEPT ![spawning[a]] = have(n)]
           /\ Goto(a, "publish") /\ UNCHANGED spawning
        \/ /\ \E n \in 0 .. 2 :
                 owned' = [owned EXCEPT ![spawning[a]] = have(n) \ FreedOnFailure(n)]
           /\ SpawnReturn(a, FALSE)
    BY Zenon DEF SpawnAllocate, have
  <1> QED
    BY <1>1, <1>2, <1>3, Zenon

\* The owner's calls.
LEMMA OwnerKeepsInv ==
    ASSUME RuntimeInv,
           \/ croutine_runtime_init
           \/ croutine_runtime_run
           \/ RunCannotCreate
           \/ worker_wait_for_main
           \/ RunJoins
           \/ croutine_runtime_shutdown
           \/ DeinitDrains
           \/ DeinitFrees
           \/ \E w \in Workers : RunCreatesWorker(w)
    PROVE  RuntimeInv'
  <1> USE RuntimeAssumption
  <1>0. TypeOK /\ Places /\ LifeCycle /\ Stopping /\ Spawners /\ Ownership
    BY DEF RuntimeInv
  <1>1. CASE croutine_runtime_init
    <2>0. /\ once' = TRUE
          /\ runtime_init_ok' \in BOOLEAN
          /\ runtime_init_ok => UNCHANGED initVars
          /\ storage' = IF runtime_init_ok' THEN Everything ELSE {}
      BY <1>0, <1>1, WorkerInitFacts, Zenon DEF croutine_runtime_init
    <2>1. TypeOK'
      BY <1>0, <1>1, <2>0, Zenon DEF TypeOK, croutine_runtime_init, Everything
    <2>2. Places'
      BY <1>0, <1>1, <2>0 DEF TypeOK, Places, Spawners, croutine_runtime_init
    <2>3. LifeCycle'
      BY <1>0, <1>1, <2>0 DEF TypeOK, Places, LifeCycle, InitAllOrNothing, Spawners,
          croutine_runtime_init, Everything
    <2>4. Stopping'
      BY <1>0, <1>1, <2>0, Zenon DEF TypeOK, Places, LifeCycle, InitAllOrNothing, Stopping,
          croutine_runtime_init, Everything
    <2>5. Spawners'
      BY <1>0, <1>1, <2>0 DEF TypeOK, Places, LifeCycle, Spawners, croutine_runtime_init
    <2>6. Ownership'
      BY <1>0, <1>1, <2>0
      DEF TypeOK, Places, Spawners, Ownership, Making, Running, EveryTaskHasAnOwner,
          QueuedAndRunningAreAlive, croutine_runtime_init
    <2> QED
      BY <2>1, <2>2, <2>3, <2>4, <2>5, <2>6 DEF RuntimeInv
  <1>2. CASE croutine_runtime_run
    <2>1. TypeOK'
      BY <1>0, <1>2 DEF TypeOK, croutine_runtime_run, Goto
    <2>2. Places'
      BY <1>0, <1>2 DEF TypeOK, Places, Spawners, croutine_runtime_run, Goto
    <2>3. LifeCycle'
      BY <1>0, <1>2
      DEF TypeOK, Places, LifeCycle, InitAllOrNothing, Spawners,
          croutine_runtime_run,
          Goto
    <2>4. Stopping'
      BY <1>0, <1>2
      DEF TypeOK, Places, LifeCycle, InitAllOrNothing, Stopping,
          croutine_runtime_run,
          Goto
    <2>5. Spawners'
      BY <1>0, <1>2 DEF TypeOK, Places, LifeCycle, Spawners, croutine_runtime_run, Goto
    <2>6. Ownership'
      BY <1>0, <1>2
      DEF TypeOK, Places, Spawners, Ownership, Making, Running, EveryTaskHasAnOwner,
          QueuedAndRunningAreAlive, croutine_runtime_run, Goto
    <2> QED
      BY <2>1, <2>2, <2>3, <2>4, <2>5, <2>6 DEF RuntimeInv
  <1>3. CASE RunCannotCreate
    <2>1. TypeOK'
      BY <1>0, <1>3 DEF TypeOK, RunCannotCreate,
          worker_request_shutdown, Goto
    <2>2. Places'
      BY <1>0, <1>3
      DEF TypeOK, Places, Spawners, RunCannotCreate, worker_request_shutdown, Goto
    <2>3. LifeCycle'
      BY <1>0, <1>3
      DEF TypeOK, Places, LifeCycle, InitAllOrNothing, Spawners, RunCannotCreate,
          worker_request_shutdown, Goto
    <2>4. Stopping'
      BY <1>0, <1>3
      DEF TypeOK, Places, LifeCycle, InitAllOrNothing, Stopping, RunCannotCreate,
          worker_request_shutdown, Goto
    <2>5. Spawners'
      BY <1>0, <1>3 DEF TypeOK, Places, LifeCycle, Spawners, RunCannotCreate,
          worker_request_shutdown, Goto
    <2>6. Ownership'
      BY <1>0, <1>3
      DEF TypeOK, Places, Spawners, Ownership, Making, Running, EveryTaskHasAnOwner,
          QueuedAndRunningAreAlive, RunCannotCreate, worker_request_shutdown, Goto
    <2> QED
      BY <2>1, <2>2, <2>3, <2>4, <2>5, <2>6 DEF RuntimeInv
  <1>4. CASE worker_wait_for_main
    <2>1. TypeOK'
      BY <1>0, <1>4 DEF TypeOK, worker_wait_for_main, Goto
    <2>2. Places'
      BY <1>0, <1>4 DEF TypeOK, Places, Spawners, worker_wait_for_main, Goto
    <2>3. LifeCycle'
      BY <1>0, <1>4
      DEF TypeOK, Places, LifeCycle, InitAllOrNothing, Spawners,
          worker_wait_for_main,
          Goto
    <2>4. Stopping'
      BY <1>0, <1>4
      DEF TypeOK, Places, LifeCycle, InitAllOrNothing, Stopping,
          worker_wait_for_main,
          Goto
    <2>5. Spawners'
      BY <1>0, <1>4 DEF TypeOK, Places, LifeCycle, Spawners, worker_wait_for_main, Goto
    <2>6. Ownership'
      BY <1>0, <1>4
      DEF TypeOK, Places, Spawners, Ownership, Making, Running, EveryTaskHasAnOwner,
          QueuedAndRunningAreAlive, worker_wait_for_main, Goto
    <2> QED
      BY <2>1, <2>2, <2>3, <2>4, <2>5, <2>6 DEF RuntimeInv
  <1>5. CASE RunJoins
    <2>1. TypeOK'
      BY <1>0, <1>5 DEF TypeOK, RunJoins, Joined, Goto
    <2>2. Places'
      BY <1>0, <1>5 DEF TypeOK, Places, Spawners, RunJoins, Joined, Goto
    <2>3. LifeCycle'
      BY <1>0, <1>5
      DEF TypeOK, Places, LifeCycle, InitAllOrNothing, Spawners, RunJoins, Joined,
          Goto
    <2>4. Stopping'
      BY <1>0, <1>5
      DEF TypeOK, Places, LifeCycle, InitAllOrNothing, Stopping, RunJoins, Joined,
          Goto
    <2>5. Spawners'
      BY <1>0, <1>5 DEF TypeOK, Places, LifeCycle, Spawners, RunJoins, Joined, Goto
    <2>6. Ownership'
      BY <1>0, <1>5
      DEF TypeOK, Places, Spawners, Ownership, Making, Running, EveryTaskHasAnOwner,
          QueuedAndRunningAreAlive, RunJoins, Joined, Goto
    <2> QED
      BY <2>1, <2>2, <2>3, <2>4, <2>5, <2>6 DEF RuntimeInv
  <1>6. CASE croutine_runtime_shutdown
    <2>1. TypeOK'
      BY <1>0, <1>6 DEF TypeOK, croutine_runtime_shutdown,
          worker_request_shutdown, Goto
    <2>2. Places'
      BY <1>0, <1>6 DEF TypeOK, Places, Spawners, croutine_runtime_shutdown,
          worker_request_shutdown, Goto
    <2>3. LifeCycle'
      BY <1>0, <1>6 DEF TypeOK, Places, LifeCycle, InitAllOrNothing, Spawners,
          croutine_runtime_shutdown, worker_request_shutdown, Goto
    <2>4. Stopping'
      BY <1>0, <1>6 DEF TypeOK, Places, LifeCycle, InitAllOrNothing, Stopping,
          croutine_runtime_shutdown, worker_request_shutdown, Goto
    <2>5. Spawners'
      BY <1>0, <1>6 DEF TypeOK, Places, LifeCycle, Spawners, croutine_runtime_shutdown,
          worker_request_shutdown, Goto
    <2>6. Ownership'
      BY <1>0, <1>6
      DEF TypeOK, Places, Spawners, Ownership, Making, Running, EveryTaskHasAnOwner,
          QueuedAndRunningAreAlive, croutine_runtime_shutdown,
          worker_request_shutdown, Goto
    <2> QED
      BY <2>1, <2>2, <2>3, <2>4, <2>5, <2>6 DEF RuntimeInv
  <1>7. CASE DeinitDrains
    <2>1. TypeOK'
      BY <1>0, <1>7 DEF TypeOK, DeinitDrains, Joined, Goto
    <2>2. Places'
      BY <1>0, <1>7 DEF TypeOK, Places, Spawners, DeinitDrains, Joined, Goto
    <2>3. LifeCycle'
      BY <1>0, <1>7
      DEF TypeOK, Places, LifeCycle, InitAllOrNothing, Spawners, DeinitDrains,
          Joined,
          Goto
    <2>4. Stopping'
      BY <1>0, <1>7
      DEF TypeOK, Places, LifeCycle, InitAllOrNothing, Stopping, DeinitDrains,
          Joined,
          Goto
    <2>5. Spawners'
      BY <1>0, <1>7 DEF TypeOK, Places, LifeCycle, Spawners, DeinitDrains, Joined, Goto
    <2>6. Ownership'
      BY <1>0, <1>7
      DEF TypeOK, Places, Spawners, Ownership, Making, Running, EveryTaskHasAnOwner,
          QueuedAndRunningAreAlive, DeinitDrains, Joined, Goto
    <2> QED
      BY <2>1, <2>2, <2>3, <2>4, <2>5, <2>6 DEF RuntimeInv
  <1>8. CASE DeinitFrees
    <2>1. TypeOK'
      BY <1>0, <1>8, Zenon DEF TypeOK, DeinitFrees, Goto
    <2>2. Places'
      BY <1>0, <1>8 DEF TypeOK, Places, Spawners, DeinitFrees, Goto
    <2>3. LifeCycle'
      BY <1>0, <1>8
      DEF TypeOK, Places, LifeCycle, InitAllOrNothing, Spawners, DeinitFrees, Goto
    <2>4. Stopping'
      BY <1>0, <1>8
      DEF TypeOK, Places, LifeCycle, InitAllOrNothing, Stopping, DeinitFrees, Goto
    <2>5. Spawners'
      BY <1>0, <1>8 DEF TypeOK, Places, LifeCycle, Spawners, DeinitFrees, Goto
    <2>6. Ownership'
      BY <1>0, <1>8
      DEF TypeOK, Places, Spawners, Ownership, Making, Running, EveryTaskHasAnOwner,
          QueuedAndRunningAreAlive, DeinitFrees, Goto
    <2> QED
      BY <2>1, <2>2, <2>3, <2>4, <2>5, <2>6 DEF RuntimeInv
  <1>9. ASSUME NEW w \in Workers, RunCreatesWorker(w) PROVE RuntimeInv'
    <2>1. TypeOK'
      BY <1>0, <1>9 DEF TypeOK, RunCreatesWorker
    <2>2. Places'
      BY <1>0, <1>9 DEF TypeOK, Places, Spawners, RunCreatesWorker
    <2>3. LifeCycle'
      BY <1>0, <1>9
      DEF TypeOK, Places, LifeCycle, InitAllOrNothing, Spawners, RunCreatesWorker
    <2>4. Stopping'
      BY <1>0, <1>9
      DEF TypeOK, Places, LifeCycle, InitAllOrNothing, Stopping, RunCreatesWorker
    <2>5. Spawners'
      BY <1>0, <1>9 DEF TypeOK, Places, LifeCycle, Spawners, RunCreatesWorker
    <2>6. Ownership'
      BY <1>0, <1>9
      DEF TypeOK, Places, Spawners, Ownership, Making, Running, EveryTaskHasAnOwner,
          QueuedAndRunningAreAlive, RunCreatesWorker
    <2> QED
      BY <2>1, <2>2, <2>3, <2>4, <2>5, <2>6 DEF RuntimeInv
  <1> QED
    BY <1>1, <1>2, <1>3, <1>4, <1>5, <1>6, <1>7, <1>8, <1>9

\* What the workers do.
LEMMA WorkersKeepInv ==
    ASSUME RuntimeInv,
           \/ \E w \in Workers : TaskFinishes(w)
           \/ \E w \in Workers : WorkerCleansUp(w)
           \/ \E w \in Workers : TaskYields(w)
           \/ \E w \in Workers : WorkerRequeues(w)
           \/ \E w \in Workers : WorkerExits(w)
           \/ \E w \in Workers, t \in Tasks : WorkerTakes(w, t)
    PROVE  RuntimeInv'
  <1> USE RuntimeAssumption
  <1>0. TypeOK /\ Places /\ LifeCycle /\ Stopping /\ Spawners /\ Ownership
    BY DEF RuntimeInv
  <1>1. ASSUME NEW w \in Workers, TaskFinishes(w) PROVE RuntimeInv'
    <2>1. TypeOK'
      BY <1>0, <1>1 DEF TypeOK, Ownership, Running, TaskFinishes, Goto
    <2>2. Places'
      BY <1>0, <1>1 DEF TypeOK, Places, Spawners, TaskFinishes, Goto
    <2>3. LifeCycle'
      BY <1>0, <1>1
      DEF TypeOK, Places, LifeCycle, InitAllOrNothing, Spawners, TaskFinishes, Goto
    <2>4. Stopping'
      BY <1>0, <1>1
      DEF TypeOK, Places, LifeCycle, InitAllOrNothing, Stopping, TaskFinishes, Goto
    <2>5. Spawners'
      BY <1>0, <1>1 DEF TypeOK, Places, LifeCycle, Spawners, TaskFinishes, Goto
    <2>6. Ownership'
      BY <1>0, <1>1
      DEF TypeOK, Places, Spawners, Ownership, Making, Running, EveryTaskHasAnOwner,
          QueuedAndRunningAreAlive, TaskFinishes, Goto
    <2> QED
      BY <2>1, <2>2, <2>3, <2>4, <2>5, <2>6 DEF RuntimeInv
  <1>2. ASSUME NEW w \in Workers, WorkerCleansUp(w) PROVE RuntimeInv'
    <2>1. TypeOK'
      BY <1>0, <1>2 DEF TypeOK, Ownership, Running, WorkerCleansUp, Goto
    <2>2. Places'
      BY <1>0, <1>2 DEF TypeOK, Places, Spawners, WorkerCleansUp, Goto
    <2>3. LifeCycle'
      BY <1>0, <1>2
      DEF TypeOK, Places, LifeCycle, InitAllOrNothing, Spawners, WorkerCleansUp, Goto
    <2>4. Stopping'
      BY <1>0, <1>2
      DEF TypeOK, Places, LifeCycle, InitAllOrNothing, Stopping, WorkerCleansUp, Goto
    <2>5. Spawners'
      BY <1>0, <1>2 DEF TypeOK, Places, LifeCycle, Spawners, WorkerCleansUp, Goto
    <2>6. Ownership'
      BY <1>0, <1>2
      DEF TypeOK, Places, Spawners, Ownership, Making, Running, EveryTaskHasAnOwner,
          QueuedAndRunningAreAlive, WorkerCleansUp, Goto
    <2> QED
      BY <2>1, <2>2, <2>3, <2>4, <2>5, <2>6 DEF RuntimeInv
  <1>3. ASSUME NEW w \in Workers, TaskYields(w) PROVE RuntimeInv'
    <2>1. TypeOK'
      BY <1>0, <1>3 DEF TypeOK, Ownership, Running, TaskYields, Goto
    <2>2. Places'
      BY <1>0, <1>3 DEF TypeOK, Places, Spawners, TaskYields, Goto
    <2>3. LifeCycle'
      BY <1>0, <1>3
      DEF TypeOK, Places, LifeCycle, InitAllOrNothing, Spawners, TaskYields, Goto
    <2>4. Stopping'
      BY <1>0, <1>3
      DEF TypeOK, Places, LifeCycle, InitAllOrNothing, Stopping, TaskYields, Goto
    <2>5. Spawners'
      BY <1>0, <1>3 DEF TypeOK, Places, LifeCycle, Spawners, TaskYields, Goto
    <2>6. Ownership'
      BY <1>0, <1>3
      DEF TypeOK, Places, Spawners, Ownership, Making, Running, EveryTaskHasAnOwner,
          QueuedAndRunningAreAlive, TaskYields, Goto
    <2> QED
      BY <2>1, <2>2, <2>3, <2>4, <2>5, <2>6 DEF RuntimeInv
  <1>4. ASSUME NEW w \in Workers, WorkerRequeues(w) PROVE RuntimeInv'
    <2>1. TypeOK'
      BY <1>0, <1>4 DEF TypeOK, Ownership, Running, WorkerRequeues, Goto
    <2>2. Places'
      BY <1>0, <1>4 DEF TypeOK, Places, Spawners, WorkerRequeues, Goto
    <2>3. LifeCycle'
      BY <1>0, <1>4
      DEF TypeOK, Places, LifeCycle, InitAllOrNothing, Spawners, WorkerRequeues, Goto
    <2>4. Stopping'
      BY <1>0, <1>4
      DEF TypeOK, Places, LifeCycle, InitAllOrNothing, Stopping, WorkerRequeues, Goto
    <2>5. Spawners'
      BY <1>0, <1>4 DEF TypeOK, Places, LifeCycle, Spawners, WorkerRequeues, Goto
    <2>6. Ownership'
      BY <1>0, <1>4
      DEF TypeOK, Places, Spawners, Ownership, Making, Running, EveryTaskHasAnOwner,
          QueuedAndRunningAreAlive, WorkerRequeues, Goto
    <2> QED
      BY <2>1, <2>2, <2>3, <2>4, <2>5, <2>6 DEF RuntimeInv
  <1>5. ASSUME NEW w \in Workers, WorkerExits(w) PROVE RuntimeInv'
    <2>1. TypeOK'
      BY <1>0, <1>5 DEF TypeOK, Ownership, Running, WorkerExits, Goto
    <2>2. Places'
      BY <1>0, <1>5 DEF TypeOK, Places, Spawners, WorkerExits, Goto
    <2>3. LifeCycle'
      BY <1>0, <1>5
      DEF TypeOK, Places, LifeCycle, InitAllOrNothing, Spawners, WorkerExits, Goto
    <2>4. Stopping'
      BY <1>0, <1>5
      DEF TypeOK, Places, LifeCycle, InitAllOrNothing, Stopping, WorkerExits, Goto
    <2>5. Spawners'
      BY <1>0, <1>5 DEF TypeOK, Places, LifeCycle, Spawners, WorkerExits, Goto
    <2>6. Ownership'
      BY <1>0, <1>5
      DEF TypeOK, Places, Spawners, Ownership, Making, Running, EveryTaskHasAnOwner,
          QueuedAndRunningAreAlive, WorkerExits, Goto
    <2> QED
      BY <2>1, <2>2, <2>3, <2>4, <2>5, <2>6 DEF RuntimeInv
  <1>6. ASSUME NEW w \in Workers, NEW t \in Tasks, WorkerTakes(w, t) PROVE RuntimeInv'
    <2>1. TypeOK'
      BY <1>0, <1>6 DEF TypeOK, Ownership, Running, WorkerTakes, Goto
    <2>2. Places'
      BY <1>0, <1>6 DEF TypeOK, Places, Spawners, WorkerTakes, Goto
    <2>3. LifeCycle'
      BY <1>0, <1>6
      DEF TypeOK, Places, LifeCycle, InitAllOrNothing, Spawners, WorkerTakes, Goto
    <2>4. Stopping'
      BY <1>0, <1>6
      DEF TypeOK, Places, LifeCycle, InitAllOrNothing, Stopping, WorkerTakes, Goto
    <2>5. Spawners'
      BY <1>0, <1>6 DEF TypeOK, Places, LifeCycle, Spawners, WorkerTakes, Goto
    <2>6. Ownership'
      BY <1>0, <1>6
      DEF TypeOK, Places, Spawners, Ownership, Making, Running, EveryTaskHasAnOwner,
          QueuedAndRunningAreAlive, WorkerTakes, Goto
    <2> QED
      BY <2>1, <2>2, <2>3, <2>4, <2>5, <2>6 DEF RuntimeInv
  <1> QED
    BY <1>1, <1>2, <1>3, <1>4, <1>5, <1>6

\* The places a call on actor a may go to next, with the task t it then makes.
MayGo(a, l, t) ==
    /\ pc[a] \in SpawnPc \/ InProgram(a)
    /\ \/ t = spawning[a]
       \/ t = NoTask
       \/ t \in Tasks \ {MainTask} /\ \A b \in Actors : spawning[b] # t
    /\ \/ l \in {"worker_init", "allocate", "publish"} /\ t # NoTask
       \/ l = "poke"
       \/ l = "running" /\ a \in Workers /\ t = NoTask
       \/ l = "idle" /\ a \notin Workers /\ t = NoTask
       \/ l = "create" /\ a = Owner /\ spawning[a] = MainTask /\ t = NoTask

\* Actor a goes to l and makes t; the others stay.
Goes(a, l, t) ==
    /\ pc'[a] = l /\ spawning'[a] = t
    /\ \A b \in Actors : b # a => pc'[b] = pc[b] /\ spawning'[b] = spawning[b]
    /\ pc' \in [Actors -> SpawnPc \cup OwnerPc \cup WorkerPc]
    /\ spawning' \in [Actors -> Tasks \cup {NoTask}]

LEMMA MoveGoes ==
    ASSUME TypeOK, NEW a \in Actors, NEW l, NEW t, MayGo(a, l, t),
           pc' = [pc EXCEPT ![a] = l], spawning' = [spawning EXCEPT ![a] = t]
    PROVE  Goes(a, l, t)
  <1>1. /\ l \in SpawnPc \cup OwnerPc \cup WorkerPc
        /\ t \in Tasks \cup {NoTask}
    BY DEF MayGo, TypeOK
  <1> QED
    BY <1>1 DEF Goes, TypeOK

\* A call that returns.
LEMMA ReturnGoes ==
    ASSUME RuntimeInv, NEW a \in Actors, NEW ok \in BOOLEAN, pc[a] \in SpawnPc,
           SpawnReturn(a, ok)
    PROVE  \E l \in {"running", "idle", "create"} :
              /\ MayGo(a, l, NoTask)
              /\ Goes(a, l, NoTask)
  <1>1. CASE a \in Workers
    <2>1. Return(a, ok) = "running" /\ MayGo(a, "running", NoTask)
      BY <1>1 DEF Return, MayGo
    <2> QED
      BY <2>1, MoveGoes, Zenon DEF RuntimeInv, SpawnReturn, Goto
  <1>2. CASE a \notin Workers /\ ok /\ spawning[a] = MainTask
    <2>1. Return(a, ok) = "create" /\ MayGo(a, "create", NoTask)
      BY <1>2 DEF Return, MayGo, RuntimeInv, Spawners
    <2> QED
      BY <2>1, MoveGoes, Zenon DEF RuntimeInv, SpawnReturn, Goto
  <1>3. CASE a \notin Workers /\ ~ (ok /\ spawning[a] = MainTask)
    <2>1. Return(a, ok) = "idle" /\ MayGo(a, "idle", NoTask)
      BY <1>3 DEF Return, MayGo
    <2> QED
      BY <2>1, MoveGoes, Zenon DEF RuntimeInv, SpawnReturn, Goto
  <1> QED
    BY <1>1, <1>2, <1>3

\* What such a step leaves alone, with or without worker_init.
LEMMA CallKeepsPlaces ==
    ASSUME RuntimeInv, NEW a \in Actors, NEW l, NEW t, MayGo(a, l, t), Goes(a, l, t),
           UNCHANGED runtimeVars
    PROVE  /\ Places'
           /\ pc'[Owner] \in {"wait", "join", "drain", "deinit"} => pc'[Owner] = pc[Owner]
           /\ pc'[Owner] = "create" => pc[Owner] = "create" \/ spawning[Owner] = MainTask
           /\ spawning'[Owner] = MainTask => spawning[Owner] = MainTask
           /\ runtime_started_workers # {} => pc'[Owner] \in {"create", "wait", "join"}
           /\ \A w \in Workers : pc'[w] \notin {"none", "exited"} => w \in runtime_started_workers
           /\ \A w \in Workers : pc'[w] \in {"none", "loop", "exited"}
                                 <=> pc[w] \in {"none", "loop", "exited"}
  <1> USE RuntimeAssumption DEF RuntimeInv, InProgram
  <1>1. Places'
    BY DEF Places, MayGo, Goes
  <1>2. /\ pc'[Owner] \in {"wait", "join", "drain", "deinit"} => pc'[Owner] = pc[Owner]
        /\ pc'[Owner] = "create" => pc[Owner] = "create" \/ spawning[Owner] = MainTask
        /\ spawning'[Owner] = MainTask => spawning[Owner] = MainTask
    BY DEF MayGo, Goes
  <1>3. runtime_started_workers # {} => pc'[Owner] \in {"create", "wait", "join"}
    BY DEF MayGo, Goes, LifeCycle
  <1>4. \A w \in Workers : pc'[w] \notin {"none", "exited"} => w \in runtime_started_workers
    BY DEF MayGo, Goes, LifeCycle
  <1>5. \A w \in Workers : pc'[w] \in {"none", "loop", "exited"}
                           <=> pc[w] \in {"none", "loop", "exited"}
    BY DEF MayGo, Goes
  <1> QED
    BY <1>1, <1>2, <1>3, <1>4, <1>5

LEMMA CallKeepsSpawners ==
    ASSUME RuntimeInv, NEW a \in Actors, NEW l, NEW t, MayGo(a, l, t), Goes(a, l, t),
           UNCHANGED runtimeVars,
           \A u \in Tasks : owned'[u] = {} \/ owned'[u] = owned[u] \/ u = spawning[a]
    PROVE  Spawners'
  <1> USE RuntimeAssumption DEF RuntimeInv
  <1>1. \A b, c \in Actors :
           spawning'[b] # NoTask /\ spawning'[b] = spawning'[c] => b = c
    BY DEF MayGo, Goes, Spawners
  <1>2. \A b \in Actors :
          /\ pc'[b] \in {"worker_init", "allocate", "publish"} => spawning'[b] # NoTask
          /\ pc'[b] \notin SpawnPc => spawning'[b] = NoTask
    BY DEF MayGo, Goes, Spawners
  <1>3. \A b \in Actors : spawning'[b] = MainTask => b = Owner /\ spawning[Owner] = MainTask
    BY DEF MayGo, Goes, Spawners
  <1>4. ~ runtime_ran => owned'[MainTask] = {}
    BY Zenon DEF Spawners
  <1> QED
    BY <1>1, <1>2, <1>3, <1>4 DEF Spawners

\* The life cycle goes on if worker_init was not called.
LEMMA CallKeepsLifeCycle ==
    ASSUME RuntimeInv, NEW a \in Actors, NEW l, NEW t, MayGo(a, l, t), Goes(a, l, t),
           UNCHANGED <<runtimeVars, initVars>>
    PROVE  LifeCycle'
  BY CallKeepsPlaces DEF RuntimeInv, LifeCycle, InitAllOrNothing

\* The memory of the tasks stays with its owners when the step neither begins nor
\* ends the making of a task.
LEMMA CallKeepsOwnership ==
    ASSUME RuntimeInv, NEW a \in Actors, NEW l, NEW t, MayGo(a, l, t), Goes(a, l, t),
           UNCHANGED <<runtimeVars, owned, runnable_tasks, running>>,
           pc[a] # "publish", l # "publish",
           l \in {"worker_init", "allocate"} => owned[t] = {}
    PROVE  Ownership'
  <1> USE DEF RuntimeInv
  <1>1. \A b \in Actors :
          /\ pc'[b] \in {"worker_init", "allocate"} => owned[spawning'[b]] = {}
          /\ pc'[b] = "publish" => pc[b] = "publish" /\ spawning'[b] = spawning[b]
    BY DEF Goes, Ownership, Making
  <1>2. \A w \in Workers : running[w] = NoTask <=> pc'[w] \in {"none", "loop", "exited"}
    BY CallKeepsPlaces DEF Ownership, Running
  <1>3. EveryTaskHasAnOwner'
    BY DEF Goes, Ownership, EveryTaskHasAnOwner
  <1>4. QueuedAndRunningAreAlive'
    BY DEF Ownership, QueuedAndRunningAreAlive
  <1>5. Making'
    BY <1>1 DEF Ownership, Making
  <1>6. Running'
    BY <1>2 DEF Ownership, Running
  <1> QED
    BY <1>3, <1>4, <1>5, <1>6 DEF Ownership

\* worker_spawn and croutine_runtime_request_shutdown, by anyone.
LEMMA SpawnersKeepInv ==
    ASSUME RuntimeInv, NEW a \in Actors,
           \/ SpawnEnter(a)
           \/ SpawnAllocate(a)
           \/ SpawnPublish(a)
           \/ Poke(a)
           \/ croutine_runtime_request_shutdown(a)
           \/ \E t \in Tasks : croutine_spawn(a, t)
    PROVE  RuntimeInv'
  <1> USE RuntimeAssumption
  <1> HIDE DEF Actors
  <1>0. TypeOK /\ Places /\ LifeCycle /\ Stopping /\ Spawners /\ Ownership
    BY DEF RuntimeInv
  <1>1. CASE SpawnEnter(a)
    <2>0. /\ once' = TRUE
          /\ runtime_init_ok' \in BOOLEAN
          /\ runtime_init_ok => UNCHANGED initVars
          /\ storage' = IF runtime_init_ok' THEN Everything ELSE {}
      BY <1>0, <1>1, WorkerInitFacts, Zenon DEF SpawnEnter
    <2>a. /\ pc[a] = "worker_init"
          /\ UNCHANGED <<runtimeVars, stopVars, main_spawned, runnable_tasks, owned, running>>
      BY <1>1 DEF SpawnEnter
    <2>b. PICK l, t : /\ MayGo(a, l, t) /\ Goes(a, l, t) /\ l # "publish"
                      /\ l \in {"worker_init", "allocate"} => t = spawning[a]
      <3>1. CASE runtime_init_ok'
        <4>1. pc' = [pc EXCEPT ![a] = "allocate"] /\ spawning' = spawning
          BY <1>1, <3>1 DEF SpawnEnter, Goto
        <4>2. spawning' = [spawning EXCEPT ![a] = spawning[a]]
          BY <1>0, <4>1 DEF TypeOK
        <4>3. MayGo(a, "allocate", spawning[a])
          BY <1>0, <2>a DEF MayGo, Spawners
        <4> QED
          BY <1>0, <4>1, <4>2, <4>3, MoveGoes, Zenon
      <3>2. CASE ~ runtime_init_ok'
        <4>1. SpawnReturn(a, FALSE)
          BY <1>1, <3>2, Zenon DEF SpawnEnter
        <4> QED
          BY <2>a, <4>1, ReturnGoes, Zenon
      <3> QED
        BY <3>1, <3>2
    <2>1. TypeOK'
      BY <1>0, <2>0, <2>a, <2>b DEF TypeOK, Goes, Everything
    <2>2. Places' /\ Spawners'
      BY <2>a, <2>b, CallKeepsPlaces, CallKeepsSpawners, Zenon
    <2>3. LifeCycle'
      <3>1. InitAllOrNothing'
        BY <2>0 DEF InitAllOrNothing, Everything
      <3>2. runtime_init_ok => runtime_init_ok'
        BY <2>0
      <3> QED
        BY <1>0, <2>0, <2>a, <2>b, <3>1, <3>2, CallKeepsPlaces, Zenon DEF LifeCycle
    <2>4. Stopping'
      <3>1. runtime_init_ok => runtime_init_ok'
        BY <2>0
      <3> QED
        BY <1>0, <2>a, <2>b, <3>1, CallKeepsPlaces, Zenon DEF Stopping
    <2>5. Ownership'
      <3>1. l \in {"worker_init", "allocate"} => owned[t] = {}
        BY <1>0, <2>a, <2>b, Zenon DEF Ownership, Making
      <3> QED
        BY <2>a, <2>b, <3>1, CallKeepsOwnership, Zenon
    <2> QED
      BY <2>1, <2>2, <2>3, <2>4, <2>5 DEF RuntimeInv
  <1>2. CASE SpawnAllocate(a)
    <2>0. PICK S \in SUBSET {"task", "stack", "arg"} :
              /\ owned' = [owned EXCEPT ![spawning[a]] = S]
              /\ \/ {"task", "stack"} \subseteq S /\ Goto(a, "publish") /\ UNCHANGED spawning
                 \/ S = {} /\ SpawnReturn(a, FALSE)
      BY <1>2, SpawnAllocateFacts, Zenon
    <2>a. /\ pc[a] = "allocate"
          /\ UNCHANGED <<runtimeVars, initVars, stopVars, main_spawned, runnable_tasks,
                         running>>
      BY <1>2, Zenon DEF SpawnAllocate
    <2>b. PICK l, t :
             /\ MayGo(a, l, t) /\ Goes(a, l, t)
             /\ \/ {"task", "stack"} \subseteq S /\ l = "publish" /\ t = spawning[a]
                \/ S = {} /\ l \in {"running", "idle", "create"}
      <3>1. CASE {"task", "stack"} \subseteq S /\ Goto(a, "publish") /\ UNCHANGED spawning
        <4>1. spawning' = [spawning EXCEPT ![a] = spawning[a]]
          BY <1>0, <3>1 DEF TypeOK
        <4>2. MayGo(a, "publish", spawning[a])
          BY <1>0, <2>a, Zenon DEF MayGo, Spawners
        <4> QED
          BY <1>0, <3>1, <4>1, <4>2, MoveGoes, Zenon DEF Goto
      <3>2. CASE S = {} /\ SpawnReturn(a, FALSE)
        BY <2>a, <3>2, ReturnGoes, Zenon
      <3> QED
        BY <2>0, <3>1, <3>2, Zenon
    <2>c. /\ spawning[a] \in Tasks /\ owned[spawning[a]] = {}
          /\ owned'[spawning[a]] = S
          /\ \A u \in Tasks : u # spawning[a] => owned'[u] = owned[u]
      BY <1>0, <2>0, <2>a DEF TypeOK, Spawners, Ownership, Making
    <2>1. TypeOK'
      BY <1>0, <2>0, <2>a, <2>b, <2>c DEF TypeOK, Goes
    <2>2. Places' /\ Spawners' /\ LifeCycle'
      BY <2>a, <2>b, <2>c, CallKeepsPlaces, CallKeepsSpawners, CallKeepsLifeCycle, Zenon
    <2>3. Stopping'
      BY <1>0, <2>a, <2>b, CallKeepsPlaces, Zenon DEF Stopping
    <2>4. Ownership'
      <3>1. CASE S = {} /\ l \in {"running", "idle", "create"}
        <4>1. owned' = owned
          BY <1>0, <2>0, <2>c, <3>1 DEF TypeOK
        <4> QED
          BY <2>a, <2>b, <3>1, <4>1, CallKeepsOwnership, Zenon
      <3>2. CASE {"task", "stack"} \subseteq S /\ l = "publish" /\ t = spawning[a]
        <4>1. /\ spawning[a] \notin runnable_tasks
              /\ \A w \in Workers : running[w] # spawning[a]
              /\ \A b \in Actors : b # a => spawning[b] # spawning[a]
          BY <1>0, <2>c DEF Ownership, QueuedAndRunningAreAlive, Spawners
        <4>2. ASSUME NEW b \in Actors, b # a,
                     pc'[b] \in {"worker_init", "allocate", "publish"}
              PROVE  /\ pc'[b] = pc[b] /\ spawning'[b] = spawning[b]
                     /\ owned'[spawning[b]] = owned[spawning[b]]
          <5>1. pc'[b] = pc[b] /\ spawning'[b] = spawning[b]
            BY <2>b, <4>2, Zenon DEF Goes
          <5>2. spawning[b] \in Tasks /\ spawning[b] # spawning[a]
            BY <1>0, <4>1, <4>2, <5>1, Zenon DEF TypeOK, Spawners
          <5> QED
            BY <2>c, <5>1, <5>2, Zenon
        <4>3. Making'
          <5> SUFFICES ASSUME NEW b \in Actors
              PROVE  /\ pc'[b] \in {"worker_init", "allocate"} => owned'[spawning'[b]] = {}
                     /\ pc'[b] = "publish" =>
                           /\ {"task", "stack"} \subseteq owned'[spawning'[b]]
                           /\ spawning'[b] \notin runnable_tasks
                           /\ \A w \in Workers : running[w] # spawning'[b]
            BY <2>a, Zenon DEF Making
          <5>1. CASE b = a
            <6>1. pc'[b] = "publish" /\ spawning'[b] = spawning[a]
              BY <2>b, <3>2, <5>1, Zenon DEF Goes
            <6> QED
              BY <2>c, <3>2, <4>1, <6>1, Zenon
          <5>2. CASE b # a
            <6>1. /\ pc[b] \in {"worker_init", "allocate"} => owned[spawning[b]] = {}
                  /\ pc[b] = "publish" =>
                        /\ {"task", "stack"} \subseteq owned[spawning[b]]
                        /\ spawning[b] \notin runnable_tasks
                        /\ \A w \in Workers : running[w] # spawning[b]
              BY <1>0, Zenon DEF Ownership, Making
            <6>2. CASE pc'[b] \in {"worker_init", "allocate", "publish"}
              <7>1. /\ pc'[b] = pc[b] /\ spawning'[b] = spawning[b]
                    /\ owned'[spawning[b]] = owned[spawning[b]]
                BY <4>2, <5>2, <6>2, Zenon
              <7> QED
                BY <6>1, <7>1, Zenon
            <6>3. CASE pc'[b] \notin {"worker_init", "allocate", "publish"}
              BY <6>3, Zenon
            <6> QED
              BY <6>2, <6>3, Zenon
          <5> QED
            BY <5>1, <5>2
        <4>4. EveryTaskHasAnOwner'
          <5> SUFFICES ASSUME NEW x \in Tasks, owned'[x] # {}
                       PROVE  \/ \E b \in Actors : spawning'[b] = x /\ pc'[b] = "publish"
                              \/ x \in runnable_tasks
                              \/ \E w \in Workers : running[w] = x
            BY <2>a DEF EveryTaskHasAnOwner
          <5>1. CASE x = spawning[a]
            BY <2>b, <3>2, <5>1, Zenon DEF Goes
          <5>2. CASE x # spawning[a]
            <6>1. \/ \E b \in Actors : spawning[b] = x /\ pc[b] = "publish"
                  \/ x \in runnable_tasks
                  \/ \E w \in Workers : running[w] = x
              BY <1>0, <2>c, <5>2, Zenon DEF Ownership, EveryTaskHasAnOwner
            <6>2. ASSUME NEW b \in Actors, spawning[b] = x, pc[b] = "publish"
                  PROVE  spawning'[b] = x /\ pc'[b] = "publish"
              BY <2>b, <5>2, <6>2, Zenon DEF Goes
            <6> QED
              BY <6>1, <6>2, Zenon
          <5> QED
            BY <5>1, <5>2
        <4>5. QueuedAndRunningAreAlive'
          BY <1>0, <2>a, <2>c, <4>1, Zenon DEF Ownership, QueuedAndRunningAreAlive
        <4>6. Running'
          BY <1>0, <2>a, <2>b, CallKeepsPlaces, Zenon DEF Ownership, Running
        <4> QED
          BY <4>3, <4>4, <4>5, <4>6 DEF Ownership
      <3> QED
        BY <2>b, <3>1, <3>2
    <2> QED
      BY <2>1, <2>2, <2>3, <2>4 DEF RuntimeInv
  <1>3. CASE SpawnPublish(a)
    <2> DEFINE u == spawning[a]
    <2>a. /\ pc[a] = "publish"
          /\ UNCHANGED <<runtimeVars, initVars, stopVars, running>>
          /\ main_spawned' \in BOOLEAN
      BY <1>0, <1>3, Zenon DEF SpawnPublish, TypeOK
    <2>b. /\ u \in Tasks /\ u \notin runnable_tasks
          /\ {"task", "stack"} \subseteq owned[u]
          /\ \A w \in Workers : running[w] # u
          /\ \A b \in Actors : b # a => spawning[b] # u
      BY <1>0, <2>a DEF TypeOK, Spawners, Ownership, Making
    <2>c. PICK l, t : /\ MayGo(a, l, t) /\ Goes(a, l, t)
                      /\ l \notin {"worker_init", "allocate", "publish"}
      <3>1. CASE Goto(a, "poke") /\ UNCHANGED spawning
        <4>1. spawning' = [spawning EXCEPT ![a] = spawning[a]]
          BY <1>0, <3>1 DEF TypeOK
        <4>2. MayGo(a, "poke", spawning[a])
          BY <1>0, <2>a, Zenon DEF MayGo
        <4>3. Goes(a, "poke", spawning[a])
          BY <1>0, <3>1, <4>1, <4>2, MoveGoes, Zenon DEF Goto
        <4> QED
          BY <4>2, <4>3
      <3>2. CASE \E ok \in BOOLEAN : SpawnReturn(a, ok)
        BY <2>a, <3>2, ReturnGoes
      <3> QED
        BY <1>3, <3>1, <3>2, Zenon DEF SpawnPublish
    <2>d. \/ MayQueue /\ owned' = owned /\ runnable_tasks' = runnable_tasks \cup {u}
          \/ /\ owned' = [owned EXCEPT ![u] = {}]
             /\ runnable_tasks' = runnable_tasks
      BY <1>3, Zenon DEF SpawnPublish
    <2>e. \A x \in Tasks : owned'[x] = owned[x] \/ owned'[x] = {}
      BY <1>0, <2>d DEF TypeOK
    <2>1. TypeOK'
      BY <1>0, <2>a, <2>b, <2>c, <2>d DEF TypeOK, Goes
    <2>2. Places' /\ Spawners' /\ LifeCycle'
      BY <2>a, <2>c, <2>e, CallKeepsPlaces, CallKeepsSpawners, CallKeepsLifeCycle, Zenon
    <2>3. Stopping'
      <3>1. MayQueue => runtime_init_ok /\ ~ shutdown_requested
        BY <1>0, Zenon DEF MayQueue, LifeCycle, InitAllOrNothing
      <3> QED
        BY <1>0, <2>a, <2>c, <2>d, <3>1, CallKeepsPlaces, Zenon DEF Stopping
    <2>4. Ownership'
      <3>1. ASSUME NEW b \in Actors, pc'[b] \in {"worker_init", "allocate", "publish"}
            PROVE  /\ pc'[b] = pc[b] /\ spawning'[b] = spawning[b]
                   /\ spawning[b] \in Tasks /\ spawning[b] # u
                   /\ owned'[spawning[b]] = owned[spawning[b]]
        <4>1. pc'[b] = pc[b] /\ spawning'[b] = spawning[b] /\ b # a
          BY <2>c, <3>1, Zenon DEF Goes
        <4>2. spawning[b] \in Tasks /\ spawning[b] # u
          BY <1>0, <2>b, <3>1, <4>1, Zenon DEF TypeOK, Spawners
        <4> QED
          BY <1>0, <2>d, <4>1, <4>2, Zenon DEF TypeOK
      <3>2. \A b \in Actors :
              /\ pc'[b] \in {"worker_init", "allocate"} => owned'[spawning'[b]] = {}
              /\ pc'[b] = "publish" => /\ {"task", "stack"} \subseteq owned'[spawning'[b]]
                                       /\ spawning'[b] \notin runnable_tasks'
                                       /\ \A w \in Workers : running[w] # spawning'[b]
        <4>1. \A x \in Tasks : x # u => (x \in runnable_tasks' <=> x \in runnable_tasks)
          BY <2>d, Zenon
        <4>2. ASSUME NEW b \in Actors, pc'[b] \in {"worker_init", "allocate"}
              PROVE  owned'[spawning'[b]] = {}
          BY <1>0, <3>1, <4>2, Zenon DEF Ownership, Making
        <4>3. ASSUME NEW b \in Actors, pc'[b] = "publish"
              PROVE  /\ {"task", "stack"} \subseteq owned'[spawning'[b]]
                     /\ spawning'[b] \notin runnable_tasks'
                     /\ \A w \in Workers : running[w] # spawning'[b]
          <5>1. /\ pc[b] = "publish" /\ spawning'[b] = spawning[b]
                /\ spawning[b] \in Tasks /\ spawning[b] # u
                /\ owned'[spawning[b]] = owned[spawning[b]]
            BY <3>1, <4>3, Zenon
          <5>2. /\ {"task", "stack"} \subseteq owned[spawning[b]]
                /\ spawning[b] \notin runnable_tasks
                /\ \A w \in Workers : running[w] # spawning[b]
            BY <1>0, <5>1, Zenon DEF Ownership, Making
          <5> QED
            BY <4>1, <5>1, <5>2, Zenon
        <4> QED
          BY <4>2, <4>3, Zenon
      <3>3. EveryTaskHasAnOwner'
        <4> SUFFICES ASSUME NEW x \in Tasks, owned'[x] # {}
                     PROVE  \/ \E b \in Actors : spawning'[b] = x /\ pc'[b] = "publish"
                            \/ x \in runnable_tasks'
                            \/ \E w \in Workers : running[w] = x
          BY <2>a, Zenon DEF EveryTaskHasAnOwner
        <4>1. CASE x = u
          BY <1>0, <2>b, <2>d, <4>1 DEF TypeOK
        <4>2. CASE x # u
          <5>1. owned[x] # {} /\ (x \in runnable_tasks => x \in runnable_tasks')
            BY <2>d, <2>e
          <5>2. \A b \in Actors : spawning[b] = x => b # a
            BY <4>2, Zenon
          <5> QED
            BY <1>0, <2>c, <5>1, <5>2, Zenon DEF Ownership, EveryTaskHasAnOwner, Goes
        <4> QED
          BY <4>1, <4>2, Zenon
      <3>4. QueuedAndRunningAreAlive'
        <4>1. \A x \in Tasks : x # u => owned'[x] = owned[x]
          BY <1>0, <2>d DEF TypeOK
        <4>2. u \in runnable_tasks' => owned'[u] = owned[u]
          BY <2>b, <2>d, Zenon
        <4> QED
          BY <1>0, <2>a, <2>b, <2>d, <4>1, <4>2, Zenon DEF Ownership, QueuedAndRunningAreAlive
      <3>5. \A w \in Workers : running[w] \notin runnable_tasks'
        BY <1>0, <2>b, <2>d, Zenon DEF Ownership, Running
      <3>6. Making'
        BY <2>a, <3>2, Zenon DEF Making
      <3>7. Running'
        BY <1>0, <2>a, <2>c, <3>5, CallKeepsPlaces, Zenon DEF Ownership, Running
      <3> QED
        BY <3>3, <3>4, <3>6, <3>7 DEF Ownership
    <2> QED
      BY <2>1, <2>2, <2>3, <2>4 DEF RuntimeInv
  <1>4. ASSUME UNCHANGED <<runtimeVars, initVars, owned, runnable_tasks, running>>,
               NEW l, NEW t, MayGo(a, l, t), Goes(a, l, t),
               pc[a] # "publish", l # "publish",
               l \in {"worker_init", "allocate"} => owned[t] = {},
               shutdown_requested' \in BOOLEAN, main_spawned' \in BOOLEAN,
               main_finished' \in BOOLEAN,
               shutdown_requested => shutdown_requested',
               shutdown_requested' => runtime_ever_initialized
        PROVE  RuntimeInv'
    <2>1. TypeOK'
      BY <1>0, <1>4 DEF TypeOK, Goes
    <2>2. \A u \in Tasks : owned'[u] = owned[u]
      BY <1>4, Zenon
    <2>3. Places' /\ Spawners' /\ LifeCycle' /\ Ownership'
      BY Zenon, <1>4, <2>2, CallKeepsPlaces, CallKeepsSpawners, CallKeepsLifeCycle,
         CallKeepsOwnership
    <2>4. Stopping'
      BY <1>0, <1>4, CallKeepsPlaces, Zenon DEF Stopping
    <2> QED
      BY <2>1, <2>3, <2>4 DEF RuntimeInv
  <1>5. CASE Poke(a)
    <2>1. /\ pc[a] = "poke" /\ SpawnReturn(a, TRUE)
          /\ UNCHANGED <<runtimeVars, initVars, stopVars, main_spawned, runnable_tasks,
                         owned, running>>
      BY <1>5, Zenon DEF Poke
    <2>2. PICK l \in {"running", "idle", "create"} :
             MayGo(a, l, NoTask) /\ Goes(a, l, NoTask)
      BY <2>1, ReturnGoes, Zenon
    <2>3. /\ shutdown_requested' \in BOOLEAN /\ main_spawned' \in BOOLEAN
          /\ main_finished' \in BOOLEAN
          /\ shutdown_requested' => runtime_ever_initialized
      BY <1>0, <2>1 DEF TypeOK, Stopping
    <2> QED
      BY <1>4, <2>1, <2>2, <2>3, Zenon
  <1>6. CASE croutine_runtime_request_shutdown(a)
    <2>1. /\ InProgram(a) /\ runtime_initialized
          /\ worker_request_shutdown
          /\ pc' = [pc EXCEPT ![a] = "poke"]
          /\ UNCHANGED <<runtimeVars, initVars, main_spawned, runnable_tasks, owned,
                         spawning, running>>
      BY <1>6 DEF croutine_runtime_request_shutdown, Goto
    <2>2. spawning' = [spawning EXCEPT ![a] = spawning[a]]
      BY <1>0, <2>1 DEF TypeOK
    <2>3. MayGo(a, "poke", spawning[a])
      BY <2>1, Zenon DEF MayGo
    <2>4. Goes(a, "poke", spawning[a])
      BY <1>0, <2>1, <2>2, <2>3, MoveGoes, Zenon
    <2>5. /\ shutdown_requested' \in BOOLEAN /\ main_spawned' \in BOOLEAN
          /\ main_finished' \in BOOLEAN
          /\ shutdown_requested => shutdown_requested'
          /\ runtime_ever_initialized
      BY <1>0, <2>1 DEF TypeOK, LifeCycle, worker_request_shutdown
    <2>6. pc[a] # "publish"
      BY <2>1 DEF InProgram
    <2> QED
      BY <1>4, <2>1, <2>3, <2>4, <2>5, <2>6, Zenon
  <1>7. ASSUME NEW t \in Tasks, croutine_spawn(a, t) PROVE RuntimeInv'
    <2>1. /\ InProgram(a) /\ t # MainTask /\ owned[t] = {}
          /\ \A b \in Actors : spawning[b] # t
          /\ spawning' = [spawning EXCEPT ![a] = t]
          /\ pc' = [pc EXCEPT ![a] = "worker_init"]
          /\ UNCHANGED <<runtimeVars, initVars, stopVars, main_spawned, runnable_tasks,
                         owned, running>>
      BY <1>7, Zenon DEF croutine_spawn, Goto
    <2>2. MayGo(a, "worker_init", t)
      BY <2>1, Zenon DEF MayGo
    <2>3. Goes(a, "worker_init", t)
      BY <1>0, <2>1, <2>2, MoveGoes, Zenon
    <2>4. /\ shutdown_requested' \in BOOLEAN /\ main_spawned' \in BOOLEAN
          /\ main_finished' \in BOOLEAN
          /\ shutdown_requested' => runtime_ever_initialized
      BY <1>0, <2>1 DEF TypeOK, Stopping
    <2>5. pc[a] # "publish"
      BY <2>1 DEF InProgram
    <2> QED
      BY <1>4, <2>1, <2>2, <2>3, <2>4, <2>5, Zenon
  <1> QED
    BY <1>1, <1>2, <1>3, <1>5, <1>6, <1>7

LEMMA InitEstablishesRuntimeInv == Init => RuntimeInv
  <1> SUFFICES ASSUME Init PROVE RuntimeInv
    OBVIOUS
  <1> USE RuntimeAssumption DEF Init
  <1>1. TypeOK
    BY Zenon DEF TypeOK
  <1>2. Places
    BY DEF Places
  <1>3. LifeCycle /\ Stopping
    BY DEF LifeCycle, Stopping, InitAllOrNothing
  <1>4. Spawners /\ Ownership
    BY DEF Spawners, Ownership, Making, Running, EveryTaskHasAnOwner,
           QueuedAndRunningAreAlive
  <1> QED
    BY <1>1, <1>2, <1>3, <1>4 DEF RuntimeInv

\* Every step keeps the invariant.
LEMMA NextKeepsRuntimeInv == RuntimeInv /\ [Next]_vars => RuntimeInv'
  <1> SUFFICES ASSUME RuntimeInv, [Next]_vars PROVE RuntimeInv'
    OBVIOUS
  <1>1. CASE UNCHANGED vars
    <2>1. UNCHANGED <<runtime_initialized, runtime_ever_initialized, runtime_ran,
                      runtime_started_workers, once, runtime_init_ok, storage,
                      shutdown_requested, main_finished, main_spawned,
                      runnable_tasks, owned, spawning, running, pc>>
      BY <1>1 DEF vars
    <2>2. TypeOK' /\ Places'
      BY <2>1 DEF RuntimeInv, TypeOK, Places
    <2>3. LifeCycle' /\ Stopping'
      BY <2>1, Zenon DEF RuntimeInv, LifeCycle, Stopping, InitAllOrNothing
    <2>4. Spawners' /\ Making'
      BY <2>1, Zenon DEF RuntimeInv, Spawners, Ownership, Making
    <2>5. Running' /\ EveryTaskHasAnOwner' /\ QueuedAndRunningAreAlive'
      BY <2>1, Zenon DEF RuntimeInv, Ownership, Running, EveryTaskHasAnOwner,
                  QueuedAndRunningAreAlive
    <2> QED
      BY <2>2, <2>3, <2>4, <2>5 DEF RuntimeInv, Ownership
  <1> QED
    BY <1>1, OwnerKeepsInv, WorkersKeepInv, SpawnersKeepInv DEF Next, RefusedCall

\* What the invariant says of a single state.
LEMMA RuntimeInvImplications ==
    RuntimeInv => /\ InitAllOrNothing
                  /\ WorkersOutlivedByStorage
                  /\ ShutdownFreesAll
                  /\ EveryTaskHasAnOwner
                  /\ QueuedAndRunningAreAlive
  <1> SUFFICES ASSUME RuntimeInv
               PROVE  WorkersOutlivedByStorage /\ ShutdownFreesAll
    BY DEF RuntimeInv, LifeCycle, Ownership
  <1>1. \A w \in Workers : pc[w] \notin {"none", "exited"} => runtime_init_ok
    BY DEF RuntimeInv, TypeOK, LifeCycle
  <1>2. WorkersOutlivedByStorage
    BY <1>1 DEF RuntimeInv, LifeCycle, InitAllOrNothing, WorkersOutlivedByStorage
  <1>3. ASSUME ~ runtime_init_ok PROVE \A w \in Workers : running[w] = NoTask
    BY <1>1, <1>3 DEF RuntimeInv, Ownership, Running
  <1>4. ShutdownFreesAll
    BY <1>3, RuntimeAssumption, Zenon
    DEF RuntimeInv, LifeCycle, InitAllOrNothing, Stopping, Ownership,
        EveryTaskHasAnOwner, ShutdownFreesAll
  <1> QED
    BY <1>2, <1>4

\* The invariant holds throughout.
THEOREM RuntimeInvariant == Spec => []RuntimeInv
  BY InitEstablishesRuntimeInv, NextKeepsRuntimeInv, PTL DEF Spec

\* croutine_runtime_shutdown frees the queue, the table and the poller only when no
\* worker is left that could use them.
THEOREM StorageOutlivesWorkers == Spec => []WorkersOutlivedByStorage
  BY RuntimeInvariant, RuntimeInvImplications, PTL

\* Nothing stays allocated after croutine_runtime_shutdown, whoever was spawning.
THEOREM ShutdownFreesEverything == Spec => []ShutdownFreesAll
  BY RuntimeInvariant, RuntimeInvImplications, PTL

\* The memory of a task is never lost between its spawner, the queue and a worker,
\* and a task that is queued or running is never freed.
THEOREM TasksAreOwned == Spec => []MemoryFollowsTasks
  BY RuntimeInvariant, RuntimeInvImplications, PTL DEF MemoryFollowsTasks

\* A failed initialisation takes back what it made.
THEOREM InitIsAtomic == Spec => []InitAllOrNothing
  BY RuntimeInvariant, RuntimeInvImplications, PTL

\* Only croutine_runtime_init resets the flag, and it was not set before.
LEMMA StepKeepsShutdown ==
    RuntimeInv /\ [Next]_vars => [shutdown_requested => shutdown_requested']_vars
  <1> SUFFICES ASSUME RuntimeInv, Next, shutdown_requested PROVE shutdown_requested'
    OBVIOUS
  <1>1. ~ croutine_runtime_init
    BY DEF RuntimeInv, Stopping, croutine_runtime_init, MayInit
  <1>2. shutdown_requested' = shutdown_requested \/ worker_request_shutdown
    BY <1>1, Zenon
    DEF Next, RefusedCall, croutine_runtime_run, RunCannotCreate, worker_wait_for_main,
        RunJoins, croutine_runtime_shutdown, DeinitDrains, DeinitFrees,
        RunCreatesWorker, TaskFinishes, WorkerCleansUp, TaskYields, WorkerRequeues,
        WorkerExits, WorkerTakes, SpawnEnter, SpawnAllocate, SpawnPublish, Poke,
        croutine_runtime_request_shutdown, croutine_spawn, vars
  <1> QED
    BY <1>2, Zenon DEF worker_request_shutdown

\* Shutdown is final, for the whole life of the process.
THEOREM ShutdownStays == Spec => ShutdownIsFinal
  BY RuntimeInvariant, StepKeepsShutdown, PTL DEF Spec, ShutdownIsFinal
=============================================================================
