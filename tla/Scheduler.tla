------------------------------ MODULE Scheduler ------------------------------
(***************************************************************************)
(* The M:N scheduler of src/worker.c and its life cycle in src/runtime.c:  *)
(* worker threads that share one run queue under scheduler_mutex, one of   *)
(* them at a time blocked in the poller, the others on scheduler_cond;     *)
(* tasks that yield, park and finish; outside threads and tasks that       *)
(* spawn, wake, forget descriptors and request shutdown; and the thread    *)
(* that calls croutine_run.                                                *)
(*                                                                         *)
(* A step is a critical section, or a step taken between two of them.      *)
(* The mutex is a variable because three things keep it over several       *)
(* steps: a parking task until its worker has left the task's stack, a     *)
(* channel operation that wakes several tasks, the delivery of I/O events. *)
(***************************************************************************)
EXTENDS Naturals, Sequences, FiniteSets, Functions

CONSTANTS Workers,     \* worker threads (runtime_worker_count of them)
          Tasks,       \* tasks that may be spawned, the main task included
          Main,        \* the task whose is_main flag is set
          Threads,     \* other threads of the program that use the API
          MainThread,  \* the thread that calls croutine_run
          Fds,         \* file descriptors tasks wait on
          NoTask,      \* the NULL task pointer
          Free,        \* value of `mutex' when nobody holds it
          WaitFor      \* bound: the events tasks wait for

Actors == Workers \cup Threads \cup {MainThread}
Events == {"read", "write"}
Slots == Fds \X Events

ASSUME SchedulerAssumption ==
    /\ Main \in Tasks
    /\ NoTask \notin Tasks
    /\ Free \notin Actors
    /\ MainThread \notin Workers \cup Threads
    /\ Workers \cap Threads = {}
    /\ Workers # {}
    /\ WaitFor \subseteq Events

VARIABLES
    pc,                      \* where each thread is
    mutex,                   \* scheduler_mutex: its holder, or Free
    runnable_tasks,          \* the run queue (TaskQueue refines it)
    state,                   \* task -> its TaskState, or "unborn" / "freed"
    task,                    \* worker -> the task it took from the queue
    checked_ready_io,        \* worker -> polled since it last wanted a task
    blocking,                \* worker -> its poll has timeout -1
    events,                  \* worker -> reported slots not yet delivered
    io_waits,                \* slot -> the task parked on it
    ready,                   \* the slots the kernel has ready (external)
    wake_fd,                 \* the eventfd is readable
    poller_waiter_active,
    shutdown_requested,
    scheduler_main_finished,
    main_finished,
    runtime_init_ok,
    ran                      \* croutine_runtime_run has returned

schedVars == <<pc, mutex, runnable_tasks, state, task>>
pollVars == <<checked_ready_io, blocking, events>>
ioVars == <<io_waits, ready, wake_fd, poller_waiter_active>>
stopVars == <<shutdown_requested, scheduler_main_finished, main_finished,
              runtime_init_ok, ran>>
vars == <<schedVars, pollVars, ioVars, stopVars>>

WorkerPc == {"new", "lock", "cond", "woken", "poll", "relock", "dispatch",
             "running", "parking", "check", "requeue", "fin_lock", "fin_poke",
             "exit"}
MainPc == {"spawn_main", "create", "wait", "join", "shutdown", "deinit", "done"}
UserPc == {"user", "chan", "closing", "set_main", "poke"}
TaskState == {"unborn", "runnable", "waiting_io", "waiting_channel",
              "finished", "freed"}

\* Every variable has its type.
TypeOK == /\ pc \in [Actors -> WorkerPc \cup MainPc \cup UserPc]
          /\ mutex \in Actors \cup {Free}
          /\ runnable_tasks \in Seq(Tasks)
          /\ state \in [Tasks -> TaskState]
          /\ task \in [Workers -> Tasks \cup {NoTask}]
          /\ checked_ready_io \in [Workers -> BOOLEAN]
          /\ blocking \in [Workers -> BOOLEAN]
          /\ events \in [Workers -> SUBSET Slots]
          /\ io_waits \in [Slots -> Tasks \cup {NoTask}]
          /\ ready \subseteq Slots
          /\ wake_fd \in BOOLEAN
          /\ poller_waiter_active \in BOOLEAN
          /\ shutdown_requested \in BOOLEAN
          /\ scheduler_main_finished \in BOOLEAN
          /\ main_finished \in BOOLEAN
          /\ runtime_init_ok \in BOOLEAN
          /\ ran \in BOOLEAN

\* After croutine_runtime_init: worker_reset_main_state and runtime_init_impl
\* have run, no worker thread exists yet.
Init == /\ pc = [a \in Actors |-> IF a \in Workers THEN "new"
                                  ELSE IF a = MainThread THEN "spawn_main"
                                  ELSE "user"]
        /\ mutex = Free
        /\ runnable_tasks = << >>
        /\ state = [t \in Tasks |-> "unborn"]
        /\ task = [w \in Workers |-> NoTask]
        /\ checked_ready_io = [w \in Workers |-> FALSE]
        /\ blocking = [w \in Workers |-> FALSE]
        /\ events = [w \in Workers |-> {}]
        /\ io_waits = [s \in Slots |-> NoTask]
        /\ ready = {}
        /\ wake_fd = FALSE
        /\ poller_waiter_active = FALSE
        /\ shutdown_requested = FALSE
        /\ scheduler_main_finished = FALSE
        /\ main_finished = FALSE
        /\ runtime_init_ok = TRUE
        /\ ran = FALSE
-----------------------------------------------------------------------------
(***************************************************************************)
(* Helpers.                                                                *)
(***************************************************************************)
\* The condition on which a worker leaves its loop.
Stop == shutdown_requested \/ scheduler_main_finished

\* Workers counted by idle_workers: those that entered pthread_cond_wait and
\* have not come back with the mutex, whether or not they were signalled.
idle_workers == {w \in Workers : pc[w] \in {"cond", "woken"}}

\* pthread_cond_signal and pthread_cond_broadcast on scheduler_cond: the
\* program counters that may result from `p'.
Signal(p) == LET asleep == {w \in Workers : p[w] = "cond"}
             IN  IF asleep = {} THEN {p}
                 ELSE {[p EXCEPT ![w] = "woken"] : w \in asleep}

Broadcast(p) == [a \in Actors |-> IF p[a] = "cond" THEN "woken" ELSE p[a]]

At(a, label) == [pc EXCEPT ![a] = label]

\* task_queue_push: a task already in the queue is not added again.
Push(q, t) == IF t \in Range(q) THEN q ELSE Append(q, t)

\* Slots with a parked task are registered with the poller.
Armed == {s \in Slots : io_waits[s] # NoTask}

\* A thread that runs application code, and where it goes back to after a call.
InUserCode(a) == pc[a] = IF a \in Workers THEN "running" ELSE "user"

Resume(a) == IF a \in Workers THEN "running"
             ELSE IF a \in Threads THEN "user"
             ELSE IF ran THEN "deinit" ELSE "join"

\* croutine_poller_wake: the eventfd exists until worker_deinit closes it.
croutine_poller_wake == wake_fd' = (wake_fd \/ runtime_init_ok)
-----------------------------------------------------------------------------
(***************************************************************************)
(* The worker loop.                                                        *)
(***************************************************************************)
\* Worker w is at the head of the inner loop with the mutex (or can take it).
AtLoopHead(w) == \/ pc[w] \in {"lock", "woken"} /\ mutex = Free
                 \/ pc[w] = "dispatch" /\ events[w] = {}

\* checked_ready_io starts FALSE each time the worker goes for a new task.
CheckedIo(w) == pc[w] # "lock" /\ checked_ready_io[w]

\* Mutant: a worker polls only when the run queue is empty.
WantsPollWhenIdle(w) == /\ ~ poller_waiter_active
                        /\ runnable_tasks = << >>

WantsPoll(w) == /\ ~ poller_waiter_active
                /\ (runnable_tasks = << >> \/ ~ CheckedIo(w))

LoopExit(w) ==
    /\ AtLoopHead(w)
    /\ Stop
    /\ pc' = At(w, "exit")
    /\ mutex' = Free
    /\ UNCHANGED <<runnable_tasks, state, task, pollVars, ioVars, stopVars>>

LoopBeginPoll(w) ==
    /\ AtLoopHead(w)
    /\ ~ Stop
    /\ WantsPoll(w)
    /\ pc' = At(w, "poll")
    /\ mutex' = Free
    /\ poller_waiter_active' = TRUE
    /\ checked_ready_io' = [checked_ready_io EXCEPT ![w] = TRUE]
    /\ blocking' = [blocking EXCEPT ![w] = (runnable_tasks = << >>)]
    /\ UNCHANGED <<runnable_tasks, state, task, events, io_waits, ready,
                   wake_fd, stopVars>>

\* Mutant: a worker takes the newest task.
LoopPopNewest(w) ==
    /\ AtLoopHead(w)
    /\ ~ Stop
    /\ ~ WantsPoll(w)
    /\ runnable_tasks # << >>
    /\ task' = [task EXCEPT ![w] = runnable_tasks[Len(runnable_tasks)]]
    /\ runnable_tasks' = SubSeq(runnable_tasks, 1, Len(runnable_tasks) - 1)
    /\ pc' = At(w, "running")
    /\ mutex' = Free
    /\ UNCHANGED <<state, pollVars, ioVars, stopVars>>

LoopPop(w) ==
    /\ AtLoopHead(w)
    /\ ~ Stop
    /\ ~ WantsPoll(w)
    /\ runnable_tasks # << >>
    /\ task' = [task EXCEPT ![w] = Head(runnable_tasks)]
    /\ runnable_tasks' = Tail(runnable_tasks)
    /\ pc' = At(w, "running")
    /\ mutex' = Free
    /\ UNCHANGED <<state, pollVars, ioVars, stopVars>>

LoopCondWait(w) ==
    /\ AtLoopHead(w)
    /\ ~ Stop
    /\ ~ WantsPoll(w)
    /\ runnable_tasks = << >>
    /\ pc' = At(w, "cond")
    /\ mutex' = Free
    /\ checked_ready_io' = [checked_ready_io EXCEPT ![w] = CheckedIo(w)]
    /\ UNCHANGED <<runnable_tasks, state, task, blocking, events, ioVars,
                   stopVars>>

\* pthread_cond_wait may return without a signal.
SpuriousWakeup(w) ==
    /\ pc[w] = "cond"
    /\ pc' = At(w, "woken")
    /\ UNCHANGED <<mutex, runnable_tasks, state, task, pollVars, ioVars,
                   stopVars>>

\* croutine_poller_wait returns: at once with timeout 0, otherwise when the
\* eventfd or an armed descriptor is ready.  It drains the eventfd.
PollReturn(w) ==
    /\ pc[w] = "poll"
    /\ \/ ~ blocking[w]
       \/ wake_fd
       \/ ready \cap Armed # {}
    /\ pc' = At(w, "relock")
    /\ events' = [events EXCEPT ![w] = ready \cap Armed]
    /\ wake_fd' = FALSE
    /\ UNCHANGED <<mutex, runnable_tasks, state, task, checked_ready_io,
                   blocking, io_waits, ready, poller_waiter_active, stopVars>>

\* Mutant: no broadcast when the poller worker comes back.
PollRelockSilent(w) ==
    /\ pc[w] = "relock"
    /\ mutex = Free
    /\ poller_waiter_active' = FALSE
    /\ pc' = At(w, IF Stop THEN "exit" ELSE "dispatch")
    /\ mutex' = IF Stop THEN Free ELSE w
    /\ events' = IF Stop THEN [events EXCEPT ![w] = {}] ELSE events
    /\ UNCHANGED <<runnable_tasks, state, task, checked_ready_io, blocking,
                   io_waits, ready, wake_fd, stopVars>>

\* The poller worker takes the mutex again and leaves or goes on to deliver.
PollRelock(w) ==
    /\ pc[w] = "relock"
    /\ mutex = Free
    /\ poller_waiter_active' = FALSE
    /\ pc' = Broadcast(At(w, IF Stop THEN "exit" ELSE "dispatch"))
    /\ mutex' = IF Stop THEN Free ELSE w
    /\ events' = IF Stop THEN [events EXCEPT ![w] = {}] ELSE events
    /\ UNCHANGED <<runnable_tasks, state, task, checked_ready_io, blocking,
                   io_waits, ready, wake_fd, stopVars>>

\* wake_waiting_tasks_locked(fd, evs, _): the tasks parked on the reported slots
\* become runnable, the reader first, and leave the wait table.
Woken(fd, evs) == {io_waits[<<fd, e>>] : e \in evs} \ {NoTask}

PushSlot(q, s, evs) == IF s[2] \in evs /\ io_waits[s] # NoTask
                       THEN Push(q, io_waits[s])
                       ELSE q

wake_waiting_tasks_locked(fd, evs) ==
    /\ runnable_tasks' = PushSlot(PushSlot(runnable_tasks, <<fd, "read">>, evs),
                                  <<fd, "write">>, evs)
    /\ state' = [t \in Tasks |-> IF t \in Woken(fd, evs)
                                 THEN "runnable" ELSE state[t]]
    /\ io_waits' = [s \in Slots |-> IF s[1] = fd /\ s[2] \in evs
                                    THEN NoTask ELSE io_waits[s]]

DeliverEvents(w, fd) ==
    LET evs == {e \in Events : <<fd, e>> \in events[w]}
    IN  /\ pc[w] = "dispatch"
        /\ evs # {}
        /\ wake_waiting_tasks_locked(fd, evs)
        /\ pc' = IF Woken(fd, evs) = {} THEN pc ELSE Broadcast(pc)
        /\ events' = [events EXCEPT ![w] = {s \in @ : s[1] # fd}]
        /\ UNCHANGED <<mutex, task, checked_ready_io, blocking, ready, wake_fd,
                       poller_waiter_active, stopVars>>
-----------------------------------------------------------------------------
(***************************************************************************)
(* What a running task does with its worker.                               *)
(***************************************************************************)
\* worker_yield: back to the scheduler with state TASK_RUNNABLE.
worker_yield(w) ==
    /\ pc[w] = "running"
    /\ pc' = At(w, "check")
    /\ UNCHANGED <<mutex, runnable_tasks, state, task, pollVars, ioVars,
                   stopVars>>

\* The task function returns (task_finished).  For the main task, the thread
\* in croutine_run is told first, the workers afterwards.
task_finished(w) ==
    /\ pc[w] = "running"
    /\ state' = [state EXCEPT ![task[w]] = "finished"]
    /\ pc' = At(w, IF task[w] = Main THEN "fin_lock" ELSE "check")
    /\ main_finished' = (main_finished \/ task[w] = Main)
    /\ UNCHANGED <<mutex, runnable_tasks, task, pollVars, ioVars,
                   shutdown_requested, scheduler_main_finished,
                   runtime_init_ok, ran>>

MainFinishedLocked(w) ==
    /\ pc[w] = "fin_lock"
    /\ mutex = Free
    /\ scheduler_main_finished' = TRUE
    /\ pc' = Broadcast(At(w, "fin_poke"))
    /\ UNCHANGED <<mutex, runnable_tasks, state, task, pollVars, ioVars,
                   shutdown_requested, main_finished, runtime_init_ok, ran>>

\* Mutant: the end of the main task does not wake the poller.
MainFinishedNoPoke(w) ==
    /\ pc[w] = "fin_poke"
    /\ UNCHANGED wake_fd
    /\ pc' = At(w, "check")
    /\ UNCHANGED <<mutex, runnable_tasks, state, task, pollVars, io_waits,
                   ready, poller_waiter_active, stopVars>>

MainFinishedPoke(w) ==
    /\ pc[w] = "fin_poke"
    /\ croutine_poller_wake
    /\ pc' = At(w, "check")
    /\ UNCHANGED <<mutex, runnable_tasks, state, task, pollVars, io_waits,
                   ready, poller_waiter_active, stopVars>>

\* worker_park_current_on_io and worker_park_current_on_channel_locked publish
\* the task as a waiter and keep the mutex until the worker is off its stack.
\* When shutdown was requested they return instead and nothing changes; so
\* does a second waiter on the same slot.
worker_park_current_on_io(w, s) ==
    /\ pc[w] = "running"
    /\ mutex = Free
    /\ ~ shutdown_requested
    /\ io_waits[s] = NoTask
    /\ io_waits' = [io_waits EXCEPT ![s] = task[w]]
    /\ state' = [state EXCEPT ![task[w]] = "waiting_io"]
    /\ mutex' = w
    /\ pc' = At(w, "parking")
    /\ UNCHANGED <<runnable_tasks, task, pollVars, ready, wake_fd,
                   poller_waiter_active, stopVars>>

\* Mutant: the mutex is released before the context switch.
ParkOnChannelUnlocks(w) ==
    /\ pc[w] = "running"
    /\ mutex = Free
    /\ ~ shutdown_requested
    /\ state' = [state EXCEPT ![task[w]] = "waiting_channel"]
    /\ mutex' = Free
    /\ pc' = At(w, "parking")
    /\ UNCHANGED <<runnable_tasks, task, pollVars, ioVars, stopVars>>

\* Mutant: shutdown_requested is not read before parking.
ParkOnChannelUnchecked(w) ==
    /\ pc[w] = "running"
    /\ mutex = Free
    /\ state' = [state EXCEPT ![task[w]] = "waiting_channel"]
    /\ mutex' = w
    /\ pc' = At(w, "parking")
    /\ UNCHANGED <<runnable_tasks, task, pollVars, ioVars, stopVars>>

worker_park_current_on_channel_locked(w) ==
    /\ pc[w] = "running"
    /\ mutex = Free
    /\ ~ shutdown_requested
    /\ state' = [state EXCEPT ![task[w]] = "waiting_channel"]
    /\ mutex' = w
    /\ pc' = At(w, "parking")
    /\ UNCHANGED <<runnable_tasks, task, pollVars, ioVars, stopVars>>

\* The context switch has saved the parked task; the worker forgets it and
\* releases the mutex it got from it (returned_with_scheduler_lock).
ParkHandback(w) ==
    /\ pc[w] = "parking"
    /\ mutex' = Free
    /\ task' = [task EXCEPT ![w] = NoTask]
    /\ pc' = At(w, "lock")
    /\ UNCHANGED <<runnable_tasks, state, pollVars, ioVars, stopVars>>

\* A task that yielded or finished is back on its worker: shutdown_requested
\* is read under the mutex and the task is freed or requeued.
AfterSwitch(w) ==
    LET dead == state[task[w]] = "finished" \/ shutdown_requested
    IN  /\ pc[w] = "check"
        /\ mutex = Free
        /\ state' = IF dead THEN [state EXCEPT ![task[w]] = "freed"] ELSE state
        /\ task' = IF dead THEN [task EXCEPT ![w] = NoTask] ELSE task
        /\ pc' = At(w, IF dead THEN "lock" ELSE "requeue")
        /\ UNCHANGED <<mutex, runnable_tasks, pollVars, ioVars, stopVars>>

Requeue(w) ==
    /\ pc[w] = "requeue"
    /\ mutex = Free
    /\ runnable_tasks' = Push(runnable_tasks, task[w])
    /\ task' = [task EXCEPT ![w] = NoTask]
    /\ pc' \in Signal(At(w, "lock"))
    /\ UNCHANGED <<mutex, state, pollVars, ioVars, stopVars>>
-----------------------------------------------------------------------------
(***************************************************************************)
(* Calls a task or an outside thread makes.                                *)
(***************************************************************************)
\* Mutant: a woken task is only announced on scheduler_cond.
WakeTaskSignalOnly(t, a, label) ==
    /\ state[t] = "waiting_channel"
    /\ state' = [state EXCEPT ![t] = "runnable"]
    /\ runnable_tasks' = Push(runnable_tasks, t)
    /\ pc' \in Signal(At(a, label))
    /\ UNCHANGED wake_fd

\* worker_wake_task_locked(t, _), called with the mutex held by a thread that
\* will be at `label': the poller is woken only when no worker is idle.
worker_wake_task_locked(t, a, label) ==
    /\ state[t] = "waiting_channel"
    /\ state' = [state EXCEPT ![t] = "runnable"]
    /\ runnable_tasks' = Push(runnable_tasks, t)
    /\ pc' \in Signal(At(a, label))
    /\ IF idle_workers = {} /\ poller_waiter_active
       THEN croutine_poller_wake
       ELSE UNCHANGED wake_fd

\* A channel operation (send, recv, select, close) that completes waiters: it
\* takes the mutex, wakes one parked task after another, releases the mutex.
\* Which tasks it wakes is up to the Channel module; here any may be woken.
ChannelWakeFirst(a, t) ==
    /\ InUserCode(a)
    /\ mutex = Free
    /\ mutex' = a
    /\ worker_wake_task_locked(t, a, "chan")
    /\ UNCHANGED <<task, pollVars, io_waits, ready, poller_waiter_active,
                   stopVars>>

ChannelWakeNext(a, t) ==
    /\ pc[a] = "chan"
    /\ worker_wake_task_locked(t, a, "chan")
    /\ UNCHANGED <<mutex, task, pollVars, io_waits, ready,
                   poller_waiter_active, stopVars>>

ChannelUnlock(a) ==
    /\ pc[a] = "chan"
    /\ mutex' = Free
    /\ pc' = At(a, Resume(a))
    /\ UNCHANGED <<runnable_tasks, state, task, pollVars, ioVars, stopVars>>

\* worker_spawn by thread a, which continues at `label' or, when a worker is in
\* the poller, at the call that wakes it.  A refused spawn changes nothing.
worker_spawn(a, t, label) ==
    /\ mutex = Free
    /\ ~ shutdown_requested
    /\ state[t] = "unborn"
    /\ state' = [state EXCEPT ![t] = "runnable"]
    /\ runnable_tasks' = Push(runnable_tasks, t)
    /\ pc' \in Signal(At(a, label))
    /\ UNCHANGED <<mutex, task, pollVars, ioVars, stopVars>>

croutine_spawn(a, t) ==
    /\ InUserCode(a)
    /\ t # Main
    /\ worker_spawn(a, t, IF poller_waiter_active THEN "poke" ELSE Resume(a))

\* worker_forget_fd on a descriptor with waiters.
worker_forget_fd(a, fd) ==
    /\ InUserCode(a)
    /\ mutex = Free
    /\ Woken(fd, Events) # {}
    /\ wake_waiting_tasks_locked(fd, Events)
    /\ pc' = Broadcast(At(a, IF poller_waiter_active THEN "poke" ELSE Resume(a)))
    /\ UNCHANGED <<mutex, task, pollVars, ready, wake_fd, poller_waiter_active,
                   stopVars>>

\* The croutine_poller_wake that ends worker_spawn, worker_forget_fd and
\* worker_request_shutdown, after the mutex was released.
PokePoller(a) ==
    /\ pc[a] = "poke"
    /\ croutine_poller_wake
    /\ pc' = At(a, Resume(a))
    /\ UNCHANGED <<mutex, runnable_tasks, state, task, pollVars, io_waits,
                   ready, poller_waiter_active, stopVars>>

\* worker_request_shutdown, in four steps: the flag is set under the mutex,
\* croutine_channel_shutdown_all_locked wakes every task parked on a channel,
\* the workers are told and the mutex released, then the thread in croutine_run
\* is told, then the poller (PokePoller).
ShutdownLock(a) ==
    /\ InUserCode(a) \/ pc[a] = "shutdown"
    /\ runtime_init_ok
    /\ mutex = Free
    /\ mutex' = a
    /\ shutdown_requested' = TRUE
    /\ pc' = At(a, "closing")
    /\ UNCHANGED <<runnable_tasks, state, task, pollVars, ioVars,
                   scheduler_main_finished, main_finished, runtime_init_ok, ran>>

ShutdownWake(a, t) ==
    /\ pc[a] = "closing"
    /\ worker_wake_task_locked(t, a, "closing")
    /\ UNCHANGED <<mutex, task, pollVars, io_waits, ready,
                   poller_waiter_active, stopVars>>

ShutdownUnlock(a) ==
    /\ pc[a] = "closing"
    /\ \A t \in Tasks : state[t] # "waiting_channel"
    /\ mutex' = Free
    /\ pc' = Broadcast(At(a, "set_main"))
    /\ UNCHANGED <<runnable_tasks, state, task, pollVars, ioVars, stopVars>>

ShutdownTellMain(a) ==
    /\ pc[a] = "set_main"
    /\ main_finished' = TRUE
    /\ pc' = At(a, "poke")
    /\ UNCHANGED <<mutex, runnable_tasks, state, task, pollVars, ioVars,
                   shutdown_requested, scheduler_main_finished,
                   runtime_init_ok, ran>>
-----------------------------------------------------------------------------
(***************************************************************************)
(* croutine_run: croutine_runtime_run, then croutine_runtime_shutdown.     *)
(***************************************************************************)
\* A main task that cannot be spawned (shutdown already requested, or no
\* memory) ends croutine_runtime_run at once.
SpawnMain ==
    /\ pc[MainThread] = "spawn_main"
    /\ worker_spawn(MainThread, Main, "create")

SpawnMainFails ==
    /\ pc[MainThread] = "spawn_main"
    /\ pc' = At(MainThread, "shutdown")
    /\ ran' = TRUE
    /\ UNCHANGED <<mutex, runnable_tasks, state, task, pollVars, ioVars,
                   shutdown_requested, scheduler_main_finished, main_finished,
                   runtime_init_ok>>

StartWorker(w) ==
    /\ pc[MainThread] = "create"
    /\ pc[w] = "new"
    /\ pc' = At(w, "lock")
    /\ UNCHANGED <<mutex, runnable_tasks, state, task, pollVars, ioVars,
                   stopVars>>

\* The thread table or a thread cannot be allocated.
CreateFails ==
    /\ pc[MainThread] = "create"
    /\ \E w \in Workers : pc[w] = "new"
    /\ pc' = At(MainThread, "shutdown")
    /\ UNCHANGED <<mutex, runnable_tasks, state, task, pollVars, ioVars,
                   stopVars>>

AllStarted ==
    /\ pc[MainThread] = "create"
    /\ \A w \in Workers : pc[w] # "new"
    /\ pc' = At(MainThread, "wait")
    /\ UNCHANGED <<mutex, runnable_tasks, state, task, pollVars, ioVars,
                   stopVars>>

worker_wait_for_main ==
    /\ pc[MainThread] = "wait"
    /\ main_finished
    /\ pc' = At(MainThread, "join")
    /\ UNCHANGED <<mutex, runnable_tasks, state, task, pollVars, ioVars,
                   stopVars>>

\* pthread_join of every worker that was started; croutine_runtime_run returns.
JoinWorkers ==
    /\ pc[MainThread] = "join"
    /\ \A w \in Workers : pc[w] \in {"new", "exit"}
    /\ pc' = At(MainThread, "shutdown")
    /\ ran' = TRUE
    /\ UNCHANGED <<mutex, runnable_tasks, state, task, pollVars, ioVars,
                   shutdown_requested, scheduler_main_finished, main_finished,
                   runtime_init_ok>>

\* Mutant: worker_deinit forgets the tasks parked on I/O.
DeinitQueueOnly ==
    LET left == Range(runnable_tasks)
    IN  /\ pc[MainThread] = "deinit"
        /\ mutex = Free
        /\ state' = [t \in Tasks |-> IF t \in left THEN "freed" ELSE state[t]]
        /\ runnable_tasks' = << >>
        /\ io_waits' = [s \in Slots |-> NoTask]
        /\ wake_fd' = FALSE
        /\ runtime_init_ok' = FALSE
        /\ pc' = At(MainThread, "done")
        /\ UNCHANGED <<mutex, task, pollVars, ready, poller_waiter_active,
                       shutdown_requested, scheduler_main_finished,
                       main_finished, ran>>

\* worker_deinit frees the queued tasks and the tasks still parked on I/O.
worker_deinit ==
    LET left == Range(runnable_tasks) \cup (Range(io_waits) \ {NoTask})
    IN  /\ pc[MainThread] = "deinit"
        /\ mutex = Free
        /\ state' = [t \in Tasks |-> IF t \in left THEN "freed" ELSE state[t]]
        /\ runnable_tasks' = << >>
        /\ io_waits' = [s \in Slots |-> NoTask]
        /\ wake_fd' = FALSE
        /\ runtime_init_ok' = FALSE
        /\ pc' = At(MainThread, "done")
        /\ UNCHANGED <<mutex, task, pollVars, ready, poller_waiter_active,
                       shutdown_requested, scheduler_main_finished,
                       main_finished, ran>>
-----------------------------------------------------------------------------
(***************************************************************************)
(* The kernel: descriptors become ready and stop being ready.              *)
(***************************************************************************)
FdReady(s) ==
    /\ runtime_init_ok
    /\ s \notin ready
    /\ ready' = ready \cup {s}
    /\ UNCHANGED <<schedVars, pollVars, io_waits, wake_fd,
                   poller_waiter_active, stopVars>>

FdConsumed(s) ==
    /\ runtime_init_ok
    /\ s \in ready
    /\ ready' = ready \ {s}
    /\ UNCHANGED <<schedVars, pollVars, io_waits, wake_fd,
                   poller_waiter_active, stopVars>>

\* croutine_run has returned: nothing more has to happen.
Terminated == pc[MainThread] = "done" /\ UNCHANGED vars
-----------------------------------------------------------------------------
Loop(w) == LoopExit(w) \/ LoopBeginPoll(w) \/ LoopPop(w) \/ LoopCondWait(w)

GiveBack(w) == \/ worker_yield(w)
               \/ task_finished(w)
               \/ worker_park_current_on_channel_locked(w)
               \/ \E s \in Fds \X WaitFor : worker_park_current_on_io(w, s)

WorkerStep(w) == \/ Loop(w)
                 \/ PollReturn(w)
                 \/ PollRelock(w)
                 \/ \E fd \in Fds : DeliverEvents(w, fd)
                 \/ MainFinishedLocked(w)
                 \/ MainFinishedPoke(w)
                 \/ ParkHandback(w)
                 \/ AfterSwitch(w)
                 \/ Requeue(w)

\* The rest of a call that is under way.
CallStep(a) == \/ ChannelUnlock(a)
               \/ PokePoller(a)
               \/ \E t \in Tasks : ShutdownWake(a, t)
               \/ ShutdownUnlock(a)
               \/ ShutdownTellMain(a)

Call(a) == \/ \E t \in Tasks : \/ ChannelWakeFirst(a, t)
                               \/ ChannelWakeNext(a, t)
                               \/ croutine_spawn(a, t)
           \/ \E fd \in Fds : worker_forget_fd(a, fd)
           \/ ShutdownLock(a)

MainThreadStep == \/ SpawnMain
                  \/ SpawnMainFails
                  \/ \E w \in Workers : StartWorker(w)
                  \/ CreateFails
                  \/ AllStarted
                  \/ worker_wait_for_main
                  \/ JoinWorkers
                  \/ worker_deinit

Kernel == \E s \in Fds \X WaitFor : FdReady(s) \/ FdConsumed(s)

Next == \/ \E w \in Workers : WorkerStep(w) \/ GiveBack(w) \/ SpuriousWakeup(w)
        \/ \E a \in Actors : CallStep(a) \/ Call(a)
        \/ MainThreadStep
        \/ Kernel
        \/ Terminated

Spec == Init /\ [][Next]_vars
-----------------------------------------------------------------------------
(***************************************************************************)
(* Safety.                                                                 *)
(***************************************************************************)
Queued(t) == t \in Range(runnable_tasks)
Holders(t) == {w \in Workers : task[w] = t}
SlotsOf(t) == {s \in Slots : io_waits[s] = t}

\* Every task is in exactly one place.  A live task is in the run queue once, or
\* on one worker, or parked; a parked task may be on its worker only while that
\* worker holds the mutex and switches away from the task's stack; a task that
\* was freed is in no queue, in no wait slot and on no worker.  So no task runs
\* on two workers, none is resumed while its stack is in use, none is freed
\* twice or used after it was freed.
TaskInOnePlace ==
    /\ \A i, j \in DOMAIN runnable_tasks :
          runnable_tasks[i] = runnable_tasks[j] => i = j
    /\ \A t \in Tasks :
          /\ state[t] \in {"unborn", "freed"} =>
                ~ Queued(t) /\ Holders(t) = {} /\ SlotsOf(t) = {}
          /\ state[t] = "runnable" =>
                /\ SlotsOf(t) = {}
                /\ IF Queued(t) THEN Holders(t) = {}
                                ELSE \E w \in Workers : Holders(t) = {w}
          /\ state[t] = "finished" =>
                /\ ~ Queued(t) /\ SlotsOf(t) = {}
                /\ \E w \in Workers : Holders(t) = {w}
          /\ state[t] = "waiting_io" =>
                ~ Queued(t) /\ \E s \in Slots : SlotsOf(t) = {s}
          /\ state[t] = "waiting_channel" =>
                ~ Queued(t) /\ SlotsOf(t) = {}
          /\ state[t] \in {"waiting_io", "waiting_channel"} =>
                \A w \in Holders(t) : pc[w] = "parking" /\ mutex = w

\* poller_waiter_active is set exactly while one worker is between entering
\* croutine_poller_wait and taking the mutex again: no two workers poll at once
\* and the flag never stays set without a poller.
PollerExclusive ==
    LET pollers == {w \in Workers : pc[w] \in {"poll", "relock"}}
    IN  IF poller_waiter_active THEN \E w \in Workers : pollers = {w}
                                ELSE pollers = {}

\* Workers sleep on scheduler_cond only while another one is in the poller: I/O
\* readiness always has somebody to see it, also when that somebody leaves.
SleepersHavePoller ==
    (\E w \in Workers : pc[w] = "cond") => poller_waiter_active

\* A worker that nothing will wake unless somebody else acts.
Asleep(w) == \/ pc[w] = "cond"
             \/ /\ pc[w] = "poll" /\ blocking[w]
                /\ ~ wake_fd /\ ready \cap Armed = {}

\* Somebody is about to write the eventfd.
PokePending == \E a \in Actors : pc[a] \in {"set_main", "poke", "fin_poke"}

\* No lost wakeup: with a task in the run queue and the mutex free, the workers
\* are never all asleep (on scheduler_cond, or in the poller with nothing that
\* ends the wait) unless a call that wakes the poller is under way.  This is
\* what the signal, idle_workers and croutine_poller_wake are together for.
NoLostWakeup ==
    (/\ runnable_tasks # << >> /\ mutex = Free /\ ~ PokePending
     /\ \E w \in Workers : Asleep(w))
    => \E w \in Workers : pc[w] \notin {"new", "exit"} /\ ~ Asleep(w)

\* worker_request_shutdown leaves no task parked on a channel, and none parks
\* afterwards: the parking call reads shutdown_requested under the same mutex.
ShutdownCancelsChannelWaits ==
    (shutdown_requested /\ mutex = Free)
    => \A t \in Tasks : state[t] # "waiting_channel"

\* When croutine_run returns, every task that was ever spawned has been freed,
\* wherever it was when the runtime stopped.
NoLeak == pc[MainThread] = "done" => \A t \in Tasks : state[t] \in {"unborn", "freed"}

\* worker_wake_task_locked: "A worker blocked in the poller does not see the
\* signal, so wake it when no worker is idle."  A queued task is not left behind
\* with a worker asleep in the poller while all others run application code.
PollerWokenWhenNoneIdle ==
    (/\ runnable_tasks # << >> /\ mutex = Free /\ ~ PokePending
     /\ \E w \in Workers : pc[w] = "poll" /\ Asleep(w))
    => \E w \in Workers : pc[w] \notin {"new", "exit", "cond", "poll", "running"}
-----------------------------------------------------------------------------
(***************************************************************************)
(* The abstract view of the tasks.                                         *)
(***************************************************************************)
Life(t) == CASE state[t] = "unborn" -> "unborn"
             [] state[t] = "freed" -> "dead"
             [] state[t] \in {"waiting_io", "waiting_channel"} -> "parked"
             [] OTHER -> IF Queued(t) THEN "ready" ELSE "running"

Lifecycle == INSTANCE TaskLifecycle WITH life <- [t \in Tasks |-> Life(t)],
                                         order <- runnable_tasks

\* The workers, the mutex and the poller together implement the life cycle of
\* tasks: FIFO dispatch, no task run while parked, resumed twice, or revived,
\* and one final teardown that drops exactly what still exists.
ImplementsLifecycle == Lifecycle!Spec
-----------------------------------------------------------------------------
(***************************************************************************)
(* Liveness.                                                               *)
(***************************************************************************)
\* Threads that can go on do; a thread that wants the mutex gets it in the end
\* (strong fairness, the mutex being free again and again); a task gives its
\* worker back in the end (it yields, parks or returns).  Nothing is assumed of
\* the kernel, of spurious wakeups or of the calls application code makes.
Fairness == /\ \A w \in Workers : SF_vars(WorkerStep(w)) /\ SF_vars(GiveBack(w))
            /\ \A a \in Actors : WF_vars(CallStep(a))
            /\ SF_vars(MainThreadStep \/ ShutdownLock(MainThread))

FairSpec == Spec /\ Fairness

\* Once shutdown is requested or the main task has returned, every worker leaves
\* its loop, croutine_run joins them all, frees what is left and returns.
StopLeadsToReturn == Stop ~> pc[MainThread] = "done"

\* A queued task is taken by a worker, unless the runtime stops.
QueuedTaskRuns == \A t \in Tasks : Queued(t) ~> (~ Queued(t) \/ Stop)

\* A task parked on a descriptor that stays ready is woken, even when the run
\* queue never becomes empty (checked_ready_io makes a worker poll before each
\* task it takes).
ReadyIoIsDelivered ==
    \A s \in Slots : []<>(io_waits[s] = NoTask \/ s \notin ready \/ Stop)
=============================================================================
