# A TLA+ model of croutine

croutine runs many tasks (coroutines) on a few worker threads. This directory
holds a model of the parts whose correctness depends on interleavings, on the
order of events and on ring arithmetic; TLC checks it on small instances and
TLAPS proves its safety properties for all sizes.

## The system and its modules

| part | source | modules |
|---|---|---|
| run queue, a growing ring buffer with a `queued` flag per task | `src/task.c` | `TaskQueue`, abstract `FifoQueue`, proofs in `TaskProofs` |
| worker loop, parking, waking, spawning, shutdown | `src/worker.c` | `Scheduler`, abstract `TaskLifecycle`, proofs `SchedulerProofs` |
| table of the tasks that wait for descriptors | `src/worker.c` | `WaitTable`, abstract `WaitMap`, proofs `WaitTableProofs` |
| epoll poller, with parking, waking and forgetting descriptors | `src/poller_epoll.c`, `src/worker.c` | `EpollPoller`, proofs `EpollPollerProofs` |
| kqueue poller, likewise | `src/poller_kqueue.c`, `src/worker.c` | `KqueuePoller`, proofs `KqueuePollerProofs` |
| life cycle: init, run, shutdown, spawn and every allocation | `src/runtime.c`, `src/worker.c` | `Runtime`, proofs `RuntimeProofs` |
| registers and stacks across a context switch | `src/arch/*.c`, `src/worker.c` | `ContextSwitch`, proofs in `TaskProofs` |
| stack mappings and their arithmetic | `src/task.c`, `src/arch/*.c` | `StackLayout`, proofs in `TaskProofs` |
| retrying `read`, `write`, `accept` | `src/io.c` | `IoHelpers`, proofs in `WaitTableProofs` |
| channels and select | `src/channel.c` | `Channel`, proofs `ChannelLinkProofs` and `ChannelProofs` |

A module `MC...` and a `.cfg` file instantiate each of them for TLC. `MCTask` does so
for `TaskQueue`, `StackLayout` and `ContextSwitch` together, the three things a task
is made of; they share no variable, and a behaviour is about one of them (`part`).

How the parts interact: all scheduler and channel state is guarded by
`scheduler_mutex`. Workers take tasks from the run queue. One worker at a time
is in the poller (`poller_waiter_active`), the others sleep on `scheduler_cond`.
A task parks by publishing itself (in the wait table or in a channel's queue)
and switching to its worker *with the mutex held*; the worker releases it.
Channel operations wake parked tasks through `worker_wake_task_locked`.

### TaskQueue

The variables are the fields of `struct TaskQueue`, the set of tasks whose
`queued` flag is set, and the out-parameter of the last pop. The actions are
push into a free slot, push with growth, pop, and deinit. Pushing a queued
task, pushing when memory is short and popping an empty queue change nothing.
`FifoQueue` is what callers rely on; `Contents` maps the ring to it.

### Scheduler

A step is one critical section, or what a thread does between two. `pc` says
where each thread is; the labels are the points of `worker_loop_impl`,
`worker_request_shutdown` and `croutine_runtime_run` at which other threads may
step in:

| label | place |
|---|---|
| `lock`, `woken`, `dispatch` | head of the inner loop: first entry, back from `pthread_cond_wait`, back from the poller with events to deliver |
| `cond`, `poll`, `relock` | asleep on `scheduler_cond`; in `croutine_poller_wait`; back from it without the mutex |
| `running`, `parking` | in application code; switching away with the mutex held |
| `check`, `requeue` | the two critical sections after a switch |
| `fin_lock`, `fin_poke` | the end of the main task: tell the workers, then the poller |
| `chan`, `closing` | inside a channel operation or the shutdown sweep, mutex held |
| `set_main`, `poke` | after shutdown released the mutex: `main_finished`, then the eventfd |

`mutex` is a variable because three things hold it over several steps: a
parking task, an operation that wakes several tasks, and the delivery of events.
`idle_workers` is the set of workers between the increment and the decrement,
signalled or not, as in the code. Which tasks a channel operation wakes is left
open here (any parked ones); `Channel` settles it. Calls that fail or are
refused (spawn after shutdown, a second waiter on a slot, parking after
shutdown) have no effect and are stuttering steps. Thread creation may fail at
any worker, and the main task's spawn may fail.
`pthread_cond_wait` may return spuriously.

External behaviour, modelled from how the code uses it: condition variables
(a signal wakes one sleeper of any choice) and the kernel's readiness, which
comes and goes freely.

`TaskLifecycle` is the abstract view: unborn, ready, running, parked, dead, with
FIFO dispatch. A task that finished or yielded counts as running until its
worker has dealt with it.

### Channel

Every operation runs under the mutex, so it is one step, or two when it parks.
A regular send or receive is a call with one case; select is a call with
several. `Fires` is an attempt that succeeds, `Parks` registers waiters,
`NoTransfer` returns without a transfer (closed, `try_*`, default arm, caller
that is not a task). The shuffled order of select is the choice of the case that
fires and of the blocked cases tried before it; trying a blocked case drops the
dead waiters it meets. `Resume` is what the operation does after it was woken.
A value is `<<sender, number>>`, so loss, duplication and reordering are visible.
`accepted` and `received` are ghost variables.

The path where parking fails after the waiter was linked cannot be taken:
`try_send_locked`/`try_recv_locked` read `shutdown_requested` in the same
critical section and report closed.

### WaitTable

`io_waits` is `struct IoWaitTable`: an array of entries searched from its start,
its capacity and its count. `worker_park_current_on_io` takes an entry (a free
one, or the first of the part a growth added), tells the poller all events that are
now waited for there, and undoes the entry when the poller refuses; waking and forgetting clear slots
and free empty entries; `worker_deinit` frees what is left. Tasks and descriptors
are model values, so TLC uses symmetry. `WaitMap` is what the rest of the code
relies on, a function from descriptor and event to task; `EpollPoller`,
`KqueuePoller` and `Scheduler` are written over that function, and
`ImplementsMap` justifies it.

### EpollPoller and KqueuePoller

Both compose four things: the wait slots of `worker.c`, the poller's own tables,
the kernel object (external, from its documented behaviour), and a program that
opens files, calls `croutine_io_forget_fd`, closes, and opens the number again.
What `worker.c` does is under `scheduler_mutex` and one step. The worker in the
poller takes four steps: it releases the mutex, the system call returns, the
batch is filtered or translated, the events are delivered under the mutex. The
program may act in between.

`EpollPoller` has `fd_generations` and `fd_registered` with their growing table,
tokens, level-triggered readiness reported in the order of the ready list, at
most `MaxEvents` at a time, and the eventfd. `KqueuePoller` has a filter per
direction, edges that are reported once (`EV_CLEAR`), merging of two filters of one
descriptor, and the wake pipe, which can be full. The roll-back of a change of which
one filter failed is translated in `croutine_poller_set`, but nothing needs it: a task
parks for one event, so a change adds at most one filter, and removals do not fail. Registration may fail wherever the kernel may refuse;
`RegistrationsMatchWaits` and `FiltersMatchWaits` include that a removal never
fails, which would make `worker_fail` abort the process.

Abstractions: `EPOLLPRI` and `EPOLLRDHUP` behave as `EPOLLIN`, `EPOLLERR` as
`EPOLLHUP`; the poke after a forget may happen at once or be taken for a later
one. In `EpollPoller` the number of the `file` travels with an event, as history,
and `newer` has the tasks that began to wait after the batch was checked.

### Runtime

One thread makes the life-cycle calls in any order and as often as it likes;
others, and the tasks, spawn and request shutdown at any time. `storage` and
`owned` say what is allocated: queue, table and poller, and of each task the
structure, the stack and the argument. Every allocation, and the creation of each
worker thread, may fail. `croutine_runtime_run` and `worker_spawn` are cut where
another thread may step in. How workers sleep and are woken is left to
`Scheduler`.

### ContextSwitch

A switch is a saving and a loading step. The registers are the stack pointer, the
callee-saved registers as one, and the floating-point control words; tasks set
the last two to any value. The protocol of `worker.c` around it decides when
another worker may resume the task: a yielding task is queued by its worker after
the switch, a parking one is published before it, with the mutex held until the
worker is back on its own stack. `left` is a history variable. `Coroutines` are the
tasks.

### StackLayout

Addresses and sizes wrap at `SizeMod`. The steps are the system calls of
`create_stack`, the copy of the argument, `task_cleanup` and reuse, for several
tasks at once; each call may fail. `mmap` (external) returns any free range that
does not end at the top of the address space. Both reserves of `create_context`
(128 bytes on x86_64, none on aarch64) are tried.

### IoHelpers

The loops of `croutine_read`, `_write` and `_accept`, and
`croutine_fd_set_nonblocking`, by several tasks for one descriptor. `errno` is per
worker thread, a resumed task continues on any worker, and the runtime changes
`errno` on its own. `set_errno` and `current_errno` are the non-inlined helpers of
the code: they use the thread of the moment, and the mutant uses the thread the
call began on. `cause` is a history variable.

## Runs

| run | instance | checks |
|---|---|---|
| `task` | queue of 4 tasks, initial capacity 1, 2 or 3 | `ImplementsFifo`, `QueuedFlagExact` |
| | 3 stacks, 96 bytes of 8-byte pages, every size that does not wrap | `StackIsOwn`, `NothingLeaks`, `UsableAsConfigured` |
| | registers of 2 workers and 2 tasks, 2 values | `OneThreadPerStack`, `SchedulerUndisturbed`, `ResumesWhatItLeft` |
| `stack_size_wraps` | 1 stack, the same with every size | `UsableAsConfigured`, violated |
| `scheduler_safety` | 2 workers, 2 tasks, 1 outside thread, 1 descriptor | `TaskInOnePlace`, `SleepersHavePoller`, `NoLostWakeup`, `ShutdownCancelsChannelWaits`, `NoLeak`, `ImplementsLifecycle` |
| `scheduler_live` | 2 workers, 2 tasks, 1 descriptor to read from, fair | `StopLeadsToReturn`, `QueuedTaskRuns`, `ReadyIoIsDelivered` |
| `scheduler_idle` | 2 workers, 2 tasks, 1 outside thread | `PollerWokenWhenNoneIdle`, violated |
| `channel_ops` | 3 tasks, one unbuffered and one two-slot channel, one value per task, four select shapes | `FifoNoLossNoDuplicate`, `WaitsAreJustified`, `NoDanglingWaiter`, `ParkedTaskIsLinked`, `ResultMatchesTransfer`, `ClosedAcceptsNothing` |
| `wait_table` | 4 descriptors, 4 tasks, initial capacity 1 | `ImplementsMap`, `TableShape`, `PollerKnowsWaits` |
| `epoll_poller` | 1 descriptor reused twice, 2 tasks, batches of 1, table of 1, generations mod 8, fair | `RegistrationsMatchWaits`, `ToldOfOwnFile`, `ReadyWaitIsServed` |
| `epoll_reuse` | 1 descriptor reused once, 1 task, fair | `ForgetPreventsStaleReadiness`, violated |
| `kqueue_poller` | 1 descriptor reused twice, 2 tasks, batches of 2, pipe of 2, fair | `FiltersMatchWaits`, `EdgeNotLost`, `ReadyWaitIsServed` |
| `runtime` | owner, 2 threads, 2 workers, main task and 2 others | `InitAllOrNothing`, `WorkersOutlivedByStorage`, `ShutdownFreesAll`, `MemoryFollowsTasks`, `ShutdownIsFinal` |
| `io_helpers` | 2 tasks, 2 workers, write, accept and set-nonblocking, fair | `ErrnoTellsCause`, `AcceptedReturnedOrClosed`, `CallReturns` |

Every module has a type invariant (`TypeOK`, or `StackTypeOK`, `ContextTypeOK` and
`IoTypeOK`, as the proofs about these modules share a module with others). They are proved (see below), that of
`EpollPoller` but for the ready list, whose order no safety property depends on;
they describe the variables and are not counted among the properties.

Why the bounds are enough for the cases of interest. Two workers are the least
with one in the poller and one on the condition variable, or with one resuming a
task the other is still leaving. An outside thread lets wakes and spawns happen
while all workers sleep. One descriptor has two slots, so a reader and a writer
are woken together. Four tasks and capacities up to three make the ring grow
full, wrapped and more than once. Three tasks on a channel allow a waiting
sender behind a full buffer, two waiters competing for one transfer, and a
select whose cases are served by different tasks; their three values wrap a
two-slot buffer. `MaxSends` bounds the values a task sends;
nothing else there is bounded by a guard. A task is spawned once.

A wait table of one entry grows twice for four descriptors and has holes in
between. A descriptor number is reused (`MaxFiles`) up to twice, so a batch may be
old by two files; `MaxRegistrations` bounds how often it is registered while one
batch is unfiltered, below half of `GenerationMod`, as 2^31 registrations are out
of reach of the program, and generations do wrap. A batch of one, for which the
eventfd competes, and one of two, for which two filters and the wake pipe compete,
leave something for the next wait. A pipe of two bytes gets full. Waiting for both
events of a descriptor is in `scheduler_safety`; `scheduler_live` has one of them
(`WaitFor`), which is enough for a task that waits while another keeps the queue
busy. In `task` three mappings leave the address space full and
fragmented, and the sizes are below, at and above page multiples and the least
one. In `io_helpers`, `croutine_read` is left out: it is the loop of
`croutine_accept` without what follows a success.

Deadlock is checked for the scheduler: the only state without a further step to
take is the return of `croutine_run`. It is checked for the pollers, the runtime,
the context switch, the stacks and the I/O helpers too, where some call is always
possible. It is not checked for the queue, the channels and the wait table, where
callers may simply stop calling, or all wait, and deinit is the end.

### Fairness

`scheduler_live` assumes: a worker that can again and again take the mutex does so
in the end (strong fairness of its steps); a running task yields, parks or returns
in the end (cooperative scheduling); a call that has begun goes on; the thread in
`croutine_run` goes on. Nothing is assumed of the kernel, of spurious wakeups or
of the calls the application makes.

`epoll_poller` and `kqueue_poller` assume that some worker polls again and again
(`PollStep`, weakly fair); `ReadyIoIsDelivered` of `scheduler_live` rests on the
worker loop doing so.

`io_helpers` assumes that the code goes on, that a system call on a ready descriptor
is not interrupted for ever, and that a task whose readiness lasts is woken, which
is what `ReadyWaitIsServed` says of the pollers.

### What was found

`scheduler_idle`: `worker_wake_task_locked` means to wake the poller "when no
worker is idle" (`src/worker.c:712-713`), but `idle_workers` counts a worker
that has been signalled and has not run yet. When one critical section wakes two
tasks and one worker is idle, the eventfd is not written for the second task. It
waits in the queue, with a worker asleep in the poller, until the first task
gives its worker back. No wakeup is lost for good: `NoLostWakeup` and
`QueuedTaskRuns` hold.

`epoll_reuse`: `docs/API.md:27-29` says that `croutine_io_forget_fd` prevents
"descriptor-number reuse from delivering stale readiness". The epoll poller compares
generations, but returns plain numbers, and the worker takes `scheduler_mutex` only
afterwards (`src/worker.c:521`). A descriptor that is forgotten, closed, opened again
and waited on in this window gets the old readiness. `ToldOfOwnFile` says how far the
promise does hold, for waits that began before the comparison (`newer` are the
others). The effect is one wait that returns READY too early; callers that retry after
`EAGAIN`, as the documentation asks and `src/io.c` does, see nothing of it. The kqueue
poller has no generations, so there the same window begins when `kevent` returns.

`stack_size_wraps`: `docs/API.md:7-8` says that the usable stack size is "selected with
`croutine_runtime_config`", and `croutine_runtime_init` has no upper limit for it. Within
a page of `SIZE_MAX`, `align_up` wraps to 0 (`src/task.c:18-20`) and the mapping is the
guard page alone, so the spawn goes on with a stack of which no byte is accessible, where
other impossible sizes make `mmap`, and so the spawn, fail cleanly. `task` is about the
sizes that do not wrap (`UnwrappedSizes`).

## Proofs

`TaskProofs` has three parts. The first is about the run queue (`TaskQueue`), for any
set of tasks and any positive initial capacity:

- `QueueInvariant`: `TypeOK`, `RingShape` and `QueuedFlagExact` together are
  inductive. Each needs the others: that a push does not duplicate a task needs
  the exact flag, and that the flag is exact after a pop needs the tasks in the
  ring to be distinct.
- `RingImplementsFifo`: the ring implements `FifoQueue`. The lemmas say what
  each operation does to `Contents`: `PushFitsAppends`, `PushGrowsAppends` and
  `PopTakesHead`.

Assumption: `QueueAssumption` (NULL is no task, capacities are positive).

The second is about the stacks (`StackLayout`), for any set of tasks, any page size
that divides the address space and any alignment that divides the page size:

- `StackInvariant`: `StackInv` is inductive. The tasks between mapping and clean-up
  have ranges of whole pages that do not overlap, with stack, size and stack pointer
  as `create_stack` and `worker_spawn` computed them (`Mappings`); the mapped and the
  guarded pages are exactly theirs (`Owned`), and as many (`Counted`). That
  `destroy_stack` finds the beginning of the mapping again, and its whole length,
  follows from `Mappings`, with wrapping arithmetic.
- `StacksDoNotLeak`, for every configured size, also those for which `align_up` or
  the size of the mapping wraps.
- `TasksHaveOwnStacks` and `StacksAreAsConfigured`, for sizes for which `align_up`
  does not wrap (`SizesFit`, the sizes of the run). For the others they are false, see
  "What was found".

Assumption: `StackAssumption` (pages divide the address space and are multiples of the
alignment; the least stack has room for what `create_context` reserves).

The third is about the registers (`ContextSwitch`), for any sets of workers, tasks and
register values:

- `ContextInvariant`: `ContextInv` is inductive. `OneThreadPerStack` needs where
  every task is (`Placement`), that a worker's stack pointer agrees with its
  place (`WorkerState`) and that a task's saved context is what it left
  (`ContextsExact`).
- `StackHasOneThread`, `SchedulerIsUndisturbed` and `TaskResumesWhatItLeft`.

Assumption: `ContextAssumption` (workers and tasks are distinct, NULL is no task,
"free" is no worker, 0 is a register value).

`SchedulerProofs`, for any sets of workers, tasks, threads and descriptors:

- `SchedulerInvariant`: `SchedInv` is inductive. It adds to the properties that
  a worker in application code has a task (`HasTask`, needed for the types of the
  queue), that the mutex belongs to the thread inside a critical section
  (`MutexHeld`), that the poller is unique (`OnePoller`), and that after shutdown
  only a thread still sweeping can see a task parked on a channel
  (`ShutdownCancels`).
- `TypeCorrect`, `PollerIsExclusive`, `SleepersAlwaysHavePoller` and
  `ShutdownLeavesNoChannelWait` follow.

The argument: in every step one thread moves to a new label and some sleepers
may wake (`MovesTo`). `Step` collects what such a move must respect with regard
to the mutex, the workers' tasks, the poller flag and the cancelled waits;
`StepKeepsInv` shows that this is enough, and each action is shown to respect it.

For the tasks, building on it:

- `PlaceInvariant`: `PlaceInv` is inductive with `SchedInv`. What a task's state
  says agrees with where the task is: every worker outside its loop holds a task
  whose state fits the worker's place (`TasksFitWorkers`), the queue holds runnable
  tasks that no worker holds (`QueueIsRunnable`), the wait table holds waiting
  tasks once (`SlotsAreWaits`), and a task is found where its state says
  (`Findable`). `TasksAreInOnePlace` follows.
- `RunInvariant`: `RunInv` follows `croutine_run` to its end. All workers have
  stopped before tasks are freed, and a stopped worker holds none, by `PlaceInv`;
  so `NoTaskIsLeaked`.
- `WakeInvariant`: `WakeInv` names who owes a wakeup. With tasks queued or
  shutdown requested, and a worker blocked in the poller, the eventfd is set, or
  some thread is at a place from which it will set it or take a task. Each action
  keeps its duty, does it or passes it on (`DutyKept`). `NoWakeupIsLost` follows.
- `SchedulerImplementsLifecycle`: every step is a step of `TaskLifecycle` for one
  task or for the tasks it wakes together, or none.

Assumption: `SchedulerAssumption` (the kinds of threads are distinct, the main
task is a task, NULL and "nobody" are neither; tasks wait for reading and writing
or for some of it).

`ChannelLinkProofs`, which has the lemmas about the wait queues, and `ChannelProofs`,
for any sets of tasks and channels, any capacities (0 included) and any select calls:

- `ChannelInvariant`: `ChannelInv` is inductive. It has three parts, proved one
  after the other. `LinkInv` is about the wait queues: a linked waiter belongs to
  the call its task is in (`WaitersLinked`), a parked task has a waiter for each of
  its cases (`ParkedLinked`), closed channels and those of a runtime that shut down
  have no waiters (`Drained`), the registry has exactly the live channels
  (`Registered`), and `done` is set only for selects that were completed and have
  not resumed (`DoneIsWoken`). That the loser cases of a select, which stay linked
  until the task resumes, are harmless rests on the last one.
  `BufferInv` says that what was handed over and the buffer are what was accepted;
  it needs that a live sender waits at a full buffer and a live receiver at an
  empty one, as otherwise a value handed to a waiter would overtake those in the
  buffer. `ResultInv` says that a woken task was told what happened; that "sent"
  is said to nobody whose value was not accepted needs every accepted value to be
  used up or to belong to such a task (`AcceptedIsUsed`).
- `ChannelTypes`, `ChannelDeliversInOrder`, `ChannelWaitsAreJustified`,
  `ChannelNoDanglingWaiter`, `ChannelParkedIsLinked`, `ChannelResultMatches` and
  `ChannelClosedAcceptsNothing` follow.

The lemmas say what `pop_live_waiter_locked` returns and leaves, what a completed
waiter changes, what push and pop do to `Contents`, and, for the steps that change
many waiters at once (close, shutdown, the unlinking of a resuming select), that the
queues they leave have the waiters they should and in the same order.

Assumption: `ChannelAssumption` (capacities are natural numbers, NULL is no channel,
a select call is a sequence of cases).

`EpollPollerProofs`, for any sets of descriptors and tasks, any batch size and any
initial capacity of the table:

- `EpollInvariant`: `EpollInv` is inductive. `RegistrationsMatchWaits` is part of
  it; that closing a descriptor takes nothing from a waiting task needs
  `ClosingIsIdle` (nobody waits for a descriptor between forgetting and closing it),
  and that the table grows enough needs that doubling reaches every number. For `ToldOfOwnFile`, `BatchInv` counts how often
  the generation of a descriptor has advanced since `epoll_wait` stored its entry:
  at most once for each registration and removal since. If it advanced 0 times the
  entry is of the present file; if it advanced less often than generations
  wrap, the filter drops the entry. `EventsInv` carries this to the delivery, for
  the tasks that waited at the filter.
- `EpollRegistrationsMatchWaits` and `EpollToldOfOwnFile` follow.

Assumption: `EpollAssumption`. The one that matters is that a descriptor is
registered less than half of 2^32 times while a batch is unfiltered
(`2 * MaxRegistrations + 1 < GenerationMod`): more often, and an old generation could
be current again.

`KqueuePollerProofs`, for any sets of descriptors and tasks, any batch and pipe size:

- `KqueueInvariant`: `KqueueInv` is inductive. `FiltersMatchWaits` needs that
  a change adds at most one filter, and leaves all as they were when the kernel refuses
  it. That the
  bytes in the pipe have an edge when a worker is in `kevent` needs to know where
  that edge is in between, and that a batch and events exist only between the steps
  that fill and empty them (`WorkerInv`).
- `KqueueFiltersMatchWaits` and `KqueueEdgeNotLost` follow.

Assumption: `KqueueAssumption` (the read end of the pipe is no other descriptor, NULL
no task, batch and pipe have room for something).

`WaitTableProofs`, for any sets of descriptors and tasks and any capacity:

- `WaitInvariant`: `WaitInv` is inductive. `TableShape` alone is not: that
  removing an entry leaves the count exact needs distinct descriptors, and that
  no empty entry stays needs to know that a waiting task is in one slot only
  (`Parked`).
- `TableKeepsShape`, `TasksParkOnce` and `PollerIsTold` follow, and
  `TableImplementsMap`: the array implements `WaitMap`. The lemmas say what
  finding, inserting, growing and removing an entry do to the map `Waits`.

Assumption: `WaitTableAssumption` (-1 is no descriptor, NULL no task).

Its last part is about the I/O helpers, for any sets of workers and tasks:

- `IoInvariant`: `IoInv` is inductive. A task in a call has its worker to itself
  (`OnWorker`), so nobody else changes the `errno` it is about to read. The error to
  report is in that `errno`, or in the variable `error` while the accepted
  descriptor is closed (`CauseKept`); `AcceptedKept` says where that descriptor is.
- `ErrnoIsTheCause` and `AcceptLeaksNothing` follow.

Assumption: `IoAssumption` of `IoHelpers` ("nowhere" is no worker).

`RuntimeProofs`, for any sets of threads and tasks and any finite set of workers:

- `RuntimeInvariant`: `RuntimeInv` is inductive. It says which calls an actor may
  be in (`Places`), what follows for the flags and the storage (`LifeCycle`),
  that nothing is queued or running once `worker_deinit` frees things
  (`Stopping`), that a task is made by one actor (`Spawners`), and who owns it
  (`Ownership`).
- `StorageOutlivesWorkers`, `ShutdownFreesEverything`, `TasksAreOwned`,
  `InitIsAtomic` and `ShutdownStays` follow.

Assumption: `RuntimeAssumption` (the kinds of threads are distinct, there are
finitely many workers and at least one, the main task is a task, NULL is not).

### What is only model-checked

Liveness under fairness, and with it ENABLED, is out of the proof system's reach:
`StopLeadsToReturn`, `QueuedTaskRuns`, `ReadyIoIsDelivered`, `ReadyWaitIsServed` of
both pollers, and `CallReturns`. So are RECURSIVE operators, of which the project has
none, and the induction theorems of the library, which take the induction hypothesis
as an operator. Where a proof needs induction over numbers (that a table
doubles until it is large enough, that the recursive function behind `Keep` exists
and what it keeps, that a queue has a first live waiter), it uses that every non-empty set of natural
numbers has a least element (`Least`, `UpTo`), with the hypothesis as a set.

Every other property of a passing run is stated by a theorem.

## Not modelled

- The stub poller (every function fails), exit codes, sanitizer hooks, the number
  of online CPUs: no state that a property is about.
- `get_task_body` and `get_task_arg`, which read callee-saved registers in the
  entry point: right or wrong by what the compiler does between.
- `croutine_runtime_init` with another stack size while a thread is in
  `worker_spawn`, which reads `configured_stack_size` four times without a lock.
  `StackLayout` assumes initialisation before the first spawn.
- A thread outside the runtime that writes the eventfd after `worker_deinit`
  closed it. `WorkersOutlivedByStorage` is about workers and tasks.
- `worker_fail`: it aborts the process.

## Plan

1. `croutine_runtime_init` again while other threads spawn: `StackLayout` with a
   configured size that changes.
2. A proof of `ToldOfOwnFile` for several batches, should more than one worker be
   allowed into the poller.
