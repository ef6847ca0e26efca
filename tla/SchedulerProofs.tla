--------------------------- MODULE SchedulerProofs ---------------------------
(***************************************************************************)
(* Proofs about Scheduler, for any number of workers, tasks, threads and   *)
(* descriptors: first about the threads (the mutex, the poller, the        *)
(* sleepers, shutdown), then about the tasks (every task is in exactly one *)
(* place, none is left when croutine_run returns, no wakeup is lost, and   *)
(* the scheduler implements the life cycle of module TaskLifecycle).       *)
(***************************************************************************)
EXTENDS Scheduler, TLAPS

Pc == WorkerPc \cup MainPc \cup UserPc

\* Where a worker is when it has no task.
IdlePc == {"new", "lock", "cond", "woken", "poll", "relock", "dispatch", "exit"}

\* Where a thread is when it holds scheduler_mutex between two steps.
LockedPc == {"dispatch", "parking", "chan", "closing"}

\* A worker that runs application code, or leaves it, has a task.
HasTask == \A w \in Workers : pc[w] \notin IdlePc => task[w] \in Tasks

\* The mutex belongs to the thread that is inside a critical section.
MutexHeld == \A a \in Actors : pc[a] \in LockedPc <=> mutex = a

\* Where a worker is while poller_waiter_active stands for it.
PollPc == {"poll", "relock"}

\* PollerExclusive, with the one poller named by its uniqueness.
OnePoller ==
    /\ \A v, w \in Workers :
          pc[v] \in PollPc /\ pc[w] \in PollPc => v = w
    /\ poller_waiter_active <=> \E w \in Workers : pc[w] \in PollPc

\* After shutdown was requested only the thread that is cancelling the channel
\* waits can still find a task parked on a channel.
ShutdownCancels ==
    shutdown_requested => \/ \E a \in Actors : pc[a] = "closing"
                          \/ \A t \in Tasks : state[t] # "waiting_channel"

SchedInv == /\ TypeOK
            /\ HasTask
            /\ MutexHeld
            /\ OnePoller
            /\ SleepersHavePoller
            /\ ShutdownCancels
-----------------------------------------------------------------------------
\* In a step of thread `a' to `label' the other threads stay where they are,
\* except that workers asleep on scheduler_cond may be woken.
MovesTo(a, label) ==
    /\ pc' \in [Actors -> Pc]
    /\ pc'[a] = label
    /\ \A b \in Actors \ {a} : \/ pc'[b] = pc[b]
                               \/ pc[b] = "cond" /\ pc'[b] = "woken"

LEMMA MoveAt ==
    ASSUME pc \in [Actors -> Pc], NEW a \in Actors, NEW label \in Pc,
           pc' = At(a, label)
    PROVE  MovesTo(a, label)
  BY DEF At, MovesTo

LEMMA MoveSignal ==
    ASSUME pc \in [Actors -> Pc], NEW a \in Actors, NEW label \in Pc,
           label # "cond", pc' \in Signal(At(a, label))
    PROVE  MovesTo(a, label)
  <1>1. At(a, label) \in [Actors -> Pc] /\ "woken" \in Pc
    BY DEF At, Pc, WorkerPc
  <1>2. CASE pc' = At(a, label)
    BY <1>2, MoveAt
  <1>3. ASSUME NEW w \in Workers, At(a, label)[w] = "cond",
               pc' = [At(a, label) EXCEPT ![w] = "woken"]
        PROVE  MovesTo(a, label)
    <2>1. w \in Actors /\ w # a
      BY <1>3 DEF Actors, At
    <2> QED
      BY <1>1, <1>3, <2>1 DEF At, MovesTo
  <1> QED
    BY <1>2, <1>3 DEF Signal

LEMMA MoveBroadcast ==
    ASSUME pc \in [Actors -> Pc], NEW a \in Actors, NEW label \in Pc,
           label # "cond", pc' = Broadcast(At(a, label))
    PROVE  MovesTo(a, label) /\ \A b \in Actors : pc'[b] # "cond"
  <1>1. At(a, label) \in [Actors -> Pc] /\ "woken" \in Pc
    BY DEF At, Pc, WorkerPc
  <1> QED
    BY <1>1 DEF At, Broadcast, MovesTo
-----------------------------------------------------------------------------
(***************************************************************************)
(* What a step of thread `a' to `label' must respect: the mutex, the       *)
(* workers' tasks, the poller's flag and the cancelled channel waits.      *)
(* Every action does, and that is enough for the invariant.                *)
(***************************************************************************)
MutexStep(a, label) ==
    /\ label \in LockedPc => mutex \in {a, Free}
    /\ mutex' = IF label \in LockedPc THEN a
                ELSE IF mutex = a THEN Free ELSE mutex

TaskStep(a, label) ==
    \A w \in Workers : \/ w # a /\ task'[w] = task[w]
                       \/ w = a /\ (label \in IdlePc \/ task'[w] \in Tasks)

PollerStep(a, label) ==
    \/ /\ poller_waiter_active' = poller_waiter_active
       /\ a \in Workers => (pc[a] \in PollPc <=> label \in PollPc)
       /\ label = "cond" => poller_waiter_active
    \/ /\ label = "poll" /\ a \in Workers
       /\ ~ poller_waiter_active /\ poller_waiter_active' = TRUE
    \/ /\ pc[a] \in PollPc /\ label \notin PollPc /\ a \in Workers
       /\ poller_waiter_active' = FALSE
       /\ \A b \in Actors : pc'[b] # "cond"

CancelStep(a, label) ==
    \/ /\ shutdown_requested' = shutdown_requested
       /\ pc[a] = "closing" => label = "closing"
       /\ \A t \in Tasks : state'[t] = "waiting_channel" =>
                              state[t] = "waiting_channel"
    \/ shutdown_requested' = FALSE
    \/ label = "closing"
    \/ \A t \in Tasks : state'[t] # "waiting_channel"

Step(a, label) == /\ MovesTo(a, label)
                  /\ MutexStep(a, label)
                  /\ TaskStep(a, label)
                  /\ PollerStep(a, label)
                  /\ CancelStep(a, label)

LEMMA StepKeepsInv ==
    ASSUME SchedInv, NEW a \in Actors, NEW label \in Pc, Step(a, label), TypeOK'
    PROVE  SchedInv'
  <1>1. HasTask'
    BY DEF Step, MovesTo, TaskStep, SchedInv, HasTask, IdlePc, Actors
  <1>2. MutexHeld'
    <2>1. \A b \in Actors \ {a} : pc'[b] \in LockedPc <=> pc[b] \in LockedPc
      BY DEF Step, MovesTo, LockedPc
    <2>2. pc'[a] = label /\ MutexStep(a, label) /\ MutexHeld
      BY DEF Step, MovesTo, SchedInv
    <2> QED
      BY <2>1, <2>2, SchedulerAssumption DEF MutexHeld, MutexStep
  <1>3. \A b \in Actors \ {a} : pc'[b] \in PollPc <=> pc[b] \in PollPc
    BY DEF Step, MovesTo, PollPc
  <1>4. /\ pc'[a] = label /\ PollerStep(a, label)
        /\ OnePoller /\ SleepersHavePoller /\ Workers \subseteq Actors
    BY DEF Step, MovesTo, SchedInv, Actors
  <1>5. OnePoller'
    BY <1>3, <1>4 DEF OnePoller, PollerStep, PollPc
  <1>6. SleepersHavePoller'
    <2>1. \A b \in Actors \ {a} : pc'[b] = "cond" => pc[b] = "cond"
      BY DEF Step, MovesTo
    <2> QED
      BY <1>4, <2>1 DEF SleepersHavePoller, PollerStep
  <1>7. ShutdownCancels'
    <2>1. \A b \in Actors \ {a} : pc[b] = "closing" => pc'[b] = "closing"
      BY DEF Step, MovesTo
    <2> QED
      BY <1>4, <2>1 DEF Step, CancelStep, SchedInv, ShutdownCancels
  <1> QED
    BY <1>1, <1>2, <1>5, <1>6, <1>7 DEF SchedInv

\* task_queue_push keeps the run queue a sequence of tasks.
LEMMA PushType ==
    ASSUME NEW q \in Seq(Tasks), NEW t \in Tasks
    PROVE  Push(q, t) \in Seq(Tasks)
  BY DEF Push

\* The decisions at the head of the worker loop.
LEMMA LoopKeepsInv ==
    ASSUME SchedInv, NEW a \in Workers, Loop(a)
    PROVE  SchedInv'
  <1>0. /\ TypeOK /\ HasTask /\ MutexHeld
        /\ a \in Actors /\ pc \in [Actors -> Pc]
    BY DEF SchedInv, TypeOK, Pc, Actors
  <1>1. CASE LoopExit(a)
    <2> DEFINE label == "exit"
    <2>1. label \in Pc
      BY DEF Pc, WorkerPc, MainPc, UserPc
    <2>2. MovesTo(a, label)
      BY <1>0, <1>1, <2>1, MoveAt DEF LoopExit
    <2>3. TypeOK'
      BY <1>0, <1>1, <2>2 DEF LoopExit, TypeOK, MovesTo, Pc, schedVars,
          pollVars, ioVars, stopVars
    <2>4. /\ MutexStep(a, label) /\ TaskStep(a, label)
          /\ PollerStep(a, label) /\ CancelStep(a, label)
      BY <1>0, <1>1, <2>2, SchedulerAssumption DEF LoopExit, AtLoopHead,
          schedVars, pollVars, ioVars, stopVars, MutexStep, TaskStep,
          PollerStep, CancelStep, TypeOK, HasTask, MutexHeld, LockedPc, IdlePc,
          PollPc
    <2> QED
      BY <1>0, <2>1, <2>2, <2>3, <2>4, StepKeepsInv DEF Step
  <1>2. CASE LoopBeginPoll(a)
    <2> DEFINE label == "poll"
    <2>1. label \in Pc
      BY DEF Pc, WorkerPc, MainPc, UserPc
    <2>2. MovesTo(a, label)
      BY <1>0, <1>2, <2>1, MoveAt DEF LoopBeginPoll
    <2>3. TypeOK'
      BY <1>0, <1>2, <2>2 DEF LoopBeginPoll, TypeOK, MovesTo, Pc, schedVars,
          pollVars, ioVars, stopVars
    <2>4. /\ MutexStep(a, label) /\ TaskStep(a, label)
          /\ PollerStep(a, label) /\ CancelStep(a, label)
      BY <1>0, <1>2, <2>2, SchedulerAssumption DEF LoopBeginPoll, AtLoopHead,
          WantsPoll, schedVars, pollVars, ioVars, stopVars, MutexStep, TaskStep,
          PollerStep, CancelStep, TypeOK, HasTask, MutexHeld, LockedPc, IdlePc,
          PollPc
    <2> QED
      BY <1>0, <2>1, <2>2, <2>3, <2>4, StepKeepsInv DEF Step
  <1>3. CASE LoopPop(a)
    <2> DEFINE label == "running"
    <2>1. label \in Pc
      BY DEF Pc, WorkerPc, MainPc, UserPc
    <2>2. MovesTo(a, label)
      BY <1>0, <1>3, <2>1, MoveAt DEF LoopPop
    <2>3. TypeOK'
      BY <1>0, <1>3, <2>2 DEF LoopPop, TypeOK, MovesTo, Pc, schedVars, pollVars,
          ioVars, stopVars
    <2>4. /\ MutexStep(a, label) /\ TaskStep(a, label)
          /\ PollerStep(a, label) /\ CancelStep(a, label)
      BY <1>0, <1>3, <2>2, SchedulerAssumption DEF LoopPop, AtLoopHead,
          schedVars, pollVars, ioVars, stopVars, MutexStep, TaskStep,
          PollerStep, CancelStep, TypeOK, HasTask, MutexHeld, LockedPc, IdlePc,
          PollPc
    <2> QED
      BY <1>0, <2>1, <2>2, <2>3, <2>4, StepKeepsInv DEF Step
  <1>4. CASE LoopCondWait(a)
    <2> DEFINE label == "cond"
    <2>1. label \in Pc
      BY DEF Pc, WorkerPc, MainPc, UserPc
    <2>2. MovesTo(a, label)
      BY <1>0, <1>4, <2>1, MoveAt DEF LoopCondWait
    <2>3. TypeOK'
      BY <1>0, <1>4, <2>2 DEF LoopCondWait, TypeOK, MovesTo, Pc, CheckedIo,
          schedVars, pollVars, ioVars, stopVars
    <2>4. /\ MutexStep(a, label) /\ TaskStep(a, label)
          /\ PollerStep(a, label) /\ CancelStep(a, label)
      BY <1>0, <1>4, <2>2, SchedulerAssumption DEF LoopCondWait, AtLoopHead,
          WantsPoll, schedVars, pollVars, ioVars, stopVars, MutexStep, TaskStep,
          PollerStep, CancelStep, TypeOK, HasTask, MutexHeld, LockedPc, IdlePc,
          PollPc
    <2> QED
      BY <1>0, <2>1, <2>2, <2>3, <2>4, StepKeepsInv DEF Step
  <1> QED
    BY <1>1, <1>2, <1>3, <1>4 DEF Loop

\* The poller worker comes back and takes the mutex; a sleeper wakes by itself.
LEMMA PollKeepsInv ==
    ASSUME SchedInv, NEW a \in Workers, PollReturn(a) \/ PollRelock(a) \/ SpuriousWakeup(a)
    PROVE  SchedInv'
  <1>0. /\ TypeOK /\ HasTask /\ MutexHeld
        /\ a \in Actors /\ pc \in [Actors -> Pc]
    BY DEF SchedInv, TypeOK, Pc, Actors
  <1>1. CASE PollReturn(a)
    <2> DEFINE label == "relock"
    <2>1. label \in Pc
      BY DEF Pc, WorkerPc, MainPc, UserPc
    <2>2. MovesTo(a, label)
      BY <1>0, <1>1, <2>1, MoveAt DEF PollReturn
    <2>3. TypeOK'
      BY <1>0, <1>1, <2>2 DEF PollReturn, TypeOK, MovesTo, Pc, schedVars,
          pollVars, ioVars, stopVars
    <2>4. /\ MutexStep(a, label) /\ TaskStep(a, label)
          /\ PollerStep(a, label) /\ CancelStep(a, label)
      BY <1>0, <1>1, <2>2, SchedulerAssumption DEF PollReturn, schedVars,
          pollVars, ioVars, stopVars, MutexStep, TaskStep, PollerStep,
          CancelStep, TypeOK, HasTask, MutexHeld, LockedPc, IdlePc, PollPc
    <2> QED
      BY <1>0, <2>1, <2>2, <2>3, <2>4, StepKeepsInv DEF Step
  <1>2. CASE PollRelock(a)
    <2> DEFINE label == IF Stop THEN "exit" ELSE "dispatch"
    <2>1. label \in Pc /\ label # "cond"
      BY DEF Pc, WorkerPc, MainPc, UserPc
    <2>2. MovesTo(a, label) /\ \A b \in Actors : pc'[b] # "cond"
      BY <1>0, <1>2, <2>1, MoveBroadcast DEF PollRelock
    <2>3. TypeOK'
      BY <1>0, <1>2, <2>2 DEF PollRelock, TypeOK, MovesTo, Pc, schedVars,
          pollVars, ioVars, stopVars
    <2>4. /\ MutexStep(a, label) /\ TaskStep(a, label)
          /\ PollerStep(a, label) /\ CancelStep(a, label)
      BY <1>0, <1>2, <2>2, SchedulerAssumption DEF PollRelock, schedVars,
          pollVars, ioVars, stopVars, MutexStep, TaskStep, PollerStep,
          CancelStep, TypeOK, HasTask, MutexHeld, LockedPc, IdlePc, PollPc
    <2> QED
      BY <1>0, <2>1, <2>2, <2>3, <2>4, StepKeepsInv DEF Step
  <1>3. CASE SpuriousWakeup(a)
    <2> DEFINE label == "woken"
    <2>1. label \in Pc
      BY DEF Pc, WorkerPc, MainPc, UserPc
    <2>2. MovesTo(a, label)
      BY <1>0, <1>3, <2>1, MoveAt DEF SpuriousWakeup
    <2>3. TypeOK'
      BY <1>0, <1>3, <2>2 DEF SpuriousWakeup, TypeOK, MovesTo, Pc, schedVars,
          pollVars, ioVars, stopVars
    <2>4. /\ MutexStep(a, label) /\ TaskStep(a, label)
          /\ PollerStep(a, label) /\ CancelStep(a, label)
      BY <1>0, <1>3, <2>2, SchedulerAssumption DEF SpuriousWakeup, schedVars,
          pollVars, ioVars, stopVars, MutexStep, TaskStep, PollerStep,
          CancelStep, TypeOK, HasTask, MutexHeld, LockedPc, IdlePc, PollPc
    <2> QED
      BY <1>0, <2>1, <2>2, <2>3, <2>4, StepKeepsInv DEF Step
  <1> QED
    BY <1>1, <1>2, <1>3

\* A task yields, finishes or parks.
LEMMA GiveBackKeepsInv ==
    ASSUME SchedInv, NEW a \in Workers, GiveBack(a)
    PROVE  SchedInv'
  <1>0. /\ TypeOK /\ HasTask /\ MutexHeld
        /\ a \in Actors /\ pc \in [Actors -> Pc]
    BY DEF SchedInv, TypeOK, Pc, Actors
  <1>1. CASE worker_yield(a)
    <2> DEFINE label == "check"
    <2>1. label \in Pc
      BY DEF Pc, WorkerPc, MainPc, UserPc
    <2>2. MovesTo(a, label)
      BY <1>0, <1>1, <2>1, MoveAt DEF worker_yield
    <2>3. TypeOK'
      BY <1>0, <1>1, <2>2 DEF worker_yield, TypeOK, MovesTo, Pc, schedVars,
          pollVars, ioVars, stopVars
    <2>4. /\ MutexStep(a, label) /\ TaskStep(a, label)
          /\ PollerStep(a, label) /\ CancelStep(a, label)
      BY <1>0, <1>1, <2>2, SchedulerAssumption DEF worker_yield, schedVars,
          pollVars, ioVars, stopVars, MutexStep, TaskStep, PollerStep,
          CancelStep, TypeOK, HasTask, MutexHeld, LockedPc, IdlePc, PollPc
    <2> QED
      BY <1>0, <2>1, <2>2, <2>3, <2>4, StepKeepsInv DEF Step
  <1>2. CASE task_finished(a)
    <2> DEFINE label == IF task[a] = Main THEN "fin_lock" ELSE "check"
    <2>1. label \in Pc
      BY DEF Pc, WorkerPc, MainPc, UserPc
    <2>2. MovesTo(a, label)
      BY <1>0, <1>2, <2>1, MoveAt DEF task_finished
    <2>3. TypeOK'
      BY <1>0, <1>2, <2>2 DEF task_finished, TypeOK, MovesTo, Pc, TaskState,
          schedVars, pollVars, ioVars, stopVars
    <2>4. /\ MutexStep(a, label) /\ TaskStep(a, label)
          /\ PollerStep(a, label) /\ CancelStep(a, label)
      BY <1>0, <1>2, <2>2, SchedulerAssumption DEF task_finished, schedVars,
          pollVars, ioVars, stopVars, MutexStep, TaskStep, PollerStep,
          CancelStep, TypeOK, HasTask, MutexHeld, LockedPc, IdlePc, PollPc
    <2> QED
      BY <1>0, <2>1, <2>2, <2>3, <2>4, StepKeepsInv DEF Step
  <1>3. CASE worker_park_current_on_channel_locked(a)
    <2> DEFINE label == "parking"
    <2>1. label \in Pc
      BY DEF Pc, WorkerPc, MainPc, UserPc
    <2>2. MovesTo(a, label)
      BY <1>0, <1>3, <2>1, MoveAt DEF worker_park_current_on_channel_locked
    <2>3. TypeOK'
      BY <1>0, <1>3, <2>2 DEF worker_park_current_on_channel_locked, TypeOK,
          MovesTo, Pc, TaskState, schedVars, pollVars, ioVars, stopVars
    <2>4. /\ MutexStep(a, label) /\ TaskStep(a, label)
          /\ PollerStep(a, label) /\ CancelStep(a, label)
      BY <1>0, <1>3, <2>2, SchedulerAssumption DEF
          worker_park_current_on_channel_locked, schedVars, pollVars, ioVars,
          stopVars, MutexStep, TaskStep, PollerStep, CancelStep, TypeOK,
          HasTask, MutexHeld, LockedPc, IdlePc, PollPc
    <2> QED
      BY <1>0, <2>1, <2>2, <2>3, <2>4, StepKeepsInv DEF Step
  <1>4. ASSUME NEW s \in Slots, worker_park_current_on_io(a, s) PROVE SchedInv'
    <2> DEFINE label == "parking"
    <2>1. label \in Pc
      BY DEF Pc, WorkerPc, MainPc, UserPc
    <2>2. MovesTo(a, label)
      BY <1>0, <1>4, <2>1, MoveAt DEF worker_park_current_on_io
    <2>3. TypeOK'
      BY <1>0, <1>4, <2>2 DEF worker_park_current_on_io, TypeOK, MovesTo, Pc,
          TaskState, schedVars, pollVars, ioVars, stopVars
    <2>4. /\ MutexStep(a, label) /\ TaskStep(a, label)
          /\ PollerStep(a, label) /\ CancelStep(a, label)
      BY <1>0, <1>4, <2>2, SchedulerAssumption DEF worker_park_current_on_io,
          schedVars, pollVars, ioVars, stopVars, MutexStep, TaskStep,
          PollerStep, CancelStep, TypeOK, HasTask, MutexHeld, LockedPc, IdlePc,
          PollPc
    <2> QED
      BY <1>0, <2>1, <2>2, <2>3, <2>4, StepKeepsInv DEF Step
  <1>5. Fds \X WaitFor \subseteq Slots
    BY SchedulerAssumption DEF Slots
  <1> QED
    BY <1>1, <1>2, <1>3, <1>4, <1>5 DEF GiveBack

\* The worker is back on its own stack.
LEMMA HandBackKeepsInv ==
    ASSUME SchedInv, NEW a \in Workers, \/ MainFinishedLocked(a) \/ MainFinishedPoke(a)
           \/ ParkHandback(a) \/ AfterSwitch(a) \/ Requeue(a)
    PROVE  SchedInv'
  <1>0. /\ TypeOK /\ HasTask /\ MutexHeld
        /\ a \in Actors /\ pc \in [Actors -> Pc]
    BY DEF SchedInv, TypeOK, Pc, Actors
  <1>1. CASE MainFinishedLocked(a)
    <2> DEFINE label == "fin_poke"
    <2>1. label \in Pc /\ label # "cond"
      BY DEF Pc, WorkerPc, MainPc, UserPc
    <2>2. MovesTo(a, label) /\ \A b \in Actors : pc'[b] # "cond"
      BY <1>0, <1>1, <2>1, MoveBroadcast DEF MainFinishedLocked
    <2>3. TypeOK'
      BY <1>0, <1>1, <2>2 DEF MainFinishedLocked, TypeOK, MovesTo, Pc,
          schedVars, pollVars, ioVars, stopVars
    <2>4. /\ MutexStep(a, label) /\ TaskStep(a, label)
          /\ PollerStep(a, label) /\ CancelStep(a, label)
      BY <1>0, <1>1, <2>2, SchedulerAssumption DEF MainFinishedLocked,
          schedVars, pollVars, ioVars, stopVars, MutexStep, TaskStep,
          PollerStep, CancelStep, TypeOK, HasTask, MutexHeld, LockedPc, IdlePc,
          PollPc
    <2> QED
      BY <1>0, <2>1, <2>2, <2>3, <2>4, StepKeepsInv DEF Step
  <1>2. CASE MainFinishedPoke(a)
    <2> DEFINE label == "check"
    <2>1. label \in Pc
      BY DEF Pc, WorkerPc, MainPc, UserPc
    <2>2. MovesTo(a, label)
      BY <1>0, <1>2, <2>1, MoveAt DEF MainFinishedPoke
    <2>3. TypeOK'
      BY <1>0, <1>2, <2>2 DEF MainFinishedPoke, TypeOK, MovesTo, Pc,
          croutine_poller_wake, schedVars, pollVars, ioVars, stopVars
    <2>4. /\ MutexStep(a, label) /\ TaskStep(a, label)
          /\ PollerStep(a, label) /\ CancelStep(a, label)
      BY <1>0, <1>2, <2>2, SchedulerAssumption DEF MainFinishedPoke, schedVars,
          pollVars, ioVars, stopVars, MutexStep, TaskStep, PollerStep,
          CancelStep, TypeOK, HasTask, MutexHeld, LockedPc, IdlePc, PollPc
    <2> QED
      BY <1>0, <2>1, <2>2, <2>3, <2>4, StepKeepsInv DEF Step
  <1>3. CASE ParkHandback(a)
    <2> DEFINE label == "lock"
    <2>1. label \in Pc
      BY DEF Pc, WorkerPc, MainPc, UserPc
    <2>2. MovesTo(a, label)
      BY <1>0, <1>3, <2>1, MoveAt DEF ParkHandback
    <2>3. TypeOK'
      BY <1>0, <1>3, <2>2 DEF ParkHandback, TypeOK, MovesTo, Pc, schedVars,
          pollVars, ioVars, stopVars
    <2>4. /\ MutexStep(a, label) /\ TaskStep(a, label)
          /\ PollerStep(a, label) /\ CancelStep(a, label)
      BY <1>0, <1>3, <2>2, SchedulerAssumption DEF ParkHandback, schedVars,
          pollVars, ioVars, stopVars, MutexStep, TaskStep, PollerStep,
          CancelStep, TypeOK, HasTask, MutexHeld, LockedPc, IdlePc, PollPc
    <2> QED
      BY <1>0, <2>1, <2>2, <2>3, <2>4, StepKeepsInv DEF Step
  <1>4. CASE AfterSwitch(a)
    <2> DEFINE label == IF state[task[a]] = "finished" \/ shutdown_requested
                        THEN "lock" ELSE "requeue"
    <2>1. label \in Pc
      BY DEF Pc, WorkerPc, MainPc, UserPc
    <2>2. MovesTo(a, label)
      BY <1>0, <1>4, <2>1, MoveAt DEF AfterSwitch
    <2>3. TypeOK'
      BY <1>0, <1>4, <2>2 DEF AfterSwitch, TypeOK, MovesTo, Pc, TaskState,
          schedVars, pollVars, ioVars, stopVars
    <2>4. /\ MutexStep(a, label) /\ TaskStep(a, label)
          /\ PollerStep(a, label) /\ CancelStep(a, label)
      BY <1>0, <1>4, <2>2, SchedulerAssumption DEF AfterSwitch, schedVars,
          pollVars, ioVars, stopVars, MutexStep, TaskStep, PollerStep,
          CancelStep, TypeOK, HasTask, MutexHeld, LockedPc, IdlePc, PollPc
    <2> QED
      BY <1>0, <2>1, <2>2, <2>3, <2>4, StepKeepsInv DEF Step
  <1>5. CASE Requeue(a)
    <2> DEFINE label == "lock"
    <2>1. label \in Pc /\ label # "cond"
      BY DEF Pc, WorkerPc, MainPc, UserPc
    <2>2. MovesTo(a, label)
      BY <1>0, <1>5, <2>1, MoveSignal DEF Requeue
    <2>3. TypeOK'
      BY <1>0, <1>5, <2>2, PushType
         DEF Requeue, TypeOK, MovesTo, Pc, HasTask, IdlePc, schedVars, pollVars,
             ioVars, stopVars
    <2>4. /\ MutexStep(a, label) /\ TaskStep(a, label)
          /\ PollerStep(a, label) /\ CancelStep(a, label)
      BY <1>0, <1>5, <2>2, SchedulerAssumption DEF Requeue, schedVars, pollVars,
          ioVars, stopVars, MutexStep, TaskStep, PollerStep, CancelStep, TypeOK,
          HasTask, MutexHeld, LockedPc, IdlePc, PollPc
    <2> QED
      BY <1>0, <2>1, <2>2, <2>3, <2>4, StepKeepsInv DEF Step
  <1> QED
    BY <1>1, <1>2, <1>3, <1>4, <1>5

\* Waking the tasks parked on a descriptor keeps the types of what it changes and
\* makes no task wait on a channel.
LEMMA WakeWaitingTypes ==
    ASSUME TypeOK, NEW fd \in Fds, NEW evs \in SUBSET Events,
           wake_waiting_tasks_locked(fd, evs)
    PROVE  /\ runnable_tasks' \in Seq(Tasks)
           /\ state' \in [Tasks -> TaskState]
           /\ io_waits' \in [Slots -> Tasks \cup {NoTask}]
           /\ \A t \in Tasks : state'[t] = "waiting_channel" =>
                                  state[t] = "waiting_channel"
  <1>1. <<fd, "read">> \in Slots /\ <<fd, "write">> \in Slots
    BY DEF Slots, Events
  <1>2. ASSUME NEW q \in Seq(Tasks), NEW s \in Slots
        PROVE  PushSlot(q, s, evs) \in Seq(Tasks)
    BY PushType DEF PushSlot, TypeOK
  <1>3. runnable_tasks' \in Seq(Tasks)
    BY <1>1, <1>2 DEF wake_waiting_tasks_locked, TypeOK
  <1> QED
    BY <1>3 DEF wake_waiting_tasks_locked, TypeOK, TaskState

LEMMA DeliverKeepsInv ==
    ASSUME SchedInv, NEW a \in Workers, NEW fd \in Fds, DeliverEvents(a, fd)
    PROVE  SchedInv'
  <1>0. /\ TypeOK /\ HasTask /\ MutexHeld
        /\ a \in Actors /\ pc \in [Actors -> Pc]
    BY DEF SchedInv, TypeOK, Pc, Actors
  <1>1. "dispatch" \in Pc /\ pc = At(a, "dispatch")
    BY <1>0 DEF Pc, WorkerPc, At, DeliverEvents
  <1>2. MovesTo(a, "dispatch")
    BY <1>0, <1>1, MoveAt, MoveBroadcast DEF DeliverEvents
  <1>3. /\ runnable_tasks' \in Seq(Tasks)
        /\ state' \in [Tasks -> TaskState]
        /\ io_waits' \in [Slots -> Tasks \cup {NoTask}]
        /\ \A t \in Tasks : state'[t] = "waiting_channel" =>
                               state[t] = "waiting_channel"
    <2>1. {e \in Events : <<fd, e>> \in events[a]} \in SUBSET Events
      OBVIOUS
    <2> QED
      BY <1>0, <2>1, WakeWaitingTypes DEF DeliverEvents
  <1>4. TypeOK'
    BY <1>0, <1>2, <1>3 DEF DeliverEvents, TypeOK, MovesTo, Pc, stopVars
  <1>5. /\ MutexStep(a, "dispatch") /\ TaskStep(a, "dispatch")
        /\ PollerStep(a, "dispatch") /\ CancelStep(a, "dispatch")
    BY <1>0, <1>2, <1>3 DEF DeliverEvents, stopVars, MutexStep, TaskStep,
       PollerStep, CancelStep, MutexHeld, LockedPc, IdlePc, PollPc
  <1> QED
    BY <1>0, <1>1, <1>2, <1>4, <1>5, StepKeepsInv DEF Step

\* A channel operation wakes tasks and releases the mutex.
LEMMA ChannelKeepsInv ==
    ASSUME SchedInv, NEW a \in Actors, NEW t \in Tasks,
           ChannelWakeFirst(a, t) \/ ChannelWakeNext(a, t) \/ ChannelUnlock(a)
    PROVE  SchedInv'
  <1>0. /\ TypeOK /\ HasTask /\ MutexHeld
        /\ a \in Actors /\ pc \in [Actors -> Pc]
    BY DEF SchedInv, TypeOK, Pc, Actors
  <1>1. CASE ChannelWakeFirst(a, t)
    <2> DEFINE label == "chan"
    <2>1. label \in Pc /\ label # "cond"
      BY DEF Pc, WorkerPc, MainPc, UserPc
    <2>2. MovesTo(a, label)
      BY <1>0, <1>1, <2>1, MoveSignal DEF ChannelWakeFirst,
          worker_wake_task_locked
    <2>3. TypeOK'
      BY <1>0, <1>1, <2>2, PushType
         DEF ChannelWakeFirst, TypeOK, MovesTo, Pc, worker_wake_task_locked,
             croutine_poller_wake, TaskState, schedVars, pollVars, ioVars,
             stopVars
    <2>4. /\ MutexStep(a, label) /\ TaskStep(a, label)
          /\ PollerStep(a, label) /\ CancelStep(a, label)
      BY <1>0, <1>1, <2>2, SchedulerAssumption DEF ChannelWakeFirst,
          worker_wake_task_locked, InUserCode, schedVars, pollVars, ioVars,
          stopVars, MutexStep, TaskStep, PollerStep, CancelStep, TypeOK,
          HasTask, MutexHeld, LockedPc, IdlePc, PollPc
    <2> QED
      BY <1>0, <2>1, <2>2, <2>3, <2>4, StepKeepsInv DEF Step
  <1>2. CASE ChannelWakeNext(a, t)
    <2> DEFINE label == "chan"
    <2>1. label \in Pc /\ label # "cond"
      BY DEF Pc, WorkerPc, MainPc, UserPc
    <2>2. MovesTo(a, label)
      BY <1>0, <1>2, <2>1, MoveSignal DEF ChannelWakeNext,
          worker_wake_task_locked
    <2>3. TypeOK'
      BY <1>0, <1>2, <2>2, PushType
         DEF ChannelWakeNext, TypeOK, MovesTo, Pc, worker_wake_task_locked,
             croutine_poller_wake, TaskState, schedVars, pollVars, ioVars,
             stopVars
    <2>4. /\ MutexStep(a, label) /\ TaskStep(a, label)
          /\ PollerStep(a, label) /\ CancelStep(a, label)
      BY <1>0, <1>2, <2>2, SchedulerAssumption DEF ChannelWakeNext,
          worker_wake_task_locked, schedVars, pollVars, ioVars, stopVars,
          MutexStep, TaskStep, PollerStep, CancelStep, TypeOK, HasTask,
          MutexHeld, LockedPc, IdlePc, PollPc
    <2> QED
      BY <1>0, <2>1, <2>2, <2>3, <2>4, StepKeepsInv DEF Step
  <1>3. CASE ChannelUnlock(a)
    <2> DEFINE label == Resume(a)
    <2>1. label \in Pc
      BY DEF Pc, WorkerPc, MainPc, UserPc, Resume
    <2>2. MovesTo(a, label)
      BY <1>0, <1>3, <2>1, MoveAt DEF ChannelUnlock, Resume
    <2>3. TypeOK'
      BY <1>0, <1>3, <2>2 DEF ChannelUnlock, TypeOK, MovesTo, Pc, schedVars,
          pollVars, ioVars, stopVars
    <2>4. /\ MutexStep(a, label) /\ TaskStep(a, label)
          /\ PollerStep(a, label) /\ CancelStep(a, label)
      BY <1>0, <1>3, <2>2, SchedulerAssumption DEF ChannelUnlock, Resume,
          schedVars, pollVars, ioVars, stopVars, MutexStep, TaskStep,
          PollerStep, CancelStep, TypeOK, HasTask, MutexHeld, LockedPc, IdlePc,
          PollPc
    <2> QED
      BY <1>0, <2>1, <2>2, <2>3, <2>4, StepKeepsInv DEF Step
  <1> QED
    BY <1>1, <1>2, <1>3

\* worker_request_shutdown, from the flag to the eventfd.
LEMMA ShutdownKeepsInv ==
    ASSUME SchedInv, NEW a \in Actors, NEW t \in Tasks,
           \/ ShutdownLock(a) \/ ShutdownWake(a, t) \/ ShutdownUnlock(a)
           \/ ShutdownTellMain(a) \/ PokePoller(a)
    PROVE  SchedInv'
  <1>0. /\ TypeOK /\ HasTask /\ MutexHeld
        /\ a \in Actors /\ pc \in [Actors -> Pc]
    BY DEF SchedInv, TypeOK, Pc, Actors
  <1>1. CASE ShutdownLock(a)
    <2> DEFINE label == "closing"
    <2>1. label \in Pc
      BY DEF Pc, WorkerPc, MainPc, UserPc
    <2>2. MovesTo(a, label)
      BY <1>0, <1>1, <2>1, MoveAt DEF ShutdownLock
    <2>3. TypeOK'
      BY <1>0, <1>1, <2>2 DEF ShutdownLock, TypeOK, MovesTo, Pc, schedVars,
          pollVars, ioVars, stopVars
    <2>4. /\ MutexStep(a, label) /\ TaskStep(a, label)
          /\ PollerStep(a, label) /\ CancelStep(a, label)
      BY <1>0, <1>1, <2>2, SchedulerAssumption DEF ShutdownLock, InUserCode,
          schedVars, pollVars, ioVars, stopVars, MutexStep, TaskStep,
          PollerStep, CancelStep, TypeOK, HasTask, MutexHeld, LockedPc, IdlePc,
          PollPc
    <2> QED
      BY <1>0, <2>1, <2>2, <2>3, <2>4, StepKeepsInv DEF Step
  <1>2. CASE ShutdownWake(a, t)
    <2> DEFINE label == "closing"
    <2>1. label \in Pc /\ label # "cond"
      BY DEF Pc, WorkerPc, MainPc, UserPc
    <2>2. MovesTo(a, label)
      BY <1>0, <1>2, <2>1, MoveSignal DEF ShutdownWake, worker_wake_task_locked
    <2>3. TypeOK'
      BY <1>0, <1>2, <2>2, PushType
         DEF ShutdownWake, TypeOK, MovesTo, Pc, worker_wake_task_locked,
             croutine_poller_wake, TaskState, schedVars, pollVars, ioVars,
             stopVars
    <2>4. /\ MutexStep(a, label) /\ TaskStep(a, label)
          /\ PollerStep(a, label) /\ CancelStep(a, label)
      BY <1>0, <1>2, <2>2, SchedulerAssumption DEF ShutdownWake,
          worker_wake_task_locked, schedVars, pollVars, ioVars, stopVars,
          MutexStep, TaskStep, PollerStep, CancelStep, TypeOK, HasTask,
          MutexHeld, LockedPc, IdlePc, PollPc
    <2> QED
      BY <1>0, <2>1, <2>2, <2>3, <2>4, StepKeepsInv DEF Step
  <1>3. CASE ShutdownUnlock(a)
    <2> DEFINE label == "set_main"
    <2>1. label \in Pc /\ label # "cond"
      BY DEF Pc, WorkerPc, MainPc, UserPc
    <2>2. MovesTo(a, label) /\ \A b \in Actors : pc'[b] # "cond"
      BY <1>0, <1>3, <2>1, MoveBroadcast DEF ShutdownUnlock
    <2>3. TypeOK'
      BY <1>0, <1>3, <2>2 DEF ShutdownUnlock, TypeOK, MovesTo, Pc, schedVars,
          pollVars, ioVars, stopVars
    <2>4. /\ MutexStep(a, label) /\ TaskStep(a, label)
          /\ PollerStep(a, label) /\ CancelStep(a, label)
      BY <1>0, <1>3, <2>2, SchedulerAssumption DEF ShutdownUnlock, schedVars,
          pollVars, ioVars, stopVars, MutexStep, TaskStep, PollerStep,
          CancelStep, TypeOK, HasTask, MutexHeld, LockedPc, IdlePc, PollPc
    <2> QED
      BY <1>0, <2>1, <2>2, <2>3, <2>4, StepKeepsInv DEF Step
  <1>4. CASE ShutdownTellMain(a)
    <2> DEFINE label == "poke"
    <2>1. label \in Pc
      BY DEF Pc, WorkerPc, MainPc, UserPc
    <2>2. MovesTo(a, label)
      BY <1>0, <1>4, <2>1, MoveAt DEF ShutdownTellMain
    <2>3. TypeOK'
      BY <1>0, <1>4, <2>2 DEF ShutdownTellMain, TypeOK, MovesTo, Pc, schedVars,
          pollVars, ioVars, stopVars
    <2>4. /\ MutexStep(a, label) /\ TaskStep(a, label)
          /\ PollerStep(a, label) /\ CancelStep(a, label)
      BY <1>0, <1>4, <2>2, SchedulerAssumption DEF ShutdownTellMain, schedVars,
          pollVars, ioVars, stopVars, MutexStep, TaskStep, PollerStep,
          CancelStep, TypeOK, HasTask, MutexHeld, LockedPc, IdlePc, PollPc
    <2> QED
      BY <1>0, <2>1, <2>2, <2>3, <2>4, StepKeepsInv DEF Step
  <1>5. CASE PokePoller(a)
    <2> DEFINE label == Resume(a)
    <2>1. label \in Pc
      BY DEF Pc, WorkerPc, MainPc, UserPc, Resume
    <2>2. MovesTo(a, label)
      BY <1>0, <1>5, <2>1, MoveAt DEF PokePoller, Resume
    <2>3. TypeOK'
      BY <1>0, <1>5, <2>2 DEF PokePoller, TypeOK, MovesTo, Pc,
          croutine_poller_wake, schedVars, pollVars, ioVars, stopVars
    <2>4. /\ MutexStep(a, label) /\ TaskStep(a, label)
          /\ PollerStep(a, label) /\ CancelStep(a, label)
      BY <1>0, <1>5, <2>2, SchedulerAssumption DEF PokePoller, Resume,
          schedVars, pollVars, ioVars, stopVars, MutexStep, TaskStep,
          PollerStep, CancelStep, TypeOK, HasTask, MutexHeld, LockedPc, IdlePc,
          PollPc
    <2> QED
      BY <1>0, <2>1, <2>2, <2>3, <2>4, StepKeepsInv DEF Step
  <1> QED
    BY <1>1, <1>2, <1>3, <1>4, <1>5

\* A task or an outside thread spawns a task.
LEMMA SpawnKeepsInv ==
    ASSUME SchedInv, NEW a \in Actors, NEW t \in Tasks, croutine_spawn(a, t)
    PROVE  SchedInv'
  <1>0. /\ TypeOK /\ HasTask /\ MutexHeld
        /\ a \in Actors /\ pc \in [Actors -> Pc]
    BY DEF SchedInv, TypeOK, Pc, Actors
  <1>1. CASE croutine_spawn(a, t)
    <2> DEFINE label == IF poller_waiter_active THEN "poke" ELSE Resume(a)
    <2>1. label \in Pc /\ label # "cond"
      BY DEF Pc, WorkerPc, MainPc, UserPc, Resume
    <2>2. MovesTo(a, label)
      BY <1>0, <1>1, <2>1, MoveSignal DEF croutine_spawn, worker_spawn, Resume
    <2>3. TypeOK'
      BY <1>0, <1>1, <2>2, PushType
         DEF croutine_spawn, TypeOK, MovesTo, Pc, worker_spawn, TaskState,
             schedVars, pollVars, ioVars, stopVars
    <2>4. /\ MutexStep(a, label) /\ TaskStep(a, label)
          /\ PollerStep(a, label) /\ CancelStep(a, label)
      BY <1>0, <1>1, <2>2, SchedulerAssumption DEF croutine_spawn, worker_spawn,
          InUserCode, Resume, schedVars, pollVars, ioVars, stopVars, MutexStep,
          TaskStep, PollerStep, CancelStep, TypeOK, HasTask, MutexHeld,
          LockedPc, IdlePc, PollPc
    <2> QED
      BY <1>0, <2>1, <2>2, <2>3, <2>4, StepKeepsInv DEF Step
  <1> QED
    BY <1>1

\* A task or an outside thread forgets a descriptor.
LEMMA ForgetKeepsInv ==
    ASSUME SchedInv, NEW a \in Actors, NEW fd \in Fds, worker_forget_fd(a, fd)
    PROVE  SchedInv'
  <1>0. /\ TypeOK /\ HasTask /\ MutexHeld
        /\ a \in Actors /\ pc \in [Actors -> Pc]
    BY DEF SchedInv, TypeOK, Pc, Actors
  <1>w. /\ runnable_tasks' \in Seq(Tasks)
        /\ state' \in [Tasks -> TaskState]
        /\ io_waits' \in [Slots -> Tasks \cup {NoTask}]
        /\ \A t \in Tasks : state'[t] = "waiting_channel" =>
                               state[t] = "waiting_channel"
    BY <1>0, WakeWaitingTypes DEF worker_forget_fd
  <1>1. CASE worker_forget_fd(a, fd)
    <2> DEFINE label == IF poller_waiter_active THEN "poke" ELSE Resume(a)
    <2>1. label \in Pc /\ label # "cond"
      BY DEF Pc, WorkerPc, MainPc, UserPc, Resume
    <2>2. MovesTo(a, label) /\ \A b \in Actors : pc'[b] # "cond"
      BY <1>0, <1>1, <2>1, MoveBroadcast DEF worker_forget_fd, Resume
    <2>3. TypeOK'
      BY <1>0, <1>1, <2>2, <1>w DEF worker_forget_fd, TypeOK, MovesTo, Pc,
          schedVars, pollVars, ioVars, stopVars
    <2>4. /\ MutexStep(a, label) /\ TaskStep(a, label)
          /\ PollerStep(a, label) /\ CancelStep(a, label)
      BY <1>0, <1>1, <1>w, <2>2, SchedulerAssumption DEF worker_forget_fd, InUserCode,
          Resume, schedVars, pollVars, ioVars, stopVars, MutexStep, TaskStep,
          PollerStep, CancelStep, TypeOK, HasTask, MutexHeld, LockedPc, IdlePc,
          PollPc
    <2> QED
      BY <1>0, <2>1, <2>2, <2>3, <2>4, StepKeepsInv DEF Step
  <1> QED
    BY <1>1

\* The thread in croutine_run.
LEMMA MainThreadKeepsInv ==
    ASSUME SchedInv, MainThreadStep
    PROVE  SchedInv'
  <1>0. /\ TypeOK /\ HasTask /\ MutexHeld
        /\ MainThread \in Actors /\ pc \in [Actors -> Pc]
    BY DEF SchedInv, TypeOK, Pc, Actors
  <1>1. CASE SpawnMain
    <2> DEFINE label == "create"
    <2>1. label \in Pc /\ label # "cond"
      BY DEF Pc, WorkerPc, MainPc, UserPc
    <2>2. MovesTo(MainThread, label)
      BY <1>0, <1>1, <2>1, MoveSignal DEF SpawnMain, worker_spawn
    <2>3. TypeOK'
      BY <1>0, <1>1, <2>2, SchedulerAssumption, PushType
         DEF SpawnMain, TypeOK, MovesTo, Pc, worker_spawn, TaskState, schedVars,
             pollVars, ioVars, stopVars
    <2>4. /\ MutexStep(MainThread, label) /\ TaskStep(MainThread, label)
          /\ PollerStep(MainThread, label) /\ CancelStep(MainThread, label)
      BY <1>0, <1>1, <2>2, SchedulerAssumption DEF SpawnMain, worker_spawn,
          schedVars, pollVars, ioVars, stopVars, MutexStep, TaskStep,
          PollerStep, CancelStep, TypeOK, HasTask, MutexHeld, LockedPc, IdlePc,
          PollPc
    <2> QED
      BY <1>0, <2>1, <2>2, <2>3, <2>4, StepKeepsInv DEF Step
  <1>2. CASE SpawnMainFails
    <2> DEFINE label == "shutdown"
    <2>1. label \in Pc
      BY DEF Pc, WorkerPc, MainPc, UserPc
    <2>2. MovesTo(MainThread, label)
      BY <1>0, <1>2, <2>1, MoveAt DEF SpawnMainFails
    <2>3. TypeOK'
      BY <1>0, <1>2, <2>2 DEF SpawnMainFails, TypeOK, MovesTo, Pc, schedVars,
          pollVars, ioVars, stopVars
    <2>4. /\ MutexStep(MainThread, label) /\ TaskStep(MainThread, label)
          /\ PollerStep(MainThread, label) /\ CancelStep(MainThread, label)
      BY <1>0, <1>2, <2>2, SchedulerAssumption DEF SpawnMainFails, schedVars,
          pollVars, ioVars, stopVars, MutexStep, TaskStep, PollerStep,
          CancelStep, TypeOK, HasTask, MutexHeld, LockedPc, IdlePc, PollPc
    <2> QED
      BY <1>0, <2>1, <2>2, <2>3, <2>4, StepKeepsInv DEF Step
  <1>3. ASSUME NEW w \in Workers, StartWorker(w) PROVE SchedInv'
    <2> DEFINE label == "lock"
    <2>1. label \in Pc
      BY DEF Pc, WorkerPc, MainPc, UserPc
    <2>2. MovesTo(w, label)
      BY <1>0, <1>3, <2>1, MoveAt DEF StartWorker, Actors
    <2>3. TypeOK'
      BY <1>0, <1>3, <2>2 DEF StartWorker, TypeOK, MovesTo, Pc, schedVars,
          pollVars, ioVars, stopVars
    <2>4. /\ MutexStep(w, label) /\ TaskStep(w, label)
          /\ PollerStep(w, label) /\ CancelStep(w, label)
      BY <1>0, <1>3, <2>2, SchedulerAssumption DEF StartWorker, schedVars,
          pollVars, ioVars, stopVars, MutexStep, TaskStep, PollerStep,
          CancelStep, TypeOK, HasTask, MutexHeld, LockedPc, IdlePc, PollPc
    <2> QED
      BY <1>0, <2>1, <2>2, <2>3, <2>4, StepKeepsInv DEF Step, Actors
  <1>4. CASE CreateFails
    <2> DEFINE label == "shutdown"
    <2>1. label \in Pc
      BY DEF Pc, WorkerPc, MainPc, UserPc
    <2>2. MovesTo(MainThread, label)
      BY <1>0, <1>4, <2>1, MoveAt DEF CreateFails
    <2>3. TypeOK'
      BY <1>0, <1>4, <2>2 DEF CreateFails, TypeOK, MovesTo, Pc, schedVars,
          pollVars, ioVars, stopVars
    <2>4. /\ MutexStep(MainThread, label) /\ TaskStep(MainThread, label)
          /\ PollerStep(MainThread, label) /\ CancelStep(MainThread, label)
      BY <1>0, <1>4, <2>2, SchedulerAssumption DEF CreateFails, schedVars,
          pollVars, ioVars, stopVars, MutexStep, TaskStep, PollerStep,
          CancelStep, TypeOK, HasTask, MutexHeld, LockedPc, IdlePc, PollPc
    <2> QED
      BY <1>0, <2>1, <2>2, <2>3, <2>4, StepKeepsInv DEF Step
  <1>5. CASE AllStarted
    <2> DEFINE label == "wait"
    <2>1. label \in Pc
      BY DEF Pc, WorkerPc, MainPc, UserPc
    <2>2. MovesTo(MainThread, label)
      BY <1>0, <1>5, <2>1, MoveAt DEF AllStarted
    <2>3. TypeOK'
      BY <1>0, <1>5, <2>2 DEF AllStarted, TypeOK, MovesTo, Pc, schedVars,
          pollVars, ioVars, stopVars
    <2>4. /\ MutexStep(MainThread, label) /\ TaskStep(MainThread, label)
          /\ PollerStep(MainThread, label) /\ CancelStep(MainThread, label)
      BY <1>0, <1>5, <2>2, SchedulerAssumption DEF AllStarted, schedVars,
          pollVars, ioVars, stopVars, MutexStep, TaskStep, PollerStep,
          CancelStep, TypeOK, HasTask, MutexHeld, LockedPc, IdlePc, PollPc
    <2> QED
      BY <1>0, <2>1, <2>2, <2>3, <2>4, StepKeepsInv DEF Step
  <1>6. CASE worker_wait_for_main
    <2> DEFINE label == "join"
    <2>1. label \in Pc
      BY DEF Pc, WorkerPc, MainPc, UserPc
    <2>2. MovesTo(MainThread, label)
      BY <1>0, <1>6, <2>1, MoveAt DEF worker_wait_for_main
    <2>3. TypeOK'
      BY <1>0, <1>6, <2>2 DEF worker_wait_for_main, TypeOK, MovesTo, Pc,
          schedVars, pollVars, ioVars, stopVars
    <2>4. /\ MutexStep(MainThread, label) /\ TaskStep(MainThread, label)
          /\ PollerStep(MainThread, label) /\ CancelStep(MainThread, label)
      BY <1>0, <1>6, <2>2, SchedulerAssumption DEF worker_wait_for_main,
          schedVars, pollVars, ioVars, stopVars, MutexStep, TaskStep,
          PollerStep, CancelStep, TypeOK, HasTask, MutexHeld, LockedPc, IdlePc,
          PollPc
    <2> QED
      BY <1>0, <2>1, <2>2, <2>3, <2>4, StepKeepsInv DEF Step
  <1>7. CASE JoinWorkers
    <2> DEFINE label == "shutdown"
    <2>1. label \in Pc
      BY DEF Pc, WorkerPc, MainPc, UserPc
    <2>2. MovesTo(MainThread, label)
      BY <1>0, <1>7, <2>1, MoveAt DEF JoinWorkers
    <2>3. TypeOK'
      BY <1>0, <1>7, <2>2 DEF JoinWorkers, TypeOK, MovesTo, Pc, schedVars,
          pollVars, ioVars, stopVars
    <2>4. /\ MutexStep(MainThread, label) /\ TaskStep(MainThread, label)
          /\ PollerStep(MainThread, label) /\ CancelStep(MainThread, label)
      BY <1>0, <1>7, <2>2, SchedulerAssumption DEF JoinWorkers, schedVars,
          pollVars, ioVars, stopVars, MutexStep, TaskStep, PollerStep,
          CancelStep, TypeOK, HasTask, MutexHeld, LockedPc, IdlePc, PollPc
    <2> QED
      BY <1>0, <2>1, <2>2, <2>3, <2>4, StepKeepsInv DEF Step
  <1>8. CASE worker_deinit
    <2> DEFINE label == "done"
    <2>1. label \in Pc
      BY DEF Pc, WorkerPc, MainPc, UserPc
    <2>2. MovesTo(MainThread, label)
      BY <1>0, <1>8, <2>1, MoveAt DEF worker_deinit
    <2>3. TypeOK'
      <3>1. runnable_tasks' \in Seq(Tasks)
        BY <1>8 DEF worker_deinit
      <3>2. state' \in [Tasks -> TaskState]
        <4>1. state'= [t \in Tasks |->
                 IF t \in Range(runnable_tasks) \cup (Range(io_waits) \ {NoTask})
                 THEN "freed" ELSE state[t]]
          BY <1>8 DEF worker_deinit
        <4> QED
          BY <1>0, <4>1 DEF TypeOK, TaskState
      <3>3. io_waits' \in [Slots -> Tasks \cup {NoTask}]
        BY <1>8 DEF worker_deinit
      <3> QED
        BY <1>0, <1>8, <2>2, <3>1, <3>2, <3>3 DEF worker_deinit, TypeOK, MovesTo,
           Pc, pollVars
    <2>4. /\ MutexStep(MainThread, label) /\ TaskStep(MainThread, label)
          /\ PollerStep(MainThread, label) /\ CancelStep(MainThread, label)
      BY <1>0, <1>8, <2>2, SchedulerAssumption DEF worker_deinit, schedVars,
          pollVars, ioVars, stopVars, MutexStep, TaskStep, PollerStep,
          CancelStep, TypeOK, HasTask, MutexHeld, LockedPc, IdlePc, PollPc
    <2> QED
      BY <1>0, <2>1, <2>2, <2>3, <2>4, StepKeepsInv DEF Step
  <1> QED
    BY <1>1, <1>2, <1>3, <1>4, <1>5, <1>6, <1>7, <1>8 DEF MainThreadStep

LEMMA KernelKeepsInv == SchedInv /\ (Kernel \/ UNCHANGED vars) => SchedInv'
  <1> SUFFICES ASSUME SchedInv, Kernel \/ UNCHANGED vars PROVE SchedInv'
    OBVIOUS
  <1>1. /\ UNCHANGED <<pc, mutex, runnable_tasks, state, task>>
        /\ UNCHANGED <<checked_ready_io, blocking, events>>
        /\ UNCHANGED <<io_waits, wake_fd, poller_waiter_active>>
        /\ UNCHANGED stopVars
    BY DEF Kernel, FdReady, FdConsumed, vars, schedVars, pollVars, ioVars
  <1>2. ready' \subseteq Slots
    BY SchedulerAssumption DEF Slots, SchedInv, TypeOK, Kernel, FdReady, FdConsumed,
       vars, ioVars
  <1>3. TypeOK'
    BY <1>1, <1>2 DEF SchedInv, TypeOK, stopVars
  <1>4. HasTask' /\ MutexHeld' /\ OnePoller'
    BY <1>1 DEF SchedInv, HasTask, MutexHeld, OnePoller
  <1>5. SleepersHavePoller' /\ ShutdownCancels'
    BY <1>1 DEF SchedInv, SleepersHavePoller, ShutdownCancels, stopVars
  <1> QED
    BY <1>3, <1>4, <1>5 DEF SchedInv

LEMMA InitEstablishesInv == Init => SchedInv
  <1> SUFFICES ASSUME Init PROVE SchedInv
    OBVIOUS
  <1>1. \A a \in Actors : pc[a] \in {"new", "spawn_main", "user"}
    BY DEF Init
  <1>2. TypeOK
    <2>1. pc \in [Actors -> WorkerPc \cup MainPc \cup UserPc]
      BY DEF Init, WorkerPc, MainPc, UserPc
    <2>2. runnable_tasks \in Seq(Tasks) /\ state \in [Tasks -> TaskState]
      BY DEF Init, TaskState
    <2> QED
      BY <2>1, <2>2 DEF Init, TypeOK
  <1>3. HasTask /\ MutexHeld
    BY <1>1, SchedulerAssumption
       DEF Init, HasTask, MutexHeld, IdlePc, LockedPc, Actors
  <1>4. OnePoller /\ SleepersHavePoller /\ ShutdownCancels
    BY <1>1 DEF Init, OnePoller, PollPc, SleepersHavePoller, ShutdownCancels, Actors
  <1> QED
    BY <1>2, <1>3, <1>4 DEF SchedInv

LEMMA NextKeepsInv == SchedInv /\ [Next]_vars => SchedInv'
  <1> SUFFICES ASSUME SchedInv, [Next]_vars PROVE SchedInv'
    OBVIOUS
  <1>1. ASSUME NEW w \in Workers, WorkerStep(w) \/ GiveBack(w) \/ SpuriousWakeup(w)
        PROVE  SchedInv'
    BY <1>1, LoopKeepsInv, PollKeepsInv, DeliverKeepsInv, GiveBackKeepsInv,
       HandBackKeepsInv DEF WorkerStep
  <1>2. ASSUME NEW a \in Actors, CallStep(a) \/ Call(a) PROVE SchedInv'
    <2>1. Main \in Tasks
      BY SchedulerAssumption
    <2> QED
      BY <1>2, <2>1, ChannelKeepsInv, ShutdownKeepsInv, SpawnKeepsInv,
         ForgetKeepsInv DEF CallStep, Call
  <1>3. CASE MainThreadStep
    BY <1>3, MainThreadKeepsInv
  <1>4. CASE Kernel \/ Terminated \/ UNCHANGED vars
    BY <1>4, KernelKeepsInv DEF Terminated
  <1> QED
    BY <1>1, <1>2, <1>3, <1>4 DEF Next

LEMMA InvImplications ==
    SchedInv => /\ TypeOK /\ PollerExclusive /\ SleepersHavePoller
                /\ ShutdownCancelsChannelWaits
  <1> SUFFICES ASSUME SchedInv
               PROVE  PollerExclusive /\ ShutdownCancelsChannelWaits
    BY DEF SchedInv
  <1>1. PollerExclusive
    BY DEF SchedInv, OnePoller, PollPc, PollerExclusive
  <1>2. ShutdownCancelsChannelWaits
    BY SchedulerAssumption DEF SchedInv, MutexHeld, LockedPc, ShutdownCancels,
       ShutdownCancelsChannelWaits
  <1> QED
    BY <1>1, <1>2
-----------------------------------------------------------------------------
\* SchedInv is an invariant of the scheduler.  By HasTask, worker_loop_impl and the
\* parking calls never use the `task' of a worker when it is NULL.
THEOREM SchedulerInvariant == Spec => []SchedInv
  BY InitEstablishesInv, NextKeepsInv, PTL DEF Spec

\* The state of worker.c keeps its types: the run queue and the wait table hold
\* tasks only, whatever parks, wakes, spawns and stops at the same time.
THEOREM TypeCorrect == Spec => []TypeOK
  BY SchedulerInvariant, InvImplications, PTL

\* poller_waiter_active: at most one worker is in croutine_poller_wait, and the
\* flag is set exactly while one is.
THEOREM PollerIsExclusive == Spec => []PollerExclusive
  BY SchedulerInvariant, InvImplications, PTL

\* No worker sleeps on scheduler_cond without another worker in the poller.
THEOREM SleepersAlwaysHavePoller == Spec => []SleepersHavePoller
  BY SchedulerInvariant, InvImplications, PTL

\* worker_request_shutdown: with the mutex free and shutdown requested, no task
\* is parked on a channel, however many threads park, wake and shut down at once.
THEOREM ShutdownLeavesNoChannelWait == Spec => []ShutdownCancelsChannelWaits
  BY SchedulerInvariant, InvImplications, PTL
-----------------------------------------------------------------------------
(***************************************************************************)
(* Where the tasks are.                                                    *)
(***************************************************************************)
\* Where a worker is while its task runs application code or is to be queued
\* again, and while its task has returned.
RunPc == {"running", "chan", "closing", "set_main", "poke", "requeue"}
FinPc == {"fin_lock", "fin_poke"}
Waiting == {"waiting_io", "waiting_channel"}

\* The state `s' a task may have while its worker is at `label'.
Fits(label, s) == \/ label \in RunPc /\ s = "runnable"
                  \/ label \in FinPc /\ s = "finished"
                  \/ label = "check" /\ s \in {"runnable", "finished"}
                  \/ label = "parking" /\ s \in Waiting

\* A worker holds a task exactly outside its loop, in a state that fits.
WorkerFits(w) == \/ pc[w] \in IdlePc /\ task[w] = NoTask
                 \/ task[w] \in Tasks /\ Fits(pc[w], state[task[w]])

\* No two workers hold the same task.
TasksFitWorkers ==
    /\ \A w \in Workers : WorkerFits(w)
    /\ \A v, w \in Workers : task[v] \in Tasks /\ task[v] = task[w] => v = w

\* The run queue holds a task once, runnable, and on no worker.
QueueIsRunnable ==
    /\ IsInjective(runnable_tasks)
    /\ \A t \in Tasks : Queued(t) => /\ state[t] = "runnable"
                                     /\ \A w \in Workers : task[w] # t

\* The wait table holds a task once, in TASK_WAITING_IO.
SlotsAreWaits ==
    /\ \A s \in Slots : io_waits[s] \in Tasks => state[io_waits[s]] = "waiting_io"
    /\ \A r, s \in Slots : io_waits[r] \in Tasks /\ io_waits[r] = io_waits[s] => r = s

\* A task is found where its state says it is.
Findable(t) ==
    /\ state[t] = "waiting_io" => \E s \in Slots : io_waits[s] = t
    /\ state[t] = "runnable" => Queued(t) \/ \E w \in Workers : task[w] = t
    /\ state[t] = "finished" => \E w \in Workers : task[w] = t

\* The inductive invariant about the places of tasks.
PlaceInv == /\ TasksFitWorkers
            /\ QueueIsRunnable
            /\ SlotsAreWaits
            /\ \A t \in Tasks : Findable(t)
-----------------------------------------------------------------------------
\* A queue of tasks holds tasks.
LEMMA QueueRange ==
    ASSUME NEW q \in Seq(Tasks)
    PROVE  Range(q) \subseteq Tasks
  BY DEF Range

\* The run queue after a push and after a pop.
LEMMA PushFacts ==
    ASSUME NEW q \in Seq(Tasks), NEW t \in Tasks, IsInjective(q)
    PROVE  /\ IsInjective(Push(q, t))
           /\ Range(Push(q, t)) = Range(q) \cup {t}
  <1>1. CASE t \in Range(q)
    BY <1>1 DEF Push
  <1>2. CASE t \notin Range(q)
    <2> DEFINE p == Append(q, t)
    <2>1. /\ p = Push(q, t)
          /\ DOMAIN q = 1 .. Len(q) /\ DOMAIN p = 1 .. Len(q) + 1
          /\ \A i \in 1 .. Len(q) : p[i] = q[i]
          /\ p[Len(q) + 1] = t
          /\ Len(q) \in Nat
      BY <1>2 DEF Push
    <2>2. \A i \in 1 .. Len(q) : q[i] # t
      BY <1>2, <2>1 DEF Range
    <2>3. IsInjective(p)
      BY <2>1, <2>2 DEF IsInjective
    <2>4. Range(p) = Range(q) \cup {t}
      BY <2>1 DEF Range
    <2> QED
      BY <2>1, <2>3, <2>4
  <1> QED
    BY <1>1, <1>2

\* The run queue after its head was taken: one task less, none twice.
LEMMA PopFacts ==
    ASSUME NEW q \in Seq(Tasks), q # << >>, IsInjective(q)
    PROVE  /\ Head(q) \in Range(q)
           /\ IsInjective(Tail(q))
           /\ Range(Tail(q)) = Range(q) \ {Head(q)}
  <1>1. /\ DOMAIN q = 1 .. Len(q) /\ DOMAIN Tail(q) = 1 .. Len(q) - 1
        /\ \A i \in 1 .. Len(q) - 1 : Tail(q)[i] = q[i + 1]
        /\ Head(q) = q[1]
        /\ Len(q) \in Nat \ {0}
    OBVIOUS
  <1>2. Head(q) \in Range(q)
    BY <1>1 DEF Range
  <1>3. IsInjective(Tail(q))
    BY <1>1 DEF IsInjective
  <1>4. Range(Tail(q)) = Range(q) \ {Head(q)}
    <2>1. ASSUME NEW x \in Range(Tail(q)) PROVE x \in Range(q) \ {Head(q)}
      <3>1. PICK i \in 1 .. Len(q) - 1 : x = q[i + 1]
        BY <1>1, <2>1 DEF Range
      <3> QED
        BY <1>1, <3>1 DEF Range, IsInjective
    <2>2. ASSUME NEW x \in Range(q), x # Head(q) PROVE x \in Range(Tail(q))
      <3>1. PICK i \in 1 .. Len(q) : x = q[i]
        BY <1>1 DEF Range
      <3>2. i - 1 \in 1 .. Len(q) - 1 /\ Tail(q)[i - 1] = x
        BY <1>1, <2>2, <3>1
      <3> QED
        BY <1>1, <3>2, Zenon DEF Range
    <2> QED
      BY <2>1, <2>2
  <1> QED
    BY <1>2, <1>3, <1>4
-----------------------------------------------------------------------------
\* Workers other than the one that moves keep their tasks, and the tasks they
\* hold keep their states: what such a step owes the workers.
OthersKeep(a) ==
    \A w \in Workers \ {a} : /\ task'[w] = task[w]
                             /\ task[w] \in Tasks => state'[task[w]] = state[task[w]]

\* A task stays findable when its state and the place where it is do not change.
LEMMA FindableKept ==
    ASSUME NEW u \in Tasks, Findable(u), state'[u] = state[u],
           \A r \in Slots : io_waits[r] = u => io_waits'[r] = u,
           \A w \in Workers : task[w] = u => task'[w] = u,
           Queued(u) => Queued(u)'
    PROVE  Findable(u)'
  BY Zenon DEF Findable

\* Slots stay exact when nobody is added and the tasks in them keep their state.
LEMMA SlotsKept ==
    ASSUME SlotsAreWaits,
           \A q \in Slots : io_waits'[q] \in Tasks =>
               io_waits'[q] = io_waits[q] /\ state'[io_waits[q]] = state[io_waits[q]]
    PROVE  SlotsAreWaits'
  <1>1. ASSUME NEW q \in Slots, io_waits'[q] \in Tasks
        PROVE  state'[io_waits'[q]] = "waiting_io"
    BY <1>1, Zenon DEF SlotsAreWaits
  <1>2. ASSUME NEW q \in Slots, NEW r \in Slots, io_waits'[q] \in Tasks,
               io_waits'[q] = io_waits'[r]
        PROVE  q = r
    <2>1. io_waits'[q] = io_waits[q] /\ io_waits'[r] = io_waits[r]
      BY <1>2, Zenon
    <2> QED
      BY <1>2, <2>1, Zenon DEF SlotsAreWaits
  <1> QED
    BY <1>1, <1>2, Zenon DEF SlotsAreWaits

\* MovesTo changes the place of one thread (and wakes waiters of scheduler_cond), so
\* only the worker that moves has to be looked at again.
LEMMA FitsKept ==
    ASSUME SchedInv, PlaceInv, NEW a \in Actors, NEW label \in Pc,
           MovesTo(a, label), OthersKeep(a), a \in Workers => WorkerFits(a)'
    PROVE  \A w \in Workers : WorkerFits(w)'
  <1> SUFFICES ASSUME NEW w \in Workers, w # a PROVE WorkerFits(w)'
    OBVIOUS
  <1>1. w \in Actors /\ WorkerFits(w)
    BY DEF Actors, PlaceInv, TasksFitWorkers
  <1>2. /\ task'[w] = task[w]
        /\ task[w] \in Tasks => state'[task[w]] = state[task[w]]
    BY DEF OthersKeep
  <1>3. \/ pc'[w] = pc[w]
        \/ pc[w] = "cond" /\ pc'[w] = "woken"
    BY <1>1 DEF MovesTo
  <1> QED
    BY <1>1, <1>2, <1>3 DEF WorkerFits, Fits, IdlePc, RunPc, FinPc

\* A step in which no task changes place: the thread that moves goes from idle to
\* idle, or on with a task in the same state.
SameWork(old, new) == \/ old \in IdlePc /\ new \in IdlePc
                      \/ old \in RunPc /\ new \in RunPc \cup {"check"}
                      \/ old \in FinPc /\ new \in FinPc \cup {"check"}

\* Such a step keeps the invariant, whatever thread takes it.
LEMMA KeepPlace ==
    ASSUME SchedInv, PlaceInv, NEW a \in Actors, NEW label \in Pc,
           MovesTo(a, label), a \in Workers => SameWork(pc[a], label),
           UNCHANGED <<runnable_tasks, state, task, io_waits>>
    PROVE  PlaceInv'
  <1>1. a \in Workers => WorkerFits(a)'
    <2> SUFFICES ASSUME a \in Workers PROVE WorkerFits(a)'
      OBVIOUS
    <2>1. WorkerFits(a) /\ pc'[a] = label /\ SameWork(pc[a], label)
      BY DEF PlaceInv, TasksFitWorkers, MovesTo
    <2> QED
      BY <2>1 DEF WorkerFits, Fits, SameWork, IdlePc, RunPc, FinPc
  <1>2. OthersKeep(a)
    BY DEF OthersKeep
  <1>3. \A w \in Workers : WorkerFits(w)'
    BY <1>1, <1>2, FitsKept
  <1>4. TasksFitWorkers'
    BY <1>3 DEF PlaceInv, TasksFitWorkers
  <1>5. (QueueIsRunnable /\ SlotsAreWaits /\ \A t \in Tasks : Findable(t))'
    BY DEF PlaceInv, QueueIsRunnable, SlotsAreWaits, Findable, Queued
  <1> QED
    BY <1>4, <1>5 DEF PlaceInv

\* A thread holds the mutex, or nobody does: no other worker is parking.
LEMMA NoneParking ==
    ASSUME SchedInv, NEW a \in Actors, mutex \in {a, Free},
           NEW w \in Workers, w # a
    PROVE  pc[w] # "parking"
  BY SchedulerAssumption DEF SchedInv, MutexHeld, LockedPc, Actors
-----------------------------------------------------------------------------
(***************************************************************************)
(* Steps in which no task changes place.                                   *)
(***************************************************************************)
\* The steps of worker_loop_impl and of a task's end that move no task.
LEMMA QuietWorkerSteps ==
    ASSUME SchedInv, PlaceInv, NEW a \in Workers,
           \/ LoopExit(a) \/ LoopBeginPoll(a) \/ LoopCondWait(a)
           \/ SpuriousWakeup(a) \/ PollReturn(a) \/ PollRelock(a)
           \/ worker_yield(a) \/ MainFinishedLocked(a) \/ MainFinishedPoke(a)
    PROVE  PlaceInv'
  <1>0. a \in Actors /\ pc \in [Actors -> Pc]
    BY DEF SchedInv, TypeOK, Pc, Actors
  <1> USE DEF pollVars, ioVars, stopVars
  <1>1. CASE LoopExit(a)
    <2>1. "exit" \in Pc /\ SameWork(pc[a], "exit")
      BY <1>1 DEF LoopExit, AtLoopHead, SameWork, IdlePc, Pc, WorkerPc
    <2>2. MovesTo(a, "exit")
      BY <1>0, <1>1, <2>1, MoveAt DEF LoopExit
    <2> QED
      BY <1>0, <1>1, <2>1, <2>2, KeepPlace DEF LoopExit
  <1>2. CASE LoopBeginPoll(a)
    <2>1. "poll" \in Pc /\ SameWork(pc[a], "poll")
      BY <1>2 DEF LoopBeginPoll, AtLoopHead, SameWork, IdlePc, Pc, WorkerPc
    <2>2. MovesTo(a, "poll")
      BY <1>0, <1>2, <2>1, MoveAt DEF LoopBeginPoll
    <2> QED
      BY <1>0, <1>2, <2>1, <2>2, KeepPlace, Zenon DEF LoopBeginPoll
  <1>3. CASE LoopCondWait(a)
    <2>1. "cond" \in Pc /\ SameWork(pc[a], "cond")
      BY <1>3 DEF LoopCondWait, AtLoopHead, SameWork, IdlePc, Pc, WorkerPc
    <2>2. MovesTo(a, "cond")
      BY <1>0, <1>3, <2>1, MoveAt DEF LoopCondWait
    <2> QED
      BY <1>0, <1>3, <2>1, <2>2, KeepPlace, Zenon DEF LoopCondWait
  <1>4. CASE SpuriousWakeup(a)
    <2>1. "woken" \in Pc /\ SameWork(pc[a], "woken")
      BY <1>4 DEF SpuriousWakeup, SameWork, IdlePc, Pc, WorkerPc
    <2>2. MovesTo(a, "woken")
      BY <1>0, <1>4, <2>1, MoveAt, Zenon DEF SpuriousWakeup
    <2> QED
      BY <1>0, <1>4, <2>1, <2>2, KeepPlace, Zenon DEF SpuriousWakeup
  <1>5. CASE PollReturn(a)
    <2>1. "relock" \in Pc /\ SameWork(pc[a], "relock")
      BY <1>5 DEF PollReturn, SameWork, IdlePc, Pc, WorkerPc
    <2>2. MovesTo(a, "relock")
      BY <1>0, <1>5, <2>1, MoveAt, Zenon DEF PollReturn
    <2> QED
      BY <1>0, <1>5, <2>1, <2>2, KeepPlace, Zenon DEF PollReturn
  <1>6. CASE PollRelock(a)
    <2> DEFINE label == IF Stop THEN "exit" ELSE "dispatch"
    <2>1. label \in Pc /\ label # "cond" /\ SameWork(pc[a], label)
      BY <1>6 DEF PollRelock, SameWork, IdlePc, Pc, WorkerPc
    <2>2. MovesTo(a, label)
      BY <1>0, <1>6, <2>1, MoveBroadcast DEF PollRelock
    <2> QED
      BY <1>0, <1>6, <2>1, <2>2, KeepPlace, Zenon DEF PollRelock
  <1>7. CASE worker_yield(a)
    <2>1. "check" \in Pc /\ SameWork(pc[a], "check")
      BY <1>7 DEF worker_yield, SameWork, RunPc, Pc, WorkerPc
    <2>2. MovesTo(a, "check")
      BY <1>0, <1>7, <2>1, MoveAt DEF worker_yield
    <2> QED
      BY <1>0, <1>7, <2>1, <2>2, KeepPlace, Zenon DEF worker_yield
  <1>8. CASE MainFinishedLocked(a)
    <2>1. "fin_poke" \in Pc /\ SameWork(pc[a], "fin_poke")
      BY <1>8 DEF MainFinishedLocked, SameWork, FinPc, Pc, WorkerPc
    <2>2. MovesTo(a, "fin_poke")
      BY <1>0, <1>8, <2>1, MoveBroadcast DEF MainFinishedLocked
    <2> QED
      BY <1>0, <1>8, <2>1, <2>2, KeepPlace DEF MainFinishedLocked
  <1>9. CASE MainFinishedPoke(a)
    <2>1. "check" \in Pc /\ SameWork(pc[a], "check")
      BY <1>9 DEF MainFinishedPoke, SameWork, FinPc, Pc, WorkerPc
    <2>2. MovesTo(a, "check")
      BY <1>0, <1>9, <2>1, MoveAt DEF MainFinishedPoke
    <2> QED
      BY <1>0, <1>9, <2>1, <2>2, KeepPlace, Zenon DEF MainFinishedPoke
  <1> QED
    BY <1>1, <1>2, <1>3, <1>4, <1>5, <1>6, <1>7, <1>8, <1>9, Zenon

\* Where a call of the API leaves the thread that made it.
LEMMA ResumeFacts ==
    ASSUME NEW a \in Actors
    PROVE  /\ Resume(a) \in Pc \ {"cond"}
           /\ a \in Workers => Resume(a) = "running"
  BY DEF Resume, Pc, WorkerPc, MainPc, UserPc

\* The steps of channel operations and of shutdown that wake nobody.
LEMMA QuietCallSteps ==
    ASSUME SchedInv, PlaceInv, NEW a \in Actors,
           \/ ChannelUnlock(a) \/ PokePoller(a) \/ ShutdownLock(a)
           \/ ShutdownUnlock(a) \/ ShutdownTellMain(a)
    PROVE  PlaceInv'
  <1>0. pc \in [Actors -> Pc]
    BY DEF SchedInv, TypeOK, Pc
  <1> USE DEF pollVars, ioVars, stopVars
  <1>1. CASE ChannelUnlock(a) \/ PokePoller(a)
    <2>1. /\ Resume(a) \in Pc
          /\ a \in Workers => SameWork(pc[a], Resume(a))
      BY <1>1, ResumeFacts DEF ChannelUnlock, PokePoller, SameWork, RunPc
    <2>2. MovesTo(a, Resume(a))
      BY <1>0, <1>1, <2>1, MoveAt DEF ChannelUnlock, PokePoller
    <2> QED
      BY <1>1, <2>1, <2>2, KeepPlace, Zenon DEF ChannelUnlock, PokePoller
  <1>2. CASE ShutdownLock(a)
    <2>1. WorkerFits(a) \/ a \notin Workers
      BY Zenon DEF PlaceInv, TasksFitWorkers
    <2>2. "closing" \in Pc /\ (a \in Workers => SameWork(pc[a], "closing"))
      BY <1>2, <2>1 DEF ShutdownLock, InUserCode, WorkerFits, Fits, SameWork, IdlePc,
         RunPc, FinPc, Pc, UserPc
    <2>3. MovesTo(a, "closing")
      BY <1>0, <1>2, <2>2, MoveAt DEF ShutdownLock
    <2> QED
      BY <1>2, <2>2, <2>3, KeepPlace DEF ShutdownLock
  <1>3. CASE ShutdownUnlock(a)
    <2>1. "set_main" \in Pc /\ SameWork(pc[a], "set_main")
      BY <1>3 DEF ShutdownUnlock, SameWork, RunPc, Pc, UserPc
    <2>2. MovesTo(a, "set_main")
      BY <1>0, <1>3, <2>1, MoveBroadcast DEF ShutdownUnlock
    <2> QED
      BY <1>3, <2>1, <2>2, KeepPlace DEF ShutdownUnlock
  <1>4. CASE ShutdownTellMain(a)
    <2>1. "poke" \in Pc /\ SameWork(pc[a], "poke")
      BY <1>4 DEF ShutdownTellMain, SameWork, RunPc, Pc, UserPc
    <2>2. MovesTo(a, "poke")
      BY <1>0, <1>4, <2>1, MoveAt, Zenon DEF ShutdownTellMain
    <2> QED
      BY <1>4, <2>1, <2>2, KeepPlace DEF ShutdownTellMain
  <1> QED
    BY <1>1, <1>2, <1>3, <1>4

\* The steps of croutine_run that spawn and free nothing.
LEMMA QuietMainSteps ==
    ASSUME SchedInv, PlaceInv,
           \/ SpawnMainFails \/ (\E w \in Workers : StartWorker(w)) \/ CreateFails
           \/ AllStarted \/ worker_wait_for_main \/ JoinWorkers
    PROVE  PlaceInv'
  <1>0. /\ MainThread \in Actors \ Workers /\ Workers \subseteq Actors
        /\ pc \in [Actors -> Pc]
    BY SchedulerAssumption DEF SchedInv, TypeOK, Pc, Actors
  <1> USE DEF pollVars, ioVars, stopVars
  <1>1. ASSUME NEW label \in Pc, pc' = At(MainThread, label),
               UNCHANGED <<runnable_tasks, state, task, io_waits>>
        PROVE  PlaceInv'
    BY <1>0, <1>1, MoveAt, KeepPlace, Zenon
  <1>2. ASSUME NEW w \in Workers, StartWorker(w) PROVE PlaceInv'
    <2>1. "lock" \in Pc /\ SameWork(pc[w], "lock")
      BY <1>2 DEF StartWorker, SameWork, IdlePc, Pc, WorkerPc
    <2>2. MovesTo(w, "lock")
      BY <1>0, <1>2, <2>1, MoveAt DEF StartWorker
    <2> QED
      BY <1>0, <1>2, <2>1, <2>2, KeepPlace, Zenon DEF StartWorker
  <1>3. "shutdown" \in Pc /\ "wait" \in Pc /\ "join" \in Pc
    BY Zenon DEF Pc, MainPc
  <1> QED
    BY <1>1, <1>2, <1>3, Zenon
       DEF SpawnMainFails, CreateFails, AllStarted, worker_wait_for_main,
       JoinWorkers
-----------------------------------------------------------------------------
(***************************************************************************)
(* Steps that move the worker's own task.                                  *)
(***************************************************************************)
\* What PlaceInv says of the task a worker has.
LEMMA OwnTask ==
    ASSUME SchedInv, PlaceInv, NEW a \in Workers, pc[a] \notin IdlePc
    PROVE  /\ task[a] \in Tasks
           /\ Fits(pc[a], state[task[a]])
           /\ ~ Queued(task[a])
           /\ \A w \in Workers \ {a} : task[w] # task[a]
           /\ state[task[a]] # "waiting_io" => \A s \in Slots : io_waits[s] # task[a]
  <1>1. task[a] \in Tasks /\ Fits(pc[a], state[task[a]])
    BY DEF PlaceInv, TasksFitWorkers, WorkerFits
  <1> QED
    BY <1>1, Zenon DEF PlaceInv, TasksFitWorkers, QueueIsRunnable, SlotsAreWaits

\* worker_loop_impl takes the head of the run queue.
LEMMA PopKeepsPlace ==
    ASSUME SchedInv, PlaceInv, NEW a \in Workers, LoopPop(a)
    PROVE  PlaceInv'
  <1> DEFINE h == Head(runnable_tasks)
  <1>0. /\ TypeOK /\ a \in Actors /\ pc \in [Actors -> Pc] /\ NoTask \notin Tasks
        /\ "running" \in Pc
    BY SchedulerAssumption DEF SchedInv, TypeOK, Pc, Actors, WorkerPc
  <1>1. MovesTo(a, "running")
    BY <1>0, MoveAt DEF LoopPop
  <1>2. /\ runnable_tasks \in Seq(Tasks) /\ runnable_tasks # << >>
        /\ IsInjective(runnable_tasks)
        /\ runnable_tasks' = Tail(runnable_tasks)
        /\ task' = [task EXCEPT ![a] = h]
        /\ UNCHANGED <<state, io_waits>>
    BY <1>0 DEF LoopPop, TypeOK, PlaceInv, QueueIsRunnable, ioVars
  <1>3. /\ h \in Tasks /\ Queued(h)
        /\ IsInjective(runnable_tasks')
        /\ \A t \in Tasks : Queued(t)' <=> Queued(t) /\ t # h
    BY <1>2, PopFacts DEF Queued
  <1>4. state[h] = "runnable" /\ \A w \in Workers : task[w] # h
    BY <1>3 DEF PlaceInv, QueueIsRunnable
  <1>5. /\ task'[a] = h /\ task[a] = NoTask
        /\ \A w \in Workers \ {a} : task'[w] = task[w]
    <2>1. WorkerFits(a) /\ pc[a] \in {"lock", "woken", "dispatch"}
      BY Zenon DEF PlaceInv, TasksFitWorkers, LoopPop, AtLoopHead
    <2> QED
      BY <1>0, <1>2, <2>1, Zenon DEF TypeOK, WorkerFits, Fits, RunPc, FinPc
  <1>6. TasksFitWorkers'
    <2>1. WorkerFits(a)'
      BY <1>1, <1>2, <1>3, <1>4, <1>5 DEF MovesTo, WorkerFits, Fits, RunPc
    <2>2. OthersKeep(a)
      BY <1>2, <1>5 DEF OthersKeep
    <2>3. \A w \in Workers : WorkerFits(w)'
      BY <1>0, <1>1, <2>1, <2>2, FitsKept, Zenon
    <2> QED
      BY <1>4, <1>5, <2>3, Zenon DEF PlaceInv, TasksFitWorkers
  <1>7. QueueIsRunnable'
    BY <1>2, <1>3, <1>5, Zenon DEF PlaceInv, QueueIsRunnable
  <1>8. SlotsAreWaits'
    BY <1>2, Zenon DEF PlaceInv, SlotsAreWaits
  <1>9. ASSUME NEW t \in Tasks PROVE Findable(t)'
    <2>1. Findable(t) /\ state' = state /\ io_waits' = io_waits
      BY <1>2, Zenon DEF PlaceInv
    <2>2. CASE t = h
      BY <1>4, <1>5, <2>1, <2>2, Zenon DEF Findable
    <2>3. CASE t # h
      <3>1. ASSUME NEW w \in Workers, task[w] = t PROVE task'[w] = t
        BY <1>0, <1>5, <3>1, Zenon
      <3> QED
        BY <1>3, <2>1, <2>3, <3>1, FindableKept, Zenon
    <2> QED
      BY <2>2, <2>3, Zenon
  <1> QED
    BY <1>6, <1>7, <1>8, <1>9, Zenon DEF PlaceInv

\* The task returns or parks: it stays with its worker, in a new state.
LEMMA StateKeepsPlace ==
    ASSUME SchedInv, PlaceInv, NEW a \in Workers, pc[a] = "running",
           NEW label \in Pc, MovesTo(a, label),
           NEW s \in {"finished", "waiting_io", "waiting_channel"},
           Fits(label, s), s # "waiting_io" => io_waits' = io_waits,
           s = "waiting_io" =>
              \E r \in Slots : /\ io_waits[r] = NoTask
                               /\ io_waits' = [io_waits EXCEPT ![r] = task[a]],
           state' = [state EXCEPT ![task[a]] = s],
           UNCHANGED <<runnable_tasks, task>>
    PROVE  PlaceInv'
  <1> DEFINE t == task[a]
  <1>0. TypeOK /\ a \in Actors /\ NoTask \notin Tasks
    BY SchedulerAssumption, Zenon DEF SchedInv, Actors
  <1>1. /\ t \in Tasks /\ state[t] = "runnable" /\ ~ Queued(t)
        /\ \A w \in Workers \ {a} : task[w] # t
        /\ \A r \in Slots : io_waits[r] # t
    BY OwnTask DEF IdlePc, Fits, RunPc, FinPc
  <1>2. state'[t] = s /\ \A u \in Tasks \ {t} : state'[u] = state[u]
    BY <1>0, <1>1, Zenon DEF TypeOK
  <1>3. TasksFitWorkers'
    <2>1. WorkerFits(a)'
      BY <1>1, <1>2, Zenon DEF MovesTo, WorkerFits
    <2>2. OthersKeep(a)
      BY <1>1, <1>2, Zenon DEF OthersKeep
    <2>3. \A w \in Workers : WorkerFits(w)'
      BY <1>0, <2>1, <2>2, FitsKept, Zenon
    <2> QED
      BY <2>3, Zenon DEF PlaceInv, TasksFitWorkers
  <1>4. QueueIsRunnable'
    BY <1>1, <1>2, Zenon DEF PlaceInv, QueueIsRunnable, Queued
  <1>5. CASE s = "waiting_io"
    <2>1. PICK r \in Slots : /\ io_waits[r] = NoTask
                             /\ io_waits' = [io_waits EXCEPT ![r] = t]
      BY <1>5
    <2>2. io_waits'[r] = t /\ \A q \in Slots \ {r} : io_waits'[q] = io_waits[q]
      BY <1>0, <2>1, Zenon DEF TypeOK
    <2>3. SlotsAreWaits'
      <3>1. ASSUME NEW q \in Slots, io_waits'[q] \in Tasks
            PROVE  /\ state'[io_waits'[q]] = "waiting_io"
                   /\ q # r => io_waits'[q] = io_waits[q] /\ io_waits'[q] # t
        <4>1. CASE q = r
          BY <1>2, <1>5, <2>2, <4>1, Zenon
        <4>2. CASE q # r
          <5>1. io_waits'[q] = io_waits[q] /\ io_waits[q] # t
            BY <1>1, <2>2, <4>2, Zenon
          <5>2. state[io_waits[q]] = "waiting_io"
            BY <3>1, <5>1, Zenon DEF PlaceInv, SlotsAreWaits
          <5> QED
            BY <1>2, <3>1, <5>1, <5>2, Zenon
        <4> QED
          BY <4>1, <4>2, Zenon
      <3>2. ASSUME NEW q \in Slots, NEW p \in Slots, io_waits'[q] \in Tasks,
                   io_waits'[q] = io_waits'[p]
            PROVE  q = p
        <4>1. (q # r => io_waits'[q] = io_waits[q] /\ io_waits'[q] # t)
              /\ (p # r => io_waits'[p] = io_waits[p] /\ io_waits'[p] # t)
          BY <3>1, <3>2, Zenon
        <4> QED
          BY <2>2, <3>2, <4>1, Zenon DEF PlaceInv, SlotsAreWaits
      <3> QED
        BY <3>1, <3>2, Zenon DEF SlotsAreWaits
    <2>4. ASSUME NEW u \in Tasks PROVE Findable(u)'
      <3>1. CASE u = t
        BY <1>2, <1>5, <2>2, <3>1, Zenon DEF Findable
      <3>2. CASE u # t
        <4>1. Findable(u) /\ state'[u] = state[u]
          BY <1>2, <3>2, Zenon DEF PlaceInv
        <4>2. ASSUME NEW q \in Slots, io_waits[q] = u PROVE io_waits'[q] = u
          BY <1>0, <2>1, <2>2, <4>2, Zenon
        <4> QED
          BY <4>1, <4>2, FindableKept, Zenon DEF Queued
      <3> QED
        BY <3>1, <3>2, Zenon
    <2> QED
      BY <1>3, <1>4, <2>3, <2>4, Zenon DEF PlaceInv
  <1>6. CASE s # "waiting_io"
    <2>0. io_waits' = io_waits
      BY <1>6, Zenon
    <2>1. SlotsAreWaits'
      BY <1>1, <1>2, <2>0, SlotsKept, Zenon DEF PlaceInv
    <2>2. ASSUME NEW u \in Tasks PROVE Findable(u)'
      <3>1. CASE u = t
        <4>1. s # "runnable" /\ \E w \in Workers : task'[w] = t
          BY Zenon
        <4> QED
          BY <1>2, <1>6, <3>1, <4>1, Zenon DEF Findable
      <3>2. CASE u # t
        <4>1. Findable(u) /\ state'[u] = state[u]
          BY <1>2, <3>2, Zenon DEF PlaceInv
        <4> QED
          BY <2>0, <4>1, FindableKept, Zenon DEF Queued
      <3> QED
        BY <3>1, <3>2, Zenon
    <2> QED
      BY <1>3, <1>4, <2>1, <2>2, Zenon DEF PlaceInv
  <1> QED
    BY <1>5, <1>6

\* A running task yields, returns or parks.
LEMMA GiveBackKeepsPlace ==
    ASSUME SchedInv, PlaceInv, NEW a \in Workers,
           \/ task_finished(a) \/ worker_park_current_on_channel_locked(a)
           \/ \E s \in Slots : worker_park_current_on_io(a, s)
    PROVE  PlaceInv'
  <1>0. a \in Actors /\ pc \in [Actors -> Pc]
    BY DEF SchedInv, TypeOK, Pc, Actors
  <1> USE DEF ioVars
  <1>1. CASE task_finished(a)
    <2> DEFINE label == IF task[a] = Main THEN "fin_lock" ELSE "check"
    <2>1. label \in Pc /\ Fits(label, "finished")
      BY DEF Pc, WorkerPc, Fits, FinPc
    <2>2. MovesTo(a, label)
      BY <1>0, <1>1, <2>1, MoveAt DEF task_finished
    <2> QED
      BY <1>1, <2>1, <2>2, StateKeepsPlace, Zenon DEF task_finished
  <1>2. "parking" \in Pc /\ \A s \in Waiting : Fits("parking", s)
    BY DEF Pc, WorkerPc, Fits
  <1>3. CASE worker_park_current_on_channel_locked(a)
    <2>1. MovesTo(a, "parking")
      BY <1>0, <1>2, <1>3, MoveAt DEF worker_park_current_on_channel_locked
    <2> QED
      BY <1>2, <1>3, <2>1, StateKeepsPlace, Zenon
         DEF worker_park_current_on_channel_locked, Waiting
  <1>4. ASSUME NEW s \in Slots, worker_park_current_on_io(a, s) PROVE PlaceInv'
    <2>1. MovesTo(a, "parking")
      BY <1>0, <1>2, <1>4, MoveAt DEF worker_park_current_on_io
    <2> QED
      BY <1>2, <1>4, <2>1, StateKeepsPlace, Zenon
         DEF worker_park_current_on_io, Waiting
  <1> QED
    BY <1>1, <1>3, <1>4

\* The worker lets go of its task: the task is parked, queued again or freed.
LEMMA LetGoKeepsPlace ==
    ASSUME SchedInv, PlaceInv, NEW a \in Workers, pc[a] \notin IdlePc,
           NEW label \in IdlePc \cap Pc, MovesTo(a, label),
           task' = [task EXCEPT ![a] = NoTask], UNCHANGED io_waits,
           \/ /\ UNCHANGED <<runnable_tasks, state>>
              /\ state[task[a]] \in Waiting
           \/ /\ runnable_tasks' = Push(runnable_tasks, task[a])
              /\ UNCHANGED state
              /\ state[task[a]] = "runnable"
           \/ /\ state' = [state EXCEPT ![task[a]] = "freed"]
              /\ UNCHANGED runnable_tasks
              /\ state[task[a]] # "waiting_io"
    PROVE  PlaceInv'
  <1> DEFINE t == task[a]
  <1>0. TypeOK /\ a \in Actors /\ NoTask \notin Tasks
    BY SchedulerAssumption DEF SchedInv, Actors
  <1>1. /\ t \in Tasks /\ ~ Queued(t)
        /\ \A w \in Workers \ {a} : task[w] # t
        /\ state[t] # "waiting_io" => \A r \in Slots : io_waits[r] # t
    BY OwnTask
  <1>2. /\ task'[a] = NoTask
        /\ \A w \in Workers \ {a} : task'[w] = task[w]
    BY <1>0, Zenon DEF TypeOK
  <1>3. /\ \A u \in Tasks \ {t} : state'[u] = state[u]
        /\ state'[t] = state[t] \/ state'[t] = "freed"
    BY <1>0, <1>1, Zenon DEF TypeOK
  <1>4. TasksFitWorkers'
    <2>1. WorkerFits(a)'
      BY <1>2, Zenon DEF MovesTo, WorkerFits
    <2>2. OthersKeep(a)
      BY <1>1, <1>2, <1>3, Zenon DEF OthersKeep
    <2>3. \A w \in Workers : WorkerFits(w)'
      BY <1>0, <2>1, <2>2, FitsKept, Zenon
    <2>4. ASSUME NEW v \in Workers, NEW w \in Workers,
                 task'[v] \in Tasks, task'[v] = task'[w]
          PROVE  v = w
      <3>1. v # a /\ w # a
        BY <1>0, <1>2, <2>4, Zenon
      <3> QED
        BY <1>2, <2>4, <3>1, Zenon DEF PlaceInv, TasksFitWorkers
    <2> QED
      BY <2>3, <2>4, Zenon DEF TasksFitWorkers
  <1>a. ASSUME NEW u \in Tasks, u # t, Queued(u) => Queued(u)' PROVE Findable(u)'
    <2>1. Findable(u) /\ state'[u] = state[u]
      BY <1>3, <1>a, Zenon DEF PlaceInv
    <2>2. ASSUME NEW w \in Workers, task[w] = u PROVE task'[w] = u
      BY <1>2, <1>a, <2>2, Zenon
    <2> QED
      BY <1>a, <2>1, <2>2, FindableKept, Zenon
  <1>b. ASSUME NEW u \in Tasks, Queued(u) PROVE state[u] = "runnable" /\ u # t
    BY <1>1, <1>b, Zenon DEF PlaceInv, QueueIsRunnable
  <1>c. ASSUME NEW u \in Tasks, u # t, \A w \in Workers : task[w] # u
        PROVE  \A w \in Workers : task'[w] # u
    BY <1>0, <1>2, <1>c, Zenon
  <1>d. ASSUME NEW w \in Workers PROVE task'[w] # t
    BY <1>0, <1>1, <1>2, Zenon
  <1>5. CASE UNCHANGED <<runnable_tasks, state>> /\ state[t] \in Waiting
    <2>1. QueueIsRunnable'
      BY <1>5, <1>b, <1>c, Zenon DEF PlaceInv, QueueIsRunnable, Queued
    <2>2. SlotsAreWaits'
      BY <1>5, SlotsKept, Zenon DEF PlaceInv
    <2>3. ASSUME NEW u \in Tasks, u = t PROVE Findable(u)'
      BY <1>5, <2>3, Zenon DEF PlaceInv, Findable, Waiting
    <2>4. ASSUME NEW u \in Tasks PROVE Findable(u)'
      BY <1>5, <1>a, <2>3, Zenon DEF Queued
    <2> QED
      BY <1>4, <2>1, <2>2, <2>4, Zenon DEF PlaceInv
  <1>6. CASE runnable_tasks' = Push(runnable_tasks, t) /\ UNCHANGED state
             /\ state[t] = "runnable"
    <2>1. /\ IsInjective(runnable_tasks')
          /\ \A u \in Tasks : Queued(u)' <=> Queued(u) \/ u = t
      <3>1. runnable_tasks \in Seq(Tasks) /\ IsInjective(runnable_tasks)
        BY <1>0, Zenon DEF TypeOK, PlaceInv, QueueIsRunnable
      <3>2. /\ IsInjective(runnable_tasks')
            /\ Range(runnable_tasks') = Range(runnable_tasks) \cup {t}
        BY <1>1, <1>6, <3>1, PushFacts, Zenon
      <3> QED
        BY <3>2, Zenon DEF Queued
    <2>2. QueueIsRunnable'
      <3>1. ASSUME NEW u \in Tasks, Queued(u)'
            PROVE  state'[u] = "runnable" /\ \A w \in Workers : task'[w] # u
        <4>1. CASE u = t
          BY <1>6, <1>d, <4>1, Zenon
        <4>2. CASE u # t
          <5>1. Queued(u)
            BY <2>1, <3>1, <4>2, Zenon
          <5> QED
            BY <1>6, <1>c, <4>2, <5>1, Zenon DEF PlaceInv, QueueIsRunnable
        <4> QED
          BY <4>1, <4>2, Zenon
      <3> QED
        BY <2>1, <3>1, Zenon DEF QueueIsRunnable
    <2>3. SlotsAreWaits'
      BY <1>6, SlotsKept, Zenon DEF PlaceInv
    <2>4. ASSUME NEW u \in Tasks, u = t PROVE Findable(u)'
      BY <1>6, <2>1, <2>4, Zenon DEF Findable
    <2>5. ASSUME NEW u \in Tasks PROVE Findable(u)'
      BY <1>a, <2>1, <2>4, Zenon
    <2> QED
      BY <1>4, <2>2, <2>3, <2>5, Zenon DEF PlaceInv
  <1>7. CASE state' = [state EXCEPT ![t] = "freed"] /\ UNCHANGED runnable_tasks
             /\ state[t] # "waiting_io"
    <2>0. state'[t] = "freed"
      BY <1>0, <1>1, <1>7, Zenon DEF TypeOK
    <2>1. QueueIsRunnable'
      <3>1. ASSUME NEW u \in Tasks, Queued(u)
            PROVE  state'[u] = "runnable" /\ \A w \in Workers : task'[w] # u
        BY <1>3, <1>b, <1>c, <3>1, Zenon DEF PlaceInv, QueueIsRunnable
      <3> QED
        BY <1>7, <3>1, Zenon DEF PlaceInv, QueueIsRunnable, Queued
    <2>2. SlotsAreWaits'
      BY <1>1, <1>3, <1>7, SlotsKept, Zenon DEF PlaceInv
    <2>3. ASSUME NEW u \in Tasks, u = t PROVE Findable(u)'
      BY <2>0, <2>3, Zenon DEF Findable
    <2>4. ASSUME NEW u \in Tasks PROVE Findable(u)'
      BY <1>7, <1>a, <2>3, Zenon DEF Queued
    <2> QED
      BY <1>4, <2>1, <2>2, <2>4, Zenon DEF PlaceInv
  <1> QED
    BY <1>5, <1>6, <1>7

\* worker_loop_impl after the switch back from a task.
LEMMA HandBackKeepsPlace ==
    ASSUME SchedInv, PlaceInv, NEW a \in Workers,
           ParkHandback(a) \/ AfterSwitch(a) \/ Requeue(a)
    PROVE  PlaceInv'
  <1>0. /\ a \in Actors /\ pc \in [Actors -> Pc]
        /\ "lock" \in IdlePc \cap Pc /\ "requeue" \in Pc
    BY DEF SchedInv, TypeOK, Pc, Actors, WorkerPc, IdlePc
  <1>1. pc[a] \notin IdlePc
    BY Zenon DEF ParkHandback, AfterSwitch, Requeue, IdlePc
  <1>2. Fits(pc[a], state[task[a]])
    BY <1>1, OwnTask
  <1> USE DEF ioVars
  <1>3. CASE ParkHandback(a)
    <2>1. MovesTo(a, "lock") /\ state[task[a]] \in Waiting
      BY <1>0, <1>2, <1>3, MoveAt, Zenon DEF ParkHandback, Fits, RunPc, FinPc
    <2> QED
      BY <1>0, <1>1, <1>3, <2>1, LetGoKeepsPlace, Zenon DEF ParkHandback
  <1>4. CASE AfterSwitch(a) /\ (state[task[a]] = "finished" \/ shutdown_requested)
    <2>1. MovesTo(a, "lock") /\ state[task[a]] # "waiting_io"
      BY <1>0, <1>2, <1>4, MoveAt, Zenon DEF AfterSwitch, Fits, RunPc, FinPc
    <2> QED
      BY <1>0, <1>1, <1>4, <2>1, LetGoKeepsPlace, Zenon DEF AfterSwitch
  <1>5. CASE AfterSwitch(a) /\ ~ (state[task[a]] = "finished" \/ shutdown_requested)
    <2>1. MovesTo(a, "requeue")
      BY <1>0, <1>5, MoveAt, Zenon DEF AfterSwitch
    <2>2. OthersKeep(a) /\ task' = task /\ state' = state
      BY <1>5, Zenon DEF AfterSwitch, OthersKeep
    <2>3. WorkerFits(a)'
      <3>1. state[task[a]] = "runnable" /\ task[a] \in Tasks
        BY <1>1, <1>2, <1>5, OwnTask, Zenon DEF AfterSwitch, Fits, RunPc, FinPc
      <3> QED
        BY <2>1, <2>2, <3>1, Zenon DEF WorkerFits, MovesTo, Fits, RunPc
    <2>4. TasksFitWorkers'
      BY <1>0, <2>1, <2>2, <2>3, FitsKept, Zenon DEF PlaceInv, TasksFitWorkers
    <2>5. runnable_tasks' = runnable_tasks /\ io_waits' = io_waits
      BY <1>5, Zenon DEF AfterSwitch
    <2>6. QueueIsRunnable'
      BY <2>2, <2>5, Zenon DEF PlaceInv, QueueIsRunnable, Queued
    <2>7. SlotsAreWaits'
      BY <2>2, <2>5, Zenon DEF PlaceInv, SlotsAreWaits
    <2>8. (\A t \in Tasks : Findable(t))'
      BY <2>2, <2>5, Zenon DEF PlaceInv, Findable, Queued
    <2> QED
      BY <2>4, <2>6, <2>7, <2>8, Zenon DEF PlaceInv
  <1>6. CASE Requeue(a)
    <2>1. MovesTo(a, "lock") /\ state[task[a]] = "runnable"
      BY <1>0, <1>2, <1>6, MoveSignal DEF Requeue, Fits, RunPc, FinPc
    <2> QED
      BY <1>0, <1>1, <1>6, <2>1, LetGoKeepsPlace, Zenon DEF Requeue
  <1> QED
    BY <1>3, <1>4, <1>5, <1>6, Zenon
-----------------------------------------------------------------------------
(***************************************************************************)
(* Steps that queue tasks that are on no worker.                           *)
(***************************************************************************)
\* The tasks in T are new or parked, the thread that queues them has the mutex.
LEMMA WakeKeepsPlace ==
    ASSUME SchedInv, PlaceInv, NEW a \in Actors, NEW label \in Pc,
           MovesTo(a, label), a \in Workers => SameWork(pc[a], label),
           mutex \in {a, Free}, NEW T \in SUBSET Tasks,
           \A t \in T : state[t] \in Waiting \cup {"unborn"},
           IsInjective(runnable_tasks'),
           \A t \in Tasks : Queued(t)' <=> Queued(t) \/ t \in T,
           \A t \in Tasks : state'[t] = IF t \in T THEN "runnable" ELSE state[t],
           \A s \in Slots : io_waits'[s] = IF io_waits[s] \in T THEN NoTask
                                           ELSE io_waits[s],
           UNCHANGED task
    PROVE  PlaceInv'
  <1>0. NoTask \notin Tasks /\ TypeOK
    BY SchedulerAssumption, Zenon DEF SchedInv
  <1>1. ASSUME NEW w \in Workers PROVE task[w] \notin T
    <2> SUFFICES ASSUME task[w] \in T PROVE FALSE
      BY Zenon
    <2>1. WorkerFits(w) /\ state[task[w]] \in Waiting \cup {"unborn"}
      BY Zenon DEF PlaceInv, TasksFitWorkers
    <2>2. pc[w] = "parking"
      BY <1>0, <2>1, Zenon DEF WorkerFits, Fits, Waiting
    <2>3. w = a
      BY <2>2, NoneParking
    <2> QED
      BY <2>2, <2>3, Zenon DEF SameWork, IdlePc, RunPc, FinPc
  <1>2. TasksFitWorkers'
    <2>1. OthersKeep(a)
      BY <1>1, Zenon DEF OthersKeep
    <2>2. ASSUME a \in Workers PROVE WorkerFits(a)'
      <3>1. WorkerFits(a) /\ pc'[a] = label /\ SameWork(pc[a], label) /\ task[a] \notin T
        BY <1>1, <2>2, Zenon DEF PlaceInv, TasksFitWorkers, MovesTo
      <3> QED
        BY <3>1, Zenon DEF WorkerFits, Fits, SameWork, IdlePc, RunPc, FinPc
    <2>3. \A w \in Workers : WorkerFits(w)'
      BY <2>1, <2>2, FitsKept, Zenon
    <2> QED
      BY <2>3, Zenon DEF PlaceInv, TasksFitWorkers
  <1>3. QueueIsRunnable'
    <2>1. ASSUME NEW t \in Tasks, Queued(t)'
          PROVE  state'[t] = "runnable" /\ \A w \in Workers : task'[w] # t
      <3>1. CASE t \in T
        BY <1>1, <3>1, Zenon
      <3>2. CASE t \notin T
        BY <2>1, <3>2, Zenon DEF PlaceInv, QueueIsRunnable
      <3> QED
        BY <3>1, <3>2, Zenon
    <2> QED
      BY <2>1, Zenon DEF QueueIsRunnable
  <1>4. SlotsAreWaits'
    <2>1. ASSUME NEW q \in Slots, io_waits'[q] \in Tasks
          PROVE  io_waits'[q] = io_waits[q] /\ state'[io_waits[q]] = state[io_waits[q]]
      <3>1. io_waits[q] \notin T
        BY <1>0, <2>1, Zenon
      <3> QED
        BY <2>1, <3>1, Zenon
    <2> QED
      BY <2>1, SlotsKept, Zenon DEF PlaceInv
  <1>5. ASSUME NEW t \in Tasks PROVE Findable(t)'
    <2>1. CASE t \in T
      BY <2>1, Zenon DEF Findable
    <2>2. CASE t \notin T
      <3>1. Findable(t) /\ state'[t] = state[t]
        BY <2>2, Zenon DEF PlaceInv
      <3>2. ASSUME NEW r \in Slots, io_waits[r] = t PROVE io_waits'[r] = t
        BY <2>2, <3>2, Zenon
      <3> QED
        BY <3>1, <3>2, FindableKept, Zenon
    <2> QED
      BY <2>1, <2>2, Zenon
  <1> QED
    BY <1>2, <1>3, <1>4, <1>5, Zenon DEF PlaceInv

\* The same for one task that is parked on no descriptor.
LEMMA QueueOneKeepsPlace ==
    ASSUME SchedInv, PlaceInv, NEW a \in Actors, NEW label \in Pc,
           MovesTo(a, label), a \in Workers => SameWork(pc[a], label),
           mutex \in {a, Free}, NEW t \in Tasks,
           state[t] \in {"waiting_channel", "unborn"},
           state' = [state EXCEPT ![t] = "runnable"],
           runnable_tasks' = Push(runnable_tasks, t),
           UNCHANGED <<task, io_waits>>
    PROVE  PlaceInv'
  <1>1. /\ IsInjective(runnable_tasks')
        /\ \A u \in Tasks : Queued(u)' <=> Queued(u) \/ u \in {t}
    <2>1. runnable_tasks \in Seq(Tasks) /\ IsInjective(runnable_tasks)
      BY Zenon DEF SchedInv, TypeOK, PlaceInv, QueueIsRunnable
    <2>2. /\ IsInjective(runnable_tasks')
          /\ Range(runnable_tasks') = Range(runnable_tasks) \cup {t}
      BY <2>1, PushFacts, Zenon
    <2> QED
      BY <2>2, Zenon DEF Queued
  <1>2. \A u \in Tasks : state'[u] = IF u \in {t} THEN "runnable" ELSE state[u]
    BY DEF SchedInv, TypeOK
  <1>3. \A s \in Slots : io_waits'[s] = IF io_waits[s] \in {t} THEN NoTask
                                        ELSE io_waits[s]
    BY DEF PlaceInv, SlotsAreWaits
  <1> QED
    BY <1>1, <1>2, <1>3, WakeKeepsPlace, Zenon DEF Waiting

\* A thread that has the mutex in its own hands, in terms of the program counter.
LEMMA HoldsMutex ==
    ASSUME SchedInv, NEW a \in Actors, pc[a] \in LockedPc
    PROVE  mutex = a
  BY DEF SchedInv, MutexHeld

\* worker_wake_task_locked, called by a channel operation or by shutdown.
LEMMA ChannelWakeKeepsPlace ==
    ASSUME SchedInv, PlaceInv, NEW a \in Actors, NEW t \in Tasks,
           ChannelWakeFirst(a, t) \/ ChannelWakeNext(a, t) \/ ShutdownWake(a, t)
    PROVE  PlaceInv'
  <1>0. pc \in [Actors -> Pc] /\ "chan" \in Pc /\ "closing" \in Pc
    BY DEF SchedInv, TypeOK, Pc, UserPc
  <1>1. CASE ChannelWakeFirst(a, t) \/ ChannelWakeNext(a, t)
    <2>1. a \in Workers => SameWork(pc[a], "chan")
      BY <1>1, Zenon
         DEF ChannelWakeFirst, ChannelWakeNext, InUserCode, SameWork, RunPc
    <2>2. MovesTo(a, "chan")
      BY <1>0, <1>1, MoveSignal, Zenon
         DEF ChannelWakeFirst, ChannelWakeNext, worker_wake_task_locked
    <2>3. mutex \in {a, Free}
      BY <1>1, HoldsMutex DEF ChannelWakeFirst, ChannelWakeNext, LockedPc
    <2> QED
      BY <1>0, <1>1, <2>1, <2>2, <2>3, QueueOneKeepsPlace, Zenon
         DEF ChannelWakeFirst, ChannelWakeNext, worker_wake_task_locked
  <1>2. CASE ShutdownWake(a, t)
    <2>1. SameWork(pc[a], "closing") /\ mutex = a
      BY <1>2, HoldsMutex, Zenon DEF ShutdownWake, SameWork, RunPc, LockedPc
    <2>2. MovesTo(a, "closing")
      BY <1>0, <1>2, MoveSignal, Zenon DEF ShutdownWake, worker_wake_task_locked
    <2> QED
      BY <1>0, <1>2, <2>1, <2>2, QueueOneKeepsPlace, Zenon
         DEF ShutdownWake, worker_wake_task_locked
  <1> QED
    BY <1>1, <1>2

\* worker_spawn, called by croutine_spawn and for the main task.
LEMMA SpawnKeepsPlace ==
    ASSUME SchedInv, PlaceInv, NEW a \in Actors, NEW t \in Tasks,
           croutine_spawn(a, t) \/ (a = MainThread /\ t = Main /\ SpawnMain)
    PROVE  PlaceInv'
  <1>0. pc \in [Actors -> Pc] /\ "poke" \in Pc /\ "create" \in Pc /\ MainThread \notin Workers
    BY SchedulerAssumption DEF SchedInv, TypeOK, Pc, UserPc, MainPc
  <1>1. ASSUME NEW label \in Pc, label # "cond", worker_spawn(a, t, label),
               a \in Workers => SameWork(pc[a], label)
        PROVE  PlaceInv'
    <2>1. MovesTo(a, label)
      BY <1>0, <1>1, MoveSignal, Zenon DEF worker_spawn
    <2> QED
      BY <1>1, <2>1, QueueOneKeepsPlace, Zenon DEF worker_spawn, ioVars
  <1>2. CASE croutine_spawn(a, t)
    <2> DEFINE label == IF poller_waiter_active THEN "poke" ELSE Resume(a)
    <2>1. label \in Pc /\ label # "cond" /\ (a \in Workers => SameWork(pc[a], label))
      BY <1>0, <1>2, ResumeFacts, Zenon
         DEF croutine_spawn, InUserCode, SameWork, RunPc
    <2> QED
      BY <1>1, <1>2, <2>1, Zenon DEF croutine_spawn
  <1>3. CASE a = MainThread /\ t = Main /\ SpawnMain
    BY <1>0, <1>1, <1>3, Zenon DEF SpawnMain
  <1> QED
    BY <1>2, <1>3, Zenon

\* wake_waiting_tasks_locked queues the tasks parked on the reported slots, each
\* once, and clears their slots.
LEMMA WakeWaitingFacts ==
    ASSUME SchedInv, PlaceInv, NEW fd \in Fds, NEW evs \in SUBSET Events,
           wake_waiting_tasks_locked(fd, evs)
    PROVE  /\ Woken(fd, evs) \in SUBSET Tasks
           /\ \A t \in Woken(fd, evs) : state[t] = "waiting_io"
           /\ IsInjective(runnable_tasks')
           /\ \A t \in Tasks : Queued(t)' <=> Queued(t) \/ t \in Woken(fd, evs)
           /\ \A s \in Slots : io_waits'[s] = IF io_waits[s] \in Woken(fd, evs)
                                              THEN NoTask ELSE io_waits[s]
  <1> DEFINE r == <<fd, "read">>
             w == <<fd, "write">>
             q == PushSlot(runnable_tasks, r, evs)
             Of(s) == IF s[2] \in evs /\ io_waits[s] # NoTask THEN {io_waits[s]} ELSE {}
  <1>0. /\ TypeOK /\ NoTask \notin Tasks
        /\ r \in Slots /\ w \in Slots /\ r[2] = "read" /\ w[2] = "write"
        /\ \A e \in evs : <<fd, e>> \in Slots
    BY SchedulerAssumption DEF SchedInv, Slots, Events
  <1>1. /\ Woken(fd, evs) \in SUBSET Tasks
        /\ \A t \in Woken(fd, evs) : state[t] = "waiting_io"
    <2>1. ASSUME NEW t \in Woken(fd, evs) PROVE t \in Tasks /\ state[t] = "waiting_io"
      <3>1. PICK e \in evs : t = io_waits[<<fd, e>>] /\ t # NoTask
        BY Zenon DEF Woken
      <3>2. t \in Tasks
        BY <1>0, <3>1, Zenon DEF TypeOK
      <3> QED
        BY <1>0, <3>1, <3>2, Zenon DEF PlaceInv, SlotsAreWaits
    <2> QED
      BY <2>1, Zenon
  <1>2. ASSUME NEW p \in Seq(Tasks), IsInjective(p), NEW s \in Slots
        PROVE  /\ PushSlot(p, s, evs) \in Seq(Tasks)
               /\ IsInjective(PushSlot(p, s, evs))
               /\ Range(PushSlot(p, s, evs)) = Range(p) \cup Of(s)
    BY <1>0, <1>2, PushFacts, PushType DEF PushSlot, TypeOK
  <1>3. /\ q \in Seq(Tasks) /\ IsInjective(q)
        /\ Range(q) = Range(runnable_tasks) \cup Of(r)
    BY <1>0, <1>2, Zenon DEF TypeOK, PlaceInv, QueueIsRunnable
  <1>4. /\ IsInjective(runnable_tasks')
        /\ Range(runnable_tasks') = Range(q) \cup Of(w)
    BY <1>0, <1>2, <1>3, Zenon DEF wake_waiting_tasks_locked
  <1>5. Woken(fd, evs) = Of(r) \cup Of(w)
    BY <1>0, Zenon DEF Woken, Events
  <1>6. ASSUME NEW s \in Slots
        PROVE  io_waits'[s] = IF io_waits[s] \in Woken(fd, evs)
                              THEN NoTask ELSE io_waits[s]
    <2>1. io_waits'[s] = IF s[1] = fd /\ s[2] \in evs THEN NoTask ELSE io_waits[s]
      BY Zenon DEF wake_waiting_tasks_locked
    <2>2. s = <<s[1], s[2]>> /\ s[2] \in Events
      BY DEF Slots
    <2>3. s[1] = fd /\ s[2] \in evs /\ io_waits[s] # NoTask =>
             io_waits[s] \in Woken(fd, evs)
      BY <2>2 DEF Woken
    <2>4. ASSUME io_waits[s] \in Woken(fd, evs) PROVE s[1] = fd /\ s[2] \in evs
      <3>1. PICK e \in evs : io_waits[s] = io_waits[<<fd, e>>]
        BY <2>4, Zenon DEF Woken
      <3>2. s = <<fd, e>>
        BY <1>0, <1>1, <2>4, <3>1, Zenon DEF PlaceInv, SlotsAreWaits
      <3> QED
        BY <3>2, Zenon
    <2> QED
      BY <2>1, <2>3, <2>4, Zenon
  <1> QED
    BY <1>1, <1>3, <1>4, <1>5, <1>6, Zenon DEF Queued

\* wake_waiting_tasks_locked, whoever calls it.
LEMMA WakeWaitingKeepsPlace ==
    ASSUME SchedInv, PlaceInv, NEW a \in Actors, NEW label \in Pc,
           MovesTo(a, label), a \in Workers => SameWork(pc[a], label),
           mutex \in {a, Free}, NEW fd \in Fds, NEW evs \in SUBSET Events,
           wake_waiting_tasks_locked(fd, evs), UNCHANGED task
    PROVE  PlaceInv'
  <1> DEFINE T == Woken(fd, evs)
  <1>1. \A t \in Tasks : state'[t] = IF t \in T THEN "runnable" ELSE state[t]
    BY Zenon DEF wake_waiting_tasks_locked
  <1>2. /\ T \in SUBSET Tasks
        /\ \A t \in T : state[t] \in Waiting \cup {"unborn"}
        /\ IsInjective(runnable_tasks')
        /\ \A t \in Tasks : Queued(t)' <=> Queued(t) \/ t \in T
        /\ \A s \in Slots : io_waits'[s] = IF io_waits[s] \in T
                                           THEN NoTask ELSE io_waits[s]
    BY WakeWaitingFacts DEF Waiting
  <1> HIDE DEF T
  <1> QED
    BY <1>1, <1>2, WakeKeepsPlace, Zenon

\* The worker in the poller delivers what it was told.
LEMMA DeliverKeepsPlace ==
    ASSUME SchedInv, PlaceInv, NEW a \in Workers, NEW fd \in Fds, DeliverEvents(a, fd)
    PROVE  PlaceInv'
  <1> DEFINE evs == {e \in Events : <<fd, e>> \in events[a]}
  <1>0. a \in Actors /\ pc \in [Actors -> Pc] /\ "dispatch" \in Pc
    BY Zenon DEF SchedInv, TypeOK, Pc, Actors, WorkerPc
  <1>1. pc = At(a, "dispatch") /\ SameWork(pc[a], "dispatch") /\ mutex = a
    BY <1>0, HoldsMutex, Zenon DEF DeliverEvents, At, SameWork, IdlePc, LockedPc
  <1>2. MovesTo(a, "dispatch")
    BY <1>0, <1>1, MoveAt, MoveBroadcast, Zenon DEF DeliverEvents
  <1>3. evs \in SUBSET Events /\ wake_waiting_tasks_locked(fd, evs) /\ UNCHANGED task
    BY Zenon DEF DeliverEvents
  <1> HIDE DEF evs
  <1> QED
    BY <1>0, <1>1, <1>2, <1>3, WakeWaitingKeepsPlace, Zenon

\* worker_forget_fd wakes the waiters of a descriptor.
LEMMA ForgetKeepsPlace ==
    ASSUME SchedInv, PlaceInv, NEW a \in Actors, NEW fd \in Fds, worker_forget_fd(a, fd)
    PROVE  PlaceInv'
  <1> DEFINE label == IF poller_waiter_active THEN "poke" ELSE Resume(a)
  <1>0. pc \in [Actors -> Pc] /\ "poke" \in Pc
    BY Zenon DEF SchedInv, TypeOK, Pc, UserPc
  <1>1. label \in Pc /\ label # "cond" /\ (a \in Workers => SameWork(pc[a], label))
    BY <1>0, ResumeFacts, Zenon DEF worker_forget_fd, InUserCode, SameWork, RunPc
  <1>2. MovesTo(a, label)
    BY <1>0, <1>1, MoveBroadcast DEF worker_forget_fd
  <1> QED
    BY <1>1, <1>2, WakeWaitingKeepsPlace, Zenon DEF worker_forget_fd

\* worker_deinit frees what is queued or parked on a descriptor; no worker has
\* such a task.
LEMMA DeinitKeepsPlace ==
    ASSUME SchedInv, PlaceInv, worker_deinit
    PROVE  PlaceInv'
  <1> DEFINE left == Range(runnable_tasks) \cup (Range(io_waits) \ {NoTask})
  <1>0. /\ MainThread \in Actors \ Workers /\ pc \in [Actors -> Pc] /\ "done" \in Pc
        /\ NoTask \notin Tasks /\ TypeOK
    BY SchedulerAssumption, Zenon DEF SchedInv, TypeOK, Pc, Actors, MainPc
  <1>1. /\ runnable_tasks' = << >> /\ task' = task
        /\ \A s \in Slots : io_waits'[s] = NoTask
        /\ \A t \in Tasks : state'[t] = IF t \in left THEN "freed" ELSE state[t]
    BY Zenon DEF worker_deinit
  <1>2. \A t \in left : \/ Queued(t)
                        \/ t \in Tasks /\ state[t] = "waiting_io"
    <2> SUFFICES ASSUME NEW t \in left, ~ Queued(t)
                 PROVE  t \in Tasks /\ state[t] = "waiting_io"
      BY Zenon
    <2>1. io_waits \in [Slots -> Tasks \cup {NoTask}]
      BY <1>0, Zenon DEF TypeOK
    <2>2. PICK r \in Slots : io_waits[r] = t /\ t # NoTask
      BY <2>1, Zenon DEF Queued, Range
    <2> QED
      BY <2>1, <2>2, Zenon DEF PlaceInv, SlotsAreWaits
  <1>3. \A t \in Tasks : Queued(t) \/ state[t] = "waiting_io" => t \in left
    BY <1>0, Zenon DEF Range, Queued, PlaceInv, Findable, TypeOK
  <1> HIDE DEF left
  <1>4. ASSUME NEW w \in Workers PROVE task[w] \notin left
    <2> SUFFICES ASSUME task[w] \in left PROVE FALSE
      BY Zenon
    <2>1. WorkerFits(w) /\ pc[w] # "parking"
      BY <1>0, NoneParking, Zenon DEF PlaceInv, TasksFitWorkers, worker_deinit
    <2>2. task[w] \in Tasks => ~ Queued(task[w])
      BY Zenon DEF PlaceInv, QueueIsRunnable
    <2>3. left \subseteq Tasks
      <3>1. Range(runnable_tasks) \subseteq Tasks
        BY <1>0, QueueRange, Zenon DEF TypeOK
      <3> QED
        BY <1>2, <3>1, Zenon DEF Queued
    <2> QED
      BY <1>2, <2>1, <2>2, <2>3, <1>0, Zenon DEF WorkerFits, Fits
  <1>5. TasksFitWorkers'
    <2>1. MovesTo(MainThread, "done")
      BY <1>0, MoveAt, Zenon DEF worker_deinit
    <2>2. OthersKeep(MainThread)
      BY <1>1, <1>4 DEF OthersKeep
    <2>3. \A w \in Workers : WorkerFits(w)'
      BY <1>0, <2>1, <2>2, FitsKept, Zenon
    <2> QED
      BY <1>1, <2>3, Zenon DEF PlaceInv, TasksFitWorkers
  <1>6. QueueIsRunnable' /\ SlotsAreWaits'
    <2>1. Range(<< >>) = {} /\ IsInjective(<< >>)
      BY DEF Range, IsInjective
    <2>2. QueueIsRunnable'
      BY <1>1, <2>1, Zenon DEF QueueIsRunnable, Queued
    <2>3. SlotsAreWaits'
      BY <1>0, <1>1, Zenon DEF SlotsAreWaits
    <2> QED
      BY <2>2, <2>3, Zenon
  <1>7. (\A t \in Tasks : Findable(t))'
    BY <1>1, <1>3 DEF PlaceInv, Findable
  <1> QED
    BY <1>5, <1>6, <1>7, Zenon DEF PlaceInv
-----------------------------------------------------------------------------
\* No task exists yet.
LEMMA InitEstablishesPlace == Init => PlaceInv
  <1> SUFFICES ASSUME Init PROVE PlaceInv
    OBVIOUS
  <1>0. NoTask \notin Tasks
    BY SchedulerAssumption, Zenon
  <1>1. TasksFitWorkers
    BY <1>0, Zenon DEF Init, TasksFitWorkers, WorkerFits, IdlePc, Actors
  <1>2. QueueIsRunnable /\ SlotsAreWaits
    BY <1>0 DEF Init, QueueIsRunnable, SlotsAreWaits, Queued, Range, IsInjective
  <1>3. \A t \in Tasks : Findable(t)
    BY DEF Init, Findable
  <1> QED
    BY <1>1, <1>2, <1>3 DEF PlaceInv

\* Every step keeps the invariant.
LEMMA NextKeepsPlace == SchedInv /\ PlaceInv /\ [Next]_vars => PlaceInv'
  <1> SUFFICES ASSUME SchedInv, PlaceInv, [Next]_vars PROVE PlaceInv'
    OBVIOUS
  <1>1. Fds \X WaitFor \subseteq Slots /\ MainThread \in Actors /\ Main \in Tasks
    BY SchedulerAssumption, Zenon DEF Slots, Actors
  <1>2. ASSUME NEW w \in Workers, WorkerStep(w) \/ GiveBack(w) \/ SpuriousWakeup(w)
        PROVE  PlaceInv'
    BY <1>1, <1>2, QuietWorkerSteps, PopKeepsPlace, DeliverKeepsPlace,
       GiveBackKeepsPlace, HandBackKeepsPlace, Zenon
       DEF WorkerStep, Loop, GiveBack
  <1>3. ASSUME NEW a \in Actors, CallStep(a) \/ Call(a) PROVE PlaceInv'
    BY <1>3, QuietCallSteps, ChannelWakeKeepsPlace, SpawnKeepsPlace,
       ForgetKeepsPlace, Zenon
       DEF CallStep, Call
  <1>4. CASE MainThreadStep
    BY <1>1, <1>4, QuietMainSteps, SpawnKeepsPlace, DeinitKeepsPlace, Zenon
       DEF MainThreadStep
  <1>5. CASE Kernel \/ Terminated \/ UNCHANGED vars
    <2>1. UNCHANGED <<pc, runnable_tasks, state, task, io_waits>>
      BY <1>5, Zenon
         DEF Kernel, FdReady, FdConsumed, Terminated, vars, schedVars, ioVars
    <2> QED
      BY <2>1, Zenon
         DEF PlaceInv, TasksFitWorkers, WorkerFits, QueueIsRunnable, SlotsAreWaits,
         Findable, Queued
  <1> QED
    BY <1>2, <1>3, <1>4, <1>5 DEF Next

\* What the places of a task have in common: it is in exactly one of them.
LEMMA PlaceImplication == SchedInv /\ PlaceInv => TaskInOnePlace
  <1> SUFFICES ASSUME SchedInv, PlaceInv PROVE TaskInOnePlace
    OBVIOUS
  <1>0. TypeOK /\ NoTask \notin Tasks
    BY SchedulerAssumption, Zenon DEF SchedInv
  <1>1. \A i, j \in DOMAIN runnable_tasks :
           runnable_tasks[i] = runnable_tasks[j] => i = j
    BY Zenon DEF PlaceInv, QueueIsRunnable, IsInjective
  <1> SUFFICES ASSUME NEW t \in Tasks
        PROVE /\ state[t] \in {"unborn", "freed"} =>
                    ~ Queued(t) /\ Holders(t) = {} /\ SlotsOf(t) = {}
              /\ state[t] = "runnable" =>
                    /\ SlotsOf(t) = {}
                    /\ IF Queued(t) THEN Holders(t) = {}
                                    ELSE \E w \in Workers : Holders(t) = {w}
              /\ state[t] = "finished" =>
                    /\ ~ Queued(t) /\ SlotsOf(t) = {}
                    /\ \E w \in Workers : Holders(t) = {w}
              /\ state[t] = "waiting_io" =>
                    ~ Queued(t) /\ \E s \in Slots : SlotsOf(t) = {s}
              /\ state[t] = "waiting_channel" =>
                    ~ Queued(t) /\ SlotsOf(t) = {}
              /\ state[t] \in {"waiting_io", "waiting_channel"} =>
                    \A w \in Holders(t) : pc[w] = "parking" /\ mutex = w
    BY <1>1, Zenon DEF TaskInOnePlace
  <1>2. Queued(t) => state[t] = "runnable" /\ Holders(t) = {}
    BY Zenon DEF PlaceInv, QueueIsRunnable, Holders
  <1>3. ASSUME NEW w \in Holders(t) PROVE Holders(t) = {w} /\ Fits(pc[w], state[t])
    BY <1>0, Zenon DEF PlaceInv, TasksFitWorkers, WorkerFits, Holders
  <1>4. ASSUME NEW s \in SlotsOf(t) PROVE SlotsOf(t) = {s} /\ state[t] = "waiting_io"
    BY DEF PlaceInv, SlotsAreWaits, SlotsOf
  <1>5. Findable(t)
    BY DEF PlaceInv
  <1>6. ASSUME NEW w \in Holders(t), state[t] \in {"waiting_io", "waiting_channel"}
        PROVE  pc[w] = "parking" /\ mutex = w
    <2>1. pc[w] = "parking"
      BY <1>3, <1>6, Zenon DEF Fits
    <2> QED
      BY <2>1, HoldsMutex, Zenon DEF Holders, LockedPc, Actors
  <1>7. Holders(t) # {} => state[t] \notin {"unborn", "freed"}
    BY <1>3, Zenon DEF Fits, Waiting
  <1>8. /\ Holders(t) \subseteq Workers /\ SlotsOf(t) \subseteq Slots
        /\ state[t] = "waiting_io" => SlotsOf(t) # {}
        /\ state[t] = "runnable" => Queued(t) \/ Holders(t) # {}
        /\ state[t] = "finished" => Holders(t) # {}
    BY <1>5 DEF Findable, Holders, SlotsOf
  <1> HIDE DEF Queued, Holders, SlotsOf
  <1> QED
    BY <1>2, <1>3, <1>4, <1>6, <1>7, <1>8, Zenon

\* PlaceInv is an invariant: what worker.c takes for granted about the task
\* pointers it finds on a worker, in the run queue and in the wait table.
THEOREM PlaceInvariant == Spec => []PlaceInv
  BY SchedulerInvariant, InitEstablishesPlace, NextKeepsPlace, PTL DEF Spec

\* Every task is in one place.
THEOREM TasksAreInOnePlace == Spec => []TaskInOnePlace
  BY SchedulerInvariant, PlaceInvariant, PlaceImplication, PTL
-----------------------------------------------------------------------------
(***************************************************************************)
(* Every step moves one thread, whatever it does to the tasks.             *)
(***************************************************************************)
\* A worker moves, and moves alone.
LEMMA WorkerMoves ==
    ASSUME SchedInv, NEW a \in Workers,
           WorkerStep(a) \/ GiveBack(a) \/ SpuriousWakeup(a)
    PROVE  /\ pc[a] \notin {"new", "exit"}
           /\ MovesTo(a, pc'[a])
           /\ UNCHANGED <<shutdown_requested, runtime_init_ok, ran>>
  <1>0. a \in Actors /\ pc \in [Actors -> Pc]
    BY Zenon DEF SchedInv, TypeOK, Pc, Actors
  <1> USE DEF stopVars
  <1>1. ASSUME NEW label \in Pc,
               \/ pc' = At(a, label)
               \/ label # "cond" /\ (pc' = Broadcast(At(a, label)) \/ pc' \in Signal(At(a, label)))
        PROVE  MovesTo(a, pc'[a])
    <2>1. MovesTo(a, label)
      BY <1>0, <1>1, MoveAt, MoveSignal, MoveBroadcast, Zenon
    <2> QED
      BY <2>1, Zenon DEF MovesTo
  <1>2. pc[a] = "dispatch" => At(a, "dispatch") = pc
    BY <1>0, Zenon DEF At
  <1> USE DEF Pc, WorkerPc
  <1>3. CASE Loop(a)
    <2>1. CASE LoopExit(a)
      BY <1>1, <2>1, Zenon DEF LoopExit, AtLoopHead
    <2>2. CASE LoopBeginPoll(a) \/ LoopPop(a)
      BY <1>1, <2>2, Zenon DEF LoopBeginPoll, LoopPop, AtLoopHead
    <2>3. CASE LoopCondWait(a)
      BY <1>1, <2>3, Zenon DEF LoopCondWait, AtLoopHead
    <2> QED
      BY <1>3, <2>1, <2>2, <2>3, Zenon DEF Loop
  <1>4. CASE SpuriousWakeup(a) \/ PollReturn(a) \/ PollRelock(a)
    BY <1>1, <1>4, Zenon DEF SpuriousWakeup, PollReturn, PollRelock
  <1>5. ASSUME NEW fd \in Fds, DeliverEvents(a, fd)
        PROVE  /\ pc[a] \notin {"new", "exit"}
               /\ MovesTo(a, pc'[a])
               /\ UNCHANGED <<shutdown_requested, runtime_init_ok, ran>>
    <2>1. pc[a] = "dispatch" /\ (pc' = pc \/ pc' = Broadcast(pc))
      BY <1>5, Zenon DEF DeliverEvents
    <2>2. pc' = At(a, "dispatch") \/ pc' = Broadcast(At(a, "dispatch"))
      BY <1>2, <2>1, Zenon
    <2>3. MovesTo(a, pc'[a])
      BY <1>1, <2>2, Zenon
    <2> QED
      BY <1>5, <2>1, <2>3, Zenon DEF DeliverEvents
  <1>6. CASE GiveBack(a)
    BY <1>1, <1>6, Zenon
       DEF GiveBack, worker_yield, task_finished,
       worker_park_current_on_channel_locked, worker_park_current_on_io
  <1>7. CASE MainFinishedLocked(a) \/ MainFinishedPoke(a)
    BY <1>1, <1>7, Zenon DEF MainFinishedLocked, MainFinishedPoke
  <1>8. CASE ParkHandback(a) \/ AfterSwitch(a) \/ Requeue(a)
    BY <1>1, <1>8, Zenon DEF ParkHandback, AfterSwitch, Requeue
  <1> QED
    BY <1>3, <1>4, <1>5, <1>6, <1>7, <1>8, Zenon DEF WorkerStep

\* A thread in a library call moves; shutdown is never taken back.
LEMMA CallMoves ==
    ASSUME SchedInv, NEW a \in Actors, CallStep(a) \/ Call(a)
    PROVE  /\ pc[a] \in {"running", "user", "chan", "closing", "set_main", "poke", "shutdown"}
           /\ MovesTo(a, pc'[a])
           /\ shutdown_requested => shutdown_requested'
           /\ UNCHANGED <<runtime_init_ok, ran>>
  <1>0. pc \in [Actors -> Pc]
    BY Zenon DEF SchedInv, TypeOK, Pc
  <1> USE DEF stopVars
  <1>1. ASSUME NEW label \in Pc,
               \/ pc' = At(a, label)
               \/ label # "cond" /\ (pc' = Broadcast(At(a, label)) \/ pc' \in Signal(At(a, label)))
        PROVE  MovesTo(a, pc'[a])
    <2>1. MovesTo(a, label)
      BY <1>0, <1>1, MoveAt, MoveSignal, MoveBroadcast, Zenon
    <2> QED
      BY <2>1, Zenon DEF MovesTo
  <1>2. Resume(a) \in Pc \ {"cond"}
    BY ResumeFacts, Zenon
  <1> USE DEF Pc, UserPc
  <1>3. CASE ChannelUnlock(a)
    BY <1>1, <1>2, <1>3, Zenon DEF ChannelUnlock
  <1>8. CASE PokePoller(a)
    BY <1>1, <1>2, <1>8, Zenon DEF PokePoller
  <1>4. CASE ShutdownLock(a)
    BY <1>1, <1>4, Zenon DEF ShutdownLock, InUserCode
  <1>9. CASE ShutdownUnlock(a)
    BY <1>1, <1>9, Zenon DEF ShutdownUnlock
  <1>10. CASE ShutdownTellMain(a)
    BY <1>1, <1>10, Zenon DEF ShutdownTellMain
  <1>5. ASSUME NEW t \in Tasks,
               ShutdownWake(a, t) \/ ChannelWakeFirst(a, t) \/ ChannelWakeNext(a, t)
        PROVE  /\ pc[a] \in {"running", "user", "chan", "closing"}
               /\ MovesTo(a, pc'[a])
               /\ UNCHANGED <<shutdown_requested, runtime_init_ok, ran>>
    BY <1>1, <1>5, Zenon
       DEF ShutdownWake, ChannelWakeFirst, ChannelWakeNext,
       worker_wake_task_locked, InUserCode
  <1>6. ASSUME NEW t \in Tasks, croutine_spawn(a, t)
        PROVE  /\ pc[a] \in {"running", "user"}
               /\ MovesTo(a, pc'[a])
               /\ UNCHANGED <<shutdown_requested, runtime_init_ok, ran>>
    BY <1>1, <1>2, <1>6, Zenon DEF croutine_spawn, worker_spawn, InUserCode
  <1>7. ASSUME NEW fd \in Fds, worker_forget_fd(a, fd)
        PROVE  /\ pc[a] \in {"running", "user"}
               /\ MovesTo(a, pc'[a])
               /\ UNCHANGED <<shutdown_requested, runtime_init_ok, ran>>
    BY <1>1, <1>2, <1>7, Zenon DEF worker_forget_fd, InUserCode
  <1> QED
    BY <1>3, <1>4, <1>5, <1>6, <1>7, <1>8, <1>9, <1>10, Zenon DEF CallStep, Call

\* The thread in croutine_run moves, or starts a worker.
LEMMA MainMoves ==
    ASSUME SchedInv, MainThreadStep
    PROVE  \/ MovesTo(MainThread, pc'[MainThread])
           \/ \E w \in Workers : StartWorker(w) /\ MovesTo(w, "lock")
  <1>0. /\ pc \in [Actors -> Pc] /\ MainThread \in Actors /\ Workers \subseteq Actors
    BY Zenon DEF SchedInv, TypeOK, Pc, Actors
  <1> USE DEF Pc, MainPc
  <1>1. ASSUME NEW label \in MainPc,
               pc' = At(MainThread, label) \/ pc' \in Signal(At(MainThread, label))
        PROVE  MovesTo(MainThread, pc'[MainThread])
    <2>1. MovesTo(MainThread, label)
      BY <1>0, <1>1, MoveAt, MoveSignal, Zenon
    <2> QED
      BY <2>1, Zenon DEF MovesTo
  <1>2. ASSUME NEW w \in Workers, StartWorker(w) PROVE MovesTo(w, "lock")
    BY <1>0, <1>2, MoveAt, Zenon DEF StartWorker, WorkerPc
  <1>3. CASE SpawnMain
    BY <1>1, <1>3, Zenon DEF SpawnMain, worker_spawn
  <1>4. CASE SpawnMainFails \/ CreateFails \/ AllStarted
    BY <1>1, <1>4, Zenon DEF SpawnMainFails, CreateFails, AllStarted
  <1>5. CASE worker_wait_for_main \/ JoinWorkers \/ worker_deinit
    BY <1>1, <1>5, Zenon DEF worker_wait_for_main, JoinWorkers, worker_deinit
  <1> QED
    BY <1>2, <1>3, <1>4, <1>5, Zenon DEF MainThreadStep
-----------------------------------------------------------------------------
(***************************************************************************)
(* The thread in croutine_run, and what is left when it returns.           *)
(***************************************************************************)
\* Where it is once croutine_runtime_run has given up or come back, and after it
\* has requested shutdown itself.
StoppingPc == {"closing", "set_main", "poke", "deinit", "done"}
EndPc == {"shutdown"} \cup StoppingPc

Stopped(w) == pc[w] \in {"new", "exit"}

\* The inductive invariant about croutine_run: workers exist only between the spawn of
\* the main task and the join, and worker_deinit runs after both.
RunInv ==
    /\ pc[MainThread] \in {"spawn_main", "create", "wait", "join"} \cup EndPc
    /\ pc[MainThread] = "spawn_main" => \A w \in Workers : pc[w] = "new"
    /\ ran => pc[MainThread] \in EndPc /\ \A w \in Workers : Stopped(w)
    /\ pc[MainThread] \in StoppingPc => shutdown_requested
    /\ pc[MainThread] \in {"deinit", "done"} => ran
    /\ pc[MainThread] = "done" <=> ~ runtime_init_ok
    /\ NoLeak

\* Another thread moves; a worker is not started or revived after the end.
LEMMA OtherKeepsRun ==
    ASSUME SchedInv, RunInv, NEW a \in Actors, a # MainThread, MovesTo(a, pc'[a]),
           shutdown_requested => shutdown_requested',
           UNCHANGED <<runtime_init_ok, ran>>,
           a \in Workers => \/ ~ Stopped(a)
                            \/ pc[MainThread] = "create",
           pc[MainThread] = "done" => \A t \in Tasks : state'[t] = state[t]
    PROVE  RunInv'
  <1>0. MainThread \in Actors \ Workers /\ Workers \subseteq Actors
    BY SchedulerAssumption, Zenon DEF Actors
  <1>1. pc'[MainThread] = pc[MainThread]
    BY <1>0 DEF MovesTo, RunInv, EndPc, StoppingPc
  <1>2. ASSUME \A w \in Workers : Stopped(w), pc[MainThread] # "create"
        PROVE  \A w \in Workers : pc'[w] = pc[w]
    BY <1>0, <1>2, Zenon DEF MovesTo, Stopped
  <1>3. NoLeak'
    BY <1>1 DEF RunInv, NoLeak
  <1>4. ran' => pc'[MainThread] \in EndPc /\ \A w \in Workers : Stopped(w)'
    BY <1>1, <1>2 DEF RunInv, EndPc, StoppingPc, Stopped
  <1>5. pc'[MainThread] = "spawn_main" => \A w \in Workers : pc'[w] = "new"
    BY <1>1, <1>2 DEF RunInv, Stopped
  <1> QED
    BY <1>1, <1>3, <1>4, <1>5, Zenon DEF RunInv

\* The steps of a worker.
LEMMA WorkerKeepsRun ==
    ASSUME SchedInv, RunInv, NEW w \in Workers,
           WorkerStep(w) \/ GiveBack(w) \/ SpuriousWakeup(w)
    PROVE  RunInv'
  <1>1. w \in Actors /\ w # MainThread
    BY SchedulerAssumption DEF Actors
  <1>2. /\ ~ Stopped(w) /\ MovesTo(w, pc'[w])
        /\ UNCHANGED <<shutdown_requested, runtime_init_ok, ran>>
    BY WorkerMoves DEF Stopped
  <1>3. pc[MainThread] # "done"
    BY <1>2 DEF RunInv
  <1> QED
    BY <1>1, <1>2, <1>3, OtherKeepsRun

\* The steps of a library call, by a worker, an outside thread or croutine_run.
LEMMA CallKeepsRun ==
    ASSUME SchedInv, PlaceInv, RunInv, NEW a \in Actors, CallStep(a) \/ Call(a)
    PROVE  RunInv'
  <1>1. /\ pc[a] \in {"running", "user", "chan", "closing", "set_main", "poke", "shutdown"}
        /\ MovesTo(a, pc'[a])
        /\ shutdown_requested => shutdown_requested'
        /\ UNCHANGED <<runtime_init_ok, ran>>
    BY CallMoves
  <1>2. ASSUME pc[MainThread] = "done", a # MainThread
        PROVE  \A t \in Tasks : state'[t] = state[t]
    <2>0. TypeOK /\ shutdown_requested /\ NoTask \notin Tasks
      BY <1>2, SchedulerAssumption DEF SchedInv, RunInv, StoppingPc
    <2>1. \A t \in Tasks : state[t] \in {"unborn", "freed"}
      BY <1>2 DEF RunInv, NoLeak
    <2>2. \A s \in Slots : io_waits[s] = NoTask
      BY <2>0, <2>1 DEF PlaceInv, SlotsAreWaits, TypeOK
    <2>3. \A fd \in Fds : Woken(fd, Events) = {}
      BY <2>2, Zenon DEF Woken, Slots
    <2>4. CASE CallStep(a)
      BY <2>1, <2>4, Zenon
         DEF CallStep, ChannelUnlock, PokePoller, ShutdownWake,
         worker_wake_task_locked, ShutdownUnlock, ShutdownTellMain
    <2>5. CASE Call(a)
      BY <2>0, <2>1, <2>3, <2>5, Zenon
         DEF Call, ChannelWakeFirst, ChannelWakeNext, worker_wake_task_locked,
         croutine_spawn, worker_spawn, worker_forget_fd, ShutdownLock
    <2> QED
      BY <2>4, <2>5
  <1>3. CASE a # MainThread
    BY <1>1, <1>2, <1>3, OtherKeepsRun, Zenon DEF Stopped
  <1>4. CASE a = MainThread
    <2>0. MainThread \notin Workers /\ MainThread \notin Threads /\ Workers \subseteq Actors
      BY SchedulerAssumption DEF Actors
    <2>1. /\ \A w \in Workers : Stopped(w) => pc'[w] = pc[w]
          /\ pc[MainThread] \in {"closing", "set_main", "poke", "shutdown"}
      BY <1>1, <1>4, <2>0, Zenon DEF MovesTo, Stopped, RunInv, EndPc, StoppingPc
    <2>2. CASE ShutdownLock(a)
      <3>1. pc'[MainThread] = "closing"
        BY <1>4, <2>2, Zenon DEF ShutdownLock, At, SchedInv, TypeOK
      <3>2. runtime_init_ok /\ shutdown_requested' /\ UNCHANGED <<runtime_init_ok, ran>>
        BY <2>2, Zenon DEF ShutdownLock
      <3>3. ran => \A w \in Workers : Stopped(w)
        BY Zenon DEF RunInv
      <3> QED
        BY <2>1, <3>1, <3>2, <3>3, Zenon DEF RunInv, EndPc, StoppingPc, Stopped, NoLeak
    <2>3. CASE PokePoller(a)
      <3>1. pc'[MainThread] = IF ran THEN "deinit" ELSE "join"
        BY <1>4, <2>0, <2>3, Zenon DEF PokePoller, Resume, At, SchedInv, TypeOK
      <3> QED
        BY <1>1, <1>4, <2>1, <2>3, <3>1, Zenon
           DEF PokePoller, RunInv, EndPc, StoppingPc, Stopped, NoLeak
    <2>4. CASE ShutdownTellMain(a)
      <3>1. pc'[MainThread] = "poke"
        BY <1>4, <2>4, Zenon DEF ShutdownTellMain, At, SchedInv, TypeOK
      <3>2. /\ pc[MainThread] = "set_main"
            /\ UNCHANGED <<runtime_init_ok, shutdown_requested, ran>>
        BY <1>4, <2>4, Zenon DEF ShutdownTellMain
      <3>3. /\ runtime_init_ok /\ shutdown_requested
            /\ ran => \A w \in Workers : Stopped(w)
        BY <3>2, Zenon DEF RunInv, StoppingPc
      <3> QED
        BY <2>1, <3>1, <3>2, <3>3, Zenon DEF RunInv, EndPc, StoppingPc, Stopped, NoLeak
    <2>5. CASE ShutdownUnlock(a)
      <3>1. pc'[MainThread] = "set_main"
        BY <1>4, <2>5, Zenon DEF ShutdownUnlock, At, Broadcast, SchedInv, TypeOK
      <3> QED
        BY <1>1, <1>4, <2>1, <2>5, <3>1, Zenon
           DEF ShutdownUnlock, RunInv, EndPc, StoppingPc, Stopped, NoLeak
    <2>6. ASSUME NEW t \in Tasks, ShutdownWake(a, t) PROVE RunInv'
      <3>1. MovesTo(MainThread, "closing")
        BY <1>4, <2>6, MoveSignal DEF ShutdownWake, worker_wake_task_locked, SchedInv,
           TypeOK, Pc, UserPc
      <3>2. pc'[MainThread] = "closing"
        BY <3>1, Zenon DEF MovesTo
      <3> QED
        BY <1>1, <1>4, <2>1, <2>6, <3>2, Zenon
           DEF ShutdownWake, RunInv, EndPc, StoppingPc, Stopped, NoLeak
    <2> QED
      BY <1>4, <2>0, <2>1, <2>2, <2>3, <2>4, <2>5, <2>6, Zenon
         DEF CallStep, Call, ChannelUnlock, ChannelWakeFirst, ChannelWakeNext,
         croutine_spawn, worker_forget_fd, InUserCode
  <1> QED
    BY <1>3, <1>4, Zenon

\* When worker_deinit is done no task is left: the workers have let go of theirs,
\* no task waits on a channel, and the rest is queued or parked on a descriptor.
LEMMA DeinitFreesAll ==
    ASSUME SchedInv, PlaceInv, RunInv, worker_deinit, NEW t \in Tasks
    PROVE  state'[t] \in {"unborn", "freed"}
  <1> DEFINE left == Range(runnable_tasks) \cup (Range(io_waits) \ {NoTask})
  <1>0. TypeOK /\ NoTask \notin Tasks
    BY SchedulerAssumption DEF SchedInv
  <1>1. state'[t] = IF t \in left THEN "freed" ELSE state[t]
    BY DEF worker_deinit
  <1>2. \A w \in Workers : task[w] = NoTask
    <2>1. ASSUME NEW w \in Workers PROVE task[w] = NoTask
      <3>1. Stopped(w) /\ WorkerFits(w)
        BY DEF worker_deinit, RunInv, PlaceInv, TasksFitWorkers
      <3> QED
        BY <3>1, Zenon DEF Stopped, WorkerFits, Fits, RunPc, FinPc
    <2> QED
      BY <2>1
  <1>3. state[t] # "waiting_channel"
    BY InvImplications DEF worker_deinit, RunInv, StoppingPc, ShutdownCancelsChannelWaits
  <1>4. Findable(t) /\ state[t] \in TaskState
    BY <1>0, Zenon DEF PlaceInv, TypeOK
  <1>5. state[t] = "waiting_io" => t \in left
    BY <1>0, <1>4, Zenon DEF Findable, Range, TypeOK
  <1>6. state[t] = "runnable" => t \in left
    BY <1>0, <1>2, <1>4, Zenon DEF Findable, Queued
  <1>7. state[t] # "finished"
    BY <1>0, <1>2, <1>4 DEF Findable
  <1> QED
    BY <1>1, <1>3, <1>4, <1>5, <1>6, <1>7, Zenon DEF TaskState

\* The steps of croutine_run itself, worker_deinit among them.
LEMMA MainKeepsRun ==
    ASSUME SchedInv, PlaceInv, RunInv, MainThreadStep
    PROVE  RunInv'
  <1>0. /\ MainThread \in Actors \ Workers /\ Workers \subseteq Actors
        /\ pc \in [Actors -> Pc]
    BY SchedulerAssumption, Zenon DEF SchedInv, TypeOK, Pc, Actors
  <1> USE DEF stopVars, EndPc, StoppingPc, Stopped
  <1>1. CASE SpawnMain
    <2>1. MovesTo(MainThread, "create")
      BY <1>0, <1>1, MoveSignal, Zenon DEF SpawnMain, worker_spawn, Pc, MainPc
    <2>2. pc'[MainThread] = "create" /\ \A w \in Workers : Stopped(w) => pc'[w] = pc[w]
      BY <1>0, <2>1, Zenon DEF MovesTo
    <2> QED
      BY <1>1, <2>2 DEF SpawnMain, worker_spawn, RunInv, NoLeak
  <1>2. ASSUME NEW w \in Workers, StartWorker(w) PROVE RunInv'
    <2>1. MovesTo(w, "lock")
      BY <1>0, <1>2, MoveAt DEF StartWorker, Pc, WorkerPc
    <2>2. MovesTo(w, pc'[w])
      BY <2>1 DEF MovesTo
    <2> QED
      BY <1>0, <1>2, <2>2, OtherKeepsRun, Zenon DEF StartWorker
  <1>3. ASSUME NEW label \in MainPc, pc' = At(MainThread, label)
        PROVE  pc'[MainThread] = label /\ \A w \in Workers : pc'[w] = pc[w]
    BY <1>0, <1>3, Zenon DEF At
  <1>4. CASE SpawnMainFails
    <2>1. pc'[MainThread] = "shutdown" /\ \A w \in Workers : pc'[w] = pc[w]
      BY <1>3, <1>4, Zenon DEF SpawnMainFails, MainPc
    <2> QED
      BY <1>4, <2>1, Zenon DEF SpawnMainFails, RunInv, NoLeak
  <1>5. CASE CreateFails
    <2>1. pc'[MainThread] = "shutdown" /\ \A w \in Workers : pc'[w] = pc[w]
      BY <1>3, <1>5, Zenon DEF CreateFails, MainPc
    <2> QED
      BY <1>5, <2>1, Zenon DEF CreateFails, RunInv, NoLeak
  <1>6. CASE AllStarted
    <2>1. pc'[MainThread] = "wait" /\ \A w \in Workers : pc'[w] = pc[w]
      BY <1>3, <1>6, Zenon DEF AllStarted, MainPc
    <2> QED
      BY <1>6, <2>1, Zenon DEF AllStarted, RunInv, NoLeak
  <1>7. CASE worker_wait_for_main
    <2>1. pc'[MainThread] = "join" /\ \A w \in Workers : pc'[w] = pc[w]
      BY <1>3, <1>7, Zenon DEF worker_wait_for_main, MainPc
    <2> QED
      BY <1>7, <2>1 DEF worker_wait_for_main, RunInv, NoLeak
  <1>8. CASE JoinWorkers
    <2>1. pc'[MainThread] = "shutdown" /\ \A w \in Workers : pc'[w] = pc[w]
      BY <1>3, <1>8, Zenon DEF JoinWorkers, MainPc
    <2> QED
      BY <1>8, <2>1, Zenon DEF JoinWorkers, RunInv, NoLeak
  <1>9. CASE worker_deinit
    <2>1. pc'[MainThread] = "done" /\ \A w \in Workers : pc'[w] = pc[w]
      BY <1>3, <1>9 DEF worker_deinit, MainPc
    <2>2. NoLeak'
      BY <1>9, DeinitFreesAll DEF NoLeak
    <2> QED
      BY <1>9, <2>1, <2>2, Zenon DEF worker_deinit, RunInv
  <1> QED
    BY <1>1, <1>2, <1>4, <1>5, <1>6, <1>7, <1>8, <1>9, Zenon DEF MainThreadStep

\* Every step keeps the invariant.
LEMMA NextKeepsRun == SchedInv /\ PlaceInv /\ RunInv /\ [Next]_vars => RunInv'
  <1> SUFFICES ASSUME SchedInv, PlaceInv, RunInv, [Next]_vars PROVE RunInv'
    OBVIOUS
  <1>1. CASE Kernel \/ Terminated \/ UNCHANGED vars
    <2>1. UNCHANGED <<pc, state, shutdown_requested, runtime_init_ok, ran>>
      BY <1>1, Zenon
         DEF Kernel, FdReady, FdConsumed, Terminated, vars, schedVars, stopVars
    <2> QED
      BY <2>1, Zenon DEF RunInv, Stopped, NoLeak
  <1> QED
    BY <1>1, WorkerKeepsRun, CallKeepsRun, MainKeepsRun DEF Next

\* croutine_run is about to spawn the main task.
LEMMA InitEstablishesRun == Init => RunInv
  BY SchedulerAssumption DEF Init, RunInv, NoLeak, EndPc, StoppingPc, Stopped, Actors

\* The thread in croutine_run and the workers agree on the life of the runtime.
THEOREM RunInvariant == Spec => []RunInv
  BY SchedulerInvariant, PlaceInvariant, InitEstablishesRun, NextKeepsRun, PTL DEF Spec

\* croutine_run: when it has returned, every task ever spawned was freed.
THEOREM NoTaskIsLeaked == Spec => []NoLeak
  <1>1. RunInv => NoLeak
    BY Zenon DEF RunInv
  <1> QED
    BY <1>1, RunInvariant, PTL
-----------------------------------------------------------------------------
(***************************************************************************)
(* No wakeup is lost.                                                      *)
(***************************************************************************)
\* Where a thread is that will write the eventfd.
PokePc == {"set_main", "poke", "fin_poke"}

Active(label) == label \notin {"new", "exit", "cond", "poll"}

Polling == \E w \in Workers : pc[w] = "poll"

\* A worker in the poller is told of a stop, ...
StopEndsPoll ==
    Stop /\ Polling => \/ wake_fd \/ PokePending
                       \/ \E a \in Actors : pc[a] = "closing"

\* ... and of a queued task when no other worker can take it.
QueueEndsPoll ==
    (runnable_tasks # << >> /\ \E w \in Workers : pc[w] = "poll" /\ blocking[w])
    => \/ wake_fd \/ PokePending
       \/ \E w \in Workers : Active(pc[w])

\* The inductive invariant about wakeups.
WakeInv == StopEndsPoll /\ QueueEndsPoll

\* Most steps: the thread that moves keeps its duty to wake the poller or does
\* it, no worker starts to poll, and an active worker stays active.
LEMMA DutyKept ==
    ASSUME SchedInv, WakeInv, NEW a \in Actors, NEW label \in Pc, MovesTo(a, label),
           wake_fd => wake_fd',
           pc[a] \in PokePc => label \in PokePc \/ wake_fd',
           pc[a] = "closing" => label \in PokePc \cup {"closing"},
           Stop' => Stop \/ label \in PokePc \cup {"closing"},
           label # "poll", blocking' = blocking,
           a \in Workers /\ Active(pc[a]) => Active(label),
           \/ runnable_tasks # << >> \/ runnable_tasks' = << >>
           \/ label \in PokePc \/ wake_fd' \/ ~ Polling
           \/ \E w \in Workers : Active(pc'[w])
    PROVE  WakeInv'
  <1>0. Workers \subseteq Actors
    BY DEF Actors
  <1>1. PokePending \/ label \in PokePc => PokePending' \/ wake_fd'
    BY DEF PokePending, PokePc, MovesTo
  <1>2. (\E b \in Actors : pc[b] = "closing") =>
           \/ \E b \in Actors : pc'[b] = "closing"
           \/ label \in PokePc
    BY DEF MovesTo
  <1>3. \A w \in Workers : pc'[w] = "poll" => pc[w] = "poll" /\ w # a
    BY <1>0 DEF MovesTo
  <1>4. \A w \in Workers : Active(pc[w]) => Active(pc'[w])
    BY <1>0, Zenon DEF MovesTo, Active
  <1>5. StopEndsPoll'
    BY <1>1, <1>2, <1>3, Zenon DEF WakeInv, StopEndsPoll, Polling, MovesTo
  <1>6. QueueEndsPoll'
    BY <1>1, <1>3, <1>4, Zenon DEF WakeInv, QueueEndsPoll, Polling
  <1> QED
    BY <1>5, <1>6, Zenon DEF WakeInv

\* Nobody is left in the poller.
LEMMA NoPollNoDuty ==
    ASSUME ~ Polling'
    PROVE  WakeInv'
  BY DEF WakeInv, StopEndsPoll, QueueEndsPoll, Polling

\* worker_loop_impl decides under the mutex whether to poll, and for how long.
LEMMA LoopKeepsWake ==
    ASSUME SchedInv, WakeInv, NEW a \in Workers,
           Loop(a) \/ PollReturn(a) \/ PollRelock(a) \/ SpuriousWakeup(a)
    PROVE  WakeInv'
  <1>0. /\ a \in Actors /\ Workers \subseteq Actors
        /\ pc \in [Actors -> Pc] /\ blocking \in [Workers -> BOOLEAN]
    BY Zenon DEF SchedInv, TypeOK, Pc, Actors
  <1> USE DEF pollVars, ioVars, stopVars
  <1>1. CASE LoopExit(a)
    <2>1. pc' = At(a, "exit") /\ UNCHANGED <<wake_fd, blocking, runnable_tasks>>
      BY <1>1, Zenon DEF LoopExit
    <2>2. pc[a] \notin PokePc /\ \A b \in Actors : pc[b] # "closing"
      BY <1>0, <1>1, SchedulerAssumption, Zenon
         DEF LoopExit, AtLoopHead, PokePc, SchedInv, MutexHeld, LockedPc
    <2>3. Polling' => Polling
      BY <1>0, <2>1, Zenon DEF At, Polling
    <2>4. PokePending => PokePending'
      BY <1>0, <2>1, <2>2, Zenon DEF At, PokePending, PokePc
    <2>5. Stop
      BY <1>1 DEF LoopExit
    <2>6. Polling' => wake_fd' \/ PokePending'
      BY <2>1, <2>2, <2>3, <2>4, <2>5, Zenon DEF WakeInv, StopEndsPoll
    <2> QED
      BY <2>6 DEF WakeInv, StopEndsPoll, QueueEndsPoll, Polling
  <1>2. CASE LoopBeginPoll(a)
    <2>1. \A w \in Workers : pc[w] # "poll"
      BY <1>2 DEF LoopBeginPoll, WantsPoll, SchedInv, OnePoller, PollPc
    <2>2. /\ \A w \in Workers \ {a} : pc'[w] # "poll"
          /\ blocking'[a] = (runnable_tasks = << >>)
          /\ ~ Stop' /\ UNCHANGED runnable_tasks
      BY <1>0, <1>2, <2>1, Zenon DEF LoopBeginPoll, At, Stop
    <2> QED
      BY <2>2, Zenon DEF WakeInv, StopEndsPoll, QueueEndsPoll
  <1>3. CASE LoopPop(a)
    <2>1. "running" \in Pc /\ "running" \notin {"poll", "closing"} /\ Active("running")
      BY Zenon DEF Pc, WorkerPc, Active
    <2>2. MovesTo(a, "running") /\ pc[a] \notin PokePc \cup {"closing"}
      BY <1>0, <1>3, <2>1, MoveAt, Zenon DEF LoopPop, AtLoopHead, PokePc
    <2>3. UNCHANGED <<wake_fd, blocking>> /\ Stop' = Stop /\ runnable_tasks # << >>
      BY <1>3, Zenon DEF LoopPop, Stop
    <2> QED
      BY <1>0, <2>1, <2>2, <2>3, DutyKept, Zenon
  <1>4. CASE LoopCondWait(a)
    <2>1. runnable_tasks' = << >> /\ ~ Stop'
      BY <1>4, Zenon DEF LoopCondWait, Stop
    <2> QED
      BY <2>1, Zenon DEF WakeInv, StopEndsPoll, QueueEndsPoll
  <1>5. CASE PollReturn(a) \/ PollRelock(a)
    <2>1. \A w \in Workers \ {a} : pc[w] # "poll"
      BY <1>5, Zenon DEF PollReturn, PollRelock, SchedInv, OnePoller, PollPc
    <2>2. MovesTo(a, pc'[a])
      BY <1>5, WorkerMoves, Zenon DEF WorkerStep
    <2>3. pc'[a] # "poll"
      BY <1>0, <1>5, Zenon DEF PollReturn, PollRelock, At, Broadcast
    <2> QED
      BY <1>0, <2>1, <2>2, <2>3, NoPollNoDuty, Zenon DEF Polling, MovesTo
  <1>6. CASE SpuriousWakeup(a)
    <2>1. "woken" \in Pc /\ "woken" \notin {"poll", "closing"} /\ Active("woken")
      BY Zenon DEF Pc, WorkerPc, Active
    <2>2. MovesTo(a, "woken") /\ pc[a] \notin PokePc \cup {"closing"}
      BY <1>0, <1>6, <2>1, MoveAt, Zenon DEF SpuriousWakeup, PokePc
    <2>3. UNCHANGED <<wake_fd, blocking, runnable_tasks>> /\ Stop' = Stop
      BY <1>6 DEF SpuriousWakeup, Stop
    <2> QED
      BY <1>0, <2>1, <2>2, <2>3, DutyKept, Zenon
  <1> QED
    BY <1>1, <1>2, <1>3, <1>4, <1>5, <1>6, Zenon DEF Loop

\* The poller can be woken while a worker is in it.
LEMMA RuntimeIsUp ==
    ASSUME RunInv, NEW w \in Workers, ~ Stopped(w)
    PROVE  runtime_init_ok
  BY DEF RunInv

\* A worker with a task, or with events to deliver, is active.
LEMMA BusyKeepsWake ==
    ASSUME SchedInv, RunInv, WakeInv, NEW a \in Workers,
           \/ \E fd \in Fds : DeliverEvents(a, fd)
           \/ GiveBack(a) \/ MainFinishedLocked(a) \/ MainFinishedPoke(a)
           \/ ParkHandback(a) \/ AfterSwitch(a) \/ Requeue(a)
    PROVE  WakeInv'
  <1> DEFINE Busy == {"dispatch", "lock", "check", "requeue", "parking", "fin_lock", "fin_poke"}
  <1>0. a \in Actors /\ pc \in [Actors -> Pc]
    BY Zenon DEF SchedInv, TypeOK, Pc, Actors
  <1>1. MovesTo(a, pc'[a])
    BY WorkerMoves, Zenon DEF WorkerStep
  <1> USE DEF pollVars, ioVars, stopVars
  <1>2. ASSUME pc'[a] \in Busy, wake_fd => wake_fd',
               pc[a] \in PokePc => wake_fd', pc[a] # "closing",
               Stop' => Stop \/ pc'[a] = "fin_poke", blocking' = blocking
        PROVE  WakeInv'
    <2>1. /\ pc'[a] \in Pc /\ pc'[a] # "poll" /\ Active(pc'[a])
          /\ pc'[a] = "fin_poke" => pc'[a] \in PokePc
      BY <1>2, Zenon DEF Pc, WorkerPc, Active, PokePc
    <2> QED
      BY <1>0, <1>1, <1>2, <2>1, DutyKept, Zenon
  <1> USE DEF PokePc, Stop
  <1>3. ASSUME NEW fd \in Fds, DeliverEvents(a, fd) PROVE WakeInv'
    <2>1. pc'[a] = "dispatch"
      BY <1>0, <1>3, Zenon DEF DeliverEvents, Broadcast
    <2> QED
      BY <1>2, <1>3, <2>1, Zenon DEF DeliverEvents
  <1>4. CASE GiveBack(a)
    <2>1. pc'[a] \in {"check", "fin_lock", "parking"} /\ pc[a] = "running"
      BY <1>0, <1>4, Zenon
         DEF GiveBack, worker_yield, task_finished, At,
         worker_park_current_on_channel_locked, worker_park_current_on_io
    <2>2. UNCHANGED <<wake_fd, blocking, shutdown_requested, scheduler_main_finished>>
      BY <1>4, Zenon
         DEF GiveBack, worker_yield, task_finished,
         worker_park_current_on_channel_locked, worker_park_current_on_io
    <2> QED
      BY <1>2, <2>1, <2>2, Zenon
  <1>5. CASE MainFinishedLocked(a)
    <2>1. pc'[a] = "fin_poke"
      BY <1>0, <1>5 DEF MainFinishedLocked, At, Broadcast
    <2> QED
      BY <1>2, <1>5, <2>1, Zenon DEF MainFinishedLocked
  <1>6. CASE MainFinishedPoke(a)
    <2>1. pc'[a] = "check" /\ runtime_init_ok
      BY <1>0, <1>6, RuntimeIsUp, Zenon DEF MainFinishedPoke, At, Stopped
    <2> QED
      BY <1>2, <1>6, <2>1, Zenon DEF MainFinishedPoke, croutine_poller_wake
  <1>7. CASE ParkHandback(a) \/ AfterSwitch(a)
    <2>1. pc'[a] \in {"lock", "requeue"}
      BY <1>0, <1>7, Zenon DEF ParkHandback, AfterSwitch, At
    <2> QED
      BY <1>2, <1>7, <2>1, Zenon DEF ParkHandback, AfterSwitch
  <1>8. CASE Requeue(a)
    <2>1. MovesTo(a, "lock")
      BY <1>0, <1>8, MoveSignal, Zenon DEF Requeue, Pc, WorkerPc
    <2>2. pc'[a] = "lock"
      BY <2>1, Zenon DEF MovesTo
    <2> QED
      BY <1>2, <1>8, <2>2, Zenon DEF Requeue
  <1> QED
    BY <1>3, <1>4, <1>5, <1>6, <1>7, <1>8, Zenon

\* worker_wake_task_locked: after it a worker is awake, or the poller is, or
\* nobody is in the poller.
LEMMA WakeTaskWakes ==
    ASSUME SchedInv, RunInv, NEW a \in Actors, NEW t \in Tasks,
           NEW label \in {"chan", "closing"}, pc[a] \notin {"cond", "woken"},
           worker_wake_task_locked(t, a, label)
    PROVE  \/ wake_fd' \/ ~ Polling
           \/ \E w \in Workers : Active(pc'[w])
  <1>0. pc \in [Actors -> Pc] /\ Workers \subseteq Actors
    BY DEF SchedInv, TypeOK, Pc, Actors
  <1>1. CASE idle_workers # {}
    <2>1. PICK v \in Workers : pc[v] \in {"cond", "woken"}
      BY <1>1 DEF idle_workers
    <2>2. v # a /\ At(a, label)[v] = pc[v]
      BY <1>0, <2>1, Zenon DEF At
    <2>3. \E w \in Workers : pc'[w] = "woken"
      <3> DEFINE p == At(a, label)
      <3>1. p \in [Actors -> Pc]
        BY <1>0, Zenon DEF At, Pc, UserPc
      <3>2. pc' \in Signal(p)
        BY DEF worker_wake_task_locked
      <3>3. CASE \E w \in Workers : p[w] = "cond"
        <4>1. PICK w \in Workers : pc' = [p EXCEPT ![w] = "woken"]
          BY <3>2, <3>3, Zenon DEF Signal
        <4> QED
          BY <1>0, <3>1, <4>1, Zenon
      <3>4. CASE ~ \E w \in Workers : p[w] = "cond"
        <4>1. pc' = p
          BY <3>2, <3>4 DEF Signal
        <4> QED
          BY <2>1, <2>2, <3>4, <4>1, Zenon
      <3> QED
        BY <3>3, <3>4, Zenon
    <2> QED
      BY <2>3 DEF Active
  <1>2. CASE idle_workers = {} /\ poller_waiter_active
    <2>1. PICK w \in Workers : pc[w] \in PollPc
      BY <1>2 DEF SchedInv, OnePoller
    <2>2. runtime_init_ok
      BY <2>1, RuntimeIsUp, Zenon DEF Stopped, PollPc
    <2> QED
      BY <1>2, <2>2, Zenon DEF worker_wake_task_locked, croutine_poller_wake
  <1>3. CASE ~ poller_waiter_active
    BY <1>3, Zenon DEF SchedInv, OnePoller, PollPc, Polling
  <1> QED
    BY <1>1, <1>2, <1>3, Zenon

\* Library calls: who queues a task signals, and pokes the poller when it must.
LEMMA CallKeepsWake ==
    ASSUME SchedInv, RunInv, WakeInv, NEW a \in Actors, CallStep(a) \/ Call(a)
    PROVE  WakeInv'
  <1>0. /\ pc \in [Actors -> Pc] /\ Workers \subseteq Actors
        /\ {"chan", "closing", "set_main", "poke"} \subseteq Pc
    BY Zenon DEF SchedInv, TypeOK, Pc, Actors, UserPc
  <1>1. /\ pc[a] \in {"running", "user", "chan", "closing", "set_main", "poke", "shutdown"}
        /\ MovesTo(a, pc'[a]) /\ UNCHANGED runtime_init_ok
    BY CallMoves, Zenon
  <1>2. /\ Resume(a) \in Pc \ {"cond", "poll"}
        /\ a \in Workers => Active(Resume(a))
    BY ResumeFacts DEF Resume, Active
  <1>3. CASE ~ runtime_init_ok
    <2>1. \A w \in Workers : Stopped(w)
      BY <1>3, Zenon DEF RunInv
    <2>2. \A w \in Workers : pc'[w] # "poll"
      BY <1>0, <1>1, <2>1, Zenon DEF Stopped, MovesTo
    <2> QED
      BY <2>2, NoPollNoDuty, Zenon DEF Polling
  <1>4. ASSUME NEW label \in Pc, MovesTo(a, label),
               wake_fd => wake_fd', blocking' = blocking,
               pc[a] \in PokePc => label \in PokePc \/ wake_fd',
               pc[a] = "closing" => label \in PokePc \cup {"closing"},
               Stop' => Stop \/ label = "closing",
               label # "poll", a \in Workers => Active(label),
               \/ runnable_tasks' = runnable_tasks
               \/ label \in PokePc \/ wake_fd' \/ ~ Polling
               \/ \E w \in Workers : Active(pc'[w])
        PROVE  WakeInv'
    BY <1>4, DutyKept, Zenon
  <1> USE DEF pollVars, ioVars, stopVars
  <1>5. CASE ChannelUnlock(a)
    <2>1. MovesTo(a, Resume(a)) /\ Stop' = Stop /\ pc[a] \notin PokePc \cup {"closing"}
      BY <1>0, <1>2, <1>5, MoveAt, Zenon DEF ChannelUnlock, Stop, PokePc
    <2> QED
      BY <1>2, <1>4, <1>5, <2>1, Zenon DEF ChannelUnlock
  <1>6. CASE PokePoller(a) /\ runtime_init_ok
    <2>1. MovesTo(a, Resume(a)) /\ Stop' = Stop /\ pc[a] # "closing"
      BY <1>0, <1>2, <1>6, MoveAt, Zenon DEF PokePoller, Stop
    <2>2. wake_fd' /\ UNCHANGED <<blocking, runnable_tasks>>
      BY <1>6, Zenon DEF PokePoller, croutine_poller_wake
    <2> QED
      BY <1>2, <1>4, <2>1, <2>2, Zenon
  <1>7. CASE ShutdownLock(a)
    <2>1. MovesTo(a, "closing") /\ pc[a] \notin PokePc
      BY <1>0, <1>7, MoveAt, Zenon DEF ShutdownLock, InUserCode, PokePc
    <2> QED
      BY <1>0, <1>4, <1>7, <2>1, Zenon DEF ShutdownLock, Active
  <1>8. CASE ShutdownUnlock(a)
    <2>1. MovesTo(a, "set_main") /\ Stop' = Stop
      BY <1>0, <1>8, MoveBroadcast, Zenon DEF ShutdownUnlock, Stop
    <2> QED
      BY <1>0, <1>4, <1>8, <2>1, Zenon DEF ShutdownUnlock, PokePc, Active
  <1>9. CASE ShutdownTellMain(a)
    <2>1. MovesTo(a, "poke") /\ Stop' = Stop
      BY <1>0, <1>9, MoveAt, Zenon DEF ShutdownTellMain, Stop
    <2> QED
      BY <1>0, <1>4, <1>9, <2>1, Zenon DEF ShutdownTellMain, PokePc, Active
  <1>10. ASSUME NEW t \in Tasks, ChannelWakeFirst(a, t) \/ ChannelWakeNext(a, t)
         PROVE  WakeInv'
    <2>1. /\ worker_wake_task_locked(t, a, "chan") /\ Stop' = Stop /\ blocking' = blocking
          /\ pc[a] \notin PokePc \cup {"closing", "cond", "woken"}
      BY <1>10 DEF ChannelWakeFirst, ChannelWakeNext, InUserCode, Stop, PokePc
    <2>2. MovesTo(a, "chan") /\ (wake_fd => wake_fd')
      BY <1>0, <2>1, MoveSignal, Zenon
         DEF worker_wake_task_locked, croutine_poller_wake
    <2>3. \/ wake_fd' \/ ~ Polling
          \/ \E w \in Workers : Active(pc'[w])
      BY <2>1, WakeTaskWakes, Zenon
    <2> QED
      BY <1>0, <1>4, <2>1, <2>2, <2>3, Zenon DEF Active
  <1>11. ASSUME NEW t \in Tasks, ShutdownWake(a, t) PROVE WakeInv'
    <2>1. /\ worker_wake_task_locked(t, a, "closing") /\ Stop' = Stop /\ blocking' = blocking
          /\ pc[a] = "closing" /\ pc[a] \notin PokePc
      BY <1>11 DEF ShutdownWake, Stop, PokePc
    <2>2. MovesTo(a, "closing") /\ (wake_fd => wake_fd')
      BY <1>0, <2>1, MoveSignal, Zenon
         DEF worker_wake_task_locked, croutine_poller_wake
    <2>3. \/ wake_fd' \/ ~ Polling
          \/ \E w \in Workers : Active(pc'[w])
      BY <2>1, WakeTaskWakes, Zenon
    <2> QED
      BY <1>0, <1>4, <2>1, <2>2, <2>3, Zenon DEF Active
  <1>12. CASE \/ \E t \in Tasks : croutine_spawn(a, t)
              \/ \E fd \in Fds : worker_forget_fd(a, fd)
    <2> DEFINE label == IF poller_waiter_active THEN "poke" ELSE Resume(a)
    <2>1. label \in Pc \ {"cond", "poll"} /\ (a \in Workers => Active(label))
      BY <1>0, <1>2, Zenon DEF Active
    <2>2. MovesTo(a, label)
      BY <1>0, <1>12, <2>1, MoveSignal, MoveBroadcast, Zenon
         DEF croutine_spawn, worker_spawn, worker_forget_fd
    <2>3. /\ UNCHANGED <<wake_fd, blocking>> /\ Stop' = Stop
          /\ pc[a] \notin PokePc \cup {"closing"}
      BY <1>12 DEF croutine_spawn, worker_spawn, worker_forget_fd, InUserCode, Stop, PokePc
    <2>4. label \in PokePc \/ ~ Polling
      BY DEF SchedInv, OnePoller, PollPc, Polling, PokePc
    <2> HIDE DEF label
    <2> QED
      BY <1>4, <2>1, <2>2, <2>3, <2>4, Zenon
  <1> QED
    BY <1>3, <1>5, <1>6, <1>7, <1>8, <1>9, <1>10, <1>11, <1>12, Zenon
       DEF CallStep, Call

\* The steps of croutine_run itself.
LEMMA MainKeepsWake ==
    ASSUME SchedInv, RunInv, WakeInv, MainThreadStep
    PROVE  WakeInv'
  <1>0. /\ MainThread \in Actors \ Workers /\ Workers \subseteq Actors
        /\ pc \in [Actors -> Pc]
    BY SchedulerAssumption DEF SchedInv, TypeOK, Pc, Actors
  <1>1. CASE SpawnMain \/ SpawnMainFails \/ worker_deinit
    <2>1. \A w \in Workers : Stopped(w)
      BY <1>1 DEF SpawnMain, SpawnMainFails, worker_deinit, RunInv, Stopped
    <2>2. MovesTo(MainThread, pc'[MainThread])
      BY <1>0, <1>1, MainMoves, Zenon
         DEF MainThreadStep, StartWorker, SpawnMain, SpawnMainFails,
         worker_deinit
    <2>3. \A w \in Workers : pc'[w] # "poll"
      BY <1>0, <2>1, <2>2, Zenon DEF Stopped, MovesTo
    <2> QED
      BY <2>3, NoPollNoDuty, Zenon DEF Polling
  <1> USE DEF pollVars, ioVars, stopVars
  <1>2. CASE CreateFails \/ AllStarted \/ worker_wait_for_main \/ JoinWorkers
    <2>1. PICK label \in {"shutdown", "wait", "join"} : pc' = At(MainThread, label)
      BY <1>2 DEF CreateFails, AllStarted, worker_wait_for_main, JoinWorkers
    <2>2. label \in Pc /\ label # "poll"
      BY DEF Pc, MainPc
    <2>3. MovesTo(MainThread, label)
      BY <1>0, <2>1, <2>2, MoveAt, Zenon
    <2>4. /\ UNCHANGED <<wake_fd, blocking, runnable_tasks>> /\ Stop' = Stop
          /\ pc[MainThread] \notin PokePc \cup {"closing"}
      BY <1>2, SMTT(30)
         DEF CreateFails, AllStarted, worker_wait_for_main, JoinWorkers, Stop, PokePc
    <2> QED
      BY <1>0, <2>2, <2>3, <2>4, DutyKept, Zenon
  <1>3. ASSUME NEW w \in Workers, StartWorker(w) PROVE WakeInv'
    <2>1. "lock" \in Pc /\ Active("lock") /\ pc[w] \notin PokePc \cup {"closing"}
      BY <1>3, Zenon DEF StartWorker, Pc, WorkerPc, Active, PokePc
    <2>2. MovesTo(w, "lock")
      BY <1>0, <1>3, <2>1, MoveAt, Zenon DEF StartWorker
    <2>3. UNCHANGED <<wake_fd, blocking, runnable_tasks>> /\ Stop' = Stop
      BY <1>3, Zenon DEF StartWorker, Stop
    <2> QED
      BY <1>0, <2>1, <2>2, <2>3, DutyKept, Zenon
  <1> QED
    BY <1>1, <1>2, <1>3, Zenon DEF MainThreadStep

\* Every step keeps the invariant.
LEMMA NextKeepsWake == SchedInv /\ RunInv /\ WakeInv /\ [Next]_vars => WakeInv'
  <1> SUFFICES ASSUME SchedInv, RunInv, WakeInv, [Next]_vars PROVE WakeInv'
    BY Zenon
  <1>1. ASSUME NEW w \in Workers, WorkerStep(w) \/ GiveBack(w) \/ SpuriousWakeup(w)
        PROVE  WakeInv'
    BY <1>1, LoopKeepsWake, BusyKeepsWake, Zenon DEF WorkerStep
  <1>2. CASE Kernel \/ Terminated \/ UNCHANGED vars
    <2>1. UNCHANGED <<pc, runnable_tasks, blocking, wake_fd, shutdown_requested,
                      scheduler_main_finished>>
      BY <1>2, Zenon
         DEF Kernel, FdReady, FdConsumed, Terminated, vars, schedVars, pollVars,
         ioVars, stopVars
    <2> QED
      BY <2>1, Zenon
         DEF WakeInv, StopEndsPoll, QueueEndsPoll, Polling, PokePending, Stop
  <1> QED
    BY <1>1, <1>2, CallKeepsWake, MainKeepsWake, Zenon DEF Next

\* Nobody polls yet.
LEMMA InitEstablishesWake == Init => WakeInv
  BY DEF Init, WakeInv, StopEndsPoll, QueueEndsPoll, Polling, Stop, Actors

\* The invariant says of every state what NoLostWakeup says.
LEMMA WakeImplication == SchedInv /\ WakeInv => NoLostWakeup
  <1> SUFFICES ASSUME SchedInv, WakeInv, runnable_tasks # << >>, ~ PokePending,
                      NEW w \in Workers, Asleep(w)
               PROVE  \E v \in Workers : pc[v] \notin {"new", "exit"} /\ ~ Asleep(v)
    BY Zenon DEF NoLostWakeup
  <1>1. PICK p \in Workers : pc[p] \in PollPc
    BY Zenon DEF SchedInv, SleepersHavePoller, OnePoller, Asleep, PollPc
  <1>2. CASE Asleep(p)
    <2>1. PICK v \in Workers : Active(pc[v])
      BY <1>1, <1>2 DEF WakeInv, QueueEndsPoll, Asleep, PollPc
    <2> QED
      BY <2>1, Zenon DEF Active, Asleep
  <1> QED
    BY <1>1, <1>2, Zenon DEF PollPc

\* WakeInv is an invariant: the worker that blocks in the poller is always told of
\* a stop, and of a queued task when no other worker is there to take it.
THEOREM WakeInvariant == Spec => []WakeInv
  BY SchedulerInvariant, RunInvariant, InitEstablishesWake, NextKeepsWake, PTL DEF Spec

\* Signal, idle_workers and croutine_poller_wake together lose no wakeup.
THEOREM NoWakeupIsLost == Spec => []NoLostWakeup
  BY SchedulerInvariant, WakeInvariant, WakeImplication, PTL
-----------------------------------------------------------------------------
(***************************************************************************)
(* The scheduler implements the life cycle of tasks.                       *)
(***************************************************************************)
\* What the life of a task is, in terms of its state and of the run queue.
LEMMA LifeFacts ==
    ASSUME TypeOK, NEW t \in Tasks
    PROVE  /\ state[t] = "unborn" => Life(t) = "unborn"
           /\ state[t] = "freed" => Life(t) = "dead"
           /\ state[t] \in Waiting => Life(t) = "parked"
           /\ state[t] \in {"runnable", "finished"} =>
                 Life(t) = IF Queued(t) THEN "ready" ELSE "running"
  BY DEF Life, Waiting

\* The same in the next state.
LEMMA LifeFactsPrime ==
    ASSUME TypeOK', NEW t \in Tasks
    PROVE  /\ state'[t] = "unborn" => Life(t)' = "unborn"
           /\ state'[t] = "freed" => Life(t)' = "dead"
           /\ state'[t] \in Waiting => Life(t)' = "parked"
           /\ state'[t] \in {"runnable", "finished"} =>
                 Life(t)' = IF Queued(t)' THEN "ready" ELSE "running"
  BY DEF Life, Waiting

\* A task whose state and whose membership in the queue stay keeps its life.
LEMMA LifeKept ==
    ASSUME TypeOK, TypeOK', NEW t \in Tasks, state'[t] = state[t], Queued(t)' <=> Queued(t)
    PROVE  Life(t)' = Life(t)
  BY DEF Life

\* One task goes from one stage of its life to another.
LEMMA BecomeStep ==
    ASSUME NEW t \in Tasks, NEW from, NEW to, Life(t) = from, Life(t)' = to,
           \A u \in Tasks \ {t} : Life(u)' = Life(u)
    PROVE  Lifecycle!Become(t, from, to)
  BY Zenon DEF Lifecycle!Become

\* Nothing the life cycle knows of has changed.
LEMMA LifeStutter ==
    ASSUME \A t \in Tasks : Life(t)' = Life(t), UNCHANGED runnable_tasks
    PROVE  UNCHANGED Lifecycle!lifeVars
  BY DEF Lifecycle!lifeVars

\* A task that is not queued goes to the end of the queue.
LEMMA PushAppends ==
    ASSUME NEW t \in Tasks, ~ Queued(t)
    PROVE  Push(runnable_tasks, t) = Append(runnable_tasks, t)
  BY Zenon DEF Push, Queued

\* One task changes state or place and all others stay as they are.
LEMMA OneTaskChanges ==
    ASSUME SchedInv, SchedInv', NEW t \in Tasks,
           \A u \in Tasks \ {t} : state'[u] = state[u] /\ (Queued(u)' <=> Queued(u))
    PROVE  \A u \in Tasks \ {t} : Life(u)' = Life(u)
  BY LifeKept, Zenon DEF SchedInv

\* The queue gets the task t.
LEMMA QueueOneTask ==
    ASSUME SchedInv, SchedInv', PlaceInv, NEW t \in Tasks, ~ Queued(t),
           \A u \in Tasks \ {t} : state'[u] = state[u],
           state'[t] = "runnable", runnable_tasks' = Push(runnable_tasks, t)
    PROVE  /\ Lifecycle!Become(t, Life(t), "ready")
           /\ runnable_tasks' = Append(runnable_tasks, t)
  <1>1. \A u \in Tasks : Queued(u)' <=> Queued(u) \/ u = t
    <2>1. runnable_tasks \in Seq(Tasks) /\ IsInjective(runnable_tasks)
      BY Zenon DEF SchedInv, TypeOK, PlaceInv, QueueIsRunnable
    <2>2. Range(runnable_tasks') = Range(runnable_tasks) \cup {t}
      BY <2>1, PushFacts, Zenon
    <2> QED
      BY <2>2, Zenon DEF Queued
  <1>2. \A u \in Tasks \ {t} : Life(u)' = Life(u)
    BY <1>1, OneTaskChanges, Zenon
  <1>3. Life(t)' = "ready"
    BY <1>1, LifeFactsPrime, Zenon DEF SchedInv
  <1> QED
    BY <1>2, <1>3, BecomeStep, PushAppends, Zenon

\* Every step of a worker is a step of the life cycle, or none.
LEMMA WorkerImplements ==
    ASSUME SchedInv, SchedInv', PlaceInv, NEW a \in Workers,
           \/ Loop(a) \/ PollReturn(a) \/ PollRelock(a) \/ SpuriousWakeup(a)
           \/ GiveBack(a) \/ MainFinishedLocked(a) \/ MainFinishedPoke(a)
           \/ ParkHandback(a) \/ AfterSwitch(a) \/ Requeue(a)
    PROVE  [Lifecycle!Next]_(Lifecycle!lifeVars)
  <1>0. TypeOK /\ TypeOK'
    BY Zenon DEF SchedInv
  <1>1. CASE UNCHANGED <<runnable_tasks, state>>
    <2>1. \A t \in Tasks : Life(t)' = Life(t)
      BY <1>0, <1>1, LifeKept, Zenon DEF Queued
    <2> QED
      BY <1>1, <2>1, LifeStutter, Zenon
  <1>2. ASSUME pc[a] \notin IdlePc
        PROVE  /\ task[a] \in Tasks /\ ~ Queued(task[a])
               /\ Fits(pc[a], state[task[a]])
               /\ state[task[a]] \in {"runnable", "finished"} => Life(task[a]) = "running"
    BY <1>0, <1>2, OwnTask, LifeFacts, Zenon
  <1>3. CASE LoopPop(a)
    <2>1. /\ runnable_tasks \in Seq(Tasks) /\ runnable_tasks # << >>
          /\ IsInjective(runnable_tasks)
          /\ runnable_tasks' = Tail(runnable_tasks) /\ UNCHANGED state
      BY <1>0, <1>3, Zenon DEF LoopPop, TypeOK, PlaceInv, QueueIsRunnable
    <2>2. PICK h \in Tasks :
             /\ h = Head(runnable_tasks) /\ Queued(h)
             /\ \A t \in Tasks : Queued(t)' <=> Queued(t) /\ t # h
      BY <2>1, PopFacts DEF Queued
    <2>3. state[h] = "runnable"
      BY <2>2, Zenon DEF PlaceInv, QueueIsRunnable
    <2>4. Life(h) = "ready" /\ Life(h)' = "running"
      BY <1>0, <2>1, <2>2, <2>3, LifeFacts, LifeFactsPrime, Zenon
    <2>5. \A u \in Tasks \ {h} : Life(u)' = Life(u)
      BY <2>1, <2>2, OneTaskChanges, Zenon
    <2>6. Lifecycle!Become(h, "ready", "running")
      BY <2>2, <2>4, <2>5, BecomeStep, Zenon
    <2> QED
      BY <2>1, <2>2, <2>6, Zenon DEF Lifecycle!Next, Lifecycle!Dispatch
  <1>4. CASE task_finished(a)
    <2>1. PICK t \in Tasks : t = task[a] /\ ~ Queued(t) /\ Life(t) = "running"
      BY <1>2, <1>4, Zenon DEF task_finished, IdlePc, Fits, RunPc, FinPc
    <2>2. /\ state'[t] = "finished" /\ UNCHANGED runnable_tasks
          /\ \A u \in Tasks \ {t} : state'[u] = state[u]
      BY <1>0, <1>4, <2>1, Zenon DEF task_finished, TypeOK
    <2>3. Life(t)' = "running" /\ \A u \in Tasks \ {t} : Life(u)' = Life(u)
      BY <1>0, <2>1, <2>2, LifeFactsPrime, OneTaskChanges, Zenon DEF Queued
    <2> QED
      BY <2>1, <2>2, <2>3, LifeStutter, Zenon
  <1>5. CASE \/ worker_park_current_on_channel_locked(a)
             \/ \E s \in Fds \X WaitFor : worker_park_current_on_io(a, s)
    <2>1. PICK t \in Tasks : t = task[a] /\ ~ Queued(t) /\ Life(t) = "running"
      BY <1>2, <1>5, Zenon
         DEF worker_park_current_on_channel_locked, worker_park_current_on_io,
         IdlePc, Fits, RunPc, FinPc
    <2>2. /\ state'[t] \in Waiting /\ UNCHANGED runnable_tasks
          /\ \A u \in Tasks \ {t} : state'[u] = state[u]
      BY <1>0, <1>5, <2>1, Zenon
         DEF worker_park_current_on_channel_locked, worker_park_current_on_io,
         TypeOK, Waiting
    <2>3. Life(t)' = "parked" /\ \A u \in Tasks \ {t} : Life(u)' = Life(u)
      BY <1>0, <2>1, <2>2, LifeFactsPrime, OneTaskChanges, Zenon DEF Queued
    <2> QED
      BY <2>1, <2>2, <2>3, BecomeStep, Zenon DEF Lifecycle!Next, Lifecycle!Park
  <1>6. CASE AfterSwitch(a)
    <2>1. PICK t \in Tasks : t = task[a] /\ ~ Queued(t) /\ Life(t) = "running"
      BY <1>2, <1>6, Zenon DEF AfterSwitch, IdlePc, Fits, RunPc, FinPc
    <2>2. CASE ~ UNCHANGED state
      <3>1. /\ state'[t] = "freed" /\ UNCHANGED runnable_tasks
            /\ \A u \in Tasks \ {t} : state'[u] = state[u]
        BY <1>0, <1>6, <2>1, <2>2, Zenon DEF AfterSwitch, TypeOK
      <3>2. Life(t)' = "dead" /\ \A u \in Tasks \ {t} : Life(u)' = Life(u)
        BY <1>0, <2>1, <3>1, LifeFactsPrime, OneTaskChanges, Zenon DEF Queued
      <3> QED
        BY <2>1, <3>1, <3>2, BecomeStep, Zenon DEF Lifecycle!Next, Lifecycle!End
    <2> QED
      BY <1>1, <1>6, <2>2, Zenon DEF AfterSwitch
  <1>7. CASE Requeue(a)
    <2>1. PICK t \in Tasks : /\ t = task[a] /\ ~ Queued(t) /\ Life(t) = "running"
                             /\ state[t] = "runnable"
      BY <1>2, <1>7, Zenon DEF Requeue, IdlePc, Fits, RunPc, FinPc
    <2>2. UNCHANGED state /\ runnable_tasks' = Push(runnable_tasks, t)
      BY <1>7, <2>1, Zenon DEF Requeue
    <2> QED
      BY <2>1, <2>2, QueueOneTask, Zenon DEF Lifecycle!Next, Lifecycle!Yield
  <1> QED
    BY <1>1, <1>3, <1>4, <1>5, <1>6, <1>7, Zenon
       DEF Loop, LoopExit, LoopBeginPoll, LoopCondWait, PollReturn, PollRelock,
       SpuriousWakeup, GiveBack, worker_yield, MainFinishedLocked,
       MainFinishedPoke, ParkHandback

\* wake_waiting_tasks_locked wakes no task, one, or the reader and the writer of a
\* descriptor at once.
LEMMA WakeWaitingImplements ==
    ASSUME SchedInv, SchedInv', PlaceInv, NEW fd \in Fds, NEW evs \in SUBSET Events,
           wake_waiting_tasks_locked(fd, evs)
    PROVE  [Lifecycle!Next]_(Lifecycle!lifeVars)
  <1> DEFINE r == <<fd, "read">>
             w == <<fd, "write">>
             A == "read" \in evs /\ io_waits[r] # NoTask
             B == "write" \in evs /\ io_waits[w] # NoTask
  <1>0. /\ TypeOK /\ TypeOK' /\ NoTask \notin Tasks
        /\ r \in Slots /\ w \in Slots /\ r[2] = "read" /\ w[2] = "write" /\ r # w
    BY SchedulerAssumption, Zenon DEF SchedInv, Slots, Events
  <1>1. /\ \A t \in Woken(fd, evs) : state[t] = "waiting_io"
        /\ \A t \in Tasks : Queued(t)' <=> Queued(t) \/ t \in Woken(fd, evs)
    BY WakeWaitingFacts, Zenon
  <1>2. \A t \in Tasks : state'[t] = IF t \in Woken(fd, evs) THEN "runnable" ELSE state[t]
    BY DEF wake_waiting_tasks_locked
  <1>3. Woken(fd, evs) = (IF A THEN {io_waits[r]} ELSE {})
                         \cup (IF B THEN {io_waits[w]} ELSE {})
    BY Zenon DEF Woken, Events
  <1>4. runnable_tasks' =
           LET q == IF A THEN Push(runnable_tasks, io_waits[r]) ELSE runnable_tasks
           IN  IF B THEN Push(q, io_waits[w]) ELSE q
    BY <1>0, Zenon DEF wake_waiting_tasks_locked, PushSlot
  <1>5. ASSUME NEW t \in Tasks, state[t] = "waiting_io"
        PROVE  ~ Queued(t) /\ Life(t) = "parked"
    BY <1>0, <1>5, LifeFacts, Zenon DEF PlaceInv, QueueIsRunnable, Waiting
  <1>6. CASE ~ A /\ ~ B
    <2>1. \A t \in Tasks : Life(t)' = Life(t)
      BY <1>0, <1>1, <1>2, <1>3, <1>6, LifeKept, Zenon
    <2> QED
      BY <1>4, <1>6, <2>1, LifeStutter, Zenon
  <1>7. ASSUME NEW t \in Tasks, Woken(fd, evs) = {t},
               runnable_tasks' = Push(runnable_tasks, t)
        PROVE  Lifecycle!Wake(t)
    <2>1. state[t] = "waiting_io" /\ state'[t] = "runnable"
          /\ \A u \in Tasks \ {t} : state'[u] = state[u]
      BY <1>1, <1>2, <1>7, Zenon
    <2>2. ~ Queued(t) /\ Life(t) = "parked"
      BY <1>5, <2>1, Zenon
    <2> QED
      BY <1>7, <2>1, <2>2, QueueOneTask, Zenon DEF Lifecycle!Wake
  <1>8. CASE A /\ ~ B
    <2>1. PICK t \in Tasks : t = io_waits[r]
      BY <1>0, <1>8, Zenon DEF TypeOK
    <2> QED
      BY <1>3, <1>4, <1>7, <1>8, <2>1, Zenon DEF Lifecycle!Next
  <1>9. CASE ~ A /\ B
    <2>1. PICK t \in Tasks : t = io_waits[w]
      BY <1>0, <1>9, Zenon DEF TypeOK
    <2> QED
      BY <1>3, <1>4, <1>7, <1>9, <2>1, Zenon DEF Lifecycle!Next
  <1>10. CASE A /\ B
    <2>1. PICK t \in Tasks : t = io_waits[r]
      BY <1>0, <1>10, Zenon DEF TypeOK
    <2>2. PICK u \in Tasks : u = io_waits[w]
      BY <1>0, <1>10, Zenon DEF TypeOK
    <2>3. t # u
      BY <1>0, <2>1, <2>2, Zenon DEF PlaceInv, SlotsAreWaits
    <2>4. Woken(fd, evs) = {t, u} /\ runnable_tasks' = Push(Push(runnable_tasks, t), u)
      BY <1>3, <1>4, <1>10, <2>1, <2>2, Zenon
    <2> HIDE DEF A, B, r, w
    <2>5. /\ ~ Queued(t) /\ ~ Queued(u) /\ Life(t) = "parked" /\ Life(u) = "parked"
      BY <1>1, <1>5, <2>4, Zenon
    <2>6. runnable_tasks' = runnable_tasks \o <<t, u>>
      <3>1. /\ runnable_tasks \in Seq(Tasks)
            /\ Push(runnable_tasks, t) = Append(runnable_tasks, t)
        BY <1>0, <2>5, PushAppends, Zenon DEF TypeOK
      <3>2. u \notin Range(Append(runnable_tasks, t))
        <4>1. IsInjective(runnable_tasks) /\ u \notin Range(runnable_tasks)
          BY <2>5, Zenon DEF PlaceInv, QueueIsRunnable, Queued
        <4>2. Range(Push(runnable_tasks, t)) = Range(runnable_tasks) \cup {t}
          BY <3>1, <4>1, PushFacts, Zenon
        <4> QED
          BY <2>3, <3>1, <4>1, <4>2, Zenon
      <3>3. runnable_tasks' = Append(Append(runnable_tasks, t), u)
        BY <2>4, <3>1, <3>2, Zenon DEF Push
      <3> QED
        BY <3>1, <3>3
    <2>7. Life(t)' = "ready" /\ Life(u)' = "ready"
      BY <1>0, <1>1, <1>2, <2>4, LifeFactsPrime, Zenon
    <2>8. \A v \in Tasks \ {t, u} : Life(v)' = Life(v)
      BY <1>0, <1>1, <1>2, <2>4, LifeKept, Zenon
    <2>9. Lifecycle!WakeBoth(t, u)
      BY <2>3, <2>5, <2>6, <2>7, <2>8, Zenon DEF Lifecycle!WakeBoth
    <2> QED
      BY <2>9, Zenon DEF Lifecycle!Next
  <1> QED
    BY <1>6, <1>8, <1>9, <1>10, Zenon

\* Every step of a library call is a step of the life cycle, or none.
LEMMA CallImplements ==
    ASSUME SchedInv, SchedInv', PlaceInv, NEW a \in Actors, CallStep(a) \/ Call(a)
    PROVE  [Lifecycle!Next]_(Lifecycle!lifeVars)
  <1>0. TypeOK /\ TypeOK'
    BY DEF SchedInv
  <1>1. CASE \/ ChannelUnlock(a) \/ PokePoller(a) \/ ShutdownLock(a)
             \/ ShutdownUnlock(a) \/ ShutdownTellMain(a)
    <2>1. UNCHANGED <<runnable_tasks, state>>
      BY <1>1, Zenon
         DEF ChannelUnlock, PokePoller, ShutdownLock, ShutdownUnlock,
         ShutdownTellMain
    <2>2. \A t \in Tasks : Life(t)' = Life(t)
      BY <1>0, <2>1, LifeKept, Zenon DEF Queued
    <2> QED
      BY <2>1, <2>2, LifeStutter, Zenon
  <1>2. ASSUME NEW t \in Tasks, state[t] # "runnable",
               state' = [state EXCEPT ![t] = "runnable"],
               runnable_tasks' = Push(runnable_tasks, t)
        PROVE  /\ Lifecycle!Become(t, Life(t), "ready")
               /\ runnable_tasks' = Append(runnable_tasks, t)
    <2>1. ~ Queued(t)
      BY <1>2, Zenon DEF PlaceInv, QueueIsRunnable
    <2>2. state'[t] = "runnable" /\ \A u \in Tasks \ {t} : state'[u] = state[u]
      BY <1>0, <1>2, Zenon DEF TypeOK
    <2> QED
      BY <1>2, <2>1, <2>2, QueueOneTask, Zenon
  <1>3. ASSUME NEW t \in Tasks,
               ChannelWakeFirst(a, t) \/ ChannelWakeNext(a, t) \/ ShutdownWake(a, t)
        PROVE  Lifecycle!Wake(t)
    <2>1. /\ state[t] = "waiting_channel" /\ Life(t) = "parked"
          /\ state' = [state EXCEPT ![t] = "runnable"]
          /\ runnable_tasks' = Push(runnable_tasks, t)
      BY <1>0, <1>3, LifeFacts, Zenon
         DEF ChannelWakeFirst, ChannelWakeNext, ShutdownWake,
         worker_wake_task_locked, Waiting
    <2> QED
      BY <1>2, <2>1, Zenon DEF Lifecycle!Wake
  <1>4. ASSUME NEW t \in Tasks, croutine_spawn(a, t) PROVE Lifecycle!Spawn(t)
    <2>1. /\ state[t] = "unborn" /\ Life(t) = "unborn"
          /\ state' = [state EXCEPT ![t] = "runnable"]
          /\ runnable_tasks' = Push(runnable_tasks, t)
      BY <1>0, <1>4, LifeFacts, Zenon DEF croutine_spawn, worker_spawn
    <2> QED
      BY <1>2, <2>1, Zenon DEF Lifecycle!Spawn
  <1>5. ASSUME NEW fd \in Fds, worker_forget_fd(a, fd)
        PROVE  [Lifecycle!Next]_(Lifecycle!lifeVars)
    BY <1>5, WakeWaitingImplements, Zenon DEF worker_forget_fd
  <1> QED
    BY <1>1, <1>3, <1>4, <1>5, Zenon DEF CallStep, Call, Lifecycle!Next

\* Every step of croutine_run is a step of the life cycle, or none.
LEMMA MainImplements ==
    ASSUME SchedInv, SchedInv', PlaceInv, RunInv, MainThreadStep
    PROVE  [Lifecycle!Next]_(Lifecycle!lifeVars)
  <1>0. TypeOK /\ TypeOK' /\ Main \in Tasks /\ NoTask \notin Tasks
    BY SchedulerAssumption DEF SchedInv
  <1>1. CASE UNCHANGED <<runnable_tasks, state>>
    <2>1. \A t \in Tasks : Life(t)' = Life(t)
      BY <1>0, <1>1, LifeKept, Zenon DEF Queued
    <2> QED
      BY <1>1, <2>1, LifeStutter, Zenon
  <1>2. CASE SpawnMain
    <2>1. /\ state[Main] = "unborn" /\ Life(Main) = "unborn"
          /\ state' = [state EXCEPT ![Main] = "runnable"]
          /\ runnable_tasks' = Push(runnable_tasks, Main)
      BY <1>0, <1>2, LifeFacts, Zenon DEF SpawnMain, worker_spawn
    <2>2. /\ ~ Queued(Main) /\ state'[Main] = "runnable"
          /\ \A u \in Tasks \ {Main} : state'[u] = state[u]
      BY <1>0, <2>1, Zenon DEF PlaceInv, QueueIsRunnable, TypeOK
    <2> QED
      BY <1>0, <2>1, <2>2, QueueOneTask, Zenon DEF Lifecycle!Next, Lifecycle!Spawn
  <1>3. CASE worker_deinit
    <2>1. /\ runnable_tasks' = << >>
          /\ \A t \in Tasks : /\ state'[t] \in {"unborn", "freed"}
                              /\ state'[t] = "freed" \/ state'[t] = state[t]
      BY <1>3, DeinitFreesAll, Zenon DEF worker_deinit
    <2>2. ASSUME NEW t \in Tasks
          PROVE  /\ Life(t) # "running"
                 /\ Life(t)' = IF Life(t) = "unborn" THEN "unborn" ELSE "dead"
      <3>1. \A w \in Workers : task[w] # t
        <4>1. ASSUME NEW w \in Workers PROVE task[w] # t
          <5>1. Stopped(w) /\ WorkerFits(w)
            BY <1>3, Zenon DEF worker_deinit, RunInv, PlaceInv, TasksFitWorkers
          <5> QED
            BY <1>0, <5>1, Zenon DEF Stopped, WorkerFits, Fits, RunPc, FinPc
        <4> QED
          BY <4>1, Zenon
      <3>2. Findable(t) /\ state[t] \in TaskState
        BY <1>0, Zenon DEF PlaceInv, TypeOK
      <3>3. Life(t) # "running"
        BY <1>0, <3>1, <3>2, LifeFacts, Zenon DEF Findable, TaskState, Waiting
      <3>4. Life(t) = "unborn" <=> state[t] = "unborn"
        BY <1>0, <3>2, LifeFacts, Zenon DEF TaskState, Waiting
      <3>5. state[t] = "unborn" => state'[t] = "unborn"
        <4> SUFFICES ASSUME state[t] = "unborn" PROVE state'[t] = "unborn"
          BY Zenon
        <4>1. t \notin Range(runnable_tasks)
          BY <1>0, Zenon DEF PlaceInv, QueueIsRunnable, Queued
        <4>2. DOMAIN io_waits = Slots
          BY <1>0, Zenon DEF TypeOK
        <4>3. t \notin Range(io_waits)
          BY <1>0, <4>2, Zenon DEF PlaceInv, SlotsAreWaits, Range
        <4> QED
          BY <1>3, <4>1, <4>3, Zenon DEF worker_deinit
      <3> QED
        BY <1>0, <2>1, <3>3, <3>4, <3>5, LifeFactsPrime, Zenon
    <2> QED
      BY <2>1, <2>2, Zenon DEF Lifecycle!Next, Lifecycle!Teardown
  <1> QED
    BY <1>1, <1>2, <1>3, Zenon
       DEF MainThreadStep, SpawnMainFails, StartWorker, CreateFails, AllStarted,
       worker_wait_for_main, JoinWorkers

\* Every step of the scheduler is a step of the life cycle, or none.
LEMMA StepImplements ==
    ASSUME SchedInv, SchedInv', PlaceInv, RunInv, [Next]_vars
    PROVE  [Lifecycle!Next]_(Lifecycle!lifeVars)
  <1>1. ASSUME NEW w \in Workers, WorkerStep(w) \/ GiveBack(w) \/ SpuriousWakeup(w)
        PROVE  [Lifecycle!Next]_(Lifecycle!lifeVars)
    <2>1. ASSUME NEW fd \in Fds, DeliverEvents(w, fd)
          PROVE  [Lifecycle!Next]_(Lifecycle!lifeVars)
      <3> DEFINE evs == {e \in Events : <<fd, e>> \in events[w]}
      <3>1. evs \in SUBSET Events /\ wake_waiting_tasks_locked(fd, evs)
        BY <2>1, Zenon DEF DeliverEvents
      <3> HIDE DEF evs
      <3> QED
        BY <3>1, WakeWaitingImplements, Zenon
    <2> QED
      BY <1>1, <2>1, WorkerImplements, Zenon DEF WorkerStep
  <1>2. CASE Kernel \/ Terminated \/ UNCHANGED vars
    <2>1. UNCHANGED <<runnable_tasks, state>>
      BY <1>2, Zenon DEF Kernel, FdReady, FdConsumed, Terminated, vars, schedVars
    <2>2. \A t \in Tasks : Life(t)' = Life(t)
      BY <2>1, LifeKept DEF Queued, SchedInv
    <2> QED
      BY <2>1, <2>2, LifeStutter, Zenon
  <1> QED
    BY <1>1, <1>2, CallImplements, MainImplements DEF Next

\* No task is born and the queue is empty.
LEMMA InitImplements == Init => Lifecycle!Init
  BY DEF Init, Lifecycle!Init, Life

\* The workers, the mutex, the poller and the thread in croutine_run implement the
\* life cycle of tasks.
THEOREM SchedulerImplementsLifecycle == Spec => ImplementsLifecycle
  <1>1. SchedInv /\ SchedInv' /\ PlaceInv /\ RunInv /\ [Next]_vars
           => [Lifecycle!Next]_(Lifecycle!lifeVars)
    BY StepImplements
  <1> QED
    BY <1>1, InitImplements, SchedulerInvariant, PlaceInvariant, RunInvariant, PTL
       DEF Spec, ImplementsLifecycle, Lifecycle!Spec
=============================================================================
