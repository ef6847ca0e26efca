------------------------------ MODULE TaskQueue ------------------------------
(***************************************************************************)
(* struct TaskQueue of src/task.c: a growable ring of task pointers, with  *)
(* the `queued' flag that each task carries.  Every call is made with      *)
(* scheduler_mutex held, so each is one step.                              *)
(***************************************************************************)
EXTENDS Naturals, Sequences, FiniteSets

CONSTANTS Tasks,           \* the tasks that exist
          NoTask,          \* the NULL task pointer
          InitCapacities   \* the capacities task_queue_init may be called with

ASSUME QueueAssumption == /\ NoTask \notin Tasks
                          /\ InitCapacities \subseteq Nat \ {0}

VARIABLES tasks,     \* the ring: slot -> task pointer
          capacity,
          head,      \* the next slot to read
          tail,      \* the next slot to write
          count,
          queued,    \* the tasks whose scheduler.queued flag is set
          out        \* the out-parameter of the last task_queue_pop

queueVars == <<tasks, capacity, head, tail, count, queued, out>>

TypeOK == /\ capacity \in Nat
          /\ head \in Nat
          /\ tail \in Nat
          /\ count \in Nat
          /\ tasks \in [0 .. capacity - 1 -> Tasks \cup {NoTask}]
          /\ queued \subseteq Tasks
          /\ out \in Tasks \cup {NoTask}

Init == /\ capacity \in InitCapacities
        /\ tasks = [i \in 0 .. capacity - 1 |-> NoTask]
        /\ head = 0
        /\ tail = 0
        /\ count = 0
        /\ queued = {}
        /\ out = NoTask

\* The slot `i' places behind the head.
Slot(i) == (head + i) % capacity

next_index(index) == (index + 1) % capacity

task_queue_is_full == count = capacity

\* Mutant: task_queue_grow copies by raw index, as if head were 0.
GrownTasksUnwrapped == [i \in 0 .. 2 * capacity - 1 |->
                  IF i < count THEN tasks[i] ELSE NoTask]

\* The enlarged ring: the queued tasks in order from slot 0, the rest NULL.
GrownTasks == [i \in 0 .. 2 * capacity - 1 |->
                  IF i < count THEN tasks[Slot(i)] ELSE NoTask]

\* task_queue_push on a queue with a free slot.
PushFits(t) ==
    /\ capacity # 0
    /\ t \notin queued
    /\ ~ task_queue_is_full
    /\ tasks' = [tasks EXCEPT ![tail] = t]
    /\ tail' = next_index(tail)
    /\ count' = count + 1
    /\ queued' = queued \cup {t}
    /\ UNCHANGED <<capacity, head, out>>

\* task_queue_push on a full queue whose task_queue_grow succeeds: the ring is
\* doubled and straightened, then the task is stored at the new tail.
PushGrows(t) ==
    /\ capacity # 0
    /\ t \notin queued
    /\ task_queue_is_full
    /\ capacity' = 2 * capacity
    /\ tasks' = [GrownTasks EXCEPT ![count] = t]
    /\ head' = 0
    /\ tail' = (count + 1) % (2 * capacity)
    /\ count' = count + 1
    /\ queued' = queued \cup {t}
    /\ UNCHANGED out

\* Mutant: task_queue_pop leaves the queued flag set.
PopKeepsQueued ==
    /\ capacity # 0
    /\ count # 0
    /\ out' = tasks[head]
    /\ head' = next_index(head)
    /\ count' = count - 1
    /\ queued' = queued
    /\ UNCHANGED <<tasks, capacity, tail>>

task_queue_pop ==
    /\ capacity # 0
    /\ count # 0
    /\ out' = tasks[head]
    /\ head' = next_index(head)
    /\ count' = count - 1
    /\ queued' = queued \ {tasks[head]}
    /\ UNCHANGED <<tasks, capacity, tail>>

\* worker_deinit pops every task before it calls task_queue_deinit.
task_queue_deinit ==
    /\ capacity # 0
    /\ count = 0
    /\ tasks' = [i \in {} |-> NoTask]
    /\ capacity' = 0
    /\ head' = 0
    /\ tail' = 0
    /\ count' = 0
    /\ UNCHANGED <<queued, out>>

\* A push of a queued task, a push that cannot grow, a push on or a pop from a
\* queue without storage, and a pop from an empty queue leave everything as it
\* is: they are stuttering steps.
Next == \/ \E t \in Tasks : PushFits(t) \/ PushGrows(t)
        \/ task_queue_pop
        \/ task_queue_deinit

Spec == Init /\ [][Next]_queueVars
-----------------------------------------------------------------------------
(***************************************************************************)
(* What the ring represents.                                               *)
(***************************************************************************)
Contents == [i \in 1 .. count |-> tasks[Slot(i - 1)]]

Fifo == INSTANCE FifoQueue WITH contents <- Contents

\* The ring, through growth and wrap-around, behaves as a FIFO queue that holds
\* a task at most once: task_queue_push and task_queue_pop never lose, repeat or
\* reorder a task, and a pop hands over the oldest one.
ImplementsFifo == Fifo!Spec

\* The `queued' flag that makes task_queue_push idempotent is set exactly on the
\* tasks in the ring: it never blocks the push of a task that was popped and
\* never lets a task in twice, whatever growth did to the slots.
QueuedFlagExact == queued = {Contents[i] : i \in 1 .. count}

\* head, tail and count agree, so a full ring is never taken for an empty one
\* and task_queue_grow copies exactly the live slots.
RingShape == /\ count <= capacity
             /\ capacity # 0 => /\ head < capacity
                                /\ tail = (head + count) % capacity
             /\ \A i, j \in 1 .. count : Contents[i] = Contents[j] => i = j
=============================================================================
