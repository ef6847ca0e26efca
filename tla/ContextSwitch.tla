---------------------------- MODULE ContextSwitch ----------------------------
(***************************************************************************)
(* What context_switch and create_context of src/arch do to the registers  *)
(* of the worker threads, and the protocol of src/worker.c around them: a  *)
(* task is published (queued, or left where a waker finds it) only when    *)
(* its registers are saved.                                                *)
(*                                                                         *)
(* A switch is two steps, saving and loading, with the other workers in    *)
(* between.  The registers are the stack pointer (which stack the thread   *)
(* is on), the callee-saved general registers, and the floating-point      *)
(* control words; the two architectures differ only in their names.        *)
(***************************************************************************)
EXTENDS Naturals

CONSTANTS Workers,
          Coroutines,   \* the tasks
          NoCoroutine,  \* croutine_current_task of a worker without a task
          Free,         \* scheduler_mutex is not held
          Values        \* what a task puts into its registers

Registers == {"sp", "saved", "fpu"}

ASSUME ContextAssumption == /\ NoCoroutine \notin Coroutines
                            /\ Workers \cap Coroutines = {}
                            /\ Free \notin Workers
                            /\ 0 \in Values

VARIABLES cpu,          \* worker -> its registers
          context,      \* worker or task -> struct Context
          place,        \* worker -> where it is
          current,      \* worker -> croutine_current_task
          mutex,        \* the worker that holds scheduler_mutex, or Free
          runnable,     \* the queued tasks
          parked,       \* the tasks a waker can find
          unborn,       \* the tasks not spawned yet
          left          \* history: task -> the registers it is to continue with

context_vars == <<cpu, context, place, current, mutex, runnable, parked, unborn, left>>

\* The registers at the start of worker_loop, and of a task.
OfWorker(w) == [r \in Registers |-> IF r = "fpu" THEN 0 ELSE w]
OfNewTask(t, fpu) == [r \in Registers |-> IF r = "fpu" THEN fpu ELSE t]

RegisterFile == {f \in [Registers -> Values \cup Workers \cup Coroutines] :
                    f["sp"] \in Workers \cup Coroutines /\ f["fpu"] \in Values}

Places == {"loop", "enter", "task", "leave", "back", "handed"}

\* Every variable has its type.
ContextTypeOK == /\ cpu \in [Workers -> RegisterFile]
                 /\ context \in [Workers \cup Coroutines -> RegisterFile]
                 /\ place \in [Workers -> Places]
                 /\ current \in [Workers -> Coroutines \cup {NoCoroutine}]
                 /\ mutex \in Workers \cup {Free}
                 /\ runnable \subseteq Coroutines
                 /\ parked \subseteq Coroutines
                 /\ unborn \subseteq Coroutines
                 /\ left \in [Coroutines -> RegisterFile]

\* One task is there, made by a thread with the default control words.
ContextInit == /\ cpu = [w \in Workers |-> OfWorker(w)]
               /\ context = [x \in Workers \cup Coroutines |->
                                IF x \in Coroutines THEN OfNewTask(x, 0) ELSE OfWorker(x)]
               /\ place = [w \in Workers |-> "loop"]
               /\ current = [w \in Workers |-> NoCoroutine]
               /\ mutex = Free
               /\ \E t \in Coroutines : runnable = {t} /\ unborn = Coroutines \ {t}
               /\ parked = {}
               /\ left = [t \in Coroutines |-> OfNewTask(t, 0)]

MoveTo(w, label) == place' = [place EXCEPT ![w] = label]
-----------------------------------------------------------------------------
(***************************************************************************)
(* src/arch.                                                               *)
(***************************************************************************)
\* Mutant: the control words are not part of the context.
saved_without_fpu == {"sp", "saved"}

\* What context_switch stores and loads.
saved_registers == Registers

\* The first half of context_switch.
Save(w, old) == context' = [context EXCEPT ![old] =
                    [r \in Registers |-> IF r \in saved_registers THEN cpu[w][r]
                                         ELSE context[old][r]]]

\* The second half.
Load(w, new) == cpu' = [cpu EXCEPT ![w] =
                    [r \in Registers |-> IF r \in saved_registers
                                         THEN context[new][r] ELSE cpu[w][r]]]

\* Mutant: the control words of a new task are left at 0.
create_context_zero(t, w) == OfNewTask(t, 0)

\* create_context: the stack, the body and the argument of the task, and the
\* control words of the thread that spawns it.
create_context(t, w) == OfNewTask(t, cpu[w]["fpu"])
-----------------------------------------------------------------------------
(***************************************************************************)
(* The worker loop.                                                        *)
(***************************************************************************)
\* The worker pops a task under the mutex; switch_from_scheduler saves.
Dispatch(w, t) ==
    /\ place[w] = "loop"
    /\ mutex = Free
    /\ t \in runnable
    /\ runnable' = runnable \ {t}
    /\ current' = [current EXCEPT ![w] = t]
    /\ Save(w, w)
    /\ MoveTo(w, "enter")
    /\ UNCHANGED <<cpu, mutex, parked, unborn, left>>

Enter(w) ==
    /\ place[w] = "enter"
    /\ Load(w, current[w])
    /\ MoveTo(w, "task")
    /\ UNCHANGED <<context, current, mutex, runnable, parked, unborn, left>>

\* Back on the scheduler's stack.
Back(w) ==
    /\ place[w] = "leave"
    /\ Load(w, w)
    /\ MoveTo(w, IF mutex = w THEN "handed" ELSE "back")
    /\ UNCHANGED <<context, current, mutex, runnable, parked, unborn, left>>

\* The worker unlocks the mutex its task locked.
Unlock(w) ==
    /\ place[w] = "handed"
    /\ mutex' = Free
    /\ current' = [current EXCEPT ![w] = NoCoroutine]
    /\ MoveTo(w, "loop")
    /\ UNCHANGED <<cpu, context, runnable, parked, unborn, left>>

\* A task that yielded is queued again.
Requeue(w) ==
    /\ place[w] = "back"
    /\ mutex = Free
    /\ runnable' = runnable \cup {current[w]}
    /\ current' = [current EXCEPT ![w] = NoCoroutine]
    /\ MoveTo(w, "loop")
    /\ UNCHANGED <<cpu, context, mutex, parked, unborn, left>>
-----------------------------------------------------------------------------
(***************************************************************************)
(* What a task does.                                                       *)
(***************************************************************************)
\* It computes, and may change its rounding mode.
Compute(w, r, v) ==
    /\ place[w] = "task"
    /\ mutex # w
    /\ r # "sp"
    /\ cpu' = [cpu EXCEPT ![w][r] = v]
    /\ UNCHANGED <<context, place, current, mutex, runnable, parked, unborn, left>>

Spawn(w, t) ==
    /\ place[w] = "task"
    /\ mutex = Free
    /\ t \in unborn
    /\ unborn' = unborn \ {t}
    /\ context' = [context EXCEPT ![t] = create_context(t, w)]
    /\ left' = [left EXCEPT ![t] = OfNewTask(t, cpu[w]["fpu"])]
    /\ runnable' = runnable \cup {t}
    /\ UNCHANGED <<cpu, place, current, mutex, parked>>

Leave(w) == /\ left' = [left EXCEPT ![current[w]] = cpu[w]]
            /\ Save(w, current[w])
            /\ MoveTo(w, "leave")

\* worker_yield: the worker queues the task once it is back.
Yield(w) ==
    /\ place[w] = "task"
    /\ mutex # w
    /\ Leave(w)
    /\ UNCHANGED <<cpu, current, mutex, runnable, parked, unborn>>

\* Mutant: the task unlocks the mutex before it switches.
ParkUnlocks(w) ==
    /\ place[w] = "task"
    /\ mutex = Free
    /\ parked' = parked \cup {current[w]}
    /\ UNCHANGED <<cpu, context, place, current, mutex, runnable, unborn, left>>

\* worker_park_current_on_io and _on_channel_locked: the task is where a waker
\* finds it, and holds the mutex ...
Park(w) ==
    /\ place[w] = "task"
    /\ mutex = Free
    /\ mutex' = w
    /\ parked' = parked \cup {current[w]}
    /\ UNCHANGED <<cpu, context, place, current, runnable, unborn, left>>

\* ... across the switch.
ParkSwitches(w) ==
    /\ place[w] = "task"
    /\ current[w] \in parked
    /\ Leave(w)
    /\ UNCHANGED <<cpu, current, mutex, runnable, parked, unborn>>

\* A waker, on a worker or elsewhere, under the mutex.
Wake(t) ==
    /\ mutex = Free
    /\ t \in parked
    /\ parked' = parked \ {t}
    /\ runnable' = runnable \cup {t}
    /\ UNCHANGED <<cpu, context, place, current, mutex, unborn, left>>

ContextNext == \/ \E t \in Coroutines : Wake(t)
               \/ \E w \in Workers :
                     \/ Enter(w) \/ Back(w) \/ Unlock(w) \/ Requeue(w)
                     \/ Yield(w) \/ Park(w) \/ ParkSwitches(w)
                     \/ \E t \in Coroutines : Dispatch(w, t) \/ Spawn(w, t)
                     \/ \E r \in Registers, v \in Values : Compute(w, r, v)

ContextSpec == ContextInit /\ [][ContextNext]_context_vars
-----------------------------------------------------------------------------
\* A task goes on with the registers it left with, on whichever worker: its
\* stack, its values and its rounding mode; a new one starts with the control
\* words of the task that spawned it.
ResumesWhatItLeft ==
    [][\A w \in Workers : place[w] = "enter" /\ place'[w] = "task" =>
          cpu'[w] = left[current[w]]]_context_vars

\* No two workers are on one stack: a task is resumed only after its old worker
\* has left the task's stack, although wakers find it before.
OneThreadPerStack ==
    \A v, w \in Workers : cpu[v]["sp"] = cpu[w]["sp"] => v = w

\* The scheduler loop runs with its own registers, whatever the tasks set: a
\* rounding mode does not spread from a task over the worker to others.
SchedulerUndisturbed ==
    \A w \in Workers : place[w] \in {"loop", "back", "handed"} =>
        cpu[w] = OfWorker(w)
=============================================================================
