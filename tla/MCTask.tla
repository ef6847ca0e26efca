------------------------------- MODULE MCTask -------------------------------
(***************************************************************************)
(* A task is a place in the run queue, a stack and saved registers:        *)
(* TaskQueue, StackLayout and ContextSwitch for TLC, in one instance.      *)
(* They share no variable, so TLC need not interleave them: a behaviour is *)
(* about one part, and the others stay as they began.                      *)
(***************************************************************************)
EXTENDS TaskQueue, StackLayout, ContextSwitch, TLC

VARIABLE part   \* what this behaviour is about

TaskInit == /\ part \in {"queue", "stacks", "registers"}
            /\ Init
            /\ StackInit
            /\ ContextInit
            /\ part # "queue" => \A n \in InitCapacities : capacity <= n
            /\ part # "stacks" => configured_stack_size = MinStackSize

\* A refused push or pop, also on a queue without storage, changes nothing.
TaskNext == \/ /\ part = "queue"
               /\ [Next]_queueVars
               /\ UNCHANGED <<part, vars, context_vars>>
            \/ /\ part = "stacks"
               /\ StackNext
               /\ UNCHANGED <<part, queueVars, context_vars>>
            \/ /\ part = "registers"
               /\ ContextNext
               /\ UNCHANGED <<part, queueVars, vars>>

TaskSpec == TaskInit /\ [][TaskNext]_<<part, queueVars, vars, context_vars>>

\* Tasks are interchangeable in each part, and so are workers.
Symmetry == Permutations(Tasks) \cup Permutations(TaskSlots)
            \cup Permutations(Coroutines) \cup Permutations(Workers)

\* Every size for which align_up does not wrap.  For the last page of them the
\* size of the mapping wraps to 0, which mmap refuses.
UnwrappedSizes == 0 .. SizeMod - PageSize

\* Every size that fits into size_t.
AllSizes == 0 .. SizeMod - 1
=============================================================================
