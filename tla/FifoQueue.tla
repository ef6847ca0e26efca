------------------------------ MODULE FifoQueue ------------------------------
(***************************************************************************)
(* What the scheduler relies on when it uses struct TaskQueue: a FIFO      *)
(* queue that holds a task at most once.  Pushing a task that is already   *)
(* queued changes nothing; a push may be refused when memory is short.     *)
(***************************************************************************)
EXTENDS Sequences, Naturals

CONSTANTS Tasks,    \* the tasks that exist
          NoTask    \* the NULL task pointer

VARIABLES contents, \* the queued tasks, oldest first
          out       \* the task the last successful pop handed over

fifoVars == <<contents, out>>

Init == /\ contents = << >>
        /\ out = NoTask

Push(t) == /\ \A i \in DOMAIN contents : contents[i] # t
           /\ contents' = Append(contents, t)
           /\ UNCHANGED out

Pop == /\ contents # << >>
       /\ out' = Head(contents)
       /\ contents' = Tail(contents)

Next == Pop \/ \E t \in Tasks : Push(t)

Spec == Init /\ [][Next]_fifoVars
=============================================================================
