------------------------------- MODULE WaitMap -------------------------------
(***************************************************************************)
(* What the scheduler and the pollers rely on when they use struct         *)
(* IoWaitTable: a place for one task per descriptor and event.  Modules    *)
(* Scheduler, EpollPoller and KqueuePoller keep the waits in this form.    *)
(***************************************************************************)
CONSTANTS Fds, Tasks, NoTask

Events == {"read", "write"}

VARIABLE waits    \* fd -> event -> the task parked for it

Init == waits = [fd \in Fds |-> [e \in Events |-> NoTask]]

\* A task goes to a place that is free, and is in no other.
Park(t, fd, e) == /\ \A f \in Fds, g \in Events : waits[f][g] # t
                  /\ waits[fd][e] = NoTask
                  /\ waits' = [f \in Fds |-> [g \in Events |->
                                  IF f = fd /\ g = e THEN t ELSE waits[f][g]]]

\* Exactly the tasks that wait for one of these events of a descriptor leave.
Wake(fd, ready) == waits' = [f \in Fds |-> [g \in Events |->
                                IF f = fd /\ g \in ready THEN NoTask
                                ELSE waits[f][g]]]

Clear == waits' = [fd \in Fds |-> [e \in Events |-> NoTask]]

Next == \/ \E fd \in Fds : \/ \E t \in Tasks, e \in Events : Park(t, fd, e)
                           \/ \E ready \in SUBSET Events : Wake(fd, ready)
        \/ Clear

Spec == Init /\ [][Next]_waits
=============================================================================
