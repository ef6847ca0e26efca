---------------------------- MODULE TaskLifecycle ----------------------------
(***************************************************************************)
(* What the scheduler promises about tasks, without threads, locks or the  *)
(* poller: tasks become ready in some order and run in that order; a       *)
(* running task yields, parks or ends; a parked task does not run before   *)
(* it is woken; at the end every task that still exists is dropped.        *)
(***************************************************************************)
EXTENDS Naturals, Sequences

CONSTANT Tasks

VARIABLES life,   \* task -> unborn, ready, running, parked or dead
          order   \* the ready tasks in the order in which they will run

lifeVars == <<life, order>>

Init == /\ life = [t \in Tasks |-> "unborn"]
        /\ order = << >>

Become(t, from, to) == /\ life[t] = from
                       /\ life' = [life EXCEPT ![t] = to]

Spawn(t) == Become(t, "unborn", "ready") /\ order' = Append(order, t)

\* The oldest ready task starts to run.
Dispatch == /\ order # << >>
            /\ Become(Head(order), "ready", "running")
            /\ order' = Tail(order)

Yield(t) == Become(t, "running", "ready") /\ order' = Append(order, t)

Park(t) == Become(t, "running", "parked") /\ UNCHANGED order

Wake(t) == Become(t, "parked", "ready") /\ order' = Append(order, t)

\* The reader and the writer of one descriptor are woken together.
WakeBoth(t, u) == /\ t # u
                  /\ life[t] = "parked" /\ life[u] = "parked"
                  /\ life' = [life EXCEPT ![t] = "ready", ![u] = "ready"]
                  /\ order' = order \o <<t, u>>

End(t) == Become(t, "running", "dead") /\ UNCHANGED order

\* Teardown: nothing runs any more, and what is left is dropped.
Teardown == /\ \A t \in Tasks : life[t] # "running"
            /\ life' = [t \in Tasks |-> IF life[t] = "unborn" THEN "unborn"
                                        ELSE "dead"]
            /\ order' = << >>

Next == \/ \E t \in Tasks : \/ Spawn(t) \/ Yield(t) \/ Park(t) \/ Wake(t)
                            \/ End(t)
                            \/ \E u \in Tasks : WakeBoth(t, u)
        \/ Dispatch
        \/ Teardown

Spec == Init /\ [][Next]_lifeVars
=============================================================================
