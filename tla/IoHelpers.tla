------------------------------ MODULE IoHelpers ------------------------------
(***************************************************************************)
(* src/io.c: croutine_read, croutine_write, croutine_accept and            *)
(* croutine_fd_set_nonblocking, called by several tasks for one            *)
(* descriptor.  errno belongs to a worker thread, and a task that waited   *)
(* may come back on another worker, whose errno says something else.       *)
(*                                                                         *)
(* The wait is croutine_io_wait_readable or _writable: one task per event  *)
(* of the descriptor, a second one is refused.                             *)
(***************************************************************************)
EXTENDS Naturals

CONSTANTS Callers,   \* tasks that use the descriptor
          Workers,   \* worker threads
          Nowhere,   \* where a parked task is
          Ops        \* the calls they make

IoEvents == {"read", "write"}
Errors == {"EINTR", "EAGAIN", "EIO", "ECANCELED", "ENOTSUP"}  \* EIO: any other

ASSUME IoAssumption == /\ Nowhere \notin Workers
                       /\ Ops \subseteq {"read", "write", "accept", "nonblock"}

VARIABLES pc,        \* task -> where it is in the call
          op,        \* task -> the call it makes
          on,        \* task -> the worker that runs it
          errno,     \* worker -> errno of the thread
          error,     \* task -> the local variable of that name
          wait,      \* task -> the result of its last wait
          accepted,  \* task -> the state of the descriptor it accepted
          ready,     \* the events the descriptor is ready for
          \* history
          entered,   \* task -> the worker its call began on
          cause      \* task -> the error that ended its call, or None

io_vars == <<pc, op, on, errno, error, wait, accepted, ready, entered, cause>>

None == "none"

Pc == {"out", "syscall", "check", "wait", "parked", "waited", "getfl", "setfl",
       "unset", "close", "returned"}

\* Every variable has its type.
IoTypeOK == /\ pc \in [Callers -> Pc]
            /\ op \in [Callers -> Ops \cup {None}]
            /\ on \in [Callers -> Workers \cup {Nowhere}]
            /\ errno \in [Workers -> Errors]
            /\ error \in [Callers -> Errors \cup {None}]
            /\ wait \in [Callers -> {None, "READY", "CLOSED", "FAILED"}]
            /\ accepted \in [Callers -> {None, "blocking", "nonblocking"}]
            /\ ready \subseteq IoEvents
            /\ entered \in [Callers -> Workers \cup {Nowhere}]
            /\ cause \in [Callers -> Errors \cup {None}]

IoInit == /\ pc = [t \in Callers |-> "out"]
          /\ op = [t \in Callers |-> None]
          /\ on = [t \in Callers |-> Nowhere]
          /\ errno = [w \in Workers |-> "EIO"]
          /\ error = [t \in Callers |-> None]
          /\ wait = [t \in Callers |-> None]
          /\ accepted = [t \in Callers |-> None]
          /\ ready = {}
          /\ entered = [t \in Callers |-> Nowhere]
          /\ cause = [t \in Callers |-> None]

Goto(t, label) == pc' = [pc EXCEPT ![t] = label]

\* A worker takes up a task.  What ran on it before left any value in errno.
TakeUp(t, w) == /\ \A u \in Callers : on[u] # w
                /\ on' = [on EXCEPT ![t] = w]
                /\ \E e \in Errors : errno' = [errno EXCEPT ![w] = e]
-----------------------------------------------------------------------------
(***************************************************************************)
(* errno, from frames that are not inlined.                                *)
(***************************************************************************)
current_errno(t) == errno[on[t]]

\* Mutant: the address of errno was computed when the call began.
set_errno_cached(t, e) == errno' = [errno EXCEPT ![entered[t]] = e]

set_errno(t, e) == errno' = [errno EXCEPT ![on[t]] = e]

wait_errno(result) == IF result = "CLOSED" THEN "ECANCELED" ELSE "ENOTSUP"

\* A system call that fails sets errno of the thread.
Fails(t, e) == errno' = [errno EXCEPT ![on[t]] = e]
-----------------------------------------------------------------------------
(***************************************************************************)
(* The loop of croutine_read, croutine_write and croutine_accept.          *)
(***************************************************************************)
\* The readiness with which the system call of an operation succeeds.
EventOf(o) == IF o = "write" THEN "write" ELSE "read"

\* Mutant: croutine_write waits until the descriptor is readable.
WaitEventRead(o) == "read"

\* The event a call waits for.
WaitEvent(o) == IF o = "write" THEN "write" ELSE "read"

Call(t, w, o) ==
    /\ pc[t] = "out"
    /\ TakeUp(t, w)
    /\ op' = [op EXCEPT ![t] = o]
    /\ entered' = [entered EXCEPT ![t] = w]
    /\ Goto(t, IF o = "nonblock" THEN "getfl" ELSE "syscall")
    /\ UNCHANGED <<error, wait, accepted, ready, cause>>

\* The descriptor is ready: read and write are done, accept has a descriptor.
\* The readiness may be used up.
SyscallWorks(t) ==
    /\ pc[t] = "syscall"
    /\ EventOf(op[t]) \in ready
    /\ ready' \in {ready, ready \ {EventOf(op[t])}}
    /\ accepted' = IF op[t] = "accept" THEN [accepted EXCEPT ![t] = "blocking"]
                   ELSE accepted
    /\ Goto(t, IF op[t] = "accept" THEN "getfl" ELSE "returned")
    /\ UNCHANGED <<op, on, errno, error, wait, entered, cause>>

SyscallFails(t, e) ==
    /\ pc[t] = "syscall"
    /\ e \in {"EINTR", "EIO"} \/ (e = "EAGAIN" /\ EventOf(op[t]) \notin ready)
    /\ Fails(t, e)
    /\ cause' = [cause EXCEPT ![t] = e]
    /\ Goto(t, "check")
    /\ UNCHANGED <<op, on, error, wait, accepted, ready, entered>>

CheckError(t) ==
    LET e == current_errno(t)
    IN  /\ pc[t] = "check"
        /\ Goto(t, IF e = "EINTR" THEN "syscall"
                   ELSE IF e = "EAGAIN" THEN "wait" ELSE "returned")
        /\ cause' = [cause EXCEPT ![t] = IF e \in {"EINTR", "EAGAIN"} THEN None
                                         ELSE @]
        /\ UNCHANGED <<op, on, errno, error, wait, accepted, ready, entered>>

\* The wait parks the task, or fails at once: another task waits for the event,
\* the poller refuses the descriptor, or shutdown was requested.
WaitParks(t) ==
    /\ pc[t] = "wait"
    /\ \A u \in Callers : pc[u] = "parked" => WaitEvent(op[u]) # WaitEvent(op[t])
    /\ on' = [on EXCEPT ![t] = Nowhere]
    /\ Goto(t, "parked")
    /\ UNCHANGED <<op, errno, error, wait, accepted, ready, entered, cause>>

WaitFails(t) ==
    /\ pc[t] = "wait"
    /\ wait' = [wait EXCEPT ![t] = "FAILED"]
    /\ \E e \in Errors : Fails(t, e)
    /\ Goto(t, "waited")
    /\ UNCHANGED <<op, on, error, accepted, ready, entered, cause>>

\* READY may come without readiness; CLOSED comes from croutine_io_forget_fd.
Resume(t, w, r) ==
    /\ pc[t] = "parked"
    /\ TakeUp(t, w)
    /\ wait' = [wait EXCEPT ![t] = r]
    /\ Goto(t, "waited")
    /\ UNCHANGED <<op, error, accepted, ready, entered, cause>>

AfterWait(t) ==
    LET e == wait_errno(wait[t])
    IN  /\ pc[t] = "waited"
        /\ IF wait[t] = "READY"
           THEN Goto(t, "syscall") /\ UNCHANGED <<errno, cause>>
           ELSE /\ set_errno(t, e)
                /\ cause' = [cause EXCEPT ![t] = IF wait[t] = "CLOSED"
                                                 THEN "ECANCELED" ELSE "ENOTSUP"]
                /\ Goto(t, "returned")
        /\ wait' = [wait EXCEPT ![t] = None]
        /\ UNCHANGED <<op, on, error, accepted, ready, entered>>
-----------------------------------------------------------------------------
(***************************************************************************)
(* croutine_fd_set_nonblocking, by itself and at the end of accept.        *)
(***************************************************************************)
\* fcntl F_GETFL, then F_SETFL unless the flag is there already.
FcntlWorks(t) ==
    /\ pc[t] \in {"getfl", "setfl"}
    /\ \/ pc[t] = "getfl" /\ Goto(t, "setfl") /\ UNCHANGED accepted
       \/ /\ Goto(t, "returned")
          /\ accepted' = IF op[t] = "accept"
                         THEN [accepted EXCEPT ![t] = "nonblocking"] ELSE accepted
    /\ UNCHANGED <<op, on, errno, error, wait, ready, entered, cause>>

\* EINTR is tried again, anything else is returned.
FcntlFails(t, e) ==
    /\ pc[t] \in {"getfl", "setfl"}
    /\ e \in {"EINTR", "EIO"}
    /\ Fails(t, e)
    /\ IF e = "EINTR" THEN UNCHANGED <<pc, cause>>
       ELSE /\ Goto(t, IF op[t] = "accept" THEN "unset" ELSE "returned")
            /\ cause' = [cause EXCEPT ![t] = e]
    /\ UNCHANGED <<op, on, error, wait, accepted, ready, entered>>

\* Mutant: the accepted descriptor is not closed.
ClosesNothing(t) == UNCHANGED accepted

ClosesAccepted(t) == accepted' = [accepted EXCEPT ![t] = None]

\* Accept saves errno and closes the descriptor, which may change errno; then
\* errno is set again.
AcceptCloses(t) ==
    /\ pc[t] = "unset"
    /\ error' = [error EXCEPT ![t] = current_errno(t)]
    /\ ClosesAccepted(t)
    /\ \E e \in Errors : Fails(t, e)
    /\ Goto(t, "close")
    /\ UNCHANGED <<op, on, wait, ready, entered, cause>>

AcceptFails(t) ==
    /\ pc[t] = "close"
    /\ set_errno(t, error[t])
    /\ error' = [error EXCEPT ![t] = None]
    /\ Goto(t, "returned")
    /\ UNCHANGED <<op, on, wait, accepted, ready, entered, cause>>
-----------------------------------------------------------------------------
\* The task has seen the result and errno, and goes on to something else.
Leave(t) ==
    /\ pc[t] = "returned"
    /\ Goto(t, "out")
    /\ op' = [op EXCEPT ![t] = None]
    /\ on' = [on EXCEPT ![t] = Nowhere]
    /\ accepted' = [accepted EXCEPT ![t] = None]
    /\ entered' = [entered EXCEPT ![t] = Nowhere]
    /\ cause' = [cause EXCEPT ![t] = None]
    /\ UNCHANGED <<errno, error, wait, ready>>

ReadinessChanges(e) ==
    /\ ready' = IF e \in ready THEN ready \ {e} ELSE ready \cup {e}
    /\ UNCHANGED <<pc, op, on, errno, error, wait, accepted, entered, cause>>

\* What the code does by itself once it is called.
Step(t) == \/ CheckError(t)
           \/ AfterWait(t)
           \/ AcceptCloses(t)
           \/ AcceptFails(t)
           \/ Leave(t)

IoNext == \/ \E e \in IoEvents : ReadinessChanges(e)
          \/ \E t \in Callers : \/ Step(t)
                                \/ SyscallWorks(t)
                                \/ \E e \in Errors : \/ SyscallFails(t, e)
                                                     \/ FcntlFails(t, e)
                                \/ WaitParks(t)
                                \/ WaitFails(t)
                                \/ FcntlWorks(t)
                                \/ \E w \in Workers :
                                      \/ \E o \in Ops : Call(t, w, o)
                                      \/ \E r \in {"READY", "CLOSED"} : Resume(t, w, r)

IoSpec == IoInit /\ [][IoNext]_io_vars
-----------------------------------------------------------------------------
\* A helper that returned -1 leaves in errno, of the thread the task is on now,
\* the reason why: the error of its own system call, ECANCELED or ENOTSUP after
\* its own wait, whatever other tasks and the runtime did on this worker and on
\* the one the call began on.  EINTR and EAGAIN are never a reason.
ErrnoTellsCause ==
    \A t \in Callers : pc[t] = "returned" /\ cause[t] # None =>
        /\ errno[on[t]] = cause[t]
        /\ cause[t] \notin {"EINTR", "EAGAIN"}

\* An accepted descriptor is handed to the caller, non-blocking, or closed: no
\* failing return leaves it open.
AcceptedReturnedOrClosed ==
    \A t \in Callers : pc[t] = "returned" =>
        accepted[t] = IF op[t] = "accept" /\ cause[t] = None THEN "nonblocking"
                      ELSE None
-----------------------------------------------------------------------------
\* The code goes on; a poller that sees readiness that lasts wakes the task
\* (ReadyWaitIsServed of the pollers); system calls are not interrupted for ever.
FairSpec ==
    /\ IoSpec
    /\ \A t \in Callers :
          /\ WF_io_vars(\/ Step(t)
                        \/ WaitParks(t)
                        \/ WaitFails(t)
                        \/ SyscallFails(t, "EAGAIN"))
          /\ SF_io_vars(\/ SyscallWorks(t)
                        \/ SyscallFails(t, "EIO")
                        \/ FcntlWorks(t)
                        \/ /\ WaitEvent(op[t]) \in ready
                           /\ \E w \in Workers : Resume(t, w, "READY"))

\* A call returns once the descriptor stays ready: no retry loop goes on for ever
\* and no wait is entered after the readiness that would have ended it.
CallReturns ==
    \A t \in Callers, e \in IoEvents :
       <>[](e \in ready) =>
          (pc[t] = "syscall" /\ EventOf(op[t]) = e ~> pc[t] = "returned")
=============================================================================
