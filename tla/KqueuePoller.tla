---------------------------- MODULE KqueuePoller ----------------------------
(***************************************************************************)
(* Waiting for descriptors on macOS and BSD: the wait table of             *)
(* src/worker.c over the filters of src/poller_kqueue.c.  It differs from  *)
(* EpollPoller where the pollers differ: a filter per direction, edges     *)
(* that are reported once (EV_CLEAR), a pipe instead of an eventfd, and no *)
(* generations.                                                            *)
(*                                                                         *)
(* The worker in the poller takes four steps: it releases scheduler_mutex, *)
(* kevent returns, the batch is translated, the events are delivered under *)
(* scheduler_mutex.                                                        *)
(***************************************************************************)
EXTENDS Naturals, Sequences, Functions

CONSTANTS Fds,          \* descriptor numbers
          Tasks,        \* tasks that wait for descriptors
          NoTask,       \* the NULL task pointer
          Wake,         \* the filter on the read end of the wake pipe
          MaxEvents,    \* MAX_POLLER_EVENTS (64)
          PipeSize,     \* bytes the wake pipe holds
          WaitFor,      \* bound: the events tasks wait for
          Conditions,   \* bound: the conditions files come into
          MaxFiles      \* bound: times a descriptor number is reused

Events == {"read", "write"}
KernelEvent == [fd : Fds, event : Events, eof : BOOLEAN]
PollEvent == [fd : Fds, events : SUBSET Events]

ASSUME KqueueAssumption == /\ NoTask \notin Tasks
                           /\ Wake \notin (Fds \X Events) \cup KernelEvent
                           /\ MaxEvents \in Nat \ {0}
                           /\ PipeSize \in Nat \ {0}
                           /\ WaitFor \subseteq Events
                           /\ Conditions \subseteq {"IN", "OUT", "EOF"}
                           /\ MaxFiles \in Nat

VARIABLES
    \* the kernel
    open,         \* the descriptors that are open
    file,         \* fd -> how often the number was reused
    conditions,   \* fd -> what holds of its file
    knotes,       \* fd -> the filters registered with the kqueue
    active,       \* the filters with an edge to report, oldest first
    pipe,         \* bytes in the wake pipe
    \* src/worker.c
    waits,        \* fd -> event -> the task parked for it
    aborted,      \* worker_fail was called
    \* the worker in the poller
    pc,
    batch,        \* ready_events: what kevent stored
    events,       \* what croutine_poller_wait returns
    \* the program that uses the runtime
    closing       \* descriptors forgotten in order to be closed

kernelVars == <<open, file, conditions, knotes, active, pipe>>
pollVars == <<pc, batch, events>>
vars == <<kernelVars, waits, aborted, pollVars, closing>>

\* Every variable has its type.
TypeOK == /\ open \subseteq Fds
          /\ file \in [Fds -> 0 .. MaxFiles]
          /\ conditions \in [Fds -> SUBSET Conditions]
          /\ knotes \in [Fds -> SUBSET Events]
          /\ active \in Seq((Fds \X Events) \cup {Wake})
          /\ pipe \in 0 .. PipeSize
          /\ waits \in [Fds -> [Events -> Tasks \cup {NoTask}]]
          /\ aborted \in BOOLEAN
          /\ pc \in {"out", "kevent", "returned", "translated"}
          /\ batch \subseteq KernelEvent \cup {Wake}
          /\ events \subseteq PollEvent
          /\ closing \subseteq Fds

\* After croutine_poller_init: a kqueue that watches the wake pipe.
Init == /\ open = Fds
        /\ file = [fd \in Fds |-> 0]
        /\ conditions = [fd \in Fds |-> {}]
        /\ knotes = [fd \in Fds |-> {}]
        /\ active = << >>
        /\ pipe = 0
        /\ waits = [fd \in Fds |-> [e \in Events |-> NoTask]]
        /\ aborted = FALSE
        /\ pc = "out"
        /\ batch = {}
        /\ events = {}
        /\ closing = {}
-----------------------------------------------------------------------------
(***************************************************************************)
(* The kqueue.                                                             *)
(***************************************************************************)
\* A filter's condition holds; the end of a file fires both.
Holds(e, conds) == \/ "EOF" \in conds
                   \/ e = "read" /\ "IN" \in conds
                   \/ e = "write" /\ "OUT" \in conds

Enqueue(list, k) == IF k \in Range(list) THEN list ELSE Append(list, k)

\* Edges on the filters of one descriptor, the reader's first.
Edges(list, fd, evs) ==
    LET add(l, e) == IF e \in evs THEN Enqueue(l, <<fd, e>>) ELSE l
    IN  add(add(list, "read"), "write")

\* The elements of sequence q that are in S, in the order of q.
Keep(q, S) ==
    LET kept[n \in 0 .. Len(q)] ==
            IF n = 0 THEN << >>
            ELSE IF q[n] \in S THEN Append(kept[n - 1], q[n]) ELSE kept[n - 1]
    IN  kept[Len(q)]

\* Edges of filters that are gone or no longer hold are not reported.
Pending(list, notes, conds) ==
    Keep(list, {k \in Range(list) :
                   k = Wake \/ (k[2] \in notes[k[1]] /\ Holds(k[2], conds[k[1]]))})

\* Data, room, or the end of the file arrives: an edge, also when the condition
\* held already.
ConditionArises(fd, c) ==
    /\ fd \in open
    /\ conditions' = [conditions EXCEPT ![fd] = @ \cup {c}]
    /\ active' = Edges(active, fd, {e \in knotes[fd] : Holds(e, {c})})
    /\ UNCHANGED <<open, file, knotes, pipe, waits, aborted, pollVars, closing>>

ConditionEnds(fd, c) ==
    /\ fd \in open
    /\ c # "EOF"
    /\ conditions' = [conditions EXCEPT ![fd] = @ \ {c}]
    /\ active' = Pending(active, knotes, conditions')
    /\ UNCHANGED <<open, file, knotes, pipe, waits, aborted, pollVars, closing>>

\* A write to a pipe with room is an edge; a full pipe answers EAGAIN.
PipeWritten(yes) ==
    IF yes /\ pipe < PipeSize THEN pipe + 1 ELSE pipe

croutine_poller_wake ==
    /\ pipe' = PipeWritten(TRUE)
    /\ active' = IF pipe' > pipe THEN Enqueue(active, Wake) ELSE active
    /\ UNCHANGED <<open, file, conditions, knotes, waits, aborted, pollVars,
                   closing>>
-----------------------------------------------------------------------------
(***************************************************************************)
(* croutine_poller_set: the outcomes a call may have, each with the        *)
(* filters it leaves on the descriptor.                                    *)
(***************************************************************************)
\* Mutant: a filter is changed but never added.
ChangesWithoutAdding(fd, notes, e, enable) ==
    {[ok |-> fd \in open, notes |-> IF enable THEN notes ELSE notes \ {e}]}

\* apply_filter_change: EV_ADD may fail for want of memory, EV_DELETE only on a
\* closed descriptor (a missing filter counts as deleted).
apply_filter_change(fd, notes, e, enable) ==
    {o \in [ok : BOOLEAN, notes : {notes, notes \cup {e}, notes \ {e}}] :
        IF o.ok THEN fd \in open /\ o.notes = IF enable THEN notes \cup {e}
                                              ELSE notes \ {e}
        ELSE (enable \/ fd \notin open) /\ o.notes = notes}

\* Mutant: a filter nobody needs any more is left in place.
SyncFilterAddsOnly(fd, notes, old, new, e) ==
    IF e \notin new \ old THEN {[ok |-> TRUE, notes |-> notes]}
    ELSE apply_filter_change(fd, notes, e, TRUE)

sync_filter(fd, notes, old, new, e) ==
    IF (e \in old) = (e \in new) THEN {[ok |-> TRUE, notes |-> notes]}
    ELSE apply_filter_change(fd, notes, e, e \in new)

\* sync_filter in the other direction.
reverse_filter(fd, notes, old, new, e) == sync_filter(fd, notes, new, old, e)

\* The read filter first; when the write filter fails, the read filter goes
\* back to what it was, if that works.
croutine_poller_set(fd, old, new) ==
    UNION {IF ~ r.ok THEN {r}
           ELSE UNION {IF w.ok THEN {w}
                       ELSE {[ok |-> FALSE, notes |-> u.notes] : u \in
                                reverse_filter(fd, w.notes, old, new, "read")}
                       : w \in sync_filter(fd, r.notes, old, new, "write")}
           : r \in sync_filter(fd, knotes[fd], old, new, "read")}
-----------------------------------------------------------------------------
(***************************************************************************)
(* The wait table of worker.c, as in EpollPoller.                          *)
(***************************************************************************)
io_wait_entry_events(entry) == {e \in Events : entry[e] # NoTask}

Parked(t) == \E fd \in Fds, e \in Events : waits[fd][e] = t

\* worker_park_current_on_io: adding a filter whose condition holds is an edge.
worker_park_current_on_io(t, fd, e) ==
    LET old == io_wait_entry_events(waits[fd])
    IN  /\ ~ Parked(t)
        /\ fd \in open \ closing
        /\ waits[fd][e] = NoTask
        /\ \E o \in croutine_poller_set(fd, old, old \cup {e}) :
              /\ knotes' = [knotes EXCEPT ![fd] = o.notes]
              /\ active' = Edges(active, fd, {n \in o.notes \ knotes[fd] :
                                              Holds(n, conditions[fd])})
              /\ IF o.ok
                 THEN waits' = [waits EXCEPT ![fd][e] = t]
                 ELSE UNCHANGED waits
        /\ UNCHANGED <<open, file, conditions, pipe, aborted, pollVars, closing>>

\* wake_waiting_tasks_locked for every descriptor, with the events ready[fd].
WokenTasks(ready) ==
    UNION {{waits[fd][e] : e \in ready[fd]} : fd \in Fds} \ {NoTask}

wake_waiting_tasks_locked(ready) ==
    LET left == [fd \in Fds |-> [e \in Events |->
                    IF e \in ready[fd] THEN NoTask ELSE waits[fd][e]]]
        set == [fd \in Fds |-> CHOOSE o \in croutine_poller_set(fd,
                    io_wait_entry_events(waits[fd]),
                    io_wait_entry_events(left[fd])) : TRUE]
    IN  /\ waits' = left
        /\ knotes' = [fd \in Fds |-> set[fd].notes]
        /\ aborted' = \E fd \in Fds : ~ set[fd].ok

\* worker_forget_fd passes both events.
Forgotten(fd) == [f \in Fds |-> IF f = fd THEN Events ELSE {}]

\* worker_forget_fd, by a program that will or will not close the descriptor.
\* The pipe is written after the mutex was released: at once, or later by a step
\* of croutine_poller_wake.
worker_forget_fd(fd) ==
    LET ready == Forgotten(fd)
        kept == Pending(active, knotes', conditions)
    IN  /\ fd \in open
        /\ wake_waiting_tasks_locked(ready)
        /\ \E now \in {FALSE, WokenTasks(ready) # {} /\ pc # "out"} :
              pipe' = PipeWritten(now)
        /\ active' = IF pipe' > pipe THEN Enqueue(kept, Wake) ELSE kept
        /\ closing' \in {closing, closing \cup {fd}}
        /\ UNCHANGED <<open, file, conditions, pollVars>>

CloseFd(fd) ==
    /\ fd \in closing \cap open
    /\ open' = open \ {fd}
    /\ conditions' = [conditions EXCEPT ![fd] = {}]
    /\ knotes' = [knotes EXCEPT ![fd] = {}]
    /\ active' = Pending(active, knotes', conditions')
    /\ UNCHANGED <<file, pipe, waits, aborted, pollVars, closing>>

OpenFd(fd) ==
    /\ fd \notin open
    /\ file[fd] < MaxFiles
    /\ open' = open \cup {fd}
    /\ file' = [file EXCEPT ![fd] = @ + 1]
    /\ closing' = closing \ {fd}
    /\ UNCHANGED <<conditions, knotes, active, pipe, waits, aborted, pollVars>>
-----------------------------------------------------------------------------
(***************************************************************************)
(* The worker in the poller.                                               *)
(***************************************************************************)
BeginPoll ==
    /\ pc = "out"
    /\ pc' = "kevent"
    /\ UNCHANGED <<kernelVars, waits, aborted, batch, events, closing>>

\* kevent hands over the oldest edges and forgets them (EV_CLEAR).
KeventWait ==
    LET n == IF Len(active) < MaxEvents THEN Len(active) ELSE MaxEvents
        taken == Range(SubSeq(active, 1, n))
    IN  /\ pc = "kevent"
        /\ active # << >>
        /\ batch' = {IF k = Wake THEN Wake
                     ELSE [fd |-> k[1], event |-> k[2],
                           eof |-> "EOF" \in conditions[k[1]]] : k \in taken}
        /\ active' = SubSeq(active, n + 1, Len(active))
        /\ pc' = "returned"
        /\ UNCHANGED <<open, file, conditions, knotes, pipe, waits, aborted,
                       events, closing>>

translate_ready_event(k) == IF k.eof THEN Events ELSE {k.event}

\* Mutant: the second event of a descriptor replaces the first.
MergeReplaces(fd) ==
    LET of == {k \in batch \ {Wake} : k.fd = fd}
        last == {k \in of : k.event = "write"}
    IN  UNION {translate_ready_event(k) : k \in IF last = {} THEN of ELSE last}

\* merge_ready_event: everything the batch says of a descriptor.
merge_ready_event(fd) ==
    UNION {translate_ready_event(k) :
           k \in {b \in batch \ {Wake} : b.fd = fd}}

\* Reads until the pipe is empty.
drain_wake_fd == pipe' = IF Wake \in batch THEN 0 ELSE pipe

\* The rest of croutine_poller_wait.  An edge of the pipe that is empty again
\* is not reported.
TranslateBatch ==
    /\ pc = "returned"
    /\ events' = {[fd |-> b.fd, events |-> merge_ready_event(b.fd)] :
                 b \in batch \ {Wake}}
    /\ batch' = {}
    /\ drain_wake_fd
    /\ active' = Keep(active, {k \in Range(active) : k # Wake \/ pipe' > 0})
    /\ pc' = "translated"
    /\ UNCHANGED <<open, file, conditions, knotes, waits, aborted, closing>>

\* worker_loop_impl takes scheduler_mutex again and delivers what was returned.
DeliverEvents ==
    LET ready == [fd \in Fds |-> UNION {v.events : v \in
                                        {u \in events : u.fd = fd}}]
    IN  /\ pc = "translated"
        /\ wake_waiting_tasks_locked(ready)
        /\ events' = {}
        /\ active' = Pending(active, knotes', conditions)
        /\ pc' = "out"
        /\ UNCHANGED <<open, file, conditions, pipe, batch, closing>>

PollStep == BeginPoll \/ KeventWait \/ TranslateBatch \/ DeliverEvents

Next == \/ PollStep
        \/ croutine_poller_wake
        \/ \E fd \in Fds : \/ worker_forget_fd(fd)
                           \/ CloseFd(fd)
                           \/ OpenFd(fd)
                           \/ \E c \in Conditions : \/ ConditionArises(fd, c)
                                                    \/ ConditionEnds(fd, c)
                           \/ \E t \in Tasks, e \in WaitFor :
                                 worker_park_current_on_io(t, fd, e)

Spec == Init /\ [][Next]_vars
-----------------------------------------------------------------------------
(***************************************************************************)
(* Safety.                                                                 *)
(***************************************************************************)
\* The kqueue has exactly the filters that tasks wait for, also after a filter
\* could not be added.  As long as descriptors are forgotten before they are closed, no
\* call of croutine_poller_set from wake_waiting_tasks_locked fails and aborts.
FiltersMatchWaits ==
    /\ ~ aborted
    /\ \A fd \in Fds : /\ knotes[fd] = io_wait_entry_events(waits[fd])
                       /\ knotes[fd] # {} => fd \in open

\* An edge is reported once, so nobody may lose it: a task that waits for what
\* already holds has its edge in the kqueue, in the batch of kevent, or among
\* the events croutine_poller_wait returns.  A worker that goes into kevent finds
\* an edge as long as there are bytes in the pipe, also when the pipe was full or
\* a byte arrived while it was drained.
EdgeNotLost ==
    /\ pc = "kevent" /\ pipe > 0 => Wake \in Range(active)
    /\ \A fd \in Fds, e \in Events :
          waits[fd][e] # NoTask /\ Holds(e, conditions[fd]) =>
             \/ <<fd, e>> \in Range(active)
             \/ \E b \in batch \ {Wake} : b.fd = fd /\ e \in translate_ready_event(b)
             \/ \E v \in events : v.fd = fd /\ e \in v.events
-----------------------------------------------------------------------------
(***************************************************************************)
(* Liveness.                                                               *)
(***************************************************************************)
\* Some worker polls again and again (module Scheduler), and each poll goes on.
FairSpec == Spec /\ WF_vars(PollStep)

\* A task that waits for a condition that keeps holding is woken, also when more
\* edges are pending than fit into one batch and when tasks wait again at once.
ReadyWaitIsServed ==
    \A fd \in Fds, e \in Events :
       []<>(waits[fd][e] = NoTask \/ ~ Holds(e, conditions[fd]))
=============================================================================
