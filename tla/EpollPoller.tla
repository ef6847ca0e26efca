----------------------------- MODULE EpollPoller -----------------------------
(***************************************************************************)
(* Waiting for descriptors on Linux: the wait table of src/worker.c, the   *)
(* registrations and generations of src/poller_epoll.c, and the epoll      *)
(* instance of the kernel, while descriptors are closed and their numbers  *)
(* used again.                                                             *)
(*                                                                         *)
(* Everything worker.c does here happens under scheduler_mutex and is one  *)
(* step.  The worker in the poller takes four: it releases the mutex,      *)
(* epoll_wait returns, the batch is filtered under fd_table_mutex, and the *)
(* events are delivered under scheduler_mutex.  Anything may happen in     *)
(* between.                                                                *)
(***************************************************************************)
EXTENDS Naturals, Sequences, Functions

CONSTANTS Fds,              \* descriptor numbers, a set of naturals
          Tasks,            \* tasks that wait for descriptors
          NoTask,           \* the NULL task pointer
          Wake,             \* the key of the eventfd in the epoll instance
          InitialCapacity,  \* first size of the generation table (64)
          GenerationMod,    \* generations wrap at this value (2^32)
          MaxEvents,        \* MAX_POLLER_EVENTS (64)
          WaitFor,          \* bound: the events tasks wait for
          Conditions,       \* bound: the conditions files come into
          MaxFiles,         \* bound: times a descriptor number is reused
          MaxRegistrations  \* bound: registrations while a batch is unfiltered

Events == {"read", "write"}

\* A batch is filtered long before a generation can come round to the same
\* value: that takes 2^31 registrations and removals of one descriptor.
ASSUME EpollAssumption == /\ Fds \subseteq Nat
                          /\ NoTask \notin Tasks
                          /\ Wake \notin Fds
                          /\ InitialCapacity \in Nat \ {0}
                          /\ MaxEvents \in Nat \ {0}
                          /\ WaitFor \subseteq Events
                          /\ Conditions \subseteq
                                {"EPOLLIN", "EPOLLOUT", "EPOLLHUP"}
                          /\ MaxFiles \in Nat
                          /\ MaxRegistrations \in Nat
                          /\ GenerationMod \in Nat
                          /\ 2 * MaxRegistrations + 1 < GenerationMod

VARIABLES
    \* the kernel
    open,               \* the descriptors that are open
    file,               \* fd -> how often the number was reused
    conditions,         \* fd -> what holds of its file: EPOLLIN, EPOLLOUT, ...
    interest,           \* fd -> what is registered with the epoll instance
    rdlist,             \* the ready list of the epoll instance, oldest first
    \* src/poller_epoll.c
    fd_table_capacity,
    fd_generations,     \* fd -> generation, 0 beyond the capacity
    fd_registered,      \* fd -> BOOLEAN, FALSE beyond the capacity
    \* src/worker.c
    waits,              \* fd -> event -> the task parked for it
    aborted,            \* worker_fail was called
    \* the worker in the poller
    pc,
    batch,              \* ready_events: what epoll_wait stored
    events,             \* what croutine_poller_wait returns
    \* the program that uses the runtime
    closing,            \* descriptors forgotten in order to be closed
    \* history
    cycles,             \* registrations since epoll_wait returned
    newer               \* tasks that began to wait after a batch was filtered

kernelVars == <<open, file, conditions, interest, rdlist>>
tableVars == <<fd_table_capacity, fd_generations, fd_registered>>
waitVars == <<waits, aborted>>
pollVars == <<pc, batch, events>>
vars == <<kernelVars, tableVars, waitVars, pollVars, closing, cycles, newer>>

Interest == [events : SUBSET Events, generation : 0 .. GenerationMod - 1]
BatchEvent == [fd : Fds, generation : 0 .. GenerationMod - 1,
               ready : SUBSET Conditions, file : 0 .. MaxFiles]
PollEvent == [fd : Fds, events : SUBSET Events, file : 0 .. MaxFiles]

NoInterest == [events |-> {}, generation |-> 0]

\* Every variable has its type.
TypeOK == /\ open \subseteq Fds
          /\ file \in [Fds -> 0 .. MaxFiles]
          /\ conditions \in [Fds -> SUBSET Conditions]
          /\ interest \in [Fds -> Interest]
          /\ rdlist \in Seq(Fds \cup {Wake})
          /\ fd_table_capacity \in Nat
          /\ fd_generations \in [Fds -> 0 .. GenerationMod - 1]
          /\ fd_registered \in [Fds -> BOOLEAN]
          /\ waits \in [Fds -> [Events -> Tasks \cup {NoTask}]]
          /\ aborted \in BOOLEAN
          /\ pc \in {"out", "epoll_wait", "returned", "filtered"}
          /\ batch \subseteq BatchEvent \cup {Wake}
          /\ events \subseteq PollEvent
          /\ closing \subseteq Fds
          /\ cycles \in 0 .. MaxRegistrations
          /\ newer \subseteq Tasks

\* After croutine_poller_init: an epoll instance that watches the eventfd.
Init == /\ open = Fds
        /\ file = [fd \in Fds |-> 0]
        /\ conditions = [fd \in Fds |-> {}]
        /\ interest = [fd \in Fds |-> NoInterest]
        /\ rdlist = << >>
        /\ fd_table_capacity = 0
        /\ fd_generations = [fd \in Fds |-> 0]
        /\ fd_registered = [fd \in Fds |-> FALSE]
        /\ waits = [fd \in Fds |-> [e \in Events |-> NoTask]]
        /\ aborted = FALSE
        /\ pc = "out"
        /\ batch = {}
        /\ events = {}
        /\ closing = {}
        /\ cycles = 0
        /\ newer = {}
-----------------------------------------------------------------------------
(***************************************************************************)
(* The epoll instance.                                                     *)
(***************************************************************************)
to_epoll_events(evs) == {IF e = "read" THEN "EPOLLIN" ELSE "EPOLLOUT" : e \in evs}

from_epoll_events(ready) ==
    IF "EPOLLHUP" \in ready THEN Events
    ELSE {e \in Events : to_epoll_events({e}) \subseteq ready}

\* What epoll_wait has to say of a descriptor: EPOLLHUP (and EPOLLERR, which is
\* treated alike) is reported to every registration.
Reported(conds, int) ==
    IF int.events = {} THEN {}
    ELSE conds \cap (to_epoll_events(int.events) \cup {"EPOLLHUP"})

ReadyFds(conds, ints) == {fd \in Fds : Reported(conds[fd], ints[fd]) # {}}

\* The ready list after a change: what has nothing to report any more leaves
\* it, what is newly ready goes to its end.
ReadyList(list, conds, ints, woken) ==
    LET keys == ReadyFds(conds, ints) \cup (IF woken THEN {Wake} ELSE {})
        kept == SelectSeq(list, LAMBDA k : k \in keys)
        new == keys \ Range(kept)
    IN  IF new = {} THEN kept ELSE Append(kept, CHOOSE k \in new : TRUE)

Woken == Wake \in Range(rdlist)

\* A file becomes ready, or stops being ready because somebody used it.
ConditionChanges(fd, c) ==
    /\ fd \in open
    /\ c = "EPOLLHUP" => c \notin conditions[fd]
    /\ conditions' = [conditions EXCEPT ![fd] = IF c \in @ THEN @ \ {c}
                                                ELSE @ \cup {c}]
    /\ rdlist' = ReadyList(rdlist, conditions', interest, Woken)
    /\ UNCHANGED <<open, file, interest, tableVars, waitVars, pollVars,
                   closing, cycles, newer>>

\* croutine_poller_wake, here on behalf of croutine_spawn, channels, shutdown.
croutine_poller_wake ==
    /\ ~ Woken
    /\ rdlist' = ReadyList(rdlist, conditions, interest, TRUE)
    /\ UNCHANGED <<open, file, conditions, interest, tableVars, waitVars,
                   pollVars, closing, cycles, newer>>
-----------------------------------------------------------------------------
(***************************************************************************)
(* croutine_poller_set: the outcomes a call may have.                      *)
(***************************************************************************)
NextGeneration(fd) == (fd_generations[fd] + 1) % GenerationMod

\* What a call leaves behind for its descriptor.
Outcome(ok, capacity, generation, registered, int) ==
    [ok |-> ok, capacity |-> capacity, generation |-> generation,
     registered |-> registered, interest |-> int]

Unchanged(fd, ok) == Outcome(ok, fd_table_capacity, fd_generations[fd],
                             fd_registered[fd], interest[fd])

\* ensure_fd_capacity: double the capacity until there is room.
GrownCapacity(fd) ==
    LET from == IF fd_table_capacity = 0 THEN InitialCapacity
                ELSE fd_table_capacity
        doubled[k \in 0 .. fd] == IF k = 0 THEN from ELSE 2 * doubled[k - 1]
        enough == {k \in 0 .. fd : fd < doubled[k]}
    IN  IF fd < fd_table_capacity THEN fd_table_capacity
        ELSE doubled[CHOOSE k \in enough : \A j \in enough : k <= j]

\* EPOLL_CTL_DEL fails on a closed descriptor; ENOENT counts as success.
Remove(fd) ==
    IF fd \notin open THEN Unchanged(fd, FALSE)
    ELSE Outcome(TRUE, fd_table_capacity,
                 IF fd < fd_table_capacity THEN NextGeneration(fd)
                 ELSE fd_generations[fd],
                 FALSE, NoInterest)

\* Mutant: the generation is counted up after the registration was made with
\* the old one.
AddOldToken(fd, new) ==
    LET cap == GrownCapacity(fd)
        gen == NextGeneration(fd)
    IN  {Outcome(TRUE, cap, gen, TRUE,
                 [events |-> new, generation |-> fd_generations[fd]])}

\* The outcomes of a first registration: the table cannot grow; EPOLL_CTL_ADD
\* fails (ENOMEM, ENOSPC, EPERM, EBADF, EEXIST) with the generation already
\* counted up; the descriptor is registered.
Add(fd, new) ==
    LET cap == GrownCapacity(fd)
        gen == NextGeneration(fd)
    IN  {Outcome(FALSE, cap, gen, fd_registered[fd], interest[fd])}
        \cup (IF fd < fd_table_capacity THEN {} ELSE {Unchanged(fd, FALSE)})
        \cup (IF fd \in open /\ interest[fd] = NoInterest
              THEN {Outcome(TRUE, cap, gen, TRUE,
                            [events |-> new, generation |-> gen])}
              ELSE {})

\* EPOLL_CTL_MOD fails exactly when the descriptor is not registered.
Modify(fd, new) ==
    IF fd < fd_table_capacity /\ fd_registered[fd] /\ interest[fd] # NoInterest
    THEN Outcome(TRUE, fd_table_capacity, fd_generations[fd], TRUE,
                 [events |-> new, generation |-> fd_generations[fd]])
    ELSE Unchanged(fd, FALSE)

croutine_poller_set(fd, old, new) ==
    IF old = new THEN {Unchanged(fd, TRUE)}
    ELSE IF new = {} THEN {Remove(fd)}
    ELSE IF old = {} THEN Add(fd, new)
    ELSE {Modify(fd, new)}
-----------------------------------------------------------------------------
(***************************************************************************)
(* The wait table of worker.c.                                             *)
(***************************************************************************)
io_wait_entry_events(entry) == {e \in Events : entry[e] # NoTask}

Parked(t) == \E fd \in Fds, e \in Events : waits[fd][e] = t

\* Mutant: a second waiter replaces the interest of the first.
NewEventsOnly(fd, e) == {e}

\* The interest of a descriptor after one more event is waited for.
NewEvents(fd, e) == io_wait_entry_events(waits[fd]) \cup {e}

\* worker_park_current_on_io by task t.  Its program keeps to the rule for
\* closing: no wait on a descriptor that was forgotten to be closed.  A second
\* waiter for the same event is refused and nothing changes; a refused
\* registration leaves only the poller's traces of it.
worker_park_current_on_io(t, fd, e) ==
    LET old == io_wait_entry_events(waits[fd])
        fresh == old = {} /\ pc = "returned"
    IN  /\ ~ Parked(t)
        /\ fd \in open \ closing
        /\ waits[fd][e] = NoTask
        /\ fresh => cycles < MaxRegistrations
        /\ cycles' = IF fresh THEN cycles + 1 ELSE cycles
        /\ \E o \in croutine_poller_set(fd, old, NewEvents(fd, e)) :
              /\ fd_table_capacity' = o.capacity
              /\ fd_generations' = [fd_generations EXCEPT ![fd] = o.generation]
              /\ fd_registered' = [fd_registered EXCEPT ![fd] = o.registered]
              /\ interest' = [interest EXCEPT ![fd] = o.interest]
              /\ IF o.ok
                 THEN /\ waits' = [waits EXCEPT ![fd][e] = t]
                      /\ newer' = IF pc = "filtered" THEN newer \cup {t} ELSE newer
                 ELSE UNCHANGED <<waits, newer>>
        /\ rdlist' = ReadyList(rdlist, conditions, interest', Woken)
        /\ UNCHANGED <<open, file, conditions, aborted, pollVars, closing>>

\* wake_waiting_tasks_locked for every descriptor, with the events ready[fd] (none
\* for most of them): the tasks leave the table and the poller is told.  Whether
\* a wait then returns CLOSED or READY is not kept.
WokenTasks(ready) ==
    UNION {{waits[fd][e] : e \in ready[fd]} : fd \in Fds} \ {NoTask}

wake_waiting_tasks_locked(ready) ==
    LET left == [fd \in Fds |-> [e \in Events |->
                    IF e \in ready[fd] THEN NoTask ELSE waits[fd][e]]]
        set == [fd \in Fds |-> CHOOSE o \in croutine_poller_set(fd,
                    io_wait_entry_events(waits[fd]),
                    io_wait_entry_events(left[fd])) : TRUE]
    IN  /\ waits' = left
        /\ fd_generations' = [fd \in Fds |-> set[fd].generation]
        /\ fd_registered' = [fd \in Fds |-> set[fd].registered]
        /\ interest' = [fd \in Fds |-> set[fd].interest]
        /\ aborted' = \E fd \in Fds : ~ set[fd].ok
        /\ UNCHANGED fd_table_capacity

\* worker_forget_fd passes both events.
Forgotten(fd) == [f \in Fds |-> IF f = fd THEN Events ELSE {}]

\* worker_forget_fd, by a program that will or will not close the descriptor.
\* The eventfd is written after the mutex was released: at once, or later by a
\* step of croutine_poller_wake.
worker_forget_fd(fd) ==
    LET ready == Forgotten(fd)
        poke == WokenTasks(ready) # {} /\ pc # "out"
    IN  /\ fd \in open
        /\ wake_waiting_tasks_locked(ready)
        /\ closing' \in {closing, closing \cup {fd}}
        /\ \E now \in {FALSE, poke} :
              rdlist' = ReadyList(rdlist, conditions, interest', Woken \/ now)
        /\ UNCHANGED <<open, file, conditions, pollVars, cycles, newer>>

\* close, and a later open that returns the same number.  The kernel drops the
\* registration of a closed file.
CloseFd(fd) ==
    /\ fd \in closing \cap open
    /\ open' = open \ {fd}
    /\ conditions' = [conditions EXCEPT ![fd] = {}]
    /\ interest' = [interest EXCEPT ![fd] = NoInterest]
    /\ rdlist' = ReadyList(rdlist, conditions', interest', Woken)
    /\ UNCHANGED <<file, tableVars, waitVars, pollVars, closing, cycles, newer>>

OpenFd(fd) ==
    /\ fd \notin open
    /\ file[fd] < MaxFiles
    /\ open' = open \cup {fd}
    /\ file' = [file EXCEPT ![fd] = @ + 1]
    /\ closing' = closing \ {fd}
    /\ UNCHANGED <<conditions, interest, rdlist, tableVars, waitVars, pollVars,
                   cycles, newer>>
-----------------------------------------------------------------------------
(***************************************************************************)
(* The worker in the poller.                                               *)
(***************************************************************************)
BeginPoll ==
    /\ pc = "out"
    /\ pc' = "epoll_wait"
    /\ UNCHANGED <<kernelVars, tableVars, waitVars, batch, events, closing,
                   cycles, newer>>

\* epoll_wait returns at most MaxEvents entries from the front of the ready
\* list, and asks each file again what it is ready for.  They are
\* level-triggered: each goes back to its end.  A wait that finds nothing, or is
\* interrupted, changes nothing.
EpollWait ==
    LET n == IF Len(rdlist) < MaxEvents THEN Len(rdlist) ELSE MaxEvents
        taken == SubSeq(rdlist, 1, n)
        ready == Range(taken) \cap (ReadyFds(conditions, interest) \cup {Wake})
    IN  /\ pc = "epoll_wait"
        /\ rdlist # << >>
        /\ batch' = {IF k = Wake THEN Wake
                     ELSE [fd |-> k, generation |-> interest[k].generation,
                           ready |-> Reported(conditions[k], interest[k]),
                           file |-> file[k]] : k \in ready}
        /\ rdlist' = SubSeq(rdlist, n + 1, Len(rdlist)) \o taken
        /\ cycles' = 0
        /\ pc' = "returned"
        /\ UNCHANGED <<open, file, conditions, interest, tableVars, waitVars,
                       events, closing, newer>>

\* Mutant: the generation is not compared.
CurrentIgnoresGeneration(b) == /\ b.fd < fd_table_capacity
                               /\ fd_registered[b.fd]

\* The entry of a batch belongs to the registration that exists now.
Current(b) == /\ b.fd < fd_table_capacity
              /\ fd_registered[b.fd]
              /\ fd_generations[b.fd] = b.generation

\* The rest of croutine_poller_wait, under fd_table_mutex.
FilterBatch ==
    /\ pc = "returned"
    /\ events' = {[fd |-> b.fd, events |-> from_epoll_events(b.ready),
                   file |-> b.file] : b \in {c \in batch \ {Wake} : Current(c)}}
    /\ batch' = {}
    /\ rdlist' = IF Wake \in batch
                 THEN ReadyList(rdlist, conditions, interest, FALSE)
                 ELSE rdlist
    /\ pc' = "filtered"
    /\ UNCHANGED <<open, file, conditions, interest, tableVars, waitVars,
                   closing, cycles, newer>>

\* worker_loop_impl takes scheduler_mutex again and delivers what was returned.
DeliverEvents ==
    LET ready == [fd \in Fds |-> UNION {v.events : v \in
                                        {u \in events : u.fd = fd}}]
    IN  /\ pc = "filtered"
        /\ wake_waiting_tasks_locked(ready)
        /\ newer' = {}
        /\ events' = {}
        /\ rdlist' = ReadyList(rdlist, conditions, interest', Woken)
        /\ pc' = "out"
        /\ UNCHANGED <<open, file, conditions, batch, closing, cycles>>

PollStep == BeginPoll \/ EpollWait \/ FilterBatch \/ DeliverEvents

Next == \/ PollStep
        \/ croutine_poller_wake
        \/ \E fd \in Fds : \/ worker_forget_fd(fd)
                           \/ CloseFd(fd)
                           \/ OpenFd(fd)
                           \/ \E c \in Conditions : ConditionChanges(fd, c)
                           \/ \E t \in Tasks, e \in WaitFor :
                                 worker_park_current_on_io(t, fd, e)

Spec == Init /\ [][Next]_vars
-----------------------------------------------------------------------------
(***************************************************************************)
(* Safety.                                                                 *)
(***************************************************************************)
\* The kernel watches exactly what tasks wait for, with the token of the current
\* generation, and fd_registered says so: croutine_poller_set is told the
\* difference to what worker.c believes is registered and never gets the real
\* registration, so a disagreement would stay for good.  As long as descriptors
\* are forgotten before they are closed, no call of it from
\* wake_waiting_tasks_locked fails and makes worker_fail abort the process.
RegistrationsMatchWaits ==
    ~ aborted /\ \A fd \in Fds :
       LET evs == io_wait_entry_events(waits[fd])
       IN  /\ interest[fd] = IF evs = {} THEN NoInterest
                             ELSE [events |-> evs,
                                   generation |-> fd_generations[fd]]
           /\ fd_registered[fd] = (evs # {})
           /\ evs # {} => fd \in open /\ fd < fd_table_capacity

\* A task that was waiting when croutine_poller_wait checked the generations is
\* told READY because of its own file only: readiness collected for a registration
\* that was removed is dropped, also when the number is in use again.
ToldOfOwnFile ==
    [][DeliverEvents => \A v \in events : \A e \in v.events :
          waits[v.fd][e] \in Tasks \ newer => v.file = file[v.fd]]_vars

\* docs/API.md: call croutine_io_forget_fd before close, "preventing
\* descriptor-number reuse from delivering stale readiness".  No task, whenever it
\* began to wait, is told READY because of a file that was closed.
ForgetPreventsStaleReadiness ==
    [][DeliverEvents => \A v \in events : \A e \in v.events :
          waits[v.fd][e] \in Tasks => v.file = file[v.fd]]_vars
-----------------------------------------------------------------------------
(***************************************************************************)
(* Liveness.                                                               *)
(***************************************************************************)
\* Some worker polls again and again (module Scheduler), and each poll goes on.
FairSpec == Spec /\ WF_vars(PollStep)

\* A task that waits for a condition that keeps holding is woken, also when
\* more descriptors are ready than fit into one batch, when the eventfd takes
\* places in it, and when other tasks wait again at once.
ReadyWaitIsServed ==
    \A fd \in Fds, e \in Events :
       []<>(\/ waits[fd][e] = NoTask
            \/ to_epoll_events({e}) \cap conditions[fd] = {})
=============================================================================
