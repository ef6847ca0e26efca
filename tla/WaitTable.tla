------------------------------ MODULE WaitTable ------------------------------
(***************************************************************************)
(* struct IoWaitTable of src/worker.c, the table of the tasks that wait    *)
(* for descriptors: an array of entries that is searched from its start    *)
(* and doubled when it is full, with the calls that change it.  They run   *)
(* under scheduler_mutex, so each is one step.                             *)
(*                                                                         *)
(* The poller is reduced to the interest it was last told; it may refuse   *)
(* to add an event and never refuses to remove one (this is part of        *)
(* RegistrationsMatchWaits of EpollPoller, FiltersMatchWaits of            *)
(* KqueuePoller).                                                          *)
(***************************************************************************)
EXTENDS Naturals, Integers, FiniteSets

CONSTANTS Fds,              \* descriptor numbers
          NoFd,             \* -1
          Tasks,            \* tasks that wait for descriptors
          NoTask,           \* the NULL task pointer
          InitialCapacity   \* entries the table is created with

Events == {"read", "write"}

ASSUME WaitTableAssumption == /\ NoFd \notin Fds
                              /\ NoTask \notin Tasks
                              /\ InitialCapacity \in Nat

VARIABLES io_waits,   \* the table: entries, capacity, count
          waiting,    \* the tasks in state TASK_WAITING_IO
          interest,   \* fd -> events, what the poller was told last
          live        \* worker_deinit has not run

vars == <<io_waits, waiting, interest, live>>

Table(entries, capacity, count) ==
    [entries |-> entries, capacity |-> capacity, count |-> count]

IoWaitEntry == [in_use : BOOLEAN, fd : Fds \cup {NoFd},
                task : [Events -> Tasks \cup {NoTask}]]

Nobody == [e \in Events |-> NoTask]

\* io_wait_entry_reset
EmptyEntry == [in_use |-> FALSE, fd |-> NoFd, task |-> Nobody]

\* Every variable has its type.
TypeOK == /\ io_waits = Table(io_waits.entries, io_waits.capacity, io_waits.count)
          /\ io_waits.capacity \in Nat
          /\ io_waits.count \in Nat
          /\ io_waits.entries \in [1 .. io_waits.capacity -> IoWaitEntry]
          /\ waiting \subseteq Tasks
          /\ interest \in [Fds -> SUBSET Events]
          /\ live \in BOOLEAN

\* io_wait_table_init
Init == /\ io_waits = Table([i \in 1 .. InitialCapacity |-> EmptyEntry],
                            InitialCapacity, 0)
        /\ waiting = {}
        /\ interest = [fd \in Fds |-> {}]
        /\ live = TRUE
-----------------------------------------------------------------------------
(***************************************************************************)
(* The operations on a table.                                              *)
(***************************************************************************)
io_wait_entry_events(entry) == {e \in Events : entry.task[e] # NoTask}

InUse(table) == {i \in 1 .. table.capacity : table.entries[i].in_use}

First(S) == CHOOSE i \in S : \A j \in S : i <= j

\* io_wait_table_find, 0 for NULL.
io_wait_table_find(table, fd) ==
    LET here == {i \in InUse(table) : table.entries[i].fd = fd}
    IN  IF here = {} THEN 0 ELSE First(here)

\* Mutant: the first entry is copied to index 0.
PackedFromZero(table, i) == Cardinality({j \in InUse(table) : j < i})

\* Where io_wait_table_grow copies entry i: behind those in use before it.
Packed(table, i) == Cardinality({j \in InUse(table) : j <= i})

io_wait_table_grow(table) ==
    LET capacity == IF table.capacity = 0 THEN 1 ELSE table.capacity * 2
        from(k) == {i \in InUse(table) : Packed(table, i) = k}
    IN  Table([k \in 1 .. capacity |->
                  IF from(k) = {} THEN EmptyEntry
                  ELSE table.entries[CHOOSE i \in from(k) : TRUE]],
              capacity, Cardinality(InUse(table)))

\* The loop of io_wait_table_get_or_insert that takes the first free entry; it
\* may end without having found one.
Insert(table, fd) ==
    LET free == 1 .. table.capacity \ InUse(table)
        i == First(free)
        entry == [in_use |-> TRUE, fd |-> fd, task |-> Nobody]
    IN  IF free = {} THEN [table |-> table, at |-> 0]
        ELSE [table |-> Table([table.entries EXCEPT ![i] = entry],
                              table.capacity, table.count + 1),
              at |-> i]

\* The outcomes: the table, and where the entry of fd is (0 for NULL).
io_wait_table_get_or_insert(table, fd) ==
    LET i == io_wait_table_find(table, fd)
    IN  IF i # 0 THEN {[table |-> table, at |-> i]}
        ELSE IF table.count # table.capacity THEN {Insert(table, fd)}
        ELSE {[table |-> table, at |-> 0],      \* calloc failed
              Insert(io_wait_table_grow(table), fd)}

io_wait_table_remove_entry(table, i) ==
    Table([table.entries EXCEPT ![i] = EmptyEntry], table.capacity,
          IF table.count > 0 THEN table.count - 1 ELSE 0)

SetTask(table, i, task) ==
    Table([table.entries EXCEPT ![i].task = task], table.capacity, table.count)
-----------------------------------------------------------------------------
(***************************************************************************)
(* The calls that change the table.                                        *)
(***************************************************************************)
\* Mutant: a new entry stays when the poller refuses the descriptor.
RefusedKeepsEntry(table, i) == table

\* The poller refused: a new entry leaves the table again.
Refused(table, i) ==
    IF io_wait_entry_events(table.entries[i]) = {}
    THEN io_wait_table_remove_entry(table, i) ELSE table

\* Mutant: a second waiter replaces the interest of the first.
NewEventsOnly(old, e) == {e}

NewEvents(old, e) == old \cup {e}

\* worker_park_current_on_io by a running task, for one event of a descriptor.
worker_park_current_on_io(t, fd, e) ==
    /\ live
    /\ t \notin waiting
    /\ \E r \in io_wait_table_get_or_insert(io_waits, fd), accepts \in BOOLEAN :
          LET entry == r.table.entries[r.at]
              old == io_wait_entry_events(entry)
          IN  IF r.at = 0 \/ entry.task[e] # NoTask
              THEN io_waits' = r.table /\ UNCHANGED <<waiting, interest>>
              ELSE IF ~ accepts
              THEN io_waits' = Refused(r.table, r.at)
                   /\ UNCHANGED <<waiting, interest>>
              ELSE /\ io_waits' = SetTask(r.table, r.at,
                                          [entry.task EXCEPT ![e] = t])
                   /\ waiting' = waiting \cup {t}
                   /\ interest' = [interest EXCEPT ![fd] = NewEvents(old, e)]
    /\ UNCHANGED live

\* The tasks that stay in an entry: io_wait_entry_clear_task for those to wake.
Left(entry, ready) ==
    [e \in Events |-> IF e \in ready THEN NoTask ELSE entry.task[e]]

\* wake_waiting_tasks_locked, for readiness and for worker_forget_fd.
wake_waiting_tasks_locked(fd, ready) ==
    LET i == io_wait_table_find(io_waits, fd)
        entry == io_waits.entries[i]
        left == Left(entry, ready)
        new == {e \in Events : left[e] # NoTask}
    IN  /\ live
        /\ i # 0
        /\ waiting' = waiting \ {entry.task[e] : e \in ready}
        /\ interest' = [interest EXCEPT ![fd] = new]
        /\ io_waits' = IF new = {} THEN io_wait_table_remove_entry(io_waits, i)
                       ELSE SetTask(io_waits, i, left)
        /\ UNCHANGED live

\* worker_deinit empties the table, closes the poller and frees the array.
worker_deinit ==
    /\ live
    /\ live' = FALSE
    /\ io_waits' = Table([i \in 1 .. 0 |-> EmptyEntry], 0, 0)
    /\ waiting' = {}
    /\ interest' = [fd \in Fds |-> {}]

Next == \/ \E fd \in Fds :
              \/ \E t \in Tasks, e \in Events : worker_park_current_on_io(t, fd, e)
              \/ \E ready \in SUBSET Events : wake_waiting_tasks_locked(fd, ready)
        \/ worker_deinit

Spec == Init /\ [][Next]_vars
-----------------------------------------------------------------------------
(***************************************************************************)
(* Safety.                                                                 *)
(***************************************************************************)
\* The count is exact, so a table that is not full has a free entry and
\* io_wait_table_get_or_insert fails only when memory is short; a descriptor
\* has one entry; an entry in use has a task, also after a refused park.
TableShape ==
    LET used == InUse(io_waits)
        entry(i) == io_waits.entries[i]
    IN  /\ io_waits.count = Cardinality(used)
        /\ \A i \in used : /\ entry(i).fd \in Fds
                           /\ io_wait_entry_events(entry(i)) # {}
        /\ \A i, j \in used : entry(i).fd = entry(j).fd => i = j

\* The waiting tasks are in the table, each in one place, and nobody else is.
\* worker_deinit cleans up what it finds in every place: a task in two of them
\* would be freed twice, one that runs would be freed under its worker.
TaskParkedOnce ==
    LET entry(i) == io_waits.entries[i]
    IN  /\ \A t \in waiting : \E i \in InUse(io_waits), e \in Events :
              entry(i).task[e] = t
        /\ \A i, j \in InUse(io_waits), e, f \in Events :
              entry(i).task[e] # NoTask =>
                 /\ entry(i).task[e] \in waiting
                 /\ entry(i).task[e] = entry(j).task[f] => i = j /\ e = f

\* The waits that the table stands for.
Waits == [fd \in Fds |->
             LET i == io_wait_table_find(io_waits, fd)
             IN  IF i = 0 THEN Nobody ELSE io_waits.entries[i].task]

\* The poller was told of every wait and of nothing else, whatever the table
\* went through: it learns only differences, computed from the entries.
PollerKnowsWaits ==
    \A fd \in Fds : interest[fd] = {e \in Events : Waits[fd][e] # NoTask}

\* The table is a map from descriptors and events to tasks: growing, packing
\* and reusing entries, failed allocations and refused parks are invisible.
Map == INSTANCE WaitMap WITH waits <- Waits

ImplementsMap == Map!Spec
=============================================================================
