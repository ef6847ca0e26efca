-------------------------- MODULE EpollPollerProofs --------------------------
(***************************************************************************)
(* Proofs about EpollPoller, for any number of tasks and descriptors, any  *)
(* sizes of the generation table and of a batch, and any modulus of the    *)
(* generations that EpollAssumption allows.                                *)
(***************************************************************************)
EXTENDS EpollPoller, WellFoundedInduction, TLAPS
-----------------------------------------------------------------------------
(***************************************************************************)
(* The inductive invariant.                                                *)
(***************************************************************************)
\* The types of all variables but the ready list.
Types == /\ open \subseteq Fds
         /\ file \in [Fds -> 0 .. MaxFiles]
         /\ conditions \in [Fds -> SUBSET Conditions]
         /\ interest \in [Fds -> Interest]
         /\ fd_table_capacity \in Nat
         /\ fd_generations \in [Fds -> 0 .. GenerationMod - 1]
         /\ fd_registered \in [Fds -> BOOLEAN]
         /\ waits \in [Fds -> [Events -> Tasks \cup {NoTask}]]
         /\ aborted \in BOOLEAN
         /\ pc \in {"out", "epoll_wait", "returned", "filtered"}
         /\ batch \subseteq BatchEvent \cup {Wake}
         /\ events \subseteq PollEvent
         /\ closing \subseteq Fds
         /\ cycles \in 0 .. MaxRegistrations
         /\ newer \subseteq Tasks

WaitedFor(fd) == io_wait_entry_events(waits[fd])
Waiting(fd) == WaitedFor(fd) # {}

\* Nobody waits for a descriptor that was forgotten in order to be closed.
ClosingIsIdle == \A fd \in closing : ~ Waiting(fd)

\* The generation of a descriptor has advanced n times since entry b was stored:
\* with each registration since epoll_wait returned, the removal of each, and the
\* removal of the one epoll_wait saw.  It has not advanced only if the descriptor
\* has been registered, and open, ever since.
Advanced(b, n) == /\ fd_generations[b.fd] = (b.generation + n) % GenerationMod
                  /\ n = cycles + cycles + 1 => ~ Waiting(b.fd)
                  /\ n = 0 => Waiting(b.fd) /\ file[b.fd] = b.file

BatchInv == pc = "returned" =>
    \A b \in batch \ {Wake} : \E n \in 0 .. cycles + cycles + 1 : Advanced(b, n)

\* After the filter: who waits since then waits for the file of the event.
EventsInv == pc = "filtered" =>
    \A v \in events, e \in Events :
        waits[v.fd][e] \in Tasks \ newer => v.file = file[v.fd]

EpollInv == /\ Types
            /\ RegistrationsMatchWaits
            /\ ClosingIsIdle
            /\ BatchInv
            /\ EventsInv
-----------------------------------------------------------------------------
(***************************************************************************)
(* Numbers.                                                                *)
(***************************************************************************)
\* Every set of natural numbers that is not empty has a least element.
LEMMA Least ==
    ASSUME NEW T \in SUBSET Nat, T # {}
    PROVE  \E x \in T : \A y \in T : x <= y
  <1>1. PICK x \in T : \A y \in T : ~ (<<y, x>> \in OpToRel(<, Nat))
    BY NatLessThanWellFounded, WFMin, Zenon
  <1>2. \A y \in T : ~ (y < x)
    BY <1>1 DEF OpToRel
  <1> QED
    BY <1>2

\* Induction up to N, for a set of numbers.
LEMMA UpTo ==
    ASSUME NEW N \in Nat, NEW G, 0 \in G,
           \A n \in 1 .. N : n - 1 \in G => n \in G
    PROVE  \A n \in 0 .. N : n \in G
  <1> DEFINE Bad == (0 .. N) \ G
  <1>1. SUFFICES ASSUME Bad # {} PROVE FALSE
    OBVIOUS
  <1>2. Bad \in SUBSET Nat
    OBVIOUS
  <1> HIDE DEF Bad
  <1>3. PICK m \in Bad : \A y \in Bad : m <= y
    BY <1>1, <1>2, Least
  <1>4. m \in 1 .. N /\ m \notin G
    BY DEF Bad
  <1>5. m - 1 \in Bad
    BY <1>4 DEF Bad
  <1> QED
    BY <1>3, <1>4, <1>5

\* f doubles `from' up to N times.
Doubles(f, from, N) == f[0] = from /\ \A k \in 1 .. N : f[k] = 2 * f[k - 1]

\* Such a function exists.
LEMMA DoublingExists ==
    ASSUME NEW from \in Nat \ {0}, NEW N \in Nat
    PROVE  \E f \in [0 .. N -> Nat] : Doubles(f, from, N)
  <1> DEFINE G == {m \in 0 .. N : \E f \in [0 .. m -> Nat] : Doubles(f, from, m)}
  <1>1. 0 \in G
    <2> DEFINE h == [n \in 0 .. 0 |-> from]
    <2>1. h \in [0 .. 0 -> Nat] /\ Doubles(h, from, 0)
      BY DEF Doubles
    <2> HIDE DEF h
    <2> QED
      BY <2>1
  <1>2. ASSUME NEW m \in 1 .. N, m - 1 \in G PROVE m \in G
    <2>1. PICK f \in [0 .. m - 1 -> Nat] : Doubles(f, from, m - 1)
      BY <1>2
    <2> DEFINE g == [k \in 0 .. m |-> IF k = m THEN 2 * f[m - 1] ELSE f[k]]
    <2>2. g \in [0 .. m -> Nat]
      BY <2>1
    <2>3. g[m] = 2 * f[m - 1] /\ \A k \in 0 .. m - 1 : g[k] = f[k]
      OBVIOUS
    <2> HIDE DEF g
    <2>4. ASSUME NEW k \in 1 .. m PROVE g[k] = 2 * g[k - 1]
      <3>1. CASE k = m
        BY <2>3, <3>1
      <3>2. CASE k # m
        <4>1. k \in 1 .. m - 1 /\ k \in 0 .. m - 1 /\ k - 1 \in 0 .. m - 1
          BY <3>2
        <4> QED
          BY <2>1, <2>3, <4>1 DEF Doubles
      <3> QED
        BY <3>1, <3>2
    <2>5. Doubles(g, from, m)
      BY <2>1, <2>3, <2>4 DEF Doubles
    <2>6. m \in 0 .. N
      OBVIOUS
    <2> QED
      BY <2>2, <2>5, <2>6, Zenon
  <1>3. \A m \in 0 .. N : m \in G
    <2> HIDE DEF G
    <2> QED
      BY <1>1, <1>2, UpTo
  <1>4. N \in G
    <2> HIDE DEF G
    <2> QED
      BY <1>3
  <1> QED
    BY <1>4

\* Each doubling adds at least one.
LEMMA DoublingGrows ==
    ASSUME NEW from \in Nat \ {0}, NEW N \in Nat, NEW f, Doubles(f, from, N)
    PROVE  \A k \in 0 .. N : f[k] \in Nat /\ f[k] >= from + k
  <1> DEFINE G == {k \in 0 .. N : f[k] \in Nat /\ f[k] >= from + k}
  <1>1. 0 \in G
    BY DEF Doubles
  <1>2. ASSUME NEW k \in 1 .. N, k - 1 \in G PROVE k \in G
    <2>1. f[k] = 2 * f[k - 1] /\ f[k - 1] \in Nat /\ f[k - 1] >= from + (k - 1)
      BY <1>2 DEF Doubles
    <2> QED
      BY <2>1
  <1>3. \A k \in 0 .. N : k \in G
    <2> HIDE DEF G
    <2> QED
      BY <1>1, <1>2, UpTo
  <1> QED
    BY <1>3

\* ensure_fd_capacity makes room for the descriptor and never shrinks the table.
LEMMA CapacityGrows ==
    ASSUME fd_table_capacity \in Nat, NEW fd \in Fds
    PROVE  /\ GrownCapacity(fd) \in Nat
           /\ fd < GrownCapacity(fd)
           /\ fd_table_capacity <= GrownCapacity(fd)
  <1> DEFINE from == IF fd_table_capacity = 0 THEN InitialCapacity ELSE fd_table_capacity
             Value(d, k) == IF k = 0 THEN from ELSE 2 * d[k - 1]
             Solves(d) == d = [k \in 0 .. fd |-> Value(d, k)]
             doubled == CHOOSE d : Solves(d)
             enough == {k \in 0 .. fd : fd < doubled[k]}
             least == CHOOSE k \in enough : \A j \in enough : k <= j
  <1>1. GrownCapacity(fd) = IF fd < fd_table_capacity THEN fd_table_capacity
                            ELSE doubled[least]
    BY DEF GrownCapacity
  <1>2. fd \in Nat /\ from \in Nat \ {0} /\ from >= fd_table_capacity
    BY EpollAssumption
  <1> HIDE DEF from
  <1>3. PICK f \in [0 .. fd -> Nat] : Doubles(f, from, fd)
    BY <1>2, DoublingExists
  <1>4. Solves(f)
    <2>1. \A k \in 0 .. fd : f[k] = Value(f, k)
      BY <1>2, <1>3 DEF Doubles
    <2> QED
      BY <2>1
  <1>5. Solves(doubled)
    BY <1>4
  <1> HIDE DEF doubled
  <1>6. \A k \in 0 .. fd : doubled[k] = Value(doubled, k)
    BY <1>5
  <1>7. Doubles(doubled, from, fd)
    BY <1>2, <1>6 DEF Doubles
  <1>8. \A k \in 0 .. fd : doubled[k] \in Nat /\ doubled[k] >= from + k
    BY <1>2, <1>7, DoublingGrows
  <1>9. fd \in enough /\ enough \in SUBSET Nat
    BY <1>2, <1>8
  <1>10. least \in enough
    <2> HIDE DEF enough
    <2>1. \E k \in enough : \A j \in enough : k <= j
      BY <1>9, Least
    <2> QED
      BY <2>1
  <1> HIDE DEF least
  <1> QED
    BY <1>1, <1>2, <1>8, <1>10

\* Counting up by less than the modulus.
LEMMA ModAdd ==
    ASSUME NEW M \in Nat, NEW g \in 0 .. M - 1, NEW n \in 0 .. M - 1
    PROVE  /\ (g + n) % M \in 0 .. M - 1
           /\ (g + n) % M = IF g + n < M THEN g + n ELSE g + n - M
  OBVIOUS
-----------------------------------------------------------------------------
(***************************************************************************)
(* The registrations.                                                      *)
(***************************************************************************)
\* What the kernel and the poller have for a descriptor that tasks wait for with
\* events `evs'.
Interested(evs, generation) ==
    IF evs = {} THEN NoInterest ELSE [events |-> evs, generation |-> generation]

\* One descriptor of RegistrationsMatchWaits.
Matches(fd) ==
    /\ interest[fd] = Interested(WaitedFor(fd), fd_generations[fd])
    /\ fd_registered[fd] <=> Waiting(fd)
    /\ Waiting(fd) => fd \in open /\ fd < fd_table_capacity

\* RegistrationsMatchWaits, descriptor by descriptor.
LEMMA MatchesAll ==
    ASSUME Types
    PROVE  RegistrationsMatchWaits <=> (~ aborted /\ \A fd \in Fds : Matches(fd))
  <1>1. \A fd \in Fds : fd_registered[fd] \in BOOLEAN
    BY DEF Types
  <1> QED
    BY <1>1 DEF RegistrationsMatchWaits, Matches, Interested, WaitedFor, Waiting

\* The same of the next state.
LEMMA MatchesAllNext ==
    ASSUME Types'
    PROVE  RegistrationsMatchWaits' <=> (~ aborted' /\ \A fd \in Fds : Matches(fd)')
  <1>1. \A fd \in Fds : fd_registered'[fd] \in BOOLEAN
    BY DEF Types
  <1> QED
    BY <1>1 DEF RegistrationsMatchWaits, Matches, Interested, WaitedFor, Waiting

\* A set of events with a generation is what a descriptor may be registered for.
LEMMA InterestType ==
    ASSUME NEW e \in SUBSET Events, NEW g \in 0 .. GenerationMod - 1
    PROVE  [events |-> e, generation |-> g] \in Interest
  BY DEF Interest

\* The next generation is one.
LEMMA NextGenerationType ==
    ASSUME Types, NEW fd \in Fds
    PROVE  NextGeneration(fd) \in 0 .. GenerationMod - 1
  BY EpollAssumption DEF Types, NextGeneration

\* What a call of croutine_poller_set from worker_park_current_on_io does when the
\* registration matched the waits before.
LEMMA ParkOutcome ==
    ASSUME Types, NEW fd \in open, Matches(fd),
           NEW new, new # {}, new # WaitedFor(fd),
           NEW o \in croutine_poller_set(fd, WaitedFor(fd), new)
    PROVE  /\ o.capacity \in Nat /\ fd_table_capacity <= o.capacity
           /\ o.generation \in {fd_generations[fd], NextGeneration(fd)}
           /\ Waiting(fd) => o.generation = fd_generations[fd]
           /\ o.ok => /\ o.interest = Interested(new, o.generation)
                      /\ o.registered = TRUE
                      /\ fd < o.capacity
                      /\ ~ Waiting(fd) => o.generation = NextGeneration(fd)
           /\ ~ o.ok => o.interest = interest[fd] /\ o.registered = fd_registered[fd]
  <1>1. fd \in Fds /\ fd_table_capacity \in Nat
    BY DEF Types
  <1>2. /\ GrownCapacity(fd) \in Nat
        /\ fd < GrownCapacity(fd)
        /\ fd_table_capacity <= GrownCapacity(fd)
    BY <1>1, CapacityGrows
  <1>3. CASE Waiting(fd)
    <2>1. o = Modify(fd, new)
      BY <1>3 DEF croutine_poller_set, Waiting
    <2>2. /\ interest[fd] = [events |-> WaitedFor(fd), generation |-> fd_generations[fd]]
          /\ fd < fd_table_capacity /\ fd_registered[fd]
      BY <1>3 DEF Matches, Interested, Waiting
    <2>3. interest[fd] # NoInterest
      <3>1. interest[fd].events = WaitedFor(fd)
        BY <2>2
      <3>2. NoInterest.events = {}
        BY DEF NoInterest
      <3> QED
        BY <1>3, <3>1, <3>2 DEF Waiting
    <2>4. o = Outcome(TRUE, fd_table_capacity, fd_generations[fd], TRUE,
                      [events |-> new, generation |-> fd_generations[fd]])
      BY <2>1, <2>2, <2>3 DEF Modify
    <2>5. /\ o.ok = TRUE /\ o.capacity = fd_table_capacity
          /\ o.generation = fd_generations[fd] /\ o.registered = TRUE
          /\ o.interest = [events |-> new, generation |-> fd_generations[fd]]
      BY <2>4 DEF Outcome
    <2>6. Interested(new, o.generation) = o.interest
      BY <2>5 DEF Interested
    <2>7. o.capacity = fd_table_capacity
      BY <2>5, Zenon
    <2>8. o.capacity \in Nat /\ fd_table_capacity <= o.capacity /\ fd < o.capacity
      BY <1>1, <2>2, <2>7
    <2> QED
      BY <1>3, <2>5, <2>6, <2>8, Zenon
  <1>4. CASE ~ Waiting(fd)
    <2>1. o \in Add(fd, new)
      BY <1>4 DEF croutine_poller_set, Waiting
    <2>2. CASE o = Outcome(FALSE, GrownCapacity(fd), NextGeneration(fd),
                           fd_registered[fd], interest[fd])
      <3>1. /\ o.ok = FALSE /\ o.capacity = GrownCapacity(fd)
            /\ o.generation = NextGeneration(fd) /\ o.registered = fd_registered[fd]
            /\ o.interest = interest[fd]
        BY <2>2 DEF Outcome
      <3> QED
        BY <1>2, <1>4, <3>1
    <2>3. CASE o = Unchanged(fd, FALSE)
      <3>1. /\ o.ok = FALSE /\ o.capacity = fd_table_capacity
            /\ o.generation = fd_generations[fd] /\ o.registered = fd_registered[fd]
            /\ o.interest = interest[fd]
        BY <2>3 DEF Unchanged, Outcome
      <3> QED
        BY <1>1, <1>4, <3>1
    <2>4. CASE o = Outcome(TRUE, GrownCapacity(fd), NextGeneration(fd), TRUE,
                           [events |-> new, generation |-> NextGeneration(fd)])
      <3>1. /\ o.ok = TRUE /\ o.capacity = GrownCapacity(fd)
            /\ o.generation = NextGeneration(fd) /\ o.registered = TRUE
            /\ o.interest = [events |-> new, generation |-> NextGeneration(fd)]
        BY <2>4 DEF Outcome
      <3> QED
        BY <1>2, <1>4, <3>1 DEF Interested
    <2> QED
      BY <2>1, <2>2, <2>3, <2>4 DEF Add
  <1> QED
    BY <1>3, <1>4

\* The outcome of a call from wake_waiting_tasks_locked.
WakeSets(fd, left) == CHOOSE o \in croutine_poller_set(fd, WaitedFor(fd), left) : TRUE

\* What such a call does, when the registration matched the waits before.
WakeMatches(fd, left, o) ==
    /\ o.ok = TRUE
    /\ o.registered \in BOOLEAN /\ (o.registered <=> left # {})
    /\ o.interest = Interested(left, o.generation)
    /\ o.generation = IF Waiting(fd) /\ left = {} THEN NextGeneration(fd)
                      ELSE fd_generations[fd]

\* When fewer events are left to wait for.
LEMMA WakeOutcome ==
    ASSUME Types, NEW fd \in Fds, Matches(fd), NEW left \in SUBSET WaitedFor(fd)
    PROVE  WakeMatches(fd, left, WakeSets(fd, left))
  <1> DEFINE o == WakeSets(fd, left)
  <1> SUFFICES WakeMatches(fd, left, o)
    OBVIOUS
  <1> USE DEF WakeMatches
  <1>1. CASE left = WaitedFor(fd)
    <2>1. o = Unchanged(fd, TRUE)
      BY <1>1 DEF WakeSets, croutine_poller_set
    <2> HIDE DEF o
    <2>2. /\ o.ok = TRUE /\ o.generation = fd_generations[fd]
          /\ o.registered = fd_registered[fd] /\ o.interest = interest[fd]
      BY ONLY <2>1 DEF Unchanged, Outcome
    <2>3. fd_registered[fd] \in BOOLEAN
      BY DEF Types
    <2> QED
      BY <1>1, <2>2, <2>3, Zenon DEF Matches, Waiting
  <1>2. CASE left # WaitedFor(fd) /\ left = {}
    <2>1. o = Remove(fd)
      BY <1>2 DEF WakeSets, croutine_poller_set
    <2> HIDE DEF o
    <2>2. Waiting(fd) /\ fd \in open /\ fd < fd_table_capacity
      BY <1>2 DEF Matches, Waiting
    <2>3. o = Outcome(TRUE, fd_table_capacity, NextGeneration(fd), FALSE, NoInterest)
      BY <2>1, <2>2 DEF Remove
    <2>4. /\ o.ok = TRUE /\ o.generation = NextGeneration(fd)
          /\ o.registered = FALSE /\ o.interest = NoInterest
      BY ONLY <2>3 DEF Outcome
    <2>5. Interested(left, o.generation) = NoInterest
      BY <1>2, Zenon DEF Interested
    <2>6. left = {} /\ ~ (left # {})
      BY <1>2, Zenon
    <2>7. o.registered \in BOOLEAN /\ (o.registered <=> left # {})
      BY <2>4, <2>6, Zenon
    <2> QED
      BY <2>2, <2>4, <2>5, <2>6, <2>7, Zenon
  <1>3. CASE left # WaitedFor(fd) /\ left # {}
    <2>1. Waiting(fd)
      BY <1>3 DEF Waiting
    <2>2. o = Modify(fd, left)
      BY <1>3, <2>1 DEF WakeSets, croutine_poller_set, Waiting
    <2> HIDE DEF o
    <2>3. /\ interest[fd] = [events |-> WaitedFor(fd), generation |-> fd_generations[fd]]
          /\ fd < fd_table_capacity /\ fd_registered[fd]
      BY <2>1 DEF Matches, Interested, Waiting
    <2>4. interest[fd] # NoInterest
      <3>1. interest[fd].events = WaitedFor(fd)
        BY <2>3
      <3>2. NoInterest.events = {}
        BY DEF NoInterest
      <3> QED
        BY <2>1, <3>1, <3>2 DEF Waiting
    <2>5. o = Outcome(TRUE, fd_table_capacity, fd_generations[fd], TRUE,
                      [events |-> left, generation |-> fd_generations[fd]])
      BY <2>2, <2>3, <2>4 DEF Modify
    <2>6. /\ o.ok = TRUE /\ o.generation = fd_generations[fd] /\ o.registered = TRUE
          /\ o.interest = [events |-> left, generation |-> fd_generations[fd]]
      BY ONLY <2>5 DEF Outcome
    <2> QED
      BY <1>3, <2>1, <2>6, Zenon DEF Interested
  <1> QED
    BY <1>1, <1>2, <1>3

\* What a step that takes tasks out of the wait table leaves of descriptor fd.
Fewer(fd) ==
    /\ interest'[fd] = Interested(WaitedFor(fd)', fd_generations'[fd])
    /\ fd_registered'[fd] <=> Waiting(fd)'
    /\ Waiting(fd)' => Waiting(fd)
    /\ fd_generations'[fd] = IF Waiting(fd) /\ ~ Waiting(fd)' THEN NextGeneration(fd)
                             ELSE fd_generations[fd]
    /\ \A e \in Events : waits'[fd][e] \in {waits[fd][e], NoTask}

\* wake_waiting_tasks_locked tells the poller and never fails.
LEMMA WakeStep ==
    ASSUME Types, RegistrationsMatchWaits,
           NEW ready, wake_waiting_tasks_locked(ready)
    PROVE  /\ aborted' = FALSE
           /\ fd_table_capacity' = fd_table_capacity
           /\ waits' \in [Fds -> [Events -> Tasks \cup {NoTask}]]
           /\ fd_generations' \in [Fds -> 0 .. GenerationMod - 1]
           /\ fd_registered' \in [Fds -> BOOLEAN]
           /\ interest' \in [Fds -> Interest]
           /\ \A fd \in Fds : /\ Fewer(fd)
                              /\ \A e \in Events \cap ready[fd] : waits'[fd][e] = NoTask
  <1> DEFINE left == [fd \in Fds |-> [e \in Events |->
                         IF e \in ready[fd] THEN NoTask ELSE waits[fd][e]]]
             set == [fd \in Fds |-> CHOOSE o \in croutine_poller_set(fd,
                         io_wait_entry_events(waits[fd]),
                         io_wait_entry_events(left[fd])) : TRUE]
  <1>1. /\ waits' = left
        /\ fd_generations' = [fd \in Fds |-> set[fd].generation]
        /\ fd_registered' = [fd \in Fds |-> set[fd].registered]
        /\ interest' = [fd \in Fds |-> set[fd].interest]
        /\ aborted' = \E fd \in Fds : ~ set[fd].ok
        /\ fd_table_capacity' = fd_table_capacity
    BY Zenon DEF wake_waiting_tasks_locked
  <1>2. waits \in [Fds -> [Events -> Tasks \cup {NoTask}]]
    BY DEF Types
  <1>3. left \in [Fds -> [Events -> Tasks \cup {NoTask}]]
    BY <1>2
  <1>4. \A fd \in Fds, e \in Events : left[fd][e] = IF e \in ready[fd] THEN NoTask
                                                   ELSE waits[fd][e]
    OBVIOUS
  <1> DEFINE Left(fd) == io_wait_entry_events(left[fd])
  <1>5. \A fd \in Fds : set[fd] = WakeSets(fd, Left(fd))
    BY DEF WaitedFor, WakeSets
  <1> HIDE DEF left, set
  <1>6. \A fd \in Fds : WaitedFor(fd)' = Left(fd)
    BY <1>1, Zenon DEF WaitedFor
  <1>7. \A fd \in Fds : Left(fd) \in SUBSET WaitedFor(fd)
    BY <1>4 DEF WaitedFor, io_wait_entry_events
  <1> HIDE DEF Left
  <1>8. ASSUME NEW fd \in Fds
        PROVE  WakeMatches(fd, Left(fd), set[fd])
    <2>1. Matches(fd)
      BY MatchesAll
    <2> QED
      BY <1>5, <1>7, <2>1, WakeOutcome, Zenon
  <1>9. ASSUME NEW fd \in Fds
        PROVE  /\ set[fd].generation \in 0 .. GenerationMod - 1
               /\ set[fd].interest \in Interest
    <2>1. set[fd].generation \in 0 .. GenerationMod - 1
      <3>1. fd_generations[fd] \in 0 .. GenerationMod - 1
        BY DEF Types
      <3> QED
        BY <1>8, <3>1, NextGenerationType, Zenon DEF WakeMatches
    <2>2. Left(fd) \in SUBSET Events
      BY <1>7 DEF WaitedFor, io_wait_entry_events
    <2>3. NoInterest \in Interest
      BY EpollAssumption DEF NoInterest, Interest
    <2>4. [events |-> Left(fd), generation |-> set[fd].generation] \in Interest
      BY <2>1, <2>2 DEF Interest
    <2> QED
      BY <1>8, <2>1, <2>3, <2>4, Zenon DEF WakeMatches, Interested
  <1>10. /\ fd_generations' \in [Fds -> 0 .. GenerationMod - 1]
         /\ interest' \in [Fds -> Interest]
    BY <1>1, <1>9
  <1>11. fd_registered' \in [Fds -> BOOLEAN]
    BY <1>1, <1>8, Zenon DEF WakeMatches
  <1>12. aborted' = FALSE
    <2>1. ~ \E fd \in Fds : ~ set[fd].ok
      BY <1>8, Zenon DEF WakeMatches
    <2> QED
      BY <1>1, <2>1
  <1>13. ASSUME NEW fd \in Fds PROVE Fewer(fd)
    <2>1. /\ fd_generations'[fd] = set[fd].generation
          /\ fd_registered'[fd] = set[fd].registered
          /\ interest'[fd] = set[fd].interest
      BY <1>1, Zenon
    <2>2. Waiting(fd)' <=> Left(fd) # {}
      BY <1>6, Zenon DEF Waiting
    <2>3. Waiting(fd)' => Waiting(fd)
      BY <1>7, <2>2, Zenon DEF Waiting
    <2>4. fd_registered'[fd] <=> Waiting(fd)'
      BY <1>8, <2>1, <2>2, Zenon DEF WakeMatches
    <2>5. interest'[fd] = Interested(WaitedFor(fd)', fd_generations'[fd])
      BY <1>6, <1>8, <2>1, Zenon DEF WakeMatches
    <2>6. fd_generations'[fd] = IF Waiting(fd) /\ ~ Waiting(fd)' THEN NextGeneration(fd)
                                ELSE fd_generations[fd]
      BY <1>8, <2>1, <2>2, Zenon DEF WakeMatches
    <2>7. \A e \in Events : waits'[fd][e] \in {waits[fd][e], NoTask}
      BY <1>1, <1>4
    <2> QED
      BY <2>3, <2>4, <2>5, <2>6, <2>7, Zenon DEF Fewer
  <1>14. \A fd \in Fds : \A e \in Events \cap ready[fd] : waits'[fd][e] = NoTask
    BY <1>1, <1>4
  <1> QED
    BY <1>1, <1>3, <1>10, <1>11, <1>12, <1>13, <1>14
-----------------------------------------------------------------------------
(***************************************************************************)
(* The batch and the events that were returned.                            *)
(***************************************************************************)
\* A step that leaves the generation of fd alone, and one that counts it up: a
\* removal, or a registration, which counts as a cycle.
SameGeneration(fd) == /\ fd_generations'[fd] = fd_generations[fd]
                      /\ Waiting(fd)' <=> Waiting(fd)
                      /\ cycles' >= cycles
                      /\ Waiting(fd) => file'[fd] = file[fd]
NewGeneration(fd) == /\ fd_generations'[fd] = NextGeneration(fd)
                     /\ \/ Waiting(fd) /\ ~ Waiting(fd)' /\ cycles' = cycles
                        \/ ~ Waiting(fd) /\ cycles' = cycles + 1

\* The registrations of one batch do not exhaust the generations.
LEMMA CyclesBound ==
    ASSUME NEW c \in 0 .. MaxRegistrations
    PROVE  c \in Nat /\ GenerationMod \in Nat /\ c + c + 1 < GenerationMod
  <1>1. \A m, g \in Nat : 2 * m + 1 < g => \A n \in 0 .. m : n + n + 1 < g
    OBVIOUS
  <1>2. /\ MaxRegistrations \in Nat /\ GenerationMod \in Nat
        /\ 2 * MaxRegistrations + 1 < GenerationMod
    BY EpollAssumption
  <1> QED
    BY <1>1, <1>2

\* Such steps keep the batch and the generations in step.
LEMMA BatchStep ==
    ASSUME Types, Types', BatchInv, pc = "returned", batch' = batch,
           \A fd \in Fds : SameGeneration(fd) \/ NewGeneration(fd)
    PROVE  BatchInv'
  <1> SUFFICES ASSUME NEW b \in batch \ {Wake}
               PROVE  \E n \in 0 .. cycles' + cycles' + 1 : Advanced(b, n)'
    BY DEF BatchInv
  <1>1. b.fd \in Fds /\ b.generation \in 0 .. GenerationMod - 1
    BY DEF Types, BatchEvent
  <1>2. PICK n \in 0 .. cycles + cycles + 1 : Advanced(b, n)
    BY DEF BatchInv
  <1>3. PICK d \in Nat : /\ d = cycles'
                         /\ cycles \in Nat /\ GenerationMod \in Nat
                         /\ d + d + 1 < GenerationMod
    <2>1. cycles \in 0 .. MaxRegistrations /\ cycles' \in 0 .. MaxRegistrations
      BY DEF Types
    <2>2. cycles \in Nat /\ cycles' \in Nat
      BY <2>1, CyclesBound
    <2> QED
      BY <2>1, <2>2, CyclesBound, Zenon
  <1>4. /\ cycles \in Nat /\ d \in Nat /\ GenerationMod \in Nat
        /\ d + d + 1 < GenerationMod
        /\ n \in Nat /\ n <= cycles + cycles + 1
    <2>1. cycles \in Nat /\ d \in Nat /\ GenerationMod \in Nat /\ d + d + 1 < GenerationMod
      BY <1>3, Zenon
    <2> QED
      BY <1>2, <2>1
  <1>5. CASE SameGeneration(b.fd)
    <2>1. n \in 0 .. d + d + 1
      <3>1. d >= cycles
        BY <1>3, <1>5 DEF SameGeneration
      <3> QED
        BY <1>4, <3>1
    <2>2. n = d + d + 1 => ~ Waiting(b.fd)'
      <3>1. d >= cycles /\ (Waiting(b.fd)' => Waiting(b.fd))
        BY <1>3, <1>5 DEF SameGeneration
      <3>2. n = d + d + 1 => n = cycles + cycles + 1
        BY <1>4, <3>1
      <3> QED
        BY <1>2, <3>1, <3>2 DEF Advanced
    <2>3. Advanced(b, n)'
      BY <1>2, <1>3, <1>5, <2>2 DEF Advanced, SameGeneration
    <2> QED
      BY <1>3, <2>1, <2>3
  <1>6. CASE NewGeneration(b.fd)
    <2>1. n <= d + d /\ (n = d + d => ~ Waiting(b.fd)')
      <3>1. CASE Waiting(b.fd) /\ ~ Waiting(b.fd)' /\ d = cycles
        <4>1. n # cycles + cycles + 1
          BY <1>2, <3>1 DEF Advanced
        <4>2. n <= cycles + cycles
          BY <1>4, <4>1
        <4> QED
          BY <3>1, <4>2
      <3>2. CASE d = cycles + 1
        <4>1. n < d + d
          BY <1>4, <3>2
        <4> QED
          BY <1>4, <4>1
      <3> QED
        BY <1>3, <1>6, <3>1, <3>2 DEF NewGeneration
    <2>2. fd_generations'[b.fd] = (((b.generation + n) % GenerationMod) + 1) % GenerationMod
      BY <1>2, <1>6 DEF Advanced, NewGeneration, NextGeneration
    <2>3. n + 1 < GenerationMod /\ n + 1 \in 0 .. d + d + 1
      BY <1>4, <2>1
    <2>4. (((b.generation + n) % GenerationMod) + 1) % GenerationMod
             = (b.generation + (n + 1)) % GenerationMod
      <3> DEFINE g == b.generation
                 m == (g + n) % GenerationMod
      <3>1. n \in 0 .. GenerationMod - 1 /\ n + 1 \in 0 .. GenerationMod - 1
            /\ 1 \in 0 .. GenerationMod - 1
        BY <1>4, <2>3
      <3>2. m \in 0 .. GenerationMod - 1
            /\ m = IF g + n < GenerationMod THEN g + n ELSE g + n - GenerationMod
        BY <1>1, <1>4, <3>1, ModAdd
      <3> HIDE DEF m
      <3>3. (m + 1) % GenerationMod = IF m + 1 < GenerationMod THEN m + 1
                                      ELSE m + 1 - GenerationMod
        BY <1>3, <3>1, <3>2, ModAdd
      <3>4. (g + (n + 1)) % GenerationMod =
               IF g + (n + 1) < GenerationMod THEN g + (n + 1)
               ELSE g + (n + 1) - GenerationMod
        BY <1>1, <1>4, <3>1, ModAdd
      <3>5. (m + 1) % GenerationMod = (g + (n + 1)) % GenerationMod
        BY <1>1, <1>4, <3>2, <3>3, <3>4
      <3> QED
        BY <3>5 DEF m
    <2>5. /\ n + 1 = d + d + 1 => ~ Waiting(b.fd)'
          /\ n + 1 # 0
      BY <1>4, <2>1
    <2>6. Advanced(b, n + 1)'
      BY <1>3, <2>2, <2>4, <2>5 DEF Advanced
    <2> QED
      BY <1>3, <2>3, <2>6
  <1> QED
    BY <1>1, <1>5, <1>6

\* An entry that croutine_poller_wait finds current is about the file the
\* descriptor still has.
LEMMA CurrentIsOwn ==
    ASSUME Types, BatchInv, pc = "returned", NEW b \in batch \ {Wake}, Current(b)
    PROVE  b.file = file[b.fd]
  <1>1. b.fd \in Fds /\ b.generation \in 0 .. GenerationMod - 1
    BY DEF Types, BatchEvent
  <1>2. PICK n \in 0 .. cycles + cycles + 1 : Advanced(b, n)
    BY DEF BatchInv
  <1>3. cycles \in Nat /\ GenerationMod \in Nat /\ cycles + cycles + 1 < GenerationMod
    <2>1. cycles \in 0 .. MaxRegistrations
      BY DEF Types
    <2> QED
      BY <2>1, CyclesBound
  <1>4. n \in 0 .. GenerationMod - 1
    BY <1>2, <1>3
  <1>5. (b.generation + n) % GenerationMod = b.generation
    BY <1>2 DEF Advanced, Current
  <1>6. n = 0
    <2> DEFINE g == b.generation
    <2>1. (g + n) % GenerationMod = IF g + n < GenerationMod THEN g + n
                                    ELSE g + n - GenerationMod
      BY <1>1, <1>3, <1>4, ModAdd
    <2> HIDE DEF g
    <2>2. g \in 0 .. GenerationMod - 1 /\ (g + n) % GenerationMod = g
      BY <1>1, <1>5 DEF g
    <2> QED
      BY <1>3, <1>4, <2>1, <2>2
  <1> QED
    BY <1>2, <1>6 DEF Advanced

\* The events that were returned, in a step that makes no older waiter.
LEMMA EventsStep ==
    ASSUME Types, EventsInv, pc = "filtered", events' = events,
           \A fd \in Fds, e \in Events : waits'[fd][e] \in Tasks \ newer' =>
               waits[fd][e] \in Tasks \ newer /\ file'[fd] = file[fd]
    PROVE  EventsInv'
  <1> SUFFICES ASSUME NEW v \in events, NEW e \in Events,
                      waits'[v.fd][e] \in Tasks \ newer'
               PROVE  v.file = file'[v.fd]
    BY DEF EventsInv
  <1>1. v.fd \in Fds
    BY DEF Types, PollEvent
  <1> QED
    BY <1>1 DEF EventsInv
-----------------------------------------------------------------------------
(***************************************************************************)
(* Each step keeps the invariant.                                          *)
(***************************************************************************)
\* A step that leaves the waits, the tables of the poller, and the files of
\* registered descriptors alone.
LEMMA QuietStep ==
    ASSUME EpollInv, Types',
           UNCHANGED <<fd_table_capacity, fd_generations, fd_registered, waits, aborted,
                       cycles, newer>>,
           interest' = interest,
           \A fd \in Fds : fd \in open /\ Waiting(fd) => fd \in open' /\ file'[fd] = file[fd],
           closing' \subseteq closing,
           pc' = "returned" => pc = "returned" /\ batch' = batch,
           pc' = "filtered" => pc = "filtered" /\ events' = events
    PROVE  EpollInv'
  <1>1. \A fd \in Fds : (WaitedFor(fd)' = WaitedFor(fd)) /\ (Waiting(fd)' <=> Waiting(fd))
    BY DEF WaitedFor, Waiting
  <1>2. RegistrationsMatchWaits /\ Types
    BY DEF EpollInv
  <1>3. \A fd \in Fds : Matches(fd)
    BY <1>2, MatchesAll
  <1>4. ASSUME NEW fd \in Fds PROVE Matches(fd)'
    BY <1>1, <1>3 DEF Matches
  <1>5. RegistrationsMatchWaits'
    <2>1. ~ aborted'
      BY <1>2, MatchesAll
    <2> QED
      BY <1>4, <2>1, MatchesAllNext
  <1>6. ClosingIsIdle'
    <2>1. ClosingIsIdle /\ closing \subseteq Fds
      BY <1>2 DEF EpollInv, Types
    <2> QED
      BY <1>1, <2>1 DEF ClosingIsIdle
  <1>7. BatchInv'
    <2>1. CASE pc' = "returned"
      <3>1. cycles' >= cycles
        BY <1>2 DEF Types
      <3>2. \A fd \in Fds : SameGeneration(fd)
        BY <1>1, <1>3, <3>1 DEF SameGeneration, Matches
      <3> QED
        BY <1>2, <2>1, <3>2, BatchStep DEF EpollInv
    <2>2. CASE pc' # "returned"
      BY <2>2 DEF BatchInv
    <2> QED
      BY <2>1, <2>2
  <1>8. EventsInv'
    <2>1. CASE pc' = "filtered"
      <3>1. ASSUME NEW fd \in Fds, NEW e \in Events, waits[fd][e] \in Tasks
            PROVE  file'[fd] = file[fd]
        <4>1. waits[fd][e] # NoTask
          BY <3>1, EpollAssumption
        <4>2. Waiting(fd)
          BY <4>1 DEF Waiting, WaitedFor, io_wait_entry_events
        <4> QED
          BY <1>3, <4>2 DEF Matches
      <3> QED
        BY <1>2, <2>1, <3>1, EventsStep DEF EpollInv
    <2>2. CASE pc' # "filtered"
      BY <2>2 DEF EventsInv
    <2> QED
      BY <2>1, <2>2
  <1> QED
    BY <1>5, <1>6, <1>7, <1>8 DEF EpollInv

\* Conditions change; the eventfd is written.
LEMMA ConditionStep ==
    ASSUME EpollInv, NEW fd \in Fds, NEW c \in Conditions, ConditionChanges(fd, c)
    PROVE  EpollInv'
  <1>1. Types'
    <2>1. conditions' \in [Fds -> SUBSET Conditions]
      BY DEF EpollInv, Types, ConditionChanges
    <2> QED
      BY <2>1 DEF EpollInv, Types, ConditionChanges, tableVars, waitVars, pollVars
  <1> QED
    BY <1>1, QuietStep DEF ConditionChanges, tableVars, waitVars, pollVars

\* croutine_poller_wake.
LEMMA PollerWakeStep ==
    ASSUME EpollInv, croutine_poller_wake
    PROVE  EpollInv'
  <1>1. Types'
    BY DEF EpollInv, Types, croutine_poller_wake, tableVars, waitVars, pollVars
  <1> QED
    BY <1>1, QuietStep DEF croutine_poller_wake, tableVars, waitVars, pollVars

\* A descriptor is closed: nobody waits for it.
LEMMA CloseStep ==
    ASSUME EpollInv, NEW fd \in Fds, CloseFd(fd)
    PROVE  EpollInv'
  <1>1. Types /\ RegistrationsMatchWaits /\ ClosingIsIdle
    BY DEF EpollInv
  <1>2. ~ Waiting(fd)
    BY <1>1 DEF ClosingIsIdle, CloseFd
  <1>3. interest' = interest
    <2>1. interest[fd] = NoInterest
      <3>1. Matches(fd)
        BY <1>1, MatchesAll
      <3> QED
        BY <1>2, <3>1 DEF Matches, Interested, Waiting
    <2>2. interest \in [Fds -> Interest]
      BY <1>1 DEF Types
    <2> QED
      BY <2>1, <2>2 DEF CloseFd
  <1>4. Types'
    <2>1. open' \subseteq Fds /\ conditions' \in [Fds -> SUBSET Conditions]
      BY <1>1 DEF Types, CloseFd
    <2> QED
      BY <1>1, <1>3, <2>1 DEF Types, CloseFd, tableVars, waitVars, pollVars
  <1>5. \A f \in Fds : f \in open /\ Waiting(f) => f \in open' /\ file'[f] = file[f]
    BY <1>2 DEF CloseFd
  <1> QED
    BY <1>3, <1>4, <1>5, QuietStep DEF CloseFd, tableVars, waitVars, pollVars

\* A descriptor is opened.
LEMMA OpenStep ==
    ASSUME EpollInv, NEW fd \in Fds, OpenFd(fd)
    PROVE  EpollInv'
  <1>1. Types
    BY DEF EpollInv
  <1>2. Types'
    <2>1. file' \in [Fds -> 0 .. MaxFiles]
      <3>1. file[fd] \in 0 .. MaxFiles /\ file[fd] < MaxFiles /\ MaxFiles \in Nat
        BY <1>1, EpollAssumption DEF Types, OpenFd
      <3>2. file[fd] + 1 \in 0 .. MaxFiles
        BY <3>1
      <3> QED
        BY <1>1, <3>2 DEF Types, OpenFd
    <2>2. open' \subseteq Fds /\ closing' \subseteq Fds
      BY <1>1 DEF Types, OpenFd
    <2> QED
      BY <1>1, <2>1, <2>2 DEF Types, OpenFd, tableVars, waitVars, pollVars
  <1>3. \A f \in Fds : f \in open /\ Waiting(f) => f \in open' /\ file'[f] = file[f]
    BY <1>1 DEF Types, OpenFd
  <1>4. closing' \subseteq closing
    BY DEF OpenFd
  <1> QED
    BY <1>2, <1>3, <1>4, QuietStep DEF OpenFd, tableVars, waitVars, pollVars

\* The worker goes into the poller.
LEMMA BeginPollStep ==
    ASSUME EpollInv, BeginPoll
    PROVE  EpollInv'
  <1>1. Types'
    BY DEF EpollInv, Types, BeginPoll, kernelVars, tableVars, waitVars
  <1> QED
    BY <1>1, QuietStep DEF BeginPoll, kernelVars, tableVars, waitVars

\* What epoll_wait reports of a descriptor with conditions `conds' are conditions.
LEMMA ReportedType ==
    ASSUME NEW conds \in SUBSET Conditions, NEW int
    PROVE  Reported(conds, int) \in SUBSET Conditions
  BY DEF Reported

\* epoll_wait stores entries of descriptors that are registered.
LEMMA EpollWaitStep ==
    ASSUME EpollInv, EpollWait
    PROVE  EpollInv'
  <1>1. Types /\ RegistrationsMatchWaits /\ ClosingIsIdle
    BY DEF EpollInv
  <1> DEFINE Entry(k) == [fd |-> k, generation |-> interest[k].generation,
                          ready |-> Reported(conditions[k], interest[k]),
                          file |-> file[k]]
  <1>2. ASSUME NEW b \in batch' \ {Wake}
        PROVE  \E k \in ReadyFds(conditions, interest) : b = Entry(k)
    <2> DEFINE n == IF Len(rdlist) < MaxEvents THEN Len(rdlist) ELSE MaxEvents
               taken == SubSeq(rdlist, 1, n)
               ready == Range(taken) \cap (ReadyFds(conditions, interest) \cup {Wake})
    <2>1. batch' = {IF k = Wake THEN Wake ELSE Entry(k) : k \in ready}
      BY Zenon DEF EpollWait
    <2> HIDE DEF taken
    <2>2. PICK k \in ready : b = IF k = Wake THEN Wake ELSE Entry(k)
      BY <1>2, <2>1, Zenon
    <2>3. k # Wake
      BY <1>2, <2>2, Zenon
    <2>4. k \in ReadyFds(conditions, interest) /\ b = Entry(k)
      BY <2>2, <2>3, Zenon
    <2> QED
      BY <2>4, Zenon
  <1>3. ASSUME NEW k \in ReadyFds(conditions, interest)
        PROVE  /\ k \in Fds /\ Waiting(k)
               /\ interest[k].generation = fd_generations[k]
    <2>1. k \in Fds /\ interest[k].events # {}
      BY DEF ReadyFds, Reported
    <2>2. Matches(k)
      BY <1>1, <2>1, MatchesAll
    <2>3. Waiting(k)
      <3>1. NoInterest.events = {}
        BY DEF NoInterest
      <3>2. interest[k] # NoInterest
        BY <2>1, <3>1, Zenon
      <3> QED
        BY <2>2, <3>2, Zenon DEF Matches, Interested, Waiting
    <2>4. interest[k] = [events |-> WaitedFor(k), generation |-> fd_generations[k]]
      BY <2>2, <2>3, Zenon DEF Matches, Interested, Waiting
    <2>5. [events |-> WaitedFor(k), generation |-> fd_generations[k]].generation =
             fd_generations[k]
      OBVIOUS
    <2> QED
      BY <2>1, <2>3, <2>4, <2>5, Zenon
  <1>4. Types'
    <2>1. batch' \subseteq BatchEvent \cup {Wake}
      <3> SUFFICES ASSUME NEW b \in batch' \ {Wake} PROVE b \in BatchEvent
        OBVIOUS
      <3>1. PICK k \in ReadyFds(conditions, interest) : b = Entry(k)
        BY <1>2
      <3>2. k \in Fds /\ interest[k].generation \in 0 .. GenerationMod - 1
        BY <1>1, <1>3 DEF Types
      <3>3. file[k] \in 0 .. MaxFiles /\ conditions[k] \in SUBSET Conditions
        BY <1>1, <3>2 DEF Types
      <3>4. Reported(conditions[k], interest[k]) \in SUBSET Conditions
        BY <3>3, ReportedType
      <3> QED
        BY <3>1, <3>2, <3>3, <3>4 DEF BatchEvent
    <2>2. cycles' \in 0 .. MaxRegistrations
      BY EpollAssumption DEF EpollWait
    <2> QED
      BY <1>1, <2>1, <2>2 DEF Types, EpollWait, tableVars, waitVars
  <1>5. \A fd \in Fds : (WaitedFor(fd)' = WaitedFor(fd)) /\ (Waiting(fd)' <=> Waiting(fd))
    BY DEF EpollWait, waitVars, WaitedFor, Waiting
  <1>6. RegistrationsMatchWaits'
    BY <1>1 DEF RegistrationsMatchWaits, EpollWait, tableVars, waitVars
  <1>7. ClosingIsIdle'
    BY <1>1, <1>5 DEF ClosingIsIdle, EpollWait, Types
  <1>8. BatchInv'
    <2> SUFFICES ASSUME NEW b \in batch' \ {Wake}
                 PROVE  \E n \in 0 .. cycles' + cycles' + 1 : Advanced(b, n)'
      BY DEF BatchInv
    <2>1. PICK k \in ReadyFds(conditions, interest) : b = Entry(k)
      BY <1>2
    <2>2. /\ k \in Fds /\ Waiting(k)
          /\ b.fd = k /\ b.generation = fd_generations[k] /\ b.file = file[k]
      BY <1>3, <2>1
    <2>3. fd_generations[k] = (b.generation + 0) % GenerationMod
      <3>1. fd_generations[k] \in 0 .. GenerationMod - 1 /\ GenerationMod \in Nat
        BY <1>1, <2>2, EpollAssumption DEF Types
      <3> QED
        BY <2>2, <3>1
    <2>4. cycles' = 0
      BY DEF EpollWait
    <2>5. Advanced(b, 0)'
      BY <1>5, <2>2, <2>3, <2>4 DEF Advanced, EpollWait, tableVars
    <2> QED
      BY <2>4, <2>5
  <1>9. EventsInv'
    BY DEF EventsInv, EpollWait
  <1> QED
    BY <1>4, <1>6, <1>7, <1>8, <1>9 DEF EpollInv

\* croutine_poller_wait drops what is not current.
LEMMA FilterStep ==
    ASSUME EpollInv, FilterBatch
    PROVE  EpollInv'
  <1>1. Types /\ RegistrationsMatchWaits /\ ClosingIsIdle /\ BatchInv
    BY DEF EpollInv
  <1> DEFINE Event(b) == [fd |-> b.fd, events |-> from_epoll_events(b.ready),
                          file |-> b.file]
  <1>2. ASSUME NEW v \in events'
        PROVE  \E b \in batch \ {Wake} : Current(b) /\ v = Event(b)
    BY Zenon DEF FilterBatch
  <1>3. Types'
    <2>1. events' \subseteq PollEvent
      <3> SUFFICES ASSUME NEW v \in events' PROVE v \in PollEvent
        OBVIOUS
      <3>1. PICK b \in batch \ {Wake} : v = Event(b)
        BY <1>2
      <3>2. b \in BatchEvent
        BY <1>1 DEF Types
      <3>3. from_epoll_events(b.ready) \in SUBSET Events
        BY DEF from_epoll_events
      <3> QED
        BY <3>1, <3>2, <3>3 DEF BatchEvent, PollEvent
    <2> QED
      BY <1>1, <2>1 DEF Types, FilterBatch, tableVars, waitVars
  <1>4. RegistrationsMatchWaits'
    BY <1>1 DEF RegistrationsMatchWaits, FilterBatch, tableVars, waitVars
  <1>5. ClosingIsIdle'
    BY <1>1 DEF ClosingIsIdle, FilterBatch, waitVars, Waiting, WaitedFor
  <1>6. BatchInv'
    BY DEF BatchInv, FilterBatch
  <1>7. EventsInv'
    <2> SUFFICES ASSUME NEW v \in events' PROVE v.file = file'[v.fd]
      BY DEF EventsInv
    <2>1. PICK b \in batch \ {Wake} : Current(b) /\ v = Event(b)
      BY <1>2
    <2>2. b.file = file[b.fd]
      BY <1>1, <2>1, CurrentIsOwn DEF FilterBatch
    <2>3. v.file = b.file /\ v.fd = b.fd
      BY <2>1
    <2> QED
      BY <2>2, <2>3 DEF FilterBatch
  <1> QED
    BY <1>3, <1>4, <1>5, <1>6, <1>7 DEF EpollInv

\* Tasks leave the wait table.
LEMMA WakesKeep ==
    ASSUME EpollInv, Types', NEW ready, wake_waiting_tasks_locked(ready),
           UNCHANGED <<open, file, cycles>>,
           \A fd \in closing' : fd \in closing \/ ~ Waiting(fd)',
           pc' = "returned" => pc = "returned" /\ batch' = batch,
           pc' = "filtered" => pc = "filtered" /\ events' = events /\ newer' = newer
    PROVE  EpollInv'
  <1>1. Types /\ RegistrationsMatchWaits /\ ClosingIsIdle
    BY DEF EpollInv
  <1>2. \A fd \in Fds : Matches(fd)
    BY <1>1, MatchesAll
  <1>3. \A fd \in Fds : Fewer(fd)
    BY <1>1, WakeStep
  <1>4. aborted' = FALSE /\ fd_table_capacity' = fd_table_capacity
    BY <1>1, WakeStep
  <1>5. RegistrationsMatchWaits'
    <2>1. ASSUME NEW fd \in Fds PROVE Matches(fd)'
      <3>1. Fewer(fd) /\ Matches(fd)
        BY <1>2, <1>3
      <3>2. Waiting(fd)' => fd \in open' /\ fd < fd_table_capacity'
        BY <1>4, <3>1 DEF Fewer, Matches
      <3> QED
        BY <3>1, <3>2, Zenon DEF Fewer, Matches
    <2> QED
      BY <1>4, <2>1, MatchesAllNext
  <1>6. ClosingIsIdle'
    BY <1>1, <1>3 DEF ClosingIsIdle, Types, Fewer
  <1>7. BatchInv'
    <2>1. CASE pc' = "returned"
      <3>1. cycles' >= cycles
        BY <1>1 DEF Types
      <3>2. \A fd \in Fds : SameGeneration(fd) \/ NewGeneration(fd)
        BY <1>3, <3>1 DEF SameGeneration, NewGeneration, Fewer
      <3> QED
        BY <1>1, <2>1, <3>2, BatchStep DEF EpollInv
    <2>2. CASE pc' # "returned"
      BY <2>2 DEF BatchInv
    <2> QED
      BY <2>1, <2>2
  <1>8. EventsInv'
    <2>1. CASE pc' = "filtered"
      <3>1. ASSUME NEW fd \in Fds, NEW e \in Events, waits'[fd][e] \in Tasks \ newer'
            PROVE  waits[fd][e] \in Tasks \ newer /\ file'[fd] = file[fd]
        <4>1. waits'[fd][e] \in {waits[fd][e], NoTask}
          BY <1>3 DEF Fewer
        <4> QED
          BY <2>1, <3>1, <4>1, EpollAssumption
      <3> QED
        BY <1>1, <2>1, <3>1, EventsStep DEF EpollInv
    <2>2. CASE pc' # "filtered"
      BY <2>2 DEF EventsInv
    <2> QED
      BY <2>1, <2>2
  <1> QED
    BY <1>5, <1>6, <1>7, <1>8 DEF EpollInv

\* The events are delivered.
LEMMA DeliverStep ==
    ASSUME EpollInv, DeliverEvents
    PROVE  EpollInv'
  <1> DEFINE ready == [fd \in Fds |-> UNION {v.events : v \in {u \in events : u.fd = fd}}]
  <1>1. Types /\ RegistrationsMatchWaits
    BY DEF EpollInv
  <1>2. wake_waiting_tasks_locked(ready)
    BY Zenon DEF DeliverEvents
  <1> HIDE DEF ready
  <1>3. Types'
    <2>1. /\ aborted' = FALSE
          /\ fd_table_capacity' = fd_table_capacity
          /\ waits' \in [Fds -> [Events -> Tasks \cup {NoTask}]]
          /\ fd_generations' \in [Fds -> 0 .. GenerationMod - 1]
          /\ fd_registered' \in [Fds -> BOOLEAN]
          /\ interest' \in [Fds -> Interest]
      BY <1>1, <1>2, WakeStep, Zenon
    <2> QED
      BY <1>1, <2>1 DEF Types, DeliverEvents
  <1> QED
    BY <1>2, <1>3, WakesKeep DEF DeliverEvents

\* A descriptor is forgotten: nobody waits for it any more.
LEMMA ForgetStep ==
    ASSUME EpollInv, NEW fd \in Fds, worker_forget_fd(fd)
    PROVE  EpollInv'
  <1>1. Types /\ RegistrationsMatchWaits
    BY DEF EpollInv
  <1>2. wake_waiting_tasks_locked(Forgotten(fd))
    BY DEF worker_forget_fd
  <1>3. ~ Waiting(fd)'
    <2>1. Forgotten(fd)[fd] = Events
      BY DEF Forgotten
    <2>2. \A f \in Fds : \A e \in Events \cap Forgotten(fd)[f] : waits'[f][e] = NoTask
      BY <1>1, <1>2, WakeStep
    <2> QED
      BY <2>1, <2>2 DEF Waiting, WaitedFor, io_wait_entry_events
  <1>4. closing' \subseteq closing \cup {fd}
    BY DEF worker_forget_fd
  <1>5. Types'
    <2>1. /\ aborted' = FALSE
          /\ fd_table_capacity' = fd_table_capacity
          /\ waits' \in [Fds -> [Events -> Tasks \cup {NoTask}]]
          /\ fd_generations' \in [Fds -> 0 .. GenerationMod - 1]
          /\ fd_registered' \in [Fds -> BOOLEAN]
          /\ interest' \in [Fds -> Interest]
      BY <1>1, <1>2, WakeStep, Zenon
    <2> QED
      BY <1>1, <1>4, <2>1 DEF Types, worker_forget_fd, pollVars
  <1>6. \A f \in closing' : f \in closing \/ ~ Waiting(f)'
    BY <1>3, <1>4
  <1> QED
    BY <1>2, <1>5, <1>6, WakesKeep DEF worker_forget_fd, pollVars

\* A task parks, or is refused.
LEMMA ParkStep ==
    ASSUME EpollInv, NEW t \in Tasks, NEW fd \in Fds, NEW e \in WaitFor,
           worker_park_current_on_io(t, fd, e)
    PROVE  EpollInv'
  <1> DEFINE new == WaitedFor(fd) \cup {e}
             fresh == ~ Waiting(fd) /\ pc = "returned"
  <1>1. Types /\ RegistrationsMatchWaits /\ ClosingIsIdle /\ BatchInv /\ EventsInv
    BY DEF EpollInv
  <1>2. /\ fd \in open \ closing
        /\ waits[fd][e] = NoTask
        /\ fresh => cycles < MaxRegistrations
        /\ cycles' = IF fresh THEN cycles + 1 ELSE cycles
        /\ UNCHANGED <<open, file, conditions, aborted, pollVars, closing>>
    BY DEF worker_park_current_on_io, WaitedFor, Waiting
  <1>3. PICK o \in croutine_poller_set(fd, WaitedFor(fd), new) :
              /\ fd_table_capacity' = o.capacity
              /\ fd_generations' = [fd_generations EXCEPT ![fd] = o.generation]
              /\ fd_registered' = [fd_registered EXCEPT ![fd] = o.registered]
              /\ interest' = [interest EXCEPT ![fd] = o.interest]
              /\ IF o.ok
                 THEN /\ waits' = [waits EXCEPT ![fd][e] = t]
                      /\ newer' = IF pc = "filtered" THEN newer \cup {t} ELSE newer
                 ELSE UNCHANGED <<waits, newer>>
    BY Zenon DEF worker_park_current_on_io, NewEvents, WaitedFor
  <1>4. \A f \in Fds : Matches(f)
    BY <1>1, MatchesAll
  <1>5. e \in Events /\ e \notin WaitedFor(fd) /\ WaitedFor(fd) \subseteq Events
    BY <1>2, EpollAssumption DEF WaitedFor, io_wait_entry_events
  <1>6. new # {} /\ new # WaitedFor(fd)
    BY <1>5
  <1>7. /\ o.capacity \in Nat /\ fd_table_capacity <= o.capacity
        /\ o.generation \in {fd_generations[fd], NextGeneration(fd)}
        /\ Waiting(fd) => o.generation = fd_generations[fd]
        /\ o.ok => /\ o.interest = Interested(new, o.generation)
                   /\ o.registered = TRUE
                   /\ fd < o.capacity
                   /\ ~ Waiting(fd) => o.generation = NextGeneration(fd)
        /\ ~ o.ok => o.interest = interest[fd] /\ o.registered = fd_registered[fd]
    <2> HIDE DEF new
    <2>1. fd \in open
      BY <1>2
    <2> QED
      BY <1>1, <1>3, <1>4, <1>6, <2>1, ParkOutcome, Zenon
  <1>8. /\ fd_generations \in [Fds -> 0 .. GenerationMod - 1]
        /\ fd_registered \in [Fds -> BOOLEAN]
        /\ interest \in [Fds -> Interest]
        /\ waits \in [Fds -> [Events -> Tasks \cup {NoTask}]]
    BY <1>1 DEF Types
  \* The tables of this descriptor and of the others.
  <1>9. /\ fd_generations'[fd] = o.generation
        /\ fd_registered'[fd] = o.registered
        /\ interest'[fd] = o.interest
        /\ \A f \in Fds \ {fd} : /\ fd_generations'[f] = fd_generations[f]
                                 /\ fd_registered'[f] = fd_registered[f]
                                 /\ interest'[f] = interest[f]
    BY <1>3, <1>8
  <1>10. /\ \A f \in Fds \ {fd} : waits'[f] = waits[f]
         /\ o.ok => /\ waits'[fd][e] = t
                    /\ \A g \in Events \ {e} : waits'[fd][g] = waits[fd][g]
         /\ ~ o.ok => waits'[fd] = waits[fd]
    BY <1>3, <1>5, <1>8
  <1>11. t # NoTask
    BY EpollAssumption
  <1>12. /\ \A f \in Fds \ {fd} : WaitedFor(f)' = WaitedFor(f) /\ (Waiting(f)' <=> Waiting(f))
         /\ o.ok => (WaitedFor(fd)' = new) /\ Waiting(fd)'
         /\ ~ o.ok => (WaitedFor(fd)' = WaitedFor(fd)) /\ (Waiting(fd)' <=> Waiting(fd))
    <2>1. \A f \in Fds \ {fd} : WaitedFor(f)' = WaitedFor(f) /\ (Waiting(f)' <=> Waiting(f))
      BY <1>10, Zenon DEF WaitedFor, Waiting
    <2>2. ASSUME o.ok PROVE (WaitedFor(fd)' = new) /\ Waiting(fd)'
      <3>1. WaitedFor(fd)' = new
        BY <1>5, <1>10, <1>11, <2>2 DEF WaitedFor, io_wait_entry_events
      <3> QED
        BY <1>6, <3>1, Zenon DEF Waiting
    <2>3. ASSUME ~ o.ok PROVE (WaitedFor(fd)' = WaitedFor(fd)) /\ (Waiting(fd)' <=> Waiting(fd))
      BY <1>10, <2>3, Zenon DEF WaitedFor, Waiting
    <2> QED
      BY <2>1, <2>2, <2>3, Zenon
  <1> HIDE DEF new
  <1>13. Types'
    <2>1. fd_generations' \in [Fds -> 0 .. GenerationMod - 1]
      <3>1. o.generation \in 0 .. GenerationMod - 1
        BY <1>1, <1>7, <1>8, NextGenerationType
      <3> QED
        BY <1>3, <1>8, <3>1, Zenon
    <2>2. fd_registered' \in [Fds -> BOOLEAN]
      <3>1. o.registered \in BOOLEAN
        BY <1>7, <1>8, Zenon
      <3> QED
        BY <1>3, <1>8, <3>1
    <2>3. interest' \in [Fds -> Interest]
      <3>1. new \in SUBSET Events
        BY <1>5 DEF new
      <3>2. Interested(new, o.generation) = [events |-> new, generation |-> o.generation]
        BY <1>6, Zenon DEF Interested
      <3>3. o.generation \in 0 .. GenerationMod - 1
        BY <1>1, <1>7, <1>8, NextGenerationType
      <3>4. Interested(new, o.generation) \in Interest
        BY <3>1, <3>2, <3>3, InterestType, Zenon
      <3>5. o.interest \in Interest
        BY <1>7, <1>8, <3>4, Zenon
      <3> QED
        BY <1>3, <1>8, <3>5
    <2>4. waits' \in [Fds -> [Events -> Tasks \cup {NoTask}]] /\ newer' \subseteq Tasks
      <3>1. newer \subseteq Tasks
        BY <1>1 DEF Types
      <3>2. CASE o.ok
        <4>1. waits' = [waits EXCEPT ![fd][e] = t] /\ newer' \subseteq newer \cup {t}
          BY <1>3, <3>2
        <4> QED
          BY <1>5, <1>8, <3>1, <4>1
      <3>3. CASE ~ o.ok
        <4>1. waits' = waits /\ newer' = newer
          BY <1>3, <3>3
        <4> QED
          BY <1>8, <3>1, <4>1
      <3> QED
        BY <3>2, <3>3
    <2>5. cycles' \in 0 .. MaxRegistrations
      BY <1>1, <1>2, EpollAssumption DEF Types
    <2>6. fd_table_capacity' \in Nat
      BY <1>3, <1>7, Zenon
    <2> QED
      BY <1>1, <1>2, <2>1, <2>2, <2>3, <2>4, <2>5, <2>6 DEF Types, pollVars
  <1>14. RegistrationsMatchWaits'
    <2>1. ASSUME NEW f \in Fds PROVE Matches(f)'
      <3>1. Matches(f)
        BY <1>4
      <3>2. ASSUME NEW x \in Nat, x < fd_table_capacity PROVE x < fd_table_capacity'
        <4>1. fd_table_capacity' \in Nat /\ fd_table_capacity <= fd_table_capacity'
          BY <1>3, <1>7, Zenon
        <4> QED
          BY <1>1, <3>2, <4>1 DEF Types
      <3>3. f \in Nat /\ open' = open
        BY <1>2, EpollAssumption
      <3>4. CASE f # fd
        <4>1. /\ fd_generations'[f] = fd_generations[f]
              /\ fd_registered'[f] = fd_registered[f]
              /\ interest'[f] = interest[f]
              /\ (WaitedFor(f)' = WaitedFor(f)) /\ (Waiting(f)' <=> Waiting(f))
          BY <1>9, <1>12, <3>4, Zenon
        <4> QED
          BY <3>1, <3>2, <3>3, <4>1, Zenon DEF Matches
      <3>5. CASE f = fd /\ o.ok
        <4>1. interest'[fd] = Interested(WaitedFor(fd)', fd_generations'[fd])
          BY <1>7, <1>9, <1>12, <3>5, Zenon
        <4>2. fd_registered'[fd] <=> Waiting(fd)'
          BY <1>7, <1>9, <1>12, <3>5, Zenon
        <4>3. fd \in open' /\ fd < fd_table_capacity'
          BY <1>2, <1>3, <1>7, <3>5
        <4> QED
          BY <3>5, <4>1, <4>2, <4>3, Zenon DEF Matches
      <3>6. CASE f = fd /\ ~ o.ok
        <4>1. /\ interest'[fd] = interest[fd] /\ fd_registered'[fd] = fd_registered[fd]
              /\ (WaitedFor(fd)' = WaitedFor(fd)) /\ (Waiting(fd)' <=> Waiting(fd))
          BY <1>7, <1>9, <1>12, <3>6, Zenon
        <4>2. Waiting(fd) => fd_generations'[fd] = fd_generations[fd]
          BY <1>7, <1>9, Zenon
        <4>3. interest'[fd] = Interested(WaitedFor(fd)', fd_generations'[fd])
          BY <3>1, <3>6, <4>1, <4>2, Zenon DEF Matches, Interested, Waiting
        <4> QED
          BY <3>1, <3>2, <3>3, <3>6, <4>1, <4>3, Zenon DEF Matches
      <3> QED
        BY <3>4, <3>5, <3>6, Zenon
    <2>2. ~ aborted'
      BY <1>1, <1>2, MatchesAll
    <2> QED
      BY <1>13, <2>1, <2>2, MatchesAllNext
  <1>15. ClosingIsIdle'
    <2>1. \A f \in closing : f \in Fds \ {fd}
      BY <1>1, <1>2 DEF Types
    <2> QED
      BY <1>1, <1>2, <1>12, <2>1 DEF ClosingIsIdle
  <1>16. BatchInv'
    <2>1. CASE pc = "returned"
      <3>1. cycles \in Nat
        BY <1>1 DEF Types
      <3>2. cycles' >= cycles
        BY <1>2, <3>1
      <3>3. ASSUME NEW f \in Fds PROVE SameGeneration(f) \/ NewGeneration(f)
        <4>1. file' = file
          BY <1>2
        <4>2. CASE f # fd
          BY <1>9, <1>12, <3>2, <4>1, <4>2 DEF SameGeneration
        <4>3. CASE f = fd /\ Waiting(fd)
          <5>1. fd_generations'[fd] = fd_generations[fd]
            BY <1>7, <1>9, <4>3, Zenon
          <5>2. Waiting(fd)'
            BY <1>12, <4>3, Zenon
          <5> QED
            BY <3>2, <4>1, <4>3, <5>1, <5>2 DEF SameGeneration
        <4>4. CASE f = fd /\ ~ Waiting(fd) /\ fd_generations'[fd] = NextGeneration(fd)
          <5>1. cycles' = cycles + 1
            BY <1>2, <2>1, <4>4
          <5> QED
            BY <4>4, <5>1 DEF NewGeneration
        <4>5. CASE f = fd /\ ~ Waiting(fd) /\ fd_generations'[fd] # NextGeneration(fd)
          <5>1. fd_generations'[fd] = fd_generations[fd] /\ ~ o.ok
            BY <1>7, <1>9, <4>5, Zenon
          <5>2. ~ Waiting(fd)'
            BY <1>12, <4>5, <5>1, Zenon
          <5> QED
            BY <3>2, <4>1, <4>5, <5>1, <5>2 DEF SameGeneration
        <4> QED
          BY <4>2, <4>3, <4>4, <4>5, Zenon
      <3> QED
        BY <1>1, <1>2, <1>13, <2>1, <3>3, BatchStep DEF pollVars
    <2>2. CASE pc # "returned"
      BY <1>2, <2>2 DEF BatchInv, pollVars
    <2> QED
      BY <2>1, <2>2
  <1>17. EventsInv'
    <2>1. CASE pc = "filtered"
      <3>1. ASSUME NEW f \in Fds, NEW g \in Events, waits'[f][g] \in Tasks \ newer'
            PROVE  waits[f][g] \in Tasks \ newer /\ file'[f] = file[f]
        <4>1. newer \subseteq newer' /\ (o.ok => t \in newer')
          BY <1>3, <2>1
        <4>2. waits'[f][g] = waits[f][g] \/ (o.ok /\ waits'[f][g] = t)
          BY <1>10
        <4> QED
          BY <1>2, <3>1, <4>1, <4>2
      <3> QED
        BY <1>1, <1>2, <2>1, <3>1, EventsStep DEF pollVars
    <2>2. CASE pc # "filtered"
      BY <1>2, <2>2 DEF EventsInv, pollVars
    <2> QED
      BY <2>1, <2>2
  <1> QED
    BY <1>13, <1>14, <1>15, <1>16, <1>17 DEF EpollInv
-----------------------------------------------------------------------------
(***************************************************************************)
(* The theorems.                                                           *)
(***************************************************************************)
\* The invariant holds after croutine_poller_init.
LEMMA InvAtInit == Init => EpollInv
  <1> SUFFICES ASSUME Init PROVE EpollInv
    OBVIOUS
  <1>1. Types
    <2>1. 0 \in 0 .. GenerationMod - 1 /\ 0 \in 0 .. MaxFiles /\ 0 \in 0 .. MaxRegistrations
      BY EpollAssumption
    <2>2. NoInterest \in Interest
      BY <2>1 DEF NoInterest, Interest
    <2> QED
      BY <2>1, <2>2 DEF Init, Types
  <1>2. \A fd \in Fds : ~ Waiting(fd)
    BY DEF Init, Waiting, WaitedFor, io_wait_entry_events
  <1>3. RegistrationsMatchWaits
    <2>1. \A fd \in Fds : Matches(fd)
      BY <1>2 DEF Init, Matches, Interested, Waiting
    <2> QED
      BY <1>1, <2>1, MatchesAll DEF Init
  <1>4. ClosingIsIdle /\ BatchInv /\ EventsInv
    BY DEF Init, ClosingIsIdle, BatchInv, EventsInv
  <1> QED
    BY <1>1, <1>3, <1>4 DEF EpollInv

\* Every step keeps it.
LEMMA InvAtNext == EpollInv /\ [Next]_vars => EpollInv'
  <1> SUFFICES ASSUME EpollInv, [Next]_vars PROVE EpollInv'
    OBVIOUS
  <1>1. CASE BeginPoll
    BY <1>1, BeginPollStep
  <1>2. CASE EpollWait
    BY <1>2, EpollWaitStep
  <1>3. CASE FilterBatch
    BY <1>3, FilterStep
  <1>4. CASE DeliverEvents
    BY <1>4, DeliverStep
  <1>5. CASE croutine_poller_wake
    BY <1>5, PollerWakeStep
  <1>6. ASSUME NEW fd \in Fds, worker_forget_fd(fd) PROVE EpollInv'
    BY <1>6, ForgetStep
  <1>7. ASSUME NEW fd \in Fds, CloseFd(fd) PROVE EpollInv'
    BY <1>7, CloseStep
  <1>8. ASSUME NEW fd \in Fds, OpenFd(fd) PROVE EpollInv'
    BY <1>8, OpenStep
  <1>9. ASSUME NEW fd \in Fds, NEW c \in Conditions, ConditionChanges(fd, c) PROVE EpollInv'
    BY <1>9, ConditionStep
  <1>10. ASSUME NEW fd \in Fds, NEW t \in Tasks, NEW e \in WaitFor,
                worker_park_current_on_io(t, fd, e)
         PROVE  EpollInv'
    BY <1>10, ParkStep
  <1>11. CASE UNCHANGED vars
    <2>1. Types'
      BY <1>11 DEF EpollInv, Types, vars, kernelVars, tableVars, waitVars, pollVars
    <2> QED
      BY <1>11, <2>1, QuietStep DEF vars, kernelVars, tableVars, waitVars, pollVars
  <1> QED
    BY <1>1, <1>2, <1>3, <1>4, <1>5, <1>6, <1>7, <1>8, <1>9, <1>10, <1>11
    DEF Next, PollStep

\* The inductive invariant of the wait table, the registrations with the epoll
\* instance and the batch that a worker holds.
THEOREM EpollInvariant == Spec => []EpollInv
  BY InvAtInit, InvAtNext, PTL DEF Spec

\* croutine_poller_set and worker.c never disagree: the kernel watches exactly
\* what tasks wait for, with the current generation, and no wakeup of
\* wake_waiting_tasks_locked fails and aborts.
THEOREM EpollRegistrationsMatchWaits == Spec => []RegistrationsMatchWaits
  <1>1. EpollInv => RegistrationsMatchWaits
    BY DEF EpollInv
  <1> QED
    BY <1>1, EpollInvariant, PTL

\* The generations that croutine_poller_wait compares keep the readiness of a
\* file that was closed from the tasks that waited at that moment.
THEOREM EpollToldOfOwnFile == Spec => ToldOfOwnFile
  <1> DEFINE Told == DeliverEvents => \A v \in events : \A e \in v.events :
                        waits[v.fd][e] \in Tasks \ newer => v.file = file[v.fd]
  <1>1. EpollInv => Told
    <2> SUFFICES ASSUME EpollInv, DeliverEvents, NEW v \in events, NEW e \in v.events,
                        waits[v.fd][e] \in Tasks \ newer
                 PROVE  v.file = file[v.fd]
      OBVIOUS
    <2>1. e \in Events
      BY DEF EpollInv, Types, PollEvent
    <2> QED
      BY <2>1 DEF EpollInv, EventsInv, DeliverEvents
  <1>2. EpollInv /\ [Next]_vars => [Told]_vars
    BY <1>1
  <1> QED
    BY <1>2, EpollInvariant, PTL DEF Spec, ToldOfOwnFile
=============================================================================
