--------------------------- MODULE WaitTableProofs ---------------------------
(***************************************************************************)
(* The table of the waiting tasks is a map, however often it grows, for    *)
(* any descriptors, any tasks and any initial capacity.  At the end: the   *)
(* I/O helpers, which wait in it, report the error that ended their call.  *)
(***************************************************************************)
EXTENDS WaitTable, IoHelpers, FiniteSetTheorems, WellFoundedInduction, TLAPS

TableType(T) == /\ T = Table(T.entries, T.capacity, T.count)
                /\ T.capacity \in Nat
                /\ T.count \in Nat
                /\ T.entries \in [1 .. T.capacity -> IoWaitEntry]

\* A table between two of its operations.
GoodTable(T) ==
    /\ TableType(T)
    /\ T.count = Cardinality(InUse(T))
    /\ \A i \in InUse(T) : T.entries[i].fd \in Fds
    /\ \A i, j \in InUse(T) : T.entries[i].fd = T.entries[j].fd => i = j

\* The entries in use; where they are in the array does not matter.
Used(T) == {T.entries[i] : i \in InUse(T)}

\* The entry that io_wait_table_get_or_insert makes.
Fresh(fd) == [in_use |-> TRUE, fd |-> fd, task |-> Nobody]

(***************************************************************************)
(* Facts about numbers and finite sets.                                    *)
(***************************************************************************)
\* A set of numbers that is not empty has a least one.
LEMMA FirstExists ==
    ASSUME NEW S \in SUBSET Nat, S # {}
    PROVE  First(S) \in S /\ \A j \in S : First(S) <= j
  <1> DEFINE Below(i) == {j \in S : j <= i}
             Family == {Below(i) : i \in S}
  <1>1. \A i \in S : IsFiniteSet(Below(i))
    BY FS_BoundedSetOfNaturals
  <1>2. Family \subseteq FiniteSubsetsOf(Nat) /\ Family # {}
    BY <1>1, Zenon DEF FiniteSubsetsOf
  <1>3. PICK X \in Family : \A Y \in Family : ~ (<<Y, X>> \in StrictSubsetOrdering(Nat))
    <2> HIDE DEF Family
    <2> QED
      BY <1>2, FS_StrictSubsetOrderingWellFounded, WFMin
  <1>4. PICK i \in S : X = Below(i)
    OBVIOUS
  <1>5. \A j \in S : i <= j
    <2> SUFFICES ASSUME NEW j \in S, ~ (i <= j) PROVE FALSE
      OBVIOUS
    <2>1. Below(j) \subseteq Below(i) /\ Below(j) # Below(i)
      <3>1. i \in Below(i) /\ i \notin Below(j)
        OBVIOUS
      <3>2. \A x \in S : x <= j => x <= i
        OBVIOUS
      <3>3. Below(j) \subseteq Below(i)
        BY <3>2, Zenon
      <3> QED
        BY <3>1, <3>3
    <2>2. <<Below(j), Below(i)>> \in StrictSubsetOrdering(Nat)
      BY <2>1, <1>1, Zenon DEF StrictSubsetOrdering
    <2> QED
      BY <2>2, <1>3, <1>4, Zenon
  <1> QED
    BY <1>5, Zenon DEF First

\* The entries in use are a finite set.
LEMMA InUseFinite ==
    ASSUME NEW T, T.capacity \in Nat
    PROVE  /\ IsFiniteSet(InUse(T))
           /\ Cardinality(InUse(T)) \in Nat
           /\ Cardinality(InUse(T)) <= T.capacity
           /\ Cardinality(InUse(T)) = T.capacity <=> InUse(T) = 1 .. T.capacity
  <1>1. IsFiniteSet(1 .. T.capacity) /\ Cardinality(1 .. T.capacity) = T.capacity
    BY FS_Interval
  <1>2. InUse(T) \in SUBSET (1 .. T.capacity)
    BY DEF InUse
  <1> QED
    BY <1>1, <1>2, FS_Subset, FS_CardinalityType

(***************************************************************************)
(* The operations on a table.                                              *)
(***************************************************************************)
\* io_wait_table_find finds the one entry of the descriptor.
LEMMA FindFacts ==
    ASSUME NEW T, GoodTable(T), NEW fd \in Fds
    PROVE  LET i == io_wait_table_find(T, fd)
           IN  \/ i = 0 /\ \A u \in Used(T) : u.fd # fd
               \/ i # 0 /\ i \in InUse(T) /\ T.entries[i].fd = fd
  <1> DEFINE here == {i \in InUse(T) : T.entries[i].fd = fd}
  <1>1. CASE here = {}
    BY <1>1 DEF io_wait_table_find, Used
  <1>2. CASE here # {}
    <2>1. here \in SUBSET Nat /\ \A i \in here : i # 0
      BY DEF GoodTable, TableType, InUse
    <2>2. io_wait_table_find(T, fd) = First(here) /\ First(here) \in here
      <3> HIDE DEF here
      <3>1. First(here) \in here
        BY <1>2, <2>1, FirstExists
      <3> QED
        BY <1>2, <3>1 DEF io_wait_table_find, here
    <2> QED
      BY <2>1, <2>2
  <1> QED
    BY <1>1, <1>2

\* The loop of io_wait_table_get_or_insert finds a place if the count says so.
LEMMA InsertFacts ==
    ASSUME NEW T, GoodTable(T), NEW fd \in Fds, T.count # T.capacity,
           \A u \in Used(T) : u.fd # fd
    PROVE  LET r == Insert(T, fd)
           IN  /\ r.at # 0 /\ r.at \in InUse(r.table)
               /\ r.table.entries[r.at] = Fresh(fd)
               /\ GoodTable(r.table)
               /\ Used(r.table) = Used(T) \cup {Fresh(fd)}
  <1> DEFINE free == 1 .. T.capacity \ InUse(T)
             i == First(free)
             N == Table([T.entries EXCEPT ![i] = Fresh(fd)], T.capacity, T.count + 1)
  <1>1. free # {}
    BY InUseFinite DEF GoodTable, TableType, InUse
  <1>2. i \in free
    <2>1. free \in SUBSET Nat
      BY DEF GoodTable, TableType
    <2> HIDE DEF free
    <2> QED
      BY <1>1, <2>1, FirstExists
  <1>3. Insert(T, fd) = [table |-> N, at |-> i]
    BY <1>1 DEF Insert, Fresh
  <1> HIDE DEF i
  <1>4. i \in 1 .. T.capacity /\ i \notin InUse(T) /\ i # 0
    BY <1>2 DEF GoodTable, TableType
  <1>5. /\ N.capacity = T.capacity /\ N.count = T.count + 1
        /\ N.entries = [T.entries EXCEPT ![i] = Fresh(fd)]
    BY DEF Table
  <1>6. Fresh(fd) \in IoWaitEntry /\ Fresh(fd).in_use /\ Fresh(fd).fd = fd
    BY DEF Fresh, IoWaitEntry, Nobody
  <1>7. TableType(N)
    BY <1>4, <1>5, <1>6 DEF GoodTable, TableType, Table
  <1> HIDE DEF N
  <1>8. /\ N.entries[i] = Fresh(fd)
        /\ \A j \in 1 .. T.capacity : j # i => N.entries[j] = T.entries[j]
    BY <1>4, <1>5 DEF GoodTable, TableType
  <1>9. InUse(N) = InUse(T) \cup {i}
    BY <1>4, <1>5, <1>6, <1>8 DEF InUse
  <1>10. Used(N) = Used(T) \cup {Fresh(fd)}
    <2>1. \A j \in InUse(T) : N.entries[j] = T.entries[j]
      BY <1>4, <1>8 DEF InUse
    <2> QED
      BY <1>8, <1>9, <2>1 DEF Used
  <1>11. N.count = Cardinality(InUse(N))
    <2>1. IsFiniteSet(InUse(T)) /\ T.count = Cardinality(InUse(T))
      BY InUseFinite DEF GoodTable, TableType
    <2> QED
      BY <1>4, <1>5, <1>9, <2>1, FS_AddElement, Zenon
  <1>12. \A j \in InUse(T) : N.entries[j] = T.entries[j] /\ T.entries[j].fd # fd
    BY <1>4, <1>8 DEF InUse, Used
  <1>13. GoodTable(N)
    BY <1>6, <1>7, <1>8, <1>9, <1>11, <1>12 DEF GoodTable
  <1> QED
    BY <1>3, <1>4, <1>8, <1>9, <1>10, <1>13

\* io_wait_table_remove_entry takes one entry out.
LEMMA RemoveFacts ==
    ASSUME NEW T, GoodTable(T), NEW i \in InUse(T)
    PROVE  /\ GoodTable(io_wait_table_remove_entry(T, i))
           /\ Used(io_wait_table_remove_entry(T, i)) = Used(T) \ {T.entries[i]}
  <1> DEFINE N == io_wait_table_remove_entry(T, i)
  <1>1. i \in 1 .. T.capacity
    BY DEF InUse
  <1>2. /\ IsFiniteSet(InUse(T)) /\ Cardinality(InUse(T)) = T.count
        /\ T.count \in Nat /\ T.count > 0
    <2>1. IsFiniteSet(InUse(T)) /\ Cardinality(InUse(T)) = T.count /\ T.count \in Nat
      BY InUseFinite DEF GoodTable, TableType
    <2> QED
      BY <2>1, FS_EmptySet
  <1>3. /\ N.capacity = T.capacity /\ N.count = T.count - 1
        /\ N.entries = [T.entries EXCEPT ![i] = EmptyEntry]
    BY <1>2 DEF io_wait_table_remove_entry, Table
  <1>4. EmptyEntry \in IoWaitEntry /\ ~ EmptyEntry.in_use
    BY DEF EmptyEntry, IoWaitEntry, Nobody
  <1>5. TableType(N)
    BY <1>1, <1>2, <1>3, <1>4 DEF GoodTable, TableType, Table, io_wait_table_remove_entry
  <1> HIDE DEF N
  <1>6. /\ N.entries[i] = EmptyEntry
        /\ \A j \in 1 .. T.capacity : j # i => N.entries[j] = T.entries[j]
    BY <1>1, <1>3 DEF GoodTable, TableType
  <1>7. InUse(N) = InUse(T) \ {i}
    BY <1>1, <1>3, <1>4, <1>6 DEF InUse
  <1>8. \A j \in InUse(N) : N.entries[j] = T.entries[j] /\ j \in InUse(T)
    BY <1>6, <1>7 DEF InUse
  <1>9. Used(N) = Used(T) \ {T.entries[i]}
    BY <1>7, <1>8 DEF Used, GoodTable
  <1>10. N.count = Cardinality(InUse(N))
    BY <1>2, <1>3, <1>7, FS_RemoveElement, Zenon
  <1>11. GoodTable(N)
    BY <1>5, <1>8, <1>10 DEF GoodTable
  <1> QED
    BY <1>9, <1>11 DEF N

\* io_wait_entry_set_task and _clear_task change one entry in its place.
LEMMA SetTaskFacts ==
    ASSUME NEW T, GoodTable(T), NEW i \in InUse(T),
           NEW task \in [Events -> Tasks \cup {NoTask}]
    PROVE  /\ GoodTable(SetTask(T, i, task))
           /\ Used(SetTask(T, i, task)) =
                 (Used(T) \ {T.entries[i]}) \cup {[T.entries[i] EXCEPT !.task = task]}
  <1> DEFINE N == SetTask(T, i, task)
             new == [T.entries[i] EXCEPT !.task = task]
  <1>1. i \in 1 .. T.capacity /\ T.entries[i] \in IoWaitEntry /\ T.entries[i].in_use
    BY DEF InUse, GoodTable, TableType
  <1>2. /\ N.capacity = T.capacity /\ N.count = T.count
        /\ N.entries = [T.entries EXCEPT ![i] = new]
    BY DEF SetTask, Table
  <1>3. new \in IoWaitEntry /\ new.in_use /\ new.fd = T.entries[i].fd
    BY <1>1 DEF IoWaitEntry
  <1>4. TableType(N)
    BY <1>1, <1>2, <1>3 DEF GoodTable, TableType, Table, SetTask
  <1> HIDE DEF N, new
  <1>5. /\ N.entries[i] = new
        /\ \A j \in 1 .. T.capacity : j # i => N.entries[j] = T.entries[j]
    BY <1>1, <1>2 DEF GoodTable, TableType
  <1>6. InUse(N) = InUse(T)
    BY <1>1, <1>2, <1>3, <1>5 DEF InUse
  <1>7. \A j \in InUse(T) : j # i => N.entries[j] = T.entries[j]
    BY <1>5 DEF InUse
  <1>8. Used(N) = (Used(T) \ {T.entries[i]}) \cup {new}
    BY <1>5, <1>6, <1>7 DEF Used, GoodTable
  <1>9. GoodTable(N)
    BY <1>2, <1>3, <1>4, <1>5, <1>6, <1>7 DEF GoodTable
  <1> QED
    BY <1>8, <1>9 DEF N, new

\* io_wait_table_grow packs the entries in their order: no two get one place, and
\* none falls off the end.
LEMMA PackedFacts ==
    ASSUME NEW T, T.capacity \in Nat
    PROVE  /\ \A i \in InUse(T) : Packed(T, i) \in 1 .. T.capacity
           /\ \A i, j \in InUse(T) : Packed(T, i) = Packed(T, j) => i = j
  <1> DEFINE upto(i) == {j \in InUse(T) : j <= i}
  <1>1. InUse(T) \subseteq 1 .. T.capacity
    BY DEF InUse
  <1>2. ASSUME NEW i \in InUse(T)
        PROVE  /\ IsFiniteSet(upto(i)) /\ i \in upto(i)
               /\ Packed(T, i) = Cardinality(upto(i))
               /\ Packed(T, i) \in 1 .. T.capacity
    <2>1. upto(i) \in SUBSET InUse(T) /\ i \in upto(i)
      BY <1>1, <1>2
    <2>2. IsFiniteSet(InUse(T)) /\ Cardinality(InUse(T)) <= T.capacity
      BY InUseFinite
    <2>3. /\ IsFiniteSet(upto(i)) /\ Cardinality(upto(i)) \in Nat
          /\ Cardinality(upto(i)) <= Cardinality(InUse(T))
          /\ Cardinality(InUse(T)) \in Nat
      <3> HIDE DEF upto
      <3> QED
        BY <2>1, <2>2, FS_Subset, FS_CardinalityType
    <2>4. Cardinality(upto(i)) # 0
      <3> HIDE DEF upto
      <3> QED
        BY <2>1, <2>3, FS_EmptySet
    <2>5. Packed(T, i) = Cardinality(upto(i))
      BY DEF Packed
    <2> HIDE DEF upto
    <2> QED
      BY <2>1, <2>2, <2>3, <2>4, <2>5
  <1>3. ASSUME NEW i \in InUse(T), NEW j \in InUse(T), i < j
        PROVE  Packed(T, i) # Packed(T, j)
    <2>1. upto(i) \in SUBSET upto(j) /\ j \notin upto(i)
      <3>1. i \in Nat /\ j \in Nat /\ \A k \in InUse(T) : k \in Nat
        BY <1>1
      <3>2. \A k \in InUse(T) : k <= i => k <= j
        BY <1>3, <3>1
      <3>3. ~ (j <= i)
        BY <1>3, <3>1
      <3> QED
        BY <3>2, <3>3
    <2>2. IsFiniteSet(upto(j)) /\ j \in upto(j)
      BY <1>2
    <2>3. Cardinality(upto(i)) # Cardinality(upto(j))
      <3> HIDE DEF upto
      <3> QED
        BY <2>1, <2>2, FS_Subset
    <2> HIDE DEF upto
    <2> QED
      BY <1>2, <2>3
  <1>4. ASSUME NEW i \in InUse(T), NEW j \in InUse(T), Packed(T, i) = Packed(T, j)
        PROVE  i = j
    <2>1. i \in Nat /\ j \in Nat
      BY <1>1
    <2>2. ~ (i < j) /\ ~ (j < i)
      BY <1>3, <1>4
    <2> QED
      BY <2>1, <2>2
  <1> QED
    BY <1>2, <1>4, Zenon

\* A grown table has the same entries, and room.
LEMMA GrowFacts ==
    ASSUME NEW T, GoodTable(T)
    PROVE  /\ GoodTable(io_wait_table_grow(T))
           /\ Used(io_wait_table_grow(T)) = Used(T)
           /\ io_wait_table_grow(T).count = T.count
           /\ io_wait_table_grow(T).capacity > T.capacity
  <1> DEFINE N == io_wait_table_grow(T)
             capacity == IF T.capacity = 0 THEN 1 ELSE T.capacity * 2
             from(k) == {i \in InUse(T) : Packed(T, i) = k}
  <1>1. T.capacity \in Nat /\ capacity \in Nat /\ capacity > T.capacity
    BY DEF GoodTable, TableType
  <1>2. /\ N.capacity = capacity /\ N.count = Cardinality(InUse(T))
        /\ N.entries = [k \in 1 .. capacity |->
                           IF from(k) = {} THEN EmptyEntry
                           ELSE T.entries[CHOOSE i \in from(k) : TRUE]]
        /\ N = Table(N.entries, N.capacity, N.count)
    BY DEF io_wait_table_grow, Table
  <1> HIDE DEF N, capacity
  <1>3. /\ \A i \in InUse(T) : Packed(T, i) \in 1 .. capacity
        /\ \A i, j \in InUse(T) : Packed(T, i) = Packed(T, j) => i = j
    BY <1>1, PackedFacts
  <1>4. ASSUME NEW i \in InUse(T) PROVE N.entries[Packed(T, i)] = T.entries[i]
    <2>1. from(Packed(T, i)) = {i}
      BY <1>3
    <2>2. Packed(T, i) \in 1 .. capacity
      BY <1>3
    <2> HIDE DEF from
    <2>3. (CHOOSE j \in from(Packed(T, i)) : TRUE) = i
      BY <2>1
    <2> QED
      BY <1>2, <2>1, <2>2, <2>3
  <1>5. ASSUME NEW k \in 1 .. capacity, \A i \in InUse(T) : Packed(T, i) # k
        PROVE  N.entries[k] = EmptyEntry
    <2>1. from(k) = {}
      BY <1>5
    <2> HIDE DEF from
    <2> QED
      BY <1>2, <2>1
  <1> HIDE DEF from
  <1>6. EmptyEntry \in IoWaitEntry /\ ~ EmptyEntry.in_use
    BY DEF EmptyEntry, IoWaitEntry, Nobody
  <1>7. \A i \in InUse(T) : T.entries[i] \in IoWaitEntry /\ T.entries[i].in_use
    BY DEF InUse, GoodTable, TableType
  <1>8. \A k \in 1 .. capacity : \/ N.entries[k] = EmptyEntry
                                 \/ \E i \in InUse(T) : k = Packed(T, i)
    BY <1>5
  <1>9. InUse(N) = {Packed(T, i) : i \in InUse(T)}
    <2>1. InUse(N) = {k \in 1 .. capacity : N.entries[k].in_use}
      BY <1>2 DEF InUse
    <2>2. \A i \in InUse(T) : Packed(T, i) \in InUse(N)
      BY <1>3, <1>4, <1>7, <2>1
    <2>3. \A k \in InUse(N) : \E i \in InUse(T) : k = Packed(T, i)
      BY <1>6, <1>8, <2>1
    <2> QED
      BY <2>2, <2>3
  <1>10. Used(N) = Used(T)
    BY <1>4, <1>9 DEF Used
  <1>11. TableType(N)
    <2>1. \A k \in 1 .. capacity : N.entries[k] \in IoWaitEntry
      BY <1>4, <1>6, <1>7, <1>8
    <2>2. Cardinality(InUse(T)) \in Nat
      BY <1>1, InUseFinite
    <2>3. N.entries = [k \in 1 .. capacity |-> N.entries[k]]
      BY <1>2
    <2> QED
      BY <1>1, <1>2, <2>1, <2>2, <2>3 DEF TableType
  <1>12. Cardinality(InUse(N)) = Cardinality(InUse(T))
    <2> DEFINE f == [i \in InUse(T) |-> Packed(T, i)]
    <2>1. f \in Surjection(InUse(T), InUse(N))
      BY <1>9 DEF Surjection
    <2>2. f \in Injection(InUse(T), InUse(N))
      BY <1>3, <1>9 DEF Injection, IsInjective
    <2>3. IsFiniteSet(InUse(T))
      BY <1>1, InUseFinite
    <2> HIDE DEF f
    <2> QED
      BY <2>1, <2>2, <2>3, FS_Surjection
  <1>13. GoodTable(N)
    <2>1. \A k \in InUse(N) : N.entries[k].fd \in Fds
      BY <1>4, <1>9 DEF GoodTable
    <2>2. ASSUME NEW k \in InUse(N), NEW l \in InUse(N), N.entries[k].fd = N.entries[l].fd
          PROVE  k = l
      <3>1. PICK i \in InUse(T), j \in InUse(T) : k = Packed(T, i) /\ l = Packed(T, j)
        BY <1>9
      <3> QED
        BY <1>4, <2>2, <3>1 DEF GoodTable
    <2> QED
      BY <1>2, <1>11, <1>12, <2>1, <2>2, Zenon DEF GoodTable
  <1> QED
    BY <1>1, <1>2, <1>10, <1>13, Zenon DEF N, GoodTable

\* io_wait_table_get_or_insert finds the entry, adds a fresh one, or changes nothing.
LEMMA GetOrInsertFacts ==
    ASSUME NEW T, GoodTable(T), NEW fd \in Fds,
           NEW r \in io_wait_table_get_or_insert(T, fd)
    PROVE  \/ r.at = 0 /\ r.table = T
           \/ /\ r.at # 0 /\ GoodTable(r.table) /\ r.at \in InUse(r.table)
              /\ r.table.entries[r.at].fd = fd
              /\ \/ Used(r.table) = Used(T)
                 \/ /\ \A u \in Used(T) : u.fd # fd
                    /\ Used(r.table) = Used(T) \cup {Fresh(fd)}
                    /\ r.table.entries[r.at] = Fresh(fd)
  <1> DEFINE i == io_wait_table_find(T, fd)
  <1>1. \/ i = 0 /\ \A u \in Used(T) : u.fd # fd
        \/ i # 0 /\ i \in InUse(T) /\ T.entries[i].fd = fd
    BY FindFacts
  <1>2. Fresh(fd).fd = fd
    BY DEF Fresh
  <1>3. CASE i # 0
    BY <1>1, <1>3 DEF io_wait_table_get_or_insert
  <1>4. CASE i = 0 /\ T.count # T.capacity
    <2>1. r = Insert(T, fd)
      BY <1>4 DEF io_wait_table_get_or_insert
    <2> QED
      BY <1>1, <1>2, <1>4, <2>1, InsertFacts
  <1>5. CASE i = 0 /\ T.count = T.capacity
    <2> DEFINE G == io_wait_table_grow(T)
    <2>1. \/ r = [table |-> T, at |-> 0]
          \/ r = Insert(G, fd)
      BY <1>5 DEF io_wait_table_get_or_insert
    <2>2. /\ GoodTable(G) /\ Used(G) = Used(T) /\ G.count # G.capacity
      <3>1. /\ GoodTable(G) /\ Used(G) = Used(T)
            /\ G.count = T.count /\ G.capacity > T.capacity
        BY GrowFacts
      <3>2. G.capacity \in Nat /\ T.capacity \in Nat
        BY <3>1 DEF GoodTable, TableType
      <3> QED
        BY <1>5, <3>1, <3>2
    <2> HIDE DEF G
    <2>3. ASSUME r = Insert(G, fd)
          PROVE  /\ r.at # 0 /\ r.at \in InUse(r.table) /\ GoodTable(r.table)
                 /\ r.table.entries[r.at] = Fresh(fd)
                 /\ Used(r.table) = Used(T) \cup {Fresh(fd)}
      BY <1>1, <1>5, <2>2, <2>3, InsertFacts
    <2> QED
      BY <1>1, <1>2, <1>5, <2>1, <2>3
  <1> QED
    BY <1>3, <1>4, <1>5

(***************************************************************************)
(* The map that a table stands for.                                        *)
(***************************************************************************)
WaitsOf(T) == [fd \in Fds |-> LET i == io_wait_table_find(T, fd)
                             IN  IF i = 0 THEN Nobody ELSE T.entries[i].task]

\* An entry in use is the only one of its descriptor and holds its tasks; without
\* one nobody waits.
LEMMA WaitsOfFacts ==
    ASSUME NEW T, GoodTable(T)
    PROVE  /\ WaitsOf(T) \in [Fds -> [Events -> Tasks \cup {NoTask}]]
           /\ \A u \in Used(T) : /\ u \in IoWaitEntry /\ u.fd \in Fds
                                 /\ WaitsOf(T)[u.fd] = u.task
                                 /\ \A v \in Used(T) : u.fd = v.fd => u = v
           /\ \A fd \in Fds : (\A u \in Used(T) : u.fd # fd) => WaitsOf(T)[fd] = Nobody
  <1>1. \A i \in InUse(T) : T.entries[i] \in IoWaitEntry /\ T.entries[i].fd \in Fds
    BY DEF GoodTable, TableType, InUse
  <1>2. \A u \in Used(T) : /\ u \in IoWaitEntry /\ u.fd \in Fds
                           /\ \A v \in Used(T) : u.fd = v.fd => u = v
    BY <1>1 DEF Used, GoodTable
  <1>3. ASSUME NEW fd \in Fds
        PROVE  \/ (\A u \in Used(T) : u.fd # fd) /\ WaitsOf(T)[fd] = Nobody
               \/ \E u \in Used(T) : u.fd = fd /\ WaitsOf(T)[fd] = u.task
    <2>1. CASE io_wait_table_find(T, fd) = 0
      BY <2>1, FindFacts DEF WaitsOf
    <2>2. CASE io_wait_table_find(T, fd) # 0
      <3> DEFINE i == io_wait_table_find(T, fd)
      <3>1. i \in InUse(T) /\ T.entries[i].fd = fd
        BY <2>2, FindFacts
      <3>2. T.entries[i] \in Used(T)
        BY <3>1 DEF Used
      <3>3. WaitsOf(T)[fd] = T.entries[i].task
        BY <2>2 DEF WaitsOf
      <3> QED
        BY <3>1, <3>2, <3>3
    <2> QED
      BY <2>1, <2>2
  <1>4. \A u \in Used(T) : WaitsOf(T)[u.fd] = u.task
    BY <1>2, <1>3
  <1>5. \A fd \in Fds : WaitsOf(T)[fd] \in [Events -> Tasks \cup {NoTask}]
    <2>1. Nobody \in [Events -> Tasks \cup {NoTask}]
      BY DEF Nobody
    <2>2. \A u \in Used(T) : u.task \in [Events -> Tasks \cup {NoTask}]
      BY <1>2 DEF IoWaitEntry
    <2> QED
      BY <1>3, <2>1, <2>2
  <1>6. WaitsOf(T) \in [Fds -> [Events -> Tasks \cup {NoTask}]]
    BY <1>5 DEF WaitsOf
  <1> QED
    BY <1>2, <1>3, <1>4, <1>6

\* A change of the entries of one descriptor leaves the others' waits alone.
LEMMA WaitsOfElsewhere ==
    ASSUME NEW T, GoodTable(T), NEW N, GoodTable(N), NEW fd \in Fds, NEW g \in Fds,
           g # fd, \A u : u.fd = g => (u \in Used(T) <=> u \in Used(N))
    PROVE  WaitsOf(N)[g] = WaitsOf(T)[g]
  <1>1. CASE \A u \in Used(T) : u.fd # g
    <2>1. \A u \in Used(N) : u.fd # g
      BY <1>1
    <2> QED
      BY <1>1, <2>1, WaitsOfFacts
  <1>2. CASE \E u \in Used(T) : u.fd = g
    <2>1. PICK u \in Used(T) : u.fd = g
      BY <1>2
    <2>2. u \in Used(N)
      BY <2>1
    <2> QED
      BY <2>1, <2>2, WaitsOfFacts
  <1> QED
    BY <1>1, <1>2

\* A fresh entry adds no wait.
LEMMA WaitsOfFresh ==
    ASSUME NEW T, GoodTable(T), NEW N, GoodTable(N), NEW fd \in Fds,
           \/ Used(N) = Used(T)
           \/ Used(N) = Used(T) \cup {Fresh(fd)} /\ \A u \in Used(T) : u.fd # fd
    PROVE  WaitsOf(N) = WaitsOf(T)
  <1>1. Fresh(fd).fd = fd /\ Fresh(fd).task = Nobody
    BY DEF Fresh
  <1>2. \A g \in Fds : g # fd => WaitsOf(N)[g] = WaitsOf(T)[g]
    BY <1>1, WaitsOfElsewhere
  <1>3. WaitsOf(N)[fd] = WaitsOf(T)[fd]
    <2>1. CASE \A u \in Used(T) : u.fd # fd
      BY <1>1, <2>1, WaitsOfFacts
    <2>2. CASE \E u \in Used(T) : u.fd = fd
      BY <2>2, WaitsOfFacts
    <2> QED
      BY <2>1, <2>2
  <1> QED
    BY <1>2, <1>3, WaitsOfFacts

(***************************************************************************)
(* The inductive invariant.                                                *)
(***************************************************************************)
\* The tasks in the map are those in state TASK_WAITING_IO, each in one place.
Parked == /\ \A t \in waiting : \E fd \in Fds, e \in Events : Waits[fd][e] = t
          /\ \A fd, g \in Fds, e, f \in Events : Waits[fd][e] # NoTask =>
                /\ Waits[fd][e] \in waiting
                /\ Waits[fd][e] = Waits[g][f] => fd = g /\ e = f

NoneEmpty(T) == \A u \in Used(T) : io_wait_entry_events(u) # {}

WaitInv == /\ TypeOK
           /\ GoodTable(io_waits)
           /\ NoneEmpty(io_waits)
           /\ Parked
           /\ PollerKnowsWaits

LEMMA WaitsIsWaitsOf == Waits = WaitsOf(io_waits) /\ Waits' = WaitsOf(io_waits')
  BY DEF Waits, WaitsOf

\* What worker_park_current_on_io does to the map: nothing, or it adds the task.
LEMMA ParkFacts ==
    ASSUME TypeOK, GoodTable(io_waits), NoneEmpty(io_waits),
           NEW t \in Tasks, NEW fd \in Fds, NEW e \in Events,
           worker_park_current_on_io(t, fd, e)
    PROVE  /\ GoodTable(io_waits') /\ NoneEmpty(io_waits')
           /\ \/ /\ WaitsOf(io_waits') = WaitsOf(io_waits)
                 /\ UNCHANGED <<waiting, interest>>
              \/ /\ WaitsOf(io_waits)[fd][e] = NoTask
                 /\ WaitsOf(io_waits') = [WaitsOf(io_waits) EXCEPT ![fd][e] = t]
                 /\ waiting' = waiting \cup {t}
                 /\ interest' = [interest EXCEPT ![fd] =
                                   {f \in Events : WaitsOf(io_waits)[fd][f] # NoTask} \cup {e}]
  <1> DEFINE T == io_waits
  <1>1. PICK r \in io_wait_table_get_or_insert(T, fd), accepts \in BOOLEAN :
          LET entry == r.table.entries[r.at]
              old == io_wait_entry_events(entry)
          IN  IF r.at = 0 \/ entry.task[e] # NoTask
              THEN io_waits' = r.table /\ UNCHANGED <<waiting, interest>>
              ELSE IF ~ accepts
              THEN io_waits' = Refused(r.table, r.at)
                   /\ UNCHANGED <<waiting, interest>>
              ELSE /\ io_waits' = SetTask(r.table, r.at,
                                          [entry.task EXCEPT ![e] = t])
                   /\ waiting' = waiting \cup {t}
                   /\ interest' = [interest EXCEPT ![fd] = NewEvents(old, e)]
    BY Zenon DEF worker_park_current_on_io
  <1> DEFINE R == r.table
             entry == R.entries[r.at]
  <1>2. CASE r.at = 0
    BY <1>1, <1>2, GetOrInsertFacts
  <1>3. CASE r.at # 0
    <2>1. /\ GoodTable(R) /\ r.at \in InUse(R) /\ entry.fd = fd
          /\ \/ Used(R) = Used(T)
             \/ /\ \A u \in Used(T) : u.fd # fd
                /\ Used(R) = Used(T) \cup {Fresh(fd)}
                /\ entry = Fresh(fd)
      BY <1>3, GetOrInsertFacts
    <2>2. entry \in Used(R)
      BY <2>1 DEF Used
    <2> HIDE DEF R, entry, T
    <2>3. WaitsOf(R) = WaitsOf(T)
      BY <2>1, WaitsOfFresh DEF T
    <2>4. entry \in IoWaitEntry /\ WaitsOf(T)[fd] = entry.task
      BY <2>1, <2>2, <2>3, WaitsOfFacts
    <2>5. entry.task \in [Events -> Tasks \cup {NoTask}]
      BY <2>4 DEF IoWaitEntry
    <2>6. Fresh(fd).task = Nobody /\ Fresh(fd).fd = fd /\ io_wait_entry_events(Fresh(fd)) = {}
      BY DEF Fresh, io_wait_entry_events, Nobody
    <2>7. CASE entry.task[e] # NoTask
      <3>1. io_waits' = R /\ UNCHANGED <<waiting, interest>>
        BY <1>1, <2>7 DEF R, entry
      <3>2. Used(R) = Used(T)
        BY <2>1, <2>6, <2>7 DEF Nobody
      <3> QED
        BY <2>1, <2>3, <3>1, <3>2 DEF NoneEmpty, T
    <2>8. CASE entry.task[e] = NoTask /\ ~ accepts
      <3>1. io_waits' = Refused(R, r.at) /\ UNCHANGED <<waiting, interest>>
        BY <1>1, <1>3, <2>8 DEF R, entry
      <3>2. CASE Used(R) = Used(T)
        <4>1. io_wait_entry_events(entry) # {}
          BY <2>2, <3>2 DEF NoneEmpty, T
        <4>2. io_waits' = R
          BY <3>1, <4>1 DEF Refused, entry
        <4> QED
          BY <2>1, <2>3, <3>1, <3>2, <4>2 DEF NoneEmpty, T
      <3>3. CASE /\ \A u \in Used(T) : u.fd # fd
                 /\ Used(R) = Used(T) \cup {Fresh(fd)}
                 /\ entry = Fresh(fd)
        <4>1. io_waits' = io_wait_table_remove_entry(R, r.at)
          BY <2>6, <3>1, <3>3 DEF Refused, entry
        <4>2. GoodTable(io_waits') /\ Used(io_waits') = Used(R) \ {entry}
          BY <2>1, <4>1, RemoveFacts DEF entry
        <4>3. Used(io_waits') = Used(T)
          BY <2>6, <3>3, <4>2
        <4>4. WaitsOf(io_waits') = WaitsOf(T)
          BY <4>2, <4>3, WaitsOfFresh DEF T
        <4> QED
          BY <3>1, <4>2, <4>3, <4>4 DEF NoneEmpty, T
      <3> QED
        BY <2>1, <3>2, <3>3
    <2>9. CASE entry.task[e] = NoTask /\ accepts
      <3> DEFINE task == [entry.task EXCEPT ![e] = t]
                 new == [entry EXCEPT !.task = task]
      <3>1. /\ io_waits' = SetTask(R, r.at, task)
            /\ waiting' = waiting \cup {t}
            /\ interest' = [interest EXCEPT ![fd] = io_wait_entry_events(entry) \cup {e}]
        BY <1>1, <1>3, <2>9 DEF R, entry, NewEvents
      <3>2. task \in [Events -> Tasks \cup {NoTask}] /\ task[e] = t
        BY <2>5
      <3>3. new.fd = fd /\ new.task = task
        BY <2>1, <2>4 DEF IoWaitEntry
      <3> HIDE DEF task
      <3>4. /\ GoodTable(io_waits')
            /\ Used(io_waits') = (Used(R) \ {entry}) \cup {new}
        BY <2>1, <3>1, <3>2, SetTaskFacts DEF entry
      <3> HIDE DEF new
      <3>5. WaitsOf(io_waits')[fd] = task
        BY <3>3, <3>4, WaitsOfFacts
      <3>6. \A g \in Fds : g # fd => WaitsOf(io_waits')[g] = WaitsOf(R)[g]
        BY <2>1, <3>3, <3>4, WaitsOfElsewhere
      <3>7. WaitsOf(io_waits') = [WaitsOf(T) EXCEPT ![fd] = task]
        <4>1. WaitsOf(io_waits') \in [Fds -> [Events -> Tasks \cup {NoTask}]]
          BY <3>4, WaitsOfFacts
        <4>2. WaitsOf(T) \in [Fds -> [Events -> Tasks \cup {NoTask}]]
          BY WaitsOfFacts DEF T
        <4> QED
          BY <2>3, <3>5, <3>6, <4>1, <4>2
      <3>8. WaitsOf(io_waits') = [WaitsOf(T) EXCEPT ![fd][e] = t]
        BY <2>4, <3>7 DEF task
      <3>9. NoneEmpty(io_waits')
        <4>1. io_wait_entry_events(new) # {}
          BY <3>2, <3>3, WaitTableAssumption DEF io_wait_entry_events
        <4>2. \A u \in Used(R) : u # entry => u \in Used(T)
          BY <2>1
        <4> QED
          BY <3>4, <4>1, <4>2 DEF NoneEmpty, T
      <3>10. io_wait_entry_events(entry) = {f \in Events : WaitsOf(T)[fd][f] # NoTask}
        BY <2>4 DEF io_wait_entry_events
      <3> QED
        BY <2>4, <2>9, <3>1, <3>4, <3>8, <3>9, <3>10 DEF T
    <2> QED
      BY <2>7, <2>8, <2>9
  <1> QED
    BY <1>2, <1>3

\* What wake_waiting_tasks_locked does to the map: the tasks to wake leave it.
LEMMA WakeFacts ==
    ASSUME TypeOK, GoodTable(io_waits), NoneEmpty(io_waits),
           NEW fd \in Fds, NEW happened \in SUBSET Events,
           wake_waiting_tasks_locked(fd, happened)
    PROVE  LET left == [e \in Events |-> IF e \in happened THEN NoTask
                                        ELSE WaitsOf(io_waits)[fd][e]]
           IN  /\ GoodTable(io_waits') /\ NoneEmpty(io_waits')
               /\ WaitsOf(io_waits') = [WaitsOf(io_waits) EXCEPT ![fd] = left]
               /\ waiting' = waiting \ {WaitsOf(io_waits)[fd][e] : e \in happened}
               /\ interest' = [interest EXCEPT ![fd] = {e \in Events : left[e] # NoTask}]
  <1> DEFINE T == io_waits
             i == io_wait_table_find(T, fd)
             entry == T.entries[i]
             left == [e \in Events |-> IF e \in happened THEN NoTask
                                      ELSE WaitsOf(T)[fd][e]]
             new == {e \in Events : left[e] # NoTask}
             kept == [entry EXCEPT !.task = left]
  <1>1. i # 0
    BY DEF wake_waiting_tasks_locked
  <1>2. i \in InUse(T) /\ entry.fd = fd
    BY <1>1, FindFacts
  <1>3. entry \in Used(T)
    BY <1>2 DEF Used
  <1>4. /\ entry \in IoWaitEntry /\ WaitsOf(T)[fd] = entry.task
        /\ WaitsOf(T) \in [Fds -> [Events -> Tasks \cup {NoTask}]]
        /\ \A u \in Used(T) : u.fd = fd => u = entry
    BY <1>2, <1>3, WaitsOfFacts
  <1>5. Left(entry, happened) = left
    BY <1>4 DEF Left
  <1>6. left \in [Events -> Tasks \cup {NoTask}]
    BY <1>4
  <1>7. /\ waiting' = waiting \ {WaitsOf(T)[fd][e] : e \in happened}
        /\ interest' = [interest EXCEPT ![fd] = new]
        /\ io_waits' = IF new = {} THEN io_wait_table_remove_entry(T, i)
                       ELSE SetTask(T, i, left)
    BY <1>4, <1>5 DEF wake_waiting_tasks_locked
  <1> HIDE DEF left
  <1>8. kept.fd = fd /\ kept.task = left
    BY <1>2, <1>4 DEF IoWaitEntry
  <1> HIDE DEF kept
  <1>9. /\ GoodTable(io_waits')
        /\ \/ /\ new = {} /\ Used(io_waits') = Used(T) \ {entry}
           \/ /\ new # {} /\ Used(io_waits') = (Used(T) \ {entry}) \cup {kept}
    <2>1. CASE new = {}
      <3>1. io_waits' = io_wait_table_remove_entry(T, i)
        BY <1>7, <2>1
      <3> QED
        BY <1>2, <2>1, <3>1, RemoveFacts
    <2>2. CASE new # {}
      <3>1. io_waits' = SetTask(T, i, left)
        BY <1>7, <2>2
      <3> QED
        BY <1>2, <1>6, <2>2, <3>1, SetTaskFacts DEF kept
    <2> QED
      BY <2>1, <2>2
  <1> HIDE DEF entry, i, T
  <1>10. WaitsOf(io_waits')[fd] = left
    <2>1. CASE new = {} /\ Used(io_waits') = Used(T) \ {entry}
      <3>1. \A u \in Used(io_waits') : u.fd # fd
        BY <1>4, <2>1
      <3>2. left = Nobody
        BY <1>6, <2>1 DEF Nobody
      <3> QED
        BY <1>9, <3>1, <3>2, WaitsOfFacts
    <2>2. CASE new # {} /\ Used(io_waits') = (Used(T) \ {entry}) \cup {kept}
      BY <1>8, <1>9, <2>2, WaitsOfFacts
    <2> QED
      BY <1>9, <2>1, <2>2
  <1>11. \A g \in Fds : g # fd => WaitsOf(io_waits')[g] = WaitsOf(T)[g]
    <2>1. GoodTable(T) /\ \A u : u.fd # fd => (u \in Used(T) <=> u \in Used(io_waits'))
      BY <1>2, <1>8, <1>9 DEF T
    <2> QED
      BY <1>9, <2>1, WaitsOfElsewhere
  <1>12. WaitsOf(io_waits') = [WaitsOf(T) EXCEPT ![fd] = left]
    <2>1. WaitsOf(io_waits') \in [Fds -> [Events -> Tasks \cup {NoTask}]]
      BY <1>9, WaitsOfFacts
    <2> QED
      BY <1>4, <1>10, <1>11, <2>1
  <1>13. NoneEmpty(io_waits')
    <2>1. io_wait_entry_events(kept) = new
      BY <1>8 DEF io_wait_entry_events
    <2> QED
      BY <1>9, <2>1 DEF NoneEmpty, T
  <1> QED
    BY <1>7, <1>9, <1>12, <1>13, Zenon DEF T, left

\* An array without entries in use is the empty map.
LEMMA EmptyFacts ==
    ASSUME NEW n \in Nat
    PROVE  LET T == Table([i \in 1 .. n |-> EmptyEntry], n, 0)
           IN  /\ GoodTable(T) /\ Used(T) = {}
               /\ WaitsOf(T) = [fd \in Fds |-> Nobody]
  <1> DEFINE T == Table([i \in 1 .. n |-> EmptyEntry], n, 0)
  <1>1. EmptyEntry \in IoWaitEntry /\ ~ EmptyEntry.in_use
    BY DEF EmptyEntry, IoWaitEntry, Nobody
  <1>2. TableType(T)
    BY <1>1 DEF TableType, Table
  <1>3. InUse(T) = {}
    BY <1>1 DEF InUse, Table
  <1>4. T.count = 0
    BY DEF Table
  <1> HIDE DEF T
  <1>5. GoodTable(T) /\ Used(T) = {}
    BY <1>2, <1>3, <1>4, FS_EmptySet DEF GoodTable, Used
  <1>6. WaitsOf(T) = [fd \in Fds |-> Nobody]
    <2>1. \A fd \in Fds : WaitsOf(T)[fd] = Nobody
      BY <1>5, WaitsOfFacts
    <2>2. WaitsOf(T) = [fd \in Fds |-> WaitsOf(T)[fd]]
      BY DEF WaitsOf
    <2> QED
      BY <2>1, <2>2
  <1> QED
    BY <1>5, <1>6 DEF T

\* The three kinds of steps, on the map.
MapAdds(t, fd, e) ==
    /\ t \notin waiting
    /\ Waits[fd][e] = NoTask
    /\ Waits' = [Waits EXCEPT ![fd][e] = t]
    /\ waiting' = waiting \cup {t}
    /\ interest' = [interest EXCEPT ![fd] = {f \in Events : Waits[fd][f] # NoTask} \cup {e}]

MapWakes(fd, happened) ==
    LET left == [e \in Events |-> IF e \in happened THEN NoTask ELSE Waits[fd][e]]
    IN  /\ Waits' = [Waits EXCEPT ![fd] = left]
        /\ waiting' = waiting \ {Waits[fd][e] : e \in happened}
        /\ interest' = [interest EXCEPT ![fd] = {e \in Events : left[e] # NoTask}]

MapClears == /\ Waits' = [fd \in Fds |-> Nobody]
             /\ waiting' = {}
             /\ interest' = [fd \in Fds |-> {}]

\* Every step is one of them or leaves the map alone.
LEMMA StepOnMap ==
    ASSUME WaitInv, [Next]_vars
    PROVE  /\ GoodTable(io_waits') /\ NoneEmpty(io_waits') /\ live' \in BOOLEAN
           /\ \/ UNCHANGED <<Waits, waiting, interest>>
              \/ \E t \in Tasks, fd \in Fds, e \in Events : MapAdds(t, fd, e)
              \/ \E fd \in Fds, happened \in SUBSET Events : MapWakes(fd, happened)
              \/ MapClears
  <1> USE WaitsIsWaitsOf DEF WaitInv
  <1>1. ASSUME NEW t \in Tasks, NEW fd \in Fds, NEW e \in Events,
               worker_park_current_on_io(t, fd, e)
        PROVE  /\ GoodTable(io_waits') /\ NoneEmpty(io_waits') /\ live' \in BOOLEAN
               /\ UNCHANGED <<Waits, waiting, interest>> \/ MapAdds(t, fd, e)
    <2>1. live' \in BOOLEAN /\ t \notin waiting
      BY <1>1 DEF worker_park_current_on_io, TypeOK
    <2> QED
      BY <1>1, <2>1, ParkFacts DEF MapAdds
  <1>2. ASSUME NEW fd \in Fds, NEW happened \in SUBSET Events,
               wake_waiting_tasks_locked(fd, happened)
        PROVE  /\ GoodTable(io_waits') /\ NoneEmpty(io_waits') /\ live' \in BOOLEAN
               /\ MapWakes(fd, happened)
    <2>1. live' \in BOOLEAN
      BY <1>2 DEF wake_waiting_tasks_locked, TypeOK
    <2> QED
      BY <1>2, <2>1, WakeFacts DEF MapWakes
  <1>3. ASSUME worker_deinit
        PROVE  /\ GoodTable(io_waits') /\ NoneEmpty(io_waits') /\ live' \in BOOLEAN
               /\ MapClears
    <2>1. /\ io_waits' = Table([i \in 1 .. 0 |-> EmptyEntry], 0, 0)
          /\ live' = FALSE /\ waiting' = {} /\ interest' = [fd \in Fds |-> {}]
      BY <1>3 DEF worker_deinit
    <2>2. /\ GoodTable(io_waits') /\ Used(io_waits') = {}
          /\ WaitsOf(io_waits') = [fd \in Fds |-> Nobody]
      BY <2>1, EmptyFacts, Zenon
    <2> QED
      BY <2>1, <2>2, Zenon DEF MapClears, NoneEmpty
  <1>4. ASSUME UNCHANGED vars
        PROVE  /\ GoodTable(io_waits') /\ NoneEmpty(io_waits') /\ live' \in BOOLEAN
               /\ UNCHANGED <<Waits, waiting, interest>>
    <2>1. io_waits' = io_waits /\ waiting' = waiting /\ interest' = interest /\ live' = live
      BY <1>4 DEF vars
    <2> QED
      BY <2>1 DEF TypeOK
  <1> QED
    BY <1>1, <1>2, <1>3, <1>4 DEF Next

LEMMA InitEstablishesWaitInv ==
    Init => WaitInv /\ Waits = [fd \in Fds |-> Nobody]
  <1> SUFFICES ASSUME Init PROVE WaitInv /\ Waits = [fd \in Fds |-> Nobody]
    OBVIOUS
  <1>1. /\ GoodTable(io_waits) /\ Used(io_waits) = {}
        /\ Waits = [fd \in Fds |-> Nobody]
    BY WaitTableAssumption, EmptyFacts, WaitsIsWaitsOf DEF Init
  <1>2. TypeOK
    BY <1>1, Zenon DEF Init, TypeOK, GoodTable, TableType
  <1>3. Parked /\ PollerKnowsWaits /\ NoneEmpty(io_waits)
    BY <1>1, Zenon DEF Init, Parked, PollerKnowsWaits, NoneEmpty, Nobody
  <1> QED
    BY <1>1, <1>2, <1>3 DEF WaitInv

\* Every step keeps the invariant.
LEMMA NextKeepsWaitInv == WaitInv /\ [Next]_vars => WaitInv'
  <1> SUFFICES ASSUME WaitInv, [Next]_vars PROVE WaitInv'
    OBVIOUS
  <1>1. GoodTable(io_waits') /\ NoneEmpty(io_waits') /\ live' \in BOOLEAN
    BY StepOnMap
  <1>2. /\ TypeOK /\ Parked /\ PollerKnowsWaits
        /\ Waits \in [Fds -> [Events -> Tasks \cup {NoTask}]]
        /\ Waits' \in [Fds -> [Events -> Tasks \cup {NoTask}]]
    BY <1>1, WaitsIsWaitsOf, WaitsOfFacts DEF WaitInv
  <1>3. SUFFICES waiting' \subseteq Tasks /\ interest' \in [Fds -> SUBSET Events]
                 /\ Parked' /\ PollerKnowsWaits'
    BY <1>1 DEF WaitInv, TypeOK, GoodTable, TableType
  <1>4. CASE UNCHANGED <<Waits, waiting, interest>>
    BY <1>2, <1>4 DEF TypeOK, Parked, PollerKnowsWaits
  <1>5. ASSUME NEW t \in Tasks, NEW fd \in Fds, NEW e \in Events, MapAdds(t, fd, e)
        PROVE  /\ waiting' \subseteq Tasks /\ interest' \in [Fds -> SUBSET Events]
               /\ Parked' /\ PollerKnowsWaits'
    <2>1. waiting' \subseteq Tasks /\ interest' \in [Fds -> SUBSET Events]
      BY <1>2, <1>5 DEF MapAdds, TypeOK
    <2>2. \A g \in Fds, f \in Events :
            Waits'[g][f] = IF g = fd /\ f = e THEN t ELSE Waits[g][f]
      BY <1>2, <1>5 DEF MapAdds
    <2>3. Parked'
      <3>1. \A u \in waiting' : \E g \in Fds, f \in Events : Waits'[g][f] = u
        <4> SUFFICES ASSUME NEW u \in waiting'
                     PROVE  \E g \in Fds, f \in Events : Waits'[g][f] = u
          OBVIOUS
        <4>1. CASE u = t
          BY <2>2, <4>1
        <4>2. CASE u # t
          <5>1. PICK g \in Fds, f \in Events : Waits[g][f] = u
            BY <1>2, <1>5, <4>2 DEF MapAdds, Parked
          <5>2. u # NoTask
            BY <1>2, <1>5, <4>2, WaitTableAssumption DEF MapAdds, TypeOK
          <5> QED
            BY <1>5, <2>2, <5>1, <5>2 DEF MapAdds
        <4> QED
          BY <4>1, <4>2
      <3>2. \A g \in Fds, f \in Events : Waits[g][f] # t
        BY <1>2, <1>5, WaitTableAssumption DEF MapAdds, Parked
      <3>3. \A g, h \in Fds, f, k \in Events : Waits'[g][f] # NoTask =>
               /\ Waits'[g][f] \in waiting'
               /\ Waits'[g][f] = Waits'[h][k] => g = h /\ f = k
        BY <1>2, <1>5, <2>2, <3>2 DEF MapAdds, Parked
      <3> QED
        BY <3>1, <3>3 DEF Parked
    <2>4. PollerKnowsWaits'
      BY <1>2, <1>5, <2>2, WaitTableAssumption DEF MapAdds, PollerKnowsWaits, TypeOK
    <2> QED
      BY <2>1, <2>3, <2>4
  <1>6. ASSUME NEW fd \in Fds, NEW happened \in SUBSET Events, MapWakes(fd, happened)
        PROVE  /\ waiting' \subseteq Tasks /\ interest' \in [Fds -> SUBSET Events]
               /\ Parked' /\ PollerKnowsWaits'
    <2>1. waiting' \subseteq Tasks /\ interest' \in [Fds -> SUBSET Events]
      BY <1>2, <1>6 DEF MapWakes, TypeOK
    <2>2. \A g \in Fds, f \in Events :
            Waits'[g][f] = IF g = fd /\ f \in happened THEN NoTask ELSE Waits[g][f]
      BY <1>2, <1>6 DEF MapWakes
    <2>3. Parked'
      <3>1. \A u \in waiting' : \E g \in Fds, f \in Events : Waits'[g][f] = u
        BY <1>2, <1>6, <2>2 DEF MapWakes, Parked
      <3>2. \A g, h \in Fds, f, k \in Events : Waits'[g][f] # NoTask =>
               /\ Waits'[g][f] \in waiting'
               /\ Waits'[g][f] = Waits'[h][k] => g = h /\ f = k
        BY <1>2, <1>6, <2>2 DEF MapWakes, Parked
      <3> QED
        BY <3>1, <3>2 DEF Parked
    <2>4. PollerKnowsWaits'
      BY <1>2, <1>6, <2>2 DEF MapWakes, PollerKnowsWaits, TypeOK
    <2> QED
      BY <2>1, <2>3, <2>4
  <1>7. CASE MapClears
    BY <1>2, <1>7 DEF MapClears, Parked, PollerKnowsWaits, Nobody
  <1> QED
    BY <1>4, <1>5, <1>6, <1>7, StepOnMap

\* What the invariant says of the table itself.
LEMMA WaitInvImplications ==
    WaitInv => TypeOK /\ TableShape /\ TaskParkedOnce /\ PollerKnowsWaits
  <1> SUFFICES ASSUME WaitInv PROVE TableShape /\ TaskParkedOnce
    BY DEF WaitInv
  <1>1. GoodTable(io_waits) /\ NoneEmpty(io_waits) /\ Parked
    BY DEF WaitInv
  <1>2. TableShape
    BY <1>1 DEF TableShape, GoodTable, NoneEmpty, Used
  <1>3. \A i \in InUse(io_waits) :
           /\ io_waits.entries[i].fd \in Fds
           /\ Waits[io_waits.entries[i].fd] = io_waits.entries[i].task
    BY <1>1, WaitsOfFacts, WaitsIsWaitsOf DEF Used
  <1>4. \A t \in waiting : \E i \in InUse(io_waits), e \in Events :
           io_waits.entries[i].task[e] = t
    <2> SUFFICES ASSUME NEW t \in waiting
                 PROVE  \E i \in InUse(io_waits), e \in Events :
                           io_waits.entries[i].task[e] = t
      OBVIOUS
    <2>1. PICK fd \in Fds, e \in Events : Waits[fd][e] = t
      BY <1>1 DEF Parked
    <2>2. t # NoTask
      BY WaitTableAssumption DEF WaitInv, TypeOK
    <2>3. \E u \in Used(io_waits) : u.fd = fd
      <3> SUFFICES ASSUME \A u \in Used(io_waits) : u.fd # fd PROVE FALSE
        OBVIOUS
      <3>1. Waits[fd] = Nobody
        BY <1>1, WaitsOfFacts, WaitsIsWaitsOf
      <3> QED
        BY <2>1, <2>2, <3>1 DEF Nobody
    <2>4. PICK i \in InUse(io_waits) : io_waits.entries[i].fd = fd
      BY <2>3 DEF Used
    <2> QED
      BY <1>3, <2>1, <2>4
  <1>5. \A i, j \in InUse(io_waits), e, f \in Events :
           io_waits.entries[i].task[e] # NoTask =>
              /\ io_waits.entries[i].task[e] \in waiting
              /\ io_waits.entries[i].task[e] = io_waits.entries[j].task[f] => i = j /\ e = f
    BY <1>1, <1>3 DEF Parked, GoodTable
  <1> QED
    BY <1>2, <1>4, <1>5 DEF TaskParkedOnce

\* The invariant holds throughout.
THEOREM WaitInvariant == Spec => []WaitInv
  BY InitEstablishesWaitInv, NextKeepsWaitInv, PTL DEF Spec

\* The count of struct IoWaitTable is exact, a descriptor has one entry, and no
\* entry is left behind by a refused park.
THEOREM TableKeepsShape == Spec => []TableShape
  BY WaitInvariant, WaitInvImplications, PTL

\* A task in state TASK_WAITING_IO is in exactly one place of the table.
THEOREM TasksParkOnce == Spec => []TaskParkedOnce
  BY WaitInvariant, WaitInvImplications, PTL

\* The poller has been told exactly the events for which the table holds a task.
THEOREM PollerIsTold == Spec => []PollerKnowsWaits
  BY WaitInvariant, WaitInvImplications, PTL

\* Every step of the table is a step of the map or leaves it alone.
LEMMA StepRefines == WaitInv /\ [Next]_vars => [Map!Next]_Waits
  <1> SUFFICES ASSUME WaitInv, [Next]_vars PROVE [Map!Next]_Waits
    OBVIOUS
  <1> USE DEF Map!Events, Events
  <1>1. GoodTable(io_waits) /\ GoodTable(io_waits') /\ Parked
    BY StepOnMap DEF WaitInv
  <1>2. /\ Waits \in [Fds -> [Events -> Tasks \cup {NoTask}]]
        /\ Waits' \in [Fds -> [Events -> Tasks \cup {NoTask}]]
    BY <1>1, WaitsOfFacts, WaitsIsWaitsOf
  <1>3. ASSUME NEW t \in Tasks, NEW fd \in Fds, NEW e \in Events, MapAdds(t, fd, e)
        PROVE  Map!Park(t, fd, e)
    <2>1. \A g \in Fds, f \in Events : Waits[g][f] # t
      BY <1>1, <1>3, WaitTableAssumption DEF MapAdds, Parked
    <2>2. Waits' = [g \in Fds |-> [f \in Events |->
                       IF g = fd /\ f = e THEN t ELSE Waits[g][f]]]
      BY <1>2, <1>3, Zenon DEF MapAdds
    <2> QED
      BY <1>3, <2>1, <2>2, Zenon DEF MapAdds, Map!Park
  <1>4. ASSUME NEW fd \in Fds, NEW happened \in SUBSET Events, MapWakes(fd, happened)
        PROVE  Map!Wake(fd, happened)
    <2>1. Waits' = [g \in Fds |-> [f \in Events |->
                       IF g = fd /\ f \in happened THEN NoTask ELSE Waits[g][f]]]
      BY <1>2, <1>4, Zenon DEF MapWakes
    <2> QED
      BY <2>1 DEF Map!Wake
  <1>5. MapClears => Map!Clear
    BY DEF MapClears, Map!Clear, Nobody
  <1> QED
    BY <1>3, <1>4, <1>5, StepOnMap DEF Map!Next

\* The table implements the map of module WaitMap: neither growing, packing and
\* reuse of entries nor failures can be seen.
THEOREM TableImplementsMap == Spec => ImplementsMap
  <1>1. Init => Map!Init
    BY InitEstablishesWaitInv DEF Map!Init, Map!Events, Events, Nobody
  <1>2. WaitInv /\ [Next]_vars => [Map!Next]_Waits
    BY StepRefines
  <1> QED
    BY <1>1, <1>2, WaitInvariant, PTL DEF Spec, ImplementsMap, Map!Spec
-----------------------------------------------------------------------------
(***************************************************************************)
(* The retrying I/O helpers (module IoHelpers), whose tasks wait in this   *)
(* table.                                                                  *)
(***************************************************************************)
\* A task in a call has a worker to itself, unless it is parked.
OnWorker(t) ==
    /\ pc[t] \in {"out", "parked"} => on[t] = Nowhere
    /\ pc[t] \notin {"out", "parked"} => /\ on[t] \in Workers
                                         /\ \A u \in Callers : on[u] = on[t] => u = t

\* Where the error that is to be reported is kept: in errno of the worker, in the
\* variable `error' while the accepted descriptor is closed, and in errno again.
CauseKept(t) ==
    /\ pc[t] \in {"out", "syscall", "wait", "parked", "waited", "getfl", "setfl"} =>
          cause[t] = None
    /\ pc[t] \in {"check", "unset"} => errno[on[t]] = cause[t]
    /\ pc[t] = "close" => error[t] = cause[t]
    /\ pc[t] \in {"unset", "close"} => cause[t] = "EIO"
    /\ pc[t] = "returned" /\ cause[t] # None =>
          errno[on[t]] = cause[t] /\ cause[t] \notin {"EINTR", "EAGAIN"}

\* What becomes of the accepted descriptor.
AcceptedKept(t) ==
    /\ pc[t] \in {"out", "syscall", "check", "wait", "parked", "waited", "close"} =>
          accepted[t] = None
    /\ pc[t] \in {"getfl", "setfl"} =>
          accepted[t] = IF op[t] = "accept" THEN "blocking" ELSE None
    /\ pc[t] \in {"unset", "close"} => op[t] = "accept"
    /\ pc[t] = "returned" =>
          accepted[t] = IF op[t] = "accept" /\ cause[t] = None THEN "nonblocking"
                        ELSE None

CallInv(t) == OnWorker(t) /\ CauseKept(t) /\ AcceptedKept(t)

IoInv == IoTypeOK /\ \A t \in Callers : CallInv(t)

\* A step of task t leaves the other calls alone, and the errno of their workers.
StepOf(t) ==
    /\ \A u \in Callers \ {t} :
          /\ pc'[u] = pc[u] /\ op'[u] = op[u] /\ on'[u] = on[u] /\ error'[u] = error[u]
          /\ accepted'[u] = accepted[u] /\ cause'[u] = cause[u]
          /\ on[u] \in Workers => errno'[on[u]] = errno[on[u]]
    /\ on'[t] \in {on[t], Nowhere} \/ \A u \in Callers : on[u] # on'[t]

\* Such a step preserves the invariant when it does so for its own task.
LEMMA CallStep ==
    ASSUME IoInv, NEW t \in Callers, StepOf(t), IoTypeOK',
           CauseKept(t)', AcceptedKept(t)',
           pc'[t] \in {"out", "parked"} => on'[t] = Nowhere,
           pc'[t] \notin {"out", "parked"} => on'[t] \in Workers
    PROVE  IoInv'
  <1>1. \A u \in Callers \ {t} : on'[u] = on[u] /\ pc'[u] = pc[u]
    BY DEF StepOf
  <1>2. \A u, v \in Callers : on[u] \in Workers /\ on[u] = on[v] => u = v
    BY IoAssumption DEF IoInv, CallInv, OnWorker
  <1>3. ASSUME NEW u \in Callers \ {t}, on[u] \in Workers PROVE on'[t] # on[u]
    <2>1. on[u] # Nowhere /\ on[u] # on[t] /\ u \in Callers
      BY IoAssumption, <1>2, <1>3, Zenon
    <2> QED
      BY <2>1, Zenon DEF StepOf
  <1>4. \A u \in Callers : OnWorker(u)'
    <2> SUFFICES ASSUME NEW u \in Callers PROVE OnWorker(u)'
      OBVIOUS
    <2>1. CASE u = t
      BY <2>1, <1>1, <1>3 DEF OnWorker
    <2>2. CASE u # t
      <3>1. OnWorker(u)
        BY DEF IoInv, CallInv
      <3> QED
        BY <2>2, <3>1, <1>1, <1>3 DEF OnWorker
    <2> QED
      BY <2>1, <2>2
  <1>5. ASSUME NEW u \in Callers \ {t}
        PROVE  CauseKept(u)' /\ AcceptedKept(u)'
    <2>1. OnWorker(u) /\ CauseKept(u) /\ AcceptedKept(u)
      BY DEF IoInv, CallInv
    <2>2. /\ pc'[u] = pc[u] /\ op'[u] = op[u] /\ on'[u] = on[u] /\ error'[u] = error[u]
          /\ accepted'[u] = accepted[u] /\ cause'[u] = cause[u]
          /\ on[u] \in Workers => errno'[on[u]] = errno[on[u]]
      BY DEF StepOf
    <2>3. CauseKept(u)'
      BY <2>1, <2>2 DEF OnWorker, CauseKept, None
    <2>4. AcceptedKept(u)'
      BY <2>1, <2>2 DEF AcceptedKept, None
    <2> QED
      BY <2>3, <2>4
  <1> QED
    BY <1>4, <1>5 DEF IoInv, CallInv
-----------------------------------------------------------------------------
\* A call begins.
LEMMA CallKeepsIo ==
    ASSUME IoInv, NEW t \in Callers, NEW w \in Workers, NEW o \in Ops,
           Call(t, w, o)
    PROVE  IoInv'
  <1>1. CallInv(t) /\ IoTypeOK
    BY DEF IoInv
  <1>2. pc[t] = "out" /\ \A u \in Callers : on[u] # w
    BY DEF Call, TakeUp
  <1>3. PICK e \in Errors : errno' = [errno EXCEPT ![w] = e]
    BY DEF Call, TakeUp
  <1>4. /\ pc' = [pc EXCEPT ![t] = IF o = "nonblock" THEN "getfl" ELSE "syscall"]
        /\ op' = [op EXCEPT ![t] = o] /\ on' = [on EXCEPT ![t] = w]
        /\ entered' = [entered EXCEPT ![t] = w]
        /\ UNCHANGED <<error, wait, accepted, ready, cause>>
    BY DEF Call, TakeUp, Goto
  <1>5. IoTypeOK'
    BY <1>1, <1>3, <1>4 DEF IoTypeOK, Pc
  <1>6. StepOf(t)
    BY <1>1, <1>2, <1>3, <1>4 DEF StepOf, IoTypeOK
  <1>7. cause[t] = None /\ accepted[t] = None
    BY <1>1, <1>2 DEF CallInv, CauseKept, AcceptedKept
  <1>8. pc'[t] \in {"getfl", "syscall"} /\ on'[t] = w /\ op'[t] = o
        /\ (pc'[t] = "getfl" => o = "nonblock")
    BY <1>1, <1>4 DEF IoTypeOK
  <1>9. CauseKept(t)' /\ AcceptedKept(t)'
    BY <1>4, <1>7, <1>8 DEF CauseKept, AcceptedKept, None
  <1> QED
    BY <1>5, <1>6, <1>8, <1>9, CallStep

\* A task in a call is alone on its worker.
LEMMA AtWork ==
    ASSUME IoInv, NEW t \in Callers, pc[t] \notin {"out", "parked"}
    PROVE  on[t] \in Workers /\ \A u \in Callers \ {t} : on[u] # on[t]
  BY DEF IoInv, CallInv, OnWorker

\* The system call succeeds.
LEMMA SyscallWorksKeepsIo ==
    ASSUME IoInv, NEW t \in Callers, SyscallWorks(t)
    PROVE  IoInv'
  <1>1. CallInv(t) /\ IoTypeOK /\ on[t] \in Workers
    BY AtWork DEF IoInv, SyscallWorks
  <1>2. /\ pc[t] = "syscall"
        /\ pc' = [pc EXCEPT ![t] = IF op[t] = "accept" THEN "getfl" ELSE "returned"]
        /\ accepted' = IF op[t] = "accept" THEN [accepted EXCEPT ![t] = "blocking"]
                       ELSE accepted
        /\ ready' \subseteq ready
        /\ UNCHANGED <<op, on, errno, error, wait, entered, cause>>
    BY DEF SyscallWorks, Goto
  <1>3. IoTypeOK'
    BY <1>1, <1>2 DEF IoTypeOK, Pc
  <1>4. StepOf(t)
    BY <1>1, <1>2 DEF StepOf, IoTypeOK
  <1>5. cause[t] = None /\ accepted[t] = None
    BY <1>1, <1>2 DEF CallInv, CauseKept, AcceptedKept
  <1>6. CASE op[t] = "accept"
    <2>1. pc'[t] = "getfl" /\ accepted'[t] = "blocking"
      BY <1>1, <1>2, <1>6 DEF IoTypeOK
    <2>2. CauseKept(t)' /\ AcceptedKept(t)'
      BY <2>1, <1>2, <1>5, <1>6 DEF CauseKept, AcceptedKept, None
    <2> QED
      BY <1>1, <1>2, <1>3, <1>4, <2>1, <2>2, CallStep
  <1>7. CASE op[t] # "accept"
    <2>1. pc'[t] = "returned" /\ accepted'[t] = None
      BY <1>1, <1>2, <1>5, <1>7 DEF IoTypeOK
    <2>2. CauseKept(t)' /\ AcceptedKept(t)'
      BY <2>1, <1>2, <1>5, <1>7 DEF CauseKept, AcceptedKept, None
    <2> QED
      BY <1>1, <1>2, <1>3, <1>4, <2>1, <2>2, CallStep
  <1> QED
    BY <1>6, <1>7

\* The system call fails and sets errno of the worker.
LEMMA SyscallFailsKeepsIo ==
    ASSUME IoInv, NEW t \in Callers, NEW e \in Errors,
           SyscallFails(t, e)
    PROVE  IoInv'
  <1>1. /\ pc[t] = "syscall" /\ pc' = [pc EXCEPT ![t] = "check"]
        /\ errno' = [errno EXCEPT ![on[t]] = e] /\ cause' = [cause EXCEPT ![t] = e]
        /\ UNCHANGED <<op, on, error, wait, accepted, ready, entered>>
    BY DEF SyscallFails, Fails, Goto
  <1>2. CallInv(t) /\ IoTypeOK /\ on[t] \in Workers
    BY <1>1, AtWork DEF IoInv
  <1>3. \A u \in Callers \ {t} : on[u] # on[t]
    BY <1>1, AtWork
  <1>4. IoTypeOK'
    BY <1>1, <1>2 DEF IoTypeOK, Pc
  <1>5. StepOf(t)
    BY <1>1, <1>2, <1>3 DEF StepOf, IoTypeOK
  <1>6. pc'[t] = "check" /\ errno'[on'[t]] = e /\ cause'[t] = e /\ accepted'[t] = None
    BY <1>1, <1>2 DEF CallInv, AcceptedKept, IoTypeOK
  <1>7. CauseKept(t)' /\ AcceptedKept(t)'
    BY <1>6 DEF CauseKept, AcceptedKept, None
  <1> QED
    BY <1>1, <1>2, <1>4, <1>5, <1>6, <1>7, CallStep

\* The error is looked at: again, wait, or return.
LEMMA CheckErrorKeepsIo ==
    ASSUME IoInv, NEW t \in Callers, CheckError(t)
    PROVE  IoInv'
  <1> DEFINE e == errno[on[t]]
             label == IF e = "EINTR" THEN "syscall"
                      ELSE IF e = "EAGAIN" THEN "wait" ELSE "returned"
             rest == IF e \in {"EINTR", "EAGAIN"} THEN None ELSE cause[t]
  <1>1. /\ pc[t] = "check" /\ pc' = [pc EXCEPT ![t] = label]
        /\ cause' = [cause EXCEPT ![t] = rest]
        /\ UNCHANGED <<op, on, errno, error, wait, accepted, ready, entered>>
    BY DEF CheckError, current_errno, Goto
  <1>2. CallInv(t) /\ IoTypeOK /\ on[t] \in Workers
    BY <1>1, AtWork DEF IoInv
  <1>3. cause[t] = e /\ accepted[t] = None /\ e \in Errors
    BY <1>1, <1>2 DEF CallInv, CauseKept, AcceptedKept, IoTypeOK
  <1>4. IoTypeOK'
    BY <1>1, <1>2, <1>3 DEF IoTypeOK, Pc
  <1>5. StepOf(t)
    BY <1>1, <1>2 DEF StepOf, IoTypeOK
  <1>6. pc'[t] = label /\ cause'[t] = rest
    BY <1>1, <1>2 DEF IoTypeOK
  <1>7. CauseKept(t)' /\ AcceptedKept(t)'
    <2>1. e # None /\ accepted'[t] = None /\ errno'[on'[t]] = e
      BY <1>1, <1>3, Zenon DEF None, Errors
    <2>2. CASE e \in {"EINTR", "EAGAIN"}
      <3>1. pc'[t] \in {"syscall", "wait"} /\ cause'[t] = None
        BY <1>6, <2>2, Zenon
      <3> QED
        BY <2>1, <3>1 DEF CauseKept, AcceptedKept
    <2>3. CASE e \notin {"EINTR", "EAGAIN"}
      <3>1. pc'[t] = "returned" /\ cause'[t] = e
        BY <1>3, <1>6, <2>3, Zenon
      <3> QED
        BY <2>1, <2>3, <3>1 DEF CauseKept, AcceptedKept
    <2> QED
      BY <2>2, <2>3, Zenon
  <1>8. pc'[t] \notin {"out", "parked"} /\ on'[t] \in Workers
    <2>1. label \in {"syscall", "wait", "returned"}
      BY Zenon
    <2> HIDE DEF label, rest
    <2> QED
      BY <1>1, <1>2, <1>6, <2>1, Zenon
  <1> HIDE DEF label, rest
  <1> QED
    BY <1>4, <1>5, <1>7, <1>8, CallStep

\* The wait parks the task, which leaves its worker.
LEMMA WaitParksKeepsIo ==
    ASSUME IoInv, NEW t \in Callers, WaitParks(t)
    PROVE  IoInv'
  <1>1. /\ pc[t] = "wait" /\ pc' = [pc EXCEPT ![t] = "parked"]
        /\ on' = [on EXCEPT ![t] = Nowhere]
        /\ UNCHANGED <<op, errno, error, wait, accepted, ready, entered, cause>>
    BY DEF WaitParks, Goto
  <1>2. CallInv(t) /\ IoTypeOK
    BY DEF IoInv
  <1>3. IoTypeOK'
    BY <1>1, <1>2 DEF IoTypeOK, Pc
  <1>4. StepOf(t)
    BY <1>1, <1>2 DEF StepOf, IoTypeOK
  <1>5. pc'[t] = "parked" /\ on'[t] = Nowhere
    BY <1>1, <1>2 DEF IoTypeOK
  <1>6. CauseKept(t)' /\ AcceptedKept(t)'
    BY <1>1, <1>2, <1>5 DEF CallInv, CauseKept, AcceptedKept, None
  <1> QED
    BY <1>3, <1>4, <1>5, <1>6, CallStep

\* The wait is refused.
LEMMA WaitFailsKeepsIo ==
    ASSUME IoInv, NEW t \in Callers, WaitFails(t)
    PROVE  IoInv'
  <1>1. PICK e \in Errors : errno' = [errno EXCEPT ![on[t]] = e]
    BY DEF WaitFails, Fails
  <1>2. /\ pc[t] = "wait" /\ pc' = [pc EXCEPT ![t] = "waited"]
        /\ wait' = [wait EXCEPT ![t] = "FAILED"]
        /\ UNCHANGED <<op, on, error, accepted, ready, entered, cause>>
    BY DEF WaitFails, Goto
  <1>3. CallInv(t) /\ IoTypeOK /\ on[t] \in Workers
    BY <1>2, AtWork DEF IoInv
  <1>4. \A u \in Callers \ {t} : on[u] # on[t]
    BY <1>2, AtWork
  <1>5. IoTypeOK'
    BY <1>1, <1>2, <1>3 DEF IoTypeOK, Pc
  <1>6. StepOf(t)
    BY <1>1, <1>2, <1>3, <1>4 DEF StepOf, IoTypeOK
  <1>7. pc'[t] = "waited"
    BY <1>2, <1>3 DEF IoTypeOK
  <1>8. CauseKept(t)' /\ AcceptedKept(t)'
    BY <1>2, <1>3, <1>7 DEF CallInv, CauseKept, AcceptedKept, None
  <1> QED
    BY <1>2, <1>3, <1>5, <1>6, <1>7, <1>8, CallStep

\* A parked task continues, on any worker.
LEMMA ResumeKeepsIo ==
    ASSUME IoInv, NEW t \in Callers, NEW w \in Workers,
           NEW r \in {"READY", "CLOSED"}, Resume(t, w, r)
    PROVE  IoInv'
  <1>1. PICK e \in Errors : errno' = [errno EXCEPT ![w] = e]
    BY DEF Resume, TakeUp
  <1>2. /\ pc[t] = "parked" /\ \A u \in Callers : on[u] # w
        /\ pc' = [pc EXCEPT ![t] = "waited"] /\ on' = [on EXCEPT ![t] = w]
        /\ wait' = [wait EXCEPT ![t] = r]
        /\ UNCHANGED <<op, error, accepted, ready, entered, cause>>
    BY DEF Resume, TakeUp, Goto
  <1>3. CallInv(t) /\ IoTypeOK
    BY DEF IoInv
  <1>4. IoTypeOK'
    BY <1>1, <1>2, <1>3 DEF IoTypeOK, Pc
  <1>5. StepOf(t)
    BY <1>1, <1>2, <1>3 DEF StepOf, IoTypeOK
  <1>6. pc'[t] = "waited" /\ on'[t] = w
    BY <1>2, <1>3 DEF IoTypeOK
  <1>7. CauseKept(t)' /\ AcceptedKept(t)'
    BY <1>2, <1>3, <1>6 DEF CallInv, CauseKept, AcceptedKept, None
  <1> QED
    BY <1>4, <1>5, <1>6, <1>7, CallStep

\* After the wait: the system call again, or errno says what the wait came to.
LEMMA AfterWaitKeepsIo ==
    ASSUME IoInv, NEW t \in Callers, AfterWait(t)
    PROVE  IoInv'
  <1>1. /\ pc[t] = "waited" /\ wait' = [wait EXCEPT ![t] = None]
        /\ UNCHANGED <<op, on, error, accepted, ready, entered>>
    BY DEF AfterWait
  <1>2. CallInv(t) /\ IoTypeOK /\ on[t] \in Workers
    BY <1>1, AtWork DEF IoInv
  <1>3. \A u \in Callers \ {t} : on[u] # on[t]
    BY <1>1, AtWork
  <1>4. CASE wait[t] = "READY"
    <2>1. pc' = [pc EXCEPT ![t] = "syscall"] /\ UNCHANGED <<errno, cause>>
      BY <1>4 DEF AfterWait, Goto
    <2>2. IoTypeOK'
      BY <1>1, <1>2, <2>1 DEF IoTypeOK, Pc, None
    <2>3. StepOf(t)
      BY <1>1, <1>2, <2>1 DEF StepOf, IoTypeOK
    <2>4. pc'[t] = "syscall"
      BY <1>2, <2>1 DEF IoTypeOK
    <2>5. CauseKept(t)' /\ AcceptedKept(t)'
      BY <1>1, <1>2, <2>1, <2>4 DEF CallInv, CauseKept, AcceptedKept, None
    <2> QED
      BY <1>1, <1>2, <2>2, <2>3, <2>4, <2>5, CallStep
  <1>5. CASE wait[t] # "READY"
    <2> DEFINE e == IF wait[t] = "CLOSED" THEN "ECANCELED" ELSE "ENOTSUP"
    <2>1. /\ pc' = [pc EXCEPT ![t] = "returned"] /\ cause' = [cause EXCEPT ![t] = e]
          /\ errno' = [errno EXCEPT ![on[t]] = e]
      BY <1>5 DEF AfterWait, Goto, set_errno, wait_errno
    <2>2. IoTypeOK'
      BY <1>1, <1>2, <2>1 DEF IoTypeOK, Pc, None, Errors
    <2>3. StepOf(t)
      BY <1>1, <1>2, <1>3, <2>1 DEF StepOf, IoTypeOK
    <2>4. pc'[t] = "returned" /\ cause'[t] = e /\ errno'[on'[t]] = e
      BY <1>1, <1>2, <2>1 DEF IoTypeOK
    <2>5. CauseKept(t)' /\ AcceptedKept(t)'
      BY <1>1, <1>2, <2>4 DEF CallInv, CauseKept, AcceptedKept, None
    <2> QED
      BY <1>1, <1>2, <2>2, <2>3, <2>4, <2>5, CallStep
  <1> QED
    BY <1>4, <1>5

\* A step of croutine_fd_set_nonblocking succeeds.
LEMMA FcntlWorksKeepsIo ==
    ASSUME IoInv, NEW t \in Callers, FcntlWorks(t)
    PROVE  IoInv'
  <1>1. /\ pc[t] \in {"getfl", "setfl"}
        /\ UNCHANGED <<op, on, errno, error, wait, ready, entered, cause>>
    BY DEF FcntlWorks
  <1>2. CallInv(t) /\ IoTypeOK /\ on[t] \in Workers
    BY <1>1, AtWork DEF IoInv
  <1>3. CASE pc' = [pc EXCEPT ![t] = "setfl"] /\ accepted' = accepted
    <2>1. IoTypeOK'
      BY <1>1, <1>2, <1>3 DEF IoTypeOK, Pc
    <2>2. StepOf(t)
      BY <1>1, <1>2, <1>3 DEF StepOf, IoTypeOK
    <2>3. pc'[t] = "setfl"
      BY <1>2, <1>3 DEF IoTypeOK
    <2>4. CauseKept(t)' /\ AcceptedKept(t)'
      BY <1>1, <1>2, <1>3, <2>3 DEF CallInv, CauseKept, AcceptedKept, None
    <2> QED
      BY <1>1, <1>2, <2>1, <2>2, <2>3, <2>4, CallStep
  <1>4. CASE /\ pc' = [pc EXCEPT ![t] = "returned"]
             /\ accepted' = IF op[t] = "accept"
                            THEN [accepted EXCEPT ![t] = "nonblocking"] ELSE accepted
    <2>1. IoTypeOK'
      BY <1>1, <1>2, <1>4 DEF IoTypeOK, Pc
    <2>2. StepOf(t)
      BY <1>1, <1>2, <1>4 DEF StepOf, IoTypeOK
    <2>3. /\ pc'[t] = "returned" /\ cause'[t] = None
          /\ accepted'[t] = IF op[t] = "accept" THEN "nonblocking" ELSE None
      BY <1>1, <1>2, <1>4 DEF CallInv, CauseKept, AcceptedKept, IoTypeOK
    <2>4. CauseKept(t)' /\ AcceptedKept(t)'
      BY <1>1, <2>3 DEF CauseKept, AcceptedKept, None
    <2> QED
      BY <1>1, <1>2, <2>1, <2>2, <2>3, <2>4, CallStep
  <1> QED
    BY <1>3, <1>4 DEF FcntlWorks, Goto

\* It fails.
LEMMA FcntlFailsKeepsIo ==
    ASSUME IoInv, NEW t \in Callers, NEW e \in Errors,
           FcntlFails(t, e)
    PROVE  IoInv'
  <1>1. /\ pc[t] \in {"getfl", "setfl"} /\ e \in {"EINTR", "EIO"}
        /\ errno' = [errno EXCEPT ![on[t]] = e]
        /\ UNCHANGED <<op, on, error, wait, accepted, ready, entered>>
    BY DEF FcntlFails, Fails
  <1>2. CallInv(t) /\ IoTypeOK /\ on[t] \in Workers
    BY <1>1, AtWork DEF IoInv
  <1>3. \A u \in Callers \ {t} : on[u] # on[t]
    BY <1>1, AtWork
  <1>4. CASE e = "EINTR"
    <2>1. UNCHANGED <<pc, cause>>
      BY <1>4 DEF FcntlFails
    <2>2. IoTypeOK'
      BY <1>1, <1>2, <2>1 DEF IoTypeOK
    <2>3. StepOf(t)
      BY <1>1, <1>2, <1>3, <2>1 DEF StepOf, IoTypeOK
    <2>4. CauseKept(t)' /\ AcceptedKept(t)'
      BY <1>1, <1>2, <2>1 DEF CallInv, CauseKept, AcceptedKept, None
    <2> QED
      BY <1>1, <1>2, <2>1, <2>2, <2>3, <2>4, CallStep
  <1>5. CASE e # "EINTR"
    <2> DEFINE label == IF op[t] = "accept" THEN "unset" ELSE "returned"
    <2>1. pc' = [pc EXCEPT ![t] = label] /\ cause' = [cause EXCEPT ![t] = e] /\ e = "EIO"
      BY <1>1, <1>5 DEF FcntlFails, Goto
    <2>2. IoTypeOK'
      BY <1>1, <1>2, <2>1 DEF IoTypeOK, Pc
    <2>3. StepOf(t)
      BY <1>1, <1>2, <1>3, <2>1 DEF StepOf, IoTypeOK
    <2>4. /\ pc'[t] = label /\ cause'[t] = "EIO" /\ errno'[on'[t]] = "EIO"
          /\ accepted'[t] = IF op[t] = "accept" THEN "blocking" ELSE None
      BY <1>1, <1>2, <2>1 DEF CallInv, AcceptedKept, IoTypeOK
    <2>5. CauseKept(t)' /\ AcceptedKept(t)'
      BY <1>1, <2>4 DEF CauseKept, AcceptedKept, None
    <2> QED
      BY <1>1, <1>2, <2>2, <2>3, <2>4, <2>5, CallStep
  <1> QED
    BY <1>4, <1>5

\* Accept saves the error and closes the descriptor.
LEMMA AcceptClosesKeepsIo ==
    ASSUME IoInv, NEW t \in Callers, AcceptCloses(t)
    PROVE  IoInv'
  <1>1. PICK e \in Errors : errno' = [errno EXCEPT ![on[t]] = e]
    BY DEF AcceptCloses, Fails
  <1>2. /\ pc[t] = "unset" /\ pc' = [pc EXCEPT ![t] = "close"]
        /\ error' = [error EXCEPT ![t] = errno[on[t]]]
        /\ accepted' = [accepted EXCEPT ![t] = None]
        /\ UNCHANGED <<op, on, wait, ready, entered, cause>>
    BY DEF AcceptCloses, current_errno, ClosesAccepted, Goto
  <1>3. CallInv(t) /\ IoTypeOK /\ on[t] \in Workers
    BY <1>2, AtWork DEF IoInv
  <1>4. \A u \in Callers \ {t} : on[u] # on[t]
    BY <1>2, AtWork
  <1>5. IoTypeOK'
    BY <1>1, <1>2, <1>3 DEF IoTypeOK, Pc, None
  <1>6. StepOf(t)
    BY <1>1, <1>2, <1>3, <1>4 DEF StepOf, IoTypeOK
  <1>7. pc'[t] = "close" /\ error'[t] = errno[on[t]] /\ accepted'[t] = None
    BY <1>2, <1>3 DEF IoTypeOK
  <1>8. CauseKept(t)' /\ AcceptedKept(t)'
    BY <1>2, <1>3, <1>7 DEF CallInv, CauseKept, AcceptedKept, None
  <1> QED
    BY <1>2, <1>3, <1>5, <1>6, <1>7, <1>8, CallStep

\* Accept sets errno again and fails.
LEMMA AcceptFailsKeepsIo ==
    ASSUME IoInv, NEW t \in Callers, AcceptFails(t)
    PROVE  IoInv'
  <1>1. /\ pc[t] = "close" /\ pc' = [pc EXCEPT ![t] = "returned"]
        /\ errno' = [errno EXCEPT ![on[t]] = error[t]]
        /\ error' = [error EXCEPT ![t] = None]
        /\ UNCHANGED <<op, on, wait, accepted, ready, entered, cause>>
    BY DEF AcceptFails, set_errno, Goto
  <1>2. CallInv(t) /\ IoTypeOK /\ on[t] \in Workers
    BY <1>1, AtWork DEF IoInv
  <1>3. \A u \in Callers \ {t} : on[u] # on[t]
    BY <1>1, AtWork
  <1>4. error[t] = "EIO" /\ cause[t] = "EIO" /\ accepted[t] = None
    BY <1>1, <1>2 DEF CallInv, CauseKept, AcceptedKept
  <1>5. IoTypeOK'
    BY <1>1, <1>2, <1>4 DEF IoTypeOK, Pc, None, Errors
  <1>6. StepOf(t)
    BY <1>1, <1>2, <1>3 DEF StepOf, IoTypeOK
  <1>7. pc'[t] = "returned" /\ errno'[on'[t]] = "EIO"
    BY <1>1, <1>2, <1>4 DEF IoTypeOK
  <1>8. CauseKept(t)' /\ AcceptedKept(t)'
    BY <1>1, <1>4, <1>7 DEF CauseKept, AcceptedKept, None
  <1> QED
    BY <1>1, <1>2, <1>5, <1>6, <1>7, <1>8, CallStep

\* The caller goes on to something else.
LEMMA LeaveKeepsIo ==
    ASSUME IoInv, NEW t \in Callers, Leave(t)
    PROVE  IoInv'
  <1>1. /\ pc' = [pc EXCEPT ![t] = "out"] /\ op' = [op EXCEPT ![t] = None]
        /\ on' = [on EXCEPT ![t] = Nowhere]
        /\ accepted' = [accepted EXCEPT ![t] = None]
        /\ entered' = [entered EXCEPT ![t] = Nowhere]
        /\ cause' = [cause EXCEPT ![t] = None]
        /\ UNCHANGED <<errno, error, wait, ready>>
    BY DEF Leave, Goto
  <1>2. IoTypeOK
    BY DEF IoInv
  <1>3. IoTypeOK'
    BY <1>1, <1>2 DEF IoTypeOK, Pc, None
  <1>4. StepOf(t)
    BY <1>1, <1>2 DEF StepOf, IoTypeOK
  <1>5. /\ pc'[t] = "out" /\ on'[t] = Nowhere
        /\ accepted'[t] = None /\ cause'[t] = None
    BY <1>1, <1>2 DEF IoTypeOK
  <1>6. CauseKept(t)' /\ AcceptedKept(t)'
    BY <1>5 DEF CauseKept, AcceptedKept, None
  <1> QED
    BY <1>3, <1>4, <1>5, <1>6, CallStep

\* The readiness of the descriptor changes.
LEMMA ReadinessKeepsIo ==
    ASSUME IoInv, NEW e \in IoEvents, ReadinessChanges(e)
    PROVE  IoInv'
  <1>1. /\ ready' \subseteq ready \cup {e}
        /\ UNCHANGED <<pc, op, on, errno, error, wait, accepted, entered, cause>>
    BY DEF ReadinessChanges
  <1>2. IoTypeOK'
    BY <1>1 DEF IoInv, IoTypeOK
  <1>3. ASSUME NEW t \in Callers PROVE CallInv(t)'
    BY <1>1 DEF IoInv, CallInv, OnWorker, CauseKept, AcceptedKept, None
  <1> QED
    BY <1>2, <1>3 DEF IoInv

\* In the calls of the I/O helpers, tasks have workers to themselves, and the error to
\* report and the descriptor accepted are where the code looks for them.
THEOREM IoInvariant == IoSpec => []IoInv
  <1>1. IoInit => IoInv
    <2> SUFFICES ASSUME IoInit PROVE IoInv
      OBVIOUS
    <2>1. IoTypeOK
      BY DEF IoInit, IoTypeOK, Pc, None, Errors
    <2>2. ASSUME NEW t \in Callers PROVE CallInv(t)
      BY DEF IoInit, CallInv, OnWorker, CauseKept, AcceptedKept, None
    <2> QED
      BY <2>1, <2>2 DEF IoInv
  <1>2. IoInv /\ [IoNext]_io_vars => IoInv'
    <2> SUFFICES ASSUME IoInv, [IoNext]_io_vars PROVE IoInv'
      OBVIOUS
    <2>1. CASE \E e \in IoEvents : ReadinessChanges(e)
      BY <2>1, ReadinessKeepsIo
    <2>2. CASE \E t \in Callers : Step(t)
      BY <2>2, CheckErrorKeepsIo, AfterWaitKeepsIo, AcceptClosesKeepsIo,
         AcceptFailsKeepsIo, LeaveKeepsIo DEF Step
    <2>3. CASE \E t \in Callers : \/ SyscallWorks(t) \/ WaitParks(t)
                                  \/ WaitFails(t) \/ FcntlWorks(t)
      BY <2>3, SyscallWorksKeepsIo, WaitParksKeepsIo, WaitFailsKeepsIo, FcntlWorksKeepsIo
    <2>4. CASE \E t \in Callers, e \in Errors : \/ SyscallFails(t, e)
                                                \/ FcntlFails(t, e)
      BY <2>4, SyscallFailsKeepsIo, FcntlFailsKeepsIo
    <2>5. CASE \E t \in Callers, w \in Workers : \E o \in Ops : Call(t, w, o)
      BY <2>5, CallKeepsIo
    <2>6. CASE \E t \in Callers, w \in Workers :
                  \E r \in {"READY", "CLOSED"} : Resume(t, w, r)
      BY <2>6, ResumeKeepsIo
    <2>7. CASE UNCHANGED io_vars
      <3>1. UNCHANGED <<pc, op, on, errno, error, wait, accepted, ready, entered, cause>>
        BY <2>7, Zenon DEF io_vars
      <3>2. IoTypeOK'
        BY <3>1, Zenon DEF IoInv, IoTypeOK
      <3>3. ASSUME NEW t \in Callers PROVE CallInv(t)'
        <4>1. OnWorker(t)'
          BY <3>1, Zenon DEF IoInv, CallInv, OnWorker
        <4>2. CauseKept(t)'
          BY <3>1, Zenon DEF IoInv, CallInv, CauseKept
        <4>3. AcceptedKept(t)'
          BY <3>1, Zenon DEF IoInv, CallInv, AcceptedKept
        <4> QED
          BY <4>1, <4>2, <4>3, Zenon DEF CallInv
      <3> QED
        BY <3>2, <3>3, Zenon DEF IoInv
    <2> QED
      BY <2>1, <2>2, <2>3, <2>4, <2>5, <2>6, <2>7 DEF IoNext
  <1> QED
    BY <1>1, <1>2, PTL DEF IoSpec

\* A helper that returns -1 leaves the reason in errno of the worker the task is on
\* then, for any number of tasks and workers.
THEOREM ErrnoIsTheCause == IoSpec => []ErrnoTellsCause
  <1>1. IoInv => ErrnoTellsCause
    BY DEF IoInv, CallInv, CauseKept, ErrnoTellsCause
  <1> QED
    BY <1>1, IoInvariant, PTL

\* croutine_accept returns the descriptor, non-blocking, or has closed it.
THEOREM AcceptLeaksNothing == IoSpec => []AcceptedReturnedOrClosed
  <1>1. IoInv => AcceptedReturnedOrClosed
    BY DEF IoInv, CallInv, AcceptedKept, AcceptedReturnedOrClosed
  <1> QED
    BY <1>1, IoInvariant, PTL
=============================================================================
