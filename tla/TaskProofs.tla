----------------------------- MODULE TaskProofs -----------------------------
(***************************************************************************)
(* Proofs about tasks, in three parts.                                     *)
(*                                                                         *)
(* The ring of src/task.c implements a FIFO queue without duplicates, for  *)
(* every set of tasks, every initial capacity and any number of growths.   *)
(* The stacks of tasks are their own, for any number of tasks, any page    *)
(* size and any configuration.  The registers of tasks survive every       *)
(* switch, for any number of workers and tasks and any values.             *)
(***************************************************************************)
EXTENDS TaskQueue, StackLayout, ContextSwitch, SequenceTheorems, FiniteSetTheorems,
        TLAPS

\* The inductive invariant: the three invariants need each other.  That a push
\* overwrites no live slot needs the ring's shape; that it adds no duplicate
\* needs the queued flag to be exact; that needs the ring to have no duplicate.
QueueInv == TypeOK /\ RingShape /\ QueuedFlagExact

\* The represented sequence: its length, its elements and where they are stored.
LEMMA ContentsFacts ==
    ASSUME QueueInv
    PROVE  /\ Contents \in Seq(Tasks)
           /\ Len(Contents) = count
           /\ \A i \in 1 .. count : /\ Contents[i] = tasks[Slot(i - 1)]
                                    /\ Contents[i] \in queued
                                    /\ Contents[i] \in Tasks
                                    /\ Slot(i - 1) \in 0 .. capacity - 1
  <1> USE DEF QueueInv, TypeOK, RingShape
  <1>1. \A i \in 1 .. count : Contents[i] = tasks[Slot(i - 1)]
    BY DEF Contents
  <1>2. \A i \in 1 .. count : Contents[i] \in queued
    BY DEF QueuedFlagExact
  <1>3. \A i \in 1 .. count : Slot(i - 1) \in 0 .. capacity - 1
    BY DEF Slot
  <1>4. Contents \in [1 .. count -> Tasks]
    BY <1>2 DEF Contents
  <1>5. Contents \in Seq(Tasks) /\ Len(Contents) = count
    BY <1>4
  <1> QED
    BY <1>1, <1>2, <1>3, <1>4, <1>5

\* Storing at the tail appends: the tail is the slot behind the last live one.
LEMMA PushFitsAppends ==
    ASSUME QueueInv, NEW t \in Tasks, PushFits(t)
    PROVE  Contents' = Append(Contents, t)
  <1> USE DEF PushFits, task_queue_is_full
  <1>0. /\ capacity \in Nat \ {0} /\ head \in 0 .. capacity - 1
        /\ count \in 0 .. capacity - 1
        /\ tasks \in [0 .. capacity - 1 -> Tasks \cup {NoTask}]
    BY DEF QueueInv, TypeOK, RingShape
  <1>1. tail = Slot(count) /\ tail \in 0 .. capacity - 1
    BY <1>0 DEF QueueInv, RingShape, Slot
  <1>2. \A i \in 1 .. count : Slot(i - 1) \in 0 .. capacity - 1 /\ Slot(i - 1) # tail
    <2> TAKE i \in 1 .. count
    <2>1. /\ Slot(i - 1) = IF head + (i - 1) < capacity THEN head + (i - 1)
                           ELSE head + (i - 1) - capacity
          /\ Slot(count) = IF head + count < capacity THEN head + count
                           ELSE head + count - capacity
      BY <1>0 DEF Slot
    <2> QED
      BY <1>0, <1>1, <2>1
  <1>3. \A i \in 1 .. count + 1 :
           Contents'[i] = tasks'[Slot(i - 1)]
    BY <1>0 DEF Contents, Slot
  <1>4. \A i \in 1 .. count : Contents'[i] = Contents[i]
    BY <1>0, <1>2, <1>3 DEF Contents
  <1>5. Contents'[count + 1] = t
    BY <1>0, <1>1, <1>3
  <1>6. Contents' \in [1 .. count + 1 -> Tasks]
    <2>1. \A i \in 1 .. count + 1 : Contents'[i] \in Tasks
      BY <1>0, <1>4, <1>5, ContentsFacts
    <2>2. Contents' = [i \in 1 .. count + 1 |-> Contents'[i]]
      BY <1>0 DEF Contents
    <2> QED
      BY <2>1, <2>2
  <1>7. Contents' \in Seq(Tasks) /\ Len(Contents') = count + 1
    BY <1>0, <1>6
  <1> QED
    BY <1>0, <1>4, <1>5, <1>7, ContentsFacts, AppendProperties, SeqEqual

\* Growing straightens the ring and keeps the order; the new task comes last.
LEMMA PushGrowsAppends ==
    ASSUME QueueInv, NEW t \in Tasks, PushGrows(t)
    PROVE  Contents' = Append(Contents, t)
  <1>0. /\ capacity \in Nat \ {0} /\ head \in 0 .. capacity - 1
        /\ count = capacity
        /\ tasks \in [0 .. capacity - 1 -> Tasks \cup {NoTask}]
        /\ capacity' = 2 * capacity /\ head' = 0 /\ count' = count + 1
        /\ tasks' = [GrownTasks EXCEPT ![count] = t]
    BY DEF QueueInv, TypeOK, RingShape, PushGrows, task_queue_is_full
  <1>1. \A i \in 1 .. count + 1 : (0 + (i - 1)) % (2 * capacity) = i - 1
    BY <1>0
  <1>2. \A i \in 1 .. count + 1 : Contents'[i] = tasks'[i - 1]
    BY <1>0, <1>1 DEF Contents, Slot
  <1>3. \A i \in 1 .. count : Contents'[i] = Contents[i]
    <2> TAKE i \in 1 .. count
    <2>1. tasks'[i - 1] = GrownTasks[i - 1] /\ GrownTasks[i - 1] = tasks[Slot(i - 1)]
      BY <1>0 DEF GrownTasks
    <2> QED
      BY <1>0, <1>2, <2>1 DEF Contents
  <1>4. Contents'[count + 1] = t
    <2>1. count + 1 \in 1 .. count + 1 /\ (count + 1) - 1 = count
      BY <1>0
    <2>2. tasks'[count] = t
      BY <1>0 DEF GrownTasks
    <2> QED
      BY <1>2, <2>1, <2>2
  <1>5. count \in Nat
    BY <1>0
  <1>6. Contents' \in [1 .. count + 1 -> Tasks]
    <2>1. \A i \in 1 .. count + 1 : Contents'[i] \in Tasks
      BY <1>3, <1>4, <1>5, ContentsFacts
    <2>2. Contents' = [i \in 1 .. count + 1 |-> Contents'[i]]
      BY <1>0 DEF Contents
    <2> QED
      BY <2>1, <2>2
  <1>7. Contents' \in Seq(Tasks) /\ Len(Contents') = count + 1
    BY <1>5, <1>6
  <1> QED
    BY <1>3, <1>4, <1>5, <1>7, ContentsFacts, AppendProperties, SeqEqual

\* A pop removes the oldest task and hands it over.
LEMMA PopTakesHead ==
    ASSUME QueueInv, task_queue_pop
    PROVE  /\ Contents # << >>
           /\ out' = Head(Contents)
           /\ Contents' = Tail(Contents)
  <1> USE DEF task_queue_pop, next_index
  <1>0. /\ capacity \in Nat \ {0} /\ head \in 0 .. capacity - 1
        /\ count \in 1 .. capacity
    BY DEF QueueInv, TypeOK, RingShape
  <1>1. Contents # << >> /\ Head(Contents) = Contents[1]
    BY <1>0, ContentsFacts
  <1>2. out' = Contents[1]
    <2>1. (head + 0) % capacity = head
      BY <1>0
    <2> QED
      BY <1>0, <2>1 DEF Contents, Slot
  <1>3. \A i \in 1 .. count - 1 :
           (((head + 1) % capacity) + (i - 1)) % capacity = (head + i) % capacity
    <2> TAKE i \in 1 .. count - 1
    <2>1. /\ (head + 1) % capacity = IF head + 1 < capacity THEN head + 1 ELSE 0
          /\ (head + i) % capacity = IF head + i < capacity THEN head + i
                                     ELSE head + i - capacity
      BY <1>0
    <2>2. CASE head + 1 < capacity
      BY <1>0, <2>1, <2>2
    <2>3. CASE head + 1 >= capacity
      BY <1>0, <2>1, <2>3
    <2> QED
      BY <1>0, <2>2, <2>3
  <1>4. \A i \in 1 .. count - 1 : Contents'[i] = Contents[i + 1]
    <2> TAKE i \in 1 .. count - 1
    <2>1. Contents'[i] = tasks[(((head + 1) % capacity) + (i - 1)) % capacity]
      BY <1>0 DEF Contents, Slot
    <2>2. Contents[i + 1] = tasks[(head + i) % capacity]
      <3>1. i + 1 \in 1 .. count /\ (i + 1) - 1 = i
        BY <1>0
      <3> QED
        BY <3>1 DEF Contents, Slot
    <2> QED
      BY <1>3, <2>1, <2>2
  <1>6. Contents' \in [1 .. count - 1 -> Tasks]
    <2>1. \A i \in 1 .. count - 1 : Contents'[i] \in Tasks
      <3> TAKE i \in 1 .. count - 1
      <3>1. i + 1 \in 1 .. count
        BY <1>0
      <3> QED
        BY <1>4, <3>1, ContentsFacts
    <2>2. Contents' = [i \in 1 .. count - 1 |-> Contents'[i]]
      BY <1>0 DEF Contents
    <2> QED
      BY <2>1, <2>2
  <1>7. Contents' \in Seq(Tasks) /\ Len(Contents') = count - 1
    BY <1>0, <1>6
  <1>8. Contents' = Tail(Contents)
    <2>1. /\ Tail(Contents) \in Seq(Tasks)
          /\ Len(Tail(Contents)) = count - 1
          /\ \A i \in 1 .. count - 1 : Tail(Contents)[i] = Contents[i + 1]
      BY <1>0, <1>1, ContentsFacts, HeadTailProperties
    <2> QED
      BY <1>4, <1>7, <2>1, SeqEqual
  <1> QED
    BY <1>1, <1>2, <1>8

\* No task is in the ring twice (the last conjunct of RingShape).
NoDuplicate == \A i, j \in 1 .. count : Contents[i] = Contents[j] => i = j

\* Appending a task whose flag is clear keeps the flag exact and the tasks apart.
LEMMA AppendKeepsFlag ==
    ASSUME QueueInv, NEW t \in Tasks, t \notin queued,
           Contents' = Append(Contents, t),
           count' = count + 1, queued' = queued \cup {t}
    PROVE  QueuedFlagExact' /\ NoDuplicate'
  <1>1. /\ count \in Nat
        /\ queued = {Contents[i] : i \in 1 .. count}
        /\ \A i, j \in 1 .. count : Contents[i] = Contents[j] => i = j
    BY DEF QueueInv, TypeOK, QueuedFlagExact, RingShape
  <1>2. /\ \A i \in 1 .. count : Contents'[i] = Contents[i]
        /\ Contents'[count + 1] = t
    BY ContentsFacts, AppendProperties
  <1>3. \A i \in 1 .. count : Contents[i] # t
    BY <1>1
  <1>4. QueuedFlagExact'
    BY <1>1, <1>2 DEF QueuedFlagExact
  <1>5. NoDuplicate'
    BY <1>1, <1>2, <1>3 DEF NoDuplicate
  <1> QED
    BY <1>4, <1>5

\* Taking the head clears the flag of exactly the task that left.
LEMMA TailKeepsFlag ==
    ASSUME QueueInv, Contents # << >>, Contents' = Tail(Contents),
           count' = count - 1, queued' = queued \ {Head(Contents)}
    PROVE  QueuedFlagExact' /\ NoDuplicate'
  <1>1. /\ count \in Nat
        /\ queued = {Contents[i] : i \in 1 .. count}
        /\ \A i, j \in 1 .. count : Contents[i] = Contents[j] => i = j
    BY DEF QueueInv, TypeOK, QueuedFlagExact, RingShape
  <1>2. /\ count \in Nat \ {0} /\ Head(Contents) = Contents[1]
        /\ \A i \in 1 .. count - 1 : Contents'[i] = Contents[i + 1]
    BY ContentsFacts, HeadTailProperties
  <1>3. \A i \in 1 .. count - 1 : i + 1 \in 1 .. count
    BY <1>2
  <1>4. QueuedFlagExact'
    <2>1. ASSUME NEW x \in queued, x # Contents[1]
          PROVE  \E i \in 1 .. count - 1 : x = Contents[i + 1]
      <3>1. PICK j \in 1 .. count : x = Contents[j]
        BY <1>1
      <3>2. j - 1 \in 1 .. count - 1 /\ (j - 1) + 1 = j
        BY <1>2, <2>1, <3>1
      <3> QED
        BY <3>1, <3>2
    <2>2. \A i \in 1 .. count - 1 : Contents[i + 1] \in queued \ {Contents[1]}
      BY <1>1, <1>2, <1>3
    <2>3. queued' = {Contents'[i] : i \in 1 .. count - 1}
      <3>1. ASSUME NEW x \in queued' PROVE \E i \in 1 .. count - 1 : x = Contents'[i]
        BY <1>2, <2>1, <3>1
      <3>2. ASSUME NEW i \in 1 .. count - 1 PROVE Contents'[i] \in queued'
        BY <1>2, <2>2, <3>2
      <3> DEFINE rest == {Contents'[i] : i \in 1 .. count - 1}
      <3>3. queued' \subseteq rest
        BY <3>1
      <3>4. rest \subseteq queued'
        BY <3>2
      <3> QED
        BY <3>3, <3>4
    <2> QED
      BY <2>3 DEF QueuedFlagExact
  <1>5. NoDuplicate'
    <2> SUFFICES ASSUME NEW i \in 1 .. count - 1, NEW j \in 1 .. count - 1,
                        Contents'[i] = Contents'[j]
                 PROVE  i = j
      BY DEF NoDuplicate
    <2>1. i + 1 \in 1 .. count /\ j + 1 \in 1 .. count
      BY <1>3
    <2>2. Contents[i + 1] = Contents[j + 1]
      BY <1>2
    <2>3. i + 1 = j + 1
      BY <1>1, <2>1, <2>2
    <2> QED
      BY <1>2, <2>3
  <1> QED
    BY <1>4, <1>5

LEMMA InitEstablishesQueueInv == Init => QueueInv
  <1> SUFFICES ASSUME Init PROVE QueueInv
    OBVIOUS
  <1>1. capacity \in Nat \ {0}
    BY QueueAssumption DEF Init
  <1>2. TypeOK
    BY <1>1 DEF Init, TypeOK
  <1>3. RingShape
    BY <1>1 DEF Init, RingShape
  <1>4. QueuedFlagExact
    BY DEF Init, QueuedFlagExact
  <1> QED
    BY <1>2, <1>3, <1>4 DEF QueueInv

LEMMA NextKeepsQueueInv == QueueInv /\ [Next]_queueVars => QueueInv'
  <1> SUFFICES ASSUME QueueInv, [Next]_queueVars PROVE QueueInv'
    OBVIOUS
  <1>0. /\ capacity \in Nat /\ head \in Nat /\ tail \in Nat /\ count \in Nat
        /\ tasks \in [0 .. capacity - 1 -> Tasks \cup {NoTask}]
        /\ queued \subseteq Tasks /\ out \in Tasks \cup {NoTask}
        /\ count <= capacity
        /\ capacity # 0 => head < capacity /\ tail = (head + count) % capacity
    BY DEF QueueInv, TypeOK, RingShape
  <1>1. ASSUME NEW t \in Tasks, PushFits(t) PROVE QueueInv'
    <2>1. Contents' = Append(Contents, t)
      BY <1>1, PushFitsAppends
    <2>2. QueuedFlagExact' /\ NoDuplicate'
      BY <1>1, <2>1, AppendKeepsFlag DEF PushFits
    <2>3. TypeOK'
      BY <1>0, <1>1 DEF PushFits, next_index, TypeOK
    <2>4. tail' = (head + (count + 1)) % capacity
      BY <1>0, <1>1 DEF PushFits, next_index, task_queue_is_full
    <2>5. RingShape'
      BY <1>0, <1>1, <2>2, <2>4
         DEF PushFits, task_queue_is_full, RingShape, NoDuplicate
    <2> QED
      BY <2>2, <2>3, <2>5 DEF QueueInv
  <1>2. ASSUME NEW t \in Tasks, PushGrows(t) PROVE QueueInv'
    <2>1. Contents' = Append(Contents, t)
      BY <1>2, PushGrowsAppends
    <2>2. QueuedFlagExact' /\ NoDuplicate'
      BY <1>2, <2>1, AppendKeepsFlag DEF PushGrows
    <2>3. TypeOK'
      <3>1. \A i \in 0 .. count - 1 : Slot(i) \in 0 .. capacity - 1
        BY <1>0, <1>2 DEF PushGrows, Slot
      <3>2. GrownTasks \in [0 .. 2 * capacity - 1 -> Tasks \cup {NoTask}]
        BY <1>0, <3>1 DEF GrownTasks
      <3> QED
        BY <1>0, <1>2, <3>2 DEF PushGrows, TypeOK
    <2>4. RingShape'
      BY <1>0, <1>2, <2>2
         DEF PushGrows, task_queue_is_full, RingShape, NoDuplicate
    <2> QED
      BY <2>2, <2>3, <2>4 DEF QueueInv
  <1>3. CASE task_queue_pop
    <2>1. Contents # << >> /\ out' = Head(Contents) /\ Contents' = Tail(Contents)
      BY <1>3, PopTakesHead
    <2>2. QueuedFlagExact' /\ NoDuplicate'
      BY <1>3, <2>1, TailKeepsFlag DEF task_queue_pop
    <2>3. TypeOK'
      <3>1. out' \in Tasks
        BY <2>1, ContentsFacts, HeadTailProperties
      <3> QED
        BY <1>0, <1>3, <3>1 DEF task_queue_pop, next_index, TypeOK
    <2>4. tail' = (((head + 1) % capacity) + (count - 1)) % capacity
      <3>1. capacity \in Nat \ {0} /\ count \in Nat \ {0}
        BY <1>0, <1>3 DEF task_queue_pop
      <3>2. CASE head + 1 < capacity
        BY <1>0, <1>3, <3>1, <3>2 DEF task_queue_pop
      <3>3. CASE head + 1 >= capacity
        BY <1>0, <1>3, <3>1, <3>3 DEF task_queue_pop
      <3> QED
        BY <1>0, <3>2, <3>3
    <2>5. RingShape'
      <3>1. capacity' = capacity /\ capacity \in Nat \ {0} /\ count' = count - 1
        BY <1>0, <1>3 DEF task_queue_pop
      <3>2. head' = (head + 1) % capacity
        BY <1>3 DEF task_queue_pop, next_index
      <3>3. head' < capacity' /\ count' <= capacity'
        BY <1>0, <3>1, <3>2
      <3>4. tail' = (head' + count') % capacity'
        BY <2>4, <3>1, <3>2
      <3> QED
        BY <2>2, <3>1, <3>3, <3>4 DEF RingShape, NoDuplicate
    <2> QED
      BY <2>2, <2>3, <2>5 DEF QueueInv
  <1>4. CASE task_queue_deinit
    <2>1. queued = {}
      BY <1>4 DEF task_queue_deinit, QueueInv, QueuedFlagExact
    <2>2. TypeOK'
      BY <1>0, <1>4 DEF task_queue_deinit, TypeOK
    <2>3. RingShape' /\ QueuedFlagExact'
      BY <1>4, <2>1 DEF task_queue_deinit, RingShape, QueuedFlagExact
    <2> QED
      BY <2>2, <2>3 DEF QueueInv
  <1>5. CASE UNCHANGED queueVars
    BY <1>5 DEF queueVars, QueueInv, TypeOK, RingShape, QueuedFlagExact,
                Contents, Slot
  <1> QED
    BY <1>1, <1>2, <1>3, <1>4, <1>5 DEF Next

\* The shape of the ring, its types and the exactness of the queued flag hold in
\* every state, through any number of pushes, growths and pops.
THEOREM QueueInvariant == Spec => [](TypeOK /\ RingShape /\ QueuedFlagExact)
  <1>1. QueueInv => TypeOK /\ RingShape /\ QueuedFlagExact
    BY DEF QueueInv
  <1> QED
    BY <1>1, InitEstablishesQueueInv, NextKeepsQueueInv, PTL DEF Spec

\* The fields of struct TaskQueue keep their types: no index leaves the array,
\* whatever is pushed and however often it grows.
THEOREM QueueTypeCorrect == Spec => []TypeOK
  BY QueueInvariant, PTL

\* task->scheduler.queued is set for exactly the tasks in the ring, each of which
\* is there once.
THEOREM QueuedFlagIsExact == Spec => []QueuedFlagExact
  BY QueueInvariant, PTL

\* task_queue_push and task_queue_pop implement a FIFO queue that holds a task at
\* most once: every step of the ring is a push, a pop or nothing in FifoQueue.
THEOREM RingImplementsFifo == Spec => ImplementsFifo
  <1>1. Init => Fifo!Init
    <2> SUFFICES ASSUME Init PROVE Contents = << >> /\ out = NoTask
      BY DEF Fifo!Init
    <2>1. QueueInv
      BY InitEstablishesQueueInv
    <2>2. count = 0 /\ out = NoTask
      BY DEF Init
    <2> QED
      BY <2>1, <2>2, ContentsFacts
  <1>2. QueueInv /\ [Next]_queueVars => [Fifo!Next]_(Fifo!fifoVars)
    <2> SUFFICES ASSUME QueueInv, [Next]_queueVars
                 PROVE  Fifo!Next \/ UNCHANGED <<Contents, out>>
      BY DEF Fifo!fifoVars
    <2>1. ASSUME NEW t \in Tasks, PushFits(t) \/ PushGrows(t) PROVE Fifo!Push(t)
      <3>1. Contents' = Append(Contents, t)
        BY <2>1, PushFitsAppends, PushGrowsAppends
      <3>2. t \notin queued /\ UNCHANGED out
        BY <2>1 DEF PushFits, PushGrows
      <3>3. \A i \in DOMAIN Contents : Contents[i] # t
        BY <3>2, ContentsFacts
      <3> QED
        BY <3>1, <3>2, <3>3 DEF Fifo!Push
    <2>2. CASE task_queue_pop
      BY <2>2, PopTakesHead DEF Fifo!Next, Fifo!Pop
    <2>3. CASE task_queue_deinit
      <3>1. QueueInv'
        BY NextKeepsQueueInv
      <3>2. count = 0 /\ count' = 0 /\ UNCHANGED out
        BY <2>3 DEF task_queue_deinit
      <3>3. Contents = << >> /\ Contents' = << >>
        BY <3>2 DEF Contents
      <3> QED
        BY <3>2, <3>3
    <2>4. CASE UNCHANGED queueVars
      BY <2>4 DEF queueVars, Contents, Slot
    <2> QED
      BY <2>1, <2>2, <2>3, <2>4 DEF Next, Fifo!Next
  <1>3. Spec => []QueueInv
    BY InitEstablishesQueueInv, NextKeepsQueueInv, PTL DEF Spec
  <1> QED
    BY <1>1, <1>2, <1>3, PTL DEF Spec, Fifo!Spec, ImplementsFifo
-----------------------------------------------------------------------------
(***************************************************************************)
(* Multiples.                                                              *)
(***************************************************************************)
\* Multiplication is monotonic.
LEMMA TimesMonotone ==
    ASSUME NEW x \in Nat, NEW y \in Nat, NEW P \in Nat, x <= y
    PROVE  x * P <= y * P
  <1>1. PICK d \in Nat : y = x + d
    BY y - x \in Nat
  <1>2. y * P = x * P + d * P /\ d * P \in Nat
    BY <1>1
  <1> QED
    BY <1>2

\* Division with remainder.
LEMMA Division ==
    ASSUME NEW a \in Nat, NEW P \in Nat \ {0}
    PROVE  /\ a \div P \in Nat
           /\ a % P \in 0 .. P - 1
           /\ a = (a \div P) * P + (a % P)
  OBVIOUS

\* The quotient is determined by the multiples next to a number.
LEMMA Quotient ==
    ASSUME NEW a \in Nat, NEW P \in Nat \ {0}, NEW q \in Nat, NEW r \in 0 .. P - 1,
           a = q * P + r
    PROVE  a \div P = q /\ a % P = r
  <1> DEFINE d == a \div P
  <1>1. d \in Nat /\ a % P \in 0 .. P - 1 /\ a = d * P + (a % P)
    BY Division
  <1> HIDE DEF d
  <1>2. ~ (d < q)
    <2> SUFFICES ASSUME d < q PROVE FALSE
      OBVIOUS
    <2>1. (d + 1) * P <= q * P
      BY <1>1, TimesMonotone
    <2>2. (d + 1) * P = d * P + P
      BY <1>1
    <2> QED
      BY <1>1, <2>1, <2>2
  <1>3. ~ (q < d)
    <2> SUFFICES ASSUME q < d PROVE FALSE
      OBVIOUS
    <2>1. (q + 1) * P <= d * P
      BY <1>1, TimesMonotone
    <2>2. (q + 1) * P = q * P + P
      OBVIOUS
    <2> QED
      BY <1>1, <2>1, <2>2
  <1>4. d = q
    BY <1>1, <1>2, <1>3
  <1>5. a % P = r
    BY <1>1, <1>4
  <1> QED
    BY <1>4, <1>5 DEF d

\* A quotient lies between those of the multiples around a number.
LEMMA QuotientBetween ==
    ASSUME NEW a \in Nat, NEW P \in Nat \ {0}, NEW lo \in Nat, NEW hi \in Nat,
           lo * P <= a, a < hi * P
    PROVE  a \div P \in lo .. hi - 1
  <1> DEFINE d == a \div P
  <1>1. d \in Nat /\ a % P \in 0 .. P - 1 /\ a = d * P + (a % P)
    BY Division
  <1> HIDE DEF d
  <1>2. d * P \in Nat /\ lo * P \in Nat /\ hi * P \in Nat
    BY <1>1
  <1>3. ~ (d < lo)
    <2> SUFFICES ASSUME d < lo PROVE FALSE
      OBVIOUS
    <2>1. (d + 1) * P <= lo * P
      BY <1>1, TimesMonotone
    <2>2. (d + 1) * P = d * P + P
      BY <1>1
    <2> QED
      BY <1>1, <1>2, <2>1, <2>2
  <1>4. ~ (hi <= d)
    <2> SUFFICES ASSUME hi <= d PROVE FALSE
      OBVIOUS
    <2>1. hi * P <= d * P
      BY <1>1, TimesMonotone
    <2> QED
      BY <1>1, <1>2, <2>1
  <1>5. d \in lo .. hi - 1
    BY <1>1, <1>3, <1>4
  <1> QED
    BY <1>5 DEF d

\* An interval of numbers below K.
LEMMA IntervalOf ==
    ASSUME NEW K \in Nat, NEW p \in Nat, NEW c \in Nat, p + c <= K
    PROVE  {i \in 0 .. K - 1 : p <= i /\ i < p + c} = p .. p + c - 1
  OBVIOUS
-----------------------------------------------------------------------------
(***************************************************************************)
(* The stacks of tasks (module StackLayout).                               *)
(***************************************************************************)
Length == get_stack_mapping_size(configured_stack_size)
Holders == {t \in TaskSlots : stack[t] # NoStack}
RangeOf(t) == PagesOf(stack[t].base, Length)

\* The mapping of a task, and what worker_spawn has filled in.
Filled(t) ==
    /\ stack[t].base % PageSize = 0
    /\ RangeOf(t) # {} /\ stack[t].base + Length < SizeMod
    /\ pc[t] \in {"protected", "ready"} => stack[t].stack = stack[t].base + PageSize
    /\ pc[t] = "ready" =>
          /\ stack[t].size = configured_stack_size
          /\ stack[t].sp = [r \in Reserves |->
                create_context_sp(stack[t].stack, configured_stack_size, r)]

\* TaskSlots in the middle of their life have a mapping, and no two share a page.
Mappings ==
    /\ configured_stack_size \in StackSizes /\ configured_stack_size >= MinStackSize
    /\ \A t \in TaskSlots : stack[t] # NoStack <=> pc[t] \in {"mapped", "protected", "ready"}
    /\ \A t \in Holders : Filled(t)
    /\ \A t, u \in Holders : t # u => RangeOf(t) \cap RangeOf(u) = {}

\* What is mapped and guarded belongs to tasks.
Owned ==
    /\ \A x \in Pages : x \in mapped <=> \E t \in Holders : x \in RangeOf(t)
    /\ \A x \in Pages : x \in guarded <=>
          \E t \in Holders : pc[t] # "mapped" /\ x \in GuardPage(t)

\* As many pages are mapped as the tasks have.
Fits(pages, owners, length) ==
    /\ IsFiniteSet(pages) /\ IsFiniteSet(owners)
    /\ Cardinality(pages) * PageSize = Cardinality(owners) * length

Counted == Fits(mapped, Holders, Length)

StackInv == StackTypeOK /\ Mappings /\ Owned /\ Counted

\* The pages of a range of whole pages that fits into the address space.
LEMMA PagesOfRange ==
    ASSUME NEW p \in Nat, NEW c \in Nat, (p + c) * PageSize <= SizeMod
    PROVE  PagesOf(p * PageSize, c * PageSize) = p .. p + c - 1
  <1> DEFINE K == SizeMod \div PageSize
  <1>1. SizeMod \in Nat /\ PageSize \in Nat \ {0} /\ SizeMod % PageSize = 0
    BY StackAssumption
  <1>2. K \in Nat /\ SizeMod = K * PageSize
    BY <1>1, Division
  <1> HIDE DEF K
  <1>3. (p * PageSize) \div PageSize = p
    <2>1. p * PageSize \in Nat /\ p * PageSize = p * PageSize + 0 /\ 0 \in 0 .. PageSize - 1
      BY <1>1
    <2> QED
      BY <1>1, <2>1, Quotient
  <1>4. (c * PageSize + PageSize - 1) \div PageSize = c
    <2>1. /\ c * PageSize + PageSize - 1 \in Nat /\ PageSize - 1 \in 0 .. PageSize - 1
          /\ c * PageSize + PageSize - 1 = c * PageSize + (PageSize - 1)
      BY <1>1
    <2> QED
      BY <1>1, <2>1, Quotient
  <1>5. p + c <= K
    <2> SUFFICES ASSUME K + 1 <= p + c PROVE FALSE
      BY <1>2
    <2>1. (K + 1) * PageSize <= (p + c) * PageSize
      BY <1>1, <1>2, TimesMonotone
    <2>2. (K + 1) * PageSize = K * PageSize + PageSize
      BY <1>1, <1>2
    <2> QED
      BY <1>1, <1>2, <2>1, <2>2
  <1>6. PagesOf(p * PageSize, c * PageSize)
          = {i \in 0 .. K - 1 : p <= i /\ i < p + c}
    BY <1>3, <1>4 DEF PagesOf, Pages, K
  <1>7. {i \in 0 .. K - 1 : p <= i /\ i < p + c} = p .. p + c - 1
    BY <1>2, <1>5, IntervalOf
  <1> QED
    BY <1>6, <1>7, Zenon

\* A mapping has whole pages.  When neither the size nor the mapping wraps, they are
\* the guard page and enough for the stack.
LEMMA MappingSize ==
    ASSUME NEW n \in 0 .. SizeMod - 1
    PROVE  \E c \in Nat :
              /\ get_stack_mapping_size(n) = c * PageSize
              /\ c * PageSize < SizeMod
              /\ n <= SizeMod - PageSize /\ c # 0 => n <= (c - 1) * PageSize
  <1> DEFINE K == SizeMod \div PageSize
             v == (n + PageSize - 1) % SizeMod
             a == v \div PageSize
             q == (1 + a) \div K
             c == (1 + a) % K
  <1>1. SizeMod \in Nat \ {0} /\ PageSize \in Nat \ {0} /\ SizeMod % PageSize = 0
    BY StackAssumption
  <1>2. K \in Nat \ {0} /\ SizeMod = K * PageSize
    BY <1>1, Division
  <1>3. v \in 0 .. SizeMod - 1
    <2>1. n + PageSize - 1 \in Nat
      BY <1>1
    <2> QED
      BY <1>1, <2>1, Division
  <1>4. a \in Nat /\ v % PageSize \in 0 .. PageSize - 1 /\ v = a * PageSize + (v % PageSize)
    <2>1. v \in Nat
      BY <1>1, <1>3
    <2> HIDE DEF v
    <2> QED
      BY <1>1, <2>1, Division
  <1>5. get_stack_mapping_size(n) = (PageSize + a * PageSize) % SizeMod
    BY DEF get_stack_mapping_size, align_up, Masked
  <1> HIDE DEF K, a
  <1>6. q \in Nat /\ c \in 0 .. K - 1 /\ 1 + a = q * K + c
    <2>1. 1 + a \in Nat
      BY <1>4
    <2> QED
      BY <1>2, <2>1, Division
  <1> HIDE DEF q, c
  <1>7. c * PageSize \in 0 .. SizeMod - 1
    <2>1. c * PageSize <= (K - 1) * PageSize
      BY <1>1, <1>2, <1>6, TimesMonotone
    <2>2. (K - 1) * PageSize = K * PageSize - PageSize
      BY <1>1, <1>2
    <2>3. c * PageSize \in Nat
      BY <1>1, <1>6
    <2> QED
      BY <1>1, <1>2, <2>1, <2>2, <2>3
  <1>8. PageSize + a * PageSize = q * SizeMod + c * PageSize
    <2>1. PageSize + a * PageSize = (q * K + c) * PageSize
      BY <1>1, <1>4, <1>6
    <2>2. (q * K + c) * PageSize = (q * K) * PageSize + c * PageSize
      BY <1>1, <1>2, <1>6
    <2>3. (q * K) * PageSize = q * (K * PageSize)
      BY <1>1, <1>2, <1>6
    <2> QED
      BY <1>2, <2>1, <2>2, <2>3
  <1>9. get_stack_mapping_size(n) = c * PageSize
    <2>1. PageSize + a * PageSize \in Nat
      BY <1>1, <1>4
    <2> QED
      BY <1>1, <1>5, <1>6, <1>7, <1>8, <2>1, Quotient
  <1>10. ASSUME n <= SizeMod - PageSize, c # 0
         PROVE  n <= (c - 1) * PageSize
    <2>1. v = n + PageSize - 1
      BY <1>1, <1>10 DEF v
    <2>2. a + 1 <= K
      <3> SUFFICES ASSUME K <= a PROVE FALSE
        BY <1>2, <1>4
      <3>1. K * PageSize <= a * PageSize
        BY <1>1, <1>2, <1>4, TimesMonotone
      <3>2. a * PageSize \in Nat
        BY <1>1, <1>4
      <3> QED
        BY <1>1, <1>2, <1>3, <1>4, <3>1, <3>2
    <2>3. a + 1 # K
      <3> SUFFICES ASSUME a + 1 = K PROVE FALSE
        OBVIOUS
      <3>1. 1 + a = 1 * K + 0 /\ 1 + a \in Nat
        BY <1>2, <1>4
      <3>2. (1 + a) % K = 0
        BY <1>2, <3>1, Quotient
      <3> QED
        BY <1>10, <3>2 DEF c
    <2>4. c = a + 1
      <3>1. 1 + a = 0 * K + (1 + a) /\ 1 + a \in 0 .. K - 1
        BY <1>2, <1>4, <2>2, <2>3
      <3>2. (1 + a) % K = 1 + a
        BY <1>2, <3>1, Quotient
      <3> QED
        BY <1>4, <3>2 DEF c
    <2>5. c - 1 = a
      BY <1>4, <2>4
    <2>6. a * PageSize \in Nat
      BY <1>1, <1>4
    <2> QED
      BY <1>1, <1>4, <2>1, <2>5, <2>6
  <1>11. c \in Nat /\ c * PageSize < SizeMod
    BY <1>1, <1>2, <1>6, <1>7
  <1> QED
    BY <1>9, <1>10, <1>11, Zenon

\* The number of pages of every mapping, and the first one of a task.
Count == Length \div PageSize
First(t) == stack[t].base \div PageSize

\* What MappingSize says of the configured size.
LEMMA LengthFacts ==
    ASSUME configured_stack_size \in StackSizes
    PROVE  /\ Count \in Nat /\ Length \in Nat /\ Length = Count * PageSize
           /\ Length < SizeMod
           /\ configured_stack_size <= SizeMod - PageSize /\ Count # 0
                => configured_stack_size <= (Count - 1) * PageSize
  <1>1. SizeMod \in Nat \ {0} /\ PageSize \in Nat \ {0}
        /\ configured_stack_size \in 0 .. SizeMod - 1
    BY StackAssumption
  <1>2. PICK c \in Nat :
              /\ Length = c * PageSize
              /\ c * PageSize < SizeMod
              /\ configured_stack_size <= SizeMod - PageSize /\ c # 0
                    => configured_stack_size <= (c - 1) * PageSize
    BY <1>1, MappingSize DEF Length
  <1>3. c * PageSize \in Nat /\ c * PageSize = c * PageSize + 0 /\ 0 \in 0 .. PageSize - 1
    BY <1>1
  <1>4. Count = c
    BY <1>1, <1>2, <1>3, Quotient DEF Count
  <1> QED
    BY <1>2, <1>3, <1>4

\* The pages of a mapping that mmap returned, and its guard page.
LEMMA RangeFacts ==
    ASSUME configured_stack_size \in StackSizes,
           NEW base \in Nat, base % PageSize = 0,
           PagesOf(base, Length) # {}, base + Length < SizeMod
    PROVE  LET p == base \div PageSize
           IN  /\ p \in Nat /\ base = p * PageSize
               /\ Count \in Nat \ {0}
               /\ (p + Count) * PageSize < SizeMod
               /\ base + PageSize < SizeMod
               /\ PagesOf(base, Length) = p .. p + Count - 1
               /\ PagesOf(base, PageSize) = {p}
  <1> DEFINE p == base \div PageSize
  <1>1. SizeMod \in Nat \ {0} /\ PageSize \in Nat \ {0}
    BY StackAssumption
  <1>2. Count \in Nat /\ Length = Count * PageSize
    BY LengthFacts
  <1>3. p \in Nat /\ base = p * PageSize
    <2>1. p \in Nat /\ base = p * PageSize + (base % PageSize)
      BY <1>1, Division, Zenon
    <2> HIDE DEF p
    <2> QED
      BY <1>1, <2>1
  <1> HIDE DEF p
  <1>4. (p + Count) * PageSize = base + Length
    BY <1>1, <1>2, <1>3
  <1>5. (p + Count) * PageSize < SizeMod /\ (p + Count) * PageSize <= SizeMod
    BY <1>1, <1>2, <1>3, <1>4
  <1>6. PagesOf(base, Length) = p .. p + Count - 1
    <2>1. PagesOf(p * PageSize, Count * PageSize) = p .. p + Count - 1
      BY <1>2, <1>3, <1>5, PagesOfRange, Zenon
    <2> QED
      BY <1>2, <1>3, <2>1, Zenon
  <1>7. Count # 0
    BY <1>2, <1>3, <1>6
  <1>8. (p + 1) * PageSize <= (p + Count) * PageSize
    BY <1>1, <1>2, <1>3, <1>7, TimesMonotone
  <1>9. (p + 1) * PageSize = base + PageSize /\ PageSize = 1 * PageSize
    BY <1>1, <1>3
  <1>10. base + PageSize < SizeMod
    BY <1>1, <1>4, <1>5, <1>8, <1>9, <1>2
  <1>11. PagesOf(base, PageSize) = p .. p + 1 - 1
    <2>1. (p + 1) * PageSize <= SizeMod /\ 1 \in Nat
      BY <1>1, <1>3, <1>9, <1>10
    <2>2. PagesOf(p * PageSize, 1 * PageSize) = p .. p + 1 - 1
      BY <1>3, <2>1, PagesOfRange, Zenon
    <2> QED
      BY <1>3, <1>9, <2>2, Zenon
  <1>12. p .. p + 1 - 1 = {p}
    BY <1>3
  <1> QED
    BY <1>2, <1>3, <1>5, <1>6, <1>7, <1>10, <1>11, <1>12 DEF p

\* The mapping of a task.
LEMMA HolderFacts ==
    ASSUME StackTypeOK, Mappings, NEW t \in Holders
    PROVE  /\ t \in TaskSlots /\ stack[t] \in Stacks
           /\ pc[t] \in {"mapped", "protected", "ready"}
           /\ stack[t].base \in Nat
           /\ First(t) \in Nat /\ stack[t].base = First(t) * PageSize
           /\ Count \in Nat \ {0}
           /\ stack[t].base + PageSize < SizeMod
           /\ RangeOf(t) = First(t) .. First(t) + Count - 1
           /\ GuardPage(t) = {First(t)}
  <1>1. t \in TaskSlots /\ stack[t] \in Stacks /\ pc[t] \in {"mapped", "protected", "ready"}
    BY DEF Holders, StackTypeOK, Mappings
  <1>2. stack[t].base \in Nat
    BY <1>1 DEF Stacks, Addresses
  <1>3. Filled(t) /\ configured_stack_size \in StackSizes
    BY DEF Mappings
  <1> QED
    BY <1>1, <1>2, <1>3, RangeFacts DEF Filled, RangeOf, GuardPage, First

\* The stack of a task that is ready begins above its guard page.
LEMMA ReadyFacts ==
    ASSUME StackTypeOK, Mappings, NEW t \in TaskSlots, pc[t] = "ready"
    PROVE  /\ t \in Holders
           /\ stack[t].stack = (First(t) + 1) * PageSize
           /\ stack[t].size = configured_stack_size
           /\ (First(t) + Count) * PageSize < SizeMod
           /\ Usable(t) = First(t) + 1 .. First(t) + Count - 1
  <1> DEFINE p == First(t)
  <1>1. t \in Holders
    BY DEF Mappings, Holders
  <1>2. /\ SizeMod \in Nat /\ PageSize \in Nat \ {0}
        /\ p \in Nat /\ Count \in Nat \ {0} /\ stack[t].base = p * PageSize
    BY StackAssumption, <1>1, HolderFacts
  <1>3. /\ stack[t].stack = stack[t].base + PageSize
        /\ stack[t].size = configured_stack_size /\ stack[t].base + Length < SizeMod
    BY <1>1 DEF Mappings, Filled
  <1>4. Length = Count * PageSize
    BY LengthFacts DEF Mappings
  <1> HIDE DEF p
  <1>5. stack[t].stack = (p + 1) * PageSize
    BY <1>2, <1>3
  <1>6. (p + Count) * PageSize < SizeMod
    BY <1>2, <1>3, <1>4
  <1>7. Length - PageSize = (Count - 1) * PageSize
    BY <1>2, <1>4
  <1>8. PagesOf((p + 1) * PageSize, (Count - 1) * PageSize)
          = p + 1 .. p + 1 + (Count - 1) - 1
    <2>1. /\ p + 1 \in Nat /\ Count - 1 \in Nat /\ p + 1 + (Count - 1) = p + Count
          /\ (p + Count) * PageSize <= SizeMod
      BY <1>2, <1>6
    <2> HIDE DEF First
    <2> QED
      BY <2>1, PagesOfRange
  <1>9. p + 1 + (Count - 1) - 1 = p + Count - 1
    BY <1>2
  <1>10. Usable(t) = p + 1 .. p + Count - 1
    BY <1>3, <1>5, <1>7, <1>8, <1>9, Zenon DEF Usable, Length
  <1> QED
    BY <1>1, <1>3, <1>5, <1>6, <1>10 DEF p

\* Where create_context puts the stack pointer, when the stack does not wrap.
LEMMA StackPointer ==
    ASSUME NEW s \in Nat, NEW n \in Nat, NEW r \in Reserves,
           s + n < SizeMod, n >= MinStackSize
    PROVE  /\ create_context_sp(s, n, r) \in Nat
           /\ create_context_sp(s, n, r) % Alignment = 0
           /\ s < create_context_sp(s, n, r)
           /\ create_context_sp(s, n, r) + r <= s + n
  <1> DEFINE y == s + n - r
             k == y \div Alignment
  <1>1. /\ SizeMod \in Nat \ {0} /\ Alignment \in Nat \ {0} /\ r \in Nat
        /\ MinStackSize \in Nat /\ r + Alignment < MinStackSize
    BY StackAssumption
  <1>2. y \in 0 .. SizeMod - 1 /\ s + Alignment < y
    BY <1>1
  <1>3. (s + n + SizeMod - r) % SizeMod = y
    <2>1. s + n + SizeMod - r = 1 * SizeMod + y /\ s + n + SizeMod - r \in Nat
      BY <1>1, <1>2
    <2> QED
      BY <1>1, <1>2, <2>1, Quotient
  <1>4. create_context_sp(s, n, r) = k * Alignment
    BY <1>3 DEF create_context_sp, Masked
  <1> HIDE DEF y
  <1>5. k \in Nat /\ y % Alignment \in 0 .. Alignment - 1 /\ y = k * Alignment + (y % Alignment)
    <2>1. y \in Nat
      BY <1>1, <1>2
    <2> QED
      BY <1>1, <2>1, Division
  <1> HIDE DEF k
  <1>6. k * Alignment \in Nat /\ k * Alignment = k * Alignment + 0 /\ 0 \in 0 .. Alignment - 1
    BY <1>1, <1>5
  <1>7. (k * Alignment) % Alignment = 0
    BY <1>1, <1>5, <1>6, Quotient
  <1>8. s < k * Alignment /\ k * Alignment <= y
    BY <1>1, <1>2, <1>5, <1>6
  <1>9. k * Alignment + r <= s + n
    BY <1>1, <1>5, <1>6, <1>8 DEF y
  <1> QED
    BY <1>4, <1>6, <1>7, <1>8, <1>9
-----------------------------------------------------------------------------
\* The page of a task's guard is below its stack, and its other pages are usable.
LEMMA GuardAndRest ==
    ASSUME StackInv, NEW t \in TaskSlots, pc[t] = "ready"
    PROVE  /\ Usable(t) \subseteq RangeOf(t)
           /\ Usable(t) \subseteq mapped \ guarded
           /\ First(t) \in guarded
  <1>1. StackTypeOK /\ Mappings /\ Owned
    BY DEF StackInv
  <1>2. t \in Holders /\ Usable(t) = First(t) + 1 .. First(t) + Count - 1
    BY <1>1, ReadyFacts
  <1>3. /\ RangeOf(t) = First(t) .. First(t) + Count - 1 /\ GuardPage(t) = {First(t)}
        /\ First(t) \in Nat /\ Count \in Nat \ {0}
    BY <1>1, <1>2, HolderFacts
  <1>4. \A u \in Holders : RangeOf(u) \subseteq Pages /\ GuardPage(u) \subseteq Pages
    BY DEF RangeOf, GuardPage, PagesOf
  <1>5. Usable(t) \subseteq RangeOf(t) /\ First(t) \notin Usable(t)
    BY <1>2, <1>3
  <1>6. First(t) \in guarded
    <2>1. First(t) \in Pages
      BY <1>2, <1>3, <1>4
    <2> QED
      BY <1>1, <1>2, <1>3, <2>1 DEF Owned
  <1>7. ASSUME NEW x \in Usable(t) PROVE x \in mapped /\ x \notin guarded
    <2>1. x \in Pages /\ x \in RangeOf(t)
      BY <1>2, <1>4, <1>5
    <2>2. x \in mapped
      BY <1>1, <1>2, <2>1 DEF Owned
    <2>3. ASSUME NEW u \in Holders, x \in GuardPage(u) PROVE FALSE
      <3>1. CASE u = t
        BY <1>3, <1>5, <2>3, <3>1
      <3>2. CASE u # t
        <4>1. x \in RangeOf(u)
          <5>1. /\ RangeOf(u) = First(u) .. First(u) + Count - 1
                /\ GuardPage(u) = {First(u)} /\ First(u) \in Nat
            BY <1>1, HolderFacts
          <5>2. First(u) \in First(u) .. First(u) + Count - 1
            BY <1>3, <5>1
          <5> QED
            BY <2>3, <5>1, <5>2, Zenon
        <4> QED
          BY <1>1, <1>2, <2>1, <3>2, <4>1 DEF Mappings
      <3> QED
        BY <3>1, <3>2
    <2> QED
      BY <1>1, <2>1, <2>2, <2>3 DEF Owned
  <1> QED
    BY <1>5, <1>6, <1>7

\* No configured size makes align_up wrap.
SizesFit == StackSizes \subseteq 0 .. SizeMod - PageSize

\* The bytes next to the stack pointer are in usable pages.
LEMMA PointerInUsable ==
    ASSUME StackInv, SizesFit, NEW t \in TaskSlots, pc[t] = "ready",
           NEW r \in Reserves
    PROVE  LET sp == stack[t].sp[r]
           IN  /\ sp % Alignment = 0
               /\ (sp - 1) \div PageSize \in Usable(t)
               /\ (sp + r - 1) \div PageSize \in Usable(t)
  <1> DEFINE p == First(t)
             s == stack[t].stack
             n == configured_stack_size
             sp == stack[t].sp[r]
  <1>1. StackTypeOK /\ Mappings
    BY DEF StackInv
  <1>2. /\ t \in Holders /\ s = (p + 1) * PageSize /\ (p + Count) * PageSize < SizeMod
        /\ Usable(t) = p + 1 .. p + Count - 1
    BY <1>1, ReadyFacts
  <1>3. p \in Nat /\ Count \in Nat \ {0}
    BY <1>1, <1>2, HolderFacts
  <1>4. /\ SizeMod \in Nat \ {0} /\ PageSize \in Nat \ {0} /\ r \in Nat
        /\ n \in StackSizes /\ n \in Nat /\ n >= MinStackSize /\ n <= SizeMod - PageSize
    BY StackAssumption, <1>1 DEF Mappings, SizesFit
  <1>5. n <= (Count - 1) * PageSize
    BY <1>3, <1>4, LengthFacts
  <1>6. sp = create_context_sp(s, n, r)
    BY <1>1, <1>2 DEF Mappings, Filled
  <1> HIDE DEF n, s, p, sp
  <1>7. s \in Nat /\ s + n <= (p + Count) * PageSize
    <2>1. s + (Count - 1) * PageSize = (p + Count) * PageSize
      BY <1>2, <1>3, <1>4
    <2>2. s \in Nat /\ (Count - 1) * PageSize \in Nat
      BY <1>2, <1>3, <1>4
    <2> QED
      BY <1>4, <1>5, <2>1, <2>2
  <1>8. (p + Count) * PageSize \in Nat
    BY <1>3, <1>4
  <1>9. sp \in Nat /\ sp % Alignment = 0 /\ s < sp /\ sp + r <= s + n
    <2>1. s + n < SizeMod
      BY <1>2, <1>4, <1>7, <1>8
    <2> QED
      BY <1>4, <1>6, <1>7, <2>1, StackPointer
  <1>10. /\ sp - 1 \in Nat /\ (p + 1) * PageSize <= sp - 1
         /\ sp - 1 < (p + Count) * PageSize
         /\ sp + r - 1 \in Nat /\ (p + 1) * PageSize <= sp + r - 1
         /\ sp + r - 1 < (p + Count) * PageSize
    BY <1>2, <1>4, <1>7, <1>8, <1>9
  <1>11. p + 1 \in Nat /\ p + Count \in Nat
    BY <1>3
  <1>12. /\ (sp - 1) \div PageSize \in p + 1 .. p + Count - 1
         /\ (sp + r - 1) \div PageSize \in p + 1 .. p + Count - 1
    <2> DEFINE lo == p + 1
               hi == p + Count
               below == sp - 1
               above == sp + r - 1
    <2>1. /\ lo \in Nat /\ hi \in Nat /\ below \in Nat /\ above \in Nat
          /\ lo * PageSize <= below /\ below < hi * PageSize
          /\ lo * PageSize <= above /\ above < hi * PageSize
      BY <1>10, <1>11
    <2> HIDE DEF lo, hi, below, above
    <2>2. below \div PageSize \in lo .. hi - 1
      BY <1>4, <2>1, QuotientBetween
    <2>3. above \div PageSize \in lo .. hi - 1
      BY <1>4, <2>1, QuotientBetween
    <2>4. hi - 1 = p + Count - 1
      BY <1>3 DEF hi
    <2> QED
      BY <2>2, <2>3, <2>4, Zenon DEF lo, below, above
  <1> QED
    BY <1>2, <1>9, <1>12 DEF sp

\* The stacks of tasks are apart, with the stack pointer inside.
LEMMA OwnStack ==
    ASSUME StackInv, SizesFit
    PROVE  StackIsOwn
  <1> SUFFICES ASSUME NEW t \in TaskSlots, NEW r \in Reserves, pc[t] = "ready"
               PROVE  LET sp == stack[t].sp[r]
                      IN  /\ sp % Alignment = 0
                          /\ {(sp - 1) \div PageSize, (sp + r - 1) \div PageSize}
                                \subseteq Usable(t)
                          /\ Usable(t) \subseteq mapped \ guarded
                          /\ stack[t].stack \div PageSize - 1 \in guarded
                          /\ \A u \in TaskSlots \ {t} : pc[u] = "ready" =>
                                Usable(t) \cap Usable(u) = {}
    BY DEF StackIsOwn
  <1>1. StackTypeOK /\ Mappings
    BY DEF StackInv
  <1>2. stack[t].stack \div PageSize - 1 = First(t)
    <2>1. t \in Holders /\ stack[t].stack = (First(t) + 1) * PageSize
      BY <1>1, ReadyFacts
    <2>2. First(t) \in Nat /\ PageSize \in Nat \ {0}
      BY StackAssumption, <1>1, <2>1, HolderFacts
    <2> HIDE DEF First
    <2>3. /\ First(t) + 1 \in Nat /\ (First(t) + 1) * PageSize \in Nat
          /\ (First(t) + 1) * PageSize = (First(t) + 1) * PageSize + 0
          /\ 0 \in 0 .. PageSize - 1
      BY <2>2
    <2>4. stack[t].stack \div PageSize = First(t) + 1
      BY <2>1, <2>2, <2>3, Quotient
    <2> QED
      BY <2>2, <2>4
  <1>3. ASSUME NEW u \in TaskSlots \ {t}, pc[u] = "ready"
        PROVE  Usable(t) \cap Usable(u) = {}
    <2>1. t \in Holders /\ u \in Holders
      BY <1>1, <1>3, ReadyFacts
    <2>2. RangeOf(t) \cap RangeOf(u) = {}
      BY <1>1, <2>1 DEF Mappings
    <2>3. Usable(t) \subseteq RangeOf(t) /\ Usable(u) \subseteq RangeOf(u)
      BY <1>3, GuardAndRest
    <2> QED
      BY <2>2, <2>3
  <1>4. Usable(t) \subseteq mapped \ guarded /\ First(t) \in guarded
    BY GuardAndRest
  <1> QED
    BY <1>2, <1>3, <1>4, PointerInUsable, Zenon

\* Every task has as many usable bytes as were configured.
LEMMA ConfiguredUsable ==
    ASSUME StackInv, SizesFit
    PROVE  UsableAsConfigured
  <1> SUFFICES ASSUME NEW t \in TaskSlots, pc[t] = "ready"
               PROVE  Cardinality(Usable(t) \cap (mapped \ guarded)) * PageSize
                        >= configured_stack_size
    BY Zenon DEF UsableAsConfigured
  <1>1. StackTypeOK /\ Mappings
    BY DEF StackInv
  <1>2. Usable(t) \cap (mapped \ guarded) = Usable(t)
    BY GuardAndRest
  <1>3. t \in Holders /\ Usable(t) = First(t) + 1 .. First(t) + Count - 1
    BY <1>1, ReadyFacts
  <1>4. First(t) \in Nat /\ Count \in Nat \ {0}
    BY <1>1, <1>3, HolderFacts
  <1> HIDE DEF First, Count
  <1>5. Cardinality(First(t) + 1 .. First(t) + Count - 1) = Count - 1
    <2> DEFINE lo == First(t) + 1
               hi == First(t) + Count - 1
    <2>1. lo \in Int /\ hi \in Int /\ Count - 1 = IF lo > hi THEN 0 ELSE hi - lo + 1
      BY <1>4
    <2> HIDE DEF lo, hi
    <2>2. Cardinality(lo .. hi) = IF lo > hi THEN 0 ELSE hi - lo + 1
      BY <2>1, FS_Interval, Zenon
    <2>3. Cardinality(lo .. hi) = Count - 1
      BY <2>1, <2>2, Zenon
    <2> QED
      BY <2>3 DEF lo, hi
  <1>6. configured_stack_size <= (Count - 1) * PageSize
    <2>1. configured_stack_size \in StackSizes /\ configured_stack_size <= SizeMod - PageSize
      BY StackAssumption, <1>1 DEF Mappings, SizesFit
    <2> QED
      BY <1>4, <2>1, LengthFacts
  <1>7. (Count - 1) * PageSize \in Nat /\ configured_stack_size \in Nat
    BY StackAssumption, <1>1, <1>4 DEF StackTypeOK, Addresses
  <1> QED
    BY <1>2, <1>3, <1>5, <1>6, <1>7
-----------------------------------------------------------------------------
(***************************************************************************)
(* Counting pages.                                                         *)
(***************************************************************************)
\* The pages from p on.
LEMMA CountRange ==
    ASSUME NEW p \in Nat, NEW c \in Nat \ {0}
    PROVE  IsFiniteSet(p .. p + c - 1) /\ Cardinality(p .. p + c - 1) = c
  <1> DEFINE hi == p + c - 1
  <1>1. p \in Int /\ hi \in Int /\ c = IF p > hi THEN 0 ELSE hi - p + 1
    OBVIOUS
  <1> HIDE DEF hi
  <1>2. IsFiniteSet(p .. hi) /\ Cardinality(p .. hi) = IF p > hi THEN 0 ELSE hi - p + 1
    BY <1>1, FS_Interval, Zenon
  <1>3. IsFiniteSet(p .. hi) /\ Cardinality(p .. hi) = c
    BY <1>1, <1>2, Zenon
  <1> QED
    BY <1>3 DEF hi

\* One more owner has pages R, which nobody had.
LEMMA CountMore ==
    ASSUME NEW M, NEW H, NEW R, NEW t, PageSize \in Nat,
           Fits(M, H, Cardinality(R) * PageSize),
           IsFiniteSet(R), M \cap R = {}, t \notin H
    PROVE  Fits(M \cup R, H \cup {t}, Cardinality(R) * PageSize)
  <1> DEFINE m == Cardinality(M)
             h == Cardinality(H)
             c == Cardinality(R)
  <1>1. IsFiniteSet(M) /\ IsFiniteSet(H) /\ m * PageSize = h * (c * PageSize)
    BY Zenon DEF Fits
  <1>2. m \in Nat /\ h \in Nat /\ c \in Nat
    BY <1>1, FS_CardinalityType
  <1>3. IsFiniteSet(M \cup R) /\ Cardinality(M \cup R) = m + c
    <2>1. /\ IsFiniteSet(M \cup R)
          /\ Cardinality(M \cup R) = Cardinality(M) + Cardinality(R) - Cardinality(M \cap R)
      BY <1>1, FS_Union, Zenon
    <2>2. Cardinality(M \cap R) = 0
      BY FS_EmptySet
    <2> QED
      BY <1>2, <2>1, <2>2
  <1>4. IsFiniteSet(H \cup {t}) /\ Cardinality(H \cup {t}) = h + 1
    BY <1>1, FS_AddElement, Zenon
  <1>5. (m + c) * PageSize = (h + 1) * (c * PageSize)
    <2> HIDE DEF m, h, c
    <2>1. (m + c) * PageSize = m * PageSize + c * PageSize
      BY <1>2
    <2>2. (h + 1) * (c * PageSize) = h * (c * PageSize) + c * PageSize
      BY <1>2
    <2> QED
      BY <1>1, <2>1, <2>2
  <1> QED
    BY <1>3, <1>4, <1>5, Zenon DEF Fits

\* One owner less.
LEMMA CountLess ==
    ASSUME NEW M, NEW H, NEW R, NEW t, PageSize \in Nat,
           Fits(M, H, Cardinality(R) * PageSize),
           IsFiniteSet(R), M \cap R = R, t \in H
    PROVE  Fits(M \ R, H \ {t}, Cardinality(R) * PageSize)
  <1> DEFINE m == Cardinality(M)
             h == Cardinality(H)
             c == Cardinality(R)
  <1>1. IsFiniteSet(M) /\ IsFiniteSet(H) /\ m * PageSize = h * (c * PageSize)
    BY Zenon DEF Fits
  <1>2. m \in Nat /\ h \in Nat /\ c \in Nat
    BY <1>1, FS_CardinalityType
  <1>3. IsFiniteSet(M \ R) /\ Cardinality(M \ R) = m - c
    BY <1>1, FS_Difference, Zenon
  <1>4. IsFiniteSet(H \ {t}) /\ Cardinality(H \ {t}) = h - 1
    BY <1>1, FS_RemoveElement, Zenon
  <1>5. (m - c) * PageSize = (h - 1) * (c * PageSize)
    <2> HIDE DEF m, h, c
    <2>1. (m - c) * PageSize = m * PageSize - c * PageSize
      BY <1>2
    <2>2. (h - 1) * (c * PageSize) = h * (c * PageSize) - c * PageSize
      BY <1>2
    <2> QED
      BY <1>1, <2>1, <2>2
  <1> QED
    BY <1>3, <1>4, <1>5, Zenon DEF Fits
-----------------------------------------------------------------------------
(***************************************************************************)
(* The steps.                                                              *)
(***************************************************************************)
\* Mappings that stay keep their pages.
LEMMA SamePages ==
    ASSUME configured_stack_size' = configured_stack_size
    PROVE  /\ Length' = Length
           /\ \A u : stack'[u].base = stack[u].base =>
                 RangeOf(u)' = RangeOf(u) /\ GuardPage(u)' = GuardPage(u)
  <1>1. Length' = Length
    BY Zenon DEF Length
  <1> QED
    BY <1>1, Zenon DEF RangeOf, GuardPage

\* Pages are pages of the address space.
LEMMA AreGoodPages ==
    \A u : RangeOf(u) \subseteq Pages /\ GuardPage(u) \subseteq Pages
  BY DEF RangeOf, GuardPage, PagesOf

\* A step that maps and unmaps nothing.
LEMMA NothingMoves ==
    ASSUME StackInv, UNCHANGED <<configured_stack_size, mapped>>, Holders' = Holders,
           \A u \in Holders : stack'[u].base = stack[u].base
    PROVE  /\ Counted'
           /\ \A u \in Holders : RangeOf(u)' = RangeOf(u)
           /\ \A u \in Holders : GuardPage(u)' = GuardPage(u)
           /\ \A u, v \in Holders' : u # v => RangeOf(u)' \cap RangeOf(v)' = {}
           /\ \A x \in Pages : x \in mapped' <=> \E u \in Holders' : x \in RangeOf(u)'
  <1>1. \A u \in Holders : RangeOf(u)' = RangeOf(u) /\ GuardPage(u)' = GuardPage(u)
    BY SamePages, Zenon
  <1>2. Counted'
    BY SamePages, Zenon DEF StackInv, Counted
  <1>3. \A u, v \in Holders' : u # v => RangeOf(u)' \cap RangeOf(v)' = {}
    BY <1>1, Zenon DEF StackInv, Mappings
  <1>4. \A x \in Pages : x \in mapped' <=> \E u \in Holders' : x \in RangeOf(u)'
    BY <1>1, Zenon DEF StackInv, Owned
  <1> QED
    BY <1>1, <1>2, <1>3, <1>4

\* A task without a stack is not made, or made anew.
LEMMA UnbornKeepsStacks ==
    ASSUME StackInv, NEW t \in TaskSlots, MapFails(t) \/ Again(t)
    PROVE  StackInv'
  <1>1. /\ pc[t] \in {"unborn", "gone"}
        /\ UNCHANGED <<configured_stack_size, mapped, guarded, stack>>
    BY DEF MapFails, Again
  <1>2. PICK label \in {"unborn", "gone"} : pc' = [pc EXCEPT ![t] = label]
    BY DEF MapFails, Again, Goto
  <1>3. Holders' = Holders /\ t \notin Holders
    BY <1>1 DEF Holders, StackInv, Mappings
  <1>4. pc \in [TaskSlots -> Pc]
    BY DEF StackInv, StackTypeOK
  <1>5. \A u \in Holders : u \in TaskSlots /\ pc'[u] = pc[u]
    BY <1>2, <1>3, <1>4 DEF Holders
  <1>6. StackTypeOK'
    BY <1>1, <1>2 DEF StackInv, StackTypeOK, Pc
  <1>7. \A u \in Holders : stack'[u].base = stack[u].base
    BY <1>1
  <1>8. Mappings'
    <2>1. ASSUME NEW u \in TaskSlots
          PROVE  stack'[u] # NoStack <=> pc'[u] \in {"mapped", "protected", "ready"}
      BY <1>1, <1>2, <1>4 DEF StackInv, Mappings
    <2>2. ASSUME NEW u \in Holders PROVE Filled(u)'
      <3>1. Filled(u)
        BY DEF StackInv, Mappings
      <3>2. RangeOf(u)' = RangeOf(u) /\ Length' = Length
        BY <1>1, SamePages
      <3> QED
        BY <1>1, <1>5, <3>1, <3>2 DEF Filled
    <2>3. configured_stack_size' \in StackSizes /\ configured_stack_size' >= MinStackSize
      BY <1>1 DEF StackInv, Mappings
    <2> QED
      BY <1>1, <1>3, <1>7, <2>1, <2>2, <2>3, NothingMoves, Zenon DEF Mappings
  <1>9. Owned'
    <2>1. ASSUME NEW x \in Pages
          PROVE  x \in guarded' <=>
                    \E u \in Holders' : pc'[u] # "mapped" /\ x \in GuardPage(u)'
      <3>1. \A u \in Holders : GuardPage(u)' = GuardPage(u)
        BY <1>1, <1>7, SamePages, Zenon
      <3> QED
        BY <1>1, <1>3, <1>5, <3>1 DEF StackInv, Owned
    <2> QED
      BY <1>1, <1>3, <1>7, <2>1, NothingMoves, Zenon DEF Owned
  <1>10. Counted'
    BY <1>1, <1>3, <1>7, NothingMoves
  <1> QED
    BY <1>6, <1>8, <1>9, <1>10 DEF StackInv

\* worker_spawn goes on with the task whose mapping it has.
LEMMA MovesOn ==
    ASSUME StackInv, NEW t \in Holders, NEW s \in Stacks,
           NEW label \in {"protected", "ready"},
           UNCHANGED <<configured_stack_size, mapped>>,
           stack' = [stack EXCEPT ![t] = s], s.base = stack[t].base,
           pc' = [pc EXCEPT ![t] = label],
           guarded' = guarded \cup GuardPage(t), Filled(t)'
    PROVE  StackInv'
  <1>1. /\ t \in TaskSlots /\ pc \in [TaskSlots -> Pc]
        /\ stack \in [TaskSlots -> Stacks \cup {NoStack}]
    BY DEF Holders, StackInv, StackTypeOK
  <1>2. s # NoStack
    BY StackAssumption
  <1>3. stack'[t] = s /\ \A u \in TaskSlots \ {t} : stack'[u] = stack[u]
    BY <1>1
  <1>4. pc'[t] = label /\ \A u \in TaskSlots \ {t} : pc'[u] = pc[u]
    BY <1>1
  <1>5. Holders' = Holders
    BY <1>2, <1>3 DEF Holders
  <1>6. \A u \in Holders : u \in TaskSlots /\ stack'[u].base = stack[u].base
    BY <1>3 DEF Holders
  <1>7. /\ Counted'
        /\ \A u \in Holders : RangeOf(u)' = RangeOf(u)
        /\ \A u \in Holders : GuardPage(u)' = GuardPage(u)
        /\ \A u, v \in Holders' : u # v => RangeOf(u)' \cap RangeOf(v)' = {}
        /\ \A x \in Pages : x \in mapped' <=> \E u \in Holders' : x \in RangeOf(u)'
    BY <1>5, <1>6, NothingMoves, Zenon
  <1>8. StackTypeOK'
    <2>1. GuardPage(t) \subseteq mapped
      <3>1. RangeOf(t) = First(t) .. First(t) + Count - 1 /\ GuardPage(t) = {First(t)}
            /\ First(t) \in Nat /\ Count \in Nat \ {0}
        BY HolderFacts DEF StackInv
      <3>2. First(t) \in RangeOf(t)
        BY <3>1
      <3> QED
        BY <3>1, <3>2, AreGoodPages DEF StackInv, Owned
    <2>2. pc' \in [TaskSlots -> Pc]
      BY <1>1 DEF Pc
    <2>3. stack' \in [TaskSlots -> Stacks \cup {NoStack}]
      BY <1>1
    <2> QED
      BY <2>1, <2>2, <2>3 DEF StackInv, StackTypeOK
  <1>9. Mappings'
    <2>1. ASSUME NEW u \in TaskSlots
          PROVE  stack'[u] # NoStack <=> pc'[u] \in {"mapped", "protected", "ready"}
      <3>1. stack[u] # NoStack <=> pc[u] \in {"mapped", "protected", "ready"}
        BY DEF StackInv, Mappings
      <3> QED
        BY <1>2, <1>3, <1>4, <3>1
    <2>2. ASSUME NEW u \in Holders PROVE Filled(u)'
      <3>1. CASE u = t
        BY <3>1
      <3>2. CASE u # t
        <4>1. Filled(u) /\ RangeOf(u)' = RangeOf(u) /\ Length' = Length
          BY <1>7, SamePages DEF StackInv, Mappings
        <4>2. stack'[u] = stack[u] /\ pc'[u] = pc[u]
          BY <1>3, <1>4, <1>6, <3>2
        <4> QED
          BY <4>1, <4>2 DEF Filled
      <3> QED
        BY <3>1, <3>2
    <2>3. configured_stack_size' \in StackSizes /\ configured_stack_size' >= MinStackSize
      BY DEF StackInv, Mappings
    <2> QED
      BY <1>5, <1>7, <2>1, <2>2, <2>3, Zenon DEF Mappings
  <1>10. Owned'
    <2>1. ASSUME NEW x \in Pages
          PROVE  x \in guarded' <=>
                    \E u \in Holders' : pc'[u] # "mapped" /\ x \in GuardPage(u)'
      <3>1. x \in guarded <=>
               \E u \in Holders : pc[u] # "mapped" /\ x \in GuardPage(u)
        BY DEF StackInv, Owned
      <3>2. \A u \in Holders : /\ u # t => pc'[u] = pc[u]
                               /\ GuardPage(u)' = GuardPage(u)
        BY <1>4, <1>6, <1>7
      <3> QED
        BY <1>4, <1>5, <3>1, <3>2
    <2> QED
      BY <1>7, <2>1, Zenon DEF Owned
  <1> QED
    BY <1>7, <1>8, <1>9, <1>10 DEF StackInv

\* mprotect worked.
LEMMA ProtectKeepsStacks ==
    ASSUME StackInv, NEW t \in TaskSlots, ProtectStack(t)
    PROVE  StackInv'
  <1> DEFINE s == [stack[t] EXCEPT !.stack = stack[t].base + PageSize]
  <1>1. /\ pc[t] = "mapped" /\ pc' = [pc EXCEPT ![t] = "protected"]
        /\ guarded' = guarded \cup GuardPage(t)
        /\ stack' = [stack EXCEPT ![t] = s]
        /\ UNCHANGED <<configured_stack_size, mapped>>
    BY DEF ProtectStack, Goto
  <1>2. t \in Holders
    BY <1>1 DEF Holders, StackInv, Mappings
  <1>3. /\ stack[t] \in Stacks /\ stack[t].base \in Nat
        /\ stack[t].base + PageSize < SizeMod
    BY <1>2, HolderFacts DEF StackInv
  <1>4. stack[t].base + PageSize \in Addresses
    BY StackAssumption, <1>3 DEF Addresses
  <1>5. s \in Stacks /\ s.base = stack[t].base /\ s.stack = stack[t].base + PageSize
    BY <1>3, <1>4 DEF Stacks
  <1> HIDE DEF s
  <1>6. stack'[t] = s /\ pc'[t] = "protected"
    BY <1>1 DEF StackInv, StackTypeOK
  <1>7. Filled(t)'
    <2>1. Filled(t)
      BY <1>2 DEF StackInv, Mappings
    <2>2. Length' = Length /\ RangeOf(t)' = RangeOf(t)
      BY <1>1, <1>5, <1>6, SamePages
    <2> QED
      BY <1>5, <1>6, <2>1, <2>2 DEF Filled
  <1> QED
    BY <1>1, <1>2, <1>5, <1>7, MovesOn

\* A stack pointer is an address.
LEMMA PointerIsAddress ==
    ASSUME NEW s \in Nat, NEW n \in Nat, NEW r \in Reserves,
           n >= MinStackSize
    PROVE  create_context_sp(s, n, r) \in Addresses
  <1> DEFINE y == (s + n + SizeMod - r) % SizeMod
             k == y \div Alignment
  <1>1. /\ SizeMod \in Nat \ {0} /\ Alignment \in Nat \ {0} /\ r \in Nat
        /\ MinStackSize \in Nat /\ r + Alignment < MinStackSize
    BY StackAssumption
  <1>2. y \in 0 .. SizeMod - 1
    <2>1. s + n + SizeMod - r \in Nat
      BY <1>1
    <2> QED
      BY <1>1, <2>1, Division
  <1>3. create_context_sp(s, n, r) = k * Alignment
    BY DEF create_context_sp, Masked
  <1> HIDE DEF y
  <1>4. k \in Nat /\ y % Alignment \in 0 .. Alignment - 1 /\ y = k * Alignment + (y % Alignment)
    <2>1. y \in Nat
      BY <1>1, <1>2
    <2> QED
      BY <1>1, <2>1, Division
  <1> HIDE DEF k
  <1>5. k * Alignment \in Nat
    BY <1>1, <1>4
  <1>6. k * Alignment \in 0 .. SizeMod - 1
    BY <1>1, <1>2, <1>4, <1>5
  <1> QED
    BY <1>3, <1>6 DEF Addresses

\* The argument is copied and the task filled in.
LEMMA FillKeepsStacks ==
    ASSUME StackInv, NEW t \in TaskSlots, FillTask(t)
    PROVE  StackInv'
  <1> DEFINE pointers == [r \in Reserves |->
                            create_context_sp(stack[t].stack, configured_stack_size, r)]
             s == [stack[t] EXCEPT !.size = configured_stack_size, !.sp = pointers]
  <1>1. /\ pc[t] = "protected" /\ pc' = [pc EXCEPT ![t] = "ready"]
        /\ stack' = [stack EXCEPT ![t] = s]
        /\ UNCHANGED <<configured_stack_size, mapped, guarded>>
    BY DEF FillTask, Goto
  <1>2. t \in Holders
    BY <1>1 DEF Holders, StackInv, Mappings
  <1>3. stack[t] \in Stacks /\ GuardPage(t) \subseteq Pages
    BY <1>2, HolderFacts, AreGoodPages DEF StackInv
  <1>4. /\ configured_stack_size \in Addresses /\ configured_stack_size \in Nat
        /\ configured_stack_size >= MinStackSize
    BY DEF StackInv, Mappings, StackTypeOK, Addresses
  <1>5. stack[t].stack \in Nat
    BY <1>3 DEF Stacks, Addresses
  <1>6. pointers \in [Reserves -> Addresses]
    BY <1>4, <1>5, PointerIsAddress
  <1> HIDE DEF pointers
  <1>7. /\ s \in Stacks /\ s.base = stack[t].base /\ s.stack = stack[t].stack
        /\ s.size = configured_stack_size /\ s.sp = pointers
    BY <1>3, <1>4, <1>6 DEF Stacks
  <1> HIDE DEF s
  <1>8. guarded' = guarded \cup GuardPage(t)
    BY <1>1, <1>2, <1>3 DEF StackInv, Owned
  <1>9. stack'[t] = s /\ pc'[t] = "ready"
    BY <1>1 DEF StackInv, StackTypeOK
  <1>10. Filled(t)'
    <2>1. Filled(t) /\ stack[t].stack = stack[t].base + PageSize
      BY <1>1, <1>2 DEF StackInv, Mappings, Filled
    <2>2. Length' = Length /\ RangeOf(t)' = RangeOf(t)
      BY <1>1, <1>7, <1>9, SamePages
    <2>3. pointers = [r \in Reserves |->
                        create_context_sp(s.stack, configured_stack_size, r)]
      BY <1>7 DEF pointers
    <2> QED
      BY <1>1, <1>7, <1>9, <2>1, <2>2, <2>3 DEF Filled
  <1> QED
    BY <1>1, <1>2, <1>7, <1>8, <1>10, MovesOn

\* A mapping is given back, with all of its pages and nothing else.
LEMMA FreesOwn ==
    ASSUME StackInv, NEW t \in Holders,
           Unmapped(stack[t].base, Length),
           stack' = [stack EXCEPT ![t] = NoStack], pc' = [pc EXCEPT ![t] = "gone"],
           UNCHANGED configured_stack_size
    PROVE  StackInv'
  <1>1. mapped' = mapped \ RangeOf(t) /\ guarded' = guarded \ RangeOf(t)
    BY DEF Unmapped, RangeOf
  <1>2. /\ t \in TaskSlots /\ pc \in [TaskSlots -> Pc]
        /\ stack \in [TaskSlots -> Stacks \cup {NoStack}]
    BY DEF Holders, StackInv, StackTypeOK
  <1>3. /\ stack'[t] = NoStack /\ \A u \in TaskSlots \ {t} : stack'[u] = stack[u]
        /\ pc'[t] = "gone" /\ \A u \in TaskSlots \ {t} : pc'[u] = pc[u]
    BY <1>2
  <1>4. Holders' = Holders \ {t}
    BY <1>3 DEF Holders
  <1>5. \A u \in Holders' : /\ u \in TaskSlots /\ u \in Holders /\ u # t
                            /\ stack'[u] = stack[u] /\ pc'[u] = pc[u]
    BY <1>3, <1>4 DEF Holders
  <1>6. \A u \in Holders' : RangeOf(u)' = RangeOf(u) /\ GuardPage(u)' = GuardPage(u)
    BY <1>5, SamePages
  <1>7. Length' = Length
    BY SamePages
  <1>8. \A u \in Holders : GuardPage(u) \subseteq RangeOf(u)
    <2> SUFFICES ASSUME NEW u \in Holders PROVE GuardPage(u) \subseteq RangeOf(u)
      OBVIOUS
    <2>1. RangeOf(u) = First(u) .. First(u) + Count - 1 /\ GuardPage(u) = {First(u)}
          /\ First(u) \in Nat /\ Count \in Nat \ {0}
      BY HolderFacts DEF StackInv
    <2> QED
      BY <2>1
  <1>9. \A u \in Holders' : RangeOf(u) \cap RangeOf(t) = {}
    BY <1>5 DEF StackInv, Mappings
  <1>10. StackTypeOK'
    <2>1. pc' \in [TaskSlots -> Pc]
      BY <1>2 DEF Pc
    <2>2. stack' \in [TaskSlots -> Stacks \cup {NoStack}]
      BY <1>2
    <2> QED
      BY <1>1, <2>1, <2>2 DEF StackInv, StackTypeOK
  <1>11. Mappings'
    <2>1. ASSUME NEW u \in TaskSlots
          PROVE  stack'[u] # NoStack <=> pc'[u] \in {"mapped", "protected", "ready"}
      <3>1. stack[u] # NoStack <=> pc[u] \in {"mapped", "protected", "ready"}
        BY DEF StackInv, Mappings
      <3> QED
        BY <1>3, <3>1
    <2>2. ASSUME NEW u \in Holders' PROVE Filled(u)'
      <3>1. Filled(u)
        BY <1>5 DEF StackInv, Mappings
      <3> QED
        BY <1>5, <1>6, <1>7, <3>1 DEF Filled
    <2>3. configured_stack_size' \in StackSizes /\ configured_stack_size' >= MinStackSize
      BY DEF StackInv, Mappings
    <2>4. \A u, v \in Holders' : u # v => RangeOf(u)' \cap RangeOf(v)' = {}
      BY <1>5, <1>6 DEF StackInv, Mappings
    <2> QED
      BY <2>1, <2>2, <2>3, <2>4, Zenon DEF Mappings
  <1>12. Owned'
    <2>1. ASSUME NEW x \in Pages
          PROVE  x \in mapped' <=> \E u \in Holders' : x \in RangeOf(u)'
      <3>1. x \in mapped <=> \E u \in Holders : x \in RangeOf(u)
        BY DEF StackInv, Owned
      <3> QED
        BY <1>1, <1>4, <1>6, <1>9, <3>1
    <2>2. ASSUME NEW x \in Pages
          PROVE  x \in guarded' <=>
                    \E u \in Holders' : pc'[u] # "mapped" /\ x \in GuardPage(u)'
      <3>1. x \in guarded <=>
               \E u \in Holders : pc[u] # "mapped" /\ x \in GuardPage(u)
        BY DEF StackInv, Owned
      <3>2. \A u \in Holders' : x \in GuardPage(u) => x \notin RangeOf(t)
        BY <1>5, <1>8, <1>9
      <3>3. x \in GuardPage(t) => x \in RangeOf(t)
        BY <1>8
      <3>4. \A u \in Holders' : pc'[u] = pc[u] /\ GuardPage(u)' = GuardPage(u)
        BY <1>5, <1>6
      <3> QED
        BY <1>1, <1>4, <3>1, <3>2, <3>3, <3>4
    <2> QED
      BY <2>1, <2>2, Zenon DEF Owned
  <1>13. Counted'
    <2>1. /\ RangeOf(t) = First(t) .. First(t) + Count - 1
          /\ First(t) \in Nat /\ Count \in Nat \ {0}
      BY HolderFacts DEF StackInv
    <2>2. IsFiniteSet(RangeOf(t)) /\ Cardinality(RangeOf(t)) = Count
      BY <2>1, CountRange
    <2>3. mapped \cap RangeOf(t) = RangeOf(t)
      BY AreGoodPages DEF StackInv, Owned
    <2>4. Length = Cardinality(RangeOf(t)) * PageSize /\ PageSize \in Nat
      BY StackAssumption, <2>2, LengthFacts DEF StackInv, Mappings
    <2>5. Fits(mapped, Holders, Length)
      BY Zenon DEF StackInv, Counted
    <2>6. Fits(mapped \ RangeOf(t), Holders \ {t}, Length)
      BY <2>2, <2>3, <2>4, <2>5, CountLess, Zenon
    <2> QED
      BY <1>1, <1>4, <1>7, <2>6, Zenon DEF Counted, Fits
  <1> QED
    BY <1>10, <1>11, <1>12, <1>13 DEF StackInv

\* destroy_stack finds the beginning of the mapping.
LEMMA DestroysMapping ==
    ASSUME StackInv, NEW t \in TaskSlots, pc[t] \in {"protected", "ready"},
           destroy_stack(stack[t].stack, configured_stack_size)
    PROVE  Unmapped(stack[t].base, Length)
  <1> DEFINE b == stack[t].base
             back == stack[t].stack + SizeMod - PageSize
  <1>1. t \in Holders
    BY DEF Holders, StackInv, Mappings
  <1>2. stack[t].stack = b + PageSize
    BY <1>1 DEF StackInv, Mappings, Filled
  <1>3. /\ b \in Nat /\ b + PageSize < SizeMod
        /\ SizeMod \in Nat \ {0} /\ PageSize \in Nat \ {0}
    BY StackAssumption, <1>1, HolderFacts DEF StackInv
  <1>4. back % SizeMod = b
    <2> HIDE DEF b
    <2>1. back = 1 * SizeMod + b /\ back \in Nat /\ b \in 0 .. SizeMod - 1
      BY <1>2, <1>3
    <2> HIDE DEF back
    <2> QED
      BY <1>3, <2>1, Quotient
  <1> QED
    BY <1>4, Zenon DEF destroy_stack, Length

\* A step of worker_spawn fails, or the task ends.
LEMMA FreeKeepsStacks ==
    ASSUME StackInv, NEW t \in TaskSlots,
           \/ ProtectFails(t)
           \/ CopyFails(t)
           \/ task_cleanup(t)
    PROVE  StackInv'
  <1>1. /\ pc[t] \in {"mapped", "protected", "ready"}
        /\ stack' = [stack EXCEPT ![t] = NoStack] /\ pc' = [pc EXCEPT ![t] = "gone"]
        /\ UNCHANGED configured_stack_size
    BY DEF ProtectFails, CopyFails, task_cleanup, Goto
  <1>2. t \in Holders
    BY <1>1 DEF Holders, StackInv, Mappings
  <1>3. Unmapped(stack[t].base, Length)
    <2>1. CASE ProtectFails(t)
      BY <2>1 DEF ProtectFails, Length
    <2>2. CASE CopyFails(t)
      BY <2>2, DestroysMapping DEF CopyFails
    <2>3. CASE task_cleanup(t)
      <3>1. pc[t] = "ready" /\ destroy_stack(stack[t].stack, stack[t].size)
        BY <2>3 DEF task_cleanup
      <3>2. stack[t].size = configured_stack_size
        BY <1>2, <3>1 DEF StackInv, Mappings, Filled
      <3> QED
        BY <3>1, <3>2, DestroysMapping
    <2> QED
      BY <2>1, <2>2, <2>3
  <1> QED
    BY <1>1, <1>2, <1>3, FreesOwn

\* mmap returned pages that were free.
LEMMA MapKeepsStacks ==
    ASSUME StackInv, NEW t \in TaskSlots, NEW base \in Nat,
           MapStack(t, base)
    PROVE  StackInv'
  <1> DEFINE range == PagesOf(base, Length)
             s == [base |-> base, stack |-> 0, size |-> 0, sp |-> [r \in Reserves |-> 0]]
  <1>1. /\ pc[t] = "unborn" /\ pc' = [pc EXCEPT ![t] = "mapped"]
        /\ base % PageSize = 0 /\ range # {} /\ base + Length < SizeMod
        /\ range \cap mapped = {} /\ mapped' = mapped \cup range
        /\ stack' = [stack EXCEPT ![t] = s]
        /\ UNCHANGED <<configured_stack_size, guarded>>
    BY DEF MapStack, Goto, Length
  <1>2. /\ pc \in [TaskSlots -> Pc] /\ stack \in [TaskSlots -> Stacks \cup {NoStack}]
        /\ configured_stack_size \in StackSizes
    BY DEF StackInv, StackTypeOK, Mappings
  <1>3. /\ Count \in Nat \ {0} /\ base \div PageSize \in Nat
        /\ range = base \div PageSize .. base \div PageSize + Count - 1
    BY <1>1, <1>2, RangeFacts, Zenon
  <1>4. s \in Stacks /\ s # NoStack /\ s.base = base
    <2>1. Length \in Nat /\ SizeMod \in Nat \ {0}
      BY StackAssumption, <1>2, LengthFacts
    <2>2. base \in Addresses /\ 0 \in Addresses
      BY <1>1, <2>1 DEF Addresses
    <2> HIDE DEF range
    <2>3. s \in Stacks /\ s.base = base
      BY <2>2 DEF Stacks
    <2> HIDE DEF s
    <2> QED
      BY StackAssumption, <2>3
  <1>5. range \subseteq Pages
    BY DEF PagesOf
  <1> HIDE DEF range, s
  <1>6. /\ stack'[t] = s /\ \A u \in TaskSlots \ {t} : stack'[u] = stack[u]
        /\ pc'[t] = "mapped" /\ \A u \in TaskSlots \ {t} : pc'[u] = pc[u]
    BY <1>1, <1>2
  <1>7. t \notin Holders /\ Holders' = Holders \cup {t}
    <2>1. t \notin Holders
      BY <1>1 DEF StackInv, Mappings, Holders
    <2> QED
      BY <1>4, <1>6, <2>1 DEF Holders
  <1>8. \A u \in Holders : u \in TaskSlots /\ u # t /\ stack'[u] = stack[u] /\ pc'[u] = pc[u]
    BY <1>6, <1>7 DEF Holders
  <1>9. Length' = Length /\ RangeOf(t)' = range
    <2>1. Length' = Length
      BY <1>1, SamePages
    <2> QED
      BY <1>4, <1>6, <2>1 DEF RangeOf, range
  <1>10. \A u \in Holders : RangeOf(u)' = RangeOf(u) /\ GuardPage(u)' = GuardPage(u)
    BY <1>1, <1>8, SamePages
  <1>11. \A u \in Holders : RangeOf(u) \cap range = {}
    BY <1>1, AreGoodPages DEF StackInv, Owned
  <1>12. StackTypeOK'
    <2>1. pc' \in [TaskSlots -> Pc]
      BY <1>1, <1>2 DEF Pc
    <2>2. stack' \in [TaskSlots -> Stacks \cup {NoStack}]
      BY <1>1, <1>2, <1>4
    <2> QED
      BY <1>1, <1>5, <2>1, <2>2 DEF StackInv, StackTypeOK
  <1>13. Mappings'
    <2>1. ASSUME NEW u \in TaskSlots
          PROVE  stack'[u] # NoStack <=> pc'[u] \in {"mapped", "protected", "ready"}
      <3>1. stack[u] # NoStack <=> pc[u] \in {"mapped", "protected", "ready"}
        BY DEF StackInv, Mappings
      <3> QED
        BY <1>4, <1>6, <3>1
    <2>2. Filled(t)'
      <3>1. stack'[t].base = base /\ pc'[t] = "mapped"
        BY <1>4, <1>6
      <3> QED
        BY <1>1, <1>9, <3>1 DEF Filled
    <2>3. ASSUME NEW u \in Holders PROVE Filled(u)'
      <3>1. Filled(u)
        BY DEF StackInv, Mappings
      <3> QED
        BY <1>1, <1>8, <1>9, <1>10, <3>1 DEF Filled
    <2>4. configured_stack_size' \in StackSizes /\ configured_stack_size' >= MinStackSize
      BY <1>1 DEF StackInv, Mappings
    <2>5. \A u, v \in Holders' : u # v => RangeOf(u)' \cap RangeOf(v)' = {}
      <3>1. \A u, v \in Holders : u # v => RangeOf(u) \cap RangeOf(v) = {}
        BY DEF StackInv, Mappings
      <3> QED
        BY <1>7, <1>9, <1>10, <1>11, <3>1
    <2>6. \A u \in Holders' : Filled(u)'
      BY <1>7, <2>2, <2>3
    <2> QED
      BY <2>1, <2>4, <2>5, <2>6, Zenon DEF Mappings
  <1>14. Owned'
    <2>1. ASSUME NEW x \in Pages
          PROVE  x \in mapped' <=> \E u \in Holders' : x \in RangeOf(u)'
      <3>1. x \in mapped <=> \E u \in Holders : x \in RangeOf(u)
        BY DEF StackInv, Owned
      <3> QED
        BY <1>1, <1>7, <1>9, <1>10, <3>1
    <2>2. ASSUME NEW x \in Pages
          PROVE  x \in guarded' <=>
                    \E u \in Holders' : pc'[u] # "mapped" /\ x \in GuardPage(u)'
      <3>1. x \in guarded <=>
               \E u \in Holders : pc[u] # "mapped" /\ x \in GuardPage(u)
        BY DEF StackInv, Owned
      <3>2. \A u \in Holders : pc'[u] = pc[u] /\ GuardPage(u)' = GuardPage(u)
        BY <1>8, <1>10
      <3> QED
        BY <1>1, <1>6, <1>7, <3>1, <3>2
    <2> QED
      BY <2>1, <2>2, Zenon DEF Owned
  <1>15. Counted'
    <2> DEFINE p == base \div PageSize
    <2>1. IsFiniteSet(range) /\ Cardinality(range) = Count
      <3>1. p \in Nat /\ Count \in Nat \ {0} /\ range = p .. p + Count - 1
        BY <1>3
      <3> HIDE DEF p
      <3> QED
        BY <3>1, CountRange
    <2>2. Length = Cardinality(range) * PageSize /\ PageSize \in Nat
      BY StackAssumption, <1>2, <2>1, LengthFacts
    <2>3. Fits(mapped, Holders, Length) /\ mapped \cap range = {}
      BY <1>1, Zenon DEF StackInv, Counted
    <2>4. Fits(mapped \cup range, Holders \cup {t}, Length)
      BY <1>7, <2>1, <2>2, <2>3, CountMore, Zenon
    <2> QED
      BY <1>1, <1>7, <1>9, <2>4, Zenon DEF Counted, Fits
  <1> QED
    BY <1>12, <1>13, <1>14, <1>15 DEF StackInv

\* No task has a stack yet, and nothing is mapped.
LEMMA InitStacks ==
    ASSUME StackInit PROVE StackInv
  <1>1. /\ mapped = {} /\ guarded = {}
        /\ configured_stack_size \in StackSizes /\ configured_stack_size >= MinStackSize
        /\ \A t \in TaskSlots : pc[t] = "unborn" /\ stack[t] = NoStack
    BY DEF StackInit
  <1>2. Holders = {}
    BY <1>1 DEF Holders
  <1>3. StackTypeOK
    BY StackAssumption DEF StackInit, StackTypeOK, Pc, Addresses
  <1>4. Mappings
    BY <1>1, <1>2 DEF Mappings
  <1>5. Owned
    BY <1>1, <1>2 DEF Owned
  <1>6. Counted
    <2>1. Length \in Nat /\ PageSize \in Nat
      BY StackAssumption, <1>1, LengthFacts
    <2>2. IsFiniteSet({}) /\ Cardinality({}) = 0
      BY FS_EmptySet
    <2> QED
      BY <1>1, <1>2, <2>1, <2>2 DEF Counted, Fits
  <1> QED
    BY <1>3, <1>4, <1>5, <1>6 DEF StackInv

\* Every step keeps the invariant.
LEMMA StepKeepsStacks ==
    ASSUME StackInv, [StackNext]_vars PROVE StackInv'
  <1>1. ASSUME UNCHANGED vars PROVE StackInv'
    <2>1. UNCHANGED <<configured_stack_size, mapped, guarded, pc, stack>>
      BY <1>1, Zenon DEF vars
    <2>2. Length' = Length /\ Holders' = Holders
      BY <2>1, Zenon DEF Length, Holders, get_stack_mapping_size
    <2>3. \A t \in TaskSlots : RangeOf(t)' = RangeOf(t) /\ GuardPage(t)' = GuardPage(t)
      BY <2>1, <2>2, Zenon DEF RangeOf, GuardPage
    <2>4. \A t \in TaskSlots : Filled(t)' <=> Filled(t)
      BY <2>1, <2>2, <2>3, Zenon DEF Filled
    <2>5. Holders \subseteq TaskSlots
      BY DEF Holders
    <2>6. StackTypeOK'
      BY <2>1, Zenon DEF StackInv, StackTypeOK
    <2>7. Mappings'
      BY <2>1, <2>2, <2>3, <2>4, <2>5 DEF StackInv, Mappings
    <2>8. Owned'
      BY <2>1, <2>2, <2>3, <2>5 DEF StackInv, Owned
    <2>9. Counted'
      BY <2>1, <2>2, Zenon DEF StackInv, Counted
    <2> QED
      BY <2>6, <2>7, <2>8, <2>9 DEF StackInv
  <1>2. ASSUME NEW t \in TaskSlots, NEW p \in Pages, MapStack(t, p * PageSize)
        PROVE  StackInv'
    <2>1. p * PageSize \in Nat
      BY StackAssumption DEF Pages
    <2> QED
      BY <1>2, <2>1, MapKeepsStacks
  <1>3. ASSUME NEW t \in TaskSlots, MapFails(t) \/ Again(t)
        PROVE  StackInv'
    BY <1>3, UnbornKeepsStacks
  <1>4. ASSUME NEW t \in TaskSlots, ProtectStack(t)
        PROVE  StackInv'
    BY <1>4, ProtectKeepsStacks
  <1>5. ASSUME NEW t \in TaskSlots, FillTask(t)
        PROVE  StackInv'
    BY <1>5, FillKeepsStacks
  <1>6. ASSUME NEW t \in TaskSlots, ProtectFails(t) \/ CopyFails(t) \/ task_cleanup(t)
        PROVE  StackInv'
    BY <1>6, FreeKeepsStacks
  <1> QED
    BY <1>1, <1>2, <1>3, <1>4, <1>5, <1>6, Zenon DEF StackNext

\* What is mapped and guarded is what tasks have, each its own range of pages,
\* whatever step of worker_spawn fails and whatever size is configured.
THEOREM StackInvariant == StackSpec => []StackInv
  <1>1. StackInit => StackInv
    BY InitStacks
  <1>2. StackInv /\ [StackNext]_vars => StackInv'
    BY StepKeepsStacks
  <1> QED
    BY <1>1, <1>2, PTL DEF StackSpec

\* The failures of worker_spawn and the ends of tasks unmap exactly what was mapped.
THEOREM StacksDoNotLeak == StackSpec => []NothingLeaks
  <1>1. StackInv => NothingLeaks
    <2>1. ASSUME Counted PROVE NothingLeaks
      BY <2>1, Zenon DEF Counted, Fits, NothingLeaks, Holders, Length
    <2> QED
      BY <2>1 DEF StackInv
  <1> QED
    BY <1>1, StackInvariant, PTL

\* When no configured size is within a page of the largest size_t, a task starts with
\* an aligned stack pointer inside pages that only it has, above its guard page.
THEOREM TasksHaveOwnStacks ==
    ASSUME SizesFit PROVE StackSpec => []StackIsOwn
  <1>1. StackInv => StackIsOwn
    BY OwnStack
  <1> QED
    BY <1>1, StackInvariant, PTL

\* Then, too, every task has the bytes that were configured above its guard page.
THEOREM StacksAreAsConfigured ==
    ASSUME SizesFit PROVE StackSpec => []UsableAsConfigured
  <1>1. StackInv => UsableAsConfigured
    BY ConfiguredUsable
  <1> QED
    BY <1>1, StackInvariant, PTL
-----------------------------------------------------------------------------
(***************************************************************************)
(* The registers of tasks (module ContextSwitch).                          *)
(***************************************************************************)
\* A task of a worker is on no other worker and in no queue.  A waker may find it
\* only while its worker holds the mutex.
Placement ==
    /\ \A v, w \in Workers : current[v] # NoCoroutine /\ current[v] = current[w] => v = w
    /\ \A w \in Workers : /\ current[w] \notin runnable
                          /\ current[w] \notin unborn
                          /\ current[w] \in parked => mutex = w
    /\ \A t \in Coroutines : /\ t \in parked => t \notin runnable /\ t \notin unborn
                             /\ t \in runnable => t \notin unborn

\* Where a worker is, and which registers it has there.
WorkerState ==
    \A w \in Workers :
       /\ place[w] = "loop" <=> current[w] = NoCoroutine
       /\ place[w] \in {"loop", "enter", "back", "handed"} => cpu[w] = OfWorker(w)
       /\ place[w] \in {"enter", "task", "leave"} => context[w] = OfWorker(w)
       /\ place[w] \in {"task", "leave"} => cpu[w]["sp"] = current[w]
       /\ mutex = w => place[w] \in {"task", "leave", "handed"} /\ current[w] \in parked
       /\ place[w] = "handed" => mutex = w
       /\ place[w] = "back" => mutex # w

\* The context of a task is what it left with, on its own stack.
ContextsExact == \A t \in Coroutines : context[t] = left[t] /\ context[t]["sp"] = t

ContextInv == ContextTypeOK /\ Placement /\ WorkerState /\ ContextsExact

USE DEF Registers, saved_registers

\* The initial registers have their types.
LEMMA FreshRegisters ==
    /\ \A w \in Workers : OfWorker(w) \in RegisterFile
    /\ \A t \in Coroutines, v \in Values : OfNewTask(t, v) \in RegisterFile
  BY ContextAssumption DEF OfWorker, OfNewTask, RegisterFile

\* context_switch copies every register: saving stores what the processor has,
\* loading brings back what was stored.
LEMMA SaveIsExact ==
    ASSUME ContextTypeOK, NEW w \in Workers, NEW x \in Workers \cup Coroutines, Save(w, x)
    PROVE  context' = [context EXCEPT ![x] = cpu[w]]
  <1>1. cpu[w] = [r \in Registers |-> cpu[w][r]]
    BY DEF ContextTypeOK, RegisterFile
  <1> QED
    BY <1>1 DEF Save

LEMMA LoadIsExact ==
    ASSUME ContextTypeOK, NEW w \in Workers, NEW x \in Workers \cup Coroutines, Load(w, x)
    PROVE  cpu' = [cpu EXCEPT ![w] = context[x]]
  <1>1. context[x] = [r \in Registers |-> context[x][r]]
    BY DEF ContextTypeOK, RegisterFile
  <1> QED
    BY <1>1 DEF Load

LEMMA InitEstablishesContextInv == ContextInit => ContextInv
  <1> SUFFICES ASSUME ContextInit PROVE ContextInv
    OBVIOUS
  <1> USE ContextAssumption DEF ContextInit
  <1>1. ContextTypeOK
    BY FreshRegisters DEF ContextTypeOK, Places
  <1>2. Placement
    BY DEF Placement
  <1>3. WorkerState
    BY DEF WorkerState
  <1>4. ContextsExact
    BY DEF ContextsExact, OfNewTask
  <1> QED
    BY <1>1, <1>2, <1>3, <1>4 DEF ContextInv

\* Every step keeps the invariant.
LEMMA NextKeepsContextInv == ContextInv /\ [ContextNext]_context_vars => ContextInv'
  <1> SUFFICES ASSUME ContextInv, [ContextNext]_context_vars PROVE ContextInv'
    OBVIOUS
  <1> USE ContextAssumption
  <1>0. ContextTypeOK /\ Placement /\ WorkerState /\ ContextsExact
    BY DEF ContextInv
  <1>1. ASSUME NEW w \in Workers, NEW t \in Coroutines, Dispatch(w, t) PROVE ContextInv'
    <2>0. context' = [context EXCEPT ![w] = cpu[w]]
      BY <1>0, <1>1, SaveIsExact DEF Dispatch
    <2>1. ContextTypeOK'
      BY <1>0, <1>1, <2>0 DEF ContextTypeOK, Places, Dispatch, MoveTo
    <2>2. Placement'
      <3>1. current'[w] = t /\ \A v \in Workers \ {w} : current'[v] = current[v]
        BY <1>0, <1>1, Zenon DEF ContextTypeOK, Dispatch
      <3>a. t \in runnable /\ runnable' = runnable \ {t}
        BY <1>1, Zenon DEF Dispatch
      <3>b. /\ \A v \in Workers : current[v] \notin runnable
            /\ \A u \in Coroutines : /\ u \in parked => u \notin runnable
                                     /\ u \in runnable => u \notin unborn
        BY <1>0 DEF Placement
      <3>2. /\ t \notin unborn /\ t \notin parked /\ t \notin runnable'
            /\ \A v \in Workers : current[v] # t
        BY <3>a, <3>b, Zenon
      <3>3. runnable' \subseteq runnable /\ UNCHANGED <<unborn, parked, mutex>>
        BY <1>1, Zenon DEF Dispatch
      <3>4. ASSUME NEW v \in Workers
            PROVE  /\ current'[v] \notin runnable' /\ current'[v] \notin unborn'
                   /\ current'[v] \in parked' => mutex' = v
        BY <1>0, <3>1, <3>2, <3>3, Zenon DEF Placement
      <3>5. ASSUME NEW u \in Workers, NEW v \in Workers, current'[u] # NoCoroutine,
                   current'[u] = current'[v]
            PROVE  u = v
        BY <1>0, <3>1, <3>2, <3>5, Zenon DEF Placement
      <3> QED
        BY <1>0, <3>3, <3>4, <3>5, Zenon DEF Placement
    <2>3. WorkerState'
      BY <1>0, <1>1, <2>0 DEF ContextTypeOK, Placement, WorkerState, Dispatch, MoveTo
    <2>4. ContextsExact'
      BY <1>0, <1>1, <2>0 DEF ContextTypeOK, ContextsExact, Placement, WorkerState, Dispatch, MoveTo
    <2> QED
      BY <2>1, <2>2, <2>3, <2>4 DEF ContextInv
  <1>2. ASSUME NEW w \in Workers, Enter(w) PROVE ContextInv'
    <2>a. current[w] \in Coroutines
      BY <1>0, <1>2 DEF ContextTypeOK, WorkerState, Enter
    <2>0. cpu' = [cpu EXCEPT ![w] = context[current[w]]]
      BY <1>0, <1>2, <2>a, LoadIsExact DEF Enter
    <2>b. context[current[w]]["sp"] = current[w]
      BY <1>0, <2>a DEF ContextsExact
    <2>1. ContextTypeOK'
      BY <1>0, <1>2, <2>a, <2>0, <2>b DEF ContextTypeOK, Places, Enter, MoveTo
    <2>2. Placement'
      BY <1>0, <1>2, <2>a, <2>0, <2>b DEF ContextTypeOK, Placement, WorkerState, Enter, MoveTo
    <2>3. WorkerState'
      BY <1>0, <1>2, <2>a, <2>0, <2>b DEF ContextTypeOK, Placement, WorkerState, Enter, MoveTo
    <2>4. ContextsExact'
      BY <1>0, <1>2, <2>a, <2>0, <2>b DEF ContextTypeOK, ContextsExact, Placement, WorkerState, Enter, MoveTo
    <2> QED
      BY <2>1, <2>2, <2>3, <2>4 DEF ContextInv
  <1>3. ASSUME NEW w \in Workers, Back(w) PROVE ContextInv'
    <2>0. cpu' = [cpu EXCEPT ![w] = context[w]]
      BY <1>0, <1>3, LoadIsExact DEF Back
    <2>1. ContextTypeOK'
      BY <1>0, <1>3, <2>0 DEF ContextTypeOK, Places, Back, MoveTo
    <2>2. Placement'
      BY <1>0, <1>3, <2>0 DEF ContextTypeOK, Placement, WorkerState, Back, MoveTo
    <2>3. WorkerState'
      BY <1>0, <1>3, <2>0 DEF ContextTypeOK, Placement, WorkerState, Back, MoveTo
    <2>4. ContextsExact'
      BY <1>0, <1>3, <2>0 DEF ContextTypeOK, ContextsExact, Placement, WorkerState, Back, MoveTo
    <2> QED
      BY <2>1, <2>2, <2>3, <2>4 DEF ContextInv
  <1>4. ASSUME NEW w \in Workers, Unlock(w) PROVE ContextInv'
    <2>1. ContextTypeOK'
      BY <1>0, <1>4 DEF ContextTypeOK, Places, Unlock, MoveTo
    <2>2. Placement'
      BY <1>0, <1>4 DEF ContextTypeOK, Placement, WorkerState, Unlock, MoveTo
    <2>3. WorkerState'
      BY <1>0, <1>4 DEF ContextTypeOK, Placement, WorkerState, Unlock, MoveTo
    <2>4. ContextsExact'
      BY <1>0, <1>4 DEF ContextTypeOK, ContextsExact, Placement, WorkerState, Unlock, MoveTo
    <2> QED
      BY <2>1, <2>2, <2>3, <2>4 DEF ContextInv
  <1>5. ASSUME NEW w \in Workers, Requeue(w) PROVE ContextInv'
    <2>0. current[w] \in Coroutines
      BY <1>0, <1>5 DEF ContextTypeOK, WorkerState, Requeue
    <2>1. ContextTypeOK'
      BY <1>0, <1>5, <2>0 DEF ContextTypeOK, Places, Requeue, MoveTo
    <2>2. Placement'
      <3>1. /\ current'[w] = NoCoroutine
            /\ \A v \in Workers \ {w} : current'[v] = current[v]
            /\ runnable' = runnable \cup {current[w]} /\ mutex = Free
            /\ UNCHANGED <<mutex, parked, unborn>>
        BY <1>0, <1>5, Zenon DEF ContextTypeOK, Requeue
      <3>2. /\ current[w] \notin unborn /\ current[w] \notin parked
            /\ \A v \in Workers \ {w} : current[v] # current[w]
        BY <1>0, <2>0, <3>1 DEF Placement
      <3>3. NoCoroutine \notin runnable' /\ NoCoroutine \notin parked /\ NoCoroutine \notin unborn
        BY <1>0, <2>0, <3>1 DEF ContextTypeOK
      <3> QED
        BY <1>0, <2>0, <3>1, <3>2, <3>3 DEF Placement
    <2>3. WorkerState'
      BY <1>0, <1>5, <2>0 DEF ContextTypeOK, Placement, WorkerState, Requeue, MoveTo
    <2>4. ContextsExact'
      BY <1>0, <1>5, <2>0 DEF ContextTypeOK, ContextsExact, Placement, WorkerState, Requeue, MoveTo
    <2> QED
      BY <2>1, <2>2, <2>3, <2>4 DEF ContextInv
  <1>6. ASSUME NEW w \in Workers, Yield(w) \/ ParkSwitches(w) PROVE ContextInv'
    <2>a. current[w] \in Coroutines /\ place[w] = "task"
      BY <1>0, <1>6 DEF ContextTypeOK, WorkerState, Yield, ParkSwitches
    <2>0. context' = [context EXCEPT ![current[w]] = cpu[w]]
      BY <1>0, <1>6, <2>a, SaveIsExact DEF Yield, ParkSwitches, Leave
    <2>1. ContextTypeOK'
      BY <1>0, <1>6, <2>a, <2>0 DEF ContextTypeOK, Places, Yield, ParkSwitches, Leave, MoveTo
    <2>2. Placement'
      BY <1>0, <1>6, <2>a, <2>0 DEF ContextTypeOK, Placement, WorkerState, Yield, ParkSwitches, Leave, MoveTo
    <2>b. /\ place'[w] = "leave" /\ \A v \in Workers \ {w} : place'[v] = place[v]
          /\ left' = [left EXCEPT ![current[w]] = cpu[w]]
          /\ UNCHANGED <<cpu, current, mutex, parked>>
      BY <1>0, <1>6, Zenon DEF ContextTypeOK, Yield, ParkSwitches, Leave, MoveTo
    <2>3. WorkerState'
      <3>1. \A v \in Workers : v # current[w]
        BY <2>a, Zenon
      <3>2. \A v \in Workers : context'[v] = context[v]
        BY <1>0, <2>0, <3>1, Zenon DEF ContextTypeOK
      <3> SUFFICES ASSUME NEW v \in Workers
                   PROVE  /\ place'[v] = "loop" <=> current'[v] = NoCoroutine
                          /\ place'[v] \in {"loop", "enter", "back", "handed"}
                                => cpu'[v] = OfWorker(v)
                          /\ place'[v] \in {"enter", "task", "leave"}
                                => context'[v] = OfWorker(v)
                          /\ place'[v] \in {"task", "leave"} => cpu'[v]["sp"] = current'[v]
                          /\ mutex' = v => /\ place'[v] \in {"task", "leave", "handed"}
                                           /\ current'[v] \in parked'
                          /\ place'[v] = "handed" => mutex' = v
                          /\ place'[v] = "back" => mutex' # v
        BY Zenon DEF WorkerState
      <3>3. CASE v = w
        BY <1>0, <2>a, <2>b, <3>2, <3>3, Zenon DEF WorkerState
      <3>4. CASE v # w
        BY <1>0, <2>b, <3>2, <3>4, Zenon DEF WorkerState
      <3> QED
        BY <3>3, <3>4, Zenon
    <2>4. ContextsExact'
      <3>1. cpu[w]["sp"] = current[w]
        BY <1>0, <2>a, Zenon DEF WorkerState
      <3>2. /\ context'[current[w]] = cpu[w] /\ left'[current[w]] = cpu[w]
            /\ \A t \in Coroutines \ {current[w]} :
                  context'[t] = context[t] /\ left'[t] = left[t]
        BY <1>0, <2>a, <2>b, <2>0, Zenon DEF ContextTypeOK
      <3> QED
        BY <1>0, <3>1, <3>2, Zenon DEF ContextsExact
    <2> QED
      BY <2>1, <2>2, <2>3, <2>4 DEF ContextInv
  <1>7. ASSUME NEW w \in Workers, Park(w) PROVE ContextInv'
    <2>0. current[w] \in Coroutines
      BY <1>0, <1>7 DEF ContextTypeOK, WorkerState, Park
    <2>1. ContextTypeOK'
      BY <1>0, <1>7, <2>0 DEF ContextTypeOK, Places, Park
    <2>2. Placement'
      BY <1>0, <1>7, <2>0 DEF ContextTypeOK, Placement, WorkerState, Park
    <2>3. WorkerState'
      BY <1>0, <1>7, <2>0 DEF ContextTypeOK, Placement, WorkerState, Park
    <2>4. ContextsExact'
      BY <1>0, <1>7, <2>0 DEF ContextTypeOK, ContextsExact, Placement, WorkerState, Park
    <2> QED
      BY <2>1, <2>2, <2>3, <2>4 DEF ContextInv
  <1>8. ASSUME NEW w \in Workers, NEW t \in Coroutines, Spawn(w, t) PROVE ContextInv'
    <2>0. cpu[w]["fpu"] \in Values
      BY <1>0 DEF ContextTypeOK, RegisterFile
    <2>1. ContextTypeOK'
      BY <1>0, <1>8, <2>0, FreshRegisters DEF ContextTypeOK, Places, Spawn, create_context
    <2>2. Placement'
      BY <1>0, <1>8, <2>0, FreshRegisters DEF ContextTypeOK, Placement, WorkerState, Spawn, create_context
    <2>3. WorkerState'
      BY <1>0, <1>8, <2>0, FreshRegisters DEF ContextTypeOK, Placement, WorkerState, Spawn, create_context
    <2>4. ContextsExact'
      BY <1>0, <1>8, <2>0, FreshRegisters DEF ContextTypeOK, ContextsExact, Spawn, create_context, OfNewTask
    <2> QED
      BY <2>1, <2>2, <2>3, <2>4 DEF ContextInv
  <1>9. ASSUME NEW w \in Workers, NEW r \in Registers, NEW v \in Values, Compute(w, r, v) PROVE ContextInv'
    <2>1. ContextTypeOK'
      <3>1. [cpu[w] EXCEPT ![r] = v] \in RegisterFile
        BY <1>0, <1>9 DEF ContextTypeOK, RegisterFile, Compute
      <3> QED
        BY <1>0, <1>9, <3>1 DEF ContextTypeOK, Compute
    <2>2. Placement'
      BY <1>0, <1>9 DEF ContextTypeOK, Placement, WorkerState, Compute
    <2>3. WorkerState'
      <3>1. /\ place[w] = "task" /\ cpu'[w]["sp"] = cpu[w]["sp"]
            /\ \A u \in Workers \ {w} : cpu'[u] = cpu[u]
            /\ UNCHANGED <<context, place, current, mutex, parked>>
        BY <1>0, <1>9 DEF ContextTypeOK, RegisterFile, Compute
      <3> QED
        BY <1>0, <3>1 DEF WorkerState
    <2>4. ContextsExact'
      BY <1>0, <1>9 DEF ContextTypeOK, ContextsExact, Placement, WorkerState, Compute
    <2> QED
      BY <2>1, <2>2, <2>3, <2>4 DEF ContextInv
  <1>10. ASSUME NEW t \in Coroutines, Wake(t) PROVE ContextInv'
    <2>1. ContextTypeOK'
      BY <1>0, <1>10 DEF ContextTypeOK, Places, Wake
    <2>2. Placement'
      <3>a. /\ mutex = Free /\ t \in parked /\ parked' = parked \ {t}
            /\ runnable' = runnable \cup {t} /\ UNCHANGED <<current, mutex, unborn>>
        BY <1>10, Zenon DEF Wake
      <3>b. /\ \A w \in Workers : current[w] \in parked => mutex = w
            /\ \A u \in Coroutines : u \in parked => u \notin unborn
        BY <1>0 DEF Placement
      <3>1. t \notin unborn /\ t \notin parked' /\ parked' \subseteq parked
        BY <3>a, <3>b, Zenon
      <3>2. \A w \in Workers : current[w] # t
        BY <3>a, <3>b, ContextAssumption, Zenon
      <3> QED
        BY <1>0, <3>a, <3>1, <3>2, Zenon DEF Placement
    <2>3. WorkerState'
      BY <1>0, <1>10 DEF ContextTypeOK, Placement, WorkerState, Wake
    <2>4. ContextsExact'
      BY <1>0, <1>10 DEF ContextTypeOK, ContextsExact, Placement, WorkerState, Wake
    <2> QED
      BY <2>1, <2>2, <2>3, <2>4 DEF ContextInv
  <1>11. CASE UNCHANGED context_vars
    BY <1>0, <1>11 DEF ContextInv, ContextTypeOK, Placement, WorkerState, ContextsExact, context_vars
  <1> QED
    BY <1>1, <1>2, <1>3, <1>4, <1>5, <1>6, <1>7, <1>8, <1>9, <1>10, <1>11 DEF ContextNext

\* What the invariant gives at once.
LEMMA ContextInvImplications ==
    ContextInv => ContextTypeOK /\ OneThreadPerStack /\ SchedulerUndisturbed
  <1> SUFFICES ASSUME ContextInv
               PROVE  ContextTypeOK /\ OneThreadPerStack /\ SchedulerUndisturbed
    OBVIOUS
  <1>1. \A w \in Workers : \/ cpu[w]["sp"] = w
                           \/ cpu[w]["sp"] = current[w] /\ current[w] \in Coroutines
    <2> TAKE w \in Workers
    <2>1. OfWorker(w)["sp"] = w
      BY DEF OfWorker
    <2>2. place[w] \in Places /\ current[w] \in Coroutines \cup {NoCoroutine}
      BY DEF ContextInv, ContextTypeOK
    <2>3. CASE place[w] \in {"task", "leave"}
      BY <2>2, <2>3 DEF ContextInv, WorkerState
    <2>4. CASE place[w] \notin {"task", "leave"}
      BY <2>1, <2>2, <2>4 DEF ContextInv, WorkerState, Places
    <2> QED
      BY <2>3, <2>4
  <1>2. OneThreadPerStack
    BY <1>1, ContextAssumption DEF ContextInv, Placement, OneThreadPerStack
  <1> QED
    BY <1>2 DEF ContextInv, WorkerState, SchedulerUndisturbed

\* The invariant holds throughout.
THEOREM ContextInvariant == ContextSpec => []ContextInv
  BY InitEstablishesContextInv, NextKeepsContextInv, PTL DEF ContextSpec

\* No two workers are ever on one stack: context_switch has left a task's stack
\* before anything that finds the task can resume it.
THEOREM StackHasOneThread == ContextSpec => []OneThreadPerStack
  BY ContextInvariant, ContextInvImplications, PTL

\* The scheduler loop of a worker runs with its own registers and control words.
THEOREM SchedulerIsUndisturbed == ContextSpec => []SchedulerUndisturbed
  BY ContextInvariant, ContextInvImplications, PTL

\* Loading a task's context gives it the registers it left with.
LEMMA EnterResumes ==
    ContextInv /\ [ContextNext]_context_vars =>
        [\A w \in Workers : place[w] = "enter" /\ place'[w] = "task" =>
            cpu'[w] = left[current[w]]]_context_vars
  <1> SUFFICES ASSUME ContextInv, ContextNext,
                      NEW w \in Workers, place[w] = "enter", place'[w] = "task"
               PROVE  cpu'[w] = left[current[w]]
    BY DEF context_vars
  <1>1. Enter(w)
    BY DEF ContextInv, ContextTypeOK, ContextNext, MoveTo, Wake, Enter, Back, Unlock, Requeue, Yield,
           Park, ParkSwitches, Leave, Dispatch, Spawn, Compute
  <1>2. current[w] \in Coroutines
    BY DEF ContextInv, ContextTypeOK, WorkerState
  <1>3. cpu' = [cpu EXCEPT ![w] = context[current[w]]]
    BY <1>1, <1>2, LoadIsExact DEF ContextInv, Enter
  <1> QED
    BY <1>2, <1>3 DEF ContextInv, ContextTypeOK, ContextsExact

\* A task goes on with the registers it left with, whatever worker it is on.
THEOREM TaskResumesWhatItLeft == ContextSpec => ResumesWhatItLeft
  BY ContextInvariant, EnterResumes, PTL DEF ContextSpec, ResumesWhatItLeft
=============================================================================
