---------------------------- MODULE ChannelProofs ----------------------------
(***************************************************************************)
(* Proofs about channels and select, for any number of tasks and channels, *)
(* any capacities and any select calls: what goes through a channel, what  *)
(* the callers are told, and the theorems.                                 *)
(***************************************************************************)
EXTENDS ChannelLinkProofs
-----------------------------------------------------------------------------
(***************************************************************************)
(* The rest of the inductive invariant.                                    *)
(***************************************************************************)
\* Live waiters of channel c
LiveAt(c, op) == {w \in Range(Queue(c, op)) : Live(w)}

\* What a channel handed over and what it holds is what it accepted; a live waiter
\* waits on a buffer that is full, or empty.
BufferInv ==
    /\ accepted \in [Channels -> Seq(Values)]
    /\ received \in [Channels -> Seq(Values)]
    /\ \A c \in Channels :
        /\ accepted[c] = received[c] \o Contents(c)
        /\ LiveAt(c, "send") # {} => chan[c].len = Capacity[c]
        /\ LiveAt(c, "recv") # {} => chan[c].len = 0
        /\ \A w \in LiveAt(c, "send"), u \in LiveAt(c, "recv") : w.task = u.task

Fired(t) == call[t].cases[result[t].case]

\* A value its sender has used up, and the value of the send on c that its sender was
\* woken for.
Used(v) == v[2] < sends[v[1]]
Current(c, v) == /\ v[2] = sends[v[1]]
                 /\ tstate[v[1]] \in {"runnable", "freed"}
                 /\ result[v[1]].status = "sent"
                 /\ Fired(v[1]) = Case(c, "send")

\* There is no other value in the log of a channel.
AcceptedIsUsed ==
    \A c \in Channels : \A v \in Range(accepted[c]) : Used(v) \/ Current(c, v)

\* What task t was told is what happened.
Told(t) ==
    /\ result[t].status \in {"sent", "value", "closed"}
    /\ result[t].case \in RealCases(call[t])
    /\ result[t].status = "sent" => /\ Fired(t).op = "send"
                                    /\ Value(t) \in Range(accepted[Fired(t).ch])
    /\ result[t].status = "value" => /\ Fired(t).op = "recv"
                                     /\ result[t].value \in Range(received[Fired(t).ch])
    /\ result[t].status = "closed" => chan[Fired(t).ch].closed

WokenIsTold == \A t \in Tasks : tstate[t] = "runnable" => Told(t)

ResultInv == AcceptedIsUsed /\ WokenIsTold
-----------------------------------------------------------------------------
(***************************************************************************)
(* What a channel accepted, handed over and holds.                         *)
(***************************************************************************)
\* A part of a sequence has the type of the whole.
LEMMA PartType ==
    ASSUME NEW X, NEW Y, NEW s \in Seq(X), NEW r \in Seq(X), NEW h \in Seq(Y), s = r \o h
    PROVE  h \in Seq(X)
  <1>1. ASSUME NEW i \in 1 .. Len(h) PROVE h[i] \in X
    <2>1. Len(r) \in Nat /\ Len(h) \in Nat /\ Len(s) = Len(r) + Len(h)
      OBVIOUS
    <2>2. Len(r) + i \in 1 .. Len(s)
      BY <2>1
    <2>3. s[Len(r) + i] = h[i]
      BY <2>1, <2>2
    <2>4. s[Len(r) + i] \in X
      BY <2>2
    <2> QED
      BY <2>3, <2>4
  <1> QED
    BY <1>1

\* Concatenation is associative, has a neutral element, and appends.
LEMMA Regroup ==
    \A x, y, z \in Seq(Values) : (x \o y) \o z = x \o (y \o z)
  OBVIOUS

LEMMA NothingAdded ==
    ASSUME NEW X, NEW x \in Seq(X)
    PROVE  x \o << >> = x /\ << >> \o x = x
  OBVIOUS

LEMMA OneAdded ==
    ASSUME NEW X, NEW x \in Seq(X), NEW e \in X
    PROVE  Append(x, e) = x \o <<e>>
  OBVIOUS

\* A log of what was accepted, `a', stays what was handed over, `r', and what is held,
\* when `gives' is added at one end and `takes' is taken at the other.
LogsAgree(a, r, h, l, gives, takes) ==
    a = r \o h /\ h \o gives = takes \o l => a \o gives = (r \o takes) \o l

\* The logs of a channel agree, whatever is added and taken.
LEMMA LogStep ==
    ASSUME NEW a \in Seq(Values), NEW r \in Seq(Values), NEW h \in Seq(Values),
           NEW l \in Seq(Values),
           NEW gives \in Seq(Values), NEW takes \in Seq(Values)
    PROVE  LogsAgree(a, r, h, l, gives, takes)
  <1> DEFINE S == Seq(Values)
             cat(x, y) == x \o y
  <1>1. \A x, y, z \in S : cat(cat(x, y), z) = cat(x, cat(y, z))
    BY Regroup, Zenon
  <1>2. r \in S /\ h \in S /\ l \in S /\ gives \in S /\ takes \in S
    BY Zenon
  <1> HIDE DEF S, cat
  <1>3. cat(cat(r, h), gives) = cat(r, cat(h, gives))
    BY <1>1, <1>2, ZenonT(40)
  <1>4. cat(cat(r, takes), l) = cat(r, cat(takes, l))
    BY <1>1, <1>2, ZenonT(40)
  <1>5. a = cat(r, h) /\ cat(h, gives) = cat(takes, l) => cat(a, gives) = cat(cat(r, takes), l)
    BY <1>3, <1>4, Zenon
  <1> QED
    BY <1>5, Zenon DEF cat, LogsAgree

\* The values that a channel holds are values that it accepted.
LEMMA HeldValues ==
    ASSUME LinkInv, BufferInv, NEW c \in Channels
    PROVE  /\ accepted[c] \in Seq(Values) /\ received[c] \in Seq(Values)
           /\ Held(chan[c], c) \in Seq(Values) /\ Len(Held(chan[c], c)) = chan[c].len
           /\ accepted[c] = received[c] \o Held(chan[c], c)
  <1>1. accepted[c] \in Seq(Values) /\ received[c] \in Seq(Values)
    BY Zenon DEF BufferInv
  <1>2. accepted[c] = received[c] \o Held(chan[c], c)
    BY Zenon DEF BufferInv, Held, Contents
  <1>3. chan[c] \in ChannelRecords /\ Ring(chan[c], c)
    BY Zenon DEF LinkInv, Types
  <1>4. Held(chan[c], c) \in Seq(Contained) /\ Len(Held(chan[c], c)) = chan[c].len
    BY <1>3, HeldType, Zenon
  <1>5. Held(chan[c], c) \in Seq(Values)
    BY <1>1, <1>2, <1>4, PartType
  <1> QED
    BY <1>1, <1>2, <1>4, <1>5, Zenon

\* Who waits in the queues of channel c waits for its buffer.
Justified(k, c, senders, receivers) ==
    /\ senders # {} => k.len = Capacity[c]
    /\ receivers # {} => k.len = 0
    /\ \A w \in senders, u \in receivers : w.task = u.task

\* The invariant, channel by channel.
LEMMA BufferForm ==
    BufferInv <=> /\ accepted \in [Channels -> Seq(Values)]
                  /\ received \in [Channels -> Seq(Values)]
                  /\ \A c \in Channels :
                        /\ accepted[c] = received[c] \o Held(chan[c], c)
                        /\ Justified(chan[c], c, LiveAt(c, "send"), LiveAt(c, "recv"))
  BY Zenon DEF BufferInv, Held, Contents, Justified

\* A step that transfers nothing and adds no waiters.
LEMMA NoTransferKeepsBuffer ==
    ASSUME LinkInv, BufferInv, accepted' = accepted, received' = received,
           \A c \in Channels :
              /\ Held(chan'[c], c) = Held(chan[c], c) /\ chan'[c].len = chan[c].len
              /\ \A op \in Ops : \A w \in Range(QueueOf(chan'[c], op)) :
                    Live(w)' => w \in Range(Queue(c, op)) /\ Live(w)
    PROVE  BufferInv'
  <1> SUFFICES ASSUME NEW c \in Channels
               PROVE  /\ accepted'[c] = received'[c] \o Held(chan'[c], c)
                      /\ Justified(chan'[c], c, LiveAt(c, "send")', LiveAt(c, "recv")')
    <2>1. accepted' \in [Channels -> Seq(Values)] /\ received' \in [Channels -> Seq(Values)]
      BY Zenon DEF BufferInv
    <2> QED
      BY <2>1, Zenon DEF BufferInv, Held, Contents, Justified
  <1>1. accepted'[c] = received'[c] \o Held(chan'[c], c)
    BY HeldValues, Zenon
  <1>2. \A op \in Ops : LiveAt(c, op)' \subseteq LiveAt(c, op)
    BY Zenon DEF LiveAt, Queue
  <1>3. Justified(chan[c], c, LiveAt(c, "send"), LiveAt(c, "recv"))
    BY BufferForm, Zenon
  <1>4. Justified(chan'[c], c, LiveAt(c, "send")', LiveAt(c, "recv")')
    BY <1>2, <1>3, TwoOps, Zenon DEF Justified
  <1> QED
    BY <1>1, <1>4, Zenon

\* The first element of a sequence, and the rest.
LEMMA HeadAndRest ==
    ASSUME NEW h \in Seq(Values), NEW v, NEW l \in Seq(Contained), h = <<v>> \o l
    PROVE  v \in Values /\ l \in Seq(Values) /\ <<v>> \in Seq(Values)
  <1>1. Len(h) = 1 + Len(l) /\ Len(l) \in Nat /\ h[1] = v
    OBVIOUS
  <1>2. 1 \in 1 .. Len(h)
    BY <1>1
  <1>3. h[1] \in Values
    BY <1>2
  <1>4. v \in Values
    BY <1>1, <1>3, Zenon
  <1>5. <<v>> \in Seq(Values)
    BY <1>4
  <1> QED
    BY <1>4, <1>5, PartType

\* What an attempt on channel record k gives to the channel and takes from it.
Gives(op, r) == IF op = "send" THEN <<r.value>> ELSE AsSeq({Value(w.task) : w \in r.woken})
TakesOut(op, r) == IF op = "recv" \/ r.woken # {} THEN <<r.value>> ELSE << >>

\* Values go in at the end and come out in front.
InOrder(h, op, r, l) ==
    /\ Gives(op, r) \in Seq(Values) /\ TakesOut(op, r) \in Seq(Values) /\ l \in Seq(Values)
    /\ h \o Gives(op, r) = TakesOut(op, r) \o l

\* A value that a sender hands to a receiver while the buffer is empty.
LEMMA HandsOverInOrder ==
    ASSUME NEW v \in Values, NEW r, r.value = v, NEW h \in Seq(Values), Len(h) = 0,
           NEW op \in Ops, Gives(op, r) = <<v>>, TakesOut(op, r) = <<v>>
    PROVE  InOrder(h, op, r, h)
  <1>1. <<v>> \in Seq(Values)
    OBVIOUS
  <1>2. h = << >>
    OBVIOUS
  <1>3. h \o <<v>> = <<v>> /\ <<v>> \o h = <<v>>
    BY <1>1, <1>2, NothingAdded, Zenon
  <1> QED
    BY <1>1, <1>3, Zenon DEF InOrder

\* A value that goes into the buffer.
LEMMA BuffersInOrder ==
    ASSUME NEW v \in Values, NEW r, r.value = v, NEW h \in Seq(Values),
           NEW op \in Ops, Gives(op, r) = <<v>>, TakesOut(op, r) = << >>
    PROVE  InOrder(h, op, r, Append(h, v))
  <1>1. <<v>> \in Seq(Values) /\ << >> \in Seq(Values) /\ Append(h, v) \in Seq(Values)
    OBVIOUS
  <1>2. h \o <<v>> = Append(h, v)
    BY OneAdded, Zenon
  <1>3. << >> \o Append(h, v) = Append(h, v)
    BY <1>1, NothingAdded, Zenon
  <1> QED
    BY <1>1, <1>2, <1>3, Zenon DEF InOrder

\* A value that comes out of the buffer.
LEMMA RecvTakesInOrder ==
    ASSUME NEW r, NEW h \in Seq(Values), NEW l \in Seq(Contained), h = <<r.value>> \o l,
           NEW op \in Ops, Gives(op, r) = << >>, TakesOut(op, r) = <<r.value>>
    PROVE  InOrder(h, op, r, l)
  <1>1. l \in Seq(Values) /\ <<r.value>> \in Seq(Values)
    BY HeadAndRest, Zenon
  <1>2. << >> \in Seq(Values)
    OBVIOUS
  <1>3. h \o << >> = h
    BY NothingAdded, Zenon
  <1> QED
    BY <1>1, <1>2, <1>3, Zenon DEF InOrder

\* A value that comes out of the buffer, and one that takes its slot.
LEMMA RecvRefillsInOrder ==
    ASSUME NEW r, NEW h \in Seq(Values), NEW g \in Seq(Contained), h = <<r.value>> \o g,
           NEW v \in Values,
           NEW op \in Ops, Gives(op, r) = <<v>>, TakesOut(op, r) = <<r.value>>
    PROVE  InOrder(h, op, r, Append(g, v))
  <1> DEFINE x == <<r.value>>
             y == <<v>>
  <1>1. g \in Seq(Values) /\ x \in Seq(Values)
    BY HeadAndRest, Zenon
  <1>2. y \in Seq(Values)
    OBVIOUS
  <1>3. Append(g, v) \in Seq(Values) /\ Append(g, v) = g \o y
    <2>1. Append(g, v) \in Seq(Values)
      BY <1>1
    <2>2. Append(g, v) = g \o y
      BY <1>1, OneAdded, Zenon
    <2> QED
      BY <2>1, <2>2, Zenon
  <1>4. h = x \o g /\ Gives(op, r) = y /\ TakesOut(op, r) = x
    BY Zenon
  <1> HIDE DEF x, y
  <1>5. (x \o g) \o y = x \o (g \o y)
    BY <1>1, <1>2, Regroup, ZenonT(40)
  <1> QED
    BY <1>1, <1>2, <1>3, <1>4, <1>5, Zenon DEF InOrder

\* The waiter that is popped after dead waiters were dropped was a live one.
LEMMA PoppedIsLive ==
    ASSUME NEW c \in Channels, NEW k, Trimmed(chan[c], k), NEW op \in Ops
    PROVE  /\ \A w : First(w, QueueOf(k, op)) => w \in LiveAt(c, op)
           /\ NoneLive(QueueOf(k, op)) => LiveAt(c, op) = {}
  <1>1. Range(QueueOf(k, op)) \subseteq Range(QueueOf(chan[c], op))
    BY EmptyFacts, Zenon DEF Trimmed
  <1>2. \A w : First(w, QueueOf(k, op)) => w \in LiveAt(c, op)
    BY <1>1, Zenon DEF First, LiveAt, Queue
  <1>3. NoneLive(QueueOf(k, op)) => LiveAt(c, op) = {}
    BY TrimmedNoneLive, Zenon DEF NoneLive, LiveAt, Queue
  <1> QED
    BY <1>2, <1>3, Zenon

\* A case that fires: values in at the end, values out in front, and who still waits
\* does so for a reason.
LEMMA FiredInOrder ==
    ASSUME LinkInv, BufferInv, NEW t \in Tasks, NEW c \in Channels, NEW op \in Ops, NEW k, NEW r,
           FiredBy(t, c, op, k, r)
    PROVE  /\ InOrder(Held(chan[c], c), op, r, Held(chan'[c], c))
           /\ Justified(chan'[c], c, LiveAt(c, "send"), LiveAt(c, "recv"))
  <1> DEFINE h == Held(chan[c], c)
             S == LiveAt(c, "send")
             R == LiveAt(c, "recv")
             v == Value(t)
  <1>1. h \in Seq(Values) /\ Len(h) = chan[c].len
    BY HeldValues, Zenon
  <1>2. Trimmed(chan[c], k) /\ Succeeds(k, c, op, v, r) /\ chan'[c] = r.k
    BY Zenon DEF FiredBy
  <1>3. /\ k \in ChannelRecords /\ Ring(k, c) /\ \A o \in Ops : IsInjective(QueueOf(k, o))
        /\ Held(k, c) = h /\ k.len = chan[c].len /\ k.closed = chan[c].closed
    BY <1>2, TrimmedFacts, Zenon
  <1>4. \A o \in Ops : /\ \A w : First(w, QueueOf(k, o)) => w \in LiveAt(c, o)
                       /\ NoneLive(QueueOf(k, o)) => LiveAt(c, o) = {}
    BY <1>2, PoppedIsLive, Zenon
  <1>5. Justified(chan[c], c, S, R)
    BY BufferForm, Zenon
  <1>6. v \in Values
    BY ValueType, Zenon DEF LinkInv
  <1>7. r.k \in ChannelRecords /\ Ring(r.k, c)
    BY <1>2, <1>6, AttemptTakes, Zenon DEF Takes
  <1>8. Held(r.k, c) \in Seq(Contained)
    BY <1>7, HeldType, Zenon
  <1>9. chan[c].len \in 0 .. Capacity[c] /\ Capacity[c] \in Nat
    BY ChannelAssumption, Zenon DEF LinkInv, Types, Ring
  <1>10. (op = "send") # (op = "recv")
    BY DEF Ops
  <1> HIDE DEF h, S, R, v
  <1> DEFINE Goal == InOrder(h, op, r, Held(r.k, c)) /\ Justified(r.k, c, S, R)
  <1>11. k \in ChannelRecords /\ Ring(k, c) /\ \A o \in Ops : IsInjective(QueueOf(k, o))
    BY <1>3, Zenon
  <1>12. ASSUME op = "send", SendHandsOver(k, c, v, r) PROVE Goal
    <2>1. /\ r.k.len = k.len /\ Held(r.k, c) = Held(k, c) /\ r.value = v
          /\ \E w \in Waiters : First(w, QueueOf(k, "recv")) /\ r.woken = {w}
      BY <1>6, <1>11, <1>12, HandsOverFacts
    <2>2. R # {} /\ r.woken # {}
      BY <1>4, <2>1, TwoOps, Zenon DEF R
    <2>3. Gives(op, r) = <<v>> /\ TakesOut(op, r) = <<v>>
      BY <1>12, <2>1, <2>2, Zenon DEF Gives, TakesOut
    <2>4. chan[c].len = 0
      BY <1>5, <2>2, Zenon DEF Justified
    <2>5. Len(h) = 0
      BY <1>1, <2>4, Zenon
    <2>6. InOrder(h, op, r, h)
      BY <1>1, <1>6, <2>1, <2>3, <2>5, HandsOverInOrder, Zenon
    <2>7. Justified(r.k, c, S, R)
      BY <1>3, <1>5, <2>1, Zenon DEF Justified
    <2> QED
      BY <1>3, <2>1, <2>6, <2>7, Zenon
  <1>13. ASSUME op = "send", SendBuffers(k, c, v, r) PROVE Goal
    <2>1. /\ r.k.len = k.len + 1 /\ Held(r.k, c) = Append(Held(k, c), v) /\ r.value = v
          /\ r.woken = {} /\ NoneLive(QueueOf(k, "recv")) /\ k.len < Capacity[c]
      <3>1. SendBuffers(k, c, v, r)
        BY <1>13, Zenon
      <3>2. Buffered(k, c, v, r)
        BY <1>6, <1>11, <3>1, BuffersFacts, Zenon
      <3> QED
        BY <3>2, Zenon DEF Buffered
    <2>2. R = {}
      BY <1>4, <2>1, TwoOps, Zenon DEF R
    <2>3. S = {}
      <3>1. chan[c].len # Capacity[c]
        BY <1>3, <1>9, <2>1
      <3> QED
        BY <1>5, <3>1, Zenon DEF Justified
    <2>4. Gives(op, r) = <<v>> /\ TakesOut(op, r) = << >>
      BY <1>10, <1>13, <2>1, Zenon DEF Gives, TakesOut
    <2>5. InOrder(h, op, r, Append(h, v))
      BY <1>1, <1>6, <2>1, <2>4, BuffersInOrder
    <2>6. Justified(r.k, c, S, R)
      BY <2>2, <2>3, Zenon DEF Justified
    <2> QED
      BY <1>3, <2>1, <2>5, <2>6, Zenon
  <1>14. ASSUME op = "recv", RecvTakes(k, c, r) PROVE Goal
    <2>1. /\ Held(k, c) = <<r.value>> \o Held(r.k, c)
          /\ r.woken = {} /\ k.len > 0
          /\ k.closed \/ NoneLive(QueueOf(k, "send"))
      BY <1>11, <1>14, RecvTakesFacts, Zenon
    <2>2. R = {}
      <3>1. chan[c].len # 0
        BY <1>3, <1>9, <2>1
      <3> QED
        BY <1>5, <3>1, Zenon DEF Justified
    <2>3. S = {}
      <3>1. CASE k.closed
        <4>1. Queue(c, "send") = << >>
          BY <1>3, <3>1, TwoOps, Zenon DEF LinkInv, Drained
        <4> QED
          BY <4>1, EmptyFacts, Zenon DEF S, LiveAt
      <3>2. CASE NoneLive(QueueOf(k, "send"))
        BY <1>4, <3>2, TwoOps, Zenon DEF S
      <3> QED
        BY <2>1, <3>1, <3>2, Zenon
    <2>4. Gives(op, r) = << >> /\ TakesOut(op, r) = <<r.value>>
      <3>1. {Value(w.task) : w \in r.woken} = {}
        BY <2>1
      <3> QED
        BY <1>10, <1>14, <3>1, AsSeqFacts, Zenon DEF Gives, TakesOut
    <2>5. h = <<r.value>> \o Held(r.k, c)
      BY <1>3, <2>1, Zenon
    <2>6. InOrder(h, op, r, Held(r.k, c))
      BY <1>1, <1>8, <2>4, <2>5, RecvTakesInOrder, ZenonT(30)
    <2>7. Justified(r.k, c, S, R)
      BY <2>2, <2>3, Zenon DEF Justified
    <2> QED
      BY <2>6, <2>7, Zenon
  <1>15. ASSUME op = "recv", NEW w \in Waiters, r.woken = {w}
         PROVE  /\ Gives(op, r) = <<Value(w.task)>> /\ TakesOut(op, r) = <<r.value>>
                /\ Value(w.task) \in Values
    <2>1. {Value(u.task) : u \in r.woken} = {Value(w.task)}
      BY <1>15
    <2>2. w.task \in Tasks
      BY WaiterFields, Zenon
    <2>3. Value(w.task) \in Values
      BY <2>2, ValueType, Zenon DEF LinkInv
    <2> QED
      BY <1>10, <1>15, <2>1, <2>3, AsSeqFacts, Zenon DEF Gives, TakesOut
  <1>16. ASSUME op = "recv", RecvRefills(k, c, r) PROVE Goal
    <2>1. /\ r.k.len = k.len
          /\ \E w \in Waiters : \E g \in Seq(Contained) :
                /\ First(w, QueueOf(k, "send")) /\ r.woken = {w}
                /\ Held(k, c) = <<r.value>> \o g
                /\ Held(r.k, c) = Append(g, Value(w.task))
      <3>1. RecvRefills(k, c, r)
        BY <1>16, Zenon
      <3>2. Refilled(k, c, r)
        BY <1>11, <3>1, RecvRefillsFacts, Zenon
      <3> QED
        BY <3>2, Zenon DEF Refilled
    <2>2. PICK w \in Waiters, g \in Seq(Contained) :
             /\ r.woken = {w}
             /\ Held(k, c) = <<r.value>> \o g
             /\ Held(r.k, c) = Append(g, Value(w.task))
      BY <2>1, Zenon
    <2>3. /\ Gives(op, r) = <<Value(w.task)>> /\ TakesOut(op, r) = <<r.value>>
          /\ Value(w.task) \in Values
      BY <1>15, <1>16, <2>2, Zenon
    <2>4. h = <<r.value>> \o g
      BY <1>3, <2>2, Zenon
    <2>5. InOrder(h, op, r, Append(g, Value(w.task)))
      BY <1>1, <2>3, <2>4, RecvRefillsInOrder, Zenon
    <2>6. Justified(r.k, c, S, R)
      BY <1>3, <1>5, <2>1, Zenon DEF Justified
    <2> QED
      BY <2>2, <2>5, <2>6, Zenon
  <1>17. ASSUME op = "recv", RecvDirect(k, c, r) PROVE Goal
    <2>1. /\ r.k.len = k.len /\ Held(r.k, c) = Held(k, c) /\ ~ (k.len > 0)
          /\ \E w \in Waiters : /\ First(w, QueueOf(k, "send")) /\ r.woken = {w}
                                /\ r.value = Value(w.task)
      BY <1>11, <1>17, RecvDirectFacts
    <2>2. PICK w \in Waiters : r.woken = {w} /\ r.value = Value(w.task)
      BY <2>1, Zenon
    <2>3. /\ Gives(op, r) = <<r.value>> /\ TakesOut(op, r) = <<r.value>>
          /\ r.value \in Values
      BY <1>15, <1>17, <2>2, Zenon
    <2>4. Len(h) = 0
      BY <1>1, <1>3, <1>9, <2>1
    <2>5. InOrder(h, op, r, h)
      BY <1>1, <2>3, <2>4, HandsOverInOrder, Zenon
    <2>6. Justified(r.k, c, S, R)
      BY <1>3, <1>5, <2>1, Zenon DEF Justified
    <2> QED
      BY <1>3, <2>1, <2>5, <2>6, Zenon
  <1>18. Goal
    BY <1>2, <1>12, <1>13, <1>14, <1>16, <1>17, Zenon DEF Succeeds
  <1> QED
    BY <1>2, <1>18, Zenon DEF h, S, R

\* No waiter comes to life, and none is added, when waiters are released.
LEMMA ReleaseLeavesLive ==
    ASSUME NEW W, Released(W), Woken(W), NEW c \in Channels, NEW op \in Ops
    PROVE  /\ LiveAt(c, op)' \subseteq LiveAt(c, op)
           /\ \A w \in Range(QueueOf(chan'[c], op)) :
                 Live(w)' => w \in Range(Queue(c, op)) /\ Live(w)
  <1>1. Range(QueueOf(chan'[c], op)) \subseteq Range(Queue(c, op))
    BY Zenon DEF Released
  <1>2. done \subseteq done'
    BY Zenon DEF Woken
  <1>3. \A w : Live(w)' => Live(w)
    BY <1>2, Zenon DEF Live
  <1> QED
    BY <1>1, <1>3, Zenon DEF LiveAt, Queue

\* A case that fires keeps the order of the values.
LEMMA FiredKeepsBuffer ==
    ASSUME LinkInv, BufferInv, NEW t \in Tasks, NEW c \in Channels, NEW op \in Ops, NEW k, NEW r,
           FiredBy(t, c, op, k, r)
    PROVE  BufferInv'
  <1> DEFINE gives == Gives(op, r)
             takes == TakesOut(op, r)
  <1>1. /\ InOrder(Held(chan[c], c), op, r, Held(chan'[c], c))
        /\ Justified(chan'[c], c, LiveAt(c, "send"), LiveAt(c, "recv"))
    BY FiredInOrder, Zenon
  <1>2. /\ gives \in Seq(Values) /\ takes \in Seq(Values) /\ Held(chan'[c], c) \in Seq(Values)
        /\ Held(chan[c], c) \o gives = takes \o Held(chan'[c], c)
    BY <1>1, Zenon DEF InOrder
  <1>3. /\ accepted' = [accepted EXCEPT ![c] = accepted[c] \o gives]
        /\ received' = [received EXCEPT ![c] = received[c] \o takes]
    BY Zenon DEF FiredBy, Gives, TakesOut
  <1> HIDE DEF gives, takes
  <1>4. accepted \in [Channels -> Seq(Values)] /\ received \in [Channels -> Seq(Values)]
    BY Zenon DEF BufferInv
  <1>5. accepted[c] \o gives \in Seq(Values) /\ received[c] \o takes \in Seq(Values)
    <2>1. accepted[c] \in Seq(Values) /\ received[c] \in Seq(Values)
      BY <1>4, Zenon
    <2> QED
      BY <1>2, <2>1, ConcatFacts, Zenon
  <1>6. accepted' \in [Channels -> Seq(Values)] /\ received' \in [Channels -> Seq(Values)]
    BY <1>3, <1>4, <1>5, Zenon
  <1>7. \A d \in Channels, o \in Ops : LiveAt(d, o)' \subseteq LiveAt(d, o)
    <2>1. Released(r.woken)
      BY FiredTakes, Zenon
    <2>2. Woken(r.woken)
      BY FiredWakes, Zenon
    <2> QED
      BY <2>1, <2>2, ReleaseLeavesLive, Zenon
  <1>8. ASSUME NEW d \in Channels
        PROVE  /\ accepted'[d] = received'[d] \o Held(chan'[d], d)
               /\ Justified(chan'[d], d, LiveAt(d, "send"), LiveAt(d, "recv"))
    <2>1. CASE d = c
      <3>1. accepted'[c] = accepted[c] \o gives /\ received'[c] = received[c] \o takes
        BY <1>3, <1>4, Zenon
      <3>2. /\ accepted[c] \in Seq(Values) /\ received[c] \in Seq(Values)
            /\ Held(chan[c], c) \in Seq(Values)
            /\ accepted[c] = received[c] \o Held(chan[c], c)
        BY HeldValues, Zenon
      <3>3. accepted[c] \o gives = (received[c] \o takes) \o Held(chan'[c], c)
        <4>1. /\ accepted[c] \in Seq(Values) /\ received[c] \in Seq(Values)
              /\ Held(chan[c], c) \in Seq(Values) /\ Held(chan'[c], c) \in Seq(Values)
              /\ gives \in Seq(Values) /\ takes \in Seq(Values)
          BY <1>2, <3>2, Zenon
        <4>2. LogsAgree(accepted[c], received[c], Held(chan[c], c), Held(chan'[c], c),
                        gives, takes)
          BY <4>1, LogStep, Zenon
        <4> QED
          BY <1>2, <3>2, <4>2, Zenon DEF LogsAgree
      <3> QED
        BY <1>1, <2>1, <3>1, <3>3, Zenon
    <2>2. CASE d # c
      <3>1. accepted'[d] = accepted[d] /\ received'[d] = received[d]
        BY <1>3, <1>4, <2>2, Zenon
      <3>2. Trimmed(chan[d], chan'[d])
        BY <2>2, Zenon DEF FiredBy
      <3>3. Held(chan'[d], d) = Held(chan[d], d) /\ chan'[d].len = chan[d].len
        BY <3>2, TrimmedFacts, Zenon
      <3>4. /\ accepted[d] = received[d] \o Held(chan[d], d)
            /\ Justified(chan[d], d, LiveAt(d, "send"), LiveAt(d, "recv"))
        BY BufferForm, Zenon
      <3> QED
        BY <3>1, <3>3, <3>4, Zenon DEF Justified
    <2> QED
      BY <2>1, <2>2, Zenon
  <1>9. ASSUME NEW d \in Channels
        PROVE  Justified(chan'[d], d, LiveAt(d, "send")', LiveAt(d, "recv")')
    <2>1. /\ LiveAt(d, "send")' \subseteq LiveAt(d, "send")
          /\ LiveAt(d, "recv")' \subseteq LiveAt(d, "recv")
      BY <1>7, TwoOps, Zenon
    <2>2. Justified(chan'[d], d, LiveAt(d, "send"), LiveAt(d, "recv"))
      BY <1>8, Zenon
    <2> QED
      BY <2>1, <2>2, Zenon DEF Justified
  <1> QED
    BY <1>6, <1>8, <1>9, Zenon DEF BufferInv, Held, Contents, Justified

\* A task that parks waits for the buffer.
LEMMA ParksKeepsBuffer ==
    ASSUME LinkInv, BufferInv, NEW t \in Tasks, NEW cl \in Calls, Parks(t, cl)
    PROVE  BufferInv'
  <1>1. accepted' = accepted /\ received' = received /\ done' = done
    BY Zenon DEF Parks
  <1>2. accepted' \in [Channels -> Seq(Values)] /\ received' \in [Channels -> Seq(Values)]
    BY <1>1, Zenon DEF BufferInv
  <1>3. ASSUME NEW c \in Channels
        PROVE  /\ accepted'[c] = received'[c] \o Held(chan'[c], c)
               /\ Justified(chan'[c], c, LiveAt(c, "send")', LiveAt(c, "recv")')
    <2>1. /\ Held(chan'[c], c) = Held(chan[c], c) /\ chan'[c].len = chan[c].len
          /\ \A op \in Ops :
                Adds(QueueOf(chan[c], op), QueueOf(chan'[c], op), NewOf(t, cl, c, op))
      BY ParksEffect, Zenon
    <2>2. /\ accepted[c] = received[c] \o Held(chan[c], c)
          /\ Justified(chan[c], c, LiveAt(c, "send"), LiveAt(c, "recv"))
      BY BufferForm, Zenon
    <2>3. ASSUME NEW op \in Ops, NEW w \in LiveAt(c, op)'
          PROVE  w \in LiveAt(c, op) \/ w \in NewOf(t, cl, c, op)
      <3>1. w \in Range(QueueOf(chan'[c], op)) /\ Live(w)'
        BY <2>3, Zenon DEF LiveAt, Queue
      <3>2. Live(w)
        BY <1>1, <3>1, Zenon DEF Live
      <3>3. w \in Range(QueueOf(chan[c], op)) \/ w \in NewOf(t, cl, c, op)
        BY <2>1, <3>1, Zenon DEF Adds
      <3> QED
        BY <3>2, <3>3, Zenon DEF LiveAt, Queue
    <2>4. ASSUME NEW op \in Ops, NEW w \in NewOf(t, cl, c, op)
          PROVE  /\ w.task = t
                 /\ op = "send" => LiveAt(c, "recv") = {} /\ chan[c].len = Capacity[c]
                 /\ op = "recv" => LiveAt(c, "send") = {} /\ chan[c].len = 0
      <3>1. w.task = t /\ w.case \in RealCases(cl) /\ cl.cases[w.case] = Case(c, op)
        BY NewOfFacts
      <3>2. w.case \in Blocked(t, cl)
        BY <3>1, Zenon DEF Parks
      <3>3. cl.cases[w.case].ch = c /\ cl.cases[w.case].op = op
        BY <3>1, CaseFields, Zenon
      <3>4. /\ op = "send" => NoneLive(chan[c].recv_waiters) /\ ~ (chan[c].len < Capacity[c])
            /\ op = "recv" => NoneLive(chan[c].send_waiters) /\ ~ (chan[c].len > 0)
        BY <3>2, <3>3, BlockedFacts, Zenon
      <3>5. /\ op = "send" => LiveAt(c, "recv") = {}
            /\ op = "recv" => LiveAt(c, "send") = {}
        BY <3>4, TwoOps, Zenon DEF LiveAt, Queue, NoneLive
      <3>6. chan[c].len \in 0 .. Capacity[c] /\ Capacity[c] \in Nat
        BY ChannelAssumption, Zenon DEF LinkInv, Types, Ring
      <3>7. /\ op = "send" => chan[c].len = Capacity[c]
            /\ op = "recv" => chan[c].len = 0
        BY <3>4, <3>6
      <3> QED
        BY <3>1, <3>5, <3>7, Zenon
    <2>5. LiveAt(c, "send")' # {} => chan'[c].len = Capacity[c]
      BY <2>1, <2>2, <2>3, <2>4, TwoOps, Zenon DEF Justified
    <2>6. LiveAt(c, "recv")' # {} => chan'[c].len = 0
      BY <2>1, <2>2, <2>3, <2>4, TwoOps, Zenon DEF Justified
    <2>7. ASSUME NEW w \in LiveAt(c, "send")', NEW u \in LiveAt(c, "recv")'
          PROVE  w.task = u.task
      <3>1. CASE w \in NewOf(t, cl, c, "send")
        <4>1. w.task = t /\ LiveAt(c, "recv") = {}
          BY <2>4, <3>1, TwoOps, Zenon
        <4>2. u \in NewOf(t, cl, c, "recv")
          BY <2>3, <4>1, TwoOps, Zenon
        <4> QED
          BY <2>4, <4>1, <4>2, TwoOps, Zenon
      <3>2. CASE w \in LiveAt(c, "send")
        <4>1. u \in LiveAt(c, "recv")
          BY <2>3, <2>4, <3>2, TwoOps, Zenon
        <4> QED
          BY <2>2, <3>2, <4>1, Zenon DEF Justified
      <3> QED
        BY <2>3, <3>1, <3>2, TwoOps, Zenon
    <2> QED
      BY <1>1, <2>1, <2>2, <2>5, <2>6, <2>7, Zenon DEF Justified
  <1> QED
    BY <1>2, <1>3, Zenon DEF BufferInv, Held, Contents, Justified

\* Every kind of step keeps the order of the values, and the reasons to wait.
LEMMA StepKeepsBuffer ==
    ASSUME LinkInv, BufferInv, Kinds
    PROVE  BufferInv'
  <1>1. ASSUME NEW t \in Tasks, NEW c \in Channels, NEW op \in Ops, NEW k, NEW r,
               FiredBy(t, c, op, k, r)
        PROVE  BufferInv'
    BY <1>1, FiredKeepsBuffer
  <1>2. ASSUME Quiet PROVE BufferInv'
    <2>1. UNCHANGED <<done, accepted, received>> /\ \A c \in Channels : Trimmed(chan[c], chan'[c])
      BY <1>2, Zenon DEF Quiet, taskVars
    <2>2. ASSUME NEW c \in Channels
          PROVE  /\ Held(chan'[c], c) = Held(chan[c], c) /\ chan'[c].len = chan[c].len
                 /\ \A op \in Ops : \A w \in Range(QueueOf(chan'[c], op)) :
                       Live(w)' => w \in Range(Queue(c, op)) /\ Live(w)
      <3>1. Held(chan'[c], c) = Held(chan[c], c) /\ chan'[c].len = chan[c].len
        BY <2>1, TrimmedFacts, Zenon
      <3>2. \A op \in Ops : Range(QueueOf(chan'[c], op)) \subseteq Range(QueueOf(chan[c], op))
        BY <2>1, EmptyFacts, Zenon DEF Trimmed
      <3> QED
        BY <2>1, <3>1, <3>2, Zenon DEF Live, Queue
    <2> QED
      BY <2>1, <2>2, NoTransferKeepsBuffer, Zenon
  <1>3. ASSUME NEW t \in Tasks, NEW cl \in Calls, Parks(t, cl) PROVE BufferInv'
    BY <1>3, ParksKeepsBuffer, Zenon
  <1>4. ASSUME NEW t \in Tasks, Resume(t) PROVE BufferInv'
    <2>1. accepted' = accepted /\ received' = received /\ done' = done \ {t}
      BY <1>4, Zenon DEF Resume
    <2>2. ASSUME NEW c \in Channels
          PROVE  /\ Held(chan'[c], c) = Held(chan[c], c) /\ chan'[c].len = chan[c].len
                 /\ \A op \in Ops : \A w \in Range(QueueOf(chan'[c], op)) :
                       Live(w)' => w \in Range(Queue(c, op)) /\ Live(w)
      <3>1. /\ Held(chan'[c], c) = Held(chan[c], c) /\ chan'[c].len = chan[c].len
            /\ \A op \in Ops : Range(QueueOf(chan'[c], op))
                                  = {w \in Range(Queue(c, op)) : w.task # t}
        BY <1>4, ResumeEffect, Zenon
      <3>2. \A w : w.task # t /\ Live(w)' => Live(w)
        BY <2>1, Zenon DEF Live
      <3> QED
        BY <3>1, <3>2, Zenon
    <2> QED
      BY <2>1, <2>2, NoTransferKeepsBuffer, Zenon
  <1>5. ASSUME NEW t \in Tasks, FreeTask(t) PROVE BufferInv'
    <2>1. UNCHANGED <<chan, done, accepted, received>>
      BY <1>5, Zenon DEF FreeTask, chanVars
    <2>2. \A c \in Channels :
             /\ Held(chan'[c], c) = Held(chan[c], c) /\ chan'[c].len = chan[c].len
             /\ \A op \in Ops : \A w \in Range(QueueOf(chan'[c], op)) :
                   Live(w)' => w \in Range(Queue(c, op)) /\ Live(w)
      BY <2>1, Zenon DEF Live, Queue
    <2> QED
      BY <2>1, <2>2, NoTransferKeepsBuffer, Zenon
  <1>6. ASSUME NEW C, NEW qs, ClosesAll(C, qs) PROVE BufferInv'
    <2>1. accepted' = accepted /\ received' = received
      BY <1>6, Zenon DEF ClosesAll
    <2>2. Released(FirstWaiters(qs)) /\ Woken(FirstWaiters(qs))
      BY <1>6, ClosesReleases, Zenon
    <2>3. ASSUME NEW c \in Channels
          PROVE  /\ Held(chan'[c], c) = Held(chan[c], c) /\ chan'[c].len = chan[c].len
                 /\ \A op \in Ops : \A w \in Range(QueueOf(chan'[c], op)) :
                       Live(w)' => w \in Range(Queue(c, op)) /\ Live(w)
      <3>1. Held(chan'[c], c) = Held(chan[c], c) /\ chan'[c].len = chan[c].len
        BY <1>6, ClosesChannels, Zenon
      <3>2. \A op \in Ops : \A w \in Range(QueueOf(chan'[c], op)) :
               Live(w)' => w \in Range(Queue(c, op)) /\ Live(w)
        BY <2>2, ReleaseLeavesLive, Zenon
      <3> QED
        BY <3>1, <3>2, Zenon
    <2> QED
      BY <2>1, <2>3, NoTransferKeepsBuffer, Zenon
  <1>7. ASSUME NEW c \in Channels, NEW p \in Phases, Rephased(c, p) PROVE BufferInv'
    <2>1. UNCHANGED <<done, accepted, received>>
      BY <1>7, Zenon DEF Rephased, taskVars
    <2>2. ASSUME NEW d \in Channels
          PROVE  /\ Held(chan'[d], d) = Held(chan[d], d) /\ chan'[d].len = chan[d].len
                 /\ \A op \in Ops : \A w \in Range(QueueOf(chan'[d], op)) :
                       Live(w)' => w \in Range(Queue(d, op)) /\ Live(w)
      <3>1. /\ Held(chan'[d], d) = Held(chan[d], d) /\ chan'[d].len = chan[d].len
            /\ \A op \in Ops : QueueOf(chan'[d], op) = QueueOf(chan[d], op)
        BY <1>7, RephasedEffect
      <3> QED
        BY <2>1, <3>1, Zenon DEF Live, Queue
    <2> QED
      BY <2>1, <2>2, NoTransferKeepsBuffer, Zenon
  <1> QED
    BY <1>1, <1>2, <1>3, <1>4, <1>5, <1>6, <1>7, Zenon DEF Kinds

\* At the start the channels are empty.
LEMMA InitBuffer ==
    ASSUME Init
    PROVE  BufferInv
  <1>1. accepted = [c \in Channels |-> << >>] /\ received = [c \in Channels |-> << >>]
    BY Zenon DEF Init
  <1>2. << >> \in Seq(Values) /\ << >> \o << >> = << >>
    OBVIOUS
  <1>3. LinkInv
    BY InitLinks, Zenon
  <1>4. ASSUME NEW c \in Channels
        PROVE  /\ accepted[c] = received[c] \o Held(chan[c], c)
               /\ Justified(chan[c], c, LiveAt(c, "send"), LiveAt(c, "recv"))
    <2>1. chan[c].phase # "live" /\ chan[c].len = 0
      BY DEF Init
    <2>2. chan[c] \in ChannelRecords /\ Ring(chan[c], c)
      BY <1>3, Zenon DEF LinkInv, Types
    <2>3. Held(chan[c], c) \in Seq(Contained) /\ Len(Held(chan[c], c)) = 0
      BY <2>1, <2>2, HeldType, Zenon
    <2>4. Held(chan[c], c) = << >>
      BY <2>3
    <2>5. \A op \in Ops : Queue(c, op) = << >>
      BY <1>3, <2>1, Zenon DEF LinkInv, Drained
    <2>6. \A op \in Ops : LiveAt(c, op) = {}
      BY <2>5, EmptyFacts, Zenon DEF LiveAt
    <2> QED
      BY <1>1, <1>2, <2>4, <2>6, TwoOps, Zenon DEF Justified
  <1>5. accepted \in [Channels -> Seq(Values)] /\ received \in [Channels -> Seq(Values)]
    BY <1>1, <1>2, Zenon
  <1> QED
    BY <1>4, <1>5, BufferForm, Zenon
-----------------------------------------------------------------------------
(***************************************************************************)
(* What a woken task is told.                                              *)
(***************************************************************************)
\* A value in the log of a channel is a value of some task.
LEMMA AcceptedType ==
    ASSUME BufferInv, NEW c \in Channels, NEW v \in Range(accepted[c])
    PROVE  v \in Values /\ v[1] \in Tasks
  <1>1. accepted[c] \in Seq(Values)
    BY Zenon DEF BufferInv
  <1>2. v \in Values
    BY <1>1, RangeType, Zenon
  <1> QED
    BY <1>2 DEF Values

\* What is used up stays so.
LEMMA UsedStays ==
    ASSUME Types, Types', NEW v \in Values, sends[v[1]] <= sends'[v[1]]
    PROVE  Used(v) => Used(v)'
  <1>1. v[1] \in Tasks /\ v[2] \in Nat
    BY DEF Values
  <1>2. sends[v[1]] \in Nat /\ sends'[v[1]] \in Nat
    BY <1>1 DEF Types
  <1> QED
    BY <1>1, <1>2 DEF Used

\* The logs only grow, and a closed channel stays closed.
Grows == \A c \in Channels : /\ Range(accepted[c]) \subseteq Range(accepted'[c])
                             /\ Range(received[c]) \subseteq Range(received'[c])
                             /\ chan[c].closed => chan'[c].closed

\* Task t is where it was.
Same(t) == /\ tstate'[t] = tstate[t] /\ call'[t] = call[t]
           /\ result'[t] = result[t] /\ sends'[t] = sends[t]

\* Its values are as they were, and so is what it was told.
LEMMA SameFacts ==
    ASSUME LinkInv, NEW t \in Tasks, Same(t)
    PROVE  /\ \A c, v : v[1] = t /\ (Used(v) \/ Current(c, v)) => (Used(v) \/ Current(c, v))'
           /\ tstate[t] = "runnable" /\ Told(t) /\ Grows => Told(t)'
  <1>1. ASSUME NEW c, NEW v, v[1] = t
        PROVE  (Used(v) \/ Current(c, v)) => (Used(v) \/ Current(c, v))'
    BY <1>1, Zenon DEF Same, Used, Current, Fired
  <1>2. ASSUME tstate[t] = "runnable", Told(t), Grows PROVE Told(t)'
    <2>1. tstate[t] # "running"
      BY <1>2
    <2>2. call[t] \in Calls
      BY <2>1, Zenon DEF LinkInv, InCall
    <2>3. Fired(t).ch \in Channels
      BY <1>2, <2>2, CallFacts, Zenon DEF Told, Fired
    <2>4. Fired(t)' = Fired(t) /\ Value(t)' = Value(t)
      BY Zenon DEF Same, Fired, Value
    <2>5. RealCases(call'[t]) = RealCases(call[t])
      BY Zenon DEF Same
    <2>6. result'[t] = result[t]
      BY Zenon DEF Same
    <2> QED
      BY <1>2, <2>3, <2>4, <2>5, <2>6, Zenon DEF Told, Grows
  <1> QED
    BY <1>1, <1>2, Zenon

\* A task that is not woken has used up every value that it gave to a channel.
LEMMA AllUsed ==
    ASSUME BufferInv, AcceptedIsUsed, NEW c \in Channels, NEW v \in Range(accepted[c]),
           tstate[v[1]] \in {"running", "waiting_channel"}
    PROVE  Used(v)
  <1>1. tstate[v[1]] \notin {"runnable", "freed"}
    OBVIOUS
  <1> QED
    BY <1>1, Zenon DEF AcceptedIsUsed, Current

\* A step in which at most one task t moves on, and nothing is transferred.
LEMMA OneMoves ==
    ASSUME LinkInv, BufferInv, ResultInv, NEW t, \A x \in Tasks : x # t => Same(x),
           Grows, accepted' = accepted,
           \A c \in Channels : \A v \in Range(accepted[c]) :
               v[1] = t => Used(v)' \/ Current(c, v)',
           t \in Tasks /\ tstate'[t] = "runnable" => Told(t)'
    PROVE  ResultInv'
  <1>1. ASSUME NEW c \in Channels, NEW v \in Range(accepted'[c])
        PROVE  (Used(v) \/ Current(c, v))'
    <2>1. v \in Range(accepted[c])
      BY Zenon
    <2>2. v[1] \in Tasks
      BY <2>1, AcceptedType, Zenon
    <2>3. CASE v[1] = t
      BY <2>1, <2>3, Zenon
    <2>4. CASE v[1] # t
      BY <2>1, <2>2, <2>4, SameFacts, Zenon DEF ResultInv, AcceptedIsUsed
    <2> QED
      BY <2>3, <2>4, Zenon
  <1>2. ASSUME NEW x \in Tasks, tstate'[x] = "runnable"
        PROVE  Told(x)'
    <2>1. CASE x = t
      BY <1>2, <2>1, Zenon
    <2>2. CASE x # t
      <3>1. Same(x)
        BY <2>2, Zenon
      <3>2. tstate[x] = "runnable"
        BY <1>2, <3>1, Zenon DEF Same
      <3> QED
        BY <3>1, <3>2, SameFacts, Zenon DEF ResultInv, WokenIsTold
    <2> QED
      BY <2>1, <2>2, Zenon
  <1> QED
    BY <1>1, <1>2, Zenon DEF ResultInv, AcceptedIsUsed, WokenIsTold

\* A step in which no task moves and nothing is transferred.
LEMMA NobodyMoves ==
    ASSUME LinkInv, BufferInv, ResultInv, UNCHANGED <<taskVars, sends, accepted, received>>,
           \A c \in Channels : chan'[c].closed = chan[c].closed
    PROVE  ResultInv'
  <1>1. UNCHANGED <<tstate, call, done, result, sends, accepted, received>>
    BY Zenon DEF taskVars
  <1>2. \A x \in Tasks : Same(x)
    BY <1>1, Zenon DEF Same
  <1>3. Grows
    BY <1>1, Zenon DEF Grows
  <1>4. ASSUME NEW c \in Channels, NEW v \in Range(accepted[c])
        PROVE  Used(v)' \/ Current(c, v)'
    BY <1>1, Zenon DEF ResultInv, AcceptedIsUsed, Used, Current, Fired
  <1>5. ASSUME NEW x \in Tasks, tstate'[x] = "runnable" PROVE Told(x)'
    BY <1>1, <1>2, <1>3, <1>5, SameFacts, Zenon DEF ResultInv, WokenIsTold
  <1> QED
    BY <1>1, <1>4, <1>5, Zenon DEF ResultInv, AcceptedIsUsed, WokenIsTold

\* A task parks, is resumed, or is freed.
LEMMA ParksKeepsResults ==
    ASSUME LinkInv, LinkInv', BufferInv, ResultInv, NEW t \in Tasks, NEW cl \in Calls, Parks(t, cl)
    PROVE  ResultInv'
  <1>1. /\ tstate[t] = "running" /\ tstate' = [tstate EXCEPT ![t] = "waiting_channel"]
        /\ call' = [call EXCEPT ![t] = cl]
        /\ UNCHANGED <<result, sends, accepted, received>>
    BY Zenon DEF Parks, CanCall
  <1>2. tstate \in [Tasks -> TaskStates] /\ call \in [Tasks -> Calls \cup {NoCall}]
    BY Zenon DEF LinkInv, Types
  <1>3. \A x \in Tasks : x # t => Same(x)
    BY <1>1, <1>2, Zenon DEF Same
  <1>4. Grows
    BY <1>1, ParksEffect, Zenon DEF Grows
  <1>5. ASSUME NEW c \in Channels, NEW v \in Range(accepted[c]), v[1] = t PROVE Used(v)'
    <2>1. tstate[v[1]] \in {"running", "waiting_channel"}
      BY <1>1, <1>5
    <2>2. Used(v)
      BY <2>1, AllUsed, Zenon DEF ResultInv
    <2> QED
      BY <1>1, <2>2, Zenon DEF Used
  <1>6. tstate'[t] # "runnable"
    BY <1>1, <1>2
  <1>7. accepted' = accepted
    BY <1>1, Zenon
  <1> QED
    BY <1>3, <1>4, <1>5, <1>6, <1>7, OneMoves, Zenon

\* When a task resumes, its call has used up the value that was accepted.
LEMMA ResumeKeepsResults ==
    ASSUME LinkInv, LinkInv', BufferInv, ResultInv, NEW t \in Tasks, Resume(t)
    PROVE  ResultInv'
  <1>1. /\ tstate[t] = "runnable" /\ tstate' = [tstate EXCEPT ![t] = "running"]
        /\ call' = [call EXCEPT ![t] = NoCall]
        /\ result' = [result EXCEPT ![t] = NoResult]
        /\ sends' = IF \E case \in Range(call[t].cases) : case.op = "send"
                    THEN [sends EXCEPT ![t] = @ + 1] ELSE sends
        /\ UNCHANGED <<accepted, received>>
    BY Zenon DEF Resume
  <1>2. /\ tstate \in [Tasks -> TaskStates] /\ call \in [Tasks -> Calls \cup {NoCall}]
        /\ result \in [Tasks -> Results] /\ sends \in [Tasks -> 0 .. MaxSends]
    BY Zenon DEF LinkInv, Types
  <1>3. ASSUME NEW x \in Tasks, x # t PROVE Same(x)
    BY <1>1, <1>2, <1>3, Zenon DEF Same
  <1>4. Grows
    BY <1>1, ResumeEffect, Zenon DEF Grows
  <1>5. /\ sends[t] \in Nat /\ sends'[t] \in Nat
        /\ sends'[t] = sends[t] \/ sends'[t] = sends[t] + 1
        /\ (\E case \in Range(call[t].cases) : case.op = "send") => sends'[t] = sends[t] + 1
    <2>1. sends[t] \in Nat
      BY <1>2, ChannelAssumption
    <2>2. CASE \E case \in Range(call[t].cases) : case.op = "send"
      BY <1>1, <1>2, <2>1, <2>2
    <2>3. CASE ~ \E case \in Range(call[t].cases) : case.op = "send"
      BY <1>1, <1>2, <2>1, <2>3
    <2> QED
      BY <2>2, <2>3
  <1>6. ASSUME NEW c \in Channels, NEW v \in Range(accepted[c]), v[1] = t PROVE Used(v)'
    <2>1. Used(v) \/ Current(c, v)
      BY Zenon DEF ResultInv, AcceptedIsUsed
    <2>2. v \in Values
      BY AcceptedType, Zenon
    <2>3. v[2] \in Nat
      BY <2>2 DEF Values
    <2>4. CASE Used(v)
      BY <1>5, <1>6, <2>3, <2>4 DEF Used
    <2>5. CASE Current(c, v)
      <3>1. Told(t)
        BY <1>1, Zenon DEF ResultInv, WokenIsTold
      <3>2. result[t].case \in DOMAIN call[t].cases
        BY <3>1, Zenon DEF Told, RealCases
      <3>3. Fired(t) \in Range(call[t].cases)
        BY <3>2, Zenon DEF Fired, Range
      <3>4. Fired(t).op = "send"
        <4>1. Fired(t) = Case(c, "send")
          BY <1>6, <2>5, Zenon DEF Current
        <4> QED
          BY <4>1, CaseFields
      <3>5. sends'[t] = sends[t] + 1
        BY <1>5, <3>3, <3>4, Zenon
      <3>6. v[2] = sends[t]
        BY <1>6, <2>5, Zenon DEF Current
      <3> QED
        BY <1>5, <1>6, <2>3, <3>5, <3>6 DEF Used
    <2> QED
      BY <2>1, <2>4, <2>5, Zenon
  <1>7. tstate'[t] # "runnable"
    BY <1>1, <1>2
  <1>8. accepted' = accepted
    BY <1>1, Zenon
  <1> QED
    BY <1>3, <1>4, <1>6, <1>7, <1>8, OneMoves, Zenon

\* A task that is freed keeps what it was told to itself.
LEMMA FreeTaskKeepsResults ==
    ASSUME LinkInv, BufferInv, ResultInv, NEW t \in Tasks, FreeTask(t)
    PROVE  ResultInv'
  <1>1. /\ tstate[t] = "runnable" /\ tstate' = [tstate EXCEPT ![t] = "freed"]
        /\ UNCHANGED <<chan, call, result, sends, accepted, received>>
    BY Zenon DEF FreeTask, chanVars
  <1>2. tstate \in [Tasks -> TaskStates]
    BY Zenon DEF LinkInv, Types
  <1>3. ASSUME NEW x \in Tasks, x # t PROVE Same(x)
    BY <1>1, <1>2, <1>3, Zenon DEF Same
  <1>4. Grows
    BY <1>1, Zenon DEF Grows
  <1>5. tstate'[t] = "freed"
    BY <1>1, <1>2, Zenon
  <1>6. ASSUME NEW c \in Channels, NEW v \in Range(accepted[c]), v[1] = t
        PROVE  Used(v)' \/ Current(c, v)'
    <2>1. Used(v) \/ Current(c, v)
      BY Zenon DEF ResultInv, AcceptedIsUsed
    <2>2. tstate'[v[1]] \in {"runnable", "freed"}
      BY <1>5, <1>6
    <2> QED
      BY <1>1, <2>1, <2>2, Zenon DEF Used, Current, Fired
  <1>7. tstate'[t] # "runnable"
    BY <1>5
  <1>8. accepted' = accepted
    BY <1>1, Zenon
  <1> QED
    BY <1>3, <1>4, <1>6, <1>7, <1>8, OneMoves, Zenon

\* The task of a live waiter is parked, in a call with that case.
LEMMA LiveWaiter ==
    ASSUME LinkInv, NEW c \in Channels, NEW op \in Ops, NEW w \in Range(Queue(c, op)), Live(w)
    PROVE  /\ w.task \in Tasks /\ tstate[w.task] = "waiting_channel"
           /\ w.case \in RealCases(call[w.task])
           /\ call[w.task].cases[w.case] = Case(c, op)
  BY LinkedFacts, Zenon DEF Linked

\* The result of a completed waiter.
LEMMA ToldFields ==
    ASSUME NEW t, NEW i, NEW status, NEW value,
           result'[t] = [case |-> i, status |-> status, value |-> value], call' = call
    PROVE  /\ result'[t].case = i /\ result'[t].status = status /\ result'[t].value = value
           /\ Fired(t)' = call[t].cases[i]
  BY DEF Fired

\* Closing tells the tasks that waited on a channel that it is closed.
LEMMA ClosesKeepsResults ==
    ASSUME LinkInv, LinkInv', BufferInv, ResultInv, NEW C, NEW qs, ClosesAll(C, qs)
    PROVE  ResultInv'
  <1> DEFINE W == FirstWaiters(qs)
  <1>1. /\ Woken(W)
        /\ \A w \in W : Live(w) /\ \E c \in C, op \in Ops : w \in Range(Queue(c, op))
        /\ \A x \in Tasks : (\A w \in W : w.task # x) => result'[x] = result[x]
        /\ \A w \in W :
              result'[w.task] = [case |-> w.case, status |-> "closed", value |-> NoValue]
    <2>1. /\ Released(W) /\ Woken(W)
          /\ \A w \in W : \E c \in C, op \in Ops : w \in Range(Queue(c, op))
      BY ClosesReleases, Zenon
    <2>2. /\ \A x \in Tasks : (\A w \in W : w.task # x) => result'[x] = result[x]
          /\ \A w \in W :
                result'[w.task] = [case |-> w.case, status |-> "closed", value |-> NoValue]
      BY ClosesReleases, Zenon
    <2> HIDE DEF W
    <2>3. \A w \in W : Live(w)
      BY <2>1, Zenon DEF Released
    <2> QED
      BY <2>1, <2>2, <2>3, Zenon
  <1> HIDE DEF W
  <1>2. C \subseteq Channels /\ UNCHANGED <<call, sends, accepted, received>>
    BY Zenon DEF ClosesAll
  <1>3. ASSUME NEW x \in Tasks, \A w \in W : w.task # x PROVE Same(x)
    BY <1>1, <1>2, <1>3, Zenon DEF Same, Woken
  <1>4. Grows
    BY <1>2, ClosesChannels, Zenon DEF Grows
  <1>5. ASSUME NEW w \in W
        PROVE  w.task \in Tasks /\ tstate[w.task] = "waiting_channel" /\ Told(w.task)'
    <2>1. PICK c \in C, op \in Ops : w \in Range(Queue(c, op))
      BY <1>1, Zenon
    <2>2. Live(w) /\ c \in Channels
      BY <1>1, <1>2, Zenon
    <2>3. /\ w.task \in Tasks /\ tstate[w.task] = "waiting_channel"
          /\ w.case \in RealCases(call[w.task]) /\ call[w.task].cases[w.case] = Case(c, op)
      BY <2>1, <2>2, LiveWaiter, Zenon
    <2>4. result'[w.task] = [case |-> w.case, status |-> "closed", value |-> NoValue]
      BY <1>1, Zenon
    <2>5. call' = call
      BY <1>2, Zenon
    <2>6. /\ result'[w.task].case = w.case /\ result'[w.task].status = "closed"
          /\ Fired(w.task)' = call[w.task].cases[w.case]
      BY <2>4, <2>5, ToldFields
    <2>7. Fired(w.task)'.ch = c
      <3>1. Fired(w.task)' = Case(c, op)
        BY <2>3, <2>6, Zenon
      <3> QED
        BY <3>1, CaseFields
    <2>8. chan'[c].closed
      BY <2>1, <2>2, ClosesChannels, Zenon
    <2>9. result'[w.task].case \in RealCases(call'[w.task])
      BY <2>3, <2>5, <2>6, Zenon
    <2>10. Told(w.task)'
      BY <2>6, <2>7, <2>8, <2>9 DEF Told
    <2> QED
      BY <2>3, <2>10, Zenon
  <1>6. ASSUME NEW c \in Channels, NEW v \in Range(accepted'[c])
        PROVE  (Used(v) \/ Current(c, v))'
    <2>1. v \in Range(accepted[c])
      BY <1>2, Zenon
    <2>2. v[1] \in Tasks
      BY <2>1, AcceptedType, Zenon
    <2>3. CASE \E w \in W : w.task = v[1]
      <3>1. tstate[v[1]] = "waiting_channel"
        BY <1>5, <2>3, Zenon
      <3>2. tstate[v[1]] \in {"running", "waiting_channel"}
        BY <3>1
      <3>3. Used(v)
        BY <2>1, <3>2, AllUsed, Zenon DEF ResultInv
      <3> QED
        BY <1>2, <3>3, Zenon DEF Used
    <2>4. CASE \A w \in W : w.task # v[1]
      <3>1. Same(v[1])
        BY <1>3, <2>2, <2>4, Zenon
      <3> QED
        BY <2>1, <2>2, <3>1, SameFacts, Zenon DEF ResultInv, AcceptedIsUsed
    <2> QED
      BY <2>3, <2>4, Zenon
  <1>7. ASSUME NEW x \in Tasks, tstate'[x] = "runnable" PROVE Told(x)'
    <2>1. CASE \E w \in W : w.task = x
      BY <1>5, <2>1, Zenon
    <2>2. CASE \A w \in W : w.task # x
      <3>1. Same(x)
        BY <1>3, <2>2, Zenon
      <3>2. tstate[x] = "runnable"
        BY <1>7, <3>1, Zenon DEF Same
      <3> QED
        BY <1>4, <3>1, <3>2, SameFacts, Zenon DEF ResultInv, WokenIsTold
    <2> QED
      BY <2>1, <2>2, Zenon
  <1> QED
    BY <1>6, <1>7, Zenon DEF ResultInv, AcceptedIsUsed, WokenIsTold

\* The operation that a case meets in its partner.
Partner(op) == IF op = "send" THEN "recv" ELSE "send"

\* What a case that fires does to the logs, and whom it wakes.
LEMMA FiredLogs ==
    ASSUME LinkInv, BufferInv, NEW t \in Tasks, NEW c \in Channels, NEW op \in Ops, NEW k, NEW r,
           FiredBy(t, c, op, k, r)
    PROVE  /\ Range(accepted'[c]) = Range(accepted[c]) \cup
                 (IF op = "send" THEN {Value(t)} ELSE {Value(w.task) : w \in r.woken})
           /\ Range(received[c]) \subseteq Range(received'[c])
           /\ op = "send" => r.value = Value(t)
           /\ r.woken # {} => r.value \in Range(received'[c])
           /\ \A d \in Channels : d # c => accepted'[d] = accepted[d] /\ received'[d] = received[d]
           /\ \A w \in r.woken : Live(w) /\ w \in Range(Queue(c, Partner(op)))
  <1> DEFINE gives == Gives(op, r)
             takes == TakesOut(op, r)
  <1>1. gives \in Seq(Values) /\ takes \in Seq(Values)
    BY FiredInOrder, Zenon DEF InOrder
  <1>2. /\ accepted' = [accepted EXCEPT ![c] = accepted[c] \o gives]
        /\ received' = [received EXCEPT ![c] = received[c] \o takes]
    BY Zenon DEF FiredBy, Gives, TakesOut
  <1>3. r.woken = {} \/ \E w : r.woken = {w}
    BY Zenon DEF FiredBy, Succeeds, SendHandsOver, SendBuffers, RecvTakes, RecvRefills, RecvDirect
  <1>4. Range(gives) = IF op = "send" THEN {Value(t)} ELSE {Value(w.task) : w \in r.woken}
    <2>1. CASE op = "send"
      <3>1. gives = <<r.value>> /\ r.value = Value(t)
        BY <2>1, TwoOps, Zenon DEF Gives, FiredBy, Succeeds, SendHandsOver, SendBuffers
      <3>2. Range(<<r.value>>) = {r.value}
        BY DEF Range
      <3> QED
        BY <2>1, <3>1, <3>2
    <2>2. CASE op # "send"
      <3>1. gives = AsSeq({Value(w.task) : w \in r.woken})
        BY <2>2, Zenon DEF Gives
      <3>2. CASE r.woken = {}
        <4>1. {Value(w.task) : w \in r.woken} = {}
          BY <3>2, Zenon
        <4>2. Range(gives) = {}
          BY <3>1, <4>1, AsSeqFacts, EmptyFacts, Zenon
        <4> QED
          BY <2>2, <4>1, <4>2, Zenon
      <3>3. CASE \E w : r.woken = {w}
        <4>1. PICK w : r.woken = {w}
          BY <3>3, Zenon
        <4>2. {Value(u.task) : u \in r.woken} = {Value(w.task)}
          BY <4>1, Zenon
        <4> DEFINE v == Value(w.task)
        <4>3. gives = AsSeq({v})
          BY <3>1, <4>2, Zenon
        <4> HIDE DEF v
        <4>4. gives = <<v>>
          BY <4>3, AsSeqFacts, Zenon
        <4>5. Range(<<v>>) = {v}
          BY DEF Range
        <4>6. Range(gives) = {v}
          BY <4>4, <4>5, Zenon
        <4> QED
          BY <2>2, <4>2, <4>6, Zenon DEF v
      <3> QED
        BY <1>3, <3>2, <3>3, Zenon
    <2> QED
      BY <2>1, <2>2, Zenon
  <1> HIDE DEF gives, takes
  <1>5. accepted \in [Channels -> Seq(Values)] /\ received \in [Channels -> Seq(Values)]
    BY Zenon DEF BufferInv
  <1>6. /\ accepted'[c] = accepted[c] \o gives /\ received'[c] = received[c] \o takes
        /\ \A d \in Channels : d # c => accepted'[d] = accepted[d] /\ received'[d] = received[d]
    BY <1>2, <1>5, Zenon
  <1>7. /\ Range(accepted[c] \o gives) = Range(accepted[c]) \cup Range(gives)
        /\ Range(received[c] \o takes) = Range(received[c]) \cup Range(takes)
    <2>1. accepted[c] \in Seq(Values) /\ received[c] \in Seq(Values)
      BY <1>5, Zenon
    <2> QED
      BY <1>1, <2>1, ConcatFacts, ZenonT(40)
  <1>8. op = "send" => r.value = Value(t)
    BY TwoOps, Zenon DEF FiredBy, Succeeds, SendHandsOver, SendBuffers
  <1>9. r.woken # {} => r.value \in Range(takes)
    <2>1. ASSUME r.woken # {} PROVE takes = <<r.value>>
      BY <2>1, Zenon DEF takes, TakesOut
    <2>2. r.value \in Range(<<r.value>>)
      BY DEF Range
    <2> QED
      BY <2>1, <2>2, Zenon
  <1>10. ASSUME NEW w \in r.woken PROVE Live(w) /\ w \in Range(Queue(c, Partner(op)))
    <2>1. Partner(op) \in Ops
      BY DEF Partner, Ops
    <2>2. First(w, QueueOf(k, Partner(op)))
      <3>1. op = "send" => First(w, QueueOf(k, "recv"))
        BY <1>10, TwoOps, Zenon DEF FiredBy, Succeeds, SendHandsOver, SendBuffers
      <3>2. op = "recv" => First(w, QueueOf(k, "send"))
        BY <1>10, TwoOps, Zenon DEF FiredBy, Succeeds, RecvTakes, RecvRefills, RecvDirect
      <3> QED
        BY <3>1, <3>2, TwoOps, Zenon DEF Partner
    <2>3. Trimmed(chan[c], k)
      BY Zenon DEF FiredBy
    <2>4. w \in LiveAt(c, Partner(op))
      BY <2>1, <2>2, <2>3, PoppedIsLive, Zenon
    <2> QED
      BY <2>4, Zenon DEF LiveAt
  <1> QED
    BY <1>4, <1>6, <1>7, <1>8, <1>9, <1>10, Zenon

\* A case that fires tells its partner.
LEMMA FiredKeepsResults ==
    ASSUME LinkInv, LinkInv', BufferInv, ResultInv,
           NEW t \in Tasks, NEW c \in Channels, NEW op \in Ops, NEW k, NEW r,
           FiredBy(t, c, op, k, r)
    PROVE  ResultInv'
  <1> DEFINE W == r.woken
             status == IF op = "send" THEN "value" ELSE "sent"
             value == IF op = "send" THEN r.value ELSE NoValue
  <1>1. /\ Range(accepted'[c]) = Range(accepted[c]) \cup
              (IF op = "send" THEN {Value(t)} ELSE {Value(w.task) : w \in W})
        /\ Range(received[c]) \subseteq Range(received'[c])
        /\ W # {} => r.value \in Range(received'[c])
        /\ \A d \in Channels : d # c => accepted'[d] = accepted[d] /\ received'[d] = received[d]
        /\ \A w \in W : Live(w) /\ w \in Range(Queue(c, Partner(op)))
    BY FiredLogs, Zenon
  <1>2. Woken(W) /\ \A x \in Tasks : (\A w \in W : w.task # x) => result'[x] = result[x]
    BY FiredWakes
  <1>3. \A w \in W : result'[w.task] = [case |-> w.case, status |-> status, value |-> value]
    BY FiredWakes
  <1>4. /\ tstate[t] = "running" /\ call' = call
        /\ sends' = [sends EXCEPT ![t] = @ + (IF op = "send" THEN 1 ELSE 0)]
        /\ Trimmed(chan[c], k) /\ \A d \in Channels : d # c => Trimmed(chan[d], chan'[d])
    BY Zenon DEF FiredBy
  <1>5. (op = "send") # (op = "recv") /\ Partner(op) \in Ops
    BY DEF Ops, Partner
  <1> HIDE DEF W, status, value
  <1>6. sends \in [Tasks -> 0 .. MaxSends] /\ sends' \in [Tasks -> 0 .. MaxSends]
    BY Zenon DEF LinkInv, Types
  <1>7. /\ \A x \in Tasks : x # t => sends'[x] = sends[x]
        /\ sends[t] \in Nat /\ sends'[t] \in Nat /\ sends[t] <= sends'[t]
        /\ op = "send" => sends[t] < sends'[t]
        /\ op = "recv" => sends'[t] = sends[t]
    BY <1>4, <1>5, <1>6
  <1>8. ASSUME NEW w \in W
        PROVE  /\ w.task \in Tasks /\ tstate[w.task] = "waiting_channel" /\ w.task # t
               /\ w.case \in RealCases(call[w.task])
               /\ tstate'[w.task] = "runnable" /\ sends'[w.task] = sends[w.task]
               /\ result'[w.task].case = w.case /\ result'[w.task].status = status
               /\ result'[w.task].value = value
               /\ Fired(w.task)' = Case(c, Partner(op))
    <2>1. /\ w.task \in Tasks /\ tstate[w.task] = "waiting_channel"
          /\ w.case \in RealCases(call[w.task])
          /\ call[w.task].cases[w.case] = Case(c, Partner(op))
      BY <1>1, <1>5, LiveWaiter, Zenon
    <2>2. w.task # t
      BY <1>4, <2>1
    <2>3. tstate'[w.task] = "runnable"
      BY <1>2, <2>1, Zenon DEF Woken
    <2>4. /\ result'[w.task].case = w.case /\ result'[w.task].status = status
          /\ result'[w.task].value = value
          /\ Fired(w.task)' = call[w.task].cases[w.case]
      <3>1. result'[w.task] = [case |-> w.case, status |-> status, value |-> value]
        BY <1>3, Zenon
      <3>2. call' = call
        BY <1>4, Zenon
      <3> QED
        BY <3>1, <3>2, ToldFields
    <2> QED
      BY <1>7, <2>1, <2>2, <2>3, <2>4, Zenon
  <1>9. ASSUME NEW x \in Tasks, x # t, \A w \in W : w.task # x PROVE Same(x)
    BY <1>2, <1>4, <1>7, <1>9, Zenon DEF Same, Woken
  <1>10. Grows
    <2>1. \A d \in Channels : chan[d].closed => chan'[d].closed
      <3>1. ASSUME NEW d \in Channels, d # c PROVE chan'[d].closed = chan[d].closed
        BY <1>4, <3>1, Zenon DEF Trimmed
      <3>2. chan'[c].closed = chan[c].closed
        BY FiredTakes, Zenon DEF Takes
      <3> QED
        BY <3>1, <3>2, Zenon
    <2>2. \A d \in Channels : /\ Range(accepted[d]) \subseteq Range(accepted'[d])
                              /\ Range(received[d]) \subseteq Range(received'[d])
      BY <1>1, Zenon
    <2> QED
      BY <2>1, <2>2, Zenon DEF Grows
  <1>11. ASSUME NEW d \in Channels, NEW v \in Range(accepted[d])
         PROVE  (Used(v) \/ Current(d, v))'
    <2>1. v \in Values /\ v[1] \in Tasks
      BY AcceptedType, Zenon
    <2>2. CASE v[1] = t \/ \E w \in W : w.task = v[1]
      <3>1. tstate[v[1]] \in {"running", "waiting_channel"}
        BY <1>4, <1>8, <2>2
      <3>2. Used(v)
        BY <3>1, AllUsed, Zenon DEF ResultInv
      <3>3. sends[v[1]] \in Nat
        BY <1>6, <2>1
      <3>4. sends[v[1]] <= sends'[v[1]]
        BY <1>7, <2>1, <3>3
      <3> QED
        BY <2>1, <3>2, <3>4, UsedStays, Zenon DEF LinkInv
    <2>3. CASE v[1] # t /\ \A w \in W : w.task # v[1]
      <3>1. Same(v[1])
        BY <1>9, <2>1, <2>3, Zenon
      <3> QED
        BY <2>1, <3>1, SameFacts, Zenon DEF ResultInv, AcceptedIsUsed
    <2> QED
      BY <2>2, <2>3, Zenon
  <1>12. ASSUME op = "recv", NEW w \in W PROVE Current(c, Value(w.task))'
    <2>1. Fired(w.task)' = Case(c, "send") /\ result'[w.task].status = "sent"
      BY <1>8, <1>12, <1>5, Zenon DEF Partner, status
    <2>2. Value(w.task)[1] = w.task /\ Value(w.task)[2] = sends[w.task]
      BY DEF Value
    <2>3. tstate'[w.task] \in {"runnable", "freed"}
      BY <1>8
    <2>4. sends'[w.task] = sends[w.task]
      BY <1>8, Zenon
    <2>5. /\ Value(w.task)'[1] = w.task /\ Value(w.task)'[2] = sends'[w.task]
      BY DEF Value
    <2> QED
      BY <2>1, <2>3, <2>4, <2>5, Zenon DEF Current
  <1>13. ASSUME NEW d \in Channels, NEW v \in Range(accepted'[d])
         PROVE  (Used(v) \/ Current(d, v))'
    <2>1. CASE v \in Range(accepted[d])
      BY <1>11, <2>1, Zenon
    <2>2. CASE v \notin Range(accepted[d])
      <3>1. d = c
        BY <1>1, <2>2, Zenon
      <3>2. CASE op = "send"
        <4>1. v = Value(t)
          BY <1>1, <2>2, <3>1, <3>2, Zenon
        <4> QED
          BY <4>1, <3>2, <1>7 DEF Used, Value
      <3>3. CASE op = "recv"
        <4>1. PICK w \in W : v = Value(w.task)
          BY <1>1, <1>5, <2>2, <3>1, <3>3, Zenon
        <4>2. Value(w.task) = Value(w.task)'
          BY <1>8, Zenon DEF Value
        <4> QED
          BY <1>12, <3>1, <3>3, <4>1, <4>2, Zenon DEF Current
      <3> QED
        BY <1>5, <3>2, <3>3
    <2> QED
      BY <2>1, <2>2, Zenon
  <1>14. ASSUME NEW w \in W PROVE Told(w.task)'
    <2>1. result'[w.task].case \in RealCases(call'[w.task])
      BY <1>4, <1>8, Zenon
    <2>2. CASE op = "send"
      <3>1. result'[w.task].status = "value" /\ result'[w.task].value = r.value
        BY <1>8, <2>2, Zenon DEF status, value
      <3>2. Fired(w.task)'.op = "recv" /\ Fired(w.task)'.ch = c
        <4>1. Fired(w.task)' = Case(c, "recv")
          BY <1>8, <2>2, Zenon DEF Partner
        <4> QED
          BY <4>1, CaseFields
      <3>3. r.value \in Range(received'[c])
        BY <1>1, Zenon
      <3> QED
        BY <2>1, <3>1, <3>2, <3>3 DEF Told
    <2>3. CASE op = "recv"
      <3>1. result'[w.task].status = "sent"
        BY <1>5, <1>8, <2>3, Zenon DEF status
      <3>2. Fired(w.task)'.op = "send" /\ Fired(w.task)'.ch = c
        <4>1. Fired(w.task)' = Case(c, "send")
          BY <1>5, <1>8, <2>3, Zenon DEF Partner
        <4> QED
          BY <4>1, CaseFields
      <3>3. Value(w.task)' \in Range(accepted'[c])
        <4>1. Value(w.task)' = Value(w.task)
          BY <1>8, Zenon DEF Value
        <4> QED
          BY <1>1, <1>5, <2>3, <4>1, Zenon
      <3> QED
        BY <2>1, <3>1, <3>2, <3>3 DEF Told
    <2> QED
      BY <1>5, <2>2, <2>3
  <1>15. ASSUME NEW x \in Tasks, tstate'[x] = "runnable" PROVE Told(x)'
    <2>1. CASE \E w \in W : w.task = x
      BY <1>14, <2>1, Zenon
    <2>2. CASE \A w \in W : w.task # x
      <3>1. tstate'[x] = tstate[x]
        BY <1>2, <2>2, Zenon DEF Woken
      <3>2. tstate[x] = "runnable" /\ x # t
        BY <1>4, <1>15, <3>1
      <3>3. Same(x)
        BY <1>9, <2>2, <3>2, Zenon
      <3> QED
        BY <1>10, <3>2, <3>3, SameFacts, Zenon DEF ResultInv, WokenIsTold
    <2> QED
      BY <2>1, <2>2, Zenon
  <1> QED
    BY <1>13, <1>15, Zenon DEF ResultInv, AcceptedIsUsed, WokenIsTold

\* Every kind of step keeps what the woken tasks are told.
LEMMA StepKeepsResults ==
    ASSUME LinkInv, LinkInv', BufferInv, ResultInv, Kinds
    PROVE  ResultInv'
  <1>1. ASSUME NEW t \in Tasks, NEW c \in Channels, NEW op \in Ops, NEW k, NEW r,
               FiredBy(t, c, op, k, r)
        PROVE  ResultInv'
    BY <1>1, FiredKeepsResults
  <1>2. ASSUME Quiet PROVE ResultInv'
    <2>1. UNCHANGED <<taskVars, sends, accepted, received>>
      BY <1>2, Zenon DEF Quiet
    <2>2. \A c \in Channels : chan'[c].closed = chan[c].closed
      BY <1>2, Zenon DEF Quiet, Trimmed
    <2> QED
      BY <2>1, <2>2, NobodyMoves, Zenon
  <1>3. ASSUME NEW t \in Tasks, NEW cl \in Calls, Parks(t, cl) PROVE ResultInv'
    BY <1>3, ParksKeepsResults, Zenon
  <1>4. ASSUME NEW t \in Tasks, Resume(t) PROVE ResultInv'
    BY <1>4, ResumeKeepsResults, Zenon
  <1>5. ASSUME NEW t \in Tasks, FreeTask(t) PROVE ResultInv'
    BY <1>5, FreeTaskKeepsResults, Zenon
  <1>6. ASSUME NEW C, NEW qs, ClosesAll(C, qs) PROVE ResultInv'
    BY <1>6, ClosesKeepsResults, Zenon
  <1>7. ASSUME NEW c \in Channels, NEW p \in Phases, Rephased(c, p) PROVE ResultInv'
    <2>1. UNCHANGED <<taskVars, sends, accepted, received>>
      BY <1>7, Zenon DEF Rephased
    <2>2. \A d \in Channels : chan'[d].closed = chan[d].closed
      BY <1>7, RephasedEffect, Zenon
    <2> QED
      BY <2>1, <2>2, NobodyMoves, Zenon
  <1> QED
    BY <1>1, <1>2, <1>3, <1>4, <1>5, <1>6, <1>7, Zenon DEF Kinds

\* At the start nothing was accepted and nobody is woken.
LEMMA InitResults ==
    ASSUME Init
    PROVE  ResultInv
  <1>1. accepted = [c \in Channels |-> << >>] /\ tstate = [t \in Tasks |-> "running"]
    BY Zenon DEF Init
  <1>2. \A c \in Channels : Range(accepted[c]) = {}
    BY <1>1, EmptyFacts, Zenon
  <1>3. \A t \in Tasks : tstate[t] # "runnable"
    BY <1>1
  <1> QED
    BY <1>2, <1>3, Zenon DEF ResultInv, AcceptedIsUsed, WokenIsTold
-----------------------------------------------------------------------------
(***************************************************************************)
(* The theorems.                                                           *)
(***************************************************************************)
ChannelInv == LinkInv /\ BufferInv /\ ResultInv

\* The inductive invariant holds in every state of every execution: what is linked
\* in the wait queues, what the buffers hold, and what woken tasks were told.
THEOREM ChannelInvariant == Spec => []ChannelInv
  <1>1. Init => ChannelInv
    BY InitLinks, InitBuffer, InitResults, Zenon DEF ChannelInv
  <1>2. ChannelInv /\ [Next]_vars => ChannelInv'
    <2> SUFFICES ASSUME ChannelInv, [Next]_vars PROVE ChannelInv'
      OBVIOUS
    <2>1. LinkInv /\ BufferInv /\ ResultInv
      BY Zenon DEF ChannelInv
    <2>2. Kinds
      BY <2>1, StepKinds, Zenon
    <2>3. LinkInv'
      BY <2>1, <2>2, StepKeepsLinks, Zenon
    <2>4. BufferInv'
      BY <2>1, <2>2, StepKeepsBuffer, Zenon
    <2>5. ResultInv'
      BY <2>1, <2>2, <2>3, StepKeepsResults, Zenon
    <2> QED
      BY <2>3, <2>4, <2>5, Zenon DEF ChannelInv
  <1> QED
    BY <1>1, <1>2, PTL DEF Spec

\* Every variable keeps its type, and the positions of buffer_push and buffer_pop
\* stay inside the ring, for every capacity.
THEOREM ChannelTypes == Spec => []TypeOK
  <1>1. ChannelInv => TypeOK
    <2> SUFFICES ASSUME ChannelInv PROVE TypeOK
      OBVIOUS
    <2>1. LinkInv /\ Types /\ Registered
      BY Zenon DEF ChannelInv, LinkInv
    <2>2. ASSUME NEW c \in Channels
          PROVE  LET k == chan[c] IN
                 /\ k.phase \in {"none", "live", "gone"} /\ k.closed \in BOOLEAN
                 /\ \A i \in DOMAIN k.buffer : k.buffer[i] \in Values \cup {NoValue}
                 /\ DOMAIN k.buffer = 0 .. Capacity[c] - 1
                 /\ k.len \in 0 .. Capacity[c]
                 /\ Capacity[c] > 0 => {k.head, k.tail} \subseteq 0 .. Capacity[c] - 1
                 /\ Range(k.send_waiters) \cup Range(k.recv_waiters) \subseteq Waiters
      <3>1. chan[c] \in ChannelRecords /\ Ring(chan[c], c)
        BY <2>1, Zenon DEF Types
      <3>2. chan[c].phase \in Phases /\ chan[c].closed \in BOOLEAN
        BY <3>1 DEF ChannelRecords
      <3>3. chan[c].send_waiters \in Seq(Waiters) /\ chan[c].recv_waiters \in Seq(Waiters)
        BY <3>1 DEF ChannelRecords
      <3>4. Range(chan[c].send_waiters) \cup Range(chan[c].recv_waiters) \subseteq Waiters
        BY <3>3, RangeType, Zenon
      <3>5. chan[c].buffer \in [0 .. Capacity[c] - 1 -> Contained]
        BY <3>1, Zenon DEF Ring
      <3>6. /\ \A i \in DOMAIN chan[c].buffer : chan[c].buffer[i] \in Values \cup {NoValue}
            /\ DOMAIN chan[c].buffer = 0 .. Capacity[c] - 1
        BY <3>5, Zenon DEF Contained
      <3>7. /\ chan[c].len \in 0 .. Capacity[c]
            /\ Capacity[c] > 0 => {chan[c].head, chan[c].tail} \subseteq 0 .. Capacity[c] - 1
        BY <3>1, Zenon DEF Ring
      <3> QED
        BY <3>2, <3>4, <3>6, <3>7, Zenon DEF Phases
    <2>3. \A t \in Tasks : result[t].status \in Statuses
      BY <2>1 DEF Types, Results
    <2>4. /\ shutdown_requested \in BOOLEAN /\ tstate \in [Tasks -> TaskStates]
          /\ done \subseteq Tasks /\ sends \in [Tasks -> 0 .. MaxSends]
      BY <2>1, Zenon DEF Types
    <2> QED
      BY <2>1, <2>2, <2>3, <2>4, Zenon DEF TypeOK, Registered, TaskStates
  <1> QED
    BY <1>1, ChannelInvariant, PTL

\* A channel delivers what it accepted, in that order and each value once, whatever
\* its capacity and however sends, receives, selects and closes interleave.
THEOREM ChannelDeliversInOrder == Spec => []FifoNoLossNoDuplicate
  <1>1. ChannelInv => FifoNoLossNoDuplicate
    BY Zenon DEF ChannelInv, BufferInv, FifoNoLossNoDuplicate
  <1> QED
    BY <1>1, ChannelInvariant, PTL

\* Nobody waits in vain on a channel: pop_live_waiter_locked always gets to the
\* partner that could be served.
THEOREM ChannelWaitsAreJustified == Spec => []WaitsAreJustified
  <1>1. ChannelInv => WaitsAreJustified
    <2> SUFFICES ASSUME ChannelInv, NEW c \in Channels
                 PROVE  LET k == chan[c]
                            senders == LiveIn(k.send_waiters)
                            receivers == LiveIn(k.recv_waiters)
                        IN  /\ senders # {} => ~ k.closed /\ k.len = Capacity[c]
                            /\ receivers # {} => ~ k.closed /\ k.len = 0
                            /\ \A t \in senders, u \in receivers : t = u
      BY Zenon DEF WaitsAreJustified
    <2>1. LinkInv /\ BufferInv
      BY Zenon DEF ChannelInv
    <2>2. /\ LiveIn(chan[c].send_waiters) = {w.task : w \in LiveAt(c, "send")}
          /\ LiveIn(chan[c].recv_waiters) = {w.task : w \in LiveAt(c, "recv")}
      BY TwoOps, Zenon DEF LiveIn, LiveAt, Queue
    <2>3. /\ LiveAt(c, "send") # {} => chan[c].len = Capacity[c]
          /\ LiveAt(c, "recv") # {} => chan[c].len = 0
          /\ \A w \in LiveAt(c, "send"), u \in LiveAt(c, "recv") : w.task = u.task
      BY <2>1, Zenon DEF BufferInv
    <2>4. chan[c].closed => LiveAt(c, "send") = {} /\ LiveAt(c, "recv") = {}
      BY <2>1, TwoOps, EmptyFacts, Zenon DEF LinkInv, Drained, LiveAt
    <2> QED
      BY <2>2, <2>3, <2>4, Zenon
  <1> QED
    BY <1>1, ChannelInvariant, PTL

\* A waiter, which lives on its task's stack, is linked only while the task is in the
\* call that linked it; complete_waiter_locked always finds a parked task.
THEOREM ChannelNoDanglingWaiter == Spec => []NoDanglingWaiter
  <1>1. ChannelInv => NoDanglingWaiter
    <2> SUFFICES ASSUME ChannelInv, NEW c \in Channels, NEW op \in Ops,
                        NEW w \in Range(Queue(c, op))
                 PROVE  /\ tstate[w.task] \in {"waiting_channel", "runnable"}
                        /\ call[w.task].sel = w.sel
                        /\ call[w.task].cases[w.case] = Case(c, op)
                        /\ chan[c].phase = "live"
                        /\ Live(w) => tstate[w.task] = "waiting_channel"
      BY Zenon DEF NoDanglingWaiter, Ops, Queue, QueueOf
    <2>1. LinkInv
      BY Zenon DEF ChannelInv
    <2>2. Linked(w, c, op)
      BY <2>1, LinkedFacts, Zenon
    <2>3. Queue(c, op) # << >>
      BY EmptyFacts, Zenon
    <2>4. chan[c].phase = "live"
      BY <2>1, <2>3, Zenon DEF LinkInv, Drained
    <2> QED
      BY <2>2, <2>4, Zenon DEF Linked
  <1> QED
    BY <1>1, ChannelInvariant, PTL

\* A parked task can still be woken: each of its cases is linked, on an open channel
\* that croutine_channel_shutdown_all_locked will find.
THEOREM ChannelParkedIsLinked == Spec => []ParkedTaskIsLinked
  <1>1. ChannelInv => ParkedTaskIsLinked
    <2> SUFFICES ASSUME ChannelInv, NEW t \in Tasks, tstate[t] = "waiting_channel"
                 PROVE  /\ t \notin done /\ ~ shutdown_requested
                        /\ RealCases(call[t]) # {}
                        /\ \A i \in RealCases(call[t]) :
                              LET case == call[t].cases[i]
                              IN  /\ LinkedTo(t, case.ch, case.op)
                                  /\ case.ch \in Range(channel_registry)
      BY Zenon DEF ParkedTaskIsLinked
    <2>1. LinkInv
      BY Zenon DEF ChannelInv
    <2>2. /\ RealCases(call[t]) # {}
          /\ \A i \in RealCases(call[t]) :
                Waiter(t, i) \in Range(Queue(call[t].cases[i].ch, call[t].cases[i].op))
      BY <2>1, Zenon DEF LinkInv, ParkedLinked
    <2>3. tstate[t] \notin {"runnable", "freed"} /\ tstate[t] # "running"
      OBVIOUS
    <2>4. t \notin done
      BY <2>1, <2>3, Zenon DEF LinkInv, DoneIsWoken
    <2>5. call[t] \in Calls
      BY <2>1, <2>3, Zenon DEF LinkInv, InCall
    <2>6. ASSUME NEW i \in RealCases(call[t])
          PROVE  LET case == call[t].cases[i]
                 IN  /\ LinkedTo(t, case.ch, case.op)
                     /\ case.ch \in Range(channel_registry) /\ ~ shutdown_requested
      <3> DEFINE c == call[t].cases[i].ch
                 op == call[t].cases[i].op
      <3>1. c \in Channels /\ op \in Ops
        BY <2>5, CallFacts, Zenon
      <3>2. Waiter(t, i) \in Range(Queue(c, op))
        BY <2>2, Zenon
      <3>3. Waiter(t, i).task = t
        BY DEF Waiter
      <3> HIDE DEF c, op
      <3>4. LinkedTo(t, c, op)
        BY <3>2, <3>3, Zenon DEF LinkedTo, Queue, QueueOf
      <3>5. Queue(c, op) # << >>
        BY <3>2, EmptyFacts, Zenon
      <3>6. chan[c].phase = "live" /\ ~ shutdown_requested
        BY <2>1, <3>1, <3>5, Zenon DEF LinkInv, Drained
      <3>7. c \in Range(channel_registry)
        BY <2>1, <3>1, <3>6, Zenon DEF LinkInv, Registered
      <3> QED
        BY <3>4, <3>6, <3>7, Zenon DEF c, op
    <2> QED
      BY <2>2, <2>4, <2>6, Zenon
  <1> QED
    BY <1>1, ChannelInvariant, PTL

\* A woken task is told what happened: exactly the case it is told of had its effect.
THEOREM ChannelResultMatches == Spec => []ResultMatchesTransfer
  <1>1. ChannelInv => ResultMatchesTransfer
    <2> SUFFICES ASSUME ChannelInv, NEW t \in Tasks
                 PROVE  LET r == result[t]
                            fired == call[t].cases[r.case]
                            acceptedBy == {c \in Channels : Value(t) \in Range(accepted[c])}
                        IN  /\ tstate[t] = "waiting_channel" => acceptedBy = {}
                            /\ tstate[t] = "runnable" =>
                                /\ r.status = "sent" => fired.op = "send" /\ acceptedBy = {fired.ch}
                                /\ r.status # "sent" => acceptedBy = {}
                                /\ r.status = "value" => /\ fired.op = "recv"
                                                         /\ r.value \in Range(received[fired.ch])
                                /\ r.status = "closed" => chan[fired.ch].closed
                                /\ r.status # "none"
      BY Zenon DEF ResultMatchesTransfer
    <2> DEFINE acceptedBy == {c \in Channels : Value(t) \in Range(accepted[c])}
    <2>1. LinkInv /\ BufferInv /\ AcceptedIsUsed /\ WokenIsTold
      BY Zenon DEF ChannelInv, ResultInv
    <2>2. Value(t)[1] = t /\ Value(t)[2] = sends[t]
      BY DEF Value
    <2>3. sends[t] \in Nat
      BY <2>1 DEF LinkInv, Types
    <2>4. ~ Used(Value(t))
      BY <2>2, <2>3 DEF Used
    <2>5. ASSUME NEW c \in acceptedBy
          PROVE  /\ tstate[t] \in {"runnable", "freed"} /\ result[t].status = "sent"
                 /\ Fired(t) = Case(c, "send")
      <3>1. Current(c, Value(t))
        BY <2>1, <2>4, Zenon DEF AcceptedIsUsed
      <3> QED
        BY <2>2, <3>1, Zenon DEF Current
    <2>6. tstate[t] = "waiting_channel" => acceptedBy = {}
      BY <2>5
    <2>7. ASSUME tstate[t] = "runnable"
          PROVE  /\ Told(t)
                 /\ result[t].status # "sent" => acceptedBy = {}
                 /\ result[t].status = "sent" => acceptedBy = {Fired(t).ch}
      <3>1. Told(t)
        BY <2>1, <2>7, Zenon DEF WokenIsTold
      <3>2. result[t].status # "sent" => acceptedBy = {}
        BY <2>5, Zenon
      <3>3. ASSUME result[t].status = "sent" PROVE acceptedBy = {Fired(t).ch}
        <4>1. \A c \in acceptedBy : c = Fired(t).ch
          <5> TAKE c \in acceptedBy
          <5>1. Fired(t) = Case(c, "send")
            BY <2>5, Zenon
          <5> QED
            BY <5>1, CaseFields
        <4>2. tstate[t] # "running"
          BY <2>7
        <4>3. call[t] \in Calls
          BY <2>1, <4>2, Zenon DEF LinkInv, InCall
        <4>4. Fired(t).ch \in Channels
          BY <3>1, <4>3, CallFacts, Zenon DEF Told, Fired
        <4>5. Fired(t).ch \in acceptedBy
          BY <3>1, <3>3, <4>4, Zenon DEF Told
        <4> QED
          BY <4>1, <4>5, Zenon
      <3> QED
        BY <3>1, <3>2, <3>3, Zenon
    <2>8. ASSUME tstate[t] = "runnable" PROVE result[t].status # "none"
      BY <2>7, <2>8 DEF Told
    <2> HIDE DEF acceptedBy
    <2>9. /\ tstate[t] = "waiting_channel" => acceptedBy = {}
          /\ tstate[t] = "runnable" =>
              /\ result[t].status = "sent" => Fired(t).op = "send" /\ acceptedBy = {Fired(t).ch}
              /\ result[t].status # "sent" => acceptedBy = {}
              /\ result[t].status = "value" => /\ Fired(t).op = "recv"
                                               /\ result[t].value \in Range(received[Fired(t).ch])
              /\ result[t].status = "closed" => chan[Fired(t).ch].closed
              /\ result[t].status # "none"
      BY <2>6, <2>7, <2>8, Zenon DEF Told
    <2> QED
      BY <2>9, Zenon DEF acceptedBy, Fired
  <1> QED
    BY <1>1, ChannelInvariant, PTL

\* A closed channel accepts nothing, and no channel does after shutdown: not from
\* try_send_locked, and not from a sender that try_recv_locked finds waiting.
THEOREM ChannelClosedAcceptsNothing == Spec => ClosedAcceptsNothing
  <1>1. ASSUME ChannelInv, [Next]_vars, NEW c \in Channels, chan[c].closed \/ shutdown_requested
        PROVE  accepted'[c] = accepted[c]
    <2>1. LinkInv /\ BufferInv
      BY <1>1, Zenon DEF ChannelInv
    <2>2. Kinds
      BY <1>1, <2>1, StepKinds, Zenon
    <2>3. accepted[c] \in Seq(Values) /\ accepted \in [Channels -> Seq(Values)]
      BY <2>1, Zenon DEF BufferInv
    <2>4. ASSUME NEW t \in Tasks, NEW d \in Channels, NEW op \in Ops, NEW k, NEW r,
                 FiredBy(t, d, op, k, r)
          PROVE  accepted'[c] = accepted[c]
      <3>1. accepted' = [accepted EXCEPT ![d] = accepted[d] \o Gives(op, r)]
        BY <2>4, Zenon DEF FiredBy, Gives
      <3>2. CASE d # c
        BY <2>3, <3>1, <3>2, Zenon
      <3>3. CASE d = c
        <4>1. Trimmed(chan[c], k) /\ Succeeds(k, c, op, Value(t), r)
          BY <2>4, <3>3, Zenon DEF FiredBy
        <4>2. k.closed = chan[c].closed
          BY <4>1, Zenon DEF Trimmed
        <4>3. op # "send"
          BY <1>1, <4>1, <4>2, TwoOps, Zenon DEF Succeeds
        <4>4. Partner(op) = "send"
          BY <4>3, Zenon DEF Partner
        <4>5. \A w \in r.woken : w \in Range(Queue(c, "send"))
          <5>1. FiredBy(t, c, op, k, r)
            BY <2>4, <3>3, Zenon
          <5>2. \A w \in r.woken : w \in Range(Queue(c, Partner(op)))
            BY <2>1, <5>1, FiredLogs
          <5> QED
            BY <4>4, <5>2, Zenon
        <4>6. Queue(c, "send") = << >>
          BY <1>1, <2>1, TwoOps, Zenon DEF LinkInv, Drained
        <4>7. {Value(w.task) : w \in r.woken} = {}
          BY <4>5, <4>6, EmptyFacts, Zenon
        <4>8. Gives(op, r) = << >>
          BY <4>3, <4>7, AsSeqFacts DEF Gives
        <4>9. accepted'[c] = accepted[c] \o << >>
          BY <2>3, <3>1, <3>3, <4>8, Zenon
        <4> QED
          BY <2>3, <4>9
      <3> QED
        BY <3>2, <3>3, Zenon
    <2>5. ASSUME UNCHANGED accepted PROVE accepted'[c] = accepted[c]
      BY <2>5, Zenon
    <2>6. Quiet => UNCHANGED accepted
      BY Zenon DEF Quiet
    <2>7. ASSUME NEW t, NEW cl, Parks(t, cl) PROVE UNCHANGED accepted
      BY <2>7, Zenon DEF Parks
    <2>8. ASSUME NEW t, Resume(t) PROVE UNCHANGED accepted
      BY <2>8, Zenon DEF Resume
    <2>9. ASSUME NEW t, FreeTask(t) PROVE UNCHANGED accepted
      BY <2>9, Zenon DEF FreeTask
    <2>10. ASSUME NEW C, NEW qs, ClosesAll(C, qs) PROVE UNCHANGED accepted
      BY <2>10, Zenon DEF ClosesAll
    <2>11. ASSUME NEW d, NEW p, Rephased(d, p) PROVE UNCHANGED accepted
      BY <2>11, Zenon DEF Rephased
    <2> QED
      BY <2>2, <2>4, <2>5, <2>6, <2>7, <2>8, <2>9, <2>10, <2>11, Zenon DEF Kinds
  <1>2. ChannelInv /\ [Next]_vars =>
           [\A c \in Channels :
               (chan[c].closed \/ shutdown_requested) => accepted'[c] = accepted[c]]_vars
    BY <1>1, Zenon
  <1> QED
    BY <1>2, ChannelInvariant, PTL DEF Spec, ClosedAcceptsNothing
=============================================================================
