------------------------------- MODULE Channel -------------------------------
(***************************************************************************)
(* Channels and select (src/channel.c).  Every operation runs under        *)
(* scheduler_mutex, so an operation is one step, or two when the task      *)
(* parks: the registration of its waiters, and what it does after it is    *)
(* resumed.  Between the two, any other operation may happen.              *)
(*                                                                         *)
(* Tasks that never park here stand for outside threads too: those can     *)
(* only make the calls that do not park.  A call on a closed channel, or   *)
(* one that would block and may not park, at most drops dead waiters.      *)
(***************************************************************************)
EXTENDS Naturals, Sequences, Functions

CONSTANTS Tasks,
          Channels,
          Capacity,     \* channel -> capacity; 0 is an unbuffered channel
          SelectCalls,  \* the case lists given to croutine_select
          MaxSends,     \* bound: values a task sends
          NoChannel,    \* a NULL channel in a select case
          NoValue,      \* contents of a buffer slot never written
          NoCall        \* the task is in no channel operation

Cases == [ch : Channels \cup {NoChannel}, op : {"send", "recv"}]

ASSUME ChannelAssumption == /\ Capacity \in [Channels -> Nat]
                            /\ NoChannel \notin Channels
                            /\ MaxSends \in Nat
                            /\ SelectCalls \subseteq Seq(Cases)

VARIABLES
    chan,               \* channel -> struct croutine_channel
    channel_registry,   \* registered channels, latest first
    shutdown_requested,
    tstate,             \* task -> its scheduler state
    call,               \* task -> the operation it is parked in
    done,               \* the tasks whose CroutineSelectState is done
    result,             \* task -> what the waker left it: case, status, value
    sends,              \* task -> values it has used up so far
    accepted,           \* ghost: channel -> values accepted from senders
    received            \* ghost: channel -> values handed to receivers

chanVars == <<chan, channel_registry, shutdown_requested>>
taskVars == <<tstate, call, done, result>>
vars == <<chanVars, taskVars, sends, accepted, received>>

Case(c, op) == [ch |-> c, op |-> op]
Regular(c, op) == [sel |-> FALSE, cases |-> <<Case(c, op)>>]
Select(cases) == [sel |-> TRUE, cases |-> cases]

\* The value task t sends next; every value is sent once.
Value(t) == <<t, sends[t]>>

Waiters == [task : Tasks, sel : BOOLEAN, case : Nat]
Values == Tasks \X (0 .. MaxSends)
Statuses == {"none", "sent", "value", "closed"}

\* Every variable has its type; ring positions stay inside the ring.
TypeOK ==
    /\ \A c \in Channels :
          LET k == chan[c] IN
          /\ k.phase \in {"none", "live", "gone"} /\ k.closed \in BOOLEAN
          /\ \A i \in DOMAIN k.buffer : k.buffer[i] \in Values \cup {NoValue}
          /\ DOMAIN k.buffer = 0 .. Capacity[c] - 1
          /\ k.len \in 0 .. Capacity[c]
          /\ Capacity[c] > 0 => {k.head, k.tail} \subseteq 0 .. Capacity[c] - 1
          /\ Range(k.send_waiters) \cup Range(k.recv_waiters) \subseteq Waiters
    /\ Range(channel_registry) = {c \in Channels : chan[c].phase = "live"}
    /\ shutdown_requested \in BOOLEAN
    /\ tstate \in [Tasks -> {"running", "waiting_channel", "runnable", "freed"}]
    /\ done \subseteq Tasks
    /\ \A t \in Tasks : result[t].status \in Statuses
    /\ sends \in [Tasks -> 0 .. MaxSends]

NoResult == [case |-> 0, status |-> "none", value |-> NoValue]

Init ==
    /\ chan = [c \in Channels |->
                 [phase |-> "none", closed |-> FALSE,
                  buffer |-> [i \in 0 .. Capacity[c] - 1 |-> NoValue],
                  head |-> 0, tail |-> 0, len |-> 0,
                  send_waiters |-> << >>, recv_waiters |-> << >>]]
    /\ channel_registry = << >>
    /\ shutdown_requested = FALSE
    /\ tstate = [t \in Tasks |-> "running"]
    /\ call = [t \in Tasks |-> NoCall]
    /\ done = {}
    /\ result = [t \in Tasks |-> NoResult]
    /\ sends = [t \in Tasks |-> 0]
    /\ accepted = [c \in Channels |-> << >>]
    /\ received = [c \in Channels |-> << >>]
-----------------------------------------------------------------------------
(***************************************************************************)
(* Buffer and wait queues.                                                 *)
(***************************************************************************)
buffer_push(k, c, v) == [k EXCEPT !.buffer[k.tail] = v,
                                  !.tail = (@ + 1) % Capacity[c],
                                  !.len = @ + 1]

buffer_pop(k, c) == [k EXCEPT !.head = (@ + 1) % Capacity[c], !.len = @ - 1]

\* The elements of sequence q that are in S, in the order of q.
Keep(q, S) ==
    LET kept[n \in 0 .. Len(q)] ==
            IF n = 0 THEN << >>
            ELSE IF q[n] \in S THEN Append(kept[n - 1], q[n]) ELSE kept[n - 1]
    IN  kept[Len(q)]

\* A select waiter is dead once another case of its select has fired.
Live(w) == ~ (w.sel /\ w.task \in done)

\* Mutant: selects that are done are not skipped.
FirstInQueue(q) == IF q = << >> THEN 0 ELSE 1

\* pop_live_waiter_locked: the place of the first live waiter (0: none), and the
\* queue behind it; dead waiters in front of it are dropped.
FirstLive(q) == LET live == {i \in 1 .. Len(q) : Live(q[i])}
                IN  IF live = {} THEN 0
                    ELSE CHOOSE i \in live : \A j \in live : i <= j

AfterFirstLive(q) == IF FirstLive(q) = 0 THEN << >>
                     ELSE SubSeq(q, FirstLive(q) + 1, Len(q))
-----------------------------------------------------------------------------
(***************************************************************************)
(* The attempts.  Each yields: st, the outcome; k, the channel afterwards; *)
(* woken, the waiter it completes (at most one); value, what it received.  *)
(***************************************************************************)
\* Mutant: a send does not look at the closed flag.
TrySendUnchecked(k, c, v) ==
    LET i == FirstLive(k.recv_waiters)
        k1 == [k EXCEPT !.recv_waiters = AfterFirstLive(@)]
    IN  IF FALSE
        THEN [st |-> "closed", k |-> k, woken |-> {}, value |-> v]
        ELSE IF i # 0
        THEN [st |-> "sent", k |-> k1, woken |-> {k.recv_waiters[i]}, value |-> v]
        ELSE IF k.len < Capacity[c]
        THEN [st |-> "sent", k |-> buffer_push(k1, c, v), woken |-> {}, value |-> v]
        ELSE [st |-> "block", k |-> k1, woken |-> {}, value |-> v]

try_send_locked(k, c, v) ==
    LET i == FirstLive(k.recv_waiters)
        k1 == [k EXCEPT !.recv_waiters = AfterFirstLive(@)]
    IN  IF k.closed \/ shutdown_requested
        THEN [st |-> "closed", k |-> k, woken |-> {}, value |-> v]
        ELSE IF i # 0
        THEN [st |-> "sent", k |-> k1, woken |-> {k.recv_waiters[i]}, value |-> v]
        ELSE IF k.len < Capacity[c]
        THEN [st |-> "sent", k |-> buffer_push(k1, c, v), woken |-> {}, value |-> v]
        ELSE [st |-> "block", k |-> k1, woken |-> {}, value |-> v]

\* Mutant: a receive does not refill the buffer from a waiting sender.
TryRecvNoRefill(k, c) ==
    LET i == FirstLive(k.send_waiters)
        k1 == [k EXCEPT !.send_waiters = AfterFirstLive(@)]
        sender == k.send_waiters[i]
    IN  IF k.len > 0
        THEN LET popped == buffer_pop(k, c)
             IN  [st |-> "value", value |-> k.buffer[k.head],
                  k |-> popped,
                  woken |-> {}]
        ELSE IF i # 0
        THEN [st |-> "value", value |-> Value(sender.task), k |-> k1,
              woken |-> {sender}]
        ELSE [st |-> IF k.closed \/ shutdown_requested THEN "closed" ELSE "block",
              value |-> NoValue, k |-> k1, woken |-> {}]

\* Mutant: a waiting sender is served before the buffer.
TryRecvSenderFirst(k, c) ==
    LET i == FirstLive(k.send_waiters)
        k1 == [k EXCEPT !.send_waiters = AfterFirstLive(@)]
        sender == k.send_waiters[i]
    IN  IF k.len > 0 /\ i = 0
        THEN LET popped == buffer_pop(IF k.closed THEN k ELSE k1, c)
             IN  [st |-> "value", value |-> k.buffer[k.head],
                  k |-> IF k.closed \/ i = 0 THEN popped
                        ELSE buffer_push(popped, c, Value(sender.task)),
                  woken |-> IF k.closed \/ i = 0 THEN {} ELSE {sender}]
        ELSE IF i # 0
        THEN [st |-> "value", value |-> Value(sender.task), k |-> k1,
              woken |-> {sender}]
        ELSE [st |-> IF k.closed \/ shutdown_requested THEN "closed" ELSE "block",
              value |-> NoValue, k |-> k1, woken |-> {}]

\* A value from the buffer, whose slot the first waiting sender fills; or a value
\* straight from a waiting sender.
try_recv_locked(k, c) ==
    LET i == FirstLive(k.send_waiters)
        k1 == [k EXCEPT !.send_waiters = AfterFirstLive(@)]
        sender == k.send_waiters[i]
    IN  IF k.len > 0
        THEN LET popped == buffer_pop(IF k.closed THEN k ELSE k1, c)
             IN  [st |-> "value", value |-> k.buffer[k.head],
                  k |-> IF k.closed \/ i = 0 THEN popped
                        ELSE buffer_push(popped, c, Value(sender.task)),
                  woken |-> IF k.closed \/ i = 0 THEN {} ELSE {sender}]
        ELSE IF i # 0
        THEN [st |-> "value", value |-> Value(sender.task), k |-> k1,
              woken |-> {sender}]
        ELSE [st |-> IF k.closed \/ shutdown_requested THEN "closed" ELSE "block",
              value |-> NoValue, k |-> k1, woken |-> {}]

\* One case of an operation by task t, tried on the channel states `ks'.
Try(t, case, ks) ==
    IF case.op = "send"
    THEN try_send_locked(ks[case.ch], case.ch, Value(t))
    ELSE try_recv_locked(ks[case.ch], case.ch)

\* complete_waiter_locked for the waiter an attempt completes: its task becomes
\* runnable and finds its outcome; a select is done and knows which case fired.
Complete(woken, status, value) ==
    LET of(t) == {w \in woken : w.task = t}
    IN  /\ tstate' = [t \in Tasks |-> IF of(t) = {} THEN tstate[t] ELSE "runnable"]
        /\ done' = done \cup {w.task : w \in {u \in woken : u.sel}}
        /\ result' = [t \in Tasks |->
                        IF of(t) = {} THEN result[t]
                        ELSE [case |-> (CHOOSE w \in of(t) : TRUE).case,
                              status |-> status, value |-> value]]

\* The sequence of the elements of a set that has at most one.
AsSeq(S) == IF S = {} THEN << >> ELSE <<CHOOSE x \in S : TRUE>>

\* A successful attempt takes effect: the partner is completed, and the ghost
\* logs say what the channel accepted and what it handed over.
Fire(t, case, r, ks) ==
    LET c == case.ch
        partner == {Value(w.task) : w \in r.woken}
    IN  /\ chan' = [ks EXCEPT ![c] = r.k]
        /\ Complete(r.woken, IF case.op = "send" THEN "value" ELSE "sent",
                    IF case.op = "send" THEN r.value ELSE NoValue)
        /\ accepted' = [accepted EXCEPT ![c] = @ \o
                           (IF case.op = "send" THEN <<r.value>>
                            ELSE AsSeq(partner))]
        /\ received' = [received EXCEPT ![c] = @ \o
                           (IF case.op = "recv" \/ r.woken # {}
                            THEN <<r.value>> ELSE << >>)]
        /\ sends' = [sends EXCEPT ![t] = @ + (IF case.op = "send" THEN 1 ELSE 0)]

-----------------------------------------------------------------------------
(***************************************************************************)
(* Operations.  A regular send or receive is a call with one case.         *)
(***************************************************************************)
CanCall(t, cl) ==
    /\ tstate[t] = "running"
    /\ \A case \in Range(cl.cases) :
          /\ case.ch # NoChannel => chan[case.ch].phase = "live"
          /\ case.op = "send" => sends[t] < MaxSends

RealCases(cl) == {i \in DOMAIN cl.cases : cl.cases[i].ch # NoChannel}

Blocked(t, cl) == {i \in RealCases(cl) : Try(t, cl.cases[i], chan).st = "block"}

\* The channels after the cases in `tried' were tried in vain: dead waiters in
\* the queues of their partners have been dropped.
DropDead(cl, tried) ==
    [c \in Channels |->
        LET ops == {cl.cases[i].op : i \in {j \in tried : cl.cases[j].ch = c}}
        IN  [chan[c] EXCEPT
                !.recv_waiters = IF "send" \in ops THEN << >> ELSE @,
                !.send_waiters = IF "recv" \in ops THEN << >> ELSE @]]

\* Case i fires at once, after the blocked cases in `tried' came first in the
\* shuffled order.
Fires(t, cl) ==
    /\ CanCall(t, cl)
    /\ \E i \in RealCases(cl) \ Blocked(t, cl), tried \in SUBSET Blocked(t, cl) :
          LET ks == DropDead(cl, tried)
              r == Try(t, cl.cases[i], ks)
          IN  r.st # "closed" /\ Fire(t, cl.cases[i], r, ks)
    /\ UNCHANGED <<channel_registry, shutdown_requested, call>>

\* The call returns without a transfer: a closed case fires, or every case is
\* blocked and the caller does not park (try_send, try_recv, a default arm, a
\* thread that is not a task).
NoTransfer(t, cl) ==
    /\ CanCall(t, cl)
    /\ \/ \E i \in RealCases(cl) \ Blocked(t, cl), tried \in SUBSET Blocked(t, cl) :
             /\ Try(t, cl.cases[i], chan).st = "closed"
             /\ chan' = DropDead(cl, tried)
       \/ /\ Blocked(t, cl) = RealCases(cl)
          /\ chan' = DropDead(cl, RealCases(cl))
    /\ UNCHANGED <<channel_registry, shutdown_requested, taskVars, sends,
                   accepted, received>>

\* The waiters that t adds to the `op' queue of channel c.
NewWaiters(t, cl, c, op) ==
    LET is == Keep([i \in 1 .. Len(cl.cases) |-> i],
                   {i \in DOMAIN cl.cases : cl.cases[i] = Case(c, op)})
    IN  [j \in DOMAIN is |-> [task |-> t, sel |-> cl.sel, case |-> is[j]]]

\* Every case is blocked: t registers a waiter for each and parks.
Parks(t, cl) ==
    /\ CanCall(t, cl)
    /\ RealCases(cl) # {}
    /\ Blocked(t, cl) = RealCases(cl)
    /\ chan' = [c \in Channels |->
                  [DropDead(cl, RealCases(cl))[c] EXCEPT
                     !.send_waiters = @ \o NewWaiters(t, cl, c, "send"),
                     !.recv_waiters = @ \o NewWaiters(t, cl, c, "recv")]]
    /\ tstate' = [tstate EXCEPT ![t] = "waiting_channel"]
    /\ call' = [call EXCEPT ![t] = cl]
    /\ UNCHANGED <<channel_registry, shutdown_requested, done, result, sends,
                   accepted, received>>

croutine_channel_send(t, c) == \/ Fires(t, Regular(c, "send"))
                               \/ Parks(t, Regular(c, "send"))

croutine_channel_recv(t, c) == \/ Fires(t, Regular(c, "recv"))
                               \/ Parks(t, Regular(c, "recv"))

croutine_channel_try_send(t, c) == NoTransfer(t, Regular(c, "send"))

croutine_channel_try_recv(t, c) == NoTransfer(t, Regular(c, "recv"))

croutine_select(t, cases) == \/ Fires(t, Select(cases))
                             \/ NoTransfer(t, Select(cases))
                             \/ Parks(t, Select(cases))

\* Mutant: the waiters of the cases that did not fire are not scrubbed.
UnlinkNothing(t) == chan

\* scrub_select_waiters, or wait_queue_unlink of a regular waiter.
Unlink(t) ==
    LET others(q) == Keep(q, {w \in Range(q) : w.task # t})
    IN  [c \in Channels |-> [chan[c] EXCEPT !.send_waiters = others(@),
                                            !.recv_waiters = others(@)]]

\* The parked task runs again.  A select, and a regular operation that was
\* cancelled, unlink what is still linked; a regular one that succeeded returns
\* without taking the mutex.
Resume(t) ==
    LET cl == call[t]
    IN  /\ tstate[t] = "runnable"
        /\ tstate' = [tstate EXCEPT ![t] = "running"]
        /\ chan' = IF cl.sel \/ result[t].status = "closed" THEN Unlink(t) ELSE chan
        /\ call' = [call EXCEPT ![t] = NoCall]
        /\ done' = done \ {t}
        /\ result' = [result EXCEPT ![t] = NoResult]
        /\ sends' = IF \E case \in Range(cl.cases) : case.op = "send"
                    THEN [sends EXCEPT ![t] = @ + 1] ELSE sends
        /\ UNCHANGED <<channel_registry, shutdown_requested, accepted, received>>

\* Mutant: close drains both queues but wakes the senders only.
SendWaiters(cs) == [n \in DOMAIN cs |-> chan[cs[n]].send_waiters]

\* The queues of the channels `cs', in the order in which they are drained.
AllWaiters(cs) ==
    [n \in 1 .. 2 * Len(cs) |->
        IF n % 2 = 1 THEN chan[cs[(n + 1) \div 2]].send_waiters
        ELSE chan[cs[n \div 2]].recv_waiters]

\* wake_all_as_closed_locked on the queues `qs', one after the other: a live task
\* is woken for its first waiter only, its select being done after that.
FirstOfTask(qs, n, i) ==
    /\ Live(qs[n][i])
    /\ \A m \in 1 .. n : \A j \in DOMAIN qs[m] :
          m < n \/ j < i => qs[m][j].task # qs[n][i].task

FirstWaiters(qs) ==
    UNION {{qs[n][i] : i \in {j \in DOMAIN qs[n] : FirstOfTask(qs, n, j)}} : n \in DOMAIN qs}

WakeAllAsClosed(qs) == Complete(FirstWaiters(qs), "closed", NoValue)

Closed(k) == [k EXCEPT !.closed = TRUE, !.send_waiters = << >>,
                       !.recv_waiters = << >>]

croutine_channel_close(c) ==
    /\ chan[c].phase = "live"
    /\ ~ chan[c].closed
    /\ chan' = [chan EXCEPT ![c] = Closed(@)]
    /\ WakeAllAsClosed(AllWaiters(<<c>>))
    /\ UNCHANGED <<channel_registry, shutdown_requested, call, sends, accepted,
                   received>>

\* worker_request_shutdown with croutine_channel_shutdown_all_locked.  It may be
\* called again: channels created since are then closed too.
ShutdownAll ==
    /\ shutdown_requested' = TRUE
    /\ chan' = [c \in Channels |-> IF c \in Range(channel_registry)
                                   THEN Closed(chan[c]) ELSE chan[c]]
    /\ WakeAllAsClosed(AllWaiters(channel_registry))
    /\ UNCHANGED <<channel_registry, call, sends, accepted, received>>

croutine_channel_create(c) ==
    /\ chan[c].phase = "none"
    /\ chan' = [chan EXCEPT ![c].phase = "live"]
    /\ channel_registry' = <<c>> \o channel_registry
    /\ UNCHANGED <<shutdown_requested, taskVars, sends, accepted, received>>

croutine_channel_destroy(c) ==
    /\ chan[c].phase = "live"
    /\ chan[c].closed
    /\ chan[c].send_waiters = << >> /\ chan[c].recv_waiters = << >>
    /\ chan' = [chan EXCEPT ![c].phase = "gone"]
    /\ channel_registry' = Keep(channel_registry, Channels \ {c})
    /\ UNCHANGED <<shutdown_requested, taskVars, sends, accepted, received>>

\* worker_deinit frees a woken task that no worker resumed after shutdown.
FreeTask(t) ==
    /\ shutdown_requested
    /\ tstate[t] = "runnable"
    /\ tstate' = [tstate EXCEPT ![t] = "freed"]
    /\ UNCHANGED <<chanVars, call, done, result, sends, accepted, received>>

Next == \/ \E t \in Tasks :
              \/ \E c \in Channels : \/ croutine_channel_send(t, c)
                                     \/ croutine_channel_recv(t, c)
                                     \/ croutine_channel_try_send(t, c)
                                     \/ croutine_channel_try_recv(t, c)
              \/ \E cases \in SelectCalls : croutine_select(t, cases)
              \/ Resume(t)
              \/ FreeTask(t)
        \/ \E c \in Channels : \/ croutine_channel_close(c)
                               \/ croutine_channel_create(c)
                               \/ croutine_channel_destroy(c)
        \/ ShutdownAll

Spec == Init /\ [][Next]_vars
-----------------------------------------------------------------------------
(***************************************************************************)
(* Properties.                                                             *)
(***************************************************************************)
Contents(c) == [i \in 1 .. chan[c].len |->
                  chan[c].buffer[(chan[c].head + i - 1) % Capacity[c]]]

\* A channel delivers what it accepted, in that order, each value once: what was
\* received followed by what is buffered is what was accepted, across hand-offs
\* to waiting receivers, refills from waiting senders, select and close.
FifoNoLossNoDuplicate ==
    \A c \in Channels : accepted[c] = received[c] \o Contents(c)

LinkedTo(t, c, op) ==
    \E w \in Range(IF op = "send" THEN chan[c].send_waiters
                   ELSE chan[c].recv_waiters) : w.task = t

LiveIn(q) == {w.task : w \in {u \in Range(q) : Live(u)}}

\* Nobody waits in vain: a live sender waits only on an open channel that is
\* full, a live receiver only on an open one that is empty, and both at once
\* only when they are cases of one task's select.
WaitsAreJustified ==
    \A c \in Channels :
        LET k == chan[c]
            senders == LiveIn(k.send_waiters)
            receivers == LiveIn(k.recv_waiters)
        IN  /\ senders # {} => ~ k.closed /\ k.len = Capacity[c]
            /\ receivers # {} => ~ k.closed /\ k.len = 0
            /\ \A t \in senders, u \in receivers : t = u

\* A waiter lives on its task's stack.  It is linked only while that task is in
\* the operation that linked it (never once the operation returned or the task
\* was freed), and a waiter that may still be completed belongs to a task in
\* TASK_WAITING_CHANNEL, so complete_waiter_locked never fails to wake it.
NoDanglingWaiter ==
    \A c \in Channels : \A op \in {"send", "recv"} :
        \A w \in Range(IF op = "send" THEN chan[c].send_waiters
                       ELSE chan[c].recv_waiters) :
            /\ tstate[w.task] \in {"waiting_channel", "runnable"}
            /\ call[w.task].sel = w.sel
            /\ call[w.task].cases[w.case] = Case(c, op)
            /\ chan[c].phase = "live"
            /\ Live(w) => tstate[w.task] = "waiting_channel"

\* A parked task can still be woken: it has a live waiter for every case it
\* registered, and each of those channels is open and will be closed by shutdown.
ParkedTaskIsLinked ==
    \A t \in Tasks : tstate[t] = "waiting_channel" =>
        /\ t \notin done /\ ~ shutdown_requested
        /\ RealCases(call[t]) # {}
        /\ \A i \in RealCases(call[t]) :
              LET case == call[t].cases[i]
              IN  /\ LinkedTo(t, case.ch, case.op)
                  /\ case.ch \in Range(channel_registry)

\* The result a woken task finds is what happened: exactly the reported case had
\* its effect.  Its value was accepted by a channel if and only if the reported
\* case is a send with status "sent", on that channel; a value it is given was
\* received from the channel of the reported receive case.
ResultMatchesTransfer ==
    \A t \in Tasks :
        LET r == result[t]
            fired == call[t].cases[r.case]
            acceptedBy == {c \in Channels : Value(t) \in Range(accepted[c])}
        IN  /\ tstate[t] = "waiting_channel" => acceptedBy = {}
            /\ tstate[t] = "runnable" =>
                  /\ r.status = "sent" => fired.op = "send" /\ acceptedBy = {fired.ch}
                  /\ r.status # "sent" => acceptedBy = {}
                  /\ r.status = "value" => /\ fired.op = "recv"
                                           /\ r.value \in Range(received[fired.ch])
                  /\ r.status = "closed" => chan[fired.ch].closed
                  /\ r.status # "none"

\* A closed channel, and every channel after shutdown, accepts nothing more: no
\* value is put into its buffer or handed to a receiver by a send or a select, nor
\* by a receive that moves a waiting sender's value up.
ClosedAcceptsNothing ==
    [][\A c \in Channels :
          (chan[c].closed \/ shutdown_requested) => accepted'[c] = accepted[c]]_vars
=============================================================================
