-------------------------- MODULE ChannelLinkProofs --------------------------
(***************************************************************************)
(* Proofs about channels and select, for any number of tasks and channels, *)
(* any capacities and any select calls: the waiters that are linked into   *)
(* channels.                                                               *)
(***************************************************************************)
EXTENDS Channel, WellFoundedInduction, TLAPS
-----------------------------------------------------------------------------
(***************************************************************************)
(* The inductive invariant.                                                *)
(***************************************************************************)
Ops == {"send", "recv"}
Phases == {"none", "live", "gone"}
TaskStates == {"running", "waiting_channel", "runnable", "freed"}
Contained == Values \cup {NoValue}

\* The fields of a channel.
ChannelRecords ==
    [phase : Phases, closed : BOOLEAN,
     buffer : UNION {[0 .. n - 1 -> Contained] : n \in Nat},
     head : Nat, tail : Nat, len : Nat,
     send_waiters : Seq(Waiters), recv_waiters : Seq(Waiters)]

\* The calls a task can be parked in.
Calls == {Regular(c, op) : c \in Channels, op \in Ops}
            \cup {Select(cases) : cases \in SelectCalls}

Results == [case : Nat, status : Statuses, value : Contained]

\* The wait queue for `op' of a channel record, and of channel c.
QueueOf(k, op) == IF op = "send" THEN k.send_waiters ELSE k.recv_waiters
Queue(c, op) == QueueOf(chan[c], op)

\* The ring of channel record k of channel c.
Ring(k, c) ==
    /\ k.buffer \in [0 .. Capacity[c] - 1 -> Contained]
    /\ k.len \in 0 .. Capacity[c]
    /\ Capacity[c] > 0 => /\ k.head \in 0 .. Capacity[c] - 1
                          /\ k.tail \in 0 .. Capacity[c] - 1
                          /\ k.tail = (k.head + k.len) % Capacity[c]

Types ==
    /\ chan \in [Channels -> ChannelRecords]
    /\ \A c \in Channels : Ring(chan[c], c)
    /\ channel_registry \in Seq(Channels)
    /\ shutdown_requested \in BOOLEAN
    /\ tstate \in [Tasks -> TaskStates]
    /\ call \in [Tasks -> Calls \cup {NoCall}]
    /\ done \in SUBSET Tasks
    /\ result \in [Tasks -> Results]
    /\ sends \in [Tasks -> 0 .. MaxSends]

\* A task that is parked or woken is in a call; it sends a value it has left.
InCall ==
    \A t \in Tasks : tstate[t] # "running" =>
        /\ call[t] \in Calls
        /\ tstate[t] # "freed" /\ (\E case \in Range(call[t].cases) : case.op = "send")
              => sends[t] < MaxSends

\* Only selects that were completed and have not resumed are done.
DoneIsWoken ==
    \A t \in done : tstate[t] \in {"runnable", "freed"} /\ call[t].sel

\* A linked waiter belongs to the call of its task.
Linked(w, c, op) ==
    /\ tstate[w.task] \in {"waiting_channel", "runnable"}
    /\ call[w.task].sel = w.sel
    /\ w.case \in DOMAIN call[w.task].cases
    /\ call[w.task].cases[w.case] = Case(c, op)
    /\ Live(w) => tstate[w.task] = "waiting_channel"

WaitersLinked ==
    \A c \in Channels, op \in Ops :
        /\ IsInjective(Queue(c, op))
        /\ \A w \in Range(Queue(c, op)) : Linked(w, c, op)

Waiter(t, i) == [task |-> t, sel |-> call[t].sel, case |-> i]

\* A parked task has a waiter for each of its cases.
ParkedLinked ==
    \A t \in Tasks : tstate[t] = "waiting_channel" =>
        /\ RealCases(call[t]) # {}
        /\ \A i \in RealCases(call[t]) :
              Waiter(t, i) \in Range(Queue(call[t].cases[i].ch, call[t].cases[i].op))

\* Nobody waits on a closed channel, after shutdown, or on one that is not there.
Drained ==
    \A c \in Channels : (shutdown_requested \/ chan[c].closed \/ chan[c].phase # "live")
        => \A op \in Ops : Queue(c, op) = << >>

Registered == Range(channel_registry) = {c \in Channels : chan[c].phase = "live"}

LinkInv == /\ Types
           /\ InCall
           /\ DoneIsWoken
           /\ WaitersLinked
           /\ ParkedLinked
           /\ Drained
           /\ Registered
-----------------------------------------------------------------------------
(***************************************************************************)
(* Sequences.                                                              *)
(***************************************************************************)
\* Every set of natural numbers that is not empty has a least element.
LEMMA Least ==
    ASSUME NEW T \in SUBSET Nat, T # {}
    PROVE  \E x \in T : \A y \in T : x <= y
  <1>1. PICK x \in T : \A y \in T : ~ (<<y, x>> \in OpToRel(<, Nat))
    BY NatLessThanWellFounded, WFMin, Zenon
  <1>2. \A y \in T : ~ (y < x)
    BY <1>1, Zenon DEF OpToRel
  <1> QED
    BY <1>2

\* Induction up to N, for a set of numbers.
LEMMA UpTo ==
    ASSUME NEW N \in Nat, NEW G, 0 \in G,
           \A n \in 1 .. N : n - 1 \in G => n \in G
    PROVE  \A n \in 0 .. N : n \in G
  <1> DEFINE Bad == (0 .. N) \ G
  <1>1. SUFFICES ASSUME Bad # {} PROVE FALSE
    OBVIOUS
  <1>2. Bad \in SUBSET Nat
    OBVIOUS
  <1> HIDE DEF Bad
  <1>3. PICK m \in Bad : \A y \in Bad : m <= y
    BY <1>1, <1>2, Least
  <1>4. m \in 1 .. N /\ m \notin G
    BY DEF Bad
  <1>5. m - 1 \in Bad
    BY <1>4 DEF Bad
  <1> QED
    BY <1>3, <1>4, <1>5

\* f is v at 0 and follows from its value one below everywhere else.
DefinedBy(f, N, v, step) == f[0] = v /\ \A n \in 1 .. N : f[n] = step[<<n, f[n - 1]>>]

\* A function on 0 .. N may be defined from its value at 0 and a step.
LEMMA RecursionUpTo ==
    ASSUME NEW N \in Nat, NEW V, NEW v \in V, NEW step \in [(1 .. N) \X V -> V]
    PROVE  \E f \in [0 .. N -> V] : DefinedBy(f, N, v, step)
  <1> USE DEF DefinedBy
  <1> DEFINE Solves(f, m) == DefinedBy(f, m, v, step)
             G == {m \in 0 .. N : \E f \in [0 .. m -> V] : Solves(f, m)}
  <1>1. 0 \in G
    <2> DEFINE h == [n \in 0 .. 0 |-> v]
    <2>1. h \in [0 .. 0 -> V] /\ Solves(h, 0)
      OBVIOUS
    <2> HIDE DEF h
    <2> QED
      BY <2>1
  <1>2. ASSUME NEW m \in 1 .. N, m - 1 \in G PROVE m \in G
    <2>1. PICK f \in [0 .. m - 1 -> V] : Solves(f, m - 1)
      BY <1>2
    <2> DEFINE g == [n \in 0 .. m |-> IF n = m THEN step[<<m, f[m - 1]>>] ELSE f[n]]
    <2>2. f[m - 1] \in V /\ <<m, f[m - 1]>> \in (1 .. N) \X V
      BY <2>1
    <2>3. g \in [0 .. m -> V]
      BY <2>2
    <2>4. g[0] = v /\ g[m] = step[<<m, f[m - 1]>>]
      BY <2>1
    <2>5. \A n \in 0 .. m - 1 : g[n] = f[n]
      OBVIOUS
    <2> HIDE DEF g
    <2>6. Solves(g, m)
      <3>1. ASSUME NEW n \in 1 .. m PROVE g[n] = step[<<n, g[n - 1]>>]
        <4>1. n - 1 \in 0 .. m - 1 /\ g[n - 1] = f[n - 1]
          BY <2>5
        <4>2. CASE n = m
          BY <2>4, <4>1, <4>2
        <4>3. CASE n # m
          <5>1. n \in 1 .. m - 1 /\ n \in 0 .. m - 1
            BY <4>3
          <5>2. g[n] = f[n] /\ f[n] = step[<<n, f[n - 1]>>]
            BY <2>1, <2>5, <5>1
          <5> QED
            BY <4>1, <5>2
        <4> QED
          BY <4>2, <4>3
      <3> QED
        BY <2>4, <3>1
    <2> QED
      BY <2>3, <2>6
  <1>3. \A m \in 0 .. N : m \in G
    <2> HIDE DEF G
    <2> QED
      BY <1>1, <1>2, UpTo
  <1>4. N \in G
    <2> HIDE DEF G
    <2> QED
      BY <1>3
  <1> QED
    BY <1>4

\* `kept' says what Keep keeps of the first n elements of q, for every n.
IsKept(kept, q, S) ==
    /\ kept[0] = << >>
    /\ \A n \in 1 .. Len(q) :
          kept[n] = IF q[n] \in S THEN Append(kept[n - 1], q[n]) ELSE kept[n - 1]

\* The function behind Keep exists.
LEMMA KeepUnfolds ==
    ASSUME NEW X, NEW q \in Seq(X), NEW S
    PROVE  \E kept : /\ DOMAIN kept = 0 .. Len(q)
                     /\ Keep(q, S) = kept[Len(q)]
                     /\ IsKept(kept, q, S)
  <1> DEFINE N == Len(q)
             V == Seq(X)
             Longer(n, r) == IF q[n] \in S THEN Append(r, q[n]) ELSE r
             step == [p \in (1 .. N) \X V |-> Longer(p[1], p[2])]
             Value0(k, n) == IF n = 0 THEN << >>
                             ELSE IF q[n] \in S THEN Append(k[n - 1], q[n]) ELSE k[n - 1]
             Solves(k) == k = [n \in 0 .. N |-> Value0(k, n)]
             kept == CHOOSE k : Solves(k)
  <1>1. N \in Nat /\ << >> \in V /\ \A n \in 1 .. N : q[n] \in X
    OBVIOUS
  <1>2. \A s \in V, x \in X : Append(s, x) \in V
    OBVIOUS
  <1>3. Keep(q, S) = kept[N]
    BY DEF Keep
  <1> HIDE DEF N, V
  <1>4. \A n \in 1 .. N, s \in V : Longer(n, s) \in V
    BY <1>1, <1>2, Zenon
  <1>5. \A k, n : n # 0 => Value0(k, n) = Longer(n, k[n - 1])
    OBVIOUS
  <1>6. \A k : Value0(k, 0) = << >>
    OBVIOUS
  <1> HIDE DEF Longer, Value0
  <1>7. step \in [(1 .. N) \X V -> V] /\ \A n \in 1 .. N, s \in V : step[<<n, s>>] = Longer(n, s)
    BY <1>4
  <1> HIDE DEF step
  <1>8. PICK f \in [0 .. N -> V] : DefinedBy(f, N, << >>, step)
    BY <1>1, <1>7, RecursionUpTo, Zenon
  <1>9. \A n \in 0 .. N : f[n] = Value0(f, n)
    <2> TAKE n \in 0 .. N
    <2>1. CASE n = 0
      BY <1>6, <1>8, <2>1 DEF DefinedBy
    <2>2. CASE n # 0
      <3>1. n \in 1 .. N /\ n - 1 \in 0 .. N
        BY <1>1, <2>2
      <3>2. f[n - 1] \in V
        BY <1>8, <3>1
      <3>3. f[n] = step[<<n, f[n - 1]>>] /\ step[<<n, f[n - 1]>>] = Longer(n, f[n - 1])
        BY <1>7, <1>8, <3>1, <3>2, Zenon DEF DefinedBy
      <3> QED
        BY <1>5, <2>2, <3>3, Zenon
    <2> QED
      BY <2>1, <2>2
  <1>10. Solves(f)
    BY <1>9
  <1>11. Solves(kept)
    BY <1>10, Zenon
  <1> HIDE DEF kept
  <1>12. DOMAIN kept = 0 .. N /\ \A n \in 0 .. N : kept[n] = Value0(kept, n)
    BY <1>11, Zenon
  <1>13. kept[0] = << >>
    BY <1>1, <1>6, <1>12
  <1>14. \A n \in 1 .. N : kept[n] = IF q[n] \in S THEN Append(kept[n - 1], q[n])
                                     ELSE kept[n - 1]
    <2> TAKE n \in 1 .. N
    <2>1. n \in 0 .. N /\ n # 0
      BY <1>1
    <2>2. kept[n] = Longer(n, kept[n - 1])
      BY <1>5, <1>12, <2>1, Zenon
    <2> QED
      BY <2>2, Zenon DEF Longer
  <1>15. IsKept(kept, q, S)
    BY <1>13, <1>14, Zenon DEF IsKept, N
  <1> QED
    BY <1>3, <1>12, <1>15, Zenon DEF N

\* The empty sequence.
LEMMA EmptyFacts == Range(<< >>) = {} /\ IsInjective(<< >>)
  BY DEF Range, IsInjective

\* One element more at the end of a sequence.
LEMMA AppendFacts ==
    ASSUME NEW X, NEW s \in Seq(X), NEW x \in X
    PROVE  /\ Append(s, x) \in Seq(X)
           /\ Range(Append(s, x)) = Range(s) \cup {x}
           /\ IsInjective(s) /\ x \notin Range(s) => IsInjective(Append(s, x))
  <1> DEFINE p == Append(s, x)
  <1>1. /\ p \in Seq(X) /\ Len(s) \in Nat
        /\ DOMAIN s = 1 .. Len(s) /\ DOMAIN p = 1 .. Len(s) + 1
        /\ \A i \in 1 .. Len(s) : p[i] = s[i]
        /\ p[Len(s) + 1] = x
    OBVIOUS
  <1> HIDE DEF p
  <1>2. Range(p) = Range(s) \cup {x}
    BY <1>1 DEF Range
  <1>3. ASSUME IsInjective(s), x \notin Range(s) PROVE IsInjective(p)
    <2>1. \A i \in 1 .. Len(s) : s[i] # x
      BY <1>1, <1>3 DEF Range
    <2> QED
      BY <1>1, <1>3, <2>1 DEF IsInjective
  <1> QED
    BY <1>1, <1>2, <1>3 DEF p

\* Keep keeps the elements that are in S, and none twice.
LEMMA KeepFacts ==
    ASSUME NEW X, NEW q \in Seq(X), NEW S
    PROVE  /\ Keep(q, S) \in Seq(X)
           /\ Range(Keep(q, S)) = Range(q) \cap S
           /\ IsInjective(q) => IsInjective(Keep(q, S))
  <1>1. PICK kept : /\ DOMAIN kept = 0 .. Len(q)
                    /\ Keep(q, S) = kept[Len(q)]
                    /\ IsKept(kept, q, S)
    BY KeepUnfolds, Zenon
  <1> DEFINE N == Len(q)
             V == Seq(X)
             First(n) == {q[i] : i \in 1 .. n}
             Good(n) == /\ kept[n] \in V
                        /\ Range(kept[n]) = First(n) \cap S
                        /\ IsInjective(q) => IsInjective(kept[n])
             G == {n \in 0 .. N : Good(n)}
  <1>2. N \in Nat /\ DOMAIN q = 1 .. N /\ \A i \in 1 .. N : q[i] \in X
    OBVIOUS
  <1>3. kept[0] = << >>
    BY <1>1, Zenon DEF IsKept
  <1>4. << >> \in V
    OBVIOUS
  <1>5. \A n \in 1 .. N : kept[n] = IF q[n] \in S THEN Append(kept[n - 1], q[n]) ELSE kept[n - 1]
    BY <1>1, Zenon DEF IsKept
  <1>6. First(N) = Range(q)
    BY <1>2, Zenon DEF Range
  <1> HIDE DEF N
  <1>7. 0 \in G
    <2>1. First(0) = {}
      OBVIOUS
    <2> HIDE DEF First, V
    <2>2. Good(0)
      BY <1>3, <1>4, <2>1, EmptyFacts, Zenon
    <2> HIDE DEF Good
    <2> QED
      BY <1>2, <2>2
  <1>8. ASSUME NEW n \in 1 .. N, n - 1 \in G PROVE n \in G
    <2>1. Good(n - 1) /\ q[n] \in X /\ n \in 0 .. N
      BY <1>2, <1>8
    <2>2. First(n) = First(n - 1) \cup {q[n]}
      BY <1>2
    <2>3. IsInjective(q) => q[n] \notin First(n - 1)
      BY <1>2 DEF IsInjective
    <2> HIDE DEF First
    <2>4. CASE q[n] \in S
      <3>1. kept[n] = Append(kept[n - 1], q[n])
        BY <1>5, <2>4, Zenon
      <3>2. /\ kept[n] \in V
            /\ Range(kept[n]) = Range(kept[n - 1]) \cup {q[n]}
            /\ IsInjective(kept[n - 1]) /\ q[n] \notin Range(kept[n - 1]) => IsInjective(kept[n])
        <4> DEFINE r == kept[n - 1]
        <4>1. r \in Seq(X)
          BY <2>1
        <4> HIDE DEF r
        <4>2. /\ Append(r, q[n]) \in Seq(X)
              /\ Range(Append(r, q[n])) = Range(r) \cup {q[n]}
              /\ IsInjective(r) /\ q[n] \notin Range(r) => IsInjective(Append(r, q[n]))
          BY <2>1, <4>1, AppendFacts, Zenon
        <4> QED
          BY <3>1, <4>2 DEF r
      <3> HIDE DEF V
      <3>3. Range(kept[n]) = First(n) \cap S
        BY <2>1, <2>2, <2>4, <3>2
      <3>4. IsInjective(q) => IsInjective(kept[n])
        BY <2>1, <2>3, <3>2
      <3> QED
        BY <2>1, <3>2, <3>3, <3>4, Zenon
    <2>5. CASE q[n] \notin S
      <3>1. kept[n] = kept[n - 1]
        BY <1>5, <2>5, Zenon
      <3> HIDE DEF V
      <3>2. First(n) \cap S = First(n - 1) \cap S
        BY <2>2, <2>5, Zenon
      <3>3. Good(n)
        BY <2>1, <3>1, <3>2, Zenon
      <3> QED
        BY <2>1, <3>3, Zenon
    <2> QED
      BY <2>4, <2>5, Zenon
  <1>9. N \in 0 .. N
    BY <1>2
  <1>10. N \in G
    <2> HIDE DEF G
    <2> QED
      BY <1>2, <1>7, <1>8, <1>9, UpTo, Zenon
  <1>11. Good(N)
    BY <1>10, Zenon
  <1> QED
    BY <1>1, <1>6, <1>11, Zenon DEF N

\* One sequence after another.
LEMMA ConcatFacts ==
    ASSUME NEW X, NEW s \in Seq(X), NEW r \in Seq(X)
    PROVE  /\ s \o r \in Seq(X)
           /\ Range(s \o r) = Range(s) \cup Range(r)
           /\ IsInjective(s) /\ IsInjective(r) /\ Range(s) \cap Range(r) = {}
                 => IsInjective(s \o r)
  <1> DEFINE p == s \o r
  <1>1. /\ p \in Seq(X) /\ Len(s) \in Nat /\ Len(r) \in Nat
        /\ DOMAIN s = 1 .. Len(s) /\ DOMAIN r = 1 .. Len(r)
        /\ DOMAIN p = 1 .. Len(s) + Len(r)
        /\ \A i \in 1 .. Len(s) : p[i] = s[i]
        /\ \A i \in 1 .. Len(r) : p[Len(s) + i] = r[i]
    OBVIOUS
  <1> HIDE DEF p
  <1>2. \A i \in 1 .. Len(s) + Len(r) : \/ i \in 1 .. Len(s)
                                        \/ \E j \in 1 .. Len(r) : i = Len(s) + j
    <2> TAKE i \in 1 .. Len(s) + Len(r)
    <2>1. i \in 1 .. Len(s) \/ (i - Len(s) \in 1 .. Len(r) /\ i = Len(s) + (i - Len(s)))
      BY <1>1
    <2> QED
      BY <2>1, Zenon
  <1>3. Range(p) = Range(s) \cup Range(r)
    <2>1. ASSUME NEW i \in 1 .. Len(s) + Len(r) PROVE p[i] \in Range(s) \cup Range(r)
      <3>1. CASE i \in 1 .. Len(s)
        BY <1>1, <3>1, Zenon DEF Range
      <3>2. CASE \E j \in 1 .. Len(r) : i = Len(s) + j
        BY <1>1, <3>2, Zenon DEF Range
      <3> QED
        BY <1>2, <3>1, <3>2, Zenon
    <2>2. ASSUME NEW i \in 1 .. Len(s) PROVE s[i] \in Range(p)
      <3>1. i \in 1 .. Len(s) + Len(r)
        BY <1>1
      <3> QED
        BY <1>1, <3>1, Zenon DEF Range
    <2>3. ASSUME NEW i \in 1 .. Len(r) PROVE r[i] \in Range(p)
      <3>1. Len(s) + i \in 1 .. Len(s) + Len(r)
        BY <1>1
      <3> QED
        BY <1>1, <3>1, Zenon DEF Range
    <2>4. /\ \A x \in Range(p) : x \in Range(s) \cup Range(r)
          /\ \A x \in Range(s) : x \in Range(p)
          /\ \A x \in Range(r) : x \in Range(p)
      BY <1>1, <2>1, <2>2, <2>3, ZenonT(40) DEF Range
    <2> QED
      BY <2>4, Zenon
  <1>4. ASSUME IsInjective(s), IsInjective(r), Range(s) \cap Range(r) = {} PROVE IsInjective(p)
    <2>1. \A i \in 1 .. Len(s), j \in 1 .. Len(r) : s[i] # r[j]
      BY <1>1, <1>4, Zenon DEF Range
    <2> SUFFICES ASSUME NEW i \in DOMAIN p, NEW j \in DOMAIN p, p[i] = p[j] PROVE i = j
      BY Zenon DEF IsInjective
    <2>2. CASE i \in 1 .. Len(s) /\ j \in 1 .. Len(s)
      BY <1>1, <1>4, <2>2 DEF IsInjective
    <2>3. CASE i \in 1 .. Len(s) /\ j \notin 1 .. Len(s)
      BY <1>1, <1>2, <2>1, <2>3
    <2>4. CASE i \notin 1 .. Len(s) /\ j \in 1 .. Len(s)
      BY <1>1, <1>2, <2>1, <2>4
    <2>5. CASE i \notin 1 .. Len(s) /\ j \notin 1 .. Len(s)
      <3>1. PICK h \in 1 .. Len(r) : i = Len(s) + h
        BY <1>1, <1>2, <2>5, Zenon
      <3>2. PICK k \in 1 .. Len(r) : j = Len(s) + k
        BY <1>1, <1>2, <2>5, Zenon
      <3>3. r[h] = r[k]
        BY <1>1, <3>1, <3>2, Zenon
      <3> QED
        BY <1>1, <1>4, <3>1, <3>2, <3>3, Zenon DEF IsInjective
    <2> QED
      BY <2>2, <2>3, <2>4, <2>5, Zenon
  <1> QED
    BY <1>1, <1>3, <1>4, Zenon DEF p

\* What is left of a sequence behind its place i.
LEMMA SuffixFacts ==
    ASSUME NEW X, NEW q \in Seq(X), NEW i \in 1 .. Len(q)
    PROVE  LET p == SubSeq(q, i + 1, Len(q)) IN
           /\ p \in Seq(X)
           /\ Range(p) = {q[h] : h \in i + 1 .. Len(q)}
           /\ IsInjective(q) => IsInjective(p)
  <1> DEFINE p == SubSeq(q, i + 1, Len(q))
  <1>1. /\ p \in Seq(X) /\ Len(q) \in Nat /\ DOMAIN q = 1 .. Len(q)
        /\ DOMAIN p = 1 .. Len(q) - i
        /\ \A h \in 1 .. Len(q) - i : p[h] = q[i + h]
    OBVIOUS
  <1> HIDE DEF p
  <1>2. ASSUME NEW h \in i + 1 .. Len(q) PROVE h - i \in 1 .. Len(q) - i /\ p[h - i] = q[h]
    BY <1>1
  <1>3. Range(p) = {q[h] : h \in i + 1 .. Len(q)}
    <2>1. \A x \in Range(p) : \E h \in i + 1 .. Len(q) : x = q[h]
      BY <1>1 DEF Range
    <2>2. \A h \in i + 1 .. Len(q) : q[h] \in Range(p)
      BY <1>1, <1>2, Zenon DEF Range
    <2> QED
      BY <2>1, <2>2
  <1>4. ASSUME IsInjective(q) PROVE IsInjective(p)
    <2> SUFFICES ASSUME NEW a \in 1 .. Len(q) - i, NEW b \in 1 .. Len(q) - i, p[a] = p[b]
                 PROVE  a = b
      BY <1>1, Zenon DEF IsInjective
    <2>1. i + a \in 1 .. Len(q) /\ i + b \in 1 .. Len(q)
      BY <1>1
    <2>2. i + a = i + b
      BY <1>1, <1>4, <2>1, Zenon DEF IsInjective
    <2> QED
      BY <1>1, <2>2
  <1>5. /\ p \in Seq(X)
        /\ Range(p) = {q[h] : h \in i + 1 .. Len(q)}
        /\ IsInjective(q) => IsInjective(p)
    BY <1>1, <1>3, <1>4, Zenon
  <1> QED
    BY <1>5 DEF p

\* The sequence of a set of at most one element.
LEMMA AsSeqFacts ==
    /\ AsSeq({}) = << >>
    /\ \A x : AsSeq({x}) = <<x>>
  BY Zenon DEF AsSeq

\* A sequence that contains nothing is empty.
LEMMA EmptyRange ==
    ASSUME NEW X, NEW q \in Seq(X), Range(q) = {}
    PROVE  q = << >>
  <1>1. Len(q) \in Nat /\ DOMAIN q = 1 .. Len(q)
    OBVIOUS
  <1>2. \A i \in 1 .. Len(q) : q[i] \in Range(q)
    BY <1>1, Zenon DEF Range
  <1>3. Len(q) = 0
    <2>1. 1 \notin 1 .. Len(q)
      BY <1>2, Zenon
    <2> QED
      BY <1>1, <2>1
  <1> QED
    BY <1>3
-----------------------------------------------------------------------------
(***************************************************************************)
(* pop_live_waiter_locked.                                                 *)
(***************************************************************************)
\* The first live waiter of a queue is the first one.
LEMMA FirstLivePlace ==
    ASSUME NEW q \in Seq(Waiters)
    PROVE  \/ FirstLive(q) = 0 /\ \A i \in 1 .. Len(q) : ~ Live(q[i])
           \/ /\ FirstLive(q) \in 1 .. Len(q)
              /\ Live(q[FirstLive(q)])
              /\ \A i \in 1 .. Len(q) : Live(q[i]) => FirstLive(q) <= i
  <1> DEFINE I == {i \in 1 .. Len(q) : Live(q[i])}
  <1>1. FirstLive(q) = IF I = {} THEN 0 ELSE CHOOSE i \in I : \A j \in I : i <= j
    BY Zenon DEF FirstLive
  <1>2. CASE I = {}
    BY <1>1, <1>2, Zenon
  <1>3. CASE I # {}
    <2>1. \A i \in 1 .. Len(q) : i \in Nat
      OBVIOUS
    <2>2. I \in SUBSET Nat
      BY <2>1, Zenon
    <2> HIDE DEF I
    <2>3. \E x \in I : \A y \in I : x <= y
      BY <1>3, <2>2, Least, Zenon
    <2>4. FirstLive(q) \in I /\ \A y \in I : FirstLive(q) <= y
      BY <1>1, <1>3, <2>3, Zenon
    <2> QED
      BY <2>4, Zenon DEF I
  <1> QED
    BY <1>2, <1>3, Zenon

\* Popping takes the first live waiter, and dead ones before it, off the queue.
LEMMA PopFacts ==
    ASSUME NEW q \in Seq(Waiters), IsInjective(q)
    PROVE  LET i == FirstLive(q)
               p == AfterFirstLive(q)
           IN  /\ p \in Seq(Waiters) /\ IsInjective(p) /\ Range(p) \subseteq Range(q)
               /\ i = 0 => \A w \in Range(q) : ~ Live(w)
               /\ i # 0 => q[i] \in Range(q) /\ Live(q[i]) /\ q[i] \notin Range(p)
               /\ \A w \in Range(q) \ Range(p) : ~ Live(w) \/ (i # 0 /\ w = q[i])
  <1> DEFINE i == FirstLive(q)
             p == AfterFirstLive(q)
             Facts == /\ p \in Seq(Waiters) /\ IsInjective(p) /\ Range(p) \subseteq Range(q)
                      /\ i = 0 => \A w \in Range(q) : ~ Live(w)
                      /\ i # 0 => q[i] \in Range(q) /\ Live(q[i]) /\ q[i] \notin Range(p)
                      /\ \A w \in Range(q) \ Range(p) : ~ Live(w) \/ (i # 0 /\ w = q[i])
  <1>1. Len(q) \in Nat /\ DOMAIN q = 1 .. Len(q)
    OBVIOUS
  <1>2. ASSUME i = 0, \A h \in 1 .. Len(q) : ~ Live(q[h]) PROVE Facts
    <2>1. p = << >>
      BY <1>2, Zenon DEF AfterFirstLive
    <2>2. << >> \in Seq(Waiters)
      OBVIOUS
    <2>3. \A w \in Range(q) : ~ Live(w)
      BY <1>1, <1>2, Zenon DEF Range
    <2> HIDE DEF i, p
    <2>4. p \in Seq(Waiters) /\ IsInjective(p) /\ Range(p) = {}
      BY <2>1, <2>2, EmptyFacts, Zenon
    <2> QED
      BY <1>2, <2>3, <2>4, Zenon
  <1>3. ASSUME i \in 1 .. Len(q), Live(q[i]),
               \A h \in 1 .. Len(q) : Live(q[h]) => i <= h
        PROVE  Facts
    <2>1. i # 0
      BY <1>3
    <2>2. p = SubSeq(q, i + 1, Len(q))
      BY <2>1, Zenon DEF AfterFirstLive
    <2> HIDE DEF i, p
    <2>3. /\ p \in Seq(Waiters) /\ IsInjective(p)
          /\ Range(p) = {q[h] : h \in i + 1 .. Len(q)}
      BY <1>3, <2>2, SuffixFacts, Zenon
    <2>4. \A h \in i + 1 .. Len(q) : h \in 1 .. Len(q) /\ h # i
      BY <1>1, <1>3
    <2>5. \A h \in 1 .. Len(q) : h \in i + 1 .. Len(q) \/ h = i \/ ~ (i <= h)
      BY <1>1, <1>3
    <2>6. /\ \A w \in Range(p) : \E h \in i + 1 .. Len(q) : w = q[h]
          /\ \A h \in i + 1 .. Len(q) : q[h] \in Range(p)
          /\ \A w \in Range(q) : \E h \in 1 .. Len(q) : w = q[h]
          /\ \A h \in 1 .. Len(q) : q[h] \in Range(q)
      BY <1>1, <2>3, Zenon DEF Range
    <2>7. Range(p) \subseteq Range(q) /\ q[i] \in Range(q)
      <3>1. ASSUME NEW w \in Range(p) PROVE w \in Range(q)
        <4>1. PICK h \in i + 1 .. Len(q) : w = q[h]
          BY <2>6, Zenon
        <4> QED
          BY <2>4, <2>6, <4>1, Zenon
      <3>2. q[i] \in Range(q)
        BY <1>3, <2>6, Zenon
      <3> QED
        BY <3>1, <3>2, Zenon
    <2>8. q[i] \notin Range(p)
      BY <1>1, <1>3, <2>4, <2>6, Zenon DEF IsInjective
    <2>9. ASSUME NEW w \in Range(q), w \notin Range(p), Live(w) PROVE w = q[i]
      <3>1. PICK h \in 1 .. Len(q) : w = q[h]
        BY <2>6, Zenon
      <3>2. i <= h
        BY <1>3, <2>9, <3>1, Zenon
      <3>3. h \notin i + 1 .. Len(q)
        BY <2>6, <2>9, <3>1, Zenon
      <3> QED
        BY <2>5, <3>1, <3>2, <3>3, Zenon
    <2> QED
      BY <1>3, <2>1, <2>3, <2>7, <2>8, <2>9, Zenon
  <1>4. Facts
    <2> HIDE DEF Facts
    <2> QED
      BY <1>2, <1>3, FirstLivePlace, Zenon
  <1> QED
    BY <1>4
-----------------------------------------------------------------------------
(***************************************************************************)
(* What the types say.                                                     *)
(***************************************************************************)
\* The elements of a sequence have its type.
LEMMA RangeType ==
    ASSUME NEW X, NEW q \in Seq(X)
    PROVE  Range(q) \subseteq X
  BY DEF Range

\* The queues of a channel record are sequences of waiters.
LEMMA QueueType ==
    ASSUME NEW k \in ChannelRecords, NEW op \in Ops
    PROVE  QueueOf(k, op) \in Seq(Waiters) /\ Range(QueueOf(k, op)) \subseteq Waiters
  <1>1. k.send_waiters \in Seq(Waiters) /\ k.recv_waiters \in Seq(Waiters)
    BY DEF ChannelRecords
  <1>2. QueueOf(k, op) \in Seq(Waiters)
    BY <1>1, Zenon DEF QueueOf
  <1> QED
    BY <1>2, RangeType, Zenon

\* The queues of the channels.
LEMMA QueuesType ==
    ASSUME Types, NEW c \in Channels, NEW op \in Ops
    PROVE  /\ chan[c] \in ChannelRecords
           /\ Queue(c, op) \in Seq(Waiters) /\ Range(Queue(c, op)) \subseteq Waiters
  <1>1. chan[c] \in ChannelRecords
    BY Zenon DEF Types
  <1> QED
    BY <1>1, QueueType, Zenon DEF Queue

\* A waiter is its three fields.
LEMMA WaiterFields ==
    ASSUME NEW w \in Waiters
    PROVE  /\ w.task \in Tasks /\ w.sel \in BOOLEAN /\ w.case \in Nat
           /\ w = [task |-> w.task, sel |-> w.sel, case |-> w.case]
  BY DEF Waiters

\* A call is a list of cases; a regular one has one case.
LEMMA CallFacts ==
    ASSUME NEW cl \in Calls
    PROVE  /\ cl.sel \in BOOLEAN /\ cl.cases \in Seq(Cases)
           /\ ~ cl.sel => DOMAIN cl.cases = {1}
           /\ \A i \in DOMAIN cl.cases : i \in Nat /\ cl.cases[i] \in Cases
           /\ \A i \in RealCases(cl) : /\ i \in DOMAIN cl.cases
                                       /\ cl.cases[i].ch \in Channels
                                       /\ cl.cases[i].op \in Ops
                                       /\ cl.cases[i] = Case(cl.cases[i].ch, cl.cases[i].op)
           /\ \A i \in DOMAIN cl.cases, c \in Channels, op \in Ops :
                 cl.cases[i] = Case(c, op) => i \in RealCases(cl)
  <1>1. /\ cl.sel \in BOOLEAN /\ cl.cases \in Seq(Cases)
        /\ ~ cl.sel => DOMAIN cl.cases = {1}
    <2>1. CASE \E c \in Channels, op \in Ops : cl = Regular(c, op)
      <3>1. PICK c \in Channels, op \in Ops : cl = Regular(c, op)
        BY <2>1, Zenon
      <3>2. cl.sel = FALSE /\ cl.cases = <<Case(c, op)>>
        BY <3>1 DEF Regular
      <3>3. Case(c, op) \in Cases
        BY DEF Case, Cases, Ops
      <3>4. cl.cases \in Seq(Cases) /\ DOMAIN cl.cases = {1}
        BY <3>2, <3>3
      <3> QED
        BY <3>2, <3>4, Zenon
    <2>2. CASE \E cases \in SelectCalls : cl = Select(cases)
      <3>1. PICK cases \in SelectCalls : cl = Select(cases)
        BY <2>2, Zenon
      <3>2. cl.sel = TRUE /\ cl.cases = cases
        BY <3>1 DEF Select
      <3>3. cases \in Seq(Cases)
        BY ChannelAssumption, Zenon
      <3> QED
        BY <3>2, <3>3, Zenon
    <2> QED
      BY <2>1, <2>2 DEF Calls
  <1>2. \A i \in DOMAIN cl.cases : i \in Nat /\ cl.cases[i] \in Cases
    BY <1>1
  <1>3. ASSUME NEW i \in RealCases(cl)
        PROVE  /\ i \in DOMAIN cl.cases
               /\ cl.cases[i].ch \in Channels /\ cl.cases[i].op \in Ops
               /\ cl.cases[i] = Case(cl.cases[i].ch, cl.cases[i].op)
    <2>1. cl.cases[i] \in Cases /\ cl.cases[i].ch # NoChannel /\ i \in DOMAIN cl.cases
      BY <1>2, <1>3, Zenon DEF RealCases
    <2> QED
      BY <2>1 DEF Cases, Case, Ops
  <1>4. ASSUME NEW i \in DOMAIN cl.cases, NEW c \in Channels, NEW op \in Ops,
               cl.cases[i] = Case(c, op)
        PROVE  i \in RealCases(cl)
    <2>1. cl.cases[i].ch = c
      BY <1>4 DEF Case
    <2> QED
      BY <2>1, ChannelAssumption, Zenon DEF RealCases
  <1> QED
    BY <1>1, <1>2, <1>3, <1>4, Zenon

\* A case names its channel and operation.
LEMMA CaseFields ==
    ASSUME NEW c, NEW op
    PROVE  /\ Case(c, op).ch = c /\ Case(c, op).op = op
           /\ \A d, o : Case(c, op) = Case(d, o) => c = d /\ op = o
  BY DEF Case

\* A waiter is linked to one queue.
LEMMA LinkedOnce ==
    ASSUME WaitersLinked, NEW c \in Channels, NEW op \in Ops, NEW d \in Channels, NEW o \in Ops,
           NEW w \in Range(Queue(c, op)), w \in Range(Queue(d, o))
    PROVE  c = d /\ op = o
  <1>1. Linked(w, c, op) /\ Linked(w, d, o)
    BY Zenon DEF WaitersLinked
  <1>2. Case(c, op) = Case(d, o)
    BY <1>1, Zenon DEF Linked
  <1> QED
    BY <1>2 DEF Case
-----------------------------------------------------------------------------
(***************************************************************************)
(* Waiters leave the queues: because they are completed, with the others   *)
(* of a select that is done left behind, or because they are dead.         *)
(***************************************************************************)
\* The waiters W are completed: they are live, each of another task, and what
\* leaves a queue is dead or belongs to one of their tasks.
Released(W) ==
    /\ \A w \in W : Live(w) /\ \E c \in Channels, op \in Ops : w \in Range(Queue(c, op))
    /\ \A w, u \in W : w.task = u.task => w = u
    /\ \A c \in Channels, op \in Ops :
          LET q == QueueOf(chan'[c], op) IN
          /\ IsInjective(q) /\ Range(q) \subseteq Range(Queue(c, op))
          /\ \A w \in Range(Queue(c, op)) \ Range(q) :
                ~ Live(w) \/ \E u \in W : u.task = w.task
          /\ \A w \in W : ~ w.sel => w \notin Range(q)

\* What Complete does to the states of the tasks.
Woken(W) ==
    /\ \A t \in Tasks : (\E w \in W : w.task = t) => tstate'[t] = "runnable"
    /\ \A t \in Tasks : (\A w \in W : w.task # t) => tstate'[t] = tstate[t]
    /\ done \subseteq done' /\ done' \subseteq Tasks
    /\ \A w \in W : w.sel => w.task \in done'
    /\ \A t \in done' \ done : \E w \in W : w.sel /\ w.task = t

\* A linked waiter, with what the invariant says of it.
LEMMA LinkedFacts ==
    ASSUME LinkInv, NEW c \in Channels, NEW op \in Ops, NEW w \in Range(Queue(c, op))
    PROVE  /\ w \in Waiters /\ w.task \in Tasks /\ w.sel \in BOOLEAN
           /\ Linked(w, c, op)
           /\ call[w.task] \in Calls /\ w.case \in RealCases(call[w.task])
           /\ w = Waiter(w.task, w.case)
  <1>1. w \in Waiters
    BY QueuesType, Zenon DEF LinkInv
  <1>2. w.task \in Tasks /\ w.sel \in BOOLEAN
        /\ w = [task |-> w.task, sel |-> w.sel, case |-> w.case]
    BY <1>1, WaiterFields, Zenon
  <1>3. Linked(w, c, op)
    BY Zenon DEF LinkInv, WaitersLinked
  <1>4. tstate[w.task] # "running"
    BY <1>3 DEF Linked
  <1>5. call[w.task] \in Calls
    BY <1>2, <1>4, Zenon DEF LinkInv, InCall
  <1>6. w.case \in RealCases(call[w.task])
    <2>1. /\ w.case \in DOMAIN call[w.task].cases
          /\ call[w.task].cases[w.case] = Case(c, op)
      BY <1>3, Zenon DEF Linked
    <2> QED
      BY <1>5, <2>1, CallFacts
  <1>7. w = Waiter(w.task, w.case)
    <2>1. w.sel = call[w.task].sel
      BY <1>3, Zenon DEF Linked
    <2> QED
      BY <1>2, <2>1, Zenon DEF Waiter
  <1> QED
    BY <1>1, <1>2, <1>3, <1>5, <1>6, <1>7, Zenon

\* Two linked waiters of a task that is in a regular operation are the same.
LEMMA RegularOnce ==
    ASSUME LinkInv, NEW c \in Channels, NEW op \in Ops, NEW w \in Range(Queue(c, op)),
           NEW d \in Channels, NEW o \in Ops, NEW u \in Range(Queue(d, o)),
           w.task = u.task, ~ w.sel
    PROVE  w = u
  <1>1. /\ call[w.task] \in Calls /\ ~ call[w.task].sel /\ w.case \in DOMAIN call[w.task].cases
        /\ w = Waiter(w.task, w.case)
    <2>1. Linked(w, c, op) /\ call[w.task] \in Calls /\ w = Waiter(w.task, w.case)
      BY LinkedFacts, Zenon
    <2> QED
      BY <2>1, Zenon DEF Linked
  <1>2. u.case \in DOMAIN call[u.task].cases /\ u = Waiter(u.task, u.case)
    <2>1. Linked(u, d, o) /\ u = Waiter(u.task, u.case)
      BY LinkedFacts, Zenon
    <2> QED
      BY <2>1, Zenon DEF Linked
  <1>3. DOMAIN call[w.task].cases = {1}
    BY <1>1, CallFacts, Zenon
  <1>4. w.case = 1 /\ u.case = 1
    BY <1>1, <1>2, <1>3, Zenon
  <1> QED
    BY <1>1, <1>2, <1>4, Zenon

\* After waiters were completed, what is linked is still linked as it should be.
LEMMA ReleaseKeepsLinks ==
    ASSUME LinkInv, NEW W, Released(W), Woken(W), call' = call
    PROVE  DoneIsWoken' /\ WaitersLinked' /\ ParkedLinked'
  <1>1. ASSUME NEW w \in W
        PROVE  /\ w.task \in Tasks /\ Live(w) /\ call[w.task].sel = w.sel
               /\ tstate[w.task] = "waiting_channel" /\ tstate'[w.task] = "runnable"
               /\ \E c \in Channels, op \in Ops : w \in Range(Queue(c, op))
    <2>1. PICK c \in Channels, op \in Ops : w \in Range(Queue(c, op))
      BY Zenon DEF Released
    <2>2. Live(w)
      BY Zenon DEF Released
    <2>3. w.task \in Tasks /\ Linked(w, c, op)
      BY <2>1, LinkedFacts, Zenon
    <2>4. tstate'[w.task] = "runnable"
      BY <2>3, Zenon DEF Woken
    <2> QED
      BY <2>1, <2>2, <2>3, <2>4, Zenon DEF Linked
  <1>2. DoneIsWoken'
    <2> SUFFICES ASSUME NEW t \in done'
                 PROVE  tstate'[t] \in {"runnable", "freed"} /\ call[t].sel
      BY Zenon DEF DoneIsWoken
    <2>1. CASE \E w \in W : w.sel /\ w.task = t
      BY <1>1, <2>1, Zenon
    <2>2. CASE t \in done
      <3>1. tstate[t] \in {"runnable", "freed"} /\ call[t].sel
        BY <2>2, Zenon DEF LinkInv, DoneIsWoken
      <3>2. t \in Tasks
        BY Zenon DEF Woken
      <3>3. tstate'[t] = "runnable" \/ tstate'[t] = tstate[t]
        BY <3>2, Zenon DEF Woken
      <3> QED
        BY <3>1, <3>3, Zenon
    <2> QED
      BY <2>1, <2>2, Zenon DEF Woken
  <1>3. WaitersLinked'
    <2> SUFFICES ASSUME NEW c \in Channels, NEW op \in Ops
                 PROVE  /\ IsInjective(QueueOf(chan'[c], op))
                        /\ \A w \in Range(QueueOf(chan'[c], op)) : Linked(w, c, op)'
      BY Zenon DEF WaitersLinked, Queue
    <2>1. IsInjective(QueueOf(chan'[c], op))
      BY Zenon DEF Released
    <2>2. ASSUME NEW w \in Range(QueueOf(chan'[c], op)) PROVE Linked(w, c, op)'
      <3>1. w \in Range(Queue(c, op))
        BY Zenon DEF Released
      <3>2. w.task \in Tasks /\ w.sel \in BOOLEAN /\ Linked(w, c, op)
        BY <3>1, LinkedFacts, Zenon
      <3>3. CASE \A u \in W : u.task # w.task
        <4>1. tstate'[w.task] = tstate[w.task]
          BY <3>2, <3>3, Zenon DEF Woken
        <4>2. Live(w)' => Live(w)
          BY Zenon DEF Woken, Live
        <4> QED
          BY <3>2, <4>1, <4>2, Zenon DEF Linked
      <3>4. CASE \E u \in W : u.task = w.task
        <4>1. PICK u \in W : u.task = w.task
          BY <3>4, Zenon
        <4>2. tstate'[w.task] = "runnable"
          BY <1>1, <4>1, Zenon
        <4>3. ~ Live(w)'
          <5>1. CASE w.sel
            <6>1. u.sel
              <7>1. call[u.task].sel = u.sel /\ call[w.task].sel = w.sel
                BY <1>1, <3>2, Zenon DEF Linked
              <7> QED
                BY <4>1, <5>1, <7>1, Zenon
            <6>2. w.task \in done'
              BY <4>1, <6>1, Zenon DEF Woken
            <6> QED
              BY <5>1, <6>2, Zenon DEF Live
          <5>2. CASE ~ w.sel
            <6>1. w = u
              <7>1. PICK d \in Channels, o \in Ops : u \in Range(Queue(d, o))
                BY <1>1, Zenon
              <7> QED
                BY <3>1, <4>1, <5>2, <7>1, RegularOnce, Zenon
            <6> QED
              BY <5>2, <6>1, Zenon DEF Released
          <5> QED
            BY <5>1, <5>2, Zenon
        <4> QED
          BY <3>2, <4>2, <4>3, Zenon DEF Linked
      <3> QED
        BY <3>3, <3>4, Zenon
    <2> QED
      BY <2>1, <2>2, Zenon
  <1>4. ParkedLinked'
    <2> SUFFICES ASSUME NEW t \in Tasks, tstate'[t] = "waiting_channel"
                 PROVE  /\ RealCases(call[t]) # {}
                        /\ \A i \in RealCases(call[t]) :
                              Waiter(t, i) \in Range(QueueOf(chan'[call[t].cases[i].ch],
                                                             call[t].cases[i].op))
      BY Zenon DEF ParkedLinked, Queue, Waiter
    <2>1. \A w \in W : w.task # t
      BY <1>1
    <2>2. tstate[t] = "waiting_channel"
      BY <2>1, Zenon DEF Woken
    <2>3. /\ RealCases(call[t]) # {}
          /\ \A i \in RealCases(call[t]) :
                Waiter(t, i) \in Range(Queue(call[t].cases[i].ch, call[t].cases[i].op))
      BY <2>2, Zenon DEF LinkInv, ParkedLinked
    <2>4. call[t] \in Calls
      BY <2>2 DEF LinkInv, InCall
    <2>5. t \notin done
      BY <2>2 DEF LinkInv, DoneIsWoken
    <2>6. ASSUME NEW i \in RealCases(call[t])
          PROVE  Waiter(t, i) \in Range(QueueOf(chan'[call[t].cases[i].ch], call[t].cases[i].op))
      <3>1. Waiter(t, i).task = t
        BY DEF Waiter
      <3>2. Live(Waiter(t, i))
        BY <2>5, <3>1, Zenon DEF Live
      <3>3. call[t].cases[i].ch \in Channels /\ call[t].cases[i].op \in Ops
        BY <2>4, CallFacts, Zenon
      <3> DEFINE c == call[t].cases[i].ch
                 op == call[t].cases[i].op
                 w == Waiter(t, i)
      <3>4. /\ w \in Range(Queue(c, op)) /\ Live(w) /\ w.task = t
            /\ c \in Channels /\ op \in Ops
        BY <2>3, <3>1, <3>2, <3>3, Zenon
      <3> HIDE DEF c, op, w
      <3>5. ~ \E u \in W : u.task = w.task
        BY <2>1, <3>4, Zenon
      <3>6. \A x \in Range(Queue(c, op)) \ Range(QueueOf(chan'[c], op)) :
                ~ Live(x) \/ \E u \in W : u.task = x.task
        BY <3>4, Zenon DEF Released
      <3>7. w \in Range(QueueOf(chan'[c], op))
        BY <3>4, <3>5, <3>6, Zenon
      <3> QED
        BY <3>7 DEF c, op, w
    <2> QED
      BY <2>3, <2>6, Zenon
  <1> QED
    BY <1>2, <1>3, <1>4, Zenon
-----------------------------------------------------------------------------
(***************************************************************************)
(* The ring buffer.                                                        *)
(***************************************************************************)
\* The values that channel record k of channel c holds, in order.
Held(k, c) == [i \in 1 .. k.len |-> k.buffer[(k.head + i - 1) % Capacity[c]]]

\* Places around a ring of N slots.
LEMMA Around ==
    ASSUME NEW N \in Nat \ {0}, NEW a \in 0 .. N - 1, NEW b \in 0 .. N
    PROVE  /\ (a + b) % N = IF a + b < N THEN a + b ELSE a + b - N
           /\ (a + b) % N \in 0 .. N - 1
  OBVIOUS

\* Walking on from the next slot is walking one slot further.
LEMMA AroundOne ==
    ASSUME NEW N \in Nat \ {0}, NEW a \in 0 .. N - 1, NEW b \in 0 .. N - 1
    PROVE  /\ (((a + b) % N) + 1) % N = (a + (b + 1)) % N
           /\ (((a + 1) % N) + b) % N = (a + (b + 1)) % N
  <1>1. b + 1 \in 0 .. N /\ 1 \in 0 .. N /\ b \in 0 .. N
    OBVIOUS
  <1> DEFINE x == (a + b) % N
             y == (a + 1) % N
  <1>2. /\ x = IF a + b < N THEN a + b ELSE a + b - N
        /\ x \in 0 .. N - 1
    BY <1>1, Around, Zenon
  <1>3. /\ y = IF a + 1 < N THEN a + 1 ELSE a + 1 - N
        /\ y \in 0 .. N - 1
    BY <1>1, Around, Zenon
  <1>4. (a + (b + 1)) % N = IF a + (b + 1) < N THEN a + (b + 1) ELSE a + (b + 1) - N
    BY <1>1, Around, Zenon
  <1> HIDE DEF x, y
  <1>5. (x + 1) % N = IF x + 1 < N THEN x + 1 ELSE x + 1 - N
    BY <1>1, <1>2, Around, Zenon
  <1>6. (y + b) % N = IF y + b < N THEN y + b ELSE y + b - N
    BY <1>1, <1>3, Around, Zenon
  <1>7. (x + 1) % N = (a + (b + 1)) % N
    BY <1>2, <1>4, <1>5
  <1>8. (y + b) % N = (a + (b + 1)) % N
    BY <1>3, <1>4, <1>6
  <1> QED
    BY <1>7, <1>8 DEF x, y

\* Different places are different slots.
LEMMA AroundInjective ==
    ASSUME NEW N \in Nat \ {0}, NEW a \in 0 .. N - 1, NEW b \in 0 .. N - 1, NEW d \in 0 .. N - 1,
           (a + b) % N = (a + d) % N
    PROVE  b = d
  <1>1. b \in 0 .. N /\ d \in 0 .. N
    OBVIOUS
  <1>2. /\ (a + b) % N = IF a + b < N THEN a + b ELSE a + b - N
        /\ (a + d) % N = IF a + d < N THEN a + d ELSE a + d - N
    BY <1>1, Around, Zenon
  <1> QED
    BY <1>2

\* A channel record is its fields.
LEMMA ChannelFields ==
    ASSUME NEW k \in ChannelRecords
    PROVE  /\ k.phase \in Phases /\ k.closed \in BOOLEAN
           /\ k.buffer \in UNION {[0 .. n - 1 -> Contained] : n \in Nat}
           /\ k.head \in Nat /\ k.tail \in Nat /\ k.len \in Nat
           /\ k.send_waiters \in Seq(Waiters) /\ k.recv_waiters \in Seq(Waiters)
           /\ k = [phase |-> k.phase, closed |-> k.closed, buffer |-> k.buffer,
                   head |-> k.head, tail |-> k.tail, len |-> k.len,
                   send_waiters |-> k.send_waiters, recv_waiters |-> k.recv_waiters]
  <1> DEFINE B == UNION {[0 .. n - 1 -> Contained] : n \in Nat}
             Q == Seq(Waiters)
  <1>1. k \in [phase : Phases, closed : BOOLEAN, buffer : B, head : Nat, tail : Nat, len : Nat,
               send_waiters : Q, recv_waiters : Q]
    BY Zenon DEF ChannelRecords
  <1> HIDE DEF B, Q
  <1>2. /\ k.phase \in Phases /\ k.closed \in BOOLEAN /\ k.buffer \in B
        /\ k.head \in Nat /\ k.tail \in Nat /\ k.len \in Nat
        /\ k.send_waiters \in Q /\ k.recv_waiters \in Q
        /\ k = [phase |-> k.phase, closed |-> k.closed, buffer |-> k.buffer,
                head |-> k.head, tail |-> k.tail, len |-> k.len,
                send_waiters |-> k.send_waiters, recv_waiters |-> k.recv_waiters]
    BY <1>1
  <1> QED
    BY <1>2, Zenon DEF B, Q

\* Values for the fields make a channel record.
LEMMA ChannelRecord ==
    ASSUME NEW phase \in Phases, NEW closed \in BOOLEAN,
           NEW buffer \in UNION {[0 .. n - 1 -> Contained] : n \in Nat},
           NEW head \in Nat, NEW tail \in Nat, NEW len \in Nat,
           NEW send_waiters \in Seq(Waiters), NEW recv_waiters \in Seq(Waiters)
    PROVE  [phase |-> phase, closed |-> closed, buffer |-> buffer,
            head |-> head, tail |-> tail, len |-> len,
            send_waiters |-> send_waiters, recv_waiters |-> recv_waiters] \in ChannelRecords
  <1> DEFINE B == UNION {[0 .. n - 1 -> Contained] : n \in Nat}
             Q == Seq(Waiters)
  <1>1. buffer \in B /\ send_waiters \in Q /\ recv_waiters \in Q
    OBVIOUS
  <1> HIDE DEF B, Q
  <1>2. [phase |-> phase, closed |-> closed, buffer |-> buffer, head |-> head, tail |-> tail,
         len |-> len, send_waiters |-> send_waiters, recv_waiters |-> recv_waiters]
          \in [phase : Phases, closed : BOOLEAN, buffer : B, head : Nat, tail : Nat, len : Nat,
               send_waiters : Q, recv_waiters : Q]
    BY <1>1
  <1> QED
    BY <1>2, Zenon DEF ChannelRecords, B, Q

\* The fields of the ring of a channel record.
LEMMA RingFields ==
    ASSUME NEW c \in Channels, NEW k \in ChannelRecords, Ring(k, c), Capacity[c] > 0
    PROVE  /\ Capacity[c] \in Nat \ {0}
           /\ k.buffer \in [0 .. Capacity[c] - 1 -> Contained]
           /\ k.head \in 0 .. Capacity[c] - 1 /\ k.len \in 0 .. Capacity[c]
           /\ k.tail = (k.head + k.len) % Capacity[c] /\ k.tail \in 0 .. Capacity[c] - 1
  <1>1. Capacity[c] \in Nat
    BY ChannelAssumption
  <1>2. /\ k.buffer \in [0 .. Capacity[c] - 1 -> Contained]
        /\ k.head \in 0 .. Capacity[c] - 1 /\ k.len \in 0 .. Capacity[c]
        /\ k.tail = (k.head + k.len) % Capacity[c] /\ k.tail \in 0 .. Capacity[c] - 1
    BY Zenon DEF Ring
  <1> QED
    BY <1>1, <1>2

\* What a ring holds is a sequence of `len' elements.
LEMMA HeldType ==
    ASSUME NEW c \in Channels, NEW k \in ChannelRecords, Ring(k, c)
    PROVE  Held(k, c) \in Seq(Contained) /\ Len(Held(k, c)) = k.len
  <1>1. Capacity[c] \in Nat /\ k.len \in 0 .. Capacity[c]
    BY ChannelAssumption, Zenon DEF Ring
  <1>2. ASSUME NEW i \in 1 .. k.len PROVE k.buffer[(k.head + i - 1) % Capacity[c]] \in Contained
    <2>1. Capacity[c] > 0
      BY <1>1
    <2>2. /\ Capacity[c] \in Nat \ {0}
          /\ k.buffer \in [0 .. Capacity[c] - 1 -> Contained]
          /\ k.head \in 0 .. Capacity[c] - 1
      BY <2>1, RingFields, Zenon
    <2>3. (k.head + i - 1) % Capacity[c] \in 0 .. Capacity[c] - 1
      <3>1. k.head + i - 1 = k.head + (i - 1) /\ i - 1 \in 0 .. Capacity[c]
        BY <1>1, <2>2
      <3>2. (k.head + (i - 1)) % Capacity[c] \in 0 .. Capacity[c] - 1
        BY <2>2, <3>1, Around, Zenon
      <3> QED
        BY <3>1, <3>2, Zenon
    <2> QED
      BY <2>2, <2>3, Zenon
  <1>3. Held(k, c) \in [1 .. k.len -> Contained]
    BY <1>2, Zenon DEF Held
  <1>4. k.len \in Nat
    BY <1>1
  <1> DEFINE h == Held(k, c)
             n == k.len
  <1>5. h \in [1 .. n -> Contained] /\ n \in Nat
    BY <1>3, <1>4, Zenon
  <1> HIDE DEF h, n
  <1>6. h \in Seq(Contained) /\ Len(h) = n
    BY <1>5
  <1> QED
    BY <1>6, Zenon DEF h, n

\* buffer_push appends to what the ring holds.
LEMMA PushAppends ==
    ASSUME NEW c \in Channels, NEW k \in ChannelRecords, Ring(k, c), k.len < Capacity[c],
           NEW v \in Values
    PROVE  LET l == buffer_push(k, c, v) IN
           /\ l \in ChannelRecords /\ Ring(l, c) /\ l.len = k.len + 1
           /\ l.phase = k.phase /\ l.closed = k.closed
           /\ l.send_waiters = k.send_waiters /\ l.recv_waiters = k.recv_waiters
           /\ Held(l, c) = Append(Held(k, c), v)
  <1> DEFINE N == Capacity[c]
             l == buffer_push(k, c, v)
  <1>1. /\ k.len \in Nat /\ Capacity[c] \in Nat
        /\ k.phase \in Phases /\ k.closed \in BOOLEAN
        /\ k.send_waiters \in Seq(Waiters) /\ k.recv_waiters \in Seq(Waiters)
    BY ChannelAssumption, ChannelFields
  <1>2. Capacity[c] > 0
    BY <1>1
  <1>3. /\ N \in Nat \ {0}
        /\ k.buffer \in [0 .. N - 1 -> Contained]
        /\ k.head \in 0 .. N - 1 /\ k.len \in 0 .. N - 1
        /\ k.tail = (k.head + k.len) % N /\ k.tail \in 0 .. N - 1
    <2>1. /\ N \in Nat \ {0}
          /\ k.buffer \in [0 .. N - 1 -> Contained]
          /\ k.head \in 0 .. N - 1 /\ k.len \in 0 .. N
          /\ k.tail = (k.head + k.len) % N /\ k.tail \in 0 .. N - 1
      BY <1>2, RingFields, Zenon
    <2>2. k.len \in 0 .. N - 1
      BY <1>1
    <2> QED
      BY <2>1, <2>2, Zenon
  <1>4. /\ l.phase = k.phase /\ l.closed = k.closed /\ l.head = k.head
        /\ l.send_waiters = k.send_waiters /\ l.recv_waiters = k.recv_waiters
        /\ l.buffer = [k.buffer EXCEPT ![k.tail] = v]
        /\ l.tail = (k.tail + 1) % N /\ l.len = k.len + 1
        /\ l = [phase |-> l.phase, closed |-> l.closed, buffer |-> l.buffer, head |-> l.head,
                tail |-> l.tail, len |-> l.len, send_waiters |-> l.send_waiters,
                recv_waiters |-> l.recv_waiters]
    <2>1. k = [phase |-> k.phase, closed |-> k.closed, buffer |-> k.buffer,
               head |-> k.head, tail |-> k.tail, len |-> k.len,
               send_waiters |-> k.send_waiters, recv_waiters |-> k.recv_waiters]
      BY ChannelFields, Zenon
    <2> HIDE DEF N
    <2>2. l = [k EXCEPT !.buffer = [@ EXCEPT ![k.tail] = v],
                        !.tail = (@ + 1) % N, !.len = @ + 1]
      BY <2>1 DEF buffer_push, N
    <2> HIDE DEF l
    <2> QED
      BY <2>1, <2>2, Zenon
  <1> HIDE DEF l, N
  <1>5. v \in Contained
    BY Zenon DEF Contained
  <1>6. /\ l.buffer \in [0 .. N - 1 -> Contained] /\ l.buffer[k.tail] = v
        /\ \A i \in 0 .. N - 1 : i # k.tail => l.buffer[i] = k.buffer[i]
    <2> DEFINE slots == 0 .. N - 1
    <2>1. k.buffer \in [slots -> Contained] /\ k.tail \in slots
      BY <1>3, Zenon
    <2>2. l.buffer = [k.buffer EXCEPT ![k.tail] = v]
      BY <1>4, Zenon
    <2> HIDE DEF slots
    <2>3. /\ l.buffer \in [slots -> Contained] /\ l.buffer[k.tail] = v
          /\ \A i \in slots : i # k.tail => l.buffer[i] = k.buffer[i]
      BY <1>5, <2>1, <2>2, Zenon
    <2> QED
      BY <2>3 DEF slots
  <1>7. l.len \in 0 .. N /\ l.len \in Nat /\ l.head \in Nat
    BY <1>3, <1>4
  <1>8. l.tail = (l.head + l.len) % N
    <2>1. (((k.head + k.len) % N) + 1) % N = (k.head + (k.len + 1)) % N
      BY <1>3, AroundOne, Zenon
    <2> QED
      BY <1>3, <1>4, <2>1, Zenon
  <1>9. l.tail \in 0 .. N - 1 /\ l.tail \in Nat
    <2>1. (k.head + l.len) % N \in 0 .. N - 1
      BY <1>3, <1>7, Around, Zenon
    <2>2. l.tail = (k.head + l.len) % N
      BY <1>4, <1>8, Zenon
    <2>3. l.tail \in 0 .. N - 1
      BY <2>1, <2>2, Zenon
    <2> QED
      BY <1>3, <2>3
  <1>10. Ring(l, c)
    <2>1. l.head \in 0 .. N - 1
      BY <1>3, <1>4, Zenon
    <2> QED
      BY <1>6, <1>7, <1>8, <1>9, <2>1, Zenon DEF Ring, N
  <1>11. l \in ChannelRecords
    <2>1. l.buffer \in UNION {[0 .. n - 1 -> Contained] : n \in Nat}
      <3>1. N \in Nat
        BY <1>3
      <3> QED
        BY <1>6, <3>1, Zenon
    <2>2. /\ l.phase \in Phases /\ l.closed \in BOOLEAN
          /\ l.send_waiters \in Seq(Waiters) /\ l.recv_waiters \in Seq(Waiters)
      BY <1>1, <1>4, Zenon
    <2>3. [phase |-> l.phase, closed |-> l.closed, buffer |-> l.buffer, head |-> l.head,
           tail |-> l.tail, len |-> l.len, send_waiters |-> l.send_waiters,
           recv_waiters |-> l.recv_waiters] \in ChannelRecords
      BY <1>7, <1>9, <2>1, <2>2, ChannelRecord, Zenon
    <2> QED
      BY <1>4, <2>3, Zenon
  <1>12. ASSUME NEW i \in 1 .. k.len
         PROVE  l.buffer[(l.head + i - 1) % N] = k.buffer[(k.head + i - 1) % N]
    <2>1. i - 1 \in 0 .. N - 1 /\ i - 1 \in 0 .. N /\ i - 1 # k.len
          /\ k.head + i - 1 = k.head + (i - 1)
      BY <1>3
    <2>2. (k.head + (i - 1)) % N \in 0 .. N - 1
      BY <1>3, <2>1, Around, Zenon
    <2>3. (k.head + (i - 1)) % N # k.tail
      BY <1>3, <2>1, AroundInjective, Zenon
    <2> QED
      BY <1>4, <1>6, <2>1, <2>2, <2>3
  <1>13. l.buffer[(l.head + (k.len + 1) - 1) % N] = v
    <2>1. k.head + (k.len + 1) - 1 = k.head + k.len
      BY <1>3
    <2> QED
      BY <1>3, <1>4, <1>6, <2>1
  <1>14. Held(l, c) = Append(Held(k, c), v)
    <2> DEFINE at(i) == l.buffer[(l.head + i - 1) % N]
    <2>1. Held(l, c) = [i \in 1 .. k.len + 1 |-> at(i)]
      BY <1>4 DEF Held, N
    <2>2. Held(k, c) = [i \in 1 .. k.len |-> at(i)]
      BY <1>12 DEF Held, N
    <2>3. at(k.len + 1) = v
      BY <1>13
    <2> HIDE DEF at
    <2> QED
      BY <1>1, <2>1, <2>2, <2>3
  <1>15. /\ l \in ChannelRecords /\ Ring(l, c) /\ l.len = k.len + 1
         /\ l.phase = k.phase /\ l.closed = k.closed
         /\ l.send_waiters = k.send_waiters /\ l.recv_waiters = k.recv_waiters
         /\ Held(l, c) = Append(Held(k, c), v)
    BY <1>4, <1>10, <1>11, <1>14, Zenon
  <1> QED
    BY <1>15 DEF l

\* buffer_pop takes the first value that the ring holds.
LEMMA PopTakesHead ==
    ASSUME NEW c \in Channels, NEW k \in ChannelRecords, Ring(k, c), k.len > 0
    PROVE  LET l == buffer_pop(k, c) IN
           /\ l \in ChannelRecords /\ Ring(l, c) /\ l.len = k.len - 1
           /\ l.phase = k.phase /\ l.closed = k.closed
           /\ l.send_waiters = k.send_waiters /\ l.recv_waiters = k.recv_waiters
           /\ Capacity[c] > 0
           /\ Held(k, c) = <<k.buffer[k.head]>> \o Held(l, c)
  <1> DEFINE N == Capacity[c]
             l == buffer_pop(k, c)
  <1>1. /\ k.len \in Nat /\ Capacity[c] \in Nat /\ k.tail \in Nat
        /\ k.phase \in Phases /\ k.closed \in BOOLEAN
        /\ k.buffer \in UNION {[0 .. n - 1 -> Contained] : n \in Nat}
        /\ k.send_waiters \in Seq(Waiters) /\ k.recv_waiters \in Seq(Waiters)
    BY ChannelAssumption, ChannelFields
  <1>2. Capacity[c] > 0
    <2>1. k.len \in 0 .. Capacity[c]
      BY Zenon DEF Ring
    <2> QED
      BY <1>1, <2>1
  <1>3. /\ N \in Nat \ {0}
        /\ k.buffer \in [0 .. N - 1 -> Contained]
        /\ k.head \in 0 .. N - 1 /\ k.len \in 0 .. N
        /\ k.tail = (k.head + k.len) % N /\ k.tail \in 0 .. N - 1
    BY <1>2, RingFields, Zenon
  <1>4. /\ l.phase = k.phase /\ l.closed = k.closed /\ l.tail = k.tail
        /\ l.send_waiters = k.send_waiters /\ l.recv_waiters = k.recv_waiters
        /\ l.buffer = k.buffer
        /\ l.head = (k.head + 1) % N /\ l.len = k.len - 1
        /\ l = [phase |-> l.phase, closed |-> l.closed, buffer |-> l.buffer, head |-> l.head,
                tail |-> l.tail, len |-> l.len, send_waiters |-> l.send_waiters,
                recv_waiters |-> l.recv_waiters]
    <2>1. k = [phase |-> k.phase, closed |-> k.closed, buffer |-> k.buffer,
               head |-> k.head, tail |-> k.tail, len |-> k.len,
               send_waiters |-> k.send_waiters, recv_waiters |-> k.recv_waiters]
      BY ChannelFields, Zenon
    <2> HIDE DEF N
    <2>2. l = [k EXCEPT !.head = (@ + 1) % N, !.len = @ - 1]
      BY Zenon DEF buffer_pop, N
    <2> HIDE DEF l
    <2> QED
      BY <2>1, <2>2, Zenon
  <1> HIDE DEF l, N
  <1>5. l.len \in 0 .. N - 1 /\ l.len \in 0 .. N /\ l.len \in Nat /\ l.len + 1 = k.len
        /\ 1 \in 0 .. N
    BY <1>1, <1>3, <1>4, SMTT(30)
  <1>6. l.head \in 0 .. N - 1 /\ l.head \in Nat
    <2>1. (k.head + 1) % N \in 0 .. N - 1
      BY <1>3, <1>5, Around, Zenon
    <2>2. l.head \in 0 .. N - 1
      BY <1>4, <2>1, Zenon
    <2> QED
      BY <1>3, <2>2
  <1>7. l.tail = (l.head + l.len) % N
    <2>1. (((k.head + 1) % N) + l.len) % N = (k.head + (l.len + 1)) % N
      BY <1>3, <1>5, AroundOne, Zenon
    <2> QED
      BY <1>3, <1>4, <1>5, <2>1, Zenon
  <1>8. Ring(l, c)
    <2>1. l.tail \in 0 .. N - 1 /\ l.buffer \in [0 .. N - 1 -> Contained]
      BY <1>3, <1>4, Zenon
    <2> QED
      BY <1>5, <1>6, <1>7, <2>1, Zenon DEF Ring, N
  <1>9. l \in ChannelRecords
    <2>1. /\ l.phase \in Phases /\ l.closed \in BOOLEAN /\ l.tail \in Nat
          /\ l.buffer \in UNION {[0 .. n - 1 -> Contained] : n \in Nat}
          /\ l.send_waiters \in Seq(Waiters) /\ l.recv_waiters \in Seq(Waiters)
      BY <1>1, <1>4, Zenon
    <2>2. [phase |-> l.phase, closed |-> l.closed, buffer |-> l.buffer, head |-> l.head,
           tail |-> l.tail, len |-> l.len, send_waiters |-> l.send_waiters,
           recv_waiters |-> l.recv_waiters] \in ChannelRecords
      BY <1>5, <1>6, <2>1, ChannelRecord, Zenon
    <2> QED
      BY <1>4, <2>2, Zenon
  <1>10. Held(k, c) = <<k.buffer[k.head]>> \o Held(l, c)
    <2> DEFINE at(i) == k.buffer[(k.head + i - 1) % N]
               from(i) == l.buffer[(l.head + i - 1) % N]
    <2>0. /\ N \in Nat /\ k.head \in Nat /\ l.head \in Nat /\ l.len \in 0 .. N - 1
          /\ k.head < N
      BY <1>3, <1>5, <1>6
    <2>1. ASSUME NEW i \in 1 .. l.len PROVE from(i) = at(i + 1)
      <3>1. /\ i - 1 \in 0 .. N - 1 /\ (i - 1) + 1 = i /\ k.head + (i + 1) - 1 = k.head + i
            /\ l.head + i - 1 = l.head + (i - 1)
        BY <2>0
      <3>2. (((k.head + 1) % N) + (i - 1)) % N = (k.head + ((i - 1) + 1)) % N
        BY <1>3, <3>1, AroundOne, Zenon
      <3>3. (l.head + i - 1) % N = (k.head + (i + 1) - 1) % N
        <4>1. (l.head + i - 1) % N = (l.head + (i - 1)) % N
          BY <3>1, Zenon
        <4>2. (l.head + (i - 1)) % N = (((k.head + 1) % N) + (i - 1)) % N
          BY <1>4, Zenon
        <4>3. (k.head + ((i - 1) + 1)) % N = (k.head + i) % N
          BY <3>1, Zenon
        <4>4. (k.head + (i + 1) - 1) % N = (k.head + i) % N
          BY <3>1, Zenon
        <4> QED
          BY <3>2, <4>1, <4>2, <4>3, <4>4, Zenon
      <3> QED
        BY <1>4, <3>3, Zenon
    <2>2. at(1) = k.buffer[k.head]
      <3>1. k.head + 1 - 1 = k.head + 0 /\ 0 \in 0 .. N
        BY <2>0
      <3>2. (k.head + 0) % N = IF k.head + 0 < N THEN k.head + 0 ELSE k.head + 0 - N
        BY <1>3, <3>1, Around, Zenon
      <3>3. k.head + 0 < N /\ k.head + 0 = k.head
        BY <2>0
      <3>4. (k.head + 1 - 1) % N = k.head
        BY <3>1, <3>2, <3>3, Zenon
      <3> QED
        BY <3>4, Zenon
    <2>3. Held(l, c) = [i \in 1 .. l.len |-> at(i + 1)]
      BY <2>1, Zenon DEF Held, N
    <2>4. Held(k, c) = [i \in 1 .. l.len + 1 |-> at(i)]
      BY <1>5, Zenon DEF Held, N
    <2> HIDE DEF at
    <2> QED
      BY <1>5, <2>2, <2>3, <2>4
  <1>11. /\ l \in ChannelRecords /\ Ring(l, c) /\ l.len = k.len - 1
         /\ l.phase = k.phase /\ l.closed = k.closed
         /\ l.send_waiters = k.send_waiters /\ l.recv_waiters = k.recv_waiters
         /\ Capacity[c] > 0
         /\ Held(k, c) = <<k.buffer[k.head]>> \o Held(l, c)
    BY <1>2, <1>4, <1>8, <1>9, <1>10, Zenon
  <1> QED
    BY <1>11 DEF l

\* Channel record k with another phase, another flag and other queues.
Updated(k, phase, closed, sq, rq) ==
    [phase |-> phase, closed |-> closed, buffer |-> k.buffer,
     head |-> k.head, tail |-> k.tail, len |-> k.len,
     send_waiters |-> sq, recv_waiters |-> rq]

\* The ways in which the operations update a channel record.
LEMMA UpdateForms ==
    ASSUME NEW k \in ChannelRecords
    PROVE  /\ \A p : [k EXCEPT !.phase = p]
                       = Updated(k, p, k.closed, k.send_waiters, k.recv_waiters)
           /\ \A q : [k EXCEPT !.send_waiters = q]
                       = Updated(k, k.phase, k.closed, q, k.recv_waiters)
           /\ \A q : [k EXCEPT !.recv_waiters = q]
                       = Updated(k, k.phase, k.closed, k.send_waiters, q)
           /\ Closed(k) = Updated(k, k.phase, TRUE, << >>, << >>)
  <1>0. k = [phase |-> k.phase, closed |-> k.closed, buffer |-> k.buffer,
             head |-> k.head, tail |-> k.tail, len |-> k.len,
             send_waiters |-> k.send_waiters, recv_waiters |-> k.recv_waiters]
    BY ChannelFields, Zenon
  <1>1. ASSUME NEW p
        PROVE  [k EXCEPT !.phase = p] = Updated(k, p, k.closed, k.send_waiters, k.recv_waiters)
    BY <1>0 DEF Updated
  <1>2. ASSUME NEW q
        PROVE  [k EXCEPT !.send_waiters = q] = Updated(k, k.phase, k.closed, q, k.recv_waiters)
    BY <1>0 DEF Updated
  <1>3. ASSUME NEW q
        PROVE  [k EXCEPT !.recv_waiters = q] = Updated(k, k.phase, k.closed, k.send_waiters, q)
    BY <1>0 DEF Updated
  <1>4. ASSUME NEW b, NEW q, NEW p
        PROVE  [k EXCEPT !.closed = b, !.send_waiters = q, !.recv_waiters = p]
                 = Updated(k, k.phase, b, q, p)
    <2> DEFINE l == [k EXCEPT !.closed = b]
               m == [l EXCEPT !.send_waiters = q]
    <2> HIDE DEF l, m
    <2>1. l = Updated(k, k.phase, b, k.send_waiters, k.recv_waiters)
      BY <1>0 DEF Updated, l
    <2>2. m = Updated(k, k.phase, b, q, k.recv_waiters)
      BY <2>1 DEF Updated, m
    <2>3. [m EXCEPT !.recv_waiters = p] = Updated(k, k.phase, b, q, p)
      BY <2>2 DEF Updated
    <2> QED
      BY <2>3, Zenon DEF l, m
  <1>5. Closed(k) = Updated(k, k.phase, TRUE, << >>, << >>)
    BY <1>4, Zenon DEF Closed
  <1> QED
    BY <1>1, <1>2, <1>3, <1>5, Zenon

\* Both queues of a channel record are replaced.
LEMMA UpdateBoth ==
    ASSUME NEW k \in ChannelRecords, NEW q, NEW p
    PROVE  /\ [k EXCEPT !.send_waiters = q, !.recv_waiters = p]
                = Updated(k, k.phase, k.closed, q, p)
           /\ [k EXCEPT !.recv_waiters = p, !.send_waiters = q]
                = Updated(k, k.phase, k.closed, q, p)
  <1> DEFINE l == [k EXCEPT !.send_waiters = q]
             m == [k EXCEPT !.recv_waiters = p]
  <1>1. l = Updated(k, k.phase, k.closed, q, k.recv_waiters)
    BY UpdateForms, Zenon
  <1>2. m = Updated(k, k.phase, k.closed, k.send_waiters, p)
    BY UpdateForms, Zenon
  <1> HIDE DEF l, m
  <1>3. [l EXCEPT !.recv_waiters = p] = Updated(k, k.phase, k.closed, q, p)
    BY <1>1 DEF Updated
  <1>4. [m EXCEPT !.send_waiters = q] = Updated(k, k.phase, k.closed, q, p)
    BY <1>2 DEF Updated
  <1> QED
    BY <1>3, <1>4, Zenon DEF l, m

\* An update leaves the ring as it was.
LEMMA UpdateFacts ==
    ASSUME NEW c \in Channels, NEW k \in ChannelRecords, NEW phase \in Phases,
           NEW closed \in BOOLEAN, NEW sq \in Seq(Waiters), NEW rq \in Seq(Waiters)
    PROVE  LET l == Updated(k, phase, closed, sq, rq) IN
           /\ l \in ChannelRecords
           /\ l.phase = phase /\ l.closed = closed
           /\ l.buffer = k.buffer /\ l.head = k.head /\ l.tail = k.tail /\ l.len = k.len
           /\ l.send_waiters = sq /\ l.recv_waiters = rq
           /\ Ring(k, c) => Ring(l, c)
           /\ Held(l, c) = Held(k, c)
  <1> DEFINE l == Updated(k, phase, closed, sq, rq)
  <1>1. /\ k.buffer \in UNION {[0 .. n - 1 -> Contained] : n \in Nat}
        /\ k.head \in Nat /\ k.tail \in Nat /\ k.len \in Nat
    BY ChannelFields, Zenon
  <1>2. l \in ChannelRecords
    BY <1>1, ChannelRecord, Zenon DEF Updated
  <1>3. /\ l.phase = phase /\ l.closed = closed
        /\ l.buffer = k.buffer /\ l.head = k.head /\ l.tail = k.tail /\ l.len = k.len
        /\ l.send_waiters = sq /\ l.recv_waiters = rq
    BY DEF Updated
  <1> HIDE DEF l
  <1>4. Ring(k, c) => Ring(l, c)
    BY <1>3 DEF Ring
  <1>5. Held(l, c) = Held(k, c)
    BY <1>3, Zenon DEF Held
  <1>6. /\ l \in ChannelRecords
        /\ l.phase = phase /\ l.closed = closed
        /\ l.buffer = k.buffer /\ l.head = k.head /\ l.tail = k.tail /\ l.len = k.len
        /\ l.send_waiters = sq /\ l.recv_waiters = rq
        /\ Ring(k, c) => Ring(l, c)
        /\ Held(l, c) = Held(k, c)
    BY <1>2, <1>3, <1>4, <1>5, Zenon
  <1> QED
    BY <1>6 DEF l

\* The same of a record known to be the result.
LEMMA UpdatedTo ==
    ASSUME NEW c \in Channels, NEW k \in ChannelRecords, NEW phase \in Phases,
           NEW closed \in BOOLEAN, NEW sq \in Seq(Waiters), NEW rq \in Seq(Waiters),
           NEW l, l = Updated(k, phase, closed, sq, rq)
    PROVE  /\ l \in ChannelRecords
           /\ Ring(k, c) => Ring(l, c)
           /\ Held(l, c) = Held(k, c)
           /\ l.buffer = k.buffer /\ l.head = k.head /\ l.len = k.len
           /\ l.phase = phase /\ l.closed = closed
           /\ l.send_waiters = sq /\ l.recv_waiters = rq
  BY UpdateFacts
-----------------------------------------------------------------------------
(***************************************************************************)
(* The attempts, one outcome after the other.                              *)
(***************************************************************************)
\* Waiter w is the one that is popped from queue q; nobody in it can be popped.
First(w, q) == w \in Range(q) /\ Live(w) /\ w = q[FirstLive(q)]
NoneLive(q) == \A w \in Range(q) : ~ Live(w)

\* Channel record k after pop_live_waiter_locked on its queue for `op'.
Popped(k, op) ==
    IF op = "send"
    THEN Updated(k, k.phase, k.closed, AfterFirstLive(k.send_waiters), k.recv_waiters)
    ELSE Updated(k, k.phase, k.closed, k.send_waiters, AfterFirstLive(k.recv_waiters))

\* A send gives its value to a waiting receiver, or puts it into the buffer.
SendHandsOver(k, c, v, r) ==
    /\ \E w : First(w, k.recv_waiters) /\ r.woken = {w}
    /\ r.k = Popped(k, "recv") /\ r.value = v

SendBuffers(k, c, v, r) ==
    /\ NoneLive(k.recv_waiters) /\ r.woken = {}
    /\ k.len < Capacity[c]
    /\ r.k = buffer_push(Popped(k, "recv"), c, v) /\ r.value = v

\* A receive takes from the buffer, without or with a sender that refills it, or
\* takes straight from a waiting sender.
RecvTakes(k, c, r) ==
    /\ k.closed \/ NoneLive(k.send_waiters)
    /\ r.woken = {}
    /\ k.len > 0
    /\ r.k = buffer_pop(IF k.closed THEN k ELSE Popped(k, "send"), c)
    /\ r.value = k.buffer[k.head]

RecvRefills(k, c, r) ==
    /\ ~ k.closed
    /\ \E w : /\ First(w, k.send_waiters) /\ r.woken = {w}
              /\ r.k = buffer_push(buffer_pop(Popped(k, "send"), c), c, Value(w.task))
    /\ k.len > 0
    /\ r.value = k.buffer[k.head]

RecvDirect(k, c, r) ==
    /\ \E w : First(w, k.send_waiters) /\ r.woken = {w} /\ r.value = Value(w.task)
    /\ ~ (k.len > 0)
    /\ r.k = Popped(k, "send")

\* What is popped, in terms of the place of the first live waiter.
LEMMA FirstOrNone ==
    ASSUME NEW q \in Seq(Waiters), IsInjective(q)
    PROVE  /\ FirstLive(q) = 0 => NoneLive(q)
           /\ FirstLive(q) # 0 => First(q[FirstLive(q)], q)
  BY PopFacts, Zenon DEF First, NoneLive

\* The attempt to send.
LEMMA SendOutcome ==
    ASSUME NEW c \in Channels, NEW k \in ChannelRecords, NEW v, IsInjective(k.recv_waiters)
    PROVE  LET r == try_send_locked(k, c, v) IN
           \/ r.st = "closed" /\ (k.closed \/ shutdown_requested)
           \/ /\ r.st = "block" /\ ~ k.closed /\ ~ shutdown_requested
              /\ NoneLive(k.recv_waiters) /\ ~ (k.len < Capacity[c])
           \/ /\ r.st = "sent" /\ ~ k.closed /\ ~ shutdown_requested
              /\ SendHandsOver(k, c, v, r) \/ SendBuffers(k, c, v, r)
  <1> DEFINE q == k.recv_waiters
             r == try_send_locked(k, c, v)
             Goal == \/ r.st = "closed" /\ (k.closed \/ shutdown_requested)
                     \/ /\ r.st = "block" /\ ~ k.closed /\ ~ shutdown_requested
                        /\ NoneLive(q) /\ ~ (k.len < Capacity[c])
                     \/ /\ r.st = "sent" /\ ~ k.closed /\ ~ shutdown_requested
                        /\ SendHandsOver(k, c, v, r) \/ SendBuffers(k, c, v, r)
  <1>1. q \in Seq(Waiters)
    BY ChannelFields, Zenon
  <1>2. [k EXCEPT !.recv_waiters = AfterFirstLive(@)] = Popped(k, "recv")
    BY UpdateForms, Zenon DEF Popped
  <1>3. ASSUME k.closed \/ shutdown_requested PROVE Goal
    <2>1. r = [st |-> "closed", k |-> k, woken |-> {}, value |-> v]
      BY <1>3, Zenon DEF try_send_locked
    <2> HIDE DEF r
    <2>2. r.st = "closed"
      BY <2>1
    <2> QED
      BY <1>3, <2>2, Zenon
  <1>4. ASSUME ~ (k.closed \/ shutdown_requested), FirstLive(q) # 0 PROVE Goal
    <2> DEFINE w == q[FirstLive(q)]
               l == Popped(k, "recv")
    <2>1. r = [st |-> "sent", k |-> l, woken |-> {w}, value |-> v]
      BY <1>2, <1>4, Zenon DEF try_send_locked
    <2>2. First(w, q)
      BY <1>1, <1>4, FirstOrNone, Zenon
    <2> HIDE DEF r, w, l
    <2>3. r.st = "sent" /\ r.k = l /\ r.woken = {w} /\ r.value = v
      BY <2>1
    <2>4. SendHandsOver(k, c, v, r)
      BY <2>2, <2>3, Zenon DEF SendHandsOver, l
    <2> QED
      BY <1>4, <2>3, <2>4, Zenon
  <1>5. ASSUME ~ (k.closed \/ shutdown_requested), FirstLive(q) = 0, k.len < Capacity[c]
        PROVE  Goal
    <2> DEFINE l == buffer_push(Popped(k, "recv"), c, v)
    <2>1. r = [st |-> "sent", k |-> l, woken |-> {}, value |-> v]
      BY <1>2, <1>5, Zenon DEF try_send_locked
    <2>2. NoneLive(q)
      BY <1>1, <1>5, FirstOrNone, Zenon
    <2> HIDE DEF r, l
    <2>3. r.st = "sent" /\ r.k = l /\ r.woken = {} /\ r.value = v
      BY <2>1
    <2>4. SendBuffers(k, c, v, r)
      BY <1>5, <2>2, <2>3, Zenon DEF SendBuffers, l
    <2> QED
      BY <1>5, <2>3, <2>4, Zenon
  <1>6. ASSUME ~ (k.closed \/ shutdown_requested), FirstLive(q) = 0, ~ (k.len < Capacity[c])
        PROVE  Goal
    <2> DEFINE l == Popped(k, "recv")
    <2>1. r = [st |-> "block", k |-> l, woken |-> {}, value |-> v]
      BY <1>2, <1>6, Zenon DEF try_send_locked
    <2>2. NoneLive(q)
      BY <1>1, <1>6, FirstOrNone, Zenon
    <2> HIDE DEF r, l
    <2>3. r.st = "block"
      BY <2>1
    <2> QED
      BY <1>6, <2>2, <2>3, Zenon
  <1>7. Goal
    BY <1>3, <1>4, <1>5, <1>6, Zenon
  <1> QED
    BY <1>7

\* The attempt to receive.
LEMMA RecvOutcome ==
    ASSUME NEW c \in Channels, NEW k \in ChannelRecords, IsInjective(k.send_waiters)
    PROVE  LET r == try_recv_locked(k, c) IN
           \/ r.st = "closed" /\ (k.closed \/ shutdown_requested)
           \/ /\ r.st = "block" /\ ~ k.closed /\ ~ shutdown_requested
              /\ NoneLive(k.send_waiters) /\ ~ (k.len > 0)
           \/ /\ r.st = "value"
              /\ RecvTakes(k, c, r) \/ RecvRefills(k, c, r) \/ RecvDirect(k, c, r)
  <1> DEFINE q == k.send_waiters
             r == try_recv_locked(k, c)
             Goal == \/ r.st = "closed" /\ (k.closed \/ shutdown_requested)
                     \/ /\ r.st = "block" /\ ~ k.closed /\ ~ shutdown_requested
                        /\ NoneLive(q) /\ ~ (k.len > 0)
                     \/ /\ r.st = "value"
                        /\ RecvTakes(k, c, r) \/ RecvRefills(k, c, r) \/ RecvDirect(k, c, r)
  <1>1. q \in Seq(Waiters)
    BY ChannelFields, Zenon
  <1>2. [k EXCEPT !.send_waiters = AfterFirstLive(@)] = Popped(k, "send")
    BY UpdateForms, Zenon DEF Popped
  <1>3. ASSUME k.len > 0, k.closed \/ FirstLive(q) = 0 PROVE Goal
    <2> DEFINE l == buffer_pop(IF k.closed THEN k ELSE Popped(k, "send"), c)
               x == k.buffer[k.head]
    <2>1. r = [st |-> "value", value |-> x, k |-> l, woken |-> {}]
      BY <1>2, <1>3, Zenon DEF try_recv_locked
    <2>2. k.closed \/ NoneLive(q)
      BY <1>1, <1>3, FirstOrNone, Zenon
    <2> HIDE DEF r, l, x
    <2>3. r.st = "value" /\ r.k = l /\ r.woken = {} /\ r.value = x
      BY <2>1
    <2>4. RecvTakes(k, c, r)
      BY <1>3, <2>2, <2>3, Zenon DEF RecvTakes, l, x
    <2> QED
      BY <2>3, <2>4, Zenon
  <1>4. ASSUME k.len > 0, ~ k.closed, FirstLive(q) # 0 PROVE Goal
    <2> DEFINE w == q[FirstLive(q)]
               l == buffer_push(buffer_pop(Popped(k, "send"), c), c, Value(w.task))
               x == k.buffer[k.head]
    <2>1. r = [st |-> "value", value |-> x, k |-> l, woken |-> {w}]
      BY <1>2, <1>4, Zenon DEF try_recv_locked
    <2>2. First(w, q)
      BY <1>1, <1>4, FirstOrNone, Zenon
    <2> HIDE DEF r, l, x, w
    <2>3. r.st = "value" /\ r.k = l /\ r.woken = {w} /\ r.value = x
      BY <2>1
    <2>4. RecvRefills(k, c, r)
      BY <1>4, <2>2, <2>3, Zenon DEF RecvRefills, l, x
    <2> QED
      BY <2>3, <2>4, Zenon
  <1>5. ASSUME ~ (k.len > 0), FirstLive(q) # 0 PROVE Goal
    <2> DEFINE w == q[FirstLive(q)]
               l == Popped(k, "send")
               x == Value(w.task)
    <2>1. r = [st |-> "value", value |-> x, k |-> l, woken |-> {w}]
      BY <1>2, <1>5, Zenon DEF try_recv_locked
    <2>2. First(w, q)
      BY <1>1, <1>5, FirstOrNone, Zenon
    <2> HIDE DEF r, l, x, w
    <2>3. r.st = "value" /\ r.k = l /\ r.woken = {w} /\ r.value = x
      BY <2>1
    <2>4. RecvDirect(k, c, r)
      BY <1>5, <2>2, <2>3, Zenon DEF RecvDirect, l, x
    <2> QED
      BY <2>3, <2>4, Zenon
  <1>6. ASSUME ~ (k.len > 0), FirstLive(q) = 0 PROVE Goal
    <2> DEFINE s == IF k.closed \/ shutdown_requested THEN "closed" ELSE "block"
               l == Popped(k, "send")
    <2>1. r = [st |-> s, value |-> NoValue, k |-> l, woken |-> {}]
      BY <1>2, <1>6, Zenon DEF try_recv_locked
    <2>2. NoneLive(q)
      BY <1>1, <1>6, FirstOrNone, Zenon
    <2> HIDE DEF r, l, s
    <2>3. r.st = s
      BY <2>1
    <2> QED
      BY <1>6, <2>2, <2>3, Zenon DEF s
  <1>7. Goal
    BY <1>3, <1>4, <1>5, <1>6, Zenon
  <1> QED
    BY <1>7
-----------------------------------------------------------------------------
(***************************************************************************)
(* Cases that are blocked, and the dead waiters that trying them drops.    *)
(***************************************************************************)
\* Channel record l is k with dead waiters dropped.
Trimmed(k, l) ==
    /\ l \in ChannelRecords
    /\ l.phase = k.phase /\ l.closed = k.closed
    /\ l.buffer = k.buffer /\ l.head = k.head /\ l.tail = k.tail /\ l.len = k.len
    /\ \A op \in Ops : \/ QueueOf(l, op) = QueueOf(k, op)
                       \/ QueueOf(l, op) = << >> /\ NoneLive(QueueOf(k, op))

\* The operations are two.
LEMMA TwoOps ==
    /\ "send" \in Ops /\ "recv" \in Ops /\ "send" # "recv"
    /\ \A op \in Ops : op = "send" \/ op = "recv"
    /\ \A k : QueueOf(k, "send") = k.send_waiters /\ QueueOf(k, "recv") = k.recv_waiters
  BY DEF Ops, QueueOf

\* The queues have no duplicates.
LEMMA QueuesInjective ==
    ASSUME LinkInv, NEW c \in Channels
    PROVE  IsInjective(chan[c].send_waiters) /\ IsInjective(chan[c].recv_waiters)
  BY TwoOps, Zenon DEF LinkInv, WaitersLinked, Queue

\* A blocked case: its channel is open, its partner's queue has no live waiter, and
\* the buffer is full for a sender, empty for a receiver.
LEMMA BlockedFacts ==
    ASSUME LinkInv, NEW t, NEW cl \in Calls, NEW i \in Blocked(t, cl)
    PROVE  LET c == cl.cases[i].ch
               op == cl.cases[i].op
           IN  /\ c \in Channels /\ op \in Ops /\ i \in RealCases(cl)
               /\ ~ chan[c].closed /\ ~ shutdown_requested
               /\ op = "send" => /\ NoneLive(chan[c].recv_waiters)
                                 /\ ~ (chan[c].len < Capacity[c])
               /\ op = "recv" => NoneLive(chan[c].send_waiters) /\ ~ (chan[c].len > 0)
  <1> DEFINE c == cl.cases[i].ch
             op == cl.cases[i].op
             k == chan[c]
  <1>1. i \in RealCases(cl) /\ Try(t, cl.cases[i], chan).st = "block"
    BY Zenon DEF Blocked
  <1>2. c \in Channels /\ op \in Ops
    BY <1>1, CallFacts, Zenon
  <1>3. k \in ChannelRecords
    BY <1>2, Zenon DEF LinkInv, Types
  <1>4. IsInjective(k.send_waiters) /\ IsInjective(k.recv_waiters)
    BY <1>2, QueuesInjective, Zenon
  <1>5. CASE op = "send"
    <2> DEFINE r == try_send_locked(k, c, Value(t))
    <2>1. r.st = "block"
      BY <1>1, <1>5, Zenon DEF Try
    <2>2. \/ r.st = "closed"
          \/ /\ r.st = "block" /\ ~ k.closed /\ ~ shutdown_requested
             /\ NoneLive(k.recv_waiters) /\ ~ (k.len < Capacity[c])
          \/ r.st = "sent"
      BY <1>2, <1>3, <1>4, SendOutcome, Zenon
    <2> HIDE DEF r
    <2>3. /\ ~ k.closed /\ ~ shutdown_requested
          /\ NoneLive(k.recv_waiters) /\ ~ (k.len < Capacity[c])
      BY <2>1, <2>2
    <2> QED
      BY <1>1, <1>2, <1>5, <2>3, TwoOps, Zenon
  <1>6. CASE op = "recv"
    <2> DEFINE r == try_recv_locked(k, c)
    <2>1. r.st = "block"
      BY <1>1, <1>6, TwoOps, Zenon DEF Try
    <2>2. \/ r.st = "closed"
          \/ /\ r.st = "block" /\ ~ k.closed /\ ~ shutdown_requested
             /\ NoneLive(k.send_waiters) /\ ~ (k.len > 0)
          \/ r.st = "value"
      BY <1>2, <1>3, <1>4, RecvOutcome, Zenon
    <2> HIDE DEF r
    <2>3. /\ ~ k.closed /\ ~ shutdown_requested
          /\ NoneLive(k.send_waiters) /\ ~ (k.len > 0)
      BY <2>1, <2>2
    <2> QED
      BY <1>1, <1>2, <1>6, <2>3, TwoOps, Zenon
  <1> QED
    BY <1>2, <1>5, <1>6, TwoOps, Zenon

\* Cases tried in vain drop dead waiters, and nothing else.
LEMMA DropDeadTrims ==
    ASSUME LinkInv, NEW t, NEW cl \in Calls, NEW tried \in SUBSET Blocked(t, cl),
           NEW c \in Channels
    PROVE  Trimmed(chan[c], DropDead(cl, tried)[c])
  <1> DEFINE k == chan[c]
             ops == {cl.cases[i].op : i \in {j \in tried : cl.cases[j].ch = c}}
             rq == IF "send" \in ops THEN << >> ELSE k.recv_waiters
             sq == IF "recv" \in ops THEN << >> ELSE k.send_waiters
             l == Updated(k, k.phase, k.closed, sq, rq)
  <1>1. k \in ChannelRecords
    BY Zenon DEF LinkInv, Types
  <1>2. DropDead(cl, tried)[c] = l
    <2>1. DropDead(cl, tried)[c] = [k EXCEPT !.recv_waiters = rq, !.send_waiters = sq]
      BY Zenon DEF DropDead
    <2> HIDE DEF sq, rq, k
    <2>2. [k EXCEPT !.recv_waiters = rq, !.send_waiters = sq]
             = Updated(k, k.phase, k.closed, sq, rq)
      BY <1>1, UpdateBoth, Zenon
    <2> QED
      BY <2>1, <2>2, Zenon DEF k
  <1>3. "send" \in ops => NoneLive(k.recv_waiters)
    <2> SUFFICES ASSUME "send" \in ops PROVE NoneLive(k.recv_waiters)
      OBVIOUS
    <2>1. PICK i \in tried : cl.cases[i].ch = c /\ cl.cases[i].op = "send"
      BY Zenon
    <2>2. i \in Blocked(t, cl)
      BY Zenon
    <2> QED
      BY <2>1, <2>2, BlockedFacts, Zenon
  <1>4. "recv" \in ops => NoneLive(k.send_waiters)
    <2> SUFFICES ASSUME "recv" \in ops PROVE NoneLive(k.send_waiters)
      OBVIOUS
    <2>1. PICK i \in tried : cl.cases[i].ch = c /\ cl.cases[i].op = "recv"
      BY Zenon
    <2>2. i \in Blocked(t, cl)
      BY Zenon
    <2> QED
      BY <2>1, <2>2, BlockedFacts, Zenon
  <1>5. << >> \in Seq(Waiters)
    OBVIOUS
  <1>6. /\ k.phase \in Phases /\ k.closed \in BOOLEAN
        /\ k.send_waiters \in Seq(Waiters) /\ k.recv_waiters \in Seq(Waiters)
    BY <1>1, ChannelFields, Zenon
  <1> HIDE DEF ops
  <1>7. /\ sq \in Seq(Waiters) /\ rq \in Seq(Waiters)
        /\ sq = k.send_waiters \/ (sq = << >> /\ NoneLive(k.send_waiters))
        /\ rq = k.recv_waiters \/ (rq = << >> /\ NoneLive(k.recv_waiters))
    BY <1>3, <1>4, <1>5, <1>6, Zenon
  <1> HIDE DEF sq, rq, l
  <1>8. /\ l \in ChannelRecords
        /\ l.phase = k.phase /\ l.closed = k.closed
        /\ l.buffer = k.buffer /\ l.head = k.head /\ l.tail = k.tail /\ l.len = k.len
        /\ l.send_waiters = sq /\ l.recv_waiters = rq
    BY <1>1, <1>6, <1>7, UpdateFacts, SMTT(30) DEF l
  <1>9. ASSUME NEW op \in Ops
        PROVE  \/ QueueOf(l, op) = QueueOf(k, op)
               \/ QueueOf(l, op) = << >> /\ NoneLive(QueueOf(k, op))
    <2>1. CASE op = "send"
      BY <1>7, <1>8, <2>1, TwoOps, Zenon
    <2>2. CASE op = "recv"
      BY <1>7, <1>8, <2>2, TwoOps, Zenon
    <2> QED
      BY <2>1, <2>2, TwoOps, Zenon
  <1> QED
    BY <1>2, <1>8, <1>9, Zenon DEF Trimmed
-----------------------------------------------------------------------------
(***************************************************************************)
(* What an attempt that succeeds does to the queues of its channel.        *)
(***************************************************************************)
\* From channel record k to l, the waiters W (at most one) are taken from the
\* queues, and dead waiters are dropped.
Takes(k, l, W) ==
    /\ l \in ChannelRecords /\ l.phase = k.phase /\ l.closed = k.closed
    /\ \A op \in Ops :
          /\ IsInjective(QueueOf(l, op)) /\ Range(QueueOf(l, op)) \subseteq Range(QueueOf(k, op))
          /\ \A w \in Range(QueueOf(k, op)) : w \in Range(QueueOf(l, op)) \/ ~ Live(w) \/ w \in W
    /\ \A w \in W :
          /\ Live(w)
          /\ \E op \in Ops : w \in Range(QueueOf(k, op)) /\ w \notin Range(QueueOf(l, op))
    /\ \A w, u \in W : w = u

\* Dropping dead waiters takes nobody.
LEMMA TrimTakes ==
    ASSUME NEW k, NEW l, Trimmed(k, l), \A op \in Ops : IsInjective(QueueOf(k, op))
    PROVE  Takes(k, l, {})
  <1>1. ASSUME NEW op \in Ops
        PROVE  /\ IsInjective(QueueOf(l, op))
               /\ Range(QueueOf(l, op)) \subseteq Range(QueueOf(k, op))
               /\ \A w \in Range(QueueOf(k, op)) :
                     w \in Range(QueueOf(l, op)) \/ ~ Live(w) \/ w \in {}
    <2>1. CASE QueueOf(l, op) = QueueOf(k, op)
      BY <2>1, Zenon
    <2>2. CASE QueueOf(l, op) = << >> /\ NoneLive(QueueOf(k, op))
      <3>1. IsInjective(QueueOf(l, op)) /\ Range(QueueOf(l, op)) = {}
        BY <2>2, EmptyFacts, Zenon
      <3> QED
        BY <2>2, <3>1, Zenon DEF NoneLive
    <2> QED
      BY <2>1, <2>2, Zenon DEF Trimmed
  <1> QED
    BY <1>1, Zenon DEF Takes, Trimmed

\* A waiter that is taken after dead waiters were dropped.
LEMMA TakesAfterTrim ==
    ASSUME NEW k, NEW l, NEW m, NEW W, Trimmed(k, l), Takes(l, m, W)
    PROVE  Takes(k, m, W)
  <1>1. ASSUME NEW op \in Ops
        PROVE  /\ Range(QueueOf(l, op)) \subseteq Range(QueueOf(k, op))
               /\ \A w \in Range(QueueOf(k, op)) : w \in Range(QueueOf(l, op)) \/ ~ Live(w)
    <2>1. CASE QueueOf(l, op) = QueueOf(k, op)
      BY <2>1, Zenon
    <2>2. CASE QueueOf(l, op) = << >> /\ NoneLive(QueueOf(k, op))
      <3>1. Range(QueueOf(l, op)) = {}
        BY <2>2, EmptyFacts, Zenon
      <3> QED
        BY <2>2, <3>1, Zenon DEF NoneLive
    <2> QED
      BY <2>1, <2>2, Zenon DEF Trimmed
  <1>2. ASSUME NEW op \in Ops
        PROVE  /\ IsInjective(QueueOf(m, op))
               /\ Range(QueueOf(m, op)) \subseteq Range(QueueOf(k, op))
               /\ \A w \in Range(QueueOf(k, op)) :
                     w \in Range(QueueOf(m, op)) \/ ~ Live(w) \/ w \in W
    BY <1>1, Zenon DEF Takes
  <1>3. ASSUME NEW w \in W
        PROVE  \E op \in Ops : w \in Range(QueueOf(k, op)) /\ w \notin Range(QueueOf(m, op))
    BY <1>1, Zenon DEF Takes
  <1>4. m \in ChannelRecords /\ m.phase = k.phase /\ m.closed = k.closed
    BY Zenon DEF Takes, Trimmed
  <1> QED
    BY <1>2, <1>3, <1>4, Zenon DEF Takes

\* The rest of the record does not matter.
LEMMA TakesQueues ==
    ASSUME NEW k, NEW l, NEW m \in ChannelRecords, NEW W, Takes(k, l, W),
           m.phase = l.phase, m.closed = l.closed,
           m.send_waiters = l.send_waiters, m.recv_waiters = l.recv_waiters
    PROVE  Takes(k, m, W)
  <1>1. \A op \in Ops : QueueOf(m, op) = QueueOf(l, op)
    BY Zenon DEF QueueOf
  <1>2. m.phase = k.phase /\ m.closed = k.closed
    BY Zenon DEF Takes
  <1> QED
    BY <1>1, <1>2, Zenon DEF Takes

\* Popping a queue leaves the ring, and takes the first live waiter.
LEMMA PoppedFacts ==
    ASSUME NEW c \in Channels, NEW k \in ChannelRecords, NEW op \in Ops,
           \A o \in Ops : IsInjective(QueueOf(k, o))
    PROVE  LET l == Popped(k, op)
               q == QueueOf(k, op)
           IN  /\ l \in ChannelRecords
               /\ Ring(k, c) => Ring(l, c)
               /\ Held(l, c) = Held(k, c)
               /\ l.buffer = k.buffer /\ l.head = k.head /\ l.len = k.len
               /\ l.phase = k.phase /\ l.closed = k.closed
               /\ NoneLive(q) => Takes(k, l, {})
               /\ \A w : First(w, q) => w \in Waiters /\ Takes(k, l, {w})
  <1> DEFINE l == Popped(k, op)
             q == QueueOf(k, op)
             p == AfterFirstLive(q)
  <1>1. /\ k.phase \in Phases /\ k.closed \in BOOLEAN
        /\ k.send_waiters \in Seq(Waiters) /\ k.recv_waiters \in Seq(Waiters)
    BY ChannelFields, Zenon
  <1>2. q \in Seq(Waiters) /\ IsInjective(q)
    BY QueueType, Zenon
  <1>3. /\ p \in Seq(Waiters) /\ IsInjective(p) /\ Range(p) \subseteq Range(q)
        /\ FirstLive(q) = 0 => NoneLive(q)
        /\ FirstLive(q) # 0 => /\ Live(q[FirstLive(q)]) /\ q[FirstLive(q)] \in Range(q)
                               /\ q[FirstLive(q)] \notin Range(p)
        /\ \A w \in Range(q) :
              w \in Range(p) \/ ~ Live(w) \/ (FirstLive(q) # 0 /\ w = q[FirstLive(q)])
    BY <1>2, PopFacts, Zenon DEF NoneLive
  <1>a. p \in Seq(Waiters)
    BY <1>3, Zenon
  <1> HIDE DEF p
  <1>4. /\ l \in ChannelRecords
        /\ Ring(k, c) => Ring(l, c)
        /\ Held(l, c) = Held(k, c)
        /\ l.buffer = k.buffer /\ l.head = k.head /\ l.len = k.len
        /\ l.phase = k.phase /\ l.closed = k.closed
        /\ QueueOf(l, op) = p
        /\ \A o \in Ops : o # op => QueueOf(l, o) = QueueOf(k, o)
    <2>1. CASE op = "send"
      <3>1. l = Updated(k, k.phase, k.closed, p, k.recv_waiters)
        BY <2>1, TwoOps, Zenon DEF Popped, p
      <3> HIDE DEF l
      <3>2. /\ l \in ChannelRecords
            /\ Ring(k, c) => Ring(l, c)
            /\ Held(l, c) = Held(k, c)
            /\ l.buffer = k.buffer /\ l.head = k.head /\ l.len = k.len
            /\ l.phase = k.phase /\ l.closed = k.closed
            /\ l.send_waiters = p /\ l.recv_waiters = k.recv_waiters
        BY <1>1, <1>a, <3>1, UpdatedTo
      <3> QED
        BY <2>1, <3>2, TwoOps, Zenon
    <2>2. CASE op = "recv"
      <3>1. l = Updated(k, k.phase, k.closed, k.send_waiters, p)
        BY <2>2, TwoOps, Zenon DEF Popped, p
      <3> HIDE DEF l
      <3>2. /\ l \in ChannelRecords
            /\ Ring(k, c) => Ring(l, c)
            /\ Held(l, c) = Held(k, c)
            /\ l.buffer = k.buffer /\ l.head = k.head /\ l.len = k.len
            /\ l.phase = k.phase /\ l.closed = k.closed
            /\ l.send_waiters = k.send_waiters /\ l.recv_waiters = p
        BY <1>1, <1>a, <3>1, UpdatedTo
      <3> QED
        BY <2>2, <3>2, TwoOps, Zenon
    <2> QED
      BY <2>1, <2>2, TwoOps, Zenon
  <1> HIDE DEF l, q
  <1>5. ASSUME NEW W, \A w \in Range(q) : w \in Range(p) \/ ~ Live(w) \/ w \in W
        PROVE  \A o \in Ops :
                  /\ IsInjective(QueueOf(l, o))
                  /\ Range(QueueOf(l, o)) \subseteq Range(QueueOf(k, o))
                  /\ \A w \in Range(QueueOf(k, o)) :
                        w \in Range(QueueOf(l, o)) \/ ~ Live(w) \/ w \in W
    <2> TAKE o \in Ops
    <2>1. CASE o = op
      BY <1>3, <1>4, <1>5, <2>1, Zenon DEF q
    <2>2. CASE o # op
      BY <1>4, <2>2, Zenon
    <2> QED
      BY <2>1, <2>2, Zenon
  <1>6. ASSUME NoneLive(q) PROVE Takes(k, l, {})
    <2>1. \A w \in Range(q) : w \in Range(p) \/ ~ Live(w) \/ w \in {}
      BY <1>6, Zenon DEF NoneLive
    <2>2. \A o \in Ops :
             /\ IsInjective(QueueOf(l, o))
             /\ Range(QueueOf(l, o)) \subseteq Range(QueueOf(k, o))
             /\ \A w \in Range(QueueOf(k, o)) :
                   w \in Range(QueueOf(l, o)) \/ ~ Live(w) \/ w \in {}
      BY <1>5, <2>1, Zenon
    <2> QED
      BY <1>4, <2>2, Zenon DEF Takes
  <1>7. ASSUME NEW w, First(w, q) PROVE w \in Waiters /\ Takes(k, l, {w})
    <2>1. w \in Range(q) /\ Live(w) /\ w = q[FirstLive(q)] /\ FirstLive(q) # 0
      BY <1>3, <1>7, Zenon DEF First, NoneLive
    <2>2. w \notin Range(p) /\ \A u \in Range(q) : u \in Range(p) \/ ~ Live(u) \/ u \in {w}
      BY <1>3, <2>1, Zenon
    <2>3. w \in Waiters
      BY <1>2, <2>1, RangeType, Zenon
    <2>4. w \in Range(QueueOf(k, op)) /\ w \notin Range(QueueOf(l, op))
      BY <1>4, <2>1, <2>2, Zenon DEF q
    <2>5. \A o \in Ops :
             /\ IsInjective(QueueOf(l, o))
             /\ Range(QueueOf(l, o)) \subseteq Range(QueueOf(k, o))
             /\ \A u \in Range(QueueOf(k, o)) :
                   u \in Range(QueueOf(l, o)) \/ ~ Live(u) \/ u \in {w}
      BY <1>5, <2>2, Zenon
    <2>6. \A u \in {w} : u = w
      BY Zenon
    <2> QED
      BY <1>4, <2>1, <2>3, <2>4, <2>5, <2>6, Zenon DEF Takes
  <1>8. /\ l \in ChannelRecords
        /\ Ring(k, c) => Ring(l, c)
        /\ Held(l, c) = Held(k, c)
        /\ l.buffer = k.buffer /\ l.head = k.head /\ l.len = k.len
        /\ l.phase = k.phase /\ l.closed = k.closed
        /\ NoneLive(q) => Takes(k, l, {})
        /\ \A w : First(w, q) => w \in Waiters /\ Takes(k, l, {w})
    BY <1>4, <1>6, <1>7, Zenon
  <1> QED
    BY <1>8 DEF l, q

\* A send to a waiting receiver leaves the buffer as it was.
LEMMA HandsOverFacts ==
    ASSUME NEW c \in Channels, NEW k \in ChannelRecords, Ring(k, c),
           \A o \in Ops : IsInjective(QueueOf(k, o)),
           NEW v \in Values, NEW r, SendHandsOver(k, c, v, r)
    PROVE  /\ Takes(k, r.k, r.woken) /\ Ring(r.k, c) /\ r.k.len = k.len
           /\ Held(r.k, c) = Held(k, c) /\ r.value = v
           /\ \E w \in Waiters : First(w, QueueOf(k, "recv")) /\ r.woken = {w}
  <1>1. PICK w : First(w, k.recv_waiters) /\ r.woken = {w}
    BY Zenon DEF SendHandsOver
  <1>2. First(w, QueueOf(k, "recv"))
    BY <1>1, TwoOps, Zenon
  <1>3. r.k = Popped(k, "recv") /\ r.value = v
    BY Zenon DEF SendHandsOver
  <1>4. /\ Ring(Popped(k, "recv"), c) /\ Popped(k, "recv").len = k.len
        /\ Held(Popped(k, "recv"), c) = Held(k, c)
        /\ w \in Waiters /\ Takes(k, Popped(k, "recv"), {w})
    BY <1>2, PoppedFacts, TwoOps, Zenon
  <1> QED
    BY <1>1, <1>2, <1>3, <1>4, Zenon

\* The buffer after a send into it.
Buffered(k, c, v, r) ==
    /\ r.k.len = k.len + 1 /\ Held(r.k, c) = Append(Held(k, c), v) /\ r.value = v
    /\ r.woken = {} /\ NoneLive(QueueOf(k, "recv")) /\ k.len < Capacity[c]

\* A send into the buffer appends its value.
LEMMA BuffersFacts ==
    ASSUME NEW c \in Channels, NEW k \in ChannelRecords, Ring(k, c),
           \A o \in Ops : IsInjective(QueueOf(k, o)),
           NEW v \in Values, NEW r, SendBuffers(k, c, v, r)
    PROVE  Takes(k, r.k, r.woken) /\ Ring(r.k, c) /\ Buffered(k, c, v, r)
  <1> DEFINE l == Popped(k, "recv")
             m == buffer_push(l, c, v)
  <1>1. /\ r.woken = {} /\ r.k = m /\ r.value = v /\ k.len < Capacity[c]
        /\ NoneLive(QueueOf(k, "recv"))
    BY TwoOps, Zenon DEF SendBuffers
  <1>2. /\ l \in ChannelRecords /\ Ring(l, c) /\ Held(l, c) = Held(k, c) /\ l.len = k.len
        /\ Takes(k, l, {})
    BY <1>1, PoppedFacts, TwoOps, Zenon
  <1>3. l.len < Capacity[c]
    BY <1>1, <1>2, Zenon
  <1> HIDE DEF l
  <1>4. /\ m \in ChannelRecords /\ Ring(m, c) /\ m.len = l.len + 1
        /\ m.phase = l.phase /\ m.closed = l.closed
        /\ m.send_waiters = l.send_waiters /\ m.recv_waiters = l.recv_waiters
        /\ Held(m, c) = Append(Held(l, c), v)
    BY <1>2, <1>3, PushAppends, Zenon
  <1> HIDE DEF m
  <1>5. Takes(k, m, {})
    BY <1>2, <1>4, TakesQueues, Zenon
  <1> QED
    BY <1>1, <1>2, <1>4, <1>5, Zenon DEF Buffered

\* A receive from the buffer takes its first value.
LEMMA RecvTakesFacts ==
    ASSUME NEW c \in Channels, NEW k \in ChannelRecords, Ring(k, c),
           \A o \in Ops : IsInjective(QueueOf(k, o)),
           NEW r, RecvTakes(k, c, r)
    PROVE  /\ Takes(k, r.k, r.woken) /\ Ring(r.k, c) /\ r.k.len = k.len - 1
           /\ Held(k, c) = <<r.value>> \o Held(r.k, c)
           /\ r.woken = {} /\ k.len > 0
           /\ k.closed \/ NoneLive(QueueOf(k, "send"))
  <1> DEFINE l == IF k.closed THEN k ELSE Popped(k, "send")
             m == buffer_pop(l, c)
  <1>1. /\ r.woken = {} /\ r.k = m /\ r.value = k.buffer[k.head] /\ k.len > 0
        /\ k.closed \/ NoneLive(QueueOf(k, "send"))
    BY TwoOps, Zenon DEF RecvTakes
  <1>2. /\ l \in ChannelRecords /\ Ring(l, c) /\ Held(l, c) = Held(k, c) /\ l.len = k.len
        /\ l.buffer = k.buffer /\ l.head = k.head
        /\ Takes(k, l, {})
    <2>1. CASE k.closed
      <3>1. l = k
        BY <2>1, Zenon
      <3>2. Takes(k, k, {})
        BY Zenon DEF Takes
      <3> QED
        BY <3>1, <3>2, Zenon
    <2>2. CASE ~ k.closed
      <3>1. l = Popped(k, "send")
        BY <2>2, Zenon
      <3> HIDE DEF l
      <3> QED
        BY <1>1, <2>2, <3>1, PoppedFacts, TwoOps, Zenon
    <2> QED
      BY <2>1, <2>2, Zenon
  <1> HIDE DEF l
  <1>3. l.len > 0
    BY <1>1, <1>2, Zenon
  <1>4. /\ m \in ChannelRecords /\ Ring(m, c) /\ m.len = l.len - 1
        /\ m.phase = l.phase /\ m.closed = l.closed
        /\ m.send_waiters = l.send_waiters /\ m.recv_waiters = l.recv_waiters
        /\ Held(l, c) = <<l.buffer[l.head]>> \o Held(m, c)
    BY <1>2, <1>3, PopTakesHead, Zenon
  <1> HIDE DEF m
  <1>5. Takes(k, m, {})
    BY <1>2, <1>4, TakesQueues, Zenon
  <1> QED
    BY <1>1, <1>2, <1>4, <1>5, Zenon

\* The buffer after a receive whose slot a waiting sender filled.
Refilled(k, c, r) ==
    /\ r.k.len = k.len /\ k.len > 0 /\ ~ k.closed
    /\ \E w \in Waiters : \E h \in Seq(Contained) :
          /\ First(w, QueueOf(k, "send")) /\ r.woken = {w}
          /\ Held(k, c) = <<r.value>> \o h
          /\ Held(r.k, c) = Append(h, Value(w.task))

\* A receive whose slot in the buffer a waiting sender fills.
LEMMA RecvRefillsFacts ==
    ASSUME LinkInv, NEW c \in Channels, NEW k \in ChannelRecords, Ring(k, c),
           \A o \in Ops : IsInjective(QueueOf(k, o)),
           NEW r, RecvRefills(k, c, r)
    PROVE  Takes(k, r.k, r.woken) /\ Ring(r.k, c) /\ Refilled(k, c, r)
  <1>1. PICK w : /\ First(w, k.send_waiters) /\ r.woken = {w}
                 /\ r.k = buffer_push(buffer_pop(Popped(k, "send"), c), c, Value(w.task))
    BY Zenon DEF RecvRefills
  <1>2. r.value = k.buffer[k.head] /\ k.len > 0 /\ ~ k.closed
    BY Zenon DEF RecvRefills
  <1> DEFINE l == Popped(k, "send")
             m == buffer_pop(l, c)
             n == buffer_push(m, c, Value(w.task))
  <1>3. First(w, QueueOf(k, "send"))
    BY <1>1, TwoOps, Zenon
  <1>4. /\ l \in ChannelRecords /\ Ring(l, c) /\ Held(l, c) = Held(k, c) /\ l.len = k.len
        /\ l.buffer = k.buffer /\ l.head = k.head
        /\ w \in Waiters /\ Takes(k, l, {w})
    BY <1>3, PoppedFacts, TwoOps, Zenon
  <1>5. r.k = n
    BY <1>1, Zenon
  <1> HIDE DEF l
  <1>6. l.len > 0
    BY <1>2, <1>4, Zenon
  <1>7. /\ m \in ChannelRecords /\ Ring(m, c) /\ m.len = l.len - 1
        /\ m.phase = l.phase /\ m.closed = l.closed
        /\ m.send_waiters = l.send_waiters /\ m.recv_waiters = l.recv_waiters
        /\ Held(l, c) = <<l.buffer[l.head]>> \o Held(m, c)
    BY <1>4, <1>6, PopTakesHead, Zenon
  <1> HIDE DEF m
  <1>8. m.len < Capacity[c] /\ m.len + 1 = k.len
    <2>1. l.len \in 0 .. Capacity[c] /\ Capacity[c] \in Nat
      BY <1>4, ChannelAssumption, Zenon DEF Ring
    <2> QED
      BY <1>4, <1>7, <2>1
  <1>9. Value(w.task) \in Values
    <2>1. w.task \in Tasks
      BY <1>4, WaiterFields, Zenon
    <2> QED
      BY <2>1 DEF LinkInv, Types, Value, Values
  <1>10. /\ n \in ChannelRecords /\ Ring(n, c) /\ n.len = m.len + 1
         /\ n.phase = m.phase /\ n.closed = m.closed
         /\ n.send_waiters = m.send_waiters /\ n.recv_waiters = m.recv_waiters
         /\ Held(n, c) = Append(Held(m, c), Value(w.task))
    BY <1>7, <1>8, <1>9, PushAppends, Zenon
  <1> HIDE DEF n
  <1>11. Takes(k, m, {w})
    BY <1>4, <1>7, TakesQueues, Zenon
  <1>12. Takes(k, n, {w})
    BY <1>10, <1>11, TakesQueues, Zenon
  <1>13. /\ Held(k, c) = <<r.value>> \o Held(m, c)
         /\ Held(r.k, c) = Append(Held(m, c), Value(w.task))
    BY <1>2, <1>4, <1>5, <1>7, <1>10, Zenon
  <1>14. \E u \in Waiters : \E h \in Seq(Contained) :
            /\ First(u, QueueOf(k, "send")) /\ r.woken = {u}
            /\ Held(k, c) = <<r.value>> \o h
            /\ Held(r.k, c) = Append(h, Value(u.task))
    <2>1. Held(m, c) \in Seq(Contained)
      BY <1>7, HeldType, Zenon
    <2> QED
      BY <1>1, <1>3, <1>4, <1>13, <2>1, Zenon
  <1> QED
    BY <1>1, <1>2, <1>5, <1>8, <1>10, <1>12, <1>14, Zenon DEF Refilled

\* A receive straight from a waiting sender.
LEMMA RecvDirectFacts ==
    ASSUME NEW c \in Channels, NEW k \in ChannelRecords, Ring(k, c),
           \A o \in Ops : IsInjective(QueueOf(k, o)),
           NEW r, RecvDirect(k, c, r)
    PROVE  /\ Takes(k, r.k, r.woken) /\ Ring(r.k, c) /\ r.k.len = k.len
           /\ Held(r.k, c) = Held(k, c) /\ ~ (k.len > 0)
           /\ \E w \in Waiters : /\ First(w, QueueOf(k, "send")) /\ r.woken = {w}
                                 /\ r.value = Value(w.task)
  <1>1. PICK w : First(w, k.send_waiters) /\ r.woken = {w} /\ r.value = Value(w.task)
    BY Zenon DEF RecvDirect
  <1>2. First(w, QueueOf(k, "send"))
    BY <1>1, TwoOps, Zenon
  <1>3. r.k = Popped(k, "send") /\ ~ (k.len > 0)
    BY Zenon DEF RecvDirect
  <1>4. /\ Ring(Popped(k, "send"), c) /\ Popped(k, "send").len = k.len
        /\ Held(Popped(k, "send"), c) = Held(k, c)
        /\ w \in Waiters /\ Takes(k, Popped(k, "send"), {w})
    BY <1>2, PoppedFacts, TwoOps, Zenon
  <1> QED
    BY <1>1, <1>2, <1>3, <1>4, Zenon

\* An attempt that succeeds, of an operation with value v on channel record k.
Succeeds(k, c, op, v, r) ==
    \/ /\ op = "send" /\ ~ k.closed /\ ~ shutdown_requested
       /\ SendHandsOver(k, c, v, r) \/ SendBuffers(k, c, v, r)
    \/ /\ op = "recv"
       /\ RecvTakes(k, c, r) \/ RecvRefills(k, c, r) \/ RecvDirect(k, c, r)

\* A channel record whose dead waiters were dropped.
LEMMA TrimmedFacts ==
    ASSUME LinkInv, NEW c \in Channels, NEW k, Trimmed(chan[c], k)
    PROVE  /\ k \in ChannelRecords /\ Ring(k, c) /\ \A o \in Ops : IsInjective(QueueOf(k, o))
           /\ Held(k, c) = Held(chan[c], c) /\ k.len = chan[c].len /\ k.closed = chan[c].closed
  <1>1. \A o \in Ops : IsInjective(QueueOf(chan[c], o))
    BY Zenon DEF LinkInv, WaitersLinked, Queue
  <1>2. Takes(chan[c], k, {})
    BY <1>1, TrimTakes, Zenon
  <1>3. Ring(chan[c], c)
    BY Zenon DEF LinkInv, Types
  <1>4. Ring(k, c)
    BY <1>3 DEF Trimmed, Ring
  <1>5. Held(k, c) = Held(chan[c], c) /\ k.len = chan[c].len /\ k.closed = chan[c].closed
    BY Zenon DEF Trimmed, Held
  <1> QED
    BY <1>2, <1>4, <1>5, Zenon DEF Takes

\* It takes at most one live waiter, and the ring stays one.
LEMMA AttemptTakes ==
    ASSUME LinkInv, NEW c \in Channels, NEW op \in Ops, NEW v \in Values,
           NEW k, Trimmed(chan[c], k), NEW r, Succeeds(k, c, op, v, r)
    PROVE  Takes(chan[c], r.k, r.woken) /\ Ring(r.k, c)
  <1>1. k \in ChannelRecords /\ Ring(k, c) /\ \A o \in Ops : IsInjective(QueueOf(k, o))
    BY TrimmedFacts, Zenon
  <1>2. Takes(k, r.k, r.woken) /\ Ring(r.k, c)
    <2>1. CASE SendHandsOver(k, c, v, r)
      BY <1>1, <2>1, HandsOverFacts, Zenon
    <2>2. CASE SendBuffers(k, c, v, r)
      BY <1>1, <2>2, BuffersFacts, Zenon
    <2>3. CASE RecvTakes(k, c, r)
      BY <1>1, <2>3, RecvTakesFacts, Zenon
    <2>4. CASE RecvRefills(k, c, r)
      BY <1>1, <2>4, RecvRefillsFacts, Zenon
    <2>5. CASE RecvDirect(k, c, r)
      BY <1>1, <2>5, RecvDirectFacts, Zenon
    <2> QED
      BY <2>1, <2>2, <2>3, <2>4, <2>5, Zenon DEF Succeeds
  <1> QED
    BY <1>2, TakesAfterTrim, Zenon

\* A task's next value is a value.
LEMMA ValueType ==
    ASSUME Types, NEW t \in Tasks
    PROVE  Value(t) \in Values
  BY DEF Types, Value, Values

\* Nobody live in a queue, before and after dead waiters are dropped.
LEMMA TrimmedNoneLive ==
    ASSUME NEW k, NEW l, Trimmed(k, l), NEW op \in Ops, NoneLive(QueueOf(l, op))
    PROVE  NoneLive(QueueOf(k, op))
  BY Zenon DEF Trimmed

\* A case that is not blocked is closed or succeeds, and no case tried in vain before
\* it changes that.
LEMMA AttemptOutcome ==
    ASSUME LinkInv, NEW t \in Tasks, NEW cl \in Calls, NEW i \in RealCases(cl) \ Blocked(t, cl),
           NEW tried \in SUBSET Blocked(t, cl)
    PROVE  LET ks == DropDead(cl, tried)
               r == Try(t, cl.cases[i], ks)
               c == cl.cases[i].ch
               op == cl.cases[i].op
           IN  /\ c \in Channels /\ op \in Ops /\ Trimmed(chan[c], ks[c])
               /\ r.st = "closed" \/ Succeeds(ks[c], c, op, Value(t), r)
  <1> DEFINE c == cl.cases[i].ch
             op == cl.cases[i].op
             k == chan[c]
             l == DropDead(cl, tried)[c]
             r == Try(t, cl.cases[i], DropDead(cl, tried))
             v == Value(t)
  <1>1. i \in RealCases(cl) /\ Try(t, cl.cases[i], chan).st # "block"
    BY Zenon DEF Blocked
  <1>2. c \in Channels /\ op \in Ops
    BY <1>1, CallFacts, Zenon
  <1>3. k \in ChannelRecords
    BY <1>2, Zenon DEF LinkInv, Types
  <1>4. IsInjective(k.send_waiters) /\ IsInjective(k.recv_waiters)
    BY <1>2, QueuesInjective, Zenon
  <1>5. Trimmed(k, l)
    BY <1>2, DropDeadTrims, Zenon
  <1>6. l \in ChannelRecords /\ l.closed = k.closed /\ l.len = k.len
    BY <1>5, Zenon DEF Trimmed
  <1>7. IsInjective(l.send_waiters) /\ IsInjective(l.recv_waiters)
    <2>1. \A o \in Ops : IsInjective(QueueOf(k, o))
      BY <1>4, TwoOps, Zenon
    <2>2. Takes(k, l, {})
      BY <1>5, <2>1, TrimTakes, Zenon
    <2> QED
      BY <2>2, TwoOps, Zenon DEF Takes
  <1>8. /\ NoneLive(l.send_waiters) => NoneLive(k.send_waiters)
        /\ NoneLive(l.recv_waiters) => NoneLive(k.recv_waiters)
    <2>1. \A o \in Ops : NoneLive(QueueOf(l, o)) => NoneLive(QueueOf(k, o))
      BY <1>5, TrimmedNoneLive, Zenon
    <2> QED
      BY <2>1, TwoOps, Zenon
  <1>9. CASE op = "send"
    <2> DEFINE x == try_send_locked(k, c, v)
    <2>1. r = try_send_locked(l, c, v) /\ x.st # "block"
      BY <1>1, <1>9, Zenon DEF Try
    <2>2. ASSUME NoneLive(k.recv_waiters), ~ (k.len < Capacity[c]), ~ k.closed, ~ shutdown_requested
          PROVE  FALSE
      <3>1. \/ x.st = "closed" /\ (k.closed \/ shutdown_requested)
            \/ x.st = "block"
            \/ x.st = "sent" /\ (SendHandsOver(k, c, v, x) \/ SendBuffers(k, c, v, x))
        BY <1>2, <1>3, <1>4, SendOutcome, Zenon
      <3> HIDE DEF x
      <3>2. ~ SendHandsOver(k, c, v, x) /\ ~ SendBuffers(k, c, v, x)
        BY <2>2, Zenon DEF SendHandsOver, SendBuffers, First, NoneLive
      <3> QED
        BY <2>1, <2>2, <3>1, <3>2, Zenon
    <2>3. \/ r.st = "closed"
          \/ /\ ~ l.closed /\ ~ shutdown_requested
             /\ NoneLive(l.recv_waiters) /\ ~ (l.len < Capacity[c])
          \/ /\ ~ l.closed /\ ~ shutdown_requested
             /\ SendHandsOver(l, c, v, r) \/ SendBuffers(l, c, v, r)
      <3> DEFINE y == try_send_locked(l, c, v)
      <3>1. \/ y.st = "closed"
            \/ /\ ~ l.closed /\ ~ shutdown_requested
               /\ NoneLive(l.recv_waiters) /\ ~ (l.len < Capacity[c])
            \/ /\ ~ l.closed /\ ~ shutdown_requested
               /\ SendHandsOver(l, c, v, y) \/ SendBuffers(l, c, v, y)
        BY <1>2, <1>6, <1>7, SendOutcome, ZenonT(40)
      <3>2. r = y
        BY <2>1, Zenon
      <3> HIDE DEF r, y, l, c, v
      <3> QED
        BY <3>1, <3>2, Zenon
    <2> HIDE DEF r, l, k, c, v
    <2>4. r.st = "closed" \/ Succeeds(l, c, op, v, r)
      BY <1>6, <1>8, <1>9, <2>2, <2>3, Zenon DEF Succeeds
    <2> QED
      BY <1>2, <1>5, <2>4, Zenon DEF r, l, k, c, v
  <1>10. CASE op = "recv"
    <2> DEFINE x == try_recv_locked(k, c)
    <2>1. r = try_recv_locked(l, c) /\ x.st # "block"
      BY <1>1, <1>10, TwoOps, Zenon DEF Try
    <2>2. ASSUME NoneLive(k.send_waiters), ~ (k.len > 0), ~ k.closed, ~ shutdown_requested
          PROVE  FALSE
      <3>1. \/ x.st = "closed" /\ (k.closed \/ shutdown_requested)
            \/ x.st = "block"
            \/ x.st = "value" /\ (RecvTakes(k, c, x) \/ RecvRefills(k, c, x) \/ RecvDirect(k, c, x))
        BY <1>2, <1>3, <1>4, RecvOutcome, Zenon
      <3> HIDE DEF x
      <3>2. ~ RecvTakes(k, c, x) /\ ~ RecvRefills(k, c, x) /\ ~ RecvDirect(k, c, x)
        BY <2>2, Zenon DEF RecvTakes, RecvRefills, RecvDirect, First, NoneLive
      <3> QED
        BY <2>1, <2>2, <3>1, <3>2, Zenon
    <2>3. \/ r.st = "closed"
          \/ /\ ~ l.closed /\ ~ shutdown_requested
             /\ NoneLive(l.send_waiters) /\ ~ (l.len > 0)
          \/ RecvTakes(l, c, r) \/ RecvRefills(l, c, r) \/ RecvDirect(l, c, r)
      <3> DEFINE y == try_recv_locked(l, c)
      <3>1. \/ y.st = "closed"
            \/ /\ ~ l.closed /\ ~ shutdown_requested
               /\ NoneLive(l.send_waiters) /\ ~ (l.len > 0)
            \/ RecvTakes(l, c, y) \/ RecvRefills(l, c, y) \/ RecvDirect(l, c, y)
        BY <1>2, <1>6, <1>7, RecvOutcome, Zenon
      <3>2. r = y
        BY <2>1, Zenon
      <3> HIDE DEF r, y, l, c
      <3> QED
        BY <3>1, <3>2, Zenon
    <2> HIDE DEF r, l, k, c, v
    <2>4. r.st = "closed" \/ Succeeds(l, c, op, v, r)
      BY <1>6, <1>8, <1>10, <2>2, <2>3, Zenon DEF Succeeds
    <2> QED
      BY <1>2, <1>5, <2>4, Zenon DEF r, l, k, c, v
  <1> QED
    BY <1>2, <1>9, <1>10, TwoOps, Zenon
-----------------------------------------------------------------------------
(***************************************************************************)
(* Steps that complete waiters.                                            *)
(***************************************************************************)
\* complete_waiter_locked: who is woken, and with what.
LEMMA CompleteFacts ==
    ASSUME Types, NEW W, \A w \in W : w \in Waiters,
           \A w, u \in W : w.task = u.task => w = u,
           NEW status \in Statuses, NEW value \in Contained, Complete(W, status, value)
    PROVE  /\ Woken(W)
           /\ tstate' \in [Tasks -> TaskStates] /\ done' \in SUBSET Tasks
           /\ result' \in [Tasks -> Results]
           /\ \A t \in Tasks : (\A w \in W : w.task # t) => result'[t] = result[t]
           /\ \A w \in W : result'[w.task] = [case |-> w.case, status |-> status, value |-> value]
  <1> DEFINE of(t) == {w \in W : w.task = t}
             told(t) == [case |-> (CHOOSE w \in of(t) : TRUE).case,
                         status |-> status, value |-> value]
  <1>1. /\ tstate' = [t \in Tasks |-> IF of(t) = {} THEN tstate[t] ELSE "runnable"]
        /\ done' = done \cup {w.task : w \in {u \in W : u.sel}}
        /\ result' = [t \in Tasks |-> IF of(t) = {} THEN result[t] ELSE told(t)]
    BY Zenon DEF Complete
  <1>2. \A w \in W : w.task \in Tasks /\ w.case \in Nat
    BY WaiterFields, Zenon
  <1>3. /\ \A t \in Tasks : (\A w \in W : w.task # t) => of(t) = {}
        /\ \A w \in W : of(w.task) # {} /\ \A u \in of(w.task) : u = w
        /\ \A t \in Tasks : of(t) # {} => \E w \in W : w.task = t
    BY Zenon
  <1>4. \A w \in W : told(w.task) = [case |-> w.case, status |-> status, value |-> value]
    <2> TAKE w \in W
    <2> DEFINE x == CHOOSE u \in of(w.task) : TRUE
    <2>1. x \in of(w.task)
      BY <1>3, Zenon
    <2>2. x = w
      BY <1>3, <2>1, Zenon
    <2> QED
      BY <2>2, Zenon
  <1> HIDE DEF of, told
  <1>5. /\ \A t \in Tasks : (\A w \in W : w.task # t) =>
                               tstate'[t] = tstate[t] /\ result'[t] = result[t]
        /\ \A w \in W : /\ tstate'[w.task] = "runnable"
                        /\ result'[w.task] = [case |-> w.case, status |-> status, value |-> value]
    <2>1. ASSUME NEW t \in Tasks, \A w \in W : w.task # t
          PROVE  tstate'[t] = tstate[t] /\ result'[t] = result[t]
      BY <1>1, <1>3, <2>1, Zenon
    <2>2. ASSUME NEW w \in W
          PROVE  /\ tstate'[w.task] = "runnable"
                 /\ result'[w.task] = [case |-> w.case, status |-> status, value |-> value]
      BY <1>1, <1>2, <1>3, <1>4, <2>2, Zenon
    <2> QED
      BY <2>1, <2>2, Zenon
  <1>6. Woken(W)
    <2>1. /\ \A t \in Tasks : (\E w \in W : w.task = t) => tstate'[t] = "runnable"
          /\ \A t \in Tasks : (\A w \in W : w.task # t) => tstate'[t] = tstate[t]
      BY <1>5, Zenon
    <2>2. done \subseteq Tasks
      BY Zenon DEF Types
    <2>3. /\ done \subseteq done' /\ done' \subseteq Tasks
          /\ \A w \in W : w.sel => w.task \in done'
          /\ \A t \in done' \ done : \E w \in W : w.sel /\ w.task = t
      BY <1>1, <1>2, <2>2, Zenon
    <2> QED
      BY <2>1, <2>3, Zenon DEF Woken
  <1>7. \A w \in W : [case |-> w.case, status |-> status, value |-> value] \in Results
    <2> TAKE w \in W
    <2>1. w.case \in Nat
      BY <1>2, Zenon
    <2> QED
      BY <2>1 DEF Results
  <1>8. \A t \in Tasks : tstate'[t] \in TaskStates /\ result'[t] \in Results
    <2> TAKE t \in Tasks
    <2>1. tstate[t] \in TaskStates /\ result[t] \in Results /\ "runnable" \in TaskStates
      BY DEF Types, TaskStates
    <2>2. CASE \A w \in W : w.task # t
      BY <1>5, <2>1, <2>2, Zenon
    <2>3. CASE \E w \in W : w.task = t
      BY <1>5, <1>7, <2>1, <2>3, Zenon
    <2> QED
      BY <2>2, <2>3, Zenon
  <1>9. tstate' \in [Tasks -> TaskStates] /\ result' \in [Tasks -> Results]
    <2>1. tstate' = [t \in Tasks |-> tstate'[t]] /\ result' = [t \in Tasks |-> result'[t]]
      BY <1>1, Zenon
    <2> QED
      BY <1>8, <2>1, Zenon
  <1>10. done' \in SUBSET Tasks
    BY <1>6, Zenon DEF Woken
  <1> QED
    BY <1>5, <1>6, <1>9, <1>10, Zenon

\* What is taken from the queues of one channel is released.
LEMMA TakesReleases ==
    ASSUME LinkInv, NEW c \in Channels, NEW W, Takes(chan[c], chan'[c], W),
           \A d \in Channels : d # c => Takes(chan[d], chan'[d], {})
    PROVE  Released(W)
  <1>1. ASSUME NEW w \in W
        PROVE  /\ Live(w)
               /\ \E o \in Ops : w \in Range(Queue(c, o)) /\ w \notin Range(QueueOf(chan'[c], o))
    BY Zenon DEF Takes, Queue
  <1>2. \A w, u \in W : w = u
    BY Zenon DEF Takes
  <1>3. ASSUME NEW d \in Channels, NEW op \in Ops
        PROVE  LET q == QueueOf(chan'[d], op) IN
               /\ IsInjective(q) /\ Range(q) \subseteq Range(Queue(d, op))
               /\ \A w \in Range(Queue(d, op)) \ Range(q) :
                     ~ Live(w) \/ \E u \in W : u.task = w.task
               /\ \A w \in W : ~ w.sel => w \notin Range(q)
    <2> DEFINE q == QueueOf(chan'[d], op)
    <2>1. /\ IsInjective(q) /\ Range(q) \subseteq Range(Queue(d, op))
          /\ \A w \in Range(Queue(d, op)) : w \in Range(q) \/ ~ Live(w) \/ w \in W
      <3>1. CASE d = c
        BY <3>1, Zenon DEF Takes, Queue
      <3>2. CASE d # c
        BY <3>2, Zenon DEF Takes, Queue
      <3> QED
        BY <3>1, <3>2, Zenon
    <2>2. ASSUME NEW w \in W PROVE w \notin Range(q)
      <3>1. PICK o \in Ops : w \in Range(Queue(c, o)) /\ w \notin Range(QueueOf(chan'[c], o))
        BY <1>1, Zenon
      <3>2. SUFFICES ASSUME w \in Range(q) PROVE FALSE
        BY Zenon
      <3>3. w \in Range(Queue(d, op))
        BY <2>1, <3>2, Zenon
      <3>4. c = d /\ o = op
        BY <3>1, <3>3, LinkedOnce, Zenon DEF LinkInv
      <3> QED
        BY <3>1, <3>2, <3>4, Zenon
    <2> QED
      BY <2>1, <2>2, Zenon
  <1> QED
    BY <1>1, <1>2, <1>3, Zenon DEF Released

\* Dropping dead waiters everywhere releases nobody.
LEMMA TrimsRelease ==
    ASSUME \A d \in Channels : Takes(chan[d], chan'[d], {})
    PROVE  Released({})
  BY Zenon DEF Released, Takes, Queue

\* A step that releases waiters and changes no flag keeps the links.
LEMMA ReleaseStep ==
    ASSUME LinkInv, NEW W, Released(W), Woken(W),
           UNCHANGED <<call, channel_registry, shutdown_requested>>,
           \A c \in Channels : /\ chan'[c] \in ChannelRecords
                               /\ chan'[c].phase = chan[c].phase
                               /\ chan'[c].closed = chan[c].closed
    PROVE  DoneIsWoken' /\ WaitersLinked' /\ ParkedLinked' /\ Drained' /\ Registered'
  <1>1. DoneIsWoken' /\ WaitersLinked' /\ ParkedLinked'
    BY ReleaseKeepsLinks, Zenon
  <1>2. Drained'
    <2> SUFFICES ASSUME NEW c \in Channels, NEW op \in Ops,
                        shutdown_requested \/ chan[c].closed \/ chan[c].phase # "live"
                 PROVE  QueueOf(chan'[c], op) = << >>
      BY Zenon DEF Drained, Queue
    <2>1. Queue(c, op) = << >>
      BY Zenon DEF LinkInv, Drained
    <2>2. Range(QueueOf(chan'[c], op)) \subseteq Range(Queue(c, op))
      BY Zenon DEF Released
    <2>3. Range(QueueOf(chan'[c], op)) = {}
      BY <2>1, <2>2, EmptyFacts, Zenon
    <2>4. QueueOf(chan'[c], op) \in Seq(Waiters)
      BY QueueType, Zenon
    <2> QED
      BY <2>3, <2>4, EmptyRange, Zenon
  <1>3. Registered'
    BY Zenon DEF LinkInv, Registered
  <1> QED
    BY <1>1, <1>2, <1>3, Zenon
-----------------------------------------------------------------------------
(***************************************************************************)
(* A case that fires.                                                      *)
(***************************************************************************)
\* Task t's `op' on channel c succeeds: k is the channel after the cases that were
\* tried in vain, r the outcome of the attempt.
FiredBy(t, c, op, k, r) ==
    /\ tstate[t] = "running"
    /\ op = "send" => sends[t] < MaxSends
    /\ Trimmed(chan[c], k) /\ Succeeds(k, c, op, Value(t), r)
    /\ chan' = [d \in Channels |-> chan'[d]] /\ chan'[c] = r.k
    /\ \A d \in Channels : d # c => Trimmed(chan[d], chan'[d])
    /\ Complete(r.woken, IF op = "send" THEN "value" ELSE "sent",
                IF op = "send" THEN r.value ELSE NoValue)
    /\ accepted' = [accepted EXCEPT ![c] = @ \o
                       (IF op = "send" THEN <<r.value>>
                        ELSE AsSeq({Value(w.task) : w \in r.woken}))]
    /\ received' = [received EXCEPT ![c] = @ \o
                       (IF op = "recv" \/ r.woken # {} THEN <<r.value>> ELSE << >>)]
    /\ sends' = [sends EXCEPT ![t] = @ + (IF op = "send" THEN 1 ELSE 0)]
    /\ UNCHANGED <<channel_registry, shutdown_requested, call>>

\* A call that does not park and transfers something.
LEMMA FiresEffect ==
    ASSUME LinkInv, NEW t \in Tasks, NEW cl \in Calls, Fires(t, cl)
    PROVE  \E c \in Channels, op \in Ops : \E k, r : FiredBy(t, c, op, k, r)
  <1>1. PICK i \in RealCases(cl) \ Blocked(t, cl), tried \in SUBSET Blocked(t, cl) :
           LET ks == DropDead(cl, tried)
               r == Try(t, cl.cases[i], ks)
           IN  r.st # "closed" /\ Fire(t, cl.cases[i], r, ks)
    BY Zenon DEF Fires
  <1> DEFINE ks == DropDead(cl, tried)
             r == Try(t, cl.cases[i], ks)
             c == cl.cases[i].ch
             op == cl.cases[i].op
             k == ks[c]
  <1>2. r.st # "closed" /\ Fire(t, cl.cases[i], r, ks)
    BY <1>1, Zenon
  <1>3. c \in Channels /\ op \in Ops /\ Trimmed(chan[c], k) /\ Succeeds(k, c, op, Value(t), r)
    BY <1>2, AttemptOutcome, Zenon
  <1>4. \A d \in Channels : Trimmed(chan[d], ks[d])
    BY DropDeadTrims, Zenon
  <1>5. ks = [d \in Channels |-> ks[d]]
    BY Zenon DEF DropDead
  <1>6. tstate[t] = "running" /\ (op = "send" => sends[t] < MaxSends)
    <2>1. CanCall(t, cl)
      BY Zenon DEF Fires
    <2>2. cl.cases[i] \in Range(cl.cases)
      BY CallFacts, Zenon DEF Range
    <2> QED
      BY <2>1, <2>2, Zenon DEF CanCall
  <1>7. UNCHANGED <<channel_registry, shutdown_requested, call>>
    BY Zenon DEF Fires
  <1> HIDE DEF r, ks
  <1>8. /\ chan' = [d \in Channels |-> chan'[d]] /\ chan'[c] = r.k
        /\ \A d \in Channels : d # c => chan'[d] = ks[d]
    <2>1. chan' = [ks EXCEPT ![c] = r.k]
      BY <1>2, Zenon DEF Fire
    <2> QED
      BY <1>3, <1>5, <2>1
  <1>9. \A d \in Channels : d # c => Trimmed(chan[d], chan'[d])
    BY <1>4, <1>8, Zenon
  <1>10. FiredBy(t, c, op, k, r)
    BY <1>2, <1>3, <1>6, <1>7, <1>8, <1>9, Zenon DEF FiredBy, Fire
  <1> QED
    BY <1>3, <1>10, Zenon

\* The channel and the queues after it.
LEMMA FiredTakes ==
    ASSUME LinkInv, NEW t \in Tasks, NEW c \in Channels, NEW op \in Ops, NEW k, NEW r,
           FiredBy(t, c, op, k, r)
    PROVE  /\ Takes(chan[c], chan'[c], r.woken) /\ Ring(chan'[c], c)
           /\ \A d \in Channels : d # c => Takes(chan[d], chan'[d], {}) /\ Ring(chan'[d], d)
           /\ Released(r.woken)
           /\ \A w \in r.woken : w \in Waiters
           /\ \A w, u \in r.woken : w = u
  <1>1. Value(t) \in Values
    BY ValueType, Zenon DEF LinkInv
  <1>2. Takes(chan[c], chan'[c], r.woken) /\ Ring(chan'[c], c)
    BY <1>1, AttemptTakes, Zenon DEF FiredBy
  <1>3. ASSUME NEW d \in Channels, d # c PROVE Takes(chan[d], chan'[d], {}) /\ Ring(chan'[d], d)
    <2>1. Trimmed(chan[d], chan'[d])
      BY <1>3, Zenon DEF FiredBy
    <2>2. \A o \in Ops : IsInjective(QueueOf(chan[d], o))
      BY Zenon DEF LinkInv, WaitersLinked, Queue
    <2>3. Ring(chan[d], d)
      BY Zenon DEF LinkInv, Types
    <2>4. Ring(chan'[d], d)
      BY <2>1, <2>3 DEF Trimmed, Ring
    <2> QED
      BY <2>1, <2>2, <2>4, TrimTakes, Zenon
  <1>4. Released(r.woken)
    BY <1>2, <1>3, TakesReleases, Zenon
  <1>5. \A w \in r.woken : w \in Waiters
    <2> TAKE w \in r.woken
    <2>1. PICK o \in Ops : w \in Range(QueueOf(chan[c], o))
      BY <1>2, Zenon DEF Takes
    <2> QED
      BY <2>1, QueuesType, Zenon DEF LinkInv, Queue
  <1>6. \A w, u \in r.woken : w = u
    BY <1>2, Zenon DEF Takes
  <1> QED
    BY <1>2, <1>3, <1>4, <1>5, <1>6, Zenon

\* The waiters that are completed, the results they find.
LEMMA FiredWakes ==
    ASSUME LinkInv, NEW t \in Tasks, NEW c \in Channels, NEW op \in Ops, NEW k, NEW r,
           FiredBy(t, c, op, k, r)
    PROVE  LET status == IF op = "send" THEN "value" ELSE "sent"
               value == IF op = "send" THEN r.value ELSE NoValue
           IN  /\ Woken(r.woken)
               /\ tstate' \in [Tasks -> TaskStates] /\ done' \in SUBSET Tasks
               /\ result' \in [Tasks -> Results]
               /\ \A x \in Tasks : (\A w \in r.woken : w.task # x) => result'[x] = result[x]
               /\ \A w \in r.woken :
                     result'[w.task] = [case |-> w.case, status |-> status, value |-> value]
  <1> DEFINE status == IF op = "send" THEN "value" ELSE "sent"
             value == IF op = "send" THEN r.value ELSE NoValue
  <1>1. status \in Statuses
    BY DEF Statuses
  <1>2. value \in Contained
    <2>1. Value(t) \in Values
      BY ValueType, Zenon DEF LinkInv
    <2>2. op = "send" => r.value = Value(t)
      BY TwoOps, Zenon DEF FiredBy, Succeeds, SendHandsOver, SendBuffers
    <2> QED
      BY <2>1, <2>2, Zenon DEF Contained
  <1>3. Complete(r.woken, status, value)
    BY Zenon DEF FiredBy
  <1> HIDE DEF status, value
  <1>4. Types
    BY Zenon DEF LinkInv
  <1>5. \A w \in r.woken : w \in Waiters
    BY FiredTakes, Zenon
  <1>6. \A w, u \in r.woken : w.task = u.task => w = u
    BY FiredTakes, Zenon
  <1>7. /\ Woken(r.woken)
        /\ tstate' \in [Tasks -> TaskStates] /\ done' \in SUBSET Tasks
        /\ result' \in [Tasks -> Results]
        /\ \A x \in Tasks : (\A w \in r.woken : w.task # x) => result'[x] = result[x]
        /\ \A w \in r.woken :
              result'[w.task] = [case |-> w.case, status |-> status, value |-> value]
    BY <1>1, <1>2, <1>3, <1>4, <1>5, <1>6, CompleteFacts
  <1> QED
    BY <1>7 DEF status, value

\* A case that fires keeps the links.
LEMMA FiredKeepsLinks ==
    ASSUME LinkInv, NEW t \in Tasks, NEW c \in Channels, NEW op \in Ops, NEW k, NEW r,
           FiredBy(t, c, op, k, r)
    PROVE  LinkInv'
  <1>1. /\ Takes(chan[c], chan'[c], r.woken) /\ Ring(chan'[c], c)
        /\ \A d \in Channels : d # c => Takes(chan[d], chan'[d], {}) /\ Ring(chan'[d], d)
        /\ Released(r.woken)
    BY FiredTakes, Zenon
  <1>2. /\ Woken(r.woken)
        /\ tstate' \in [Tasks -> TaskStates] /\ done' \in SUBSET Tasks
        /\ result' \in [Tasks -> Results]
    BY FiredWakes, Zenon
  <1>3. ASSUME NEW d \in Channels
        PROVE  /\ chan'[d] \in ChannelRecords /\ Ring(chan'[d], d)
               /\ chan'[d].phase = chan[d].phase /\ chan'[d].closed = chan[d].closed
    <2>1. \E W : Takes(chan[d], chan'[d], W)
      BY <1>1, Zenon
    <2>2. Ring(chan'[d], d)
      BY <1>1, Zenon
    <2> QED
      BY <2>1, <2>2, Zenon DEF Takes
  <1>4. UNCHANGED <<call, channel_registry, shutdown_requested>>
    BY Zenon DEF FiredBy
  <1>5. DoneIsWoken' /\ WaitersLinked' /\ ParkedLinked' /\ Drained' /\ Registered'
    BY <1>1, <1>2, <1>3, <1>4, ReleaseStep, Zenon
  <1>6. /\ \A x \in Tasks : x # t => sends'[x] = sends[x]
        /\ sends' \in [Tasks -> 0 .. MaxSends]
    <2>1. sends \in [Tasks -> 0 .. MaxSends] /\ MaxSends \in Nat
      BY ChannelAssumption, Zenon DEF LinkInv, Types
    <2>2. sends[t] + (IF op = "send" THEN 1 ELSE 0) \in 0 .. MaxSends
      <3>1. op = "send" => sends[t] < MaxSends
        BY Zenon DEF FiredBy
      <3> QED
        BY <2>1, <3>1
    <2>3. sends' = [sends EXCEPT ![t] = sends[t] + (IF op = "send" THEN 1 ELSE 0)]
      BY Zenon DEF FiredBy
    <2> QED
      BY <2>1, <2>2, <2>3, Zenon
  <1>7. Types'
    <2>1. chan' \in [Channels -> ChannelRecords]
      <3>1. chan' = [d \in Channels |-> chan'[d]]
        BY Zenon DEF FiredBy
      <3> QED
        BY <1>3, <3>1, Zenon
    <2>2. channel_registry \in Seq(Channels) /\ shutdown_requested \in BOOLEAN
          /\ call \in [Tasks -> Calls \cup {NoCall}]
      BY Zenon DEF LinkInv, Types
    <2>3. /\ (channel_registry \in Seq(Channels))' /\ (shutdown_requested \in BOOLEAN)'
          /\ (call \in [Tasks -> Calls \cup {NoCall}])'
      BY <1>4, <2>2, Zenon
    <2> QED
      BY <1>2, <1>3, <1>6, <2>1, <2>3, Zenon DEF Types
  <1>8. InCall'
    <2> SUFFICES ASSUME NEW x \in Tasks, tstate'[x] # "running"
                 PROVE  /\ call[x] \in Calls
                        /\ tstate'[x] # "freed"
                              /\ (\E case \in Range(call[x].cases) : case.op = "send")
                              => sends'[x] < MaxSends
      BY <1>4, Zenon DEF InCall
    <2>1. tstate[x] # "running" /\ (tstate'[x] # "freed" => tstate[x] # "freed")
      <3>1. CASE \E w \in r.woken : w.task = x
        <4>1. PICK w \in r.woken : w.task = x
          BY <3>1, Zenon
        <4>2. PICK d \in Channels, o \in Ops : w \in Range(Queue(d, o))
          BY <1>1, Zenon DEF Released
        <4>3. Live(w)
          BY <1>1, Zenon DEF Released
        <4>4. tstate[x] = "waiting_channel"
          BY <4>1, <4>2, <4>3, LinkedFacts, Zenon DEF Linked
        <4> QED
          BY <4>4
      <3>2. CASE \A w \in r.woken : w.task # x
        BY <1>2, <3>2, Zenon DEF Woken
      <3> QED
        BY <3>1, <3>2, Zenon
    <2>2. x # t
      BY <2>1, Zenon DEF FiredBy
    <2>3. sends'[x] = sends[x]
      BY <1>6, <2>2, Zenon
    <2> QED
      BY <2>1, <2>3, Zenon DEF LinkInv, InCall
  <1> QED
    BY <1>5, <1>7, <1>8, Zenon DEF LinkInv
-----------------------------------------------------------------------------
(***************************************************************************)
(* Calls that transfer nothing.                                            *)
(***************************************************************************)
\* A call that returns without a transfer drops dead waiters at most.
LEMMA NoTransferTrims ==
    ASSUME LinkInv, NEW t \in Tasks, NEW cl \in Calls, NoTransfer(t, cl)
    PROVE  /\ chan' = [c \in Channels |-> chan'[c]]
           /\ \A c \in Channels : Trimmed(chan[c], chan'[c])
           /\ UNCHANGED <<channel_registry, shutdown_requested, taskVars, sends,
                          accepted, received>>
  <1>1. PICK tried \in SUBSET Blocked(t, cl) : chan' = DropDead(cl, tried)
    BY Zenon DEF NoTransfer
  <1>2. \A c \in Channels : Trimmed(chan[c], DropDead(cl, tried)[c])
    BY DropDeadTrims, Zenon
  <1>3. DropDead(cl, tried) = [c \in Channels |-> DropDead(cl, tried)[c]]
    BY Zenon DEF DropDead
  <1>4. UNCHANGED <<channel_registry, shutdown_requested, taskVars, sends, accepted, received>>
    BY Zenon DEF NoTransfer
  <1> QED
    BY <1>1, <1>2, <1>3, <1>4, Zenon

\* Dropping dead waiters keeps the links.
LEMMA TrimsKeepLinks ==
    ASSUME LinkInv, chan' = [c \in Channels |-> chan'[c]],
           \A c \in Channels : Trimmed(chan[c], chan'[c]),
           UNCHANGED <<channel_registry, shutdown_requested, taskVars, sends>>
    PROVE  LinkInv'
  <1>1. \A d \in Channels : Takes(chan[d], chan'[d], {})
    <2> TAKE d \in Channels
    <2>1. \A o \in Ops : IsInjective(QueueOf(chan[d], o))
      BY Zenon DEF LinkInv, WaitersLinked, Queue
    <2> QED
      BY <2>1, TrimTakes, Zenon
  <1>2. \A d \in Channels : /\ chan'[d] \in ChannelRecords
                            /\ chan'[d].phase = chan[d].phase /\ chan'[d].closed = chan[d].closed
    BY Zenon DEF Trimmed
  <1>3. UNCHANGED <<tstate, call, done, result, sends, channel_registry, shutdown_requested>>
    BY Zenon DEF taskVars
  <1>4. Woken({})
    BY <1>3, Zenon DEF Woken, LinkInv, Types
  <1>5. DoneIsWoken' /\ WaitersLinked' /\ ParkedLinked' /\ Drained' /\ Registered'
    <2>1. Released({})
      BY <1>1, TrimsRelease, Zenon
    <2> QED
      BY <1>2, <1>3, <1>4, <2>1, ReleaseStep, Zenon
  <1>6. \A d \in Channels : Ring(chan'[d], d)
    <2> TAKE d \in Channels
    <2>1. Ring(chan[d], d) /\ Trimmed(chan[d], chan'[d])
      BY Zenon DEF LinkInv, Types
    <2> QED
      BY <2>1 DEF Trimmed, Ring
  <1>7. Types'
    <2>1. chan' \in [Channels -> ChannelRecords]
      BY <1>2, Zenon
    <2>2. Types
      BY Zenon DEF LinkInv
    <2> QED
      BY <1>3, <1>6, <2>1, <2>2, Zenon DEF Types
  <1>8. InCall'
    BY <1>3, Zenon DEF LinkInv, InCall
  <1> QED
    BY <1>5, <1>7, <1>8, Zenon DEF LinkInv
-----------------------------------------------------------------------------
(***************************************************************************)
(* A task parks.                                                           *)
(***************************************************************************)
\* The waiters of call cl of task t for its cases on channel c.
NewOf(t, cl, c, op) ==
    {[task |-> t, sel |-> cl.sel, case |-> i] :
        i \in {j \in DOMAIN cl.cases : cl.cases[j] = Case(c, op)}}

\* The waiters that a call adds to a queue: one for each of its cases there.
LEMMA NewWaitersFacts ==
    ASSUME NEW t \in Tasks, NEW cl \in Calls, NEW c, NEW op
    PROVE  LET q == NewWaiters(t, cl, c, op) IN
           q \in Seq(Waiters) /\ IsInjective(q) /\ Range(q) = NewOf(t, cl, c, op)
  <1> DEFINE s == [i \in 1 .. Len(cl.cases) |-> i]
             is == {i \in DOMAIN cl.cases : cl.cases[i] = Case(c, op)}
             kept == Keep(s, is)
             W(i) == [task |-> t, sel |-> cl.sel, case |-> i]
             q == [j \in DOMAIN kept |-> W(kept[j])]
  <1>1. cl.sel \in BOOLEAN /\ cl.cases \in Seq(Cases)
    BY CallFacts, Zenon
  <1>2. Len(cl.cases) \in Nat /\ DOMAIN cl.cases = 1 .. Len(cl.cases)
    BY <1>1
  <1>3. s \in Seq(Nat) /\ IsInjective(s) /\ Range(s) = DOMAIN cl.cases
    <2>1. DOMAIN s = 1 .. Len(cl.cases) /\ \A i \in 1 .. Len(cl.cases) : s[i] = i
      BY Zenon
    <2>2. s \in Seq(Nat)
      BY <1>2
    <2> HIDE DEF s
    <2> QED
      BY <1>2, <2>1, <2>2, Zenon DEF IsInjective, Range
  <1> HIDE DEF s
  <1>4. kept \in Seq(Nat) /\ IsInjective(kept) /\ Range(kept) = Range(s) \cap is
    BY <1>3, KeepFacts, Zenon
  <1>5. Range(kept) = is
    BY <1>3, <1>4, Zenon
  <1>6. q = NewWaiters(t, cl, c, op)
    BY Zenon DEF NewWaiters, s
  <1> HIDE DEF kept, is
  <1>7. DOMAIN kept = 1 .. Len(kept) /\ Len(kept) \in Nat
    BY <1>4
  <1>8. \A j \in DOMAIN kept : kept[j] \in is /\ kept[j] \in Nat
    <2>1. \A j \in DOMAIN kept : kept[j] \in Range(kept)
      BY Zenon DEF Range
    <2>2. Range(kept) \subseteq Nat
      BY <1>4, RangeType, Zenon
    <2> QED
      BY <1>5, <2>1, <2>2, Zenon
  <1>9. \A i \in Nat : W(i) \in Waiters /\ W(i).case = i
    BY <1>1 DEF Waiters
  <1> HIDE DEF W
  <1>10. q \in Seq(Waiters)
    <2>1. q \in [1 .. Len(kept) -> Waiters]
      BY <1>7, <1>8, <1>9, Zenon
    <2> HIDE DEF q
    <2> QED
      BY <1>7, <2>1
  <1>11. DOMAIN q = DOMAIN kept /\ \A j \in DOMAIN kept : q[j] = W(kept[j])
    BY Zenon
  <1> HIDE DEF q
  <1>12. IsInjective(q)
    <2> SUFFICES ASSUME NEW a \in DOMAIN kept, NEW b \in DOMAIN kept, q[a] = q[b] PROVE a = b
      BY <1>11, Zenon DEF IsInjective
    <2>1. kept[a] = kept[b]
      BY <1>8, <1>9, <1>11, Zenon
    <2> QED
      BY <1>4, <2>1, Zenon DEF IsInjective
  <1>13. Range(q) = {W(i) : i \in is}
    <2>1. \A x \in Range(q) : \E i \in is : x = W(i)
      BY <1>8, <1>11, Zenon DEF Range
    <2>2. \A i \in is : \E j \in DOMAIN kept : i = kept[j]
      BY <1>5, Zenon DEF Range
    <2>3. \A i \in is : W(i) \in Range(q)
      BY <1>11, <2>2, Zenon DEF Range
    <2> QED
      BY <2>1, <2>3, Zenon
  <1>14. /\ NewWaiters(t, cl, c, op) \in Seq(Waiters) /\ IsInjective(NewWaiters(t, cl, c, op))
         /\ Range(NewWaiters(t, cl, c, op)) = {W(i) : i \in is}
    BY <1>6, <1>10, <1>12, <1>13, Zenon
  <1>15. {W(i) : i \in is} = NewOf(t, cl, c, op)
    BY Zenon DEF W, is, NewOf
  <1> QED
    BY <1>14, <1>15, Zenon

\* Queue p is queue q with dead waiters dropped and the waiters N added.
Adds(q, p, N) ==
    /\ p \in Seq(Waiters) /\ IsInjective(p)
    /\ Range(p) \subseteq Range(q) \cup N /\ N \subseteq Range(p)
    /\ \A w \in Range(q) : w \in Range(p) \/ ~ Live(w)

\* What a task that parks does to the channels.
LEMMA ParksEffect ==
    ASSUME LinkInv, NEW t \in Tasks, NEW cl \in Calls, Parks(t, cl), NEW c \in Channels
    PROVE  /\ chan'[c] \in ChannelRecords /\ Ring(chan'[c], c)
           /\ Held(chan'[c], c) = Held(chan[c], c) /\ chan'[c].len = chan[c].len
           /\ chan'[c].phase = chan[c].phase /\ chan'[c].closed = chan[c].closed
           /\ \A op \in Ops :
                 Adds(QueueOf(chan[c], op), QueueOf(chan'[c], op), NewOf(t, cl, c, op))
  <1> DEFINE k == DropDead(cl, RealCases(cl))[c]
             new(op) == NewWaiters(t, cl, c, op)
             sq == k.send_waiters \o new("send")
             rq == k.recv_waiters \o new("recv")
             l == Updated(k, k.phase, k.closed, sq, rq)
  <1>1. Trimmed(chan[c], k)
    <2>1. RealCases(cl) \in SUBSET Blocked(t, cl)
      BY Zenon DEF Parks
    <2> QED
      BY <2>1, DropDeadTrims, Zenon
  <1>2. k \in ChannelRecords
    BY <1>1, Zenon DEF Trimmed
  <1>3. chan'[c] = [k EXCEPT !.send_waiters = sq, !.recv_waiters = rq]
    BY Zenon DEF Parks
  <1> HIDE DEF k
  <1>4. chan'[c] = l
    BY <1>2, <1>3, UpdateBoth, ZenonT(40)
  <1>5. \A op \in Ops : QueueOf(k, op) \in Seq(Waiters)
    BY <1>2, QueueType, Zenon
  <1>6. \A op : /\ new(op) \in Seq(Waiters) /\ IsInjective(new(op))
                /\ Range(new(op)) = NewOf(t, cl, c, op)
    BY NewWaitersFacts, Zenon
  <1> HIDE DEF new
  <1>7. sq \in Seq(Waiters) /\ rq \in Seq(Waiters)
    BY <1>5, <1>6, TwoOps, ConcatFacts, Zenon
  <1>8. k.phase \in Phases /\ k.closed \in BOOLEAN
    BY <1>2, ChannelFields, Zenon
  <1> HIDE DEF sq, rq
  <1>9. /\ l \in ChannelRecords
        /\ l.phase = k.phase /\ l.closed = k.closed /\ l.len = k.len
        /\ l.send_waiters = sq /\ l.recv_waiters = rq
        /\ Ring(k, c) => Ring(l, c)
        /\ Held(l, c) = Held(k, c)
    BY <1>2, <1>7, <1>8, UpdateFacts
  <1> HIDE DEF l
  <1>10. Ring(k, c)
    <2>1. Ring(chan[c], c)
      BY Zenon DEF LinkInv, Types
    <2> QED
      BY <1>1, <2>1, Zenon DEF Trimmed, Ring
  <1>11. Held(k, c) = Held(chan[c], c)
    BY <1>1, Zenon DEF Trimmed, Held
  <1>12. ASSUME NEW op \in Ops
         PROVE  Adds(QueueOf(chan[c], op), QueueOf(chan'[c], op), NewOf(t, cl, c, op))
    <2> DEFINE q == QueueOf(chan[c], op)
               p == QueueOf(k, op)
               N == NewOf(t, cl, c, op)
    <2>1. QueueOf(chan'[c], op) = p \o new(op)
      BY <1>4, <1>9, TwoOps, Zenon DEF sq, rq
    <2>2. /\ p \in Seq(Waiters) /\ new(op) \in Seq(Waiters)
          /\ IsInjective(new(op)) /\ Range(new(op)) = N
      BY <1>5, <1>6, Zenon
    <2>3. p = q \/ (p = << >> /\ NoneLive(q))
      BY <1>1, Zenon DEF Trimmed
    <2>4. IsInjective(p) /\ Range(p) \subseteq Range(q)
      <3>1. IsInjective(q)
        BY Zenon DEF LinkInv, WaitersLinked, Queue
      <3> QED
        BY <2>3, <3>1, EmptyFacts, Zenon
    <2>5. Range(p) \cap N = {}
      <3>1. \A w \in Range(q) : w.task # t
        <4> TAKE w \in Range(q)
        <4>1. Linked(w, c, op)
          BY LinkedFacts, Zenon DEF Queue
        <4>2. tstate[t] = "running"
          BY Zenon DEF Parks, CanCall
        <4> QED
          BY <4>1, <4>2 DEF Linked
      <3>2. \A w \in N : w.task = t
        BY DEF NewOf
      <3> QED
        BY <2>4, <3>1, <3>2, Zenon
    <2>6. \A w \in Range(q) : w \in Range(p) \/ ~ Live(w)
      BY <2>3, Zenon DEF NoneLive
    <2> HIDE DEF q, p, N
    <2>7. /\ p \o new(op) \in Seq(Waiters) /\ IsInjective(p \o new(op))
          /\ Range(p \o new(op)) = Range(p) \cup N
      <3>1. Range(p) \cap Range(new(op)) = {}
        BY <2>2, <2>5, Zenon
      <3>2. /\ p \o new(op) \in Seq(Waiters)
            /\ Range(p \o new(op)) = Range(p) \cup Range(new(op))
            /\ IsInjective(p) /\ IsInjective(new(op)) /\ Range(p) \cap Range(new(op)) = {}
                  => IsInjective(p \o new(op))
        BY <2>2, ConcatFacts, Zenon
      <3> QED
        BY <2>2, <2>4, <3>1, <3>2, Zenon
    <2>8. Adds(q, p \o new(op), N)
      BY <2>4, <2>6, <2>7, Zenon DEF Adds
    <2> QED
      BY <2>1, <2>8, Zenon DEF q, N
  <1> QED
    BY <1>1, <1>4, <1>9, <1>10, <1>11, <1>12, Zenon DEF Trimmed

\* A task that parks: where its new waiters are.
LEMMA NewOfFacts ==
    ASSUME NEW t \in Tasks, NEW cl \in Calls, NEW c \in Channels, NEW op \in Ops
    PROVE  \A w \in NewOf(t, cl, c, op) :
              /\ w.task = t /\ w.sel = cl.sel /\ w.case \in RealCases(cl)
              /\ w.case \in DOMAIN cl.cases /\ cl.cases[w.case] = Case(c, op)
  <1> TAKE w \in NewOf(t, cl, c, op)
  <1>1. PICK i \in DOMAIN cl.cases : /\ cl.cases[i] = Case(c, op)
                                     /\ w = [task |-> t, sel |-> cl.sel, case |-> i]
    BY Zenon DEF NewOf
  <1>2. w.task = t /\ w.sel = cl.sel /\ w.case = i
    BY <1>1
  <1> QED
    BY <1>1, <1>2, CallFacts, ZenonT(40)

\* A task that parks keeps the links.
LEMMA ParksKeepsLinks ==
    ASSUME LinkInv, NEW t \in Tasks, NEW cl \in Calls, Parks(t, cl)
    PROVE  LinkInv'
  <1>1. \A c \in Channels :
           /\ chan'[c] \in ChannelRecords /\ Ring(chan'[c], c)
           /\ chan'[c].phase = chan[c].phase /\ chan'[c].closed = chan[c].closed
           /\ \A op \in Ops : Adds(Queue(c, op), QueueOf(chan'[c], op), NewOf(t, cl, c, op))
    BY ParksEffect, Zenon DEF Queue
  <1>2. UNCHANGED <<channel_registry, shutdown_requested, done, result, sends>>
    BY Zenon DEF Parks
  <1>3. Types
    BY Zenon DEF LinkInv
  <1>4. /\ tstate[t] = "running" /\ tstate'[t] = "waiting_channel" /\ call'[t] = cl
        /\ \A x \in Tasks : x # t => tstate'[x] = tstate[x] /\ call'[x] = call[x]
    <2>1. /\ tstate' = [tstate EXCEPT ![t] = "waiting_channel"]
          /\ call' = [call EXCEPT ![t] = cl]
      BY Zenon DEF Parks
    <2>2. tstate[t] = "running"
      BY Zenon DEF Parks, CanCall
    <2>3. DOMAIN tstate = Tasks /\ DOMAIN call = Tasks
      BY <1>3, Zenon DEF Types
    <2> QED
      BY <2>1, <2>2, <2>3, Zenon
  <1>5. ASSUME NEW i \in RealCases(cl)
        PROVE  LET c == cl.cases[i].ch IN
               ~ chan[c].closed /\ ~ shutdown_requested /\ chan[c].phase = "live"
    <2>1. i \in Blocked(t, cl)
      BY Zenon DEF Parks
    <2>2. ~ chan[cl.cases[i].ch].closed /\ ~ shutdown_requested
      BY <2>1, BlockedFacts, Zenon
    <2>3. cl.cases[i] \in Range(cl.cases) /\ cl.cases[i].ch # NoChannel
      BY Zenon DEF RealCases, Range
    <2>4. chan[cl.cases[i].ch].phase = "live"
      BY <2>3, Zenon DEF Parks, CanCall
    <2> QED
      BY <2>2, <2>4, Zenon
  <1>6. Types'
    <2>1. chan' = [c \in Channels |-> chan'[c]]
      BY Zenon DEF Parks
    <2>2. chan' \in [Channels -> ChannelRecords]
      BY <1>1, <2>1, Zenon
    <2>3. "waiting_channel" \in TaskStates
      BY DEF TaskStates
    <2>4. tstate' \in [Tasks -> TaskStates] /\ call' \in [Tasks -> Calls \cup {NoCall}]
      BY <1>3, <2>3, Zenon DEF Types, Parks
    <2> QED
      BY <1>1, <1>2, <1>3, <2>2, <2>4, Zenon DEF Types
  <1>7. InCall'
    <2> SUFFICES ASSUME NEW x \in Tasks, tstate'[x] # "running"
                 PROVE  /\ call'[x] \in Calls
                        /\ tstate'[x] # "freed"
                              /\ (\E case \in Range(call'[x].cases) : case.op = "send")
                              => sends[x] < MaxSends
      BY <1>2, Zenon DEF InCall
    <2>1. CASE x = t
      BY <1>4, <2>1, Zenon DEF Parks, CanCall
    <2>2. CASE x # t
      BY <1>4, <2>2, Zenon DEF LinkInv, InCall
    <2> QED
      BY <2>1, <2>2, Zenon
  <1>8. t \notin done
    BY <1>4 DEF LinkInv, DoneIsWoken
  <1>9. DoneIsWoken'
    <2>1. \A x \in done : x \in Tasks /\ x # t
      BY <1>3, <1>8, Zenon DEF Types
    <2> QED
      BY <1>2, <1>4, <2>1, Zenon DEF LinkInv, DoneIsWoken
  <1>10. WaitersLinked'
    <2> SUFFICES ASSUME NEW c \in Channels, NEW op \in Ops
                 PROVE  /\ IsInjective(QueueOf(chan'[c], op))
                        /\ \A w \in Range(QueueOf(chan'[c], op)) : Linked(w, c, op)'
      BY Zenon DEF WaitersLinked, Queue
    <2>1. Adds(Queue(c, op), QueueOf(chan'[c], op), NewOf(t, cl, c, op))
      BY <1>1, Zenon
    <2>2. IsInjective(QueueOf(chan'[c], op))
      BY <2>1, Zenon DEF Adds
    <2>3. ASSUME NEW w \in Range(QueueOf(chan'[c], op)) PROVE Linked(w, c, op)'
      <3>1. CASE w \in Range(Queue(c, op))
        <4>1. Linked(w, c, op) /\ w.task \in Tasks
          BY <3>1, LinkedFacts, Zenon
        <4>2. w.task # t
          BY <1>4, <4>1 DEF Linked
        <4>3. tstate'[w.task] = tstate[w.task] /\ call'[w.task] = call[w.task]
          BY <1>4, <4>1, <4>2, Zenon
        <4> QED
          BY <1>2, <4>1, <4>3, Zenon DEF Linked, Live
      <3>2. CASE w \in NewOf(t, cl, c, op)
        <4>1. /\ w.task = t /\ w.sel = cl.sel
              /\ w.case \in DOMAIN cl.cases /\ cl.cases[w.case] = Case(c, op)
          BY <3>2, NewOfFacts
        <4> QED
          BY <1>4, <4>1, Zenon DEF Linked
      <3> QED
        BY <2>1, <3>1, <3>2, Zenon DEF Adds
    <2> QED
      BY <2>2, <2>3, Zenon
  <1>11. ParkedLinked'
    <2> SUFFICES ASSUME NEW x \in Tasks, tstate'[x] = "waiting_channel"
                 PROVE  /\ RealCases(call'[x]) # {}
                        /\ \A i \in RealCases(call'[x]) :
                              Waiter(x, i)' \in Range(QueueOf(chan'[call'[x].cases[i].ch],
                                                              call'[x].cases[i].op))
      BY Zenon DEF ParkedLinked, Queue
    <2>1. CASE x = t
      <3>1. RealCases(cl) # {}
        BY Zenon DEF Parks
      <3>2. ASSUME NEW i \in RealCases(cl)
            PROVE  Waiter(t, i)' \in Range(QueueOf(chan'[cl.cases[i].ch], cl.cases[i].op))
        <4>1. /\ i \in DOMAIN cl.cases /\ cl.cases[i].ch \in Channels /\ cl.cases[i].op \in Ops
              /\ cl.cases[i] = Case(cl.cases[i].ch, cl.cases[i].op)
          BY CallFacts, Zenon
        <4>2. Waiter(t, i)' = [task |-> t, sel |-> cl.sel, case |-> i]
          BY <1>4, Zenon DEF Waiter
        <4>3. Waiter(t, i)' \in NewOf(t, cl, cl.cases[i].ch, cl.cases[i].op)
          BY <4>1, <4>2, Zenon DEF NewOf
        <4>4. Adds(Queue(cl.cases[i].ch, cl.cases[i].op),
                   QueueOf(chan'[cl.cases[i].ch], cl.cases[i].op),
                   NewOf(t, cl, cl.cases[i].ch, cl.cases[i].op))
          BY <1>1, <4>1, Zenon
        <4> QED
          BY <4>3, <4>4, Zenon DEF Adds
      <3> QED
        BY <1>4, <2>1, <3>1, <3>2, Zenon
    <2>2. CASE x # t
      <3>1. call'[x] = call[x] /\ tstate[x] = "waiting_channel"
        BY <1>4, <2>2, Zenon
      <3>2. call[x] \in Calls
        BY <3>1 DEF LinkInv, InCall
      <3>3. RealCases(call[x]) # {}
        BY <3>1, Zenon DEF LinkInv, ParkedLinked
      <3>4. ASSUME NEW i \in RealCases(call[x])
            PROVE  Waiter(x, i) \in Range(QueueOf(chan'[call[x].cases[i].ch], call[x].cases[i].op))
        <4> DEFINE c == call[x].cases[i].ch
                   op == call[x].cases[i].op
        <4>1. c \in Channels /\ op \in Ops
          BY <3>2, CallFacts, Zenon
        <4>2. Waiter(x, i) \in Range(Queue(c, op))
          BY <3>1, Zenon DEF LinkInv, ParkedLinked
        <4>3. Waiter(x, i).task = x
          BY DEF Waiter
        <4>4. Live(Waiter(x, i))
          <5>1. x \notin done
            BY <3>1 DEF LinkInv, DoneIsWoken
          <5> QED
            BY <4>3, <5>1, Zenon DEF Live
        <4> HIDE DEF c, op
        <4>5. Adds(Queue(c, op), QueueOf(chan'[c], op), NewOf(t, cl, c, op))
          BY <1>1, <4>1, Zenon
        <4>6. Waiter(x, i) \in Range(QueueOf(chan'[c], op))
          BY <4>2, <4>4, <4>5, Zenon DEF Adds
        <4> QED
          BY <4>6, Zenon DEF c, op
      <3>5. \A i : Waiter(x, i)' = Waiter(x, i)
        BY <3>1, Zenon DEF Waiter
      <3> QED
        BY <3>1, <3>3, <3>4, <3>5, Zenon
    <2> QED
      BY <2>1, <2>2, Zenon
  <1>12. Drained'
    <2> SUFFICES ASSUME NEW c \in Channels, NEW op \in Ops,
                        shutdown_requested \/ chan[c].closed \/ chan[c].phase # "live"
                 PROVE  QueueOf(chan'[c], op) = << >>
      BY <1>1, <1>2, Zenon DEF Drained, Queue
    <2>1. Adds(Queue(c, op), QueueOf(chan'[c], op), NewOf(t, cl, c, op))
      BY <1>1, Zenon
    <2>2. Range(Queue(c, op)) = {}
      <3>1. Queue(c, op) = << >>
        BY Zenon DEF LinkInv, Drained
      <3> QED
        BY <3>1, EmptyFacts, Zenon
    <2>3. NewOf(t, cl, c, op) = {}
      <3> SUFFICES ASSUME NEW w \in NewOf(t, cl, c, op) PROVE FALSE
        BY Zenon
      <3>1. w.case \in RealCases(cl) /\ cl.cases[w.case] = Case(c, op)
        BY NewOfFacts
      <3>2. cl.cases[w.case].ch = c
        BY <3>1, CaseFields, Zenon
      <3> QED
        BY <1>5, <3>1, <3>2, Zenon
    <2>4. Range(QueueOf(chan'[c], op)) = {} /\ QueueOf(chan'[c], op) \in Seq(Waiters)
      BY <2>1, <2>2, <2>3, Zenon DEF Adds
    <2> QED
      BY <2>4, EmptyRange, Zenon
  <1>13. Registered'
    BY <1>1, <1>2, Zenon DEF LinkInv, Registered
  <1> QED
    BY <1>6, <1>7, <1>9, <1>10, <1>11, <1>12, <1>13, Zenon DEF LinkInv
-----------------------------------------------------------------------------
(***************************************************************************)
(* A woken task runs again.                                                *)
(***************************************************************************)
\* What is still linked of a woken task is unlinked before its call returns.
LEMMA ResumeEffect ==
    ASSUME LinkInv, NEW t \in Tasks, Resume(t), NEW c \in Channels
    PROVE  /\ chan'[c] \in ChannelRecords /\ Ring(chan'[c], c)
           /\ Held(chan'[c], c) = Held(chan[c], c) /\ chan'[c].len = chan[c].len
           /\ chan'[c].phase = chan[c].phase /\ chan'[c].closed = chan[c].closed
           /\ \A op \in Ops : /\ QueueOf(chan'[c], op) \in Seq(Waiters)
                              /\ IsInjective(QueueOf(chan'[c], op))
                              /\ Range(QueueOf(chan'[c], op))
                                    = {w \in Range(Queue(c, op)) : w.task # t}
  <1> DEFINE k == chan[c]
             others(q) == Keep(q, {w \in Range(q) : w.task # t})
             sq == others(k.send_waiters)
             rq == others(k.recv_waiters)
             l == Updated(k, k.phase, k.closed, sq, rq)
  <1>1. k \in ChannelRecords /\ Ring(k, c)
    BY Zenon DEF LinkInv, Types
  <1>2. \A op \in Ops : /\ QueueOf(k, op) \in Seq(Waiters) /\ IsInjective(QueueOf(k, op))
    BY <1>1, QueueType, Zenon DEF LinkInv, WaitersLinked, Queue
  <1>3. call[t] \in Calls /\ tstate[t] = "runnable"
    <2>1. tstate[t] = "runnable"
      BY Zenon DEF Resume
    <2> QED
      BY <2>1 DEF LinkInv, InCall
  <1>4. CASE call[t].sel \/ result[t].status = "closed"
    <2>1. chan' = Unlink(t)
      BY <1>4, Zenon DEF Resume
    <2>2. chan'[c] = [k EXCEPT !.send_waiters = sq, !.recv_waiters = rq]
      BY <2>1, Zenon DEF Unlink
    <2>3. \A q \in Seq(Waiters) :
             /\ others(q) \in Seq(Waiters) /\ Range(others(q)) = {w \in Range(q) : w.task # t}
             /\ IsInjective(q) => IsInjective(others(q))
      <3> TAKE q \in Seq(Waiters)
      <3> DEFINE S == {w \in Range(q) : w.task # t}
      <3>1. Range(q) \cap S = S
        BY Zenon
      <3> HIDE DEF S
      <3>2. /\ Keep(q, S) \in Seq(Waiters) /\ Range(Keep(q, S)) = S
            /\ IsInjective(q) => IsInjective(Keep(q, S))
        BY <3>1, KeepFacts, Zenon
      <3> QED
        BY <3>2, Zenon DEF S
    <2> HIDE DEF others, k
    <2>4. k.send_waiters \in Seq(Waiters) /\ k.recv_waiters \in Seq(Waiters)
      BY <1>2, TwoOps, Zenon
    <2>5. sq \in Seq(Waiters) /\ rq \in Seq(Waiters)
      BY <2>3, <2>4, Zenon
    <2>6. k.phase \in Phases /\ k.closed \in BOOLEAN
      BY <1>1, ChannelFields, Zenon
    <2>7. chan'[c] = l
      BY <1>1, <2>2, UpdateBoth, Zenon
    <2> HIDE DEF sq, rq
    <2>8. /\ l \in ChannelRecords
          /\ l.phase = k.phase /\ l.closed = k.closed /\ l.len = k.len
          /\ l.send_waiters = sq /\ l.recv_waiters = rq
          /\ Ring(k, c) => Ring(l, c)
          /\ Held(l, c) = Held(k, c)
      BY <1>1, <2>5, <2>6, UpdateFacts
    <2> HIDE DEF l
    <2>9. \A op \in Ops : QueueOf(l, op) = others(QueueOf(k, op))
      BY <2>8, TwoOps, Zenon DEF sq, rq
    <2>10. \A op \in Ops : /\ QueueOf(chan'[c], op) \in Seq(Waiters)
                           /\ IsInjective(QueueOf(chan'[c], op))
                           /\ Range(QueueOf(chan'[c], op))
                                 = {w \in Range(QueueOf(k, op)) : w.task # t}
      BY <1>2, <2>3, <2>7, <2>9, Zenon
    <2> QED
      BY <1>1, <2>7, <2>8, <2>10, Zenon DEF k, Queue
  <1>5. CASE ~ (call[t].sel \/ result[t].status = "closed")
    <2>1. chan' = chan
      BY <1>5, Zenon DEF Resume
    <2>2. \A op \in Ops : \A w \in Range(Queue(c, op)) : w.task # t
      <3> TAKE op \in Ops
      <3> TAKE w \in Range(Queue(c, op))
      <3>1. Linked(w, c, op)
        BY LinkedFacts, Zenon
      <3>2. w.task = t => Live(w)
        BY <1>5, <3>1, Zenon DEF Linked, Live
      <3> QED
        BY <1>3, <3>1, <3>2 DEF Linked
    <2>3. \A op \in Ops : Range(Queue(c, op)) = {w \in Range(Queue(c, op)) : w.task # t}
      BY <2>2, Zenon
    <2> QED
      BY <1>1, <1>2, <2>1, <2>3, Zenon DEF k, Queue
  <1> QED
    BY <1>4, <1>5, Zenon

\* A task that runs again keeps the links of the others.
LEMMA ResumeKeepsLinks ==
    ASSUME LinkInv, NEW t \in Tasks, Resume(t)
    PROVE  LinkInv'
  <1>1. \A c \in Channels :
           /\ chan'[c] \in ChannelRecords /\ Ring(chan'[c], c)
           /\ chan'[c].phase = chan[c].phase /\ chan'[c].closed = chan[c].closed
           /\ \A op \in Ops : /\ QueueOf(chan'[c], op) \in Seq(Waiters)
                              /\ IsInjective(QueueOf(chan'[c], op))
                              /\ Range(QueueOf(chan'[c], op))
                                    = {w \in Range(Queue(c, op)) : w.task # t}
    BY ResumeEffect, Zenon
  <1>2. channel_registry' = channel_registry /\ shutdown_requested' = shutdown_requested
    BY Zenon DEF Resume
  <1>3. Types
    BY Zenon DEF LinkInv
  <1>4. /\ tstate[t] = "runnable" /\ tstate'[t] = "running"
        /\ \A x \in Tasks : x # t => /\ tstate'[x] = tstate[x] /\ call'[x] = call[x]
                                     /\ sends'[x] = sends[x]
    <2>1. /\ tstate' = [tstate EXCEPT ![t] = "running"] /\ tstate[t] = "runnable"
          /\ call' = [call EXCEPT ![t] = NoCall]
          /\ sends' = [sends EXCEPT ![t] = sends[t] + 1] \/ sends' = sends
      BY Zenon DEF Resume
    <2>2. DOMAIN tstate = Tasks /\ DOMAIN call = Tasks /\ DOMAIN sends = Tasks
      BY <1>3, Zenon DEF Types
    <2> QED
      BY <2>1, <2>2, Zenon
  <1>5. Types'
    <2>1. chan' \in [Channels -> ChannelRecords]
      <3>1. DOMAIN chan = Channels
        BY <1>3, Zenon DEF Types
      <3>2. chan' = [c \in Channels |-> chan'[c]]
        BY <1>3, Zenon DEF Resume, Unlink, Types
      <3> QED
        BY <1>1, <3>2, Zenon
    <2>2. "running" \in TaskStates /\ NoResult \in Results
      BY DEF TaskStates, NoResult, Results, Statuses, Contained
    <2>3. /\ tstate' \in [Tasks -> TaskStates] /\ call' \in [Tasks -> Calls \cup {NoCall}]
          /\ result' \in [Tasks -> Results] /\ done' \in SUBSET Tasks
      BY <1>3, <2>2, Zenon DEF Types, Resume
    <2>4. sends' \in [Tasks -> 0 .. MaxSends]
      <3>1. CASE \E case \in Range(call[t].cases) : case.op = "send"
        <4>1. sends' = [sends EXCEPT ![t] = sends[t] + 1]
          BY <3>1, Zenon DEF Resume
        <4>2. sends[t] < MaxSends
          BY <1>4, <3>1 DEF LinkInv, InCall
        <4>3. sends \in [Tasks -> 0 .. MaxSends] /\ MaxSends \in Nat
          BY <1>3, ChannelAssumption, Zenon DEF Types
        <4>4. sends[t] + 1 \in 0 .. MaxSends
          BY <4>2, <4>3
        <4> QED
          BY <4>1, <4>3, <4>4, Zenon
      <3>2. CASE ~ \E case \in Range(call[t].cases) : case.op = "send"
        BY <1>3, <3>2, Zenon DEF Resume, Types
      <3> QED
        BY <3>1, <3>2, Zenon
    <2> QED
      BY <1>1, <1>2, <1>3, <2>1, <2>3, <2>4, Zenon DEF Types
  <1>6. InCall'
    <2> SUFFICES ASSUME NEW x \in Tasks, tstate'[x] # "running"
                 PROVE  /\ call'[x] \in Calls
                        /\ tstate'[x] # "freed"
                              /\ (\E case \in Range(call'[x].cases) : case.op = "send")
                              => sends'[x] < MaxSends
      BY Zenon DEF InCall
    <2>1. x # t
      BY <1>4, Zenon
    <2> QED
      BY <1>4, <2>1, Zenon DEF LinkInv, InCall
  <1>7. done' = done \ {t}
    BY Zenon DEF Resume
  <1>8. DoneIsWoken'
    <2> SUFFICES ASSUME NEW x \in done'
                 PROVE  tstate'[x] \in {"runnable", "freed"} /\ call'[x].sel
      BY Zenon DEF DoneIsWoken
    <2>1. x \in done /\ x \in Tasks /\ x # t
      BY <1>3, <1>7, Zenon DEF Types
    <2> QED
      BY <1>4, <2>1, Zenon DEF LinkInv, DoneIsWoken
  <1>9. WaitersLinked'
    <2> SUFFICES ASSUME NEW c \in Channels, NEW op \in Ops
                 PROVE  /\ IsInjective(QueueOf(chan'[c], op))
                        /\ \A w \in Range(QueueOf(chan'[c], op)) : Linked(w, c, op)'
      BY Zenon DEF WaitersLinked, Queue
    <2>1. ASSUME NEW w \in Range(QueueOf(chan'[c], op)) PROVE Linked(w, c, op)'
      <3>1. w \in Range(Queue(c, op)) /\ w.task # t
        BY <1>1, Zenon
      <3>2. Linked(w, c, op) /\ w.task \in Tasks
        BY <3>1, LinkedFacts, Zenon
      <3>3. tstate'[w.task] = tstate[w.task] /\ call'[w.task] = call[w.task]
        BY <1>4, <3>1, <3>2, Zenon
      <3>4. Live(w)' <=> Live(w)
        BY <1>7, <3>1, Zenon DEF Live
      <3> QED
        BY <3>2, <3>3, <3>4, Zenon DEF Linked
    <2> QED
      BY <1>1, <2>1, Zenon
  <1>10. ParkedLinked'
    <2> SUFFICES ASSUME NEW x \in Tasks, tstate'[x] = "waiting_channel"
                 PROVE  /\ RealCases(call'[x]) # {}
                        /\ \A i \in RealCases(call'[x]) :
                              Waiter(x, i)' \in Range(QueueOf(chan'[call'[x].cases[i].ch],
                                                              call'[x].cases[i].op))
      BY Zenon DEF ParkedLinked, Queue
    <2>1. x # t
      BY <1>4
    <2>2. call'[x] = call[x] /\ tstate[x] = "waiting_channel"
      BY <1>4, <2>1, Zenon
    <2>3. call[x] \in Calls
      BY <2>2 DEF LinkInv, InCall
    <2>4. RealCases(call[x]) # {}
      BY <2>2, Zenon DEF LinkInv, ParkedLinked
    <2>5. ASSUME NEW i \in RealCases(call[x])
          PROVE  Waiter(x, i) \in Range(QueueOf(chan'[call[x].cases[i].ch], call[x].cases[i].op))
      <3>1. call[x].cases[i].ch \in Channels /\ call[x].cases[i].op \in Ops
        BY <2>3, CallFacts, Zenon
      <3>2. Waiter(x, i) \in Range(Queue(call[x].cases[i].ch, call[x].cases[i].op))
        BY <2>2, Zenon DEF LinkInv, ParkedLinked
      <3>3. Waiter(x, i).task # t
        BY <2>1 DEF Waiter
      <3> QED
        BY <1>1, <3>1, <3>2, <3>3, Zenon
    <2>6. \A i : Waiter(x, i)' = Waiter(x, i)
      BY <2>2, Zenon DEF Waiter
    <2> QED
      BY <2>2, <2>4, <2>5, <2>6, Zenon
  <1>11. Drained'
    <2> SUFFICES ASSUME NEW c \in Channels, NEW op \in Ops,
                        shutdown_requested \/ chan[c].closed \/ chan[c].phase # "live"
                 PROVE  QueueOf(chan'[c], op) = << >>
      BY <1>1, <1>2, Zenon DEF Drained, Queue
    <2>1. Queue(c, op) = << >>
      BY Zenon DEF LinkInv, Drained
    <2>2. Range(QueueOf(chan'[c], op)) = {} /\ QueueOf(chan'[c], op) \in Seq(Waiters)
      BY <1>1, <2>1, EmptyFacts, Zenon
    <2> QED
      BY <2>2, EmptyRange, Zenon
  <1>12. Registered'
    BY <1>1, <1>2, Zenon DEF LinkInv, Registered
  <1> QED
    BY <1>5, <1>6, <1>8, <1>9, <1>10, <1>11, <1>12, Zenon DEF LinkInv
-----------------------------------------------------------------------------
(***************************************************************************)
(* Channels are closed.                                                    *)
(***************************************************************************)
\* Waking the first waiter of every live task wakes every live task, and once.
LEMMA FirstWaitersFacts ==
    ASSUME NEW N \in Nat, NEW qs, DOMAIN qs = 1 .. N,
           \A n \in 1 .. N : qs[n] \in Seq(Waiters),
           \A n, m \in 1 .. N : \A i \in DOMAIN qs[n], j \in DOMAIN qs[m] :
               qs[n][i].task = qs[m][j].task /\ Live(qs[n][i]) => Live(qs[m][j])
    PROVE  /\ \A w \in FirstWaiters(qs) : Live(w) /\ \E n \in 1 .. N : w \in Range(qs[n])
           /\ \A w, u \in FirstWaiters(qs) : w.task = u.task => w = u
           /\ \A n \in 1 .. N : \A w \in Range(qs[n]) :
                 Live(w) => \E u \in FirstWaiters(qs) : u.task = w.task
  <1>1. \A w : w \in FirstWaiters(qs) <=>
                  \E n \in 1 .. N : \E i \in DOMAIN qs[n] : FirstOfTask(qs, n, i) /\ w = qs[n][i]
    <2> TAKE w
    <2> DEFINE Q(n) == {qs[n][i] : i \in {j \in DOMAIN qs[n] : FirstOfTask(qs, n, j)}}
    <2>1. w \in FirstWaiters(qs) <=> \E n \in 1 .. N : w \in Q(n)
      BY DEF FirstWaiters
    <2>2. \A n : w \in Q(n) <=> \E i \in DOMAIN qs[n] : FirstOfTask(qs, n, i) /\ w = qs[n][i]
      BY Zenon
    <2> QED
      BY <2>1, <2>2, Zenon
  <1>2. \A n \in 1 .. N : DOMAIN qs[n] \subseteq Nat
    OBVIOUS
  <1>3. \A w \in FirstWaiters(qs) : Live(w) /\ \E n \in 1 .. N : w \in Range(qs[n])
    <2> TAKE w \in FirstWaiters(qs)
    <2>1. PICK n \in 1 .. N : \E i \in DOMAIN qs[n] : FirstOfTask(qs, n, i) /\ w = qs[n][i]
      BY <1>1, Zenon
    <2> QED
      BY <2>1, Zenon DEF FirstOfTask, Range
  <1>4. ASSUME NEW w \in FirstWaiters(qs), NEW u \in FirstWaiters(qs), w.task = u.task
        PROVE  w = u
    <2>1. PICK n \in 1 .. N : \E i \in DOMAIN qs[n] : FirstOfTask(qs, n, i) /\ w = qs[n][i]
      BY <1>1, Zenon
    <2>2. PICK i \in DOMAIN qs[n] : FirstOfTask(qs, n, i) /\ w = qs[n][i]
      BY <2>1, Zenon
    <2>3. PICK m \in 1 .. N : \E j \in DOMAIN qs[m] : FirstOfTask(qs, m, j) /\ u = qs[m][j]
      BY <1>1, Zenon
    <2>4. PICK j \in DOMAIN qs[m] : FirstOfTask(qs, m, j) /\ u = qs[m][j]
      BY <2>3, Zenon
    <2>5. i \in Nat /\ j \in Nat
      BY <1>2, Zenon
    <2>6. ASSUME m \in 1 .. n PROVE ~ (m < n \/ j < i)
      BY <1>4, <2>2, <2>4, <2>6, Zenon DEF FirstOfTask
    <2>7. ASSUME n \in 1 .. m PROVE ~ (n < m \/ i < j)
      BY <1>4, <2>2, <2>4, <2>7, Zenon DEF FirstOfTask
    <2>8. n = m /\ i = j
      BY <2>5, <2>6, <2>7
    <2> QED
      BY <2>2, <2>4, <2>8, Zenon
  <1>5. ASSUME NEW n \in 1 .. N, NEW w \in Range(qs[n]), Live(w)
        PROVE  \E u \in FirstWaiters(qs) : u.task = w.task
    <2> DEFINE At(m, j) == j \in DOMAIN qs[m] /\ qs[m][j].task = w.task
               Ms == {m \in 1 .. N : \E j \in DOMAIN qs[m] : At(m, j)}
    <2>1. PICK i \in DOMAIN qs[n] : w = qs[n][i]
      BY Zenon DEF Range
    <2>2. Ms \in SUBSET Nat /\ n \in Ms
      BY <2>1
    <2>3. PICK a \in Ms : \A m \in Ms : a <= m
      BY <2>2, Least, Zenon
    <2>4. a \in 1 .. N
      BY Zenon
    <2> DEFINE Js == {j \in DOMAIN qs[a] : At(a, j)}
    <2>5. Js \in SUBSET Nat /\ Js # {}
      BY <1>2, <2>4, Zenon
    <2>6. PICK b \in Js : \A j \in Js : b <= j
      BY <2>5, Least, Zenon
    <2>7. b \in DOMAIN qs[a] /\ qs[a][b].task = w.task
      BY Zenon
    <2>8. Live(qs[a][b])
      BY <1>5, <2>1, <2>4, <2>7, Zenon
    <2>9. ASSUME NEW m \in 1 .. a, NEW j \in DOMAIN qs[m], m < a \/ j < b
          PROVE  qs[m][j].task # qs[a][b].task
      <3> SUFFICES ASSUME qs[m][j].task = qs[a][b].task PROVE FALSE
        BY Zenon
      <3>1. At(m, j)
        BY <2>7, Zenon
      <3>2. m \in 1 .. N
        BY <2>4
      <3>3. m \in Ms
        BY <3>1, <3>2, Zenon
      <3>4. a <= m
        BY <2>3, <3>3, Zenon
      <3>5. m = a
        BY <2>4, <3>4
      <3>6. j \in Js
        BY <3>1, <3>5, Zenon
      <3>7. b <= j
        BY <2>6, <3>6, Zenon
      <3>8. b \in Nat /\ j \in Nat
        BY <2>5, <3>6, Zenon
      <3> HIDE DEF At, Ms, Js
      <3> QED
        BY <2>4, <2>9, <3>5, <3>7, <3>8
    <2>10. FirstOfTask(qs, a, b)
      BY <2>8, <2>9, Zenon DEF FirstOfTask
    <2>11. qs[a][b] \in FirstWaiters(qs)
      BY <1>1, <2>4, <2>7, <2>10, Zenon
    <2> QED
      BY <2>7, <2>11, Zenon
  <1> QED
    BY <1>3, <1>4, <1>5, Zenon

\* The queues qs are the queues of the channels C.
QueuesOf(qs, C) ==
    \E N \in Nat :
        /\ DOMAIN qs = 1 .. N
        /\ \A n \in 1 .. N : \E c \in C, op \in Ops : qs[n] = Queue(c, op)
        /\ \A c \in C, op \in Ops : \E n \in 1 .. N : qs[n] = Queue(c, op)

\* The queues that are drained are those of the channels that are closed.
LEMMA AllWaitersFacts ==
    ASSUME NEW cs \in Seq(Channels)
    PROVE  QueuesOf(AllWaiters(cs), Range(cs))
  <1> DEFINE N == 2 * Len(cs)
             qs == AllWaiters(cs)
  <1>1. Len(cs) \in Nat /\ N \in Nat /\ DOMAIN cs = 1 .. Len(cs)
    OBVIOUS
  <1>2. DOMAIN qs = 1 .. N
    BY Zenon DEF AllWaiters
  <1>3. \A n \in 1 .. N : qs[n] = IF n % 2 = 1 THEN chan[cs[(n + 1) \div 2]].send_waiters
                                  ELSE chan[cs[n \div 2]].recv_waiters
    BY Zenon DEF AllWaiters
  <1> DEFINE L == Len(cs)
  <1>4. L \in Nat /\ N = 2 * L
    BY <1>1
  <1> HIDE DEF qs, N, L
  <1>5. \A n \in 1 .. N : /\ n % 2 = 1 => (n + 1) \div 2 \in 1 .. L
                          /\ n % 2 # 1 => n \div 2 \in 1 .. L
    BY <1>4
  <1>6. \A m \in 1 .. L : /\ 2 * m \in 1 .. N /\ (2 * m) % 2 # 1 /\ (2 * m) \div 2 = m
                          /\ 2 * m - 1 \in 1 .. N /\ (2 * m - 1) % 2 = 1
                          /\ ((2 * m - 1) + 1) \div 2 = m
    BY <1>4
  <1>7. DOMAIN cs = 1 .. L
    BY <1>1, Zenon DEF L
  <1>8. \A m \in 1 .. L : cs[m] \in Range(cs)
    BY <1>7, Zenon DEF Range
  <1>9. \A n \in 1 .. N : \E c \in Range(cs), op \in Ops : qs[n] = Queue(c, op)
    <2> TAKE n \in 1 .. N
    <2>1. CASE n % 2 = 1
      <3>1. qs[n] = Queue(cs[(n + 1) \div 2], "send")
        BY <1>3, <2>1, TwoOps, Zenon DEF Queue
      <3> QED
        BY <1>5, <1>8, <2>1, <3>1, TwoOps, Zenon
    <2>2. CASE n % 2 # 1
      <3>1. qs[n] = Queue(cs[n \div 2], "recv")
        BY <1>3, <2>2, TwoOps, Zenon DEF Queue
      <3> QED
        BY <1>5, <1>8, <2>2, <3>1, TwoOps, Zenon
    <2> QED
      BY <2>1, <2>2, Zenon
  <1>10. \A c \in Range(cs), op \in Ops : \E n \in 1 .. N : qs[n] = Queue(c, op)
    <2> TAKE c \in Range(cs), op \in Ops
    <2>1. PICK m \in 1 .. L : c = cs[m]
      BY <1>7, Zenon DEF Range
    <2>2. CASE op = "send"
      <3>1. qs[2 * m - 1] = chan[cs[((2 * m - 1) + 1) \div 2]].send_waiters
        BY <1>3, <1>6, Zenon
      <3>2. qs[2 * m - 1] = Queue(c, "send")
        BY <1>6, <2>1, <3>1, TwoOps, Zenon DEF Queue
      <3> QED
        BY <1>6, <2>2, <3>2, Zenon
    <2>3. CASE op = "recv"
      <3>1. qs[2 * m] = chan[cs[(2 * m) \div 2]].recv_waiters
        BY <1>3, <1>6, Zenon
      <3>2. qs[2 * m] = Queue(c, "recv")
        BY <1>6, <2>1, <3>1, TwoOps, Zenon DEF Queue
      <3> QED
        BY <1>6, <2>3, <3>2, Zenon
    <2> QED
      BY <2>2, <2>3, TwoOps, Zenon
  <1> QED
    BY <1>1, <1>2, <1>9, <1>10, Zenon DEF QueuesOf, qs, N

\* The channels C are closed, and everybody who waits in their queues qs is woken.
ClosesAll(C, qs) ==
    /\ C \subseteq Channels /\ QueuesOf(qs, C)
    /\ chan' = [c \in Channels |-> IF c \in C THEN Closed(chan[c]) ELSE chan[c]]
    /\ WakeAllAsClosed(qs)
    /\ \/ shutdown_requested' = shutdown_requested
       \/ shutdown_requested' = TRUE /\ C = Range(channel_registry)
    /\ UNCHANGED <<channel_registry, call, sends, accepted, received>>

\* Closing a channel closes that one.
LEMMA CloseCloses ==
    ASSUME LinkInv, NEW c \in Channels, croutine_channel_close(c)
    PROVE  ClosesAll({c}, AllWaiters(<<c>>))
  <1>1. <<c>> \in Seq(Channels) /\ Range(<<c>>) = {c}
    BY DEF Range
  <1>2. QueuesOf(AllWaiters(<<c>>), {c})
    BY <1>1, AllWaitersFacts, Zenon
  <1>3. chan \in [Channels -> ChannelRecords]
    BY Zenon DEF LinkInv, Types
  <1>4. chan' = [chan EXCEPT ![c] = Closed(chan[c])]
    BY Zenon DEF croutine_channel_close
  <1>5. chan' = [d \in Channels |-> IF d \in {c} THEN Closed(chan[d]) ELSE chan[d]]
    BY <1>3, <1>4, Zenon
  <1> QED
    BY <1>2, <1>5, Zenon DEF ClosesAll, croutine_channel_close

\* Shutdown closes the channels that are registered.
LEMMA ShutdownCloses ==
    ASSUME LinkInv, ShutdownAll
    PROVE  ClosesAll(Range(channel_registry), AllWaiters(channel_registry))
  <1>1. channel_registry \in Seq(Channels)
    BY Zenon DEF LinkInv, Types
  <1>2. QueuesOf(AllWaiters(channel_registry), Range(channel_registry))
    BY <1>1, AllWaitersFacts, Zenon
  <1>3. Range(channel_registry) \subseteq Channels
    BY <1>1, RangeType, Zenon
  <1> QED
    BY <1>2, <1>3, Zenon DEF ClosesAll, ShutdownAll

\* The channels afterwards: the buffers are as before, the queues of C are empty.
LEMMA ClosesChannels ==
    ASSUME LinkInv, NEW C, NEW qs, ClosesAll(C, qs), NEW c \in Channels
    PROVE  /\ chan'[c] \in ChannelRecords /\ Ring(chan'[c], c)
           /\ Held(chan'[c], c) = Held(chan[c], c) /\ chan'[c].len = chan[c].len
           /\ chan'[c].phase = chan[c].phase
           /\ chan'[c].closed = (c \in C \/ chan[c].closed)
           /\ c \notin C => chan'[c] = chan[c]
           /\ c \in C => \A op \in Ops : QueueOf(chan'[c], op) = << >>
  <1> DEFINE k == chan[c]
             none == << >>
             flag == TRUE
             l == Updated(k, k.phase, flag, none, none)
  <1>1. k \in ChannelRecords /\ Ring(k, c)
    BY Zenon DEF LinkInv, Types
  <1>2. k.phase \in Phases /\ k.closed \in BOOLEAN
    BY <1>1, ChannelFields, Zenon
  <1>3. CASE c \in C
    <2>1. chan'[c] = Closed(k)
      BY <1>3, Zenon DEF ClosesAll
    <2>2. chan'[c] = l
      BY <1>1, <2>1, UpdateForms, Zenon
    <2>3. none \in Seq(Waiters) /\ flag \in BOOLEAN
      OBVIOUS
    <2> HIDE DEF k, none, flag
    <2>4. /\ l \in ChannelRecords
          /\ l.phase = k.phase /\ l.closed = flag /\ l.len = k.len
          /\ l.send_waiters = none /\ l.recv_waiters = none
          /\ Ring(k, c) => Ring(l, c)
          /\ Held(l, c) = Held(k, c)
      BY <1>1, <1>2, <2>3, UpdateFacts
    <2> HIDE DEF l
    <2>5. \A op \in Ops : QueueOf(chan'[c], op) = << >>
      BY <2>2, <2>4, TwoOps, Zenon DEF none
    <2> QED
      <3>1. chan'[c].closed = (c \in C \/ chan[c].closed)
        <4>1. l.closed = TRUE
          BY <2>4, Zenon DEF flag
        <4> QED
          BY <1>3, <2>2, <4>1, Zenon
      <3> QED
        BY <1>1, <1>3, <2>2, <2>4, <2>5, <3>1, Zenon DEF k
  <1>4. CASE c \notin C
    <2>1. chan'[c] = k
      BY <1>4, Zenon DEF ClosesAll
    <2> QED
      BY <1>1, <1>2, <1>4, <2>1
  <1> QED
    BY <1>3, <1>4, Zenon

\* Everybody in the queues is released, and finds the status "closed".
LEMMA ClosesReleases ==
    ASSUME LinkInv, NEW C, NEW qs, ClosesAll(C, qs)
    PROVE  LET W == FirstWaiters(qs) IN
           /\ Released(W) /\ Woken(W)
           /\ \A w \in W : /\ w \in Waiters
                           /\ \E c \in C, op \in Ops : w \in Range(Queue(c, op))
           /\ tstate' \in [Tasks -> TaskStates] /\ done' \in SUBSET Tasks
           /\ result' \in [Tasks -> Results]
           /\ \A x \in Tasks : (\A w \in W : w.task # x) => result'[x] = result[x]
           /\ \A w \in W :
                 result'[w.task] = [case |-> w.case, status |-> "closed", value |-> NoValue]
  <1> DEFINE W == FirstWaiters(qs)
  <1>1. C \subseteq Channels
    BY Zenon DEF ClosesAll
  <1>2. PICK N \in Nat :
           /\ DOMAIN qs = 1 .. N
           /\ \A n \in 1 .. N : \E c \in C, op \in Ops : qs[n] = Queue(c, op)
           /\ \A c \in C, op \in Ops : \E n \in 1 .. N : qs[n] = Queue(c, op)
    BY Zenon DEF ClosesAll, QueuesOf
  <1>3. Types
    BY Zenon DEF LinkInv
  <1>4. \A n \in 1 .. N : qs[n] \in Seq(Waiters)
    BY <1>1, <1>2, <1>3, QueuesType, Zenon
  <1>5. ASSUME NEW n \in 1 .. N, NEW m \in 1 .. N, NEW i \in DOMAIN qs[n], NEW j \in DOMAIN qs[m],
               qs[n][i].task = qs[m][j].task, Live(qs[n][i])
        PROVE  Live(qs[m][j])
    <2>1. PICK c \in C, op \in Ops : qs[n] = Queue(c, op)
      BY <1>2, Zenon
    <2>2. PICK d \in C, o \in Ops : qs[m] = Queue(d, o)
      BY <1>2, Zenon
    <2>3. qs[n][i] \in Range(Queue(c, op)) /\ qs[m][j] \in Range(Queue(d, o))
      BY <2>1, <2>2, Zenon DEF Range
    <2>4. Linked(qs[n][i], c, op) /\ Linked(qs[m][j], d, o)
      BY <1>1, <2>3, LinkedFacts, Zenon
    <2> QED
      BY <1>5, <2>4, Zenon DEF Linked, Live
  <1>6. /\ \A w \in W : Live(w) /\ \E n \in 1 .. N : w \in Range(qs[n])
        /\ \A w, u \in W : w.task = u.task => w = u
        /\ \A n \in 1 .. N : \A w \in Range(qs[n]) : Live(w) => \E u \in W : u.task = w.task
    <2>1. DOMAIN qs = 1 .. N
      BY <1>2, Zenon
    <2> QED
      BY <1>4, <1>5, <2>1, FirstWaitersFacts, Zenon
  <1>7. Complete(W, "closed", NoValue)
    BY Zenon DEF ClosesAll, WakeAllAsClosed
  <1> HIDE DEF W
  <1>8. \A w \in W : \E c \in C, op \in Ops : w \in Range(Queue(c, op))
    <2> TAKE w \in W
    <2>1. PICK n \in 1 .. N : w \in Range(qs[n])
      BY <1>6, Zenon
    <2>2. PICK c \in C, op \in Ops : qs[n] = Queue(c, op)
      BY <1>2, Zenon
    <2> QED
      BY <2>1, <2>2, Zenon
  <1>9. \A w \in W : w \in Waiters
    <2> TAKE w \in W
    <2>1. PICK c \in C, op \in Ops : w \in Range(Queue(c, op))
      BY <1>8, Zenon
    <2>2. Range(Queue(c, op)) \subseteq Waiters
      BY <1>1, <1>3, QueuesType, Zenon
    <2> QED
      BY <2>1, <2>2, Zenon
  <1>10. "closed" \in Statuses /\ NoValue \in Contained
    BY DEF Statuses, Contained
  <1>11. /\ Woken(W)
         /\ tstate' \in [Tasks -> TaskStates] /\ done' \in SUBSET Tasks
         /\ result' \in [Tasks -> Results]
         /\ \A x \in Tasks : (\A w \in W : w.task # x) => result'[x] = result[x]
         /\ \A w \in W :
               result'[w.task] = [case |-> w.case, status |-> "closed", value |-> NoValue]
    <2>1. \A w, u \in W : w.task = u.task => w = u
      BY <1>6, Zenon
    <2> QED
      BY <1>3, <1>7, <1>9, <1>10, <2>1, CompleteFacts
  <1>12. Released(W)
    <2>1. \A w \in W : Live(w) /\ \E c \in Channels, op \in Ops : w \in Range(Queue(c, op))
      BY <1>1, <1>6, <1>8, Zenon
    <2>2. ASSUME NEW d \in Channels, NEW o \in Ops
          PROVE  LET q == QueueOf(chan'[d], o) IN
                 /\ IsInjective(q) /\ Range(q) \subseteq Range(Queue(d, o))
                 /\ \A w \in Range(Queue(d, o)) \ Range(q) :
                       ~ Live(w) \/ \E u \in W : u.task = w.task
                 /\ \A w \in W : ~ w.sel => w \notin Range(q)
      <3>1. CASE d \in C
        <4>1. QueueOf(chan'[d], o) = << >>
          BY <3>1, ClosesChannels, ZenonT(40)
        <4>2. \A w \in Range(Queue(d, o)) : ~ Live(w) \/ \E u \in W : u.task = w.task
          <5>1. PICK n \in 1 .. N : qs[n] = Queue(d, o)
            BY <1>2, <3>1, Zenon
          <5>2. \A w \in Range(qs[n]) : Live(w) => \E u \in W : u.task = w.task
            BY <1>6, Zenon
          <5> QED
            BY <5>1, <5>2, Zenon
        <4> QED
          BY <4>1, <4>2, EmptyFacts, Zenon
      <3>2. CASE d \notin C
        <4>1. QueueOf(chan'[d], o) = Queue(d, o)
          BY <3>2, ClosesChannels, Zenon DEF Queue
        <4>2. IsInjective(Queue(d, o))
          BY Zenon DEF LinkInv, WaitersLinked
        <4>3. ASSUME NEW w \in W PROVE w \notin Range(Queue(d, o))
          <5>1. PICK c \in C, op \in Ops : w \in Range(Queue(c, op))
            BY <1>8, Zenon
          <5>2. WaitersLinked /\ c \in Channels /\ c # d
            BY <1>1, <3>2, Zenon DEF LinkInv
          <5> QED
            BY <5>1, <5>2, LinkedOnce
        <4> QED
          BY <4>1, <4>2, <4>3, Zenon
      <3> QED
        BY <3>1, <3>2, Zenon
    <2> QED
      BY <1>6, <2>1, <2>2, Zenon DEF Released
  <1> QED
    BY <1>8, <1>9, <1>11, <1>12, Zenon DEF W

\* Closing channels keeps the links.
LEMMA ClosesKeepsLinks ==
    ASSUME LinkInv, NEW C, NEW qs, ClosesAll(C, qs)
    PROVE  LinkInv'
  <1> DEFINE W == FirstWaiters(qs)
  <1>1. \A c \in Channels :
           /\ chan'[c] \in ChannelRecords /\ Ring(chan'[c], c)
           /\ chan'[c].phase = chan[c].phase
           /\ c \notin C => chan'[c] = chan[c]
           /\ c \in C => \A op \in Ops : QueueOf(chan'[c], op) = << >>
    BY ClosesChannels, Zenon
  <1>2. /\ Released(W) /\ Woken(W)
        /\ tstate' \in [Tasks -> TaskStates] /\ done' \in SUBSET Tasks
        /\ result' \in [Tasks -> Results]
    BY ClosesReleases, Zenon
  <1> HIDE DEF W
  <1>3. UNCHANGED <<channel_registry, call, sends>>
    BY Zenon DEF ClosesAll
  <1>4. Types /\ Registered
    BY Zenon DEF LinkInv
  <1>5. \/ shutdown_requested' = shutdown_requested
        \/ shutdown_requested' = TRUE /\ C = Range(channel_registry)
    BY Zenon DEF ClosesAll
  <1>6. DoneIsWoken' /\ WaitersLinked' /\ ParkedLinked'
    BY <1>2, <1>3, ReleaseKeepsLinks, Zenon
  <1>7. Types'
    <2>1. chan' = [c \in Channels |-> chan'[c]]
      BY Zenon DEF ClosesAll
    <2>2. chan' \in [Channels -> ChannelRecords]
      BY <1>1, <2>1, Zenon
    <2>3. shutdown_requested' \in BOOLEAN
      BY <1>4, <1>5, Zenon DEF Types
    <2> QED
      BY <1>1, <1>2, <1>3, <1>4, <2>2, <2>3, Zenon DEF Types
  <1>8. InCall'
    <2> SUFFICES ASSUME NEW x \in Tasks, tstate'[x] # "running"
                 PROVE  tstate[x] # "running" /\ (tstate'[x] # "freed" => tstate[x] # "freed")
      BY <1>3, Zenon DEF LinkInv, InCall
    <2>1. CASE \E w \in W : w.task = x
      <3>1. PICK w \in W : w.task = x
        BY <2>1, Zenon
      <3>2. PICK d \in Channels, o \in Ops : w \in Range(Queue(d, o))
        BY <1>2, Zenon DEF Released
      <3>3. Live(w)
        BY <1>2, Zenon DEF Released
      <3>4. tstate[x] = "waiting_channel"
        BY <3>1, <3>2, <3>3, LinkedFacts, Zenon DEF Linked
      <3> QED
        BY <3>4
    <2>2. CASE \A w \in W : w.task # x
      BY <1>2, <2>2, Zenon DEF Woken
    <2> QED
      BY <2>1, <2>2, Zenon
  <1>9. Drained'
    <2> SUFFICES ASSUME NEW c \in Channels, NEW op \in Ops,
                        shutdown_requested' \/ chan'[c].closed \/ chan'[c].phase # "live"
                 PROVE  QueueOf(chan'[c], op) = << >>
      BY Zenon DEF Drained, Queue
    <2>1. CASE c \in C
      BY <1>1, <2>1, Zenon
    <2>2. CASE c \notin C
      <3>1. chan'[c] = chan[c]
        BY <1>1, <2>2, Zenon
      <3>2. shutdown_requested \/ chan[c].closed \/ chan[c].phase # "live"
        BY <1>4, <1>5, <2>2, <3>1, Zenon DEF Registered
      <3> QED
        BY <3>1, <3>2, Zenon DEF LinkInv, Drained, Queue
    <2> QED
      BY <2>1, <2>2, Zenon
  <1>10. Registered'
    BY <1>1, <1>3, <1>4, Zenon DEF Registered
  <1> QED
    BY <1>6, <1>7, <1>8, <1>9, <1>10, Zenon DEF LinkInv
-----------------------------------------------------------------------------
(***************************************************************************)
(* Channels come and go, tasks are freed.                                  *)
(***************************************************************************)
\* Channel c gets another phase.
Rephased(c, p) ==
    /\ chan' = [chan EXCEPT ![c].phase = p]
    /\ UNCHANGED <<shutdown_requested, taskVars, sends, accepted, received>>

\* The rest of the channel, and the other channels, are as they were.
LEMMA RephasedEffect ==
    ASSUME LinkInv, NEW c \in Channels, NEW p \in Phases, Rephased(c, p), NEW d \in Channels
    PROVE  /\ chan'[d] \in ChannelRecords /\ Ring(chan'[d], d)
           /\ Held(chan'[d], d) = Held(chan[d], d) /\ chan'[d].len = chan[d].len
           /\ chan'[d].phase = IF d = c THEN p ELSE chan[d].phase
           /\ chan'[d].closed = chan[d].closed
           /\ \A op \in Ops : QueueOf(chan'[d], op) = QueueOf(chan[d], op)
  <1>1. chan \in [Channels -> ChannelRecords] /\ Ring(chan[d], d)
    BY Zenon DEF LinkInv, Types
  <1>2. chan' = [chan EXCEPT ![c] = [chan[c] EXCEPT !.phase = p]]
    BY Zenon DEF Rephased
  <1>3. CASE d = c
    <2> DEFINE k == chan[c]
               sq == k.send_waiters
               rq == k.recv_waiters
               l == Updated(k, p, k.closed, sq, rq)
    <2>1. chan'[c] = [k EXCEPT !.phase = p]
      BY <1>1, <1>2, Zenon
    <2>2. k \in ChannelRecords
      BY <1>1, Zenon
    <2>3. chan'[c] = l
      BY <2>1, <2>2, UpdateForms, Zenon
    <2>4. k.closed \in BOOLEAN /\ sq \in Seq(Waiters) /\ rq \in Seq(Waiters)
      BY <2>2, ChannelFields, Zenon
    <2>5. Ring(k, c)
      BY <1>1, <1>3, Zenon
    <2> HIDE DEF k, sq, rq
    <2>6. /\ l \in ChannelRecords
          /\ l.phase = p /\ l.closed = k.closed /\ l.len = k.len
          /\ l.send_waiters = sq /\ l.recv_waiters = rq
          /\ Ring(k, c) => Ring(l, c)
          /\ Held(l, c) = Held(k, c)
      BY <2>2, <2>4, UpdateFacts
    <2> HIDE DEF l
    <2>7. \A op \in Ops : QueueOf(l, op) = QueueOf(k, op)
      BY <2>6, TwoOps, Zenon DEF sq, rq
    <2> QED
      BY <1>3, <2>3, <2>5, <2>6, <2>7, Zenon DEF k
  <1>4. CASE d # c
    <2>1. chan'[d] = chan[d]
      BY <1>1, <1>2, <1>4, Zenon
    <2> QED
      BY <1>1, <1>4, <2>1, Zenon
  <1> QED
    BY <1>3, <1>4, Zenon

\* Creating and destroying a channel keeps the links: its queues are empty.
LEMMA RephasedKeepsLinks ==
    ASSUME LinkInv, NEW c \in Channels, NEW p \in Phases, Rephased(c, p),
           \A op \in Ops : Queue(c, op) = << >>,
           channel_registry' \in Seq(Channels), Registered'
    PROVE  LinkInv'
  <1>1. \A d \in Channels :
           /\ chan'[d] \in ChannelRecords /\ Ring(chan'[d], d)
           /\ d # c => chan'[d].phase = chan[d].phase
           /\ chan'[d].closed = chan[d].closed
           /\ \A op \in Ops : QueueOf(chan'[d], op) = QueueOf(chan[d], op)
    BY RephasedEffect, Zenon
  <1>2. UNCHANGED <<tstate, call, done, result, sends, shutdown_requested>>
    BY Zenon DEF Rephased, taskVars
  <1>3. Types
    BY Zenon DEF LinkInv
  <1>4. DoneIsWoken' /\ WaitersLinked' /\ ParkedLinked'
    <2>1. Woken({})
      BY <1>2, <1>3, Zenon DEF Woken, Types
    <2>2. Released({})
      BY <1>1, Zenon DEF Released, Queue, LinkInv, WaitersLinked
    <2> QED
      BY <1>2, <2>1, <2>2, ReleaseKeepsLinks, Zenon
  <1>5. Drained'
    <2> SUFFICES ASSUME NEW d \in Channels, NEW op \in Ops,
                        shutdown_requested' \/ chan'[d].closed \/ chan'[d].phase # "live"
                 PROVE  QueueOf(chan'[d], op) = << >>
      BY Zenon DEF Drained, Queue
    <2>1. Queue(d, op) = << >>
      BY <1>1, <1>2, Zenon DEF LinkInv, Drained
    <2> QED
      BY <1>1, <2>1, Zenon DEF Queue
  <1>6. Types'
    <2>1. chan' = [d \in Channels |-> chan'[d]]
      BY <1>3, Zenon DEF Rephased, Types
    <2>2. chan' \in [Channels -> ChannelRecords]
      BY <1>1, <2>1, Zenon
    <2> QED
      BY <1>1, <1>2, <1>3, <2>2, Zenon DEF Types
  <1>7. InCall'
    BY <1>2, Zenon DEF LinkInv, InCall
  <1> QED
    BY <1>4, <1>5, <1>6, <1>7, Zenon DEF LinkInv

\* A channel that is created, or destroyed, has nobody waiting and is registered, or
\* not registered any more.
LEMMA CreateEffect ==
    ASSUME LinkInv, NEW c \in Channels, croutine_channel_create(c)
    PROVE  /\ Rephased(c, "live") /\ \A op \in Ops : Queue(c, op) = << >>
           /\ channel_registry' \in Seq(Channels) /\ Registered'
  <1>1. Rephased(c, "live")
    BY Zenon DEF Rephased, croutine_channel_create
  <1>2. "live" \in Phases /\ chan[c].phase # "live"
    <2>1. chan[c].phase = "none"
      BY Zenon DEF croutine_channel_create
    <2> QED
      BY <2>1 DEF Phases
  <1>3. \A op \in Ops : Queue(c, op) = << >>
    BY <1>2, Zenon DEF LinkInv, Drained
  <1>4. \A d \in Channels : chan'[d].phase = IF d = c THEN "live" ELSE chan[d].phase
    BY <1>1, <1>2, RephasedEffect, Zenon
  <1>5. channel_registry \in Seq(Channels)
    BY Zenon DEF LinkInv, Types
  <1> DEFINE s == <<c>>
  <1>6. s \in Seq(Channels) /\ Range(s) = {c}
    BY DEF Range
  <1>7. channel_registry' = s \o channel_registry
    BY Zenon DEF croutine_channel_create
  <1> HIDE DEF s
  <1>8. /\ channel_registry' \in Seq(Channels)
        /\ Range(channel_registry') = {c} \cup Range(channel_registry)
    <2>1. /\ s \o channel_registry \in Seq(Channels)
          /\ Range(s \o channel_registry) = Range(s) \cup Range(channel_registry)
      BY <1>5, <1>6, ConcatFacts, ZenonT(40)
    <2> QED
      BY <1>6, <1>7, <2>1, Zenon
  <1>9. Range(channel_registry) = {d \in Channels : chan[d].phase = "live"}
    BY Zenon DEF LinkInv, Registered
  <1>10. Registered'
    <2>1. {d \in Channels : chan'[d].phase = "live"} = {c} \cup Range(channel_registry)
      BY <1>4, <1>9, Zenon
    <2> QED
      BY <1>8, <2>1, Zenon DEF Registered
  <1> QED
    BY <1>1, <1>3, <1>8, <1>10, Zenon

\* A channel is destroyed when nobody waits on it, and is registered no more.
LEMMA DestroyEffect ==
    ASSUME LinkInv, NEW c \in Channels, croutine_channel_destroy(c)
    PROVE  /\ Rephased(c, "gone") /\ \A op \in Ops : Queue(c, op) = << >>
           /\ channel_registry' \in Seq(Channels) /\ Registered'
  <1>1. Rephased(c, "gone")
    BY Zenon DEF Rephased, croutine_channel_destroy
  <1>2. "gone" \in Phases /\ "gone" # "live"
    BY DEF Phases
  <1>3. \A op \in Ops : Queue(c, op) = << >>
    BY TwoOps, Zenon DEF croutine_channel_destroy, Queue
  <1>4. \A d \in Channels : chan'[d].phase = IF d = c THEN "gone" ELSE chan[d].phase
    BY <1>1, <1>2, RephasedEffect, Zenon
  <1>5. channel_registry \in Seq(Channels)
    BY Zenon DEF LinkInv, Types
  <1>6. channel_registry' = Keep(channel_registry, Channels \ {c})
    BY Zenon DEF croutine_channel_destroy
  <1>7. /\ channel_registry' \in Seq(Channels)
        /\ Range(channel_registry') = Range(channel_registry) \cap (Channels \ {c})
    BY <1>5, <1>6, KeepFacts, Zenon
  <1>8. Range(channel_registry) = {d \in Channels : chan[d].phase = "live"}
    BY Zenon DEF LinkInv, Registered
  <1>9. Registered'
    <2>1. {d \in Channels : chan'[d].phase = "live"}
             = Range(channel_registry) \cap (Channels \ {c})
      BY <1>2, <1>4, <1>8
    <2> QED
      BY <1>7, <2>1, Zenon DEF Registered
  <1> QED
    BY <1>1, <1>3, <1>7, <1>9, Zenon

\* Freeing a task keeps the links: after shutdown nothing is linked.
LEMMA FreeTaskKeepsLinks ==
    ASSUME LinkInv, NEW t \in Tasks, FreeTask(t)
    PROVE  LinkInv'
  <1>1. /\ shutdown_requested /\ tstate[t] = "runnable"
        /\ tstate' = [tstate EXCEPT ![t] = "freed"]
        /\ UNCHANGED <<chan, channel_registry, shutdown_requested, call, done, result, sends>>
    BY Zenon DEF FreeTask, chanVars
  <1>2. Types
    BY Zenon DEF LinkInv
  <1>3. tstate'[t] = "freed" /\ \A x \in Tasks : x # t => tstate'[x] = tstate[x]
    BY <1>1, <1>2, Zenon DEF Types
  <1>4. \A c \in Channels, op \in Ops : Queue(c, op) = << >> /\ QueueOf(chan'[c], op) = << >>
    BY <1>1, Zenon DEF LinkInv, Drained, Queue
  <1>5. Types'
    <2>1. "freed" \in TaskStates
      BY DEF TaskStates
    <2>2. tstate' \in [Tasks -> TaskStates]
      BY <1>1, <1>2, <2>1, Zenon DEF Types
    <2> QED
      BY <1>1, <1>2, <2>2, Zenon DEF Types
  <1>6. InCall'
    <2> SUFFICES ASSUME NEW x \in Tasks, tstate'[x] # "running"
                 PROVE  tstate[x] # "running" /\ (tstate'[x] # "freed" => tstate[x] # "freed")
      BY <1>1, Zenon DEF LinkInv, InCall
    <2> QED
      BY <1>1, <1>3
  <1>7. DoneIsWoken'
    <2> SUFFICES ASSUME NEW x \in done
                 PROVE  tstate'[x] \in {"runnable", "freed"} /\ call[x].sel
      BY <1>1, Zenon DEF DoneIsWoken
    <2>1. x \in Tasks /\ tstate[x] \in {"runnable", "freed"} /\ call[x].sel
      BY <1>2, Zenon DEF LinkInv, DoneIsWoken, Types
    <2> QED
      BY <1>3, <2>1, Zenon
  <1>8. WaitersLinked'
    BY <1>4, EmptyFacts, Zenon DEF WaitersLinked, Queue
  <1>9. ParkedLinked'
    <2> SUFFICES ASSUME NEW x \in Tasks, tstate'[x] = "waiting_channel" PROVE FALSE
      BY Zenon DEF ParkedLinked
    <2>1. tstate[x] = "waiting_channel"
      BY <1>3
    <2>2. call[x] \in Calls
      BY <2>1 DEF LinkInv, InCall
    <2>3. PICK i \in RealCases(call[x]) :
             Waiter(x, i) \in Range(Queue(call[x].cases[i].ch, call[x].cases[i].op))
      BY <2>1, Zenon DEF LinkInv, ParkedLinked
    <2>4. call[x].cases[i].ch \in Channels /\ call[x].cases[i].op \in Ops
      BY <2>2, CallFacts, Zenon
    <2> QED
      BY <1>4, <2>3, <2>4, EmptyFacts, Zenon
  <1>10. Drained' /\ Registered'
    BY <1>1, <1>4, Zenon DEF LinkInv, Drained, Registered, Queue
  <1> QED
    BY <1>5, <1>6, <1>7, <1>8, <1>9, <1>10, Zenon DEF LinkInv
-----------------------------------------------------------------------------
(***************************************************************************)
(* The steps of the specification, and the links in every state.           *)
(***************************************************************************)
\* A step that drops dead waiters at most.
Quiet ==
    /\ chan' = [c \in Channels |-> chan'[c]]
    /\ \A c \in Channels : Trimmed(chan[c], chan'[c])
    /\ UNCHANGED <<channel_registry, shutdown_requested, taskVars, sends, accepted, received>>

\* Every step is one of seven kinds.
Kinds ==
    \/ \E t \in Tasks, c \in Channels, op \in Ops : \E k, r : FiredBy(t, c, op, k, r)
    \/ Quiet
    \/ \E t \in Tasks, cl \in Calls : Parks(t, cl)
    \/ \E t \in Tasks : Resume(t)
    \/ \E t \in Tasks : FreeTask(t)
    \/ \E C, qs : ClosesAll(C, qs)
    \/ \E c \in Channels, p \in Phases :
          /\ Rephased(c, p) /\ \A op \in Ops : Queue(c, op) = << >>
          /\ channel_registry' \in Seq(Channels) /\ Registered'

\* One step for each action of Next.
LEMMA StepKinds ==
    ASSUME LinkInv, [Next]_vars
    PROVE  Kinds
  <1>1. \A c \in Channels, op \in Ops : Regular(c, op) \in Calls
    BY DEF Calls
  <1>2. \A cases \in SelectCalls : Select(cases) \in Calls
    BY DEF Calls
  <1>3. ASSUME NEW t \in Tasks, NEW cl \in Calls, Fires(t, cl) PROVE Kinds
    BY <1>3, FiresEffect, Zenon DEF Kinds
  <1>4. ASSUME NEW t \in Tasks, NEW cl \in Calls, NoTransfer(t, cl) PROVE Kinds
    BY <1>4, NoTransferTrims, Zenon DEF Kinds, Quiet
  <1>5. ASSUME NEW t \in Tasks, NEW cl \in Calls, Parks(t, cl) PROVE Kinds
    BY <1>5, Zenon DEF Kinds
  <1>6. ASSUME NEW t \in Tasks, NEW c \in Channels, croutine_channel_send(t, c) PROVE Kinds
    BY <1>1, <1>3, <1>5, <1>6, TwoOps, Zenon DEF croutine_channel_send
  <1>7. ASSUME NEW t \in Tasks, NEW c \in Channels, croutine_channel_recv(t, c) PROVE Kinds
    BY <1>1, <1>3, <1>5, <1>7, TwoOps, Zenon DEF croutine_channel_recv
  <1>8. ASSUME NEW t \in Tasks, NEW c \in Channels, croutine_channel_try_send(t, c) PROVE Kinds
    BY <1>1, <1>4, <1>8, TwoOps, Zenon DEF croutine_channel_try_send
  <1>9. ASSUME NEW t \in Tasks, NEW c \in Channels, croutine_channel_try_recv(t, c) PROVE Kinds
    BY <1>1, <1>4, <1>9, TwoOps, Zenon DEF croutine_channel_try_recv
  <1>10. ASSUME NEW t \in Tasks, NEW cases \in SelectCalls, croutine_select(t, cases) PROVE Kinds
    BY <1>2, <1>3, <1>4, <1>5, <1>10, Zenon DEF croutine_select
  <1>11. ASSUME NEW t \in Tasks, Resume(t) \/ FreeTask(t) PROVE Kinds
    BY <1>11, Zenon DEF Kinds
  <1>12. ASSUME NEW c \in Channels, croutine_channel_close(c) PROVE Kinds
    BY <1>12, CloseCloses, Zenon DEF Kinds
  <1>13. ASSUME NEW c \in Channels, croutine_channel_create(c) PROVE Kinds
    <2>1. "live" \in Phases
      BY DEF Phases
    <2> QED
      BY <1>13, <2>1, CreateEffect, Zenon DEF Kinds
  <1>14. ASSUME NEW c \in Channels, croutine_channel_destroy(c) PROVE Kinds
    <2>1. "gone" \in Phases
      BY DEF Phases
    <2> QED
      BY <1>14, <2>1, DestroyEffect, Zenon DEF Kinds
  <1>15. ASSUME ShutdownAll PROVE Kinds
    BY <1>15, ShutdownCloses, Zenon DEF Kinds
  <1>16. ASSUME UNCHANGED vars PROVE Kinds
    <2>1. /\ UNCHANGED chan
          /\ UNCHANGED <<channel_registry, shutdown_requested, taskVars, sends, accepted, received>>
      BY <1>16, Zenon DEF vars, chanVars
    <2>2. chan \in [Channels -> ChannelRecords]
      BY Zenon DEF LinkInv, Types
    <2>3. \A c \in Channels : Trimmed(chan[c], chan'[c])
      BY <2>1, <2>2, Zenon DEF Trimmed
    <2>4. chan' = [c \in Channels |-> chan'[c]]
      BY <2>1, <2>2, Zenon
    <2> QED
      BY <2>1, <2>3, <2>4, Zenon DEF Kinds, Quiet
  <1> QED
    BY <1>6, <1>7, <1>8, <1>9, <1>10, <1>11, <1>12, <1>13, <1>14, <1>15, <1>16, ZenonT(40) DEF Next

\* Every kind of step keeps the links.
LEMMA StepKeepsLinks ==
    ASSUME LinkInv, Kinds
    PROVE  LinkInv'
  <1>1. ASSUME NEW t \in Tasks, NEW c \in Channels, NEW op \in Ops, NEW k, NEW r,
               FiredBy(t, c, op, k, r)
        PROVE  LinkInv'
    BY <1>1, FiredKeepsLinks
  <1>2. ASSUME Quiet PROVE LinkInv'
    BY <1>2, TrimsKeepLinks, Zenon DEF Quiet
  <1>3. ASSUME NEW t \in Tasks, NEW cl \in Calls, Parks(t, cl) PROVE LinkInv'
    BY <1>3, ParksKeepsLinks, Zenon
  <1>4. ASSUME NEW t \in Tasks, Resume(t) PROVE LinkInv'
    BY <1>4, ResumeKeepsLinks, Zenon
  <1>5. ASSUME NEW t \in Tasks, FreeTask(t) PROVE LinkInv'
    BY <1>5, FreeTaskKeepsLinks, Zenon
  <1>6. ASSUME NEW C, NEW qs, ClosesAll(C, qs) PROVE LinkInv'
    BY <1>6, ClosesKeepsLinks, Zenon
  <1>7. ASSUME NEW c \in Channels, NEW p \in Phases, Rephased(c, p),
               \A op \in Ops : Queue(c, op) = << >>,
               channel_registry' \in Seq(Channels), Registered'
        PROVE  LinkInv'
    BY <1>7, RephasedKeepsLinks
  <1> QED
    BY <1>1, <1>2, <1>3, <1>4, <1>5, <1>6, <1>7, Zenon DEF Kinds

\* At the start no channel exists and no task waits.
LEMMA InitLinks ==
    ASSUME Init
    PROVE  LinkInv
  <1> DEFINE fresh(c) == [phase |-> "none", closed |-> FALSE,
                          buffer |-> [i \in 0 .. Capacity[c] - 1 |-> NoValue],
                          head |-> 0, tail |-> 0, len |-> 0,
                          send_waiters |-> << >>, recv_waiters |-> << >>]
  <1>1. chan = [c \in Channels |-> fresh(c)]
    BY Zenon DEF Init
  <1>2. ASSUME NEW c \in Channels
        PROVE  /\ chan[c] \in ChannelRecords /\ Ring(chan[c], c) /\ chan[c].phase = "none"
               /\ \A op \in Ops : Queue(c, op) = << >>
    <2> DEFINE buffer == [i \in 0 .. Capacity[c] - 1 |-> NoValue]
               none == << >>
               flag == FALSE
               k == [phase |-> "none", closed |-> flag, buffer |-> buffer,
                     head |-> 0, tail |-> 0, len |-> 0,
                     send_waiters |-> none, recv_waiters |-> none]
    <2>1. chan[c] = k
      BY <1>1, Zenon
    <2>2. Capacity[c] \in Nat
      BY ChannelAssumption, Zenon
    <2>3. buffer \in [0 .. Capacity[c] - 1 -> Contained]
      BY Zenon DEF Contained
    <2>4. "none" \in Phases /\ flag \in BOOLEAN /\ none \in Seq(Waiters) /\ 0 \in Nat
      BY DEF Phases
    <2> HIDE DEF buffer, none, flag
    <2>5. buffer \in UNION {[0 .. n - 1 -> Contained] : n \in Nat}
      BY <2>2, <2>3
    <2>6. k \in ChannelRecords
      BY <2>4, <2>5, ChannelRecord, Zenon
    <2>7. Ring(k, c) /\ k.phase = "none"
      BY <2>2, <2>3 DEF Ring
    <2>8. k.send_waiters = none /\ k.recv_waiters = none
      BY Zenon
    <2> HIDE DEF k
    <2> QED
      BY <2>1, <2>6, <2>7, <2>8, TwoOps, Zenon DEF Queue, none
  <1>3. channel_registry = << >> /\ shutdown_requested = FALSE
    BY Zenon DEF Init
  <1>4. /\ tstate = [t \in Tasks |-> "running"] /\ call = [t \in Tasks |-> NoCall] /\ done = {}
        /\ result = [t \in Tasks |-> NoResult] /\ sends = [t \in Tasks |-> 0]
    BY Zenon DEF Init
  <1>5. Types
    <2>1. chan \in [Channels -> ChannelRecords]
      BY <1>1, <1>2, Zenon
    <2>2. channel_registry \in Seq(Channels) /\ shutdown_requested \in BOOLEAN
      <3>1. << >> \in Seq(Channels)
        OBVIOUS
      <3> QED
        BY <1>3, <3>1, Zenon
    <2>3. "running" \in TaskStates /\ NoResult \in Results /\ 0 \in 0 .. MaxSends
      BY ChannelAssumption DEF TaskStates, NoResult, Results, Statuses, Contained
    <2>4. /\ tstate \in [Tasks -> TaskStates] /\ call \in [Tasks -> Calls \cup {NoCall}]
          /\ done \in SUBSET Tasks /\ result \in [Tasks -> Results]
          /\ sends \in [Tasks -> 0 .. MaxSends]
      BY <1>4, <2>3, Zenon
    <2> QED
      BY <1>2, <2>1, <2>2, <2>4, Zenon DEF Types
  <1>6. InCall /\ DoneIsWoken /\ ParkedLinked
    BY <1>4 DEF InCall, DoneIsWoken, ParkedLinked
  <1>7. WaitersLinked /\ Drained
    BY <1>2, EmptyFacts, Zenon DEF WaitersLinked, Drained
  <1>8. Registered
    <2>1. {c \in Channels : chan[c].phase = "live"} = {}
      BY <1>2
    <2> QED
      BY <1>3, <2>1, EmptyFacts, Zenon DEF Registered
  <1> QED
    BY <1>5, <1>6, <1>7, <1>8, Zenon DEF LinkInv
=============================================================================
