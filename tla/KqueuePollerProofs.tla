------------------------- MODULE KqueuePollerProofs -------------------------
(***************************************************************************)
(* Proofs about the kqueue poller (module KqueuePoller): filters match the *)
(* waits, and no edge is lost.                                             *)
(***************************************************************************)
EXTENDS KqueuePoller, WellFoundedInduction, TLAPS

\* A descriptor that is about to be closed has no waiters: worker_forget_fd woke
\* them, and nobody parks on it any more.
ClosingIsIdle == \A fd \in closing : io_wait_entry_events(waits[fd]) = {}

\* The worker holds a batch or events only between the steps that fill and empty
\* them, and bytes in the pipe are announced by an edge or were just reported.
WorkerInv ==
    /\ batch # {} => pc = "returned"
    /\ events # {} => pc = "translated"
    /\ pipe > 0 => Wake \in Range(active) \/ Wake \in batch

\* The edge for event e of fd is somewhere on its way to the wait table.
HasEdge(fd, e) ==
    \/ <<fd, e>> \in Range(active)
    \/ \E b \in batch \ {Wake} : b.fd = fd /\ e \in translate_ready_event(b)
    \/ \E v \in events : v.fd = fd /\ e \in v.events

WaitHasEdge ==
    \A fd \in Fds, e \in Events :
       waits[fd][e] # NoTask /\ Holds(e, conditions[fd]) => HasEdge(fd, e)

\* The inductive invariant.
KqueueInv == TypeOK /\ FiltersMatchWaits /\ ClosingIsIdle /\ WorkerInv /\ WaitHasEdge

Filters == (Fds \X Events) \cup {Wake}
-----------------------------------------------------------------------------
(***************************************************************************)
(* Sequences.                                                              *)
(***************************************************************************)
\* Every set of natural numbers that is not empty has a least element.
LEMMA Least ==
    ASSUME NEW T \in SUBSET Nat, T # {}
    PROVE  \E x \in T : \A y \in T : x <= y
  <1>1. PICK x \in T : \A y \in T : ~ (<<y, x>> \in OpToRel(<, Nat))
    BY NatLessThanWellFounded, WFMin, Zenon
  <1>2. \A y \in T : ~ (y < x)
    BY <1>1 DEF OpToRel
  <1> QED
    BY <1>2

\* Induction up to N, for a set of numbers.
LEMMA UpTo ==
    ASSUME NEW N \in Nat, NEW G, 0 \in G,
           \A n \in 1 .. N : n - 1 \in G => n \in G
    PROVE  \A n \in 0 .. N : n \in G
  <1> DEFINE Bad == (0 .. N) \ G
  <1>1. SUFFICES ASSUME Bad # {} PROVE FALSE
    OBVIOUS
  <1>2. Bad \in SUBSET Nat
    OBVIOUS
  <1> HIDE DEF Bad
  <1>3. PICK m \in Bad : \A y \in Bad : m <= y
    BY <1>1, <1>2, Least
  <1>4. m \in 1 .. N /\ m \notin G
    BY DEF Bad
  <1>5. m - 1 \in Bad
    BY <1>4 DEF Bad
  <1> QED
    BY <1>3, <1>4, <1>5

\* f is v at 0 and follows from its value one below everywhere else.
DefinedBy(f, N, v, step) == f[0] = v /\ \A n \in 1 .. N : f[n] = step[<<n, f[n - 1]>>]

\* A function on 0 .. N may be defined from its value at 0 and a step.
LEMMA RecursionUpTo ==
    ASSUME NEW N \in Nat, NEW V, NEW v \in V, NEW step \in [(1 .. N) \X V -> V]
    PROVE  \E f \in [0 .. N -> V] : DefinedBy(f, N, v, step)
  <1> USE DEF DefinedBy
  <1> DEFINE Solves(f, m) == DefinedBy(f, m, v, step)
             G == {m \in 0 .. N : \E f \in [0 .. m -> V] : Solves(f, m)}
  <1>1. 0 \in G
    <2> DEFINE h == [n \in 0 .. 0 |-> v]
    <2>1. h \in [0 .. 0 -> V] /\ Solves(h, 0)
      OBVIOUS
    <2> HIDE DEF h
    <2> QED
      BY <2>1
  <1>2. ASSUME NEW m \in 1 .. N, m - 1 \in G PROVE m \in G
    <2>1. PICK f \in [0 .. m - 1 -> V] : Solves(f, m - 1)
      BY <1>2
    <2> DEFINE g == [n \in 0 .. m |-> IF n = m THEN step[<<m, f[m - 1]>>] ELSE f[n]]
    <2>2. f[m - 1] \in V /\ <<m, f[m - 1]>> \in (1 .. N) \X V
      BY <2>1
    <2>3. g \in [0 .. m -> V]
      BY <2>2
    <2>4. g[0] = v /\ g[m] = step[<<m, f[m - 1]>>]
      BY <2>1
    <2>5. \A n \in 0 .. m - 1 : g[n] = f[n]
      OBVIOUS
    <2> HIDE DEF g
    <2>6. Solves(g, m)
      <3>1. ASSUME NEW n \in 1 .. m PROVE g[n] = step[<<n, g[n - 1]>>]
        <4>1. n - 1 \in 0 .. m - 1 /\ g[n - 1] = f[n - 1]
          BY <2>5
        <4>2. CASE n = m
          BY <2>4, <4>1, <4>2
        <4>3. CASE n # m
          <5>1. n \in 1 .. m - 1 /\ n \in 0 .. m - 1
            BY <4>3
          <5>2. g[n] = f[n] /\ f[n] = step[<<n, f[n - 1]>>]
            BY <2>1, <2>5, <5>1
          <5> QED
            BY <4>1, <5>2
        <4> QED
          BY <4>2, <4>3
      <3> QED
        BY <2>4, <3>1
    <2> QED
      BY <2>3, <2>6
  <1>3. \A m \in 0 .. N : m \in G
    <2> HIDE DEF G
    <2> QED
      BY <1>1, <1>2, UpTo
  <1>4. N \in G
    <2> HIDE DEF G
    <2> QED
      BY <1>3
  <1> QED
    BY <1>4

\* `kept' says what Keep keeps of the first n elements of q, for every n.
IsKept(kept, q, S) ==
    /\ kept[0] = << >>
    /\ \A n \in 1 .. Len(q) :
          kept[n] = IF q[n] \in S THEN Append(kept[n - 1], q[n]) ELSE kept[n - 1]

\* The function behind Keep exists.
LEMMA KeepUnfolds ==
    ASSUME NEW X, NEW q \in Seq(X), NEW S
    PROVE  \E kept : /\ DOMAIN kept = 0 .. Len(q)
                     /\ Keep(q, S) = kept[Len(q)]
                     /\ IsKept(kept, q, S)
  <1> DEFINE N == Len(q)
             V == Seq(X)
             Longer(n, r) == IF q[n] \in S THEN Append(r, q[n]) ELSE r
             step == [p \in (1 .. N) \X V |-> Longer(p[1], p[2])]
             Value0(k, n) == IF n = 0 THEN << >>
                             ELSE IF q[n] \in S THEN Append(k[n - 1], q[n]) ELSE k[n - 1]
             Solves(k) == k = [n \in 0 .. N |-> Value0(k, n)]
             kept == CHOOSE k : Solves(k)
  <1>1. N \in Nat /\ << >> \in V /\ \A n \in 1 .. N : q[n] \in X
    OBVIOUS
  <1>2. \A s \in V, x \in X : Append(s, x) \in V
    OBVIOUS
  <1>3. Keep(q, S) = kept[N]
    BY DEF Keep
  <1> HIDE DEF N, V
  <1>4. \A n \in 1 .. N, s \in V : Longer(n, s) \in V
    BY <1>1, <1>2, Zenon
  <1>5. \A k, n : n # 0 => Value0(k, n) = Longer(n, k[n - 1])
    OBVIOUS
  <1>6. \A k : Value0(k, 0) = << >>
    OBVIOUS
  <1> HIDE DEF Longer, Value0
  <1>7. step \in [(1 .. N) \X V -> V] /\ \A n \in 1 .. N, s \in V : step[<<n, s>>] = Longer(n, s)
    BY <1>4
  <1> HIDE DEF step
  <1>8. PICK f \in [0 .. N -> V] : DefinedBy(f, N, << >>, step)
    BY <1>1, <1>7, RecursionUpTo, Zenon
  <1>9. \A n \in 0 .. N : f[n] = Value0(f, n)
    <2> TAKE n \in 0 .. N
    <2>1. CASE n = 0
      BY <1>6, <1>8, <2>1 DEF DefinedBy
    <2>2. CASE n # 0
      <3>1. n \in 1 .. N /\ n - 1 \in 0 .. N
        BY <1>1, <2>2
      <3>2. f[n - 1] \in V
        BY <1>8, <3>1
      <3>3. f[n] = step[<<n, f[n - 1]>>] /\ step[<<n, f[n - 1]>>] = Longer(n, f[n - 1])
        BY <1>7, <1>8, <3>1, <3>2, Zenon DEF DefinedBy
      <3> QED
        BY <1>5, <2>2, <3>3, Zenon
    <2> QED
      BY <2>1, <2>2
  <1>10. Solves(f)
    BY <1>9
  <1>11. Solves(kept)
    BY <1>10
  <1> HIDE DEF kept
  <1>12. DOMAIN kept = 0 .. N /\ \A n \in 0 .. N : kept[n] = Value0(kept, n)
    BY <1>11
  <1>13. kept[0] = << >>
    BY <1>1, <1>6, <1>12
  <1>14. \A n \in 1 .. N : kept[n] = IF q[n] \in S THEN Append(kept[n - 1], q[n])
                                     ELSE kept[n - 1]
    <2> TAKE n \in 1 .. N
    <2>1. n \in 0 .. N /\ n # 0
      BY <1>1
    <2>2. kept[n] = Longer(n, kept[n - 1])
      BY <1>5, <1>12, <2>1, Zenon
    <2> QED
      BY <2>2, Zenon DEF Longer
  <1>15. IsKept(kept, q, S)
    BY <1>13, <1>14, Zenon DEF IsKept, N
  <1> QED
    BY <1>3, <1>12, <1>15, Zenon DEF N

\* The empty sequence contains nothing.
LEMMA EmptyRange == Range(<< >>) = {}
  BY DEF Range

\* One element more at the end of a sequence.
LEMMA AppendFacts ==
    ASSUME NEW X, NEW s \in Seq(X), NEW x \in X
    PROVE  /\ Append(s, x) \in Seq(X)
           /\ Range(Append(s, x)) = Range(s) \cup {x}
  <1> DEFINE p == Append(s, x)
  <1>1. /\ p \in Seq(X) /\ Len(s) \in Nat
        /\ DOMAIN s = 1 .. Len(s) /\ DOMAIN p = 1 .. Len(s) + 1
        /\ \A i \in 1 .. Len(s) : p[i] = s[i]
        /\ p[Len(s) + 1] = x
    OBVIOUS
  <1> HIDE DEF p
  <1>2. Range(p) = Range(s) \cup {x}
    BY <1>1 DEF Range
  <1> QED
    BY <1>1, <1>2 DEF p

\* Keep keeps the elements that are in S.
LEMMA KeepFacts ==
    ASSUME NEW X, NEW q \in Seq(X), NEW S
    PROVE  /\ Keep(q, S) \in Seq(X)
           /\ Range(Keep(q, S)) = Range(q) \cap S
  <1>1. PICK kept : /\ DOMAIN kept = 0 .. Len(q)
                    /\ Keep(q, S) = kept[Len(q)]
                    /\ IsKept(kept, q, S)
    BY KeepUnfolds, Zenon
  <1> DEFINE N == Len(q)
             V == Seq(X)
             First(n) == {q[i] : i \in 1 .. n}
             Good(n) == kept[n] \in V /\ Range(kept[n]) = First(n) \cap S
             G == {n \in 0 .. N : Good(n)}
  <1>2. N \in Nat /\ DOMAIN q = 1 .. N /\ \A i \in 1 .. N : q[i] \in X
    OBVIOUS
  <1>3. kept[0] = << >>
    BY <1>1, Zenon DEF IsKept
  <1>4. << >> \in V
    OBVIOUS
  <1>5. \A n \in 1 .. N : kept[n] = IF q[n] \in S THEN Append(kept[n - 1], q[n])
                                    ELSE kept[n - 1]
    BY <1>1, Zenon DEF IsKept
  <1>6. First(N) = Range(q)
    BY <1>2, Zenon DEF Range
  <1> HIDE DEF N
  <1>7. 0 \in G
    <2>1. First(0) = {}
      OBVIOUS
    <2> HIDE DEF First, V
    <2>2. Good(0)
      BY <1>3, <1>4, <2>1, EmptyRange, Zenon
    <2> HIDE DEF Good
    <2> QED
      BY <1>2, <2>2
  <1>8. ASSUME NEW n \in 1 .. N, n - 1 \in G PROVE n \in G
    <2>1. Good(n - 1) /\ q[n] \in X /\ n \in 0 .. N
      BY <1>2, <1>8
    <2>2. First(n) = First(n - 1) \cup {q[n]}
      BY <1>2
    <2> HIDE DEF First
    <2>3. CASE q[n] \in S
      <3>1. kept[n] = Append(kept[n - 1], q[n])
        BY <1>5, <2>3, Zenon
      <3>2. kept[n] \in V /\ Range(kept[n]) = Range(kept[n - 1]) \cup {q[n]}
        <4> DEFINE r == kept[n - 1]
        <4>1. r \in Seq(X) /\ q[n] \in X
          BY <2>1
        <4> HIDE DEF r
        <4>2. /\ Append(r, q[n]) \in Seq(X)
              /\ Range(Append(r, q[n])) = Range(r) \cup {q[n]}
          BY <4>1, AppendFacts
        <4> QED
          BY <3>1, <4>2 DEF r
      <3> HIDE DEF V
      <3>3. Range(kept[n]) = First(n) \cap S
        BY <2>1, <2>2, <2>3, <3>2
      <3>4. Good(n)
        BY <3>2, <3>3
      <3> QED
        BY <2>1, <3>4, Zenon
    <2>4. CASE q[n] \notin S
      <3>1. kept[n] = kept[n - 1]
        BY <1>5, <2>4, Zenon
      <3> HIDE DEF V
      <3>2. First(n) \cap S = First(n - 1) \cap S
        BY <2>2, <2>4, Zenon
      <3>3. Good(n)
        BY <2>1, <3>1, <3>2, Zenon
      <3> QED
        BY <2>1, <3>3, Zenon
    <2> QED
      BY <2>3, <2>4, Zenon
  <1>9. N \in 0 .. N
    BY <1>2
  <1>10. N \in G
    <2> HIDE DEF G
    <2> QED
      BY <1>2, <1>7, <1>8, <1>9, UpTo, Zenon
  <1>11. Good(N)
    BY <1>10, Zenon
  <1> QED
    BY <1>1, <1>6, <1>11, Zenon DEF N
-----------------------------------------------------------------------------
(***************************************************************************)
(* The list of active filters.                                             *)
(***************************************************************************)
\* Adding an edge that may be there already.
LEMMA EnqueueFacts ==
    ASSUME NEW list \in Seq(Filters), NEW k \in Filters
    PROVE  /\ Enqueue(list, k) \in Seq(Filters)
           /\ Range(Enqueue(list, k)) = Range(list) \cup {k}
  <1>1. CASE k \in Range(list)
    BY <1>1, Zenon DEF Enqueue
  <1>2. CASE k \notin Range(list)
    <2>1. Enqueue(list, k) = Append(list, k)
      BY <1>2, Zenon DEF Enqueue
    <2> QED
      BY <2>1, AppendFacts
  <1> QED
    BY <1>1, <1>2, Zenon

\* The edges of one descriptor are added, and no others.
LEMMA EdgesFacts ==
    ASSUME NEW list \in Seq(Filters), NEW fd \in Fds, NEW evs
    PROVE  /\ Edges(list, fd, evs) \in Seq(Filters)
           /\ Range(list) \subseteq Range(Edges(list, fd, evs))
           /\ \A e \in Events \cap evs : <<fd, e>> \in Range(Edges(list, fd, evs))
  <1> DEFINE r == IF "read" \in evs THEN Enqueue(list, <<fd, "read">>) ELSE list
             w == IF "write" \in evs THEN Enqueue(r, <<fd, "write">>) ELSE r
  <1>1. <<fd, "read">> \in Filters /\ <<fd, "write">> \in Filters
    BY DEF Filters, Events
  <1>2. /\ r \in Seq(Filters) /\ Range(list) \subseteq Range(r)
        /\ "read" \in evs => <<fd, "read">> \in Range(r)
    <2>1. CASE "read" \in evs
      <3>1. r = Enqueue(list, <<fd, "read">>)
        BY <2>1, Zenon
      <3> QED
        BY <1>1, <3>1, EnqueueFacts, Zenon
    <2>2. CASE "read" \notin evs
      BY <2>2, Zenon
    <2> QED
      BY <2>1, <2>2, Zenon
  <1> HIDE DEF r
  <1>3. /\ w \in Seq(Filters) /\ Range(r) \subseteq Range(w)
        /\ "write" \in evs => <<fd, "write">> \in Range(w)
    <2>1. CASE "write" \in evs
      <3>1. w = Enqueue(r, <<fd, "write">>)
        BY <2>1, Zenon
      <3> QED
        BY <1>1, <1>2, <3>1, EnqueueFacts, Zenon
    <2>2. CASE "write" \notin evs
      BY <1>2, <2>2, Zenon
    <2> QED
      BY <2>1, <2>2, Zenon
  <1>4. Edges(list, fd, evs) = w
    BY Zenon DEF Edges, r
  <1> HIDE DEF w
  <1> QED
    BY <1>2, <1>3, <1>4 DEF Events

\* An edge stays as long as its filter does and its condition holds; the edge of
\* the pipe always stays.
LEMMA PendingFacts ==
    ASSUME NEW list \in Seq(Filters), NEW notes, NEW conds
    PROVE  /\ Pending(list, notes, conds) \in Seq(Filters)
           /\ \A fd \in Fds, e \in Events :
                 <<fd, e>> \in Range(list) /\ e \in notes[fd] /\ Holds(e, conds[fd])
                    => <<fd, e>> \in Range(Pending(list, notes, conds))
           /\ Wake \in Range(list) => Wake \in Range(Pending(list, notes, conds))
  <1> DEFINE Stays(k) == k = Wake \/ (k[2] \in notes[k[1]] /\ Holds(k[2], conds[k[1]]))
             S == {k \in Range(list) : Stays(k)}
  <1>1. Pending(list, notes, conds) = Keep(list, S)
    BY Zenon DEF Pending
  <1>2. Wake \in Range(list) => Wake \in S
    BY Zenon
  <1>3. ASSUME NEW fd \in Fds, NEW e \in Events, <<fd, e>> \in Range(list),
               e \in notes[fd], Holds(e, conds[fd])
        PROVE  <<fd, e>> \in S
    <2>1. <<fd, e>>[1] = fd /\ <<fd, e>>[2] = e
      OBVIOUS
    <2>2. Stays(<<fd, e>>)
      BY <1>3, <2>1
    <2> HIDE DEF Stays
    <2> QED
      BY <1>3, <2>2
  <1> HIDE DEF S
  <1>4. Keep(list, S) \in Seq(Filters) /\ Range(Keep(list, S)) = Range(list) \cap S
    BY KeepFacts, Zenon
  <1> QED
    BY <1>1, <1>2, <1>3, <1>4, Zenon

\* kevent takes the front of the list and leaves the rest.
LEMMA SplitFacts ==
    ASSUME NEW list \in Seq(Filters), NEW n \in 0 .. Len(list)
    PROVE  /\ SubSeq(list, n + 1, Len(list)) \in Seq(Filters)
           /\ Range(list) = Range(SubSeq(list, 1, n))
                               \cup Range(SubSeq(list, n + 1, Len(list)))
  <1> DEFINE p == SubSeq(list, 1, n)
             s == SubSeq(list, n + 1, Len(list))
  <1>1. /\ s \in Seq(Filters) /\ Len(list) \in Nat /\ DOMAIN list = 1 .. Len(list)
        /\ DOMAIN p = 1 .. n /\ DOMAIN s = 1 .. Len(list) - n
        /\ \A h \in 1 .. n : p[h] = list[h]
        /\ \A h \in 1 .. Len(list) - n : s[h] = list[n + h]
    OBVIOUS
  <1> HIDE DEF p, s
  <1>2. ASSUME NEW i \in 1 .. Len(list) PROVE list[i] \in Range(p) \cup Range(s)
    <2>1. CASE i <= n
      <3>1. i \in 1 .. n
        BY <2>1
      <3> QED
        BY <1>1, <3>1, Zenon DEF Range
    <2>2. CASE i > n
      <3>1. i - n \in 1 .. Len(list) - n /\ n + (i - n) = i
        BY <1>1, <2>2
      <3> QED
        BY <1>1, <3>1, Zenon DEF Range
    <2> QED
      BY <1>1, <2>1, <2>2
  <1>3. \A h \in 1 .. n : h \in 1 .. Len(list)
    BY <1>1
  <1>4. \A h \in 1 .. Len(list) - n : n + h \in 1 .. Len(list)
    BY <1>1
  <1>5. Range(p) \subseteq Range(list) /\ Range(s) \subseteq Range(list)
    BY <1>1, <1>3, <1>4, Zenon DEF Range
  <1>6. \A x \in Range(list) : x \in Range(p) \cup Range(s)
    BY <1>1, <1>2, Zenon DEF Range
  <1>7. Range(list) = Range(p) \cup Range(s)
    BY <1>5, <1>6, Zenon
  <1> QED
    BY <1>1, <1>7 DEF p, s
-----------------------------------------------------------------------------
(***************************************************************************)
(* croutine_poller_set.                                                    *)
(***************************************************************************)
\* A filter that is to stay as it is is not touched.
LEMMA SyncKeeps ==
    ASSUME NEW fd, NEW notes, NEW old, NEW new, NEW e, e \in old <=> e \in new
    PROVE  sync_filter(fd, notes, old, new, e) = {[ok |-> TRUE, notes |-> notes]}
  <1>1. (e \in old) = (e \in new)
    OBVIOUS
  <1> QED
    BY <1>1, Zenon DEF sync_filter

\* A filter of an open descriptor is always removed.
LEMMA SyncRemoves ==
    ASSUME NEW fd \in open, NEW notes, NEW old, NEW new, NEW e, e \in old, e \notin new
    PROVE  sync_filter(fd, notes, old, new, e) = {[ok |-> TRUE, notes |-> notes \ {e}]}
  <1> DEFINE T == {notes, notes \cup {e}, notes \ {e}}
             res == [ok |-> TRUE, notes |-> notes \ {e}]
             out == apply_filter_change(fd, notes, e, FALSE)
  <1>1. (e \in old) # (e \in new) /\ (e \in new) = FALSE
    OBVIOUS
  <1>2. sync_filter(fd, notes, old, new, e) = out
    BY <1>1, Zenon DEF sync_filter
  <1>3. res \in [ok : BOOLEAN, notes : T] /\ res.ok = TRUE /\ res.notes = notes \ {e}
    OBVIOUS
  <1>4. ASSUME NEW o \in [ok : BOOLEAN, notes : T], o.ok = TRUE, o.notes = notes \ {e}
        PROVE  o = res
    BY <1>4
  <1>5. res \in out
    BY <1>3, Zenon DEF apply_filter_change
  <1>6. \A o \in out : /\ o \in [ok : BOOLEAN, notes : T]
                       /\ o.ok = TRUE /\ o.notes = notes \ {e}
    <2> SUFFICES ASSUME NEW o \in out
                 PROVE  /\ o \in [ok : BOOLEAN, notes : T]
                        /\ o.ok = TRUE /\ o.notes = notes \ {e}
      BY Zenon
    <2>1. o \in [ok : BOOLEAN, notes : T] /\ o.ok \in BOOLEAN
      BY DEF apply_filter_change
    <2>2. o.ok /\ o.notes = notes \ {e}
      BY Zenon DEF apply_filter_change
    <2> QED
      BY <2>1, <2>2, Zenon
  <1> HIDE DEF out, res
  <1>7. out = {res}
    BY <1>4, <1>5, <1>6, Zenon
  <1> QED
    BY <1>2, <1>7, Zenon DEF res

\* Adding a filter succeeds or leaves the filters as they are.
LEMMA SyncAdds ==
    ASSUME NEW fd \in open, NEW notes, NEW old, NEW new, NEW e, e \notin old, e \in new,
           NEW o \in sync_filter(fd, notes, old, new, e)
    PROVE  /\ o.ok \in BOOLEAN
           /\ o.ok => o.notes = notes \cup {e}
           /\ ~ o.ok => o.notes = notes
  <1>1. (e \in old) # (e \in new) /\ (e \in new) = TRUE
    OBVIOUS
  <1>2. o \in apply_filter_change(fd, notes, e, TRUE)
    BY <1>1, Zenon DEF sync_filter
  <1>3. o.ok \in BOOLEAN
    BY <1>2 DEF apply_filter_change
  <1> QED
    BY <1>2, <1>3, Zenon DEF apply_filter_change

\* What a call yields, by what its changes of the filters yield.
LEMMA SetYields ==
    ASSUME NEW fd, NEW old, NEW new, NEW o
    PROVE  o \in croutine_poller_set(fd, old, new) <=>
              \E r \in sync_filter(fd, knotes[fd], old, new, "read") :
                 \/ ~ r.ok /\ o = r
                 \/ r.ok /\ \E w \in sync_filter(fd, r.notes, old, new, "write") :
                       \/ w.ok /\ o = w
                       \/ ~ w.ok /\ \E u \in sync_filter(fd, w.notes, new, old, "read") :
                                       o = [ok |-> FALSE, notes |-> u.notes]
  <1> DEFINE R == sync_filter(fd, knotes[fd], old, new, "read")
             W(r) == sync_filter(fd, r.notes, old, new, "write")
             Back(w) == {[ok |-> FALSE, notes |-> u.notes] :
                            u \in sync_filter(fd, w.notes, new, old, "read")}
             Second(w) == IF w.ok THEN {w} ELSE Back(w)
             First(r) == IF ~ r.ok THEN {r} ELSE UNION {Second(w) : w \in W(r)}
  <1>1. croutine_poller_set(fd, old, new) = UNION {First(r) : r \in R}
    BY Zenon DEF croutine_poller_set, reverse_filter
  <1>2. \A w : o \in Second(w) <=>
               \/ w.ok /\ o = w
               \/ ~ w.ok /\ \E u \in sync_filter(fd, w.notes, new, old, "read") :
                               o = [ok |-> FALSE, notes |-> u.notes]
    BY Zenon
  <1> HIDE DEF Second, W, R
  <1>3. \A r : o \in First(r) <=> \/ ~ r.ok /\ o = r
                                  \/ r.ok /\ \E w \in W(r) : o \in Second(w)
    BY Zenon
  <1> HIDE DEF First
  <1>4. o \in croutine_poller_set(fd, old, new) <=> \E r \in R : o \in First(r)
    BY <1>1, Zenon
  <1> QED
    BY <1>2, <1>3, <1>4, Zenon DEF W, R

\* A call that changes nothing does nothing.
LEMMA SetKeeps ==
    ASSUME NEW fd, NEW old
    PROVE  croutine_poller_set(fd, old, old) = {[ok |-> TRUE, notes |-> knotes[fd]]}
  <1>1. \A notes, e : sync_filter(fd, notes, old, old, e) = {[ok |-> TRUE, notes |-> notes]}
    BY SyncKeeps
  <1>2. \A notes : [ok |-> TRUE, notes |-> notes].ok = TRUE
                   /\ [ok |-> TRUE, notes |-> notes].notes = notes
    OBVIOUS
  <1>3. \A o : o \in croutine_poller_set(fd, old, old)
               <=> o = [ok |-> TRUE, notes |-> knotes[fd]]
    BY <1>1, <1>2, SetYields
  <1> QED
    BY <1>3, Zenon

\* On an open descriptor, a call that only removes filters succeeds.
LEMMA SetRemoves ==
    ASSUME NEW fd \in open, NEW old \in SUBSET Events, NEW new \in SUBSET old,
           knotes[fd] = old
    PROVE  croutine_poller_set(fd, old, new) = {[ok |-> TRUE, notes |-> new]}
  <1> DEFINE Ok(notes) == [ok |-> TRUE, notes |-> notes]
             mid == (old \ {"read"}) \cup (new \cap {"read"})
  <1>1. \A notes : Ok(notes).ok = TRUE /\ Ok(notes).notes = notes
    OBVIOUS
  <1>2. sync_filter(fd, old, old, new, "read") = {Ok(mid)}
    <2>1. CASE "read" \in old <=> "read" \in new
      <3>1. mid = old
        BY <2>1
      <3> HIDE DEF mid
      <3> QED
        BY <2>1, <3>1, SyncKeeps
    <2>2. CASE "read" \in old /\ "read" \notin new
      <3>1. mid = old \ {"read"}
        BY <2>2
      <3> HIDE DEF mid
      <3> QED
        BY <2>2, <3>1, SyncRemoves
    <2> QED
      BY <2>1, <2>2, Zenon
  <1>3. sync_filter(fd, mid, old, new, "write") = {Ok(new)}
    <2>1. CASE "write" \in old <=> "write" \in new
      <3>1. mid = new
        BY <2>1 DEF Events
      <3> HIDE DEF mid
      <3> QED
        BY <2>1, <3>1, SyncKeeps
    <2>2. CASE "write" \in old /\ "write" \notin new
      <3>1. mid \ {"write"} = new
        BY <2>2 DEF Events
      <3> HIDE DEF mid
      <3>2. sync_filter(fd, mid, old, new, "write") = {Ok(mid \ {"write"})}
        BY <2>2, SyncRemoves
      <3> QED
        BY <3>1, <3>2, Zenon
    <2> QED
      BY <2>1, <2>2, Zenon
  <1> HIDE DEF mid, Ok
  <1>4. \A o : o \in croutine_poller_set(fd, old, new) <=> o = Ok(new)
    BY <1>1, <1>2, <1>3, SetYields
  <1> QED
    BY <1>4, Zenon DEF Ok

\* On an open descriptor, a call that adds a filter adds it or changes nothing.
LEMMA SetAdds ==
    ASSUME NEW fd \in open, NEW old \in SUBSET Events, NEW e \in Events \ old,
           knotes[fd] = old,
           NEW o \in croutine_poller_set(fd, old, old \cup {e})
    PROVE  /\ o.ok \in BOOLEAN
           /\ o.ok => o.notes = old \cup {e}
           /\ ~ o.ok => o.notes = old
  <1> DEFINE new == old \cup {e}
             Ok(notes) == [ok |-> TRUE, notes |-> notes]
  <1>1. \A notes : Ok(notes).ok = TRUE /\ Ok(notes).notes = notes
    OBVIOUS
  <1>2. e \notin old /\ e \in new
    OBVIOUS
  <1>3. \A d \in Events : d # e => (d \in old <=> d \in new)
    OBVIOUS
  <1> HIDE DEF new
  <1>4. PICK r \in sync_filter(fd, old, old, new, "read") :
                 \/ ~ r.ok /\ o = r
                 \/ r.ok /\ \E w \in sync_filter(fd, r.notes, old, new, "write") :
                       \/ w.ok /\ o = w
                       \/ ~ w.ok /\ \E u \in sync_filter(fd, w.notes, new, old, "read") :
                                       o = [ok |-> FALSE, notes |-> u.notes]
    <2>1. o \in croutine_poller_set(fd, old, new)
      BY DEF new
    <2> QED
      BY <2>1, SetYields
  <1>5. CASE e = "read"
    <2>1. /\ r.ok \in BOOLEAN
          /\ r.ok => r.notes = old \cup {e}
          /\ ~ r.ok => r.notes = old
      BY <1>2, <1>5, SyncAdds
    <2>2. sync_filter(fd, r.notes, old, new, "write") = {Ok(r.notes)}
      BY <1>3, <1>5, SyncKeeps DEF Events
    <2>3. (~ r.ok /\ o = r) \/ (r.ok /\ o = Ok(r.notes))
      BY <1>1, <1>4, <2>2, Zenon
    <2> HIDE DEF Ok
    <2>4. CASE ~ r.ok /\ o = r
      BY <2>1, <2>4, Zenon
    <2>5. CASE r.ok /\ o = Ok(r.notes)
      BY <1>1, <2>1, <2>5, Zenon
    <2> QED
      BY <2>3, <2>4, <2>5, Zenon
  <1>6. CASE e = "write"
    <2>1. /\ sync_filter(fd, old, old, new, "read") = {Ok(old)}
          /\ \A notes : sync_filter(fd, notes, new, old, "read") = {Ok(notes)}
      BY <1>3, <1>6, SyncKeeps DEF Events
    <2> HIDE DEF Ok
    <2>2. r.ok = TRUE /\ r.notes = old
      BY <1>1, <2>1, Zenon
    <2>3. PICK w \in sync_filter(fd, old, old, new, "write") :
                   \/ w.ok /\ o = w
                   \/ ~ w.ok /\ o = [ok |-> FALSE, notes |-> w.notes]
      <3>1. PICK w \in sync_filter(fd, old, old, new, "write") :
                    \/ w.ok /\ o = w
                    \/ ~ w.ok /\ \E u \in sync_filter(fd, w.notes, new, old, "read") :
                                    o = [ok |-> FALSE, notes |-> u.notes]
        <4>1. r.ok /\ r.notes = old
          BY <2>2, Zenon
        <4>2. PICK w \in sync_filter(fd, r.notes, old, new, "write") :
                    \/ w.ok /\ o = w
                    \/ ~ w.ok /\ \E u \in sync_filter(fd, w.notes, new, old, "read") :
                                    o = [ok |-> FALSE, notes |-> u.notes]
          BY <1>4, <4>1, Zenon
        <4>3. w \in sync_filter(fd, old, old, new, "write")
          BY <4>1, <4>2, Zenon
        <4> QED
          BY <4>2, <4>3, Zenon
      <3>2. ASSUME NEW u \in sync_filter(fd, w.notes, new, old, "read")
            PROVE  u.notes = w.notes
        <4>1. u = Ok(w.notes)
          BY <2>1, Zenon
        <4> QED
          BY <1>1, <4>1, Zenon
      <3> QED
        BY <3>1, <3>2, Zenon
    <2>4. /\ w.ok \in BOOLEAN
          /\ w.ok => w.notes = old \cup {e}
          /\ ~ w.ok => w.notes = old
      BY <1>2, <1>6, SyncAdds
    <2>5. [ok |-> FALSE, notes |-> w.notes].ok = FALSE
          /\ [ok |-> FALSE, notes |-> w.notes].notes = w.notes
      OBVIOUS
    <2> QED
      BY <2>3, <2>4, <2>5, Zenon
  <1> QED
    BY <1>5, <1>6 DEF Events
-----------------------------------------------------------------------------
(***************************************************************************)
(* wake_waiting_tasks_locked.                                              *)
(***************************************************************************)
\* The filters follow the waits, nothing fails, and exactly the tasks that wait
\* for what is ready leave the table.
LEMMA WakeFacts ==
    ASSUME TypeOK, FiltersMatchWaits, NEW ready \in [Fds -> SUBSET Events],
           wake_waiting_tasks_locked(ready)
    PROVE  /\ waits' \in [Fds -> [Events -> Tasks \cup {NoTask}]]
           /\ \A fd \in Fds, e \in Events :
                 waits'[fd][e] = IF e \in ready[fd] THEN NoTask ELSE waits[fd][e]
           /\ knotes' \in [Fds -> SUBSET Events]
           /\ \A fd \in Fds : knotes'[fd] = io_wait_entry_events(waits'[fd])
           /\ \A fd \in Fds : knotes'[fd] \subseteq knotes[fd]
           /\ aborted' = FALSE
  <1> DEFINE left == [fd \in Fds |-> [e \in Events |->
                        IF e \in ready[fd] THEN NoTask ELSE waits[fd][e]]]
             old(fd) == io_wait_entry_events(waits[fd])
             new(fd) == io_wait_entry_events(left[fd])
             outcome(fd) == CHOOSE o \in croutine_poller_set(fd, old(fd), new(fd)) : TRUE
             set == [fd \in Fds |-> outcome(fd)]
  <1>1. /\ waits' = left
        /\ knotes' = [fd \in Fds |-> set[fd].notes]
        /\ aborted' = \E fd \in Fds : ~ set[fd].ok
    BY Zenon DEF wake_waiting_tasks_locked
  <1>2. \A fd \in Fds, e \in Events :
           left[fd][e] = IF e \in ready[fd] THEN NoTask ELSE waits[fd][e]
    OBVIOUS
  <1>3. left \in [Fds -> [Events -> Tasks \cup {NoTask}]]
    BY DEF TypeOK
  <1> HIDE DEF left
  <1>4. \A fd \in Fds : old(fd) \in SUBSET Events /\ new(fd) \in SUBSET old(fd)
    BY <1>2 DEF io_wait_entry_events
  <1>5. \A fd \in Fds : old(fd) = knotes[fd] /\ (old(fd) # {} => fd \in open)
    BY Zenon DEF FiltersMatchWaits
  <1> HIDE DEF old, new
  <1>6. ASSUME NEW fd \in Fds PROVE outcome(fd) = [ok |-> TRUE, notes |-> new(fd)]
    <2>1. croutine_poller_set(fd, old(fd), new(fd)) = {[ok |-> TRUE, notes |-> new(fd)]}
      <3>1. CASE fd \in open
        BY <1>4, <1>5, <3>1, SetRemoves
      <3>2. CASE fd \notin open
        <4>1. new(fd) = old(fd) /\ knotes[fd] = new(fd)
          BY <1>4, <1>5, <3>2
        <4> QED
          BY <4>1, SetKeeps
      <3> QED
        BY <3>1, <3>2, Zenon
    <2> QED
      BY <2>1, Zenon
  <1> HIDE DEF outcome
  <1>7. \A fd \in Fds : set[fd].ok = TRUE /\ set[fd].notes = new(fd)
    BY <1>6
  <1> HIDE DEF set
  <1>8. knotes' \in [Fds -> SUBSET Events] /\ \A fd \in Fds : knotes'[fd] = new(fd)
    BY <1>1, <1>4, <1>7
  <1>9. aborted' = FALSE
    BY <1>1, <1>7, Zenon
  <1>10. \A fd \in Fds : new(fd) = io_wait_entry_events(waits'[fd])
    BY <1>1, Zenon DEF new
  <1>11. \A fd \in Fds : knotes'[fd] \subseteq knotes[fd]
    BY <1>4, <1>5, <1>8
  <1> QED
    BY <1>1, <1>2, <1>3, <1>8, <1>9, <1>10, <1>11, Zenon
-----------------------------------------------------------------------------
(***************************************************************************)
(* The steps of the kernel and of the program.                             *)
(***************************************************************************)
\* An edge that is not taken from the list is still on its way.
LEMMA EdgeStays ==
    ASSUME NEW fd \in Fds, NEW e \in Events, HasEdge(fd, e),
           <<fd, e>> \in Range(active) => <<fd, e>> \in Range(active'),
           UNCHANGED <<batch, events>>
    PROVE  HasEdge(fd, e)'
  BY Zenon DEF HasEdge

\* A filter holds with more conditions exactly when it held or they make it hold.
LEMMA HoldsUnion ==
    ASSUME NEW e, NEW A, NEW B
    PROVE  Holds(e, A \cup B) <=> Holds(e, A) \/ Holds(e, B)
  BY Zenon DEF Holds

\* Initially nobody waits.
LEMMA InitHolds ==
    ASSUME Init
    PROVE  KqueueInv
  <1>1. active \in Seq(Filters) /\ pipe \in 0 .. PipeSize
    BY KqueueAssumption DEF Init
  <1>2. TypeOK
    <2>1. 0 \in 0 .. MaxFiles
      BY KqueueAssumption
    <2>2. file \in [Fds -> 0 .. MaxFiles]
      BY <2>1, Zenon DEF Init
    <2>3. /\ conditions \in [Fds -> SUBSET Conditions]
          /\ knotes \in [Fds -> SUBSET Events]
          /\ waits \in [Fds -> [Events -> Tasks \cup {NoTask}]]
      BY Zenon DEF Init
    <2>4. /\ open \subseteq Fds /\ aborted \in BOOLEAN
          /\ pc \in {"out", "kevent", "returned", "translated"}
          /\ batch \subseteq KernelEvent \cup {Wake} /\ events \subseteq PollEvent
          /\ closing \subseteq Fds
      BY Zenon DEF Init
    <2> QED
      BY <1>1, <2>2, <2>3, <2>4, Zenon DEF TypeOK, Filters
  <1>3. \A fd \in Fds : io_wait_entry_events(waits[fd]) = {}
    BY DEF Init, io_wait_entry_events
  <1>4. FiltersMatchWaits /\ ClosingIsIdle
    BY <1>3 DEF Init, FiltersMatchWaits, ClosingIsIdle
  <1>5. WorkerInv
    BY DEF Init, WorkerInv
  <1>6. WaitHasEdge
    BY DEF Init, WaitHasEdge
  <1> QED
    BY <1>2, <1>4, <1>5, <1>6 DEF KqueueInv

\* A condition that arises is an edge of the filters it makes hold.
LEMMA ConditionArisesKeeps ==
    ASSUME KqueueInv, NEW fd \in Fds, NEW c \in Conditions, ConditionArises(fd, c)
    PROVE  KqueueInv'
  <1> DEFINE evs == {e \in knotes[fd] : Holds(e, {c})}
  <1>1. active \in Seq(Filters)
    BY DEF KqueueInv, TypeOK, Filters
  <1>2. /\ conditions' = [conditions EXCEPT ![fd] = @ \cup {c}]
        /\ active' = Edges(active, fd, evs)
        /\ UNCHANGED <<open, file, knotes, pipe, waits, aborted, pollVars, closing>>
    BY Zenon DEF ConditionArises
  <1>3. /\ active' \in Seq(Filters)
        /\ Range(active) \subseteq Range(active')
        /\ \A e \in Events \cap evs : <<fd, e>> \in Range(active')
    <2> HIDE DEF evs
    <2> QED
      BY <1>1, <1>2, EdgesFacts
  <1>4. TypeOK'
    BY <1>2, <1>3 DEF KqueueInv, TypeOK, Filters, pollVars
  <1>5. FiltersMatchWaits' /\ ClosingIsIdle'
    BY <1>2 DEF KqueueInv, FiltersMatchWaits, ClosingIsIdle, io_wait_entry_events
  <1>6. WorkerInv'
    BY <1>2, <1>3 DEF KqueueInv, WorkerInv, pollVars
  <1>7. ASSUME NEW f \in Fds, NEW e \in Events, waits'[f][e] # NoTask,
               Holds(e, conditions'[f])
        PROVE  HasEdge(f, e)'
    <2>1. CASE Holds(e, conditions[f])
      <3>1. HasEdge(f, e)
        BY <1>2, <1>7, <2>1 DEF KqueueInv, WaitHasEdge
      <3> QED
        BY <1>2, <1>3, <3>1, EdgeStays DEF pollVars
    <2>2. CASE ~ Holds(e, conditions[f])
      <3>1. f = fd /\ conditions'[f] = conditions[f] \cup {c}
        BY <1>2, <1>7, <2>2 DEF KqueueInv, TypeOK
      <3>2. Holds(e, {c})
        BY <1>7, <2>2, <3>1, HoldsUnion
      <3>3. e \in knotes[fd]
        BY <1>2, <1>7, <3>1 DEF KqueueInv, FiltersMatchWaits, io_wait_entry_events
      <3> QED
        BY <1>3, <3>1, <3>2, <3>3 DEF HasEdge
    <2> QED
      BY <2>1, <2>2, Zenon
  <1>8. WaitHasEdge'
    BY <1>7, Zenon DEF WaitHasEdge
  <1> QED
    BY <1>4, <1>5, <1>6, <1>8 DEF KqueueInv

\* A condition that ends takes only edges of filters that hold no longer.
LEMMA ConditionEndsKeeps ==
    ASSUME KqueueInv, NEW fd \in Fds, NEW c \in Conditions, ConditionEnds(fd, c)
    PROVE  KqueueInv'
  <1>1. active \in Seq(Filters)
    BY DEF KqueueInv, TypeOK, Filters
  <1>2. /\ conditions' = [conditions EXCEPT ![fd] = @ \ {c}]
        /\ active' = Pending(active, knotes, conditions')
        /\ UNCHANGED <<open, file, knotes, pipe, waits, aborted, pollVars, closing>>
    BY Zenon DEF ConditionEnds
  <1>3. /\ active' \in Seq(Filters)
        /\ \A f \in Fds, e \in Events :
              <<f, e>> \in Range(active) /\ e \in knotes[f] /\ Holds(e, conditions'[f])
                 => <<f, e>> \in Range(active')
        /\ Wake \in Range(active) => Wake \in Range(active')
    BY <1>1, <1>2, PendingFacts
  <1>4. TypeOK'
    BY <1>2, <1>3 DEF KqueueInv, TypeOK, Filters, pollVars
  <1>5. FiltersMatchWaits' /\ ClosingIsIdle'
    BY <1>2 DEF KqueueInv, FiltersMatchWaits, ClosingIsIdle, io_wait_entry_events
  <1>6. WorkerInv'
    BY <1>2, <1>3 DEF KqueueInv, WorkerInv, pollVars
  <1>7. ASSUME NEW f \in Fds, NEW e \in Events, waits'[f][e] # NoTask,
               Holds(e, conditions'[f])
        PROVE  HasEdge(f, e)'
    <2>1. conditions'[f] \subseteq conditions[f]
      BY <1>2 DEF KqueueInv, TypeOK
    <2>2. Holds(e, conditions[f])
      BY <1>7, <2>1, Zenon DEF Holds
    <2>3. HasEdge(f, e)
      BY <1>2, <1>7, <2>2 DEF KqueueInv, WaitHasEdge
    <2>4. e \in knotes[f]
      BY <1>2, <1>7 DEF KqueueInv, FiltersMatchWaits, io_wait_entry_events
    <2> QED
      BY <1>2, <1>3, <1>7, <2>3, <2>4, EdgeStays DEF pollVars
  <1>8. WaitHasEdge'
    BY <1>7, Zenon DEF WaitHasEdge
  <1> QED
    BY <1>4, <1>5, <1>6, <1>8 DEF KqueueInv

\* A byte in the pipe comes with an edge; a full pipe has had one.
LEMMA PipeKeeps ==
    ASSUME KqueueInv, NEW kept \in Seq(Filters), NEW yes \in BOOLEAN,
           Wake \in Range(active) => Wake \in Range(kept),
           pipe' = PipeWritten(yes),
           active' = IF pipe' > pipe THEN Enqueue(kept, Wake) ELSE kept
    PROVE  /\ pipe' \in 0 .. PipeSize
           /\ active' \in Seq(Filters)
           /\ Range(kept) \subseteq Range(active')
           /\ pipe' > 0 => Wake \in Range(active') \/ Wake \in batch
  <1>1. pipe \in 0 .. PipeSize /\ PipeSize \in Nat
    BY KqueueAssumption DEF KqueueInv, TypeOK
  <1>2. /\ Enqueue(kept, Wake) \in Seq(Filters)
        /\ Range(Enqueue(kept, Wake)) = Range(kept) \cup {Wake}
    <2>1. Wake \in Filters
      BY DEF Filters
    <2> QED
      BY <2>1, EnqueueFacts
  <1>3. CASE yes /\ pipe < PipeSize
    <2>1. pipe' = pipe + 1
      BY <1>3 DEF PipeWritten
    <2>2. pipe + 1 \in 0 .. PipeSize /\ pipe + 1 > pipe
      BY <1>1, <1>3
    <2>3. pipe' \in 0 .. PipeSize /\ pipe' > pipe
      BY <2>1, <2>2, Zenon
    <2>4. active' = Enqueue(kept, Wake)
      BY <2>3, Zenon
    <2> QED
      BY <1>2, <2>3, <2>4
  <1>4. CASE ~ (yes /\ pipe < PipeSize)
    <2>1. pipe' = pipe
      BY <1>4, Zenon DEF PipeWritten
    <2>2. ~ (pipe' > pipe)
      BY <1>1, <2>1
    <2>3. active' = kept
      BY <2>2, Zenon
    <2>4. pipe > 0 => Wake \in Range(active) \/ Wake \in batch
      BY DEF KqueueInv, WorkerInv
    <2> QED
      BY <1>1, <2>1, <2>3, <2>4
  <1> QED
    BY <1>3, <1>4, Zenon

\* croutine_poller_wake touches only the pipe and its edge.
LEMMA WakeKeeps ==
    ASSUME KqueueInv, croutine_poller_wake
    PROVE  KqueueInv'
  <1>1. active \in Seq(Filters)
    BY DEF KqueueInv, TypeOK, Filters
  <1>2. /\ pipe' = PipeWritten(TRUE)
        /\ active' = IF pipe' > pipe THEN Enqueue(active, Wake) ELSE active
        /\ UNCHANGED <<open, file, conditions, knotes, waits, aborted, pollVars, closing>>
    BY Zenon DEF croutine_poller_wake
  <1>3. /\ pipe' \in 0 .. PipeSize
        /\ active' \in Seq(Filters)
        /\ Range(active) \subseteq Range(active')
        /\ pipe' > 0 => Wake \in Range(active') \/ Wake \in batch
    BY <1>1, <1>2, PipeKeeps
  <1>4. TypeOK'
    BY <1>2, <1>3 DEF KqueueInv, TypeOK, Filters, pollVars
  <1>5. FiltersMatchWaits' /\ ClosingIsIdle'
    BY <1>2 DEF KqueueInv, FiltersMatchWaits, ClosingIsIdle, io_wait_entry_events
  <1>6. WorkerInv'
    BY <1>2, <1>3 DEF KqueueInv, WorkerInv, pollVars
  <1>7. ASSUME NEW f \in Fds, NEW e \in Events, waits'[f][e] # NoTask,
               Holds(e, conditions'[f])
        PROVE  HasEdge(f, e)'
    <2>1. HasEdge(f, e)
      BY <1>2, <1>7 DEF KqueueInv, WaitHasEdge
    <2> QED
      BY <1>2, <1>3, <2>1, EdgeStays DEF pollVars
  <1>8. WaitHasEdge'
    BY <1>7, Zenon DEF WaitHasEdge
  <1> QED
    BY <1>4, <1>5, <1>6, <1>8 DEF KqueueInv

\* worker_park_current_on_io: the filter is added with its edge and the task put
\* into the table, or neither.
LEMMA ParkKeeps ==
    ASSUME KqueueInv, NEW t \in Tasks, NEW fd \in Fds, NEW e \in WaitFor,
           worker_park_current_on_io(t, fd, e)
    PROVE  KqueueInv'
  <1> DEFINE old == io_wait_entry_events(waits[fd])
  <1>1. PICK o \in croutine_poller_set(fd, old, old \cup {e}) :
              /\ knotes' = [knotes EXCEPT ![fd] = o.notes]
              /\ active' = Edges(active, fd, {n \in o.notes \ knotes[fd] :
                                              Holds(n, conditions[fd])})
              /\ IF o.ok
                 THEN waits' = [waits EXCEPT ![fd][e] = t]
                 ELSE UNCHANGED waits
    BY Zenon DEF worker_park_current_on_io
  <1>2. /\ fd \in open /\ fd \notin closing /\ waits[fd][e] = NoTask
        /\ UNCHANGED <<open, file, conditions, pipe, aborted, pollVars, closing>>
    BY DEF worker_park_current_on_io
  <1>3. /\ active \in Seq(Filters) /\ knotes \in [Fds -> SUBSET Events]
        /\ waits \in [Fds -> [Events -> Tasks \cup {NoTask}]]
        /\ e \in Events /\ t # NoTask
    BY KqueueAssumption DEF KqueueInv, TypeOK, Filters
  <1>4. old \in SUBSET Events /\ e \notin old /\ knotes[fd] = old
    BY <1>2 DEF KqueueInv, FiltersMatchWaits, io_wait_entry_events
  <1>5. o.ok \in BOOLEAN /\ (o.ok => o.notes = old \cup {e}) /\ (~ o.ok => o.notes = old)
    <2> HIDE DEF old
    <2> QED
      BY <1>1, <1>2, <1>3, <1>4, SetAdds
  <1> DEFINE evs == {n \in o.notes \ knotes[fd] : Holds(n, conditions[fd])}
  <1>6. /\ active' \in Seq(Filters)
        /\ Range(active) \subseteq Range(active')
        /\ \A n \in Events \cap evs : <<fd, n>> \in Range(active')
    <2>1. active' = Edges(active, fd, evs)
      BY <1>1
    <2> HIDE DEF evs
    <2> QED
      BY <1>3, <2>1, EdgesFacts
  <1>7. /\ waits' \in [Fds -> [Events -> Tasks \cup {NoTask}]]
        /\ \A f \in Fds, d \in Events :
              waits'[f][d] = IF o.ok /\ f = fd /\ d = e THEN t ELSE waits[f][d]
    <2>1. CASE o.ok
      <3>1. waits' = [waits EXCEPT ![fd][e] = t]
        BY <1>1, <2>1, Zenon
      <3>2. /\ waits' \in [Fds -> [Events -> Tasks \cup {NoTask}]]
            /\ \A f \in Fds, d \in Events :
                  waits'[f][d] = IF f = fd /\ d = e THEN t ELSE waits[f][d]
        BY <1>3, <3>1
      <3> QED
        BY <2>1, <3>2, Zenon
    <2>2. CASE ~ o.ok
      <3>1. waits' = waits
        BY <1>1, <2>2, Zenon
      <3> QED
        BY <1>3, <2>2, <3>1, Zenon
    <2> QED
      BY <2>1, <2>2, Zenon
  <1>8. \A f \in Fds : knotes'[f] = io_wait_entry_events(waits'[f])
    <2> SUFFICES ASSUME NEW f \in Fds PROVE knotes'[f] = io_wait_entry_events(waits'[f])
      BY Zenon
    <2>1. knotes[f] = {d \in Events : waits[f][d] # NoTask}
      BY DEF KqueueInv, FiltersMatchWaits, io_wait_entry_events
    <2>2. CASE f = fd /\ o.ok
      <3>1. knotes'[f] = knotes[f] \cup {e}
        BY <1>1, <1>3, <1>4, <1>5, <2>2
      <3>2. \A d \in Events : waits'[f][d] # NoTask <=> (d = e \/ waits[f][d] # NoTask)
        BY <1>3, <1>7, <2>2, Zenon
      <3> QED
        BY <1>3, <2>1, <3>1, <3>2 DEF io_wait_entry_events
    <2>3. CASE ~ (f = fd /\ o.ok)
      <3>1. knotes'[f] = knotes[f]
        BY <1>1, <1>3, <1>4, <1>5, <2>3
      <3>2. \A d \in Events : waits'[f][d] = waits[f][d]
        BY <1>7, <2>3, Zenon
      <3> QED
        BY <2>1, <3>1, <3>2 DEF io_wait_entry_events
    <2> QED
      BY <2>2, <2>3, Zenon
  <1>9. knotes' \in [Fds -> SUBSET Events]
    BY <1>1, <1>3, <1>4, <1>5
  <1>10. TypeOK'
    BY <1>2, <1>6, <1>7, <1>9 DEF KqueueInv, TypeOK, Filters, pollVars
  <1>11. FiltersMatchWaits'
    <2>1. \A f \in Fds : f # fd => knotes'[f] = knotes[f]
      BY <1>1, <1>3
    <2>2. \A f \in Fds : knotes'[f] # {} => f \in open
      BY <1>2, <2>1 DEF KqueueInv, FiltersMatchWaits
    <2> QED
      BY <1>2, <1>8, <2>2 DEF KqueueInv, FiltersMatchWaits
  <1>12. ClosingIsIdle'
    <2> SUFFICES ASSUME NEW f \in closing PROVE io_wait_entry_events(waits'[f]) = {}
      BY <1>2 DEF ClosingIsIdle
    <2>1. f # fd /\ f \in Fds /\ \A d \in Events : waits[f][d] = NoTask
      BY <1>2 DEF KqueueInv, TypeOK, ClosingIsIdle, io_wait_entry_events
    <2> QED
      BY <1>7, <2>1 DEF io_wait_entry_events
  <1>13. WorkerInv'
    BY <1>2, <1>6 DEF KqueueInv, WorkerInv, pollVars
  <1>14. ASSUME NEW f \in Fds, NEW d \in Events, waits'[f][d] # NoTask,
                Holds(d, conditions'[f])
         PROVE  HasEdge(f, d)'
    <2>1. CASE o.ok /\ f = fd /\ d = e
      <3>1. e \in o.notes /\ e \notin knotes[fd] /\ Holds(e, conditions[fd])
        BY <1>2, <1>4, <1>5, <1>14, <2>1
      <3>2. <<f, d>> \in Range(active')
        BY <1>3, <1>6, <2>1, <3>1
      <3> QED
        BY <3>2 DEF HasEdge
    <2>2. CASE ~ (o.ok /\ f = fd /\ d = e)
      <3>1. waits[f][d] # NoTask /\ Holds(d, conditions[f])
        BY <1>2, <1>7, <1>14, <2>2, Zenon
      <3>2. HasEdge(f, d)
        BY <3>1, Zenon DEF KqueueInv, WaitHasEdge
      <3> QED
        BY <1>2, <1>6, <3>2, EdgeStays DEF pollVars
    <2> QED
      BY <2>1, <2>2, Zenon
  <1>15. WaitHasEdge'
    BY <1>14, Zenon DEF WaitHasEdge
  <1> QED
    BY <1>10, <1>11, <1>12, <1>13, <1>15 DEF KqueueInv

\* worker_forget_fd: the tasks of the descriptor leave, the others keep their
\* filters and edges.
LEMMA ForgetKeeps ==
    ASSUME KqueueInv, NEW fd \in Fds, worker_forget_fd(fd)
    PROVE  KqueueInv'
  <1> DEFINE ready == Forgotten(fd)
             kept == Pending(active, knotes', conditions)
  <1>1. /\ wake_waiting_tasks_locked(ready)
        /\ \E now \in {FALSE, WokenTasks(ready) # {} /\ pc # "out"} :
              pipe' = PipeWritten(now)
        /\ active' = IF pipe' > pipe THEN Enqueue(kept, Wake) ELSE kept
        /\ closing' \in {closing, closing \cup {fd}}
        /\ UNCHANGED <<open, file, conditions, pollVars>>
    BY Zenon DEF worker_forget_fd
  <1>2. ready \in [Fds -> SUBSET Events] /\ ready[fd] = Events
    BY DEF Forgotten
  <1> HIDE DEF ready
  <1>3. /\ waits' \in [Fds -> [Events -> Tasks \cup {NoTask}]]
        /\ \A f \in Fds, e \in Events :
              waits'[f][e] = IF e \in ready[f] THEN NoTask ELSE waits[f][e]
        /\ knotes' \in [Fds -> SUBSET Events]
        /\ \A f \in Fds : knotes'[f] = io_wait_entry_events(waits'[f])
        /\ \A f \in Fds : knotes'[f] \subseteq knotes[f]
        /\ aborted' = FALSE
    <2>1. TypeOK /\ FiltersMatchWaits
      BY DEF KqueueInv
    <2> QED
      BY <1>1, <1>2, <2>1, WakeFacts
  <1>4. active \in Seq(Filters)
    BY DEF KqueueInv, TypeOK, Filters
  <1>5. /\ kept \in Seq(Filters)
        /\ \A f \in Fds, e \in Events :
              <<f, e>> \in Range(active) /\ e \in knotes'[f] /\ Holds(e, conditions[f])
                 => <<f, e>> \in Range(kept)
        /\ Wake \in Range(active) => Wake \in Range(kept)
    BY <1>4, PendingFacts
  <1> HIDE DEF kept
  <1>6. /\ pipe' \in 0 .. PipeSize
        /\ active' \in Seq(Filters)
        /\ Range(kept) \subseteq Range(active')
        /\ pipe' > 0 => Wake \in Range(active') \/ Wake \in batch
    <2>1. PICK now \in BOOLEAN : pipe' = PipeWritten(now)
      BY <1>1
    <2> QED
      BY <1>1, <1>5, <2>1, PipeKeeps
  <1>7. TypeOK'
    <2>1. closing' \subseteq Fds
      BY <1>1 DEF KqueueInv, TypeOK
    <2> QED
      BY <1>1, <1>3, <1>6, <2>1 DEF KqueueInv, TypeOK, Filters, pollVars
  <1>8. FiltersMatchWaits'
    <2>1. \A f \in Fds : knotes'[f] # {} => f \in open
      BY <1>3 DEF KqueueInv, FiltersMatchWaits
    <2> QED
      BY <1>1, <1>3, <2>1 DEF FiltersMatchWaits
  <1>9. ClosingIsIdle'
    <2> SUFFICES ASSUME NEW f \in closing \cup {fd}
                 PROVE  io_wait_entry_events(waits'[f]) = {}
      BY <1>1 DEF ClosingIsIdle
    <2>1. f \in Fds
      BY DEF KqueueInv, TypeOK
    <2>2. \A e \in Events : waits'[f][e] = NoTask
      BY <1>2, <1>3, <2>1 DEF KqueueInv, ClosingIsIdle, io_wait_entry_events
    <2> QED
      BY <2>2 DEF io_wait_entry_events
  <1>10. WorkerInv'
    BY <1>1, <1>6 DEF KqueueInv, WorkerInv, pollVars
  <1>11. ASSUME NEW f \in Fds, NEW e \in Events, waits'[f][e] # NoTask,
                Holds(e, conditions'[f])
         PROVE  HasEdge(f, e)'
    <2>1. waits[f][e] # NoTask /\ Holds(e, conditions[f])
      BY <1>1, <1>3, <1>11, Zenon
    <2>2. HasEdge(f, e)
      BY <2>1, Zenon DEF KqueueInv, WaitHasEdge
    <2>3. e \in knotes'[f]
      BY <1>3, <1>11 DEF io_wait_entry_events
    <2> QED
      BY <1>1, <1>5, <1>6, <2>1, <2>2, <2>3, EdgeStays DEF pollVars
  <1>12. WaitHasEdge'
    BY <1>11, Zenon DEF WaitHasEdge
  <1> QED
    BY <1>7, <1>8, <1>9, <1>10, <1>12 DEF KqueueInv

\* Nobody waits for a descriptor that is closed.
LEMMA CloseKeeps ==
    ASSUME KqueueInv, NEW fd \in Fds, CloseFd(fd)
    PROVE  KqueueInv'
  <1>1. /\ fd \in closing /\ fd \in open
        /\ open' = open \ {fd}
        /\ conditions' = [conditions EXCEPT ![fd] = {}]
        /\ knotes' = [knotes EXCEPT ![fd] = {}]
        /\ active' = Pending(active, knotes', conditions')
        /\ UNCHANGED <<file, pipe, waits, aborted, pollVars, closing>>
    BY Zenon DEF CloseFd
  <1>2. active \in Seq(Filters)
    BY DEF KqueueInv, TypeOK, Filters
  <1>3. /\ active' \in Seq(Filters)
        /\ \A f \in Fds, e \in Events :
              <<f, e>> \in Range(active) /\ e \in knotes'[f] /\ Holds(e, conditions'[f])
                 => <<f, e>> \in Range(active')
        /\ Wake \in Range(active) => Wake \in Range(active')
    BY <1>1, <1>2, PendingFacts
  <1>4. TypeOK'
    BY <1>1, <1>3 DEF KqueueInv, TypeOK, Filters, pollVars
  <1>5. \A f \in Fds : knotes'[f] = io_wait_entry_events(waits[f])
    <2>1. io_wait_entry_events(waits[fd]) = {}
      BY <1>1 DEF KqueueInv, ClosingIsIdle
    <2> QED
      BY <1>1, <2>1 DEF KqueueInv, TypeOK, FiltersMatchWaits
  <1>6. FiltersMatchWaits'
    <2>1. \A f \in Fds : knotes'[f] # {} => f \in open /\ f # fd
      BY <1>1 DEF KqueueInv, TypeOK, FiltersMatchWaits
    <2> QED
      BY <1>1, <1>5, <2>1 DEF KqueueInv, FiltersMatchWaits
  <1>7. ClosingIsIdle' /\ WorkerInv'
    BY <1>1, <1>3 DEF KqueueInv, ClosingIsIdle, WorkerInv, pollVars
  <1>8. ASSUME NEW f \in Fds, NEW e \in Events, waits'[f][e] # NoTask,
               Holds(e, conditions'[f])
        PROVE  HasEdge(f, e)'
    <2>1. e \in knotes'[f] /\ f # fd
      BY <1>1, <1>5, <1>8 DEF KqueueInv, ClosingIsIdle, io_wait_entry_events
    <2>2. Holds(e, conditions[f])
      <3>1. conditions'[f] = conditions[f]
        BY <1>1, <2>1 DEF KqueueInv, TypeOK
      <3> QED
        BY <1>8, <3>1, Zenon
    <2>3. HasEdge(f, e)
      BY <1>1, <1>8, <2>2 DEF KqueueInv, WaitHasEdge
    <2> QED
      BY <1>1, <1>3, <1>8, <2>1, <2>3, EdgeStays DEF pollVars
  <1>9. WaitHasEdge'
    BY <1>8, Zenon DEF WaitHasEdge
  <1> QED
    BY <1>4, <1>6, <1>7, <1>9 DEF KqueueInv

\* A new file of a number nobody waits for.
LEMMA OpenKeeps ==
    ASSUME KqueueInv, NEW fd \in Fds, OpenFd(fd)
    PROVE  KqueueInv'
  <1>1. /\ open' = open \cup {fd}
        /\ file[fd] < MaxFiles
        /\ file' = [file EXCEPT ![fd] = @ + 1]
        /\ closing' = closing \ {fd}
        /\ UNCHANGED <<conditions, knotes, active, pipe, waits, aborted, pollVars>>
    BY DEF OpenFd
  <1>2. file' \in [Fds -> 0 .. MaxFiles]
    <2>1. file \in [Fds -> 0 .. MaxFiles] /\ MaxFiles \in Nat
      BY KqueueAssumption DEF KqueueInv, TypeOK
    <2> QED
      BY <1>1, <2>1
  <1>3. TypeOK'
    BY <1>1, <1>2 DEF KqueueInv, TypeOK, pollVars
  <1>4. FiltersMatchWaits' /\ ClosingIsIdle'
    BY <1>1 DEF KqueueInv, FiltersMatchWaits, ClosingIsIdle, io_wait_entry_events
  <1>5. WorkerInv' /\ WaitHasEdge'
    BY <1>1 DEF KqueueInv, WorkerInv, WaitHasEdge, HasEdge, pollVars
  <1> QED
    BY <1>3, <1>4, <1>5 DEF KqueueInv
-----------------------------------------------------------------------------
(***************************************************************************)
(* The steps of the worker in the poller.                                  *)
(***************************************************************************)
\* The worker goes into kevent with nothing in its hands.
LEMMA BeginPollKeeps ==
    ASSUME KqueueInv, BeginPoll
    PROVE  KqueueInv'
  <1>1. /\ pc = "out" /\ pc' = "kevent"
        /\ UNCHANGED <<kernelVars, waits, aborted, batch, events, closing>>
    BY DEF BeginPoll
  <1>2. TypeOK'
    BY <1>1 DEF KqueueInv, TypeOK, kernelVars
  <1>3. FiltersMatchWaits' /\ ClosingIsIdle'
    BY <1>1 DEF KqueueInv, FiltersMatchWaits, ClosingIsIdle, io_wait_entry_events,
                kernelVars
  <1>4. WorkerInv' /\ WaitHasEdge'
    BY <1>1 DEF KqueueInv, WorkerInv, WaitHasEdge, HasEdge, kernelVars
  <1> QED
    BY <1>2, <1>3, <1>4 DEF KqueueInv

\* What kevent stores for an edge.
Stored(k) == IF k = Wake THEN Wake
             ELSE [fd |-> k[1], event |-> k[2], eof |-> "EOF" \in conditions[k[1]]]

\* Every edge kevent takes is in the batch.
LEMMA KeventWaitKeeps ==
    ASSUME KqueueInv, KeventWait
    PROVE  KqueueInv'
  <1> DEFINE n == IF Len(active) < MaxEvents THEN Len(active) ELSE MaxEvents
             taken == Range(SubSeq(active, 1, n))
  <1>1. /\ pc = "kevent" /\ pc' = "returned"
        /\ batch' = {Stored(k) : k \in taken}
        /\ active' = SubSeq(active, n + 1, Len(active))
        /\ UNCHANGED <<open, file, conditions, knotes, pipe, waits, aborted, events,
                       closing>>
    BY Zenon DEF KeventWait, Stored
  <1>2. active \in Seq(Filters) /\ Len(active) \in Nat
    BY DEF KqueueInv, TypeOK, Filters
  <1>3. n \in 0 .. Len(active)
    BY <1>2, KqueueAssumption
  <1> HIDE DEF n
  <1>4. active' \in Seq(Filters) /\ Range(active) = taken \cup Range(active')
    BY <1>1, <1>2, <1>3, SplitFacts
  <1>5. taken \subseteq Filters
    <2>1. \A k \in Range(active) : k \in Filters
      BY <1>2 DEF Range
    <2> QED
      BY <1>4, <2>1, Zenon
  <1> HIDE DEF taken
  <1>6. ASSUME NEW f \in Fds, NEW e \in Events
        PROVE  /\ Stored(<<f, e>>) \in KernelEvent
               /\ Stored(<<f, e>>).fd = f
               /\ e \in translate_ready_event(Stored(<<f, e>>))
    <2>1. <<f, e>> # Wake /\ <<f, e>>[1] = f /\ <<f, e>>[2] = e
      BY KqueueAssumption
    <2> DEFINE b == [fd |-> f, event |-> e, eof |-> "EOF" \in conditions[f]]
    <2>2. Stored(<<f, e>>) = b
      BY <2>1, Zenon DEF Stored
    <2>3. b \in KernelEvent /\ b.fd = f /\ b.event = e
      BY DEF KernelEvent
    <2>4. e \in translate_ready_event(b)
      BY <2>3 DEF translate_ready_event
    <2> QED
      BY <2>2, <2>3, <2>4, Zenon
  <1>7. batch' \subseteq KernelEvent \cup {Wake}
    <2> SUFFICES ASSUME NEW k \in taken PROVE Stored(k) \in KernelEvent \cup {Wake}
      BY <1>1, Zenon
    <2>1. CASE k = Wake
      BY <2>1, Zenon DEF Stored
    <2>2. CASE k # Wake
      <3>1. PICK f \in Fds, e \in Events : k = <<f, e>>
        BY <1>5, <2>2 DEF Filters
      <3> QED
        BY <1>6, <3>1, Zenon
    <2> QED
      BY <2>1, <2>2, Zenon
  <1>8. TypeOK'
    BY <1>1, <1>4, <1>7 DEF KqueueInv, TypeOK, Filters
  <1>9. FiltersMatchWaits' /\ ClosingIsIdle'
    BY <1>1 DEF KqueueInv, FiltersMatchWaits, ClosingIsIdle, io_wait_entry_events
  <1>10. batch = {} /\ events = {}
    BY <1>1 DEF KqueueInv, WorkerInv
  <1>11. WorkerInv'
    <2>1. Wake \in taken => Wake \in batch'
      <3>1. Stored(Wake) = Wake
        BY Zenon DEF Stored
      <3> QED
        BY <1>1, <3>1, Zenon
    <2> QED
      BY <1>1, <1>4, <1>10, <2>1 DEF KqueueInv, WorkerInv
  <1>12. ASSUME NEW f \in Fds, NEW e \in Events, waits'[f][e] # NoTask,
                Holds(e, conditions'[f])
         PROVE  HasEdge(f, e)'
    <2>1. <<f, e>> \in Range(active)
      BY <1>1, <1>10, <1>12 DEF KqueueInv, WaitHasEdge, HasEdge
    <2>2. CASE <<f, e>> \in Range(active')
      BY <2>2, Zenon DEF HasEdge
    <2>3. CASE <<f, e>> \in taken
      <3>1. Stored(<<f, e>>) \in batch'
        BY <1>1, <2>3, Zenon
      <3>2. Stored(<<f, e>>) # Wake
        BY <1>6, KqueueAssumption
      <3> QED
        BY <1>6, <3>1, <3>2, Zenon DEF HasEdge
    <2> QED
      BY <1>4, <2>1, <2>2, <2>3
  <1>13. WaitHasEdge'
    BY <1>12, Zenon DEF WaitHasEdge
  <1> QED
    BY <1>8, <1>9, <1>11, <1>13 DEF KqueueInv

\* Every event of the batch is among those croutine_poller_wait returns, and an
\* edge of the pipe that came after the batch stays as long as there are bytes.
LEMMA TranslateBatchKeeps ==
    ASSUME KqueueInv, TranslateBatch
    PROVE  KqueueInv'
  <1> DEFINE S == {k \in Range(active) : k # Wake \/ pipe' > 0}
  <1>1. /\ pc = "returned" /\ pc' = "translated"
        /\ events' = {[fd |-> b.fd, events |-> merge_ready_event(b.fd)] :
                      b \in batch \ {Wake}}
        /\ batch' = {}
        /\ pipe' = IF Wake \in batch THEN 0 ELSE pipe
        /\ active' = Keep(active, S)
        /\ UNCHANGED <<open, file, conditions, knotes, waits, aborted, closing>>
    BY Zenon DEF TranslateBatch, drain_wake_fd
  <1>2. active \in Seq(Filters) /\ pipe \in 0 .. PipeSize /\ 0 \in 0 .. PipeSize
    BY KqueueAssumption DEF KqueueInv, TypeOK, Filters
  <1>3. active' \in Seq(Filters) /\ Range(active') = Range(active) \cap S
    <2> HIDE DEF S
    <2> QED
      BY <1>1, <1>2, KeepFacts
  <1>4. \A b \in batch \ {Wake} : b \in KernelEvent /\ b.fd \in Fds
    BY DEF KqueueInv, TypeOK, KernelEvent
  <1>5. \A fd \in Fds : merge_ready_event(fd) \in SUBSET Events
    <2>1. \A b \in batch \ {Wake} : translate_ready_event(b) \subseteq Events
      BY <1>4 DEF translate_ready_event, KernelEvent
    <2> HIDE DEF S
    <2> QED
      BY <2>1, Zenon DEF merge_ready_event
  <1>6. events' \subseteq PollEvent
    BY <1>1, <1>4, <1>5 DEF PollEvent
  <1>7. pipe' \in 0 .. PipeSize
    BY <1>1, <1>2, Zenon
  <1>8. TypeOK'
    BY <1>1, <1>3, <1>6, <1>7 DEF KqueueInv, TypeOK, Filters
  <1>9. FiltersMatchWaits' /\ ClosingIsIdle'
    BY <1>1 DEF KqueueInv, FiltersMatchWaits, ClosingIsIdle, io_wait_entry_events
  <1>10. WorkerInv'
    <2>1. ASSUME pipe' > 0 PROVE Wake \in Range(active')
      <3>1. Wake \notin batch
        <4>1. ~ (0 > 0)
          OBVIOUS
        <4> QED
          BY <1>1, <2>1, <4>1, Zenon
      <3>2. pipe' = pipe
        BY <1>1, <3>1, Zenon
      <3>3. Wake \in Range(active)
        BY <2>1, <3>1, <3>2 DEF KqueueInv, WorkerInv
      <3> QED
        BY <1>3, <2>1, <3>3
    <2> QED
      BY <1>1, <2>1 DEF WorkerInv
  <1>11. events = {}
    BY <1>1 DEF KqueueInv, WorkerInv
  <1>12. ASSUME NEW f \in Fds, NEW e \in Events, waits'[f][e] # NoTask,
                Holds(e, conditions'[f])
         PROVE  HasEdge(f, e)'
    <2>1. HasEdge(f, e)
      BY <1>1, <1>12 DEF KqueueInv, WaitHasEdge
    <2>2. CASE <<f, e>> \in Range(active)
      <3>1. <<f, e>> # Wake
        BY KqueueAssumption
      <3>2. <<f, e>> \in Range(active')
        BY <1>3, <2>2, <3>1
      <3> QED
        BY <3>2, Zenon DEF HasEdge
    <2>3. ASSUME NEW b \in batch \ {Wake}, b.fd = f, e \in translate_ready_event(b)
          PROVE  HasEdge(f, e)'
      <3> DEFINE v == [fd |-> b.fd, events |-> merge_ready_event(b.fd)]
      <3>1. v \in events'
        BY <1>1, Zenon
      <3>2. v.fd = f /\ v.events = merge_ready_event(f)
        BY <2>3
      <3>3. e \in merge_ready_event(f)
        BY <2>3, Zenon DEF merge_ready_event
      <3> HIDE DEF v
      <3> QED
        BY <3>1, <3>2, <3>3, Zenon DEF HasEdge
    <2> QED
      BY <1>11, <2>1, <2>2, <2>3, Zenon DEF HasEdge
  <1>13. WaitHasEdge'
    BY <1>12, Zenon DEF WaitHasEdge
  <1> QED
    BY <1>8, <1>9, <1>10, <1>13 DEF KqueueInv

\* Whoever waits for an event that is delivered leaves the table.
LEMMA DeliverEventsKeeps ==
    ASSUME KqueueInv, DeliverEvents
    PROVE  KqueueInv'
  <1> DEFINE ready == [fd \in Fds |-> UNION {v.events : v \in {u \in events : u.fd = fd}}]
  <1>1. /\ pc = "translated" /\ pc' = "out"
        /\ wake_waiting_tasks_locked(ready)
        /\ events' = {}
        /\ active' = Pending(active, knotes', conditions)
        /\ UNCHANGED <<open, file, conditions, pipe, batch, closing>>
    BY Zenon DEF DeliverEvents
  <1>2. ready \in [Fds -> SUBSET Events]
    <2>1. \A v \in events : v.events \in SUBSET Events
      BY DEF KqueueInv, TypeOK, PollEvent
    <2> QED
      BY <2>1
  <1>3. \A v \in events, f \in Fds, e \in Events :
           v.fd = f /\ e \in v.events => e \in ready[f]
    BY Zenon
  <1> HIDE DEF ready
  <1>4. /\ waits' \in [Fds -> [Events -> Tasks \cup {NoTask}]]
        /\ \A f \in Fds, e \in Events :
              waits'[f][e] = IF e \in ready[f] THEN NoTask ELSE waits[f][e]
        /\ knotes' \in [Fds -> SUBSET Events]
        /\ \A f \in Fds : knotes'[f] = io_wait_entry_events(waits'[f])
        /\ \A f \in Fds : knotes'[f] \subseteq knotes[f]
        /\ aborted' = FALSE
    <2>1. TypeOK /\ FiltersMatchWaits
      BY DEF KqueueInv
    <2> QED
      BY <1>1, <1>2, <2>1, WakeFacts
  <1>5. active \in Seq(Filters)
    BY DEF KqueueInv, TypeOK, Filters
  <1>6. /\ active' \in Seq(Filters)
        /\ \A f \in Fds, e \in Events :
              <<f, e>> \in Range(active) /\ e \in knotes'[f] /\ Holds(e, conditions[f])
                 => <<f, e>> \in Range(active')
        /\ Wake \in Range(active) => Wake \in Range(active')
    BY <1>1, <1>5, PendingFacts
  <1>7. TypeOK'
    BY <1>1, <1>4, <1>6 DEF KqueueInv, TypeOK, Filters
  <1>8. FiltersMatchWaits'
    <2>1. \A f \in Fds : knotes'[f] # {} => f \in open
      BY <1>4 DEF KqueueInv, FiltersMatchWaits
    <2> QED
      BY <1>1, <1>4, <2>1 DEF FiltersMatchWaits
  <1>9. ClosingIsIdle'
    <2> SUFFICES ASSUME NEW f \in closing PROVE io_wait_entry_events(waits'[f]) = {}
      BY <1>1 DEF ClosingIsIdle
    <2>1. f \in Fds /\ \A e \in Events : waits[f][e] = NoTask
      BY DEF KqueueInv, TypeOK, ClosingIsIdle, io_wait_entry_events
    <2>2. \A e \in Events : waits'[f][e] = NoTask
      BY <1>4, <2>1, Zenon
    <2> QED
      BY <2>2 DEF io_wait_entry_events
  <1>10. batch = {}
    BY <1>1 DEF KqueueInv, WorkerInv
  <1>11. WorkerInv'
    BY <1>1, <1>6, <1>10 DEF KqueueInv, WorkerInv
  <1>12. ASSUME NEW f \in Fds, NEW e \in Events, waits'[f][e] # NoTask,
                Holds(e, conditions'[f])
         PROVE  HasEdge(f, e)'
    <2>1. waits[f][e] # NoTask /\ Holds(e, conditions[f]) /\ e \notin ready[f]
      BY <1>1, <1>4, <1>12, Zenon
    <2>2. HasEdge(f, e)
      BY <2>1, Zenon DEF KqueueInv, WaitHasEdge
    <2>3. <<f, e>> \in Range(active)
      BY <1>3, <1>10, <2>1, <2>2, Zenon DEF HasEdge
    <2>4. e \in knotes'[f]
      BY <1>4, <1>12 DEF io_wait_entry_events
    <2>5. <<f, e>> \in Range(active')
      BY <1>6, <2>1, <2>3, <2>4, Zenon
    <2> QED
      BY <2>5, Zenon DEF HasEdge
  <1>13. WaitHasEdge'
    BY <1>12, Zenon DEF WaitHasEdge
  <1> QED
    BY <1>7, <1>8, <1>9, <1>11, <1>13 DEF KqueueInv
-----------------------------------------------------------------------------
(***************************************************************************)
(* The theorems.                                                           *)
(***************************************************************************)
\* Every step keeps the invariant.
LEMMA NextKeeps ==
    ASSUME KqueueInv, [Next]_vars
    PROVE  KqueueInv'
  <1>1. CASE PollStep
    BY <1>1, BeginPollKeeps, KeventWaitKeeps, TranslateBatchKeeps, DeliverEventsKeeps
       DEF PollStep
  <1>2. CASE croutine_poller_wake
    BY <1>2, WakeKeeps
  <1>3. ASSUME NEW fd \in Fds, worker_forget_fd(fd) PROVE KqueueInv'
    BY <1>3, ForgetKeeps
  <1>4. ASSUME NEW fd \in Fds, CloseFd(fd) PROVE KqueueInv'
    BY <1>4, CloseKeeps
  <1>5. ASSUME NEW fd \in Fds, OpenFd(fd) PROVE KqueueInv'
    BY <1>5, OpenKeeps
  <1>6. ASSUME NEW fd \in Fds, NEW c \in Conditions,
               ConditionArises(fd, c) \/ ConditionEnds(fd, c)
        PROVE  KqueueInv'
    BY <1>6, ConditionArisesKeeps, ConditionEndsKeeps
  <1>7. ASSUME NEW fd \in Fds, NEW t \in Tasks, NEW e \in WaitFor,
               worker_park_current_on_io(t, fd, e)
        PROVE  KqueueInv'
    BY <1>7, ParkKeeps
  <1>8. CASE UNCHANGED vars
    <2>1. /\ TypeOK' <=> TypeOK
          /\ FiltersMatchWaits' <=> FiltersMatchWaits
          /\ ClosingIsIdle' <=> ClosingIsIdle
          /\ WorkerInv' <=> WorkerInv
          /\ WaitHasEdge' <=> WaitHasEdge
      BY <1>8 DEF vars, kernelVars, pollVars, TypeOK, FiltersMatchWaits, ClosingIsIdle,
                  io_wait_entry_events, WorkerInv, WaitHasEdge, HasEdge
    <2> QED
      BY <2>1 DEF KqueueInv
  <1> QED
    BY <1>1, <1>2, <1>3, <1>4, <1>5, <1>6, <1>7, <1>8, Zenon DEF Next

\* The inductive invariant holds in every reachable state, for any number of tasks
\* and descriptors and any size of the batch and of the pipe.
THEOREM KqueueInvariant == Spec => []KqueueInv
  BY InitHolds, NextKeeps, PTL DEF Spec

\* The kqueue has exactly the filters tasks wait for, also after a filter could not
\* be added, and no change made to wake tasks ever fails.
THEOREM KqueueFiltersMatchWaits == Spec => []FiltersMatchWaits
  <1>1. KqueueInv => FiltersMatchWaits
    BY DEF KqueueInv
  <1> QED
    BY <1>1, KqueueInvariant, PTL

\* No edge is lost between the kernel and the wait table, and a worker that goes
\* into kevent while there are bytes in the pipe finds their edge.
THEOREM KqueueEdgeNotLost == Spec => []EdgeNotLost
  <1>1. KqueueInv => EdgeNotLost
    <2> SUFFICES ASSUME KqueueInv PROVE EdgeNotLost
      OBVIOUS
    <2>1. ASSUME pc = "kevent", pipe > 0 PROVE Wake \in Range(active)
      BY <2>1 DEF KqueueInv, WorkerInv
    <2>2. ASSUME NEW fd \in Fds, NEW e \in Events,
                 waits[fd][e] # NoTask /\ Holds(e, conditions[fd])
          PROVE  \/ <<fd, e>> \in Range(active)
                 \/ \E b \in batch \ {Wake} : b.fd = fd /\ e \in translate_ready_event(b)
                 \/ \E v \in events : v.fd = fd /\ e \in v.events
      BY <2>2, Zenon DEF KqueueInv, WaitHasEdge, HasEdge
    <2> QED
      BY <2>1, <2>2, Zenon DEF EdgeNotLost
  <1> QED
    BY <1>1, KqueueInvariant, PTL
=============================================================================
