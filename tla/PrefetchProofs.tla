---------------------------- MODULE PrefetchProofs ----------------------------
(***************************************************************************)
(* The prefetch for any list of tiles, any capacity of the channel and any *)
(* number of workers: what was listed is somewhere until it is dealt with. *)
(***************************************************************************)
EXTENDS Prefetch, SequenceTheorems, FiniteSetTheorems, TLAPS

\* What the prefetch has dealt with.
Settled(t) == t \in seen \cup refused \cup failed \/ fetches[t] > 0
InChannel(t) == \E k \in 1..Len(queue) : queue[k] = t
InHand(t) == \E w \in Workers : job[w] = t

\* Every tile the loop has come by is settled, in the channel or with a worker.
ListInv ==
  \A i \in 1..Len(Plan) :
    i < next => Settled(Plan[i]) \/ InChannel(Plan[i]) \/ InHand(Plan[i])

\* The channel is closed when all is listed, and a worker that has ended has found
\* it closed and empty.
ChannelInv ==
  /\ closed <=> ppc \in {"wait", "done"}
  /\ closed => next = Len(Plan) + 1
  /\ ppc = "send" => next <= Len(Plan)
  /\ ppc = "done" => \A w \in Workers : wpc[w] = "done"
  /\ \A w \in Workers :
       /\ wpc[w] = "fetch" <=> job[w] # None
       /\ wpc[w] = "done" => closed /\ queue = <<>>

Inv == TypeOK /\ ListInv /\ ChannelInv

\* A worker that fetches has a tile in hand.
LEMMA JobType ==
  ASSUME TypeOK, ChannelInv, NEW w \in Workers, wpc[w] = "fetch"
  PROVE  job[w] \in Tiles /\ job[w] # None
BY DEF TypeOK, ChannelInv

\* The first tile of the channel, and the rest.
LEMMA FirstJob ==
  ASSUME TypeOK, queue # <<>>
  PROVE  /\ Head(queue) \in Tiles /\ Head(queue) # None
         /\ Tail(queue) \in Seq(Tiles) /\ Len(Tail(queue)) <= Cap
         /\ \A t : InChannel(t) =>
              t = Head(queue) \/ \E k \in 1..Len(Tail(queue)) : Tail(queue)[k] = t
<1>1. queue \in Seq(Tiles) /\ Len(queue) \in Nat \ {0}
  BY EmptySeq DEF TypeOK
<1>2. /\ Head(queue) \in Tiles /\ Head(queue) = queue[1]
      /\ Tail(queue) \in Seq(Tiles) /\ Len(Tail(queue)) = Len(queue) - 1
      /\ \A k \in 1..Len(Tail(queue)) : Tail(queue)[k] = queue[k + 1]
  BY <1>1, HeadTailProperties
<1>3. ASSUME NEW t, NEW k \in 1..Len(queue), queue[k] = t
      PROVE  t = Head(queue) \/ \E m \in 1..Len(Tail(queue)) : Tail(queue)[m] = t
  <2>1. CASE k = 1
    BY <1>2, <1>3, <2>1
  <2>2. CASE k # 1
    <3>1. k - 1 \in 1..Len(Tail(queue)) /\ Tail(queue)[k - 1] = queue[k]
      BY <1>1, <1>2, <2>2
    <3>. QED
      BY <1>3, <3>1
  <2>. QED
    BY <2>1, <2>2
<1>. QED
  BY <1>1, <1>2, <1>3, PrefetchAssumption DEF InChannel, TypeOK

\* The plan is a sequence of tiles.
LEMMA PlanType ==
  /\ Len(Plan) \in Nat
  /\ \A i \in 1..Len(Plan) : Plan[i] \in Tiles
BY PrefetchAssumption, ElementOfSeq, LenProperties

\* Every step leaves the variables in their ranges.
LEMMA TypeStep ==
  ASSUME TypeOK, ChannelInv, [Next]_vars
  PROVE  TypeOK'
<1>. USE PrefetchAssumption, PlanType DEF TypeOK, Entry, prodVars, workVars, histVars
<1>1. CASE List
  <2>1. next \in 1..Len(Plan) /\ Plan[next] \in Tiles
    BY <1>1 DEF List
  <2>2. /\ next' \in 1..(Len(Plan) + 1) /\ ppc' \in {"list", "send"}
        /\ seen' \subseteq seen \cup {Plan[next]}
    BY <1>1, <2>1 DEF List
  <2>3. /\ UNCHANGED <<up, cache, agings, queue, closed, wpc, job, open, saving>>
        /\ UNCHANGED <<refused, failed, fetches>>
    BY <1>1 DEF List
  <2>. QED
    BY <2>1, <2>2, <2>3
<1>2. CASE Send
  <2>1. ppc = "send" /\ next \in 1..Len(Plan) /\ Plan[next] \in Tiles
    BY <1>2 DEF Send, SendIf, ChannelInv
  <2>2. Append(queue, Plan[next]) \in Seq(Tiles) /\ Len(Append(queue, Plan[next])) = Len(queue) + 1
    BY <2>1
  <2>. QED
    BY <1>2, <2>1, <2>2 DEF Send, SendIf
<1>3. CASE Close \/ Finish
  BY <1>3 DEF Close, ListingEnds, Finish, FinishAfter
<1>4. ASSUME NEW w \in Workers, Take(w) PROVE TypeOK'
  <2>1. /\ Head(queue) \in Tiles /\ Tail(queue) \in Seq(Tiles) /\ Len(Tail(queue)) <= Cap
    BY <1>4, FirstJob DEF Take
  <2>. DEFINE h == Head(queue)
  <2>2. /\ UNCHANGED <<up, cache, agings, ppc, next, closed, open, saving, seen, failed, fetches>>
        /\ queue' = Tail(queue)
    BY <1>4 DEF Take
  <2>3. /\ wpc' \in [Workers -> {"ready", "fetch", "done"}]
        /\ job' \in [Workers -> Tiles \cup {None}] /\ refused' \subseteq Tiles
    <3>1. \/ /\ wpc' = [wpc EXCEPT ![w] = "fetch"] /\ job' = [job EXCEPT ![w] = h]
             /\ refused' = refused
          \/ /\ refused' = refused \cup {h} /\ UNCHANGED <<wpc, job>>
      BY <1>4 DEF Take
    <3>2. /\ wpc \in [Workers -> {"ready", "fetch", "done"}]
          /\ job \in [Workers -> Tiles \cup {None}] /\ refused \subseteq Tiles
      BY DEF TypeOK
    <3>3. h \in Tiles
      BY <2>1
    <3>. HIDE DEF TypeOK, h
    <3>. QED
      BY <3>1, <3>2, <3>3
  <2>. QED
    BY <2>1, <2>2, <2>3
<1>5. ASSUME NEW w \in Workers, FetchHit(w) PROVE TypeOK'
  <2>1. job[w] \in Tiles
    BY <1>5, JobType DEF FetchHit
  <2>2. /\ wpc' \in [Workers -> {"ready", "fetch", "done"}]
        /\ job' \in [Workers -> Tiles \cup {None}]
        /\ open' \in [Workers -> Nat]
    BY <1>5 DEF FetchHit, DropJob
  <2>3. /\ seen' = seen \cup {job[w]}
        /\ UNCHANGED <<up, cache, agings, ppc, next, closed, queue, saving, refused, failed, fetches>>
    BY <1>5 DEF FetchHit
  <2>4. seen' \cup refused' \cup failed' \subseteq Tiles
    BY <2>1, <2>3
  <2>5. Len(queue') <= Cap /\ queue' \in Seq(Tiles) /\ next' \in 1..(Len(Plan) + 1)
    BY <2>3
  <2>. QED
    BY <2>2, <2>3, <2>4, <2>5
<1>6. ASSUME NEW w \in Workers, FetchTile(w) PROVE TypeOK'
  <2>1. job[w] \in Tiles
    BY <1>6, JobType DEF FetchTile
  <2>2. /\ wpc' \in [Workers -> {"ready", "fetch", "done"}]
        /\ job' \in [Workers -> Tiles \cup {None}]
        /\ open' \in [Workers -> Nat]
    BY <1>6 DEF FetchTile, DropJob
  <2>3. /\ cache' \in [Tiles -> Entry] /\ fetches' \in [Tiles -> Nat]
        /\ saving' \subseteq Tiles
    BY <1>6, <2>1 DEF FetchTile, Looked
  <2>4. UNCHANGED <<up, agings, ppc, next, closed, queue, seen, refused, failed>>
    BY <1>6 DEF FetchTile
  <2>5. Len(queue') <= Cap /\ queue' \in Seq(Tiles) /\ next' \in 1..(Len(Plan) + 1)
    BY <2>4
  <2>. QED
    BY <2>2, <2>3, <2>4, <2>5
<1>7. ASSUME NEW w \in Workers, FetchError(w) PROVE TypeOK'
  BY <1>7, JobType DEF FetchError, DropJob, Looked
<1>8. ASSUME NEW w \in Workers, FetchPanic(w) PROVE TypeOK'
  BY <1>8, JobType DEF FetchPanic, Looked
<1>9. ASSUME NEW w \in Workers, WorkerEnd(w) PROVE TypeOK'
  BY <1>9 DEF WorkerEnd
<1>10. ASSUME NEW t \in Tiles, SaveEnd(t) \/ Cleanup(t) \/ ClientFetch(t) PROVE TypeOK'
  <2>1. CASE SaveEnd(t)
    BY <2>1 DEF SaveEnd
  <2>2. CASE Cleanup(t)
    BY <2>2 DEF Cleanup
  <2>3. CASE ClientFetch(t)
    BY <2>3 DEF ClientFetch
  <2>. QED
    BY <1>10, <2>1, <2>2, <2>3
<1>11. ASSUME NEW t \in Tiles, Age(t) PROVE TypeOK'
  BY <1>11 DEF Age
<1>12. CASE UNCHANGED vars
  BY <1>12 DEF vars
<1>. QED
  BY <1>1, <1>2, <1>3, <1>4, <1>5, <1>6, <1>7, <1>8, <1>9, <1>10, <1>11, <1>12
     DEF Next, Produce, Work

\* The channel is filled while it is open and closed when all is listed.
LEMMA ChannelStep ==
  ASSUME TypeOK, ChannelInv, [Next]_vars
  PROVE  ChannelInv'
<1>. USE PrefetchAssumption, PlanType DEF TypeOK, ChannelInv, prodVars, workVars, histVars
<1>1. CASE List
  BY <1>1 DEF List
<1>2. CASE Send
  BY <1>2 DEF Send, SendIf
<1>3. CASE Close \/ Finish
  BY <1>3 DEF Close, ListingEnds, Finish, FinishAfter
<1>4. ASSUME NEW w \in Workers, Take(w) PROVE ChannelInv'
  BY <1>4, FirstJob DEF Take
<1>5. ASSUME NEW w \in Workers, FetchHit(w) PROVE ChannelInv'
  BY <1>5 DEF FetchHit, DropJob
<1>6. ASSUME NEW w \in Workers, FetchTile(w) PROVE ChannelInv'
  BY <1>6 DEF FetchTile, DropJob
<1>7. ASSUME NEW w \in Workers, FetchError(w) PROVE ChannelInv'
  BY <1>7 DEF FetchError, DropJob
<1>8. ASSUME NEW w \in Workers, FetchPanic(w) PROVE ChannelInv'
  BY <1>8 DEF FetchPanic
<1>9. ASSUME NEW w \in Workers, WorkerEnd(w) PROVE ChannelInv'
  BY <1>9 DEF WorkerEnd
<1>10. ASSUME NEW t \in Tiles, SaveEnd(t) \/ Age(t) \/ Cleanup(t) \/ ClientFetch(t)
       PROVE  ChannelInv'
  BY <1>10 DEF SaveEnd, Age, Cleanup, ClientFetch
<1>11. CASE UNCHANGED vars
  BY <1>11 DEF vars
<1>. QED
  BY <1>1, <1>2, <1>3, <1>4, <1>5, <1>6, <1>7, <1>8, <1>9, <1>10, <1>11
     DEF Next, Produce, Work

\* No tile is lost on its way from the list through the channel to a worker.
LEMMA ListStep ==
  ASSUME TypeOK, ChannelInv, ListInv, [Next]_vars
  PROVE  ListInv'
<1>. USE PlanType DEF TypeOK, prodVars, workVars, histVars
<1>. DEFINE Known(t) == Settled(t) \/ InChannel(t) \/ InHand(t)
<1>1. CASE List
  <2>1. /\ \/ next' = next /\ seen' = seen
           \/ next' = next + 1 /\ seen' = seen \cup {Plan[next]}
        /\ UNCHANGED <<queue, job, refused, failed, fetches>>
    BY <1>1 DEF List
  <2>2. \A t : (Settled(t) => Settled(t)') /\ (InHand(t) => InHand(t)')
               /\ (InChannel(t) => InChannel(t)')
    BY <2>1 DEF Settled, InHand, InChannel
  <2>3. \A i \in 1..Len(Plan) : i < next' => i < next \/ Plan[i] \in seen'
    BY <2>1
  <2>. QED
    BY <2>2, <2>3 DEF ListInv, Settled
<1>2. CASE Send
  <2>. DEFINE q == Append(queue, Plan[next])
  <2>1. /\ next \in 1..Len(Plan) /\ next' = next + 1 /\ queue' = q
        /\ UNCHANGED <<workVars, histVars>>
    BY <1>2 DEF Send, SendIf, ChannelInv
  <2>2. Plan[next] \in Tiles /\ queue \in Seq(Tiles)
    BY <2>1
  <2>3. /\ Len(q) = Len(queue) + 1 /\ q[Len(queue) + 1] = Plan[next]
        /\ \A k \in 1..Len(queue) : q[k] = queue[k]
    BY <2>2
  <2>4. Len(queue) \in Nat
    BY <2>2, LenProperties
  <2>. HIDE DEF q
  <2>5. \A t : InChannel(t) \/ t = Plan[next] => InChannel(t)'
    <3>1. \A t : InChannel(t)' <=> \E k \in 1..Len(q) : q[k] = t
      BY <2>1 DEF InChannel
    <3>2. Len(queue) + 1 \in 1..Len(q) /\ \A k \in 1..Len(queue) : k \in 1..Len(q)
      BY <2>3, <2>4
    <3>. QED
      BY <2>3, <3>1, <3>2 DEF InChannel
  <2>6. \A t : (Settled(t) => Settled(t)') /\ (InHand(t) => InHand(t)')
    BY <2>1 DEF Settled, InHand
  <2>7. \A i \in 1..Len(Plan) : i < next' => i < next \/ i = next
    BY <2>1
  <2>. QED
    BY <2>5, <2>6, <2>7 DEF ListInv
<1>3. CASE Close \/ Finish
  BY <1>3 DEF Close, ListingEnds, Finish, FinishAfter, ListInv, Settled, InChannel, InHand
<1>4. ASSUME NEW w \in Workers, Take(w) PROVE ListInv'
  <2>1. wpc[w] = "ready" /\ job[w] = None /\ queue # <<>> /\ next' = next
    BY <1>4 DEF Take, ChannelInv
  <2>5. PICK h \in Tiles : h = Head(queue)
    BY <2>1, FirstJob
  <2>2. \A t \in Tiles : InChannel(t) => t = h \/ InChannel(t)'
    BY <1>4, <2>1, <2>5, FirstJob DEF Take, InChannel
  <2>3. Settled(h)' \/ InHand(h)'
    BY <1>4, <2>1, <2>5 DEF Take, Settled, InHand
  <2>4. \A t \in Tiles : (Settled(t) => Settled(t)') /\ (InHand(t) => InHand(t)')
    <3>1. refused \subseteq refused' /\ UNCHANGED <<seen, failed, fetches>>
      BY <1>4 DEF Take
    <3>2. \A u \in Workers \ {w} : job'[u] = job[u]
      BY <1>4 DEF Take
    <3>3. \A t \in Tiles : t # job[w]
      BY <2>1, PrefetchAssumption
    <3>4. \A t \in Tiles : Settled(t) => Settled(t)'
      BY <3>1 DEF Settled
    <3>5. \A t \in Tiles : InHand(t) => InHand(t)'
      BY <3>2, <3>3 DEF InHand
    <3>. QED
      BY <3>4, <3>5
  <2>. QED
    BY <2>1, <2>2, <2>3, <2>4 DEF ListInv
<1>5. ASSUME NEW w \in Workers, FetchHit(w) \/ FetchTile(w) \/ FetchError(w)
      PROVE  ListInv'
  <2>1. /\ next' = next /\ queue' = queue /\ job[w] \in Tiles
        /\ job' = [job EXCEPT ![w] = None]
    BY <1>5, JobType DEF FetchHit, FetchTile, FetchError, DropJob
  <2>5. PICK h \in Tiles : h = job[w]
    BY <2>1
  <2>2. Settled(h)' /\ \A t \in Tiles : Settled(t) => Settled(t)'
    <3>1. CASE FetchHit(w)
      BY <2>5, <3>1 DEF FetchHit, Settled
    <3>2. CASE FetchTile(w)
      BY <2>5, <3>2 DEF FetchTile, Settled
    <3>3. CASE FetchError(w)
      BY <2>5, <3>3 DEF FetchError, Settled
    <3>. QED
      BY <1>5, <3>1, <3>2, <3>3
  <2>3. \A t \in Tiles : InHand(t) => t = h \/ InHand(t)'
    BY <2>1, <2>5 DEF InHand
  <2>4. \A t \in Tiles : InChannel(t) => InChannel(t)'
    BY <2>1 DEF InChannel
  <2>. QED
    BY <2>1, <2>2, <2>3, <2>4 DEF ListInv
<1>6. ASSUME NEW w \in Workers, FetchPanic(w) \/ WorkerEnd(w) PROVE ListInv'
  BY <1>6 DEF FetchPanic, WorkerEnd, ListInv, Settled, InChannel, InHand
<1>7. ASSUME NEW t \in Tiles, SaveEnd(t) \/ Age(t) \/ Cleanup(t) \/ ClientFetch(t)
      PROVE  ListInv'
  BY <1>7 DEF SaveEnd, Age, Cleanup, ClientFetch, ListInv, Settled, InChannel, InHand
<1>8. CASE UNCHANGED vars
  BY <1>8 DEF vars, ListInv, Settled, InChannel, InHand
<1>. QED
  BY <1>1, <1>2, <1>3, <1>4, <1>5, <1>6, <1>7, <1>8 DEF Next, Produce, Work

\* The invariant holds at the start.
LEMMA InitInv == Init => Inv
<1>. SUFFICES ASSUME Init PROVE Inv
  OBVIOUS
<1>1. TypeOK
  <2>1. cache \in [Tiles -> Entry]
    BY PrefetchAssumption DEF Init
  <2>2. queue \in Seq(Tiles) /\ Len(queue) = 0
    BY EmptySeq DEF Init
  <2>. QED
    <3>0. Cap \in Nat /\ MaxAgings \in Nat
      BY PrefetchAssumption
    <3>1. up \in BOOLEAN /\ ppc = "list" /\ closed \in BOOLEAN
      BY DEF Init
    <3>4. agings = 0 /\ next = 1
      BY DEF Init
    <3>5. agings \in 0..MaxAgings /\ next \in 1..(Len(Plan) + 1) /\ Len(queue) <= Cap
      BY <2>2, <3>0, <3>4, PlanType
    <3>2. /\ wpc \in [Workers -> {"ready", "fetch", "done"}]
          /\ job \in [Workers -> Tiles \cup {None}] /\ open \in [Workers -> Nat]
          /\ fetches \in [Tiles -> Nat]
      BY DEF Init
    <3>3. saving \subseteq Tiles /\ seen \cup refused \cup failed \subseteq Tiles
      BY DEF Init
    <3>. QED
      BY <2>1, <2>2, <3>1, <3>2, <3>3, <3>5 DEF TypeOK
<1>2. ListInv /\ ChannelInv
  BY PlanType DEF Init, ListInv, ChannelInv
<1>. QED
  BY <1>1, <1>2 DEF Inv

\* So it always holds.
LEMMA InvHolds == Spec => []Inv
<1>1. Inv /\ [Next]_vars => Inv'
  BY TypeStep, ChannelStep, ListStep DEF Inv
<1>. QED
  BY InitInv, <1>1, PTL DEF Spec

-----------------------------------------------------------------------------
(* How often each tile is anywhere *)

\* Its places in the channel, its workers, and its places in the list before n.
InQueue(q, t) == {k \in 1..Len(q) : q[k] = t}
Holding(j, t) == {w \in Workers : j[w] = t}
Before(n, t) == {i \in 1..Len(Plan) : Plan[i] = t /\ i < n}

CountOf(t) ==
  fetches[t] + Cardinality(InQueue(queue, t)) + Cardinality(Holding(job, t))
CountInv == \A t \in Tiles : CountOf(t) <= Cardinality(Before(next, t))

LEMMA InQueueType ==
  ASSUME NEW q \in Seq(Tiles), NEW t
  PROVE  IsFiniteSet(InQueue(q, t)) /\ Cardinality(InQueue(q, t)) \in Nat
<1>1. IsFiniteSet(1..Len(q))
  BY FS_Interval, LenProperties
<1>2. InQueue(q, t) \subseteq 1..Len(q)
  BY DEF InQueue
<1>. QED
  BY <1>1, <1>2, FS_Subset, FS_CardinalityType

LEMMA HoldingType ==
  ASSUME NEW j, NEW t
  PROVE  IsFiniteSet(Holding(j, t)) /\ Cardinality(Holding(j, t)) \in Nat
<1>1. Holding(j, t) \subseteq Workers
  BY DEF Holding
<1>. QED
  BY <1>1, PrefetchAssumption, FS_Subset, FS_CardinalityType

LEMMA BeforeType ==
  ASSUME NEW n, NEW t
  PROVE  IsFiniteSet(Before(n, t)) /\ Cardinality(Before(n, t)) \in Nat
<1>1. IsFiniteSet(1..Len(Plan))
  BY FS_Interval, PlanType
<1>2. Before(n, t) \subseteq 1..Len(Plan)
  BY DEF Before
<1>. QED
  BY <1>1, <1>2, FS_Subset, FS_CardinalityType

\* A tile that goes into the channel is there once more.
LEMMA AppendCount ==
  ASSUME NEW q \in Seq(Tiles), NEW x \in Tiles, NEW t
  PROVE  Cardinality(InQueue(Append(q, x), t)) =
           Cardinality(InQueue(q, t)) + (IF x = t THEN 1 ELSE 0)
<1>1. /\ Len(q) \in Nat /\ Len(Append(q, x)) = Len(q) + 1
      /\ Append(q, x)[Len(q) + 1] = x
      /\ \A k \in 1..Len(q) : Append(q, x)[k] = q[k]
  BY LenProperties
<1>. DEFINE a == Append(q, x)
<1>. HIDE DEF a
<1>2. CASE x = t
  <2>1. InQueue(a, t) = InQueue(q, t) \cup {Len(q) + 1}
    BY <1>1, <1>2 DEF InQueue, a
  <2>2. Len(q) + 1 \notin InQueue(q, t)
    BY <1>1 DEF InQueue
  <2>. QED
    BY <1>2, <2>1, <2>2, InQueueType, FS_AddElement DEF a
<1>3. CASE x # t
  <2>1. InQueue(a, t) = InQueue(q, t)
    BY <1>1, <1>3 DEF InQueue, a
  <2>. QED
    BY <1>3, <2>1, InQueueType DEF a
<1>. QED
  BY <1>2, <1>3

\* The tile that is taken out of the channel is there once less.
LEMMA TailCount ==
  ASSUME NEW q \in Seq(Tiles), q # <<>>, NEW t
  PROVE  Cardinality(InQueue(Tail(q), t)) =
           Cardinality(InQueue(q, t)) - (IF Head(q) = t THEN 1 ELSE 0)
<1>1. /\ Len(q) \in Nat \ {0} /\ Head(q) = q[1] /\ Tail(q) \in Seq(Tiles)
      /\ Len(Tail(q)) = Len(q) - 1
      /\ \A k \in 1..Len(Tail(q)) : Tail(q)[k] = q[k + 1]
  BY EmptySeq, HeadTailProperties, LenProperties
<1>. DEFINE S == InQueue(Tail(q), t)
            T == InQueue(q, t) \ {1}
            f == [k \in S |-> k + 1]
<1>2. f \in Bijection(S, T)
  <2>1. \A k \in S : k \in Nat /\ k + 1 \in T
    BY <1>1 DEF InQueue
  <2>2. \A k \in T : k - 1 \in S /\ f[k - 1] = k
    BY <1>1 DEF InQueue
  <2>3. f \in Injection(S, T)
    BY <2>1 DEF Injection, IsInjective
  <2>4. f \in Surjection(S, T)
    BY <2>1, <2>2 DEF Surjection
  <2>. QED
    BY <2>3, <2>4 DEF Bijection
<1>3. IsFiniteSet(S) /\ ExistsBijection(S, T)
  BY <1>1, <1>2, InQueueType DEF ExistsBijection
<1>4. Cardinality(S) = Cardinality(T)
  BY <1>3, FS_Bijection
<1>5. CASE Head(q) = t
  <2>1. 1 \in InQueue(q, t)
    BY <1>1, <1>5 DEF InQueue
  <2>. QED
    BY <1>4, <1>5, <2>1, InQueueType, FS_RemoveElement
<1>6. CASE Head(q) # t
  <2>1. T = InQueue(q, t)
    BY <1>1, <1>6 DEF InQueue
  <2>2. Cardinality(InQueue(q, t)) \in Nat
    BY InQueueType
  <2>3. Cardinality(S) = Cardinality(InQueue(q, t))
    BY <1>4, <2>1
  <2>. HIDE DEF S, T
  <2>4. Cardinality(S) = Cardinality(InQueue(q, t)) - (IF Head(q) = t THEN 1 ELSE 0)
    BY <1>6, <2>2, <2>3
  <2>. QED
    BY <2>4 DEF S
<1>. QED
  BY <1>5, <1>6

\* A worker that has no tile takes x in hand.
LEMMA PutCount ==
  ASSUME NEW j \in [Workers -> Tiles \cup {None}], NEW w \in Workers, NEW x \in Tiles, NEW t \in Tiles,
         j[w] = None
  PROVE  Cardinality(Holding([j EXCEPT ![w] = x], t)) =
           Cardinality(Holding(j, t)) + (IF x = t THEN 1 ELSE 0)
<1>. DEFINE a == [j EXCEPT ![w] = x]
<1>1. CASE x = t
  <2>1. Holding(a, t) = Holding(j, t) \cup {w} /\ w \notin Holding(j, t)
    BY <1>1, PrefetchAssumption DEF Holding
  <2>. QED
    BY <1>1, <2>1, HoldingType, FS_AddElement
<1>2. CASE x # t
  <2>1. Holding(a, t) = Holding(j, t)
    BY <1>2, PrefetchAssumption DEF Holding
  <2>. QED
    BY <1>2, <2>1, HoldingType
<1>. QED
  BY <1>1, <1>2

\* A worker is done with its tile.
LEMMA DropCount ==
  ASSUME NEW j \in [Workers -> Tiles \cup {None}], NEW w \in Workers, NEW t \in Tiles
  PROVE  Cardinality(Holding([j EXCEPT ![w] = None], t)) =
           Cardinality(Holding(j, t)) - (IF j[w] = t THEN 1 ELSE 0)
<1>. DEFINE a == [j EXCEPT ![w] = None]
<1>1. CASE j[w] = t
  <2>1. Holding(a, t) = Holding(j, t) \ {w} /\ w \in Holding(j, t)
    BY <1>1, PrefetchAssumption DEF Holding
  <2>2. Cardinality(Holding(j, t) \ {w}) = Cardinality(Holding(j, t)) - 1
    BY <2>1, HoldingType, FS_RemoveElement
  <2>. HIDE DEF a
  <2>3. Cardinality(Holding(a, t)) = Cardinality(Holding(j, t)) - (IF j[w] = t THEN 1 ELSE 0)
    BY <1>1, <2>1, <2>2
  <2>. QED
    BY <2>3 DEF a
<1>2. CASE j[w] # t
  <2>1. Holding(a, t) = Holding(j, t)
    BY <1>2, PrefetchAssumption DEF Holding
  <2>. QED
    BY <1>2, <2>1, HoldingType
<1>. QED
  BY <1>1, <1>2

\* The loop gets on by one tile.
LEMMA BeforeCount ==
  ASSUME NEW n \in 1..Len(Plan), NEW t
  PROVE  Cardinality(Before(n + 1, t)) =
           Cardinality(Before(n, t)) + (IF Plan[n] = t THEN 1 ELSE 0)
<1>1. n \in Nat /\ Len(Plan) \in Nat
  BY PlanType
<1>2. CASE Plan[n] = t
  <2>1. Before(n + 1, t) = Before(n, t) \cup {n} /\ n \notin Before(n, t)
    BY <1>1, <1>2 DEF Before
  <2>. QED
    BY <1>2, <2>1, BeforeType, FS_AddElement
<1>3. CASE Plan[n] # t
  <2>1. Before(n + 1, t) = Before(n, t)
    BY <1>1, <1>3 DEF Before
  <2>. QED
    BY <1>3, <2>1, BeforeType
<1>. QED
  BY <1>2, <1>3

\* No tile becomes more on its way through channel and workers than was listed.
LEMMA CountStep ==
  ASSUME TypeOK, ChannelInv, CountInv, [Next]_vars
  PROVE  CountInv'
<1>. USE DEF TypeOK, CountInv, prodVars, workVars, histVars
<1>1. ASSUME UNCHANGED <<queue, job, fetches, next>> PROVE CountInv'
  BY <1>1 DEF CountOf, Before, InQueue, Holding
<1>2. CASE List
  <2>1. /\ UNCHANGED <<queue, job, fetches>>
        /\ next \in 1..Len(Plan) /\ next' \in {next, next + 1}
    BY <1>2, PlanType DEF List
  <2>. SUFFICES ASSUME NEW t \in Tiles PROVE (CountOf(t) <= Cardinality(Before(next, t)))'
    OBVIOUS
  <2>2. Cardinality(Before(next + 1, t)) =
          Cardinality(Before(next, t)) + (IF Plan[next] = t THEN 1 ELSE 0)
    BY <2>1, BeforeCount
  <2>3. /\ Cardinality(InQueue(queue, t)) \in Nat /\ Cardinality(Holding(job, t)) \in Nat
        /\ Cardinality(Before(next, t)) \in Nat /\ fetches[t] \in Nat
    BY BeforeType, InQueueType, HoldingType
  <2>4. CountOf(t) \in Nat /\ CountOf(t) <= Cardinality(Before(next, t))
    BY <2>3 DEF CountOf
  <2>5. CountOf(t)' = CountOf(t)
    BY <2>1 DEF CountOf, InQueue, Holding
  <2>6. Cardinality(Before(next', t)) \in
          {Cardinality(Before(next, t)), Cardinality(Before(next + 1, t))}
    BY <2>1
  <2>. QED
    BY <2>2, <2>3, <2>4, <2>5, <2>6
<1>3. CASE Send
  <2>1. /\ UNCHANGED <<job, fetches>> /\ queue' = Append(queue, Plan[next])
        /\ next \in 1..Len(Plan) /\ next' = next + 1 /\ Plan[next] \in Tiles
    BY <1>3, PlanType DEF Send, SendIf, ChannelInv
  <2>. SUFFICES ASSUME NEW t \in Tiles PROVE (CountOf(t) <= Cardinality(Before(next, t)))'
    OBVIOUS
  <2>2. /\ Cardinality(InQueue(queue', t)) =
             Cardinality(InQueue(queue, t)) + (IF Plan[next] = t THEN 1 ELSE 0)
        /\ Cardinality(Before(next', t)) =
             Cardinality(Before(next, t)) + (IF Plan[next] = t THEN 1 ELSE 0)
    BY <2>1, AppendCount, BeforeCount
  <2>3. /\ Cardinality(InQueue(queue, t)) \in Nat /\ Cardinality(Holding(job, t)) \in Nat
        /\ Cardinality(Before(next, t)) \in Nat /\ fetches[t] \in Nat
    BY BeforeType, InQueueType, HoldingType
  <2>. DEFINE f == fetches[t]
              q == Cardinality(InQueue(queue, t))
              h == Cardinality(Holding(job, t))
              b == Cardinality(Before(next, t))
              add == IF Plan[next] = t THEN 1 ELSE 0
  <2>4. f + q + h <= b /\ f \in Nat /\ q \in Nat /\ h \in Nat /\ b \in Nat /\ add \in Nat
    BY <2>3 DEF CountOf
  <2>5. CountOf(t)' = f + (q + add) + h /\ Cardinality(Before(next, t))' = b + add
    <3>. HIDE DEF add
    <3>1. fetches'[t] = f /\ Cardinality(Holding(job', t)) = h
      BY <2>1
    <3>2. Cardinality(InQueue(queue', t)) = q + add /\ Cardinality(Before(next', t)) = b + add
      BY <2>2 DEF add
    <3>. QED
      BY <3>1, <3>2 DEF CountOf, InQueue, Holding, Before
  <2>. HIDE DEF f, q, h, b, add
  <2>6. f + (q + add) + h <= b + add
    BY <2>4
  <2>. QED
    BY <2>5, <2>6
<1>4. CASE Close \/ Finish
  BY <1>1, <1>4 DEF Close, ListingEnds, Finish, FinishAfter
<1>5. ASSUME NEW w \in Workers, Take(w) PROVE CountInv'
  <2>1. /\ queue # <<>> /\ queue' = Tail(queue) /\ UNCHANGED <<next, fetches>>
        /\ job[w] = None
        /\ job' \in {job, [job EXCEPT ![w] = Head(queue)]}
    BY <1>5 DEF Take, ChannelInv
  <2>. SUFFICES ASSUME NEW t \in Tiles PROVE (CountOf(t) <= Cardinality(Before(next, t)))'
    OBVIOUS
  <2>2. Cardinality(InQueue(queue', t)) =
          Cardinality(InQueue(queue, t)) - (IF Head(queue) = t THEN 1 ELSE 0)
    BY <2>1, TailCount
  <2>3. /\ Cardinality(InQueue(queue, t)) \in Nat /\ Cardinality(Holding(job, t)) \in Nat
        /\ Cardinality(Before(next, t)) \in Nat /\ fetches[t] \in Nat
    BY BeforeType, InQueueType, HoldingType
  <2>4. fetches[t] + Cardinality(InQueue(queue, t)) + Cardinality(Holding(job, t))
          <= Cardinality(Before(next, t))
    BY DEF CountOf
  <2>5. Cardinality(Holding([job EXCEPT ![w] = Head(queue)], t)) =
          Cardinality(Holding(job, t)) + (IF Head(queue) = t THEN 1 ELSE 0)
    <3>1. PICK h \in Tiles : h = Head(queue)
      BY <2>1, FirstJob
    <3>2. Cardinality(Holding([job EXCEPT ![w] = h], t)) =
            Cardinality(Holding(job, t)) + (IF h = t THEN 1 ELSE 0)
      <4>1. job \in [Workers -> Tiles \cup {None}] /\ job[w] = None
        BY <2>1
      <4>. HIDE DEF TypeOK, CountInv
      <4>2. \A j \in [Workers -> Tiles \cup {None}] : j[w] = None =>
              Cardinality(Holding([j EXCEPT ![w] = h], t)) =
                Cardinality(Holding(j, t)) + (IF h = t THEN 1 ELSE 0)
        BY PutCount, Zenon
      <4>. QED
        BY <4>1, <4>2
    <3>. QED
      BY <3>1, <3>2
  <2>6. \/ Cardinality(Holding(job', t)) = Cardinality(Holding(job, t))
        \/ Cardinality(Holding(job', t)) =
             Cardinality(Holding(job, t)) + (IF Head(queue) = t THEN 1 ELSE 0)
    BY <2>1, <2>5
  <2>7. /\ fetches'[t] = fetches[t]
        /\ Cardinality(Before(next', t)) = Cardinality(Before(next, t))
    BY <2>1
  <2>. QED
    BY <2>2, <2>3, <2>4, <2>6, <2>7 DEF CountOf
<1>6. ASSUME NEW w \in Workers, FetchHit(w) \/ FetchTile(w) \/ FetchError(w)
      PROVE  CountInv'
  <2>1. /\ UNCHANGED <<queue, next>> /\ job[w] \in Tiles /\ job' = [job EXCEPT ![w] = None]
        /\ fetches' \in {fetches, [fetches EXCEPT ![job[w]] = @ + 1]}
    BY <1>6, JobType DEF FetchHit, FetchTile, FetchError, DropJob
  <2>. SUFFICES ASSUME NEW t \in Tiles PROVE (CountOf(t) <= Cardinality(Before(next, t)))'
    OBVIOUS
  <2>2. Cardinality(Holding(job', t)) =
          Cardinality(Holding(job, t)) - (IF job[w] = t THEN 1 ELSE 0)
    BY <2>1, DropCount
  <2>3. /\ Cardinality(InQueue(queue, t)) \in Nat /\ Cardinality(Holding(job, t)) \in Nat
        /\ Cardinality(Before(next, t)) \in Nat /\ fetches[t] \in Nat
    BY BeforeType, InQueueType, HoldingType
  <2>4. fetches[t] + Cardinality(InQueue(queue, t)) + Cardinality(Holding(job, t))
          <= Cardinality(Before(next, t))
    BY DEF CountOf
  <2>5. fetches'[t] = fetches[t] \/ fetches'[t] = fetches[t] + (IF job[w] = t THEN 1 ELSE 0)
    BY <2>1, <2>3
  <2>6. /\ Cardinality(InQueue(queue', t)) = Cardinality(InQueue(queue, t))
        /\ Cardinality(Before(next', t)) = Cardinality(Before(next, t))
    BY <2>1
  <2>7. fetches'[t] + Cardinality(InQueue(queue', t)) + Cardinality(Holding(job', t))
          <= Cardinality(Before(next', t))
    BY <2>2, <2>3, <2>4, <2>5, <2>6
  <2>. QED
    BY <2>7 DEF CountOf
<1>7. ASSUME NEW w \in Workers, FetchPanic(w) \/ WorkerEnd(w) PROVE CountInv'
  BY <1>1, <1>7 DEF FetchPanic, WorkerEnd
<1>8. ASSUME NEW t \in Tiles, SaveEnd(t) \/ Age(t) \/ Cleanup(t) \/ ClientFetch(t)
      PROVE  CountInv'
  BY <1>1, <1>8 DEF SaveEnd, Age, Cleanup, ClientFetch
<1>9. CASE UNCHANGED vars
  BY <1>1, <1>9 DEF vars
<1>. QED
  BY <1>2, <1>3, <1>4, <1>5, <1>6, <1>7, <1>8, <1>9 DEF Next, Produce, Work

\* At the start nothing is under way.
LEMMA InitCount == Init => CountInv
<1>. SUFFICES ASSUME Init, NEW t \in Tiles PROVE CountOf(t) <= Cardinality(Before(next, t))
  BY DEF CountInv
<1>1. InQueue(queue, t) = {} /\ Holding(job, t) = {} /\ fetches[t] = 0
  BY PrefetchAssumption, EmptySeq DEF Init, InQueue, Holding
<1>. QED
  BY <1>1, FS_EmptySet, BeforeType DEF CountOf

-----------------------------------------------------------------------------
(* The properties *)

\* Every variable keeps its range, and the channel never has more than its capacity.
THEOREM TypeCorrect == Spec => []TypeOK
BY InvHolds, PTL DEF Inv

\* When the prefetch says it is finished no listed tile is left in the channel or
\* with a worker, for any list, any capacity and any number of workers.
THEOREM AllDealtWith == Spec => []NothingSkipped
<1>1. Inv => NothingSkipped
  <2>. SUFFICES ASSUME Inv, ppc = "done", NEW i \in DOMAIN Plan PROVE Settled(Plan[i])
    BY DEF NothingSkipped, Listed, Settled
  <2>1. i \in 1..Len(Plan) /\ i < next
    BY PlanType, PrefetchAssumption, LenProperties DEF Inv, ChannelInv
  <2>2. PICK w \in Workers : TRUE
    BY PrefetchAssumption
  <2>3. queue = <<>> /\ \A v \in Workers : job[v] = None
    BY <2>2 DEF Inv, ChannelInv
  <2>4. ~InChannel(Plan[i]) /\ ~InHand(Plan[i])
    BY <2>1, <2>3, PlanType, PrefetchAssumption DEF InChannel, InHand
  <2>. QED
    BY <2>1, <2>4 DEF Inv, ListInv
<1>. QED
  BY <1>1, InvHolds, PTL

\* No tile is fetched more often than it is listed, however many workers there are:
\* the channel gives each of its tiles to one of them.
THEOREM NoTileTwice == Spec => []NoneTwice
<1>1. Inv /\ CountInv => NoneTwice
  <2>. SUFFICES ASSUME TypeOK, CountInv, NEW t \in Tiles PROVE fetches[t] <= Times(t)
    BY DEF Inv, NoneTwice
  <2>1. Before(next, t) \subseteq {i \in DOMAIN Plan : Plan[i] = t}
    BY PrefetchAssumption, LenProperties DEF Before
  <2>2. IsFiniteSet({i \in DOMAIN Plan : Plan[i] = t})
    <3>1. IsFiniteSet(1..Len(Plan)) /\ DOMAIN Plan = 1..Len(Plan)
      BY PlanType, PrefetchAssumption, LenProperties, FS_Interval
    <3>. QED
      BY <3>1, FS_Subset
  <2>3. Cardinality(Before(next, t)) <= Times(t) /\ Times(t) \in Nat
    BY <2>1, <2>2, FS_Subset, FS_CardinalityType DEF Times
  <2>4. /\ Cardinality(InQueue(queue, t)) \in Nat /\ Cardinality(Holding(job, t)) \in Nat
        /\ Cardinality(Before(next, t)) \in Nat /\ fetches[t] \in Nat
    BY BeforeType, InQueueType, HoldingType DEF TypeOK
  <2>5. fetches[t] + Cardinality(InQueue(queue, t)) + Cardinality(Holding(job, t))
          <= Cardinality(Before(next, t))
    BY DEF CountInv, CountOf
  <2>. QED
    BY <2>3, <2>4, <2>5
<1>2. Inv /\ CountInv /\ [Next]_vars => CountInv'
  BY CountStep DEF Inv
<1>. QED
  BY InvHolds, InitCount, <1>1, <1>2, PTL DEF Spec

-----------------------------------------------------------------------------
(* That it ends, as far as safety goes: somebody can go on, less is left to do *)

\* Somebody can go on, for any capacity of the channel and any number of workers.
THEOREM SomebodyGoesOn == Spec => []NeverStuck
<1>1. Inv => NeverStuck
  <2>. SUFFICES ASSUME Inv, ppc # "done", \A w \in Workers : ~CanWork(w) PROVE CanList
    BY DEF NeverStuck
  <2>. USE DEF Inv, TypeOK, ChannelInv
  <2>1. CASE ppc = "send"
    <3>1. PICK w \in Workers : wpc[w] = "ready"
      BY <2>1, PrefetchAssumption DEF CanWork
    <3>2. queue = <<>>
      BY <3>1 DEF CanWork
    <3>. QED
      BY <2>1, <3>2, PrefetchAssumption DEF CanList
  <2>2. CASE ppc = "wait"
    BY <2>2 DEF CanList, CanWork
  <2>. QED
    BY <2>1, <2>2 DEF CanList
<1>. QED
  BY <1>1, InvHolds, PTL

\* What is left of the list, with the goroutine that lists, and of the workers.
ToList == 4 * (Len(Plan) + 1 - next) + [list |-> 3, send |-> 2, wait |-> 1, done |-> 0][ppc]
Fetching(p) == {w \in Workers : p[w] = "fetch"}
NotDone(p) == {w \in Workers : p[w] # "done"}

LEMMA FetchingType ==
  ASSUME NEW p
  PROVE  /\ IsFiniteSet(Fetching(p)) /\ Cardinality(Fetching(p)) \in Nat
         /\ IsFiniteSet(NotDone(p)) /\ Cardinality(NotDone(p)) \in Nat
<1>1. Fetching(p) \subseteq Workers /\ NotDone(p) \subseteq Workers
  BY DEF Fetching, NotDone
<1>. QED
  BY <1>1, PrefetchAssumption, FS_Subset, FS_CardinalityType

\* A worker begins to fetch, has fetched, or ends.
LEMMA BeginsFetch ==
  ASSUME NEW p \in [Workers -> {"ready", "fetch", "done"}], NEW w \in Workers, p[w] = "ready"
  PROVE  /\ Cardinality(Fetching([p EXCEPT ![w] = "fetch"])) = Cardinality(Fetching(p)) + 1
         /\ NotDone([p EXCEPT ![w] = "fetch"]) = NotDone(p)
<1>. DEFINE q == [p EXCEPT ![w] = "fetch"]
<1>1. Fetching(q) = Fetching(p) \cup {w} /\ w \notin Fetching(p) /\ NotDone(q) = NotDone(p)
  BY DEF Fetching, NotDone
<1>. QED
  BY <1>1, FetchingType, FS_AddElement

LEMMA HasFetched ==
  ASSUME NEW p \in [Workers -> {"ready", "fetch", "done"}], NEW w \in Workers, p[w] = "fetch"
  PROVE  /\ Cardinality(Fetching([p EXCEPT ![w] = "ready"])) = Cardinality(Fetching(p)) - 1
         /\ NotDone([p EXCEPT ![w] = "ready"]) = NotDone(p)
<1>. DEFINE q == [p EXCEPT ![w] = "ready"]
<1>1. Fetching(q) = Fetching(p) \ {w} /\ w \in Fetching(p) /\ NotDone(q) = NotDone(p)
  BY DEF Fetching, NotDone
<1>. QED
  BY <1>1, FetchingType, FS_RemoveElement

LEMMA HasEnded ==
  ASSUME NEW p \in [Workers -> {"ready", "fetch", "done"}], NEW w \in Workers, p[w] = "ready"
  PROVE  /\ Cardinality(NotDone([p EXCEPT ![w] = "done"])) = Cardinality(NotDone(p)) - 1
         /\ Fetching([p EXCEPT ![w] = "done"]) = Fetching(p)
<1>. DEFINE q == [p EXCEPT ![w] = "done"]
<1>1. NotDone(q) = NotDone(p) \ {w} /\ w \in NotDone(p) /\ Fetching(q) = Fetching(p)
  BY DEF Fetching, NotDone
<1>. QED
  BY <1>1, FetchingType, FS_RemoveElement

\* The steps that are left are counted by a natural number.
LEMMA LeftType ==
  TypeOK =>
    /\ ToList \in Nat /\ Len(queue) \in Nat /\ Left \in Nat
    /\ Left = ToList + Len(queue) + Len(queue) + Cardinality(Fetching(wpc))
              + Cardinality(NotDone(wpc))
<1>. SUFFICES ASSUME TypeOK
              PROVE  /\ ToList \in Nat /\ Len(queue) \in Nat /\ Left \in Nat
                     /\ Left = ToList + Len(queue) + Len(queue) + Cardinality(Fetching(wpc))
                               + Cardinality(NotDone(wpc))
  OBVIOUS
<1>1. ToList \in Nat /\ Len(queue) \in Nat
  <2>1. next \in 1..(Len(Plan) + 1) /\ Len(Plan) \in Nat /\ queue \in Seq(Tiles)
    BY PlanType DEF TypeOK
  <2>2. [list |-> 3, send |-> 2, wait |-> 1, done |-> 0][ppc] \in Nat
    BY DEF TypeOK
  <2>. QED
    BY <2>1, <2>2, LenProperties DEF ToList
<1>2. Left = ToList + 2 * Len(queue) + Cardinality(Fetching(wpc)) + Cardinality(NotDone(wpc))
  BY Zenon DEF Left, ToList, Fetching, NotDone
<1>3. 2 * Len(queue) = Len(queue) + Len(queue)
  BY <1>1
<1>. QED
  BY <1>1, <1>2, <1>3, FetchingType

\* Every step of the list or of a worker leaves less to do.
LEMMA LessLeft ==
  ASSUME TypeOK, TypeOK', ChannelInv, Produce \/ \E w \in Workers : Work(w),
         ~UNCHANGED <<prodVars, queue, workVars>>
  PROVE  Left' < Left
<1>. DEFINE f == Cardinality(Fetching(wpc))
            n == Cardinality(NotDone(wpc))
            f2 == Cardinality(Fetching(wpc'))
            n2 == Cardinality(NotDone(wpc'))
            q == Len(queue)
            q2 == Len(queue')
<1>1. /\ f \in Nat /\ n \in Nat /\ q \in Nat /\ ToList \in Nat
      /\ Left = ToList + q + q + f + n
  BY LeftType, FetchingType
<1>2. /\ f2 \in Nat /\ n2 \in Nat /\ q2 \in Nat /\ ToList' \in Nat
      /\ Left' = ToList' + q2 + q2 + f2 + n2
  <2>1. f2 \in Nat /\ n2 \in Nat
    BY FetchingType
  <2>2. (/\ ToList \in Nat /\ Len(queue) \in Nat /\ Left \in Nat
         /\ Left = ToList + Len(queue) + Len(queue) + Cardinality(Fetching(wpc))
                   + Cardinality(NotDone(wpc)))'
    BY LeftType, PTL
  <2>. QED
    BY <2>1, <2>2 DEF Fetching, NotDone
<1>3. next \in Nat /\ Len(Plan) \in Nat
  BY PlanType DEF TypeOK
<1>4. ASSUME UNCHANGED <<ppc, next>> PROVE ToList' = ToList
  BY <1>4 DEF ToList
<1>5. ASSUME \/ ToList' < ToList /\ q2 = q /\ f2 = f /\ n2 = n
             \/ ToList' + 3 = ToList /\ q2 = q + 1 /\ f2 = f /\ n2 = n
             \/ ToList' = ToList /\ q2 = q - 1 /\ f2 <= f + 1 /\ n2 = n
             \/ ToList' = ToList /\ q2 = q /\ f2 = f - 1 /\ n2 = n
             \/ ToList' = ToList /\ q2 = q /\ f2 = f /\ n2 = n - 1
      PROVE  Left' < Left
  <2>. HIDE DEF f, n, q, f2, n2, q2
  <2>1. PICK l \in Nat, a \in Nat, b \in Nat, c \in Nat :
          l = ToList /\ a = q /\ b = f /\ c = n
    BY <1>1
  <2>2. PICK l2 \in Nat, a2 \in Nat, b2 \in Nat, c2 \in Nat :
          l2 = ToList' /\ a2 = q2 /\ b2 = f2 /\ c2 = n2
    BY <1>2
  <2>3. \/ l2 < l /\ a2 = a /\ b2 = b /\ c2 = c
        \/ l2 + 3 = l /\ a2 = a + 1 /\ b2 = b /\ c2 = c
        \/ l2 = l /\ a2 = a - 1 /\ b2 <= b + 1 /\ c2 = c
        \/ l2 = l /\ a2 = a /\ b2 = b - 1 /\ c2 = c
        \/ l2 = l /\ a2 = a /\ b2 = b /\ c2 = c - 1
    BY <1>5, <2>1, <2>2
  <2>4. l2 + a2 + a2 + b2 + c2 < l + a + a + b + c
    BY <2>3
  <2>. QED
    BY <1>1, <1>2, <2>1, <2>2, <2>4
<1>6. CASE List
  <2>1. UNCHANGED <<queue, wpc>>
    BY <1>6 DEF List, workVars
  <2>2. ToList' < ToList
    BY <1>3, <1>6 DEF List, ToList
  <2>. QED
    BY <1>5, <2>1, <2>2
<1>7. CASE Send
  <2>1. /\ next \in 1..Len(Plan) /\ next' = next + 1 /\ ppc = "send" /\ ppc' = "list"
        /\ queue' = Append(queue, Plan[next]) /\ UNCHANGED wpc
    BY <1>3, <1>7 DEF Send, SendIf, ChannelInv, workVars, TypeOK
  <2>2. q2 = q + 1
    BY <2>1, PlanType DEF TypeOK
  <2>3. ToList' + 3 = ToList
    BY <1>3, <2>1 DEF ToList
  <2>. QED
    BY <1>5, <2>1, <2>2, <2>3
<1>8. CASE Close \/ Finish
  <2>1. UNCHANGED <<queue, wpc>>
    BY <1>8 DEF Close, ListingEnds, Finish, FinishAfter, workVars
  <2>2. ToList' < ToList
    BY <1>3, <1>8 DEF Close, ListingEnds, Finish, FinishAfter, ToList
  <2>. QED
    BY <1>5, <2>1, <2>2
<1>9. ASSUME NEW w \in Workers, Take(w) PROVE Left' < Left
  <2>1. /\ wpc[w] = "ready" /\ UNCHANGED <<ppc, next>>
        /\ wpc' = wpc \/ wpc' = [wpc EXCEPT ![w] = "fetch"]
        /\ queue # <<>> /\ queue' = Tail(queue)
    BY <1>9 DEF Take, prodVars
  <2>2. q2 = q - 1
    BY <2>1, HeadTailProperties DEF TypeOK
  <2>3. f2 <= f + 1 /\ n2 = n
    <3>1. CASE wpc' = wpc
      BY <1>1, <3>1
    <3>2. CASE wpc' = [wpc EXCEPT ![w] = "fetch"]
      <4>1. f2 = f + 1 /\ n2 = n
        BY <2>1, <3>2, BeginsFetch DEF TypeOK
      <4>. QED
        BY <1>1, <4>1
    <3>. QED
      BY <2>1, <3>1, <3>2
  <2>. QED
    BY <1>4, <1>5, <2>1, <2>2, <2>3
<1>10. ASSUME NEW w \in Workers, FetchHit(w) \/ FetchTile(w) \/ FetchError(w)
       PROVE  Left' < Left
  <2>1. /\ wpc[w] = "fetch" /\ wpc' = [wpc EXCEPT ![w] = "ready"]
        /\ UNCHANGED <<ppc, next, queue>>
    BY <1>10 DEF FetchHit, FetchTile, FetchError, DropJob, prodVars
  <2>2. f2 = f - 1 /\ n2 = n
    BY <2>1, HasFetched DEF TypeOK
  <2>. QED
    BY <1>4, <1>5, <2>1, <2>2
<1>11. ASSUME NEW w \in Workers, WorkerEnd(w) PROVE Left' < Left
  <2>1. /\ wpc[w] = "ready" /\ wpc' = [wpc EXCEPT ![w] = "done"]
        /\ UNCHANGED <<ppc, next, queue>>
    BY <1>11 DEF WorkerEnd, prodVars
  <2>2. n2 = n - 1 /\ f2 = f
    BY <2>1, HasEnded DEF TypeOK
  <2>. QED
    BY <1>4, <1>5, <2>1, <2>2
<1>12. ASSUME NEW w \in Workers, FetchPanic(w) PROVE FALSE
  BY <1>12 DEF FetchPanic
<1>. QED
  BY <1>6, <1>7, <1>8, <1>9, <1>10, <1>11, <1>12 DEF Produce, Work

\* The prefetch cannot go on for ever: what is left to do is a natural number, and
\* each of its steps makes it smaller, for any list, capacity and number of workers.
THEOREM PrefetchGetsOn == Spec => [](Left \in Nat) /\ GetsOn
<1>1. Inv => Left \in Nat
  BY LeftType DEF Inv
<1>2. Inv /\ Inv' /\ [Next]_vars => [Left' < Left]_<<prodVars, queue, workVars>>
  <2>. SUFFICES ASSUME Inv, Inv', [Next]_vars, ~UNCHANGED <<prodVars, queue, workVars>>
                PROVE  Left' < Left
    OBVIOUS
  <2>1. Produce \/ \E w \in Workers : Work(w)
    BY DEF Next, vars, prodVars, workVars, SaveEnd, Age, Cleanup, ClientFetch
  <2>. QED
    BY <2>1, LessLeft DEF Inv
<1>. QED
  BY <1>1, <1>2, InvHolds, PTL DEF Spec, GetsOn
=============================================================================
