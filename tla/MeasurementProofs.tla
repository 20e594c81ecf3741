--------------------------- MODULE MeasurementProofs ---------------------------
(***************************************************************************)
(* The points of measurement for any number of goroutines, names and       *)
(* measurements, while reports and resets walk over them.                  *)
(***************************************************************************)
EXTENDS Measurement, TLAPS

\* Who makes a point holds the mutex and is alone with its name; who has got a
\* point finds it in the map; so does the report.
PlaceInv ==
  /\ \A u \in Users :
       /\ uname[u] # None <=> upc[u] # "idle"
       /\ upc[u] = "insert" <=> plock = u
       /\ upc[u] = "insert" => points[uname[u]] = None
       /\ upc[u] \in {"start", "running", "stopped"} => points[uname[u]] # None
  /\ \A n \in rtodo : points[n] # None
  /\ rpc \in {"min", "max", "average"} => rname # None /\ points[rname] # None

\* A point that is not in the map has no history.
FreshInv == \A n \in Names : points[n] = None => done[n] = 0 /\ sum[n] = 0

\* The numbers of one point: the total lies between count times its extremes.
Between(p) ==
  /\ p.min * p.count <= p.total /\ p.total <= p.max * p.count
  /\ p.count > 0 => p.average = p.total \div p.count /\ p.min > 0
  /\ p.count = 0 => p.total = 0 /\ p.min = 0 /\ p.max = 0
SumInv == \A n \in Names : points[n] # None => Between(points[n])

Inv == TypeOK /\ PlaceInv /\ FreshInv /\ NoLostUpdate

-----------------------------------------------------------------------------
(* A point *)

LEMMA NewPointType ==
  NewPoint \in Point /\ NewPoint # None /\ NewPoint.count = 0 /\ NewPoint.total = 0
  /\ NewPoint.min = 0 /\ NewPoint.max = 0
BY MeasurementAssumption DEF NewPoint, Point

LEMMA ActivatedType ==
  ASSUME NEW p \in Point
  PROVE  /\ Activated(p) \in Point /\ Activated(p) # None
         /\ Activated(p).count = p.count /\ Activated(p).total = p.total
         /\ Activated(p).min = p.min /\ Activated(p).max = p.max
         /\ Activated(p).average = p.average
<1>. DEFINE m == IF p.active + 1 > p.maxActive THEN p.active + 1 ELSE p.maxActive
<1>2. p.active + 1 \in Int /\ m \in Int
  BY DEF Point
<1>3. Activated(p) = [p EXCEPT !.active = p.active + 1, !.maxActive = m]
  BY DEF Activated, Point
<1>. HIDE DEF m
<1>1. Activated(p) \in Point
  BY <1>2, <1>3 DEF Point
<1>. QED
  BY <1>1, MeasurementAssumption DEF Activated, Point

LEMMA DivType == ASSUME NEW t \in Nat, NEW c \in Nat \ {0} PROVE t \div c \in Nat
OBVIOUS

LEMMA CalculatedType ==
  ASSUME NEW p \in Point, NEW d \in Nat
  PROVE  /\ Calculated(p, d) \in Point /\ Calculated(p, d) # None
         /\ Calculated(p, d).count = p.count + 1 /\ Calculated(p, d).total = p.total + d
         /\ Calculated(p, d).average = (p.total + d) \div (p.count + 1)
         /\ Calculated(p, d).max = (IF d > p.max THEN d ELSE p.max)
         /\ Calculated(p, d).min = (IF d < p.min \/ p.min = 0 THEN d ELSE p.min)
<1>1. p.total + d \in Nat /\ p.count + 1 \in Nat \ {0}
  BY DEF Point
<1>. DEFINE avg == (p.total + d) \div (p.count + 1)
<1>2. avg \in Nat
  BY <1>1, DivType
<1>. HIDE DEF avg
<1>. DEFINE hi == IF d > p.max THEN d ELSE p.max
            lo == IF d < p.min \/ p.min = 0 THEN d ELSE p.min
<1>5. p.active - 1 \in Int /\ p.count + 1 \in Nat /\ p.total + d \in Nat /\ hi \in Nat /\ lo \in Nat
  BY DEF Point
<1>6. Summed(p, d, 1, avg) =
        [p EXCEPT !.active = p.active - 1, !.count = p.count + 1, !.total = p.total + d,
                  !.average = avg, !.max = hi, !.min = lo]
  BY DEF Summed, Point
<1>. HIDE DEF hi, lo
<1>3. Summed(p, d, 1, avg) \in Point
  <2>1. p = [active |-> p.active, maxActive |-> p.maxActive, count |-> p.count, total |-> p.total,
             average |-> p.average, min |-> p.min, max |-> p.max]
        /\ p.maxActive \in Int
    BY DEF Point
  <2>2. Summed(p, d, 1, avg) =
          [active |-> p.active - 1, maxActive |-> p.maxActive, count |-> p.count + 1,
           total |-> p.total + d, average |-> avg, min |-> lo, max |-> hi]
    BY <1>6, <2>1
  <2>. QED
    BY <1>2, <1>5, <2>1, <2>2 DEF Point
<1>4. /\ Summed(p, d, 1, avg).count = p.count + 1
      /\ Summed(p, d, 1, avg).total = p.total + d
      /\ Summed(p, d, 1, avg).average = avg
      /\ Summed(p, d, 1, avg).max = (IF d > p.max THEN d ELSE p.max)
      /\ Summed(p, d, 1, avg).min = (IF d < p.min \/ p.min = 0 THEN d ELSE p.min)
  BY <1>2 DEF Summed, Point
<1>. QED
  BY <1>3, <1>4, MeasurementAssumption DEF Calculated, avg

\* A product grows with its factor.
LEMMA ProductGrows ==
  ASSUME NEW a \in Nat, NEW b \in Nat, NEW c \in Nat, a <= b
  PROVE  a * c <= b * c
OBVIOUS

LEMMA ProductNext == ASSUME NEW a \in Nat, NEW n \in Nat PROVE a * (n + 1) = a * n + a
OBVIOUS

\* An average lies between numbers that its total lies between, rounded down.
LEMMA AverageOf ==
  ASSUME NEW t \in Nat, NEW c \in Nat \ {0}, NEW a \in Nat, NEW b \in Nat,
         a * c <= t, t <= b * c
  PROVE  a <= t \div c /\ t \div c <= b
<1>. DEFINE q == t \div c
<1>1. q \in Nat /\ c * q <= t /\ t < c * q + c
  <2>1. q \in Nat
    BY DivType
  <2>. QED
    BY <2>1
<1>. HIDE DEF q
<1>2. a <= q
  <2>. SUFFICES ASSUME q + 1 <= a PROVE FALSE
    BY <1>1
  <2>1. (q + 1) * c <= a * c
    BY <1>1, ProductGrows
  <2>. QED
    BY <1>1, <2>1
<1>3. q <= b
  <2>. SUFFICES ASSUME b + 1 <= q PROVE FALSE
    BY <1>1
  <2>1. (b + 1) * c <= q * c
    BY <1>1, ProductGrows
  <2>. QED
    BY <1>1, <2>1
<1>. QED
  BY <1>2, <1>3 DEF q

-----------------------------------------------------------------------------
(* Ranges and places *)

\* Who has a point has its name and finds it in the map.
LEMMA HasPoint ==
  ASSUME TypeOK, PlaceInv, NEW u \in Users, upc[u] \in {"start", "running", "stopped"}
  PROVE  uname[u] \in Names /\ points[uname[u]] \in Point
BY DEF TypeOK, PlaceInv

\* Who makes a point is alone with its name.
LEMMA MakesPoint ==
  ASSUME TypeOK, PlaceInv, NEW u \in Users, upc[u] = "insert"
  PROVE  uname[u] \in Names /\ points[uname[u]] = None /\ plock = u
BY DEF TypeOK, PlaceInv

\* The report and the reset have only points to visit that are in the map.
LEMMA VisitType ==
  ASSUME NEW todo \in SUBSET Names, NEW n \in Names, NEW p, NEW s \in MayVisit(p, todo, n)
  PROVE  s \subseteq Names /\ s \subseteq todo \cup {n}
BY DEF MayVisit

\* Every step leaves the variables in their ranges.
LEMMA TypeStep ==
  ASSUME TypeOK, PlaceInv, [Next]_vars
  PROVE  TypeOK'
<1>. USE MeasurementAssumption DEF TypeOK, userVars, repVars, resVars, histVars
<1>1. ASSUME NEW u \in Users, NEW n \in Names, Find(u, n) \/ InsertBegin(u, n)
      PROVE  TypeOK'
  BY <1>1 DEF Find, InsertBegin, InsertWhen
<1>2. ASSUME NEW u \in Users, InsertEnd(u) PROVE TypeOK'
  BY <1>2, MakesPoint, NewPointType, VisitType DEF InsertEnd
<1>3. ASSUME NEW u \in Users, MonitorStart(u) PROVE TypeOK'
  BY <1>3, HasPoint, ActivatedType DEF MonitorStart
<1>4. ASSUME NEW u \in Users, NEW d \in Durations, MonitorStop(u, d) PROVE TypeOK'
  <2>1. uname[u] \in Names /\ points[uname[u]] \in Point /\ d \in Nat
    BY <1>4, HasPoint DEF MonitorStop
  <2>2. Calculated(points[uname[u]], d) \in Point /\ Calculated(points[uname[u]], d) # None
    BY <2>1, CalculatedType
  <2>. QED
    BY <1>4, <2>1, <2>2 DEF MonitorStop
<1>5. ASSUME NEW u \in Users, ResetPoint(u) PROVE TypeOK'
  BY <1>5, HasPoint, NewPointType DEF ResetPoint, ClearedBy
<1>6. ASSUME NEW u \in Users, Leave(u) PROVE TypeOK'
  BY <1>6, HasPoint DEF Leave
<1>7. CASE ReportBegin \/ ReportEnd \/ ResetBegin \/ ResetEnd
  BY <1>7 DEF ReportBegin, ReportEnd, ResetBegin, ResetEnd, Present, Snapshot, NoData
<1>8. ASSUME NEW n \in rtodo, ReportNext(n) PROVE TypeOK'
  <2>1. CASE plock # None
    BY <1>8, <2>1 DEF ReportNext
  <2>2. CASE plock = None
    <3>1. NoData \in Snapshot
      BY DEF Snapshot, NoData
    <3>. QED
      BY <1>8, <2>2, <3>1 DEF ReportNext
  <2>. QED
    BY <2>1, <2>2
<1>9. ASSUME ReadMin \/ ReadMax \/ ReadAverage PROVE TypeOK'
  <2>1. rname \in Names /\ points[rname] \in Point
    BY <1>9 DEF ReadMin, ReadMax, ReadAverage, Read, Take, PlaceInv
  <2>. QED
    BY <1>9, <2>1 DEF ReadMin, ReadMax, ReadAverage, Read, Take, Point, Snapshot
<1>10. ASSUME NEW n \in ztodo, ResetNext(n) PROVE TypeOK'
  <2>1. CASE plock # None
    BY <1>10, <2>1 DEF ResetNext
  <2>2. CASE plock = None
    BY <1>10, <2>2, NewPointType DEF ResetNext, ClearedBy
  <2>. QED
    BY <2>1, <2>2
<1>11. CASE UNCHANGED vars
  BY <1>11 DEF vars
<1>. QED
  BY <1>1, <1>2, <1>3, <1>4, <1>5, <1>6, <1>7, <1>8, <1>9, <1>10, <1>11
     DEF Next, UserStep, ReportStep, ResetStep

\* Every step keeps users and the report in their places.
LEMMA PlaceStep ==
  ASSUME TypeOK, PlaceInv, [Next]_vars
  PROVE  PlaceInv'
<1>. USE MeasurementAssumption DEF TypeOK, PlaceInv, userVars, repVars, resVars, histVars
<1>1. ASSUME NEW u \in Users, NEW n \in Names, Find(u, n) \/ InsertBegin(u, n)
      PROVE  PlaceInv'
  BY <1>1 DEF Find, InsertBegin, InsertWhen
<1>2. ASSUME NEW u \in Users, InsertEnd(u) PROVE PlaceInv'
  BY <1>2, MakesPoint, NewPointType, VisitType DEF InsertEnd
<1>3. ASSUME NEW u \in Users, MonitorStart(u) PROVE PlaceInv'
  BY <1>3, HasPoint, ActivatedType DEF MonitorStart
<1>4. ASSUME NEW u \in Users, NEW d \in Durations, MonitorStop(u, d) PROVE PlaceInv'
  <2>1. uname[u] \in Names /\ points[uname[u]] \in Point /\ d \in Nat
    BY <1>4, HasPoint DEF MonitorStop
  <2>2. Calculated(points[uname[u]], d) \in Point /\ Calculated(points[uname[u]], d) # None
    BY <2>1, CalculatedType
  <2>. QED
    BY <1>4, <2>1, <2>2 DEF MonitorStop
<1>5. ASSUME NEW u \in Users, ResetPoint(u) PROVE PlaceInv'
  BY <1>5, HasPoint, NewPointType DEF ResetPoint
<1>6. ASSUME NEW u \in Users, Leave(u) PROVE PlaceInv'
  BY <1>6, HasPoint DEF Leave
<1>7. CASE ReportBegin \/ ReportEnd \/ ResetBegin \/ ResetEnd
  BY <1>7 DEF ReportBegin, ReportEnd, ResetBegin, ResetEnd, Present
<1>8. ASSUME NEW n \in rtodo, ReportNext(n) PROVE PlaceInv'
  BY <1>8 DEF ReportNext
<1>9. ASSUME ReadMin \/ ReadMax \/ ReadAverage PROVE PlaceInv'
  BY <1>9 DEF ReadMin, ReadMax, ReadAverage, Read, Take
<1>10. ASSUME NEW n \in ztodo, ResetNext(n) PROVE PlaceInv'
  BY <1>10, NewPointType DEF ResetNext
<1>11. CASE UNCHANGED vars
  BY <1>11 DEF vars
<1>. QED
  BY <1>1, <1>2, <1>3, <1>4, <1>5, <1>6, <1>7, <1>8, <1>9, <1>10, <1>11
     DEF Next, UserStep, ReportStep, ResetStep

-----------------------------------------------------------------------------
(* The numbers *)

\* A new point comes without history, and every stop counts in point and history.
LEMMA CountStep ==
  ASSUME TypeOK, PlaceInv, FreshInv, NoLostUpdate, [Next]_vars
  PROVE  (FreshInv /\ NoLostUpdate)'
<1>. USE MeasurementAssumption
     DEF TypeOK, FreshInv, NoLostUpdate, Present, userVars, repVars, resVars, histVars
<1>1. ASSUME NEW u \in Users, NEW n \in Names, Find(u, n) \/ InsertBegin(u, n)
      PROVE  (FreshInv /\ NoLostUpdate)'
  BY <1>1 DEF Find, InsertBegin, InsertWhen
<1>2. ASSUME NEW u \in Users, InsertEnd(u) PROVE (FreshInv /\ NoLostUpdate)'
  BY <1>2, MakesPoint, NewPointType DEF InsertEnd
<1>3. ASSUME NEW u \in Users, MonitorStart(u) PROVE (FreshInv /\ NoLostUpdate)'
  BY <1>3, HasPoint, ActivatedType DEF MonitorStart
<1>4. ASSUME NEW u \in Users, NEW d \in Durations, MonitorStop(u, d)
      PROVE  (FreshInv /\ NoLostUpdate)'
  <2>1. PICK n \in Names : n = uname[u] /\ points[n] \in Point /\ points[n] # None /\ d \in Nat
    BY <1>4, HasPoint DEF MonitorStop, PlaceInv
  <2>2. /\ Calculated(points[n], d) # None
        /\ Calculated(points[n], d).count = points[n].count + 1
        /\ Calculated(points[n], d).total = points[n].total + d
    <3>. HIDE DEF TypeOK, NoLostUpdate, FreshInv
    <3>. QED
      BY <2>1, CalculatedType
  <2>4. /\ points' = [points EXCEPT ![n] = Calculated(points[n], d)]
        /\ done' = [done EXCEPT ![n] = @ + 1] /\ sum' = [sum EXCEPT ![n] = @ + d]
    BY <1>4, <2>1 DEF MonitorStop
  <2>. QED
    BY <2>1, <2>2, <2>4
<1>5. ASSUME NEW u \in Users, ResetPoint(u) PROVE (FreshInv /\ NoLostUpdate)'
  BY <1>5, HasPoint, NewPointType DEF ResetPoint, PlaceInv
<1>6. ASSUME NEW u \in Users, Leave(u) PROVE (FreshInv /\ NoLostUpdate)'
  BY <1>6, HasPoint DEF Leave
<1>7. CASE ReportBegin \/ ReportEnd \/ ResetBegin \/ ResetEnd
  BY <1>7 DEF ReportBegin, ReportEnd, ResetBegin, ResetEnd
<1>8. ASSUME NEW n \in rtodo, ReportNext(n) PROVE (FreshInv /\ NoLostUpdate)'
  BY <1>8 DEF ReportNext
<1>9. ASSUME ReadMin \/ ReadMax \/ ReadAverage PROVE (FreshInv /\ NoLostUpdate)'
  BY <1>9 DEF ReadMin, ReadMax, ReadAverage, Read, Take
<1>10. ASSUME NEW n \in ztodo, ResetNext(n) PROVE (FreshInv /\ NoLostUpdate)'
  BY <1>10, NewPointType DEF ResetNext
<1>11. CASE UNCHANGED vars
  BY <1>11 DEF vars
<1>. QED
  BY <1>1, <1>2, <1>3, <1>4, <1>5, <1>6, <1>7, <1>8, <1>9, <1>10, <1>11
     DEF Next, UserStep, ReportStep, ResetStep

-----------------------------------------------------------------------------
(* The average *)

LEMMA BetweenNew == Between(NewPoint)
<1>1. NewPoint.average = 0
  BY DEF NewPoint
<1>. QED
  BY NewPointType, <1>1 DEF Between

LEMMA BetweenActivated ==
  ASSUME NEW p \in Point, Between(p)
  PROVE  Between(Activated(p))
BY ActivatedType DEF Between

\* One more duration moves the extremes at most to itself.
LEMMA BetweenCalculated ==
  ASSUME NEW p \in Point, Between(p), NEW d \in Nat \ {0}
  PROVE  Between(Calculated(p, d))
<1>. DEFINE q == Calculated(p, d)
            n == p.count
<1>1. /\ n \in Nat /\ p.total \in Nat /\ p.min \in Nat /\ p.max \in Nat
  BY DEF Point
<1>2. /\ q.count = n + 1 /\ q.total = p.total + d
      /\ q.average = (p.total + d) \div (n + 1)
      /\ q.max = (IF d > p.max THEN d ELSE p.max)
      /\ q.min = (IF d < p.min \/ p.min = 0 THEN d ELSE p.min)
  BY CalculatedType
<1>3. /\ p.min * n <= p.total /\ p.total <= p.max * n
      /\ n > 0 => p.min > 0
      /\ n = 0 => p.total = 0 /\ p.min = 0 /\ p.max = 0
  BY DEF Between
<1>. HIDE DEF q, n
<1>4. q.min \in Nat /\ q.max \in Nat /\ q.min > 0 /\ q.min <= d /\ d <= q.max
  BY <1>1, <1>2
<1>5. q.min * n <= p.total /\ p.total <= q.max * n
  <2>1. CASE n = 0
    BY <1>3, <1>4, <2>1
  <2>2. CASE n > 0
    <3>1. q.min <= p.min /\ p.max <= q.max
      BY <1>1, <1>2, <1>3, <2>2
    <3>2. q.min * n <= p.min * n /\ p.max * n <= q.max * n
      BY <1>1, <1>4, <3>1, ProductGrows
    <3>3. q.min * n \in Nat /\ p.min * n \in Nat /\ p.max * n \in Nat /\ q.max * n \in Nat
      BY <1>1, <1>4
    <3>. QED
      BY <1>1, <1>3, <3>2, <3>3
  <2>. QED
    BY <1>1, <2>1, <2>2
<1>6. q.min * (n + 1) = q.min * n + q.min /\ q.max * (n + 1) = q.max * n + q.max
  BY <1>1, <1>4, ProductNext
<1>7. q.min * n \in Nat /\ q.max * n \in Nat
  BY <1>1, <1>4
<1>8. q.min * (n + 1) <= p.total + d /\ p.total + d <= q.max * (n + 1)
  BY <1>1, <1>4, <1>5, <1>6, <1>7
<1>9. Between(q)
  BY <1>1, <1>2, <1>4, <1>8 DEF Between
<1>. QED
  BY <1>9 DEF q

\* No step takes a total out of its extremes.
LEMMA SumStep ==
  ASSUME TypeOK, PlaceInv, SumInv, 0 \notin Durations, [Next]_vars
  PROVE  SumInv'
<1>. USE MeasurementAssumption DEF TypeOK, userVars, repVars, resVars, histVars
<1>1. ASSUME points' = points PROVE SumInv'
  BY <1>1 DEF SumInv
<1>2. ASSUME NEW n \in Names, NEW p, p # None, Between(p), points' = [points EXCEPT ![n] = p]
      PROVE  SumInv'
  <2>. HIDE DEF Between
  <2>. QED
    BY <1>2 DEF SumInv
<1>3. ASSUME NEW u \in Users, NEW n \in Names, Find(u, n) \/ InsertBegin(u, n)
      PROVE  SumInv'
  BY <1>1, <1>3 DEF Find, InsertBegin, InsertWhen
<1>4. ASSUME NEW u \in Users, InsertEnd(u) \/ ResetPoint(u) PROVE SumInv'
  BY <1>2, <1>4, MakesPoint, HasPoint, NewPointType, BetweenNew DEF InsertEnd, ResetPoint
<1>5. ASSUME NEW u \in Users, MonitorStart(u) PROVE SumInv'
  <2>1. PICK n \in Names : n = uname[u] /\ points[n] \in Point /\ points[n] # None
    BY <1>5, HasPoint DEF MonitorStart, PlaceInv
  <2>2. Activated(points[n]) # None /\ Between(Activated(points[n]))
    BY <2>1, ActivatedType, BetweenActivated DEF SumInv
  <2>. QED
    BY <1>2, <1>5, <2>1, <2>2 DEF MonitorStart
<1>6. ASSUME NEW u \in Users, NEW d \in Durations, MonitorStop(u, d) PROVE SumInv'
  <2>1. PICK n \in Names : n = uname[u] /\ points[n] \in Point /\ points[n] # None
    BY <1>6, HasPoint DEF MonitorStop, PlaceInv
  <2>2. d \in Nat \ {0}
    BY <1>6
  <2>3. Calculated(points[n], d) # None /\ Between(Calculated(points[n], d))
    BY <2>1, <2>2, CalculatedType, BetweenCalculated DEF SumInv
  <2>. QED
    BY <1>2, <1>6, <2>1, <2>3 DEF MonitorStop
<1>7. ASSUME NEW u \in Users, Leave(u) PROVE SumInv'
  BY <1>1, <1>7 DEF Leave
<1>8. CASE ReportBegin \/ ReportEnd \/ ResetBegin \/ ResetEnd
  BY <1>1, <1>8 DEF ReportBegin, ReportEnd, ResetBegin, ResetEnd
<1>9. ASSUME NEW n \in rtodo, ReportNext(n) PROVE SumInv'
  BY <1>1, <1>9 DEF ReportNext
<1>10. CASE ReadMin \/ ReadMax \/ ReadAverage
  BY <1>1, <1>10 DEF ReadMin, ReadMax, ReadAverage, Read, Take
<1>11. ASSUME NEW n \in ztodo, ResetNext(n) PROVE SumInv'
  <2>1. CASE plock # None
    BY <1>1, <1>11, <2>1 DEF ResetNext
  <2>2. CASE plock = None
    BY <1>2, <1>11, <2>2, NewPointType, BetweenNew DEF ResetNext
  <2>. QED
    BY <2>1, <2>2
<1>12. CASE UNCHANGED vars
  BY <1>1, <1>12 DEF vars
<1>. QED
  BY <1>3, <1>4, <1>5, <1>6, <1>7, <1>8, <1>9, <1>10, <1>11, <1>12
     DEF Next, UserStep, ReportStep, ResetStep

-----------------------------------------------------------------------------
(* Reports                                                                 *)

\* Between resets the maximum of a point only grows, so that it is not below a
\* minimum that was read before, although Data reads both without the lock.
OrderInv ==
  /\ \A n \in Names : points[n] # None => points[n].min <= points[n].max
  /\ rpc = "max" /\ ~cleared => rdata.min <= points[rname].max
  /\ TornOnlyByReset

\* A point that is made or updated stays ordered and loses nothing of its maximum.
LEMMA OrderGrows ==
  ASSUME TypeOK, PlaceInv, OrderInv, NEW n \in Names, NEW p \in Point, p # None,
         p.min <= p.max, points[n] # None => points[n].max <= p.max,
         points' = [points EXCEPT ![n] = p], UNCHANGED <<rpc, rname, rdata, cleared>>
  PROVE  OrderInv'
<1>1. \A m \in Names : points'[m] # None => points'[m].min <= points'[m].max
  BY DEF TypeOK, OrderInv
<1>2. ASSUME rpc' = "max", ~cleared' PROVE rdata'.min <= points'[rname'].max
  <2>1. rname \in Names /\ points[rname] # None /\ rdata.min <= points[rname].max
    BY <1>2 DEF TypeOK, PlaceInv, OrderInv
  <2>2. CASE rname # n
    BY <2>1, <2>2 DEF TypeOK
  <2>3. CASE rname = n
    <3>1. points[n] \in Point /\ rdata.min \in Nat
      BY <2>1, <2>3 DEF TypeOK, Snapshot
    <3>2. points[n].max \in Nat /\ p.max \in Nat
      BY <3>1 DEF Point
    <3>3. points'[rname'].max = p.max /\ rdata' = rdata
      BY <2>1, <2>3 DEF TypeOK
    <3>. QED
      BY <2>1, <2>3, <3>1, <3>2, <3>3
  <2>. QED
    BY <2>2, <2>3
<1>3. TornOnlyByReset'
  BY DEF OrderInv, TornOnlyByReset, ReportOrdered
<1>. QED
  BY <1>1, <1>2, <1>3 DEF OrderInv

\* No step takes a report out of order.
LEMMA OrderStep ==
  ASSUME TypeOK, PlaceInv, OrderInv, [Next]_vars
  PROVE  OrderInv'
<1>. USE MeasurementAssumption DEF userVars, repVars, resVars, histVars
<1>1. ASSUME points' = points,
             UNCHANGED <<rpc, rname, rdata, cleared>> \/ rpc' \in {"idle", "walk", "min"}
      PROVE  OrderInv'
  BY <1>1 DEF OrderInv, TornOnlyByReset, ReportOrdered
<1>2. ASSUME NEW u \in Users, NEW n \in Names, Find(u, n) \/ InsertBegin(u, n)
      PROVE  OrderInv'
  BY <1>1, <1>2 DEF Find, InsertBegin, InsertWhen
<1>3. ASSUME NEW u \in Users, InsertEnd(u) PROVE OrderInv'
  <2>1. PICK n \in Names : n = uname[u] /\ points[n] = None
    BY <1>3, MakesPoint DEF InsertEnd, PlaceInv
  <2>2. /\ points' = [points EXCEPT ![n] = NewPoint]
        /\ UNCHANGED <<rpc, rname, rdata, cleared>>
    BY <1>3, <2>1 DEF InsertEnd
  <2>3. NewPoint \in Point /\ NewPoint # None /\ NewPoint.min <= NewPoint.max
    BY NewPointType
  <2>. QED
    BY <2>1, <2>2, <2>3, OrderGrows
<1>4. ASSUME NEW u \in Users, MonitorStart(u) PROVE OrderInv'
  <2>1. PICK n \in Names : n = uname[u] /\ points[n] \in Point /\ points[n] # None
    BY <1>4, HasPoint DEF MonitorStart, PlaceInv
  <2>2. /\ Activated(points[n]) \in Point /\ Activated(points[n]) # None
        /\ Activated(points[n]).min <= Activated(points[n]).max
        /\ points[n].max <= Activated(points[n]).max
    BY <2>1, ActivatedType DEF OrderInv, Point
  <2>. QED
    BY <1>4, <2>1, <2>2, OrderGrows DEF MonitorStart
<1>5. ASSUME NEW u \in Users, NEW d \in Durations, MonitorStop(u, d) PROVE OrderInv'
  <2>1. PICK n \in Names : n = uname[u] /\ points[n] \in Point /\ points[n] # None
    BY <1>5, HasPoint DEF MonitorStop, PlaceInv
  <2>2. /\ points[n].min \in Nat /\ points[n].max \in Nat /\ d \in Nat
        /\ points[n].min <= points[n].max
    BY <2>1 DEF OrderInv, Point
  <2>3. /\ Calculated(points[n], d) \in Point /\ Calculated(points[n], d) # None
        /\ Calculated(points[n], d).min <= Calculated(points[n], d).max
        /\ points[n].max <= Calculated(points[n], d).max
    <3>1. PICK p \in Point : p = points[n]
      BY <2>1
    <3>2. /\ Calculated(p, d) \in Point /\ Calculated(p, d) # None
          /\ Calculated(p, d).max = (IF d > p.max THEN d ELSE p.max)
          /\ Calculated(p, d).min = (IF d < p.min \/ p.min = 0 THEN d ELSE p.min)
      BY <2>2, CalculatedType
    <3>3. Calculated(p, d).min <= Calculated(p, d).max /\ p.max <= Calculated(p, d).max
      BY <2>2, <3>1, <3>2
    <3>. QED
      BY <3>1, <3>2, <3>3
  <2>. QED
    BY <1>5, <2>1, <2>3, OrderGrows DEF MonitorStop
<1>6. ASSUME NEW u \in Users, Leave(u) PROVE OrderInv'
  BY <1>1, <1>6 DEF Leave
<1>7. CASE ReportBegin \/ ReportEnd \/ ResetBegin \/ ResetEnd
  BY <1>1, <1>7 DEF ReportBegin, ReportEnd, ResetBegin, ResetEnd
<1>8. ASSUME NEW n \in rtodo, ReportNext(n) PROVE OrderInv'
  BY <1>1, <1>8 DEF ReportNext
<1>9. CASE ReadMin
  <2>1. rname \in Names /\ points[rname] # None
    BY <1>9 DEF ReadMin, Read, Take, TypeOK, PlaceInv
  <2>2. points[rname].min <= points[rname].max
    BY <2>1 DEF OrderInv
  <2>3. rdata'.min = points[rname].min
    BY <1>9 DEF ReadMin, Read, Take, TypeOK, Snapshot
  <2>. QED
    BY <1>9, <2>2, <2>3 DEF ReadMin, Read, Take, OrderInv, TornOnlyByReset, ReportOrdered
<1>10. CASE ReadMax
  <2>1. rname \in Names /\ points[rname] # None
    BY <1>10 DEF ReadMax, Read, Take, TypeOK, PlaceInv
  <2>2. rdata'.min = rdata.min /\ rdata'.max = points[rname].max /\ cleared' = cleared
    BY <1>10 DEF ReadMax, Read, Take, TypeOK, Snapshot
  <2>3. rdata.min \in Nat /\ points[rname].max \in Nat
    BY <2>1 DEF TypeOK, Snapshot, Point
  <2>4. ~cleared => rdata'.max >= rdata'.min
    BY <1>10, <2>2, <2>3 DEF ReadMax, Read, Take, OrderInv
  <2>. QED
    BY <1>10, <2>2, <2>4 DEF ReadMax, Read, Take, OrderInv, TornOnlyByReset, ReportOrdered
<1>11. CASE ReadAverage
  BY <1>1, <1>11 DEF ReadAverage, Read, Take
<1>12. ASSUME NEW n \in Names, points' = [points EXCEPT ![n] = NewPoint],
              UNCHANGED <<rpc, rname, rdata>>, cleared' = ClearedBy(n)
       PROVE  OrderInv'
  <2>1. NewPoint.min <= NewPoint.max
    BY NewPointType
  <2>2. \A m \in Names : points'[m] # None => points'[m].min <= points'[m].max
    BY <1>12, <2>1 DEF TypeOK, OrderInv
  <2>3. ASSUME rpc' = "max", ~cleared' PROVE rdata'.min <= points'[rname'].max
    <3>1. rname \in Names /\ rname # n /\ rpc = "max" /\ ~cleared
      BY <1>12, <2>3 DEF ClearedBy, TypeOK, PlaceInv
    <3>. QED
      BY <1>12, <3>1 DEF TypeOK, OrderInv
  <2>4. TornOnlyByReset'
    BY <1>12 DEF OrderInv, TornOnlyByReset, ReportOrdered, ClearedBy
  <2>. QED
    BY <2>2, <2>3, <2>4 DEF OrderInv
<1>13. ASSUME NEW u \in Users, ResetPoint(u) PROVE OrderInv'
  BY <1>12, <1>13, HasPoint DEF ResetPoint
<1>14. ASSUME NEW n \in ztodo, ResetNext(n) PROVE OrderInv'
  <2>1. CASE plock # None
    BY <1>1, <1>14, <2>1 DEF ResetNext
  <2>2. CASE plock = None
    <3>1. n \in Names
      BY DEF TypeOK
    <3>. QED
      BY <1>12, <1>14, <2>2, <3>1 DEF ResetNext
  <2>. QED
    BY <2>1, <2>2
<1>15. CASE UNCHANGED vars
  BY <1>1, <1>15 DEF vars
<1>. QED
  BY <1>2, <1>3, <1>4, <1>5, <1>6, <1>7, <1>8, <1>9, <1>10, <1>11, <1>13, <1>14, <1>15
     DEF Next, UserStep, ReportStep, ResetStep

-----------------------------------------------------------------------------
(* The properties *)

LEMMA InitInv == Init => Inv
<1>. SUFFICES ASSUME Init PROVE Inv
  OBVIOUS
<1>. USE MeasurementAssumption DEF Init
<1>1. TypeOK
  <2>1. rdata \in Snapshot
    BY DEF Snapshot, NoData
  <2>2. crashed \in BOOLEAN /\ plock \in Users \cup {None}
    OBVIOUS
  <2>3. starts \in 0..MaxStarts
    <3>1. starts = 0 /\ MaxStarts \in Nat
      OBVIOUS
    <3>. HIDE DEF Init
    <3>. QED
      BY <3>1
  <2>. QED
    BY <2>1, <2>2, <2>3 DEF TypeOK
<1>2. PlaceInv
  BY DEF PlaceInv
<1>3. FreshInv /\ NoLostUpdate
  BY DEF FreshInv, NoLostUpdate, Present
<1>. QED
  BY <1>1, <1>2, <1>3 DEF Inv

LEMMA InvHolds == Spec => []Inv
<1>1. Inv /\ [Next]_vars => Inv'
  BY TypeStep, PlaceStep, CountStep DEF Inv
<1>. QED
  BY InitInv, <1>1, PTL DEF Spec

\* Every variable keeps its range: the numbers of a point are natural, whatever
\* is measured and reset at the same time.
THEOREM TypeCorrect == Spec => []TypeOK
BY InvHolds, PTL DEF Inv

\* Every measurement that was stopped is counted once with its duration, in the
\* point it was started for, for any number of goroutines that make, use and reset
\* the points.
THEOREM AllCounted == Spec => []NoLostUpdate
BY InvHolds, PTL DEF Inv

\* The average of a point lies between its extremes, for all durations the clock
\* can tell from nothing.
THEOREM AverageInside ==
  ASSUME 0 \notin Durations
  PROVE  Spec => []AverageBetween
<1>1. Init => Inv /\ SumInv
  BY InitInv DEF Init, SumInv
<1>2. Inv /\ SumInv /\ [Next]_vars => (Inv /\ SumInv)'
  BY TypeStep, PlaceStep, CountStep, SumStep DEF Inv
<1>3. Inv /\ SumInv => AverageBetween
  <2>. SUFFICES ASSUME TypeOK, SumInv, NEW n \in Present, points[n].count > 0
                PROVE  /\ points[n].min <= points[n].average
                       /\ points[n].average <= points[n].max
    BY DEF Inv, AverageBetween
  <2>. DEFINE p == points[n]
  <2>1. p \in Point /\ Between(p)
    BY DEF TypeOK, SumInv, Present
  <2>. HIDE DEF p
  <2>2. /\ p.min \in Nat /\ p.max \in Nat /\ p.total \in Nat /\ p.count \in Nat \ {0}
    BY <2>1 DEF Point, p
  <2>3. /\ p.min * p.count <= p.total /\ p.total <= p.max * p.count
        /\ p.average = p.total \div p.count
    BY <2>1, <2>2, p.count > 0, Zenon DEF Between, p
  <2>4. p.min <= p.total \div p.count /\ p.total \div p.count <= p.max
    BY <2>2, <2>3, AverageOf, Zenon
  <2>. QED
    BY <2>3, <2>4, Zenon DEF p
<1>. QED
  BY <1>1, <1>2, <1>3, PTL DEF Spec

\* Whatever is measured while a report reads the numbers of a point one by one,
\* without the lock, it shows no minimum above the maximum unless the point was
\* reset between the two reads.
THEOREM ReportsInOrder == Spec => []TornOnlyByReset
<1>1. Init => OrderInv
  BY DEF Init, OrderInv, TornOnlyByReset, ReportOrdered
<1>2. Inv /\ OrderInv /\ [Next]_vars => OrderInv'
  BY OrderStep DEF Inv
<1>3. OrderInv => TornOnlyByReset
  BY DEF OrderInv
<1>. QED
  BY InvHolds, <1>1, <1>2, <1>3, PTL DEF Spec

=============================================================================
