----------------------------- MODULE Measurement -----------------------------
(***************************************************************************)
(* internal/utils/measurement: the points that every request measures      *)
(* itself with, their report (GET metrics) and their reset (POST           *)
(* metrics/reset).  plock guards the map of the points in Point only: the  *)
(* report and the reset walk over the map without it.  calcLock guards     *)
(* the numbers of a point where they are written, not where Data reads     *)
(* them.                                                                   *)
(***************************************************************************)
EXTENDS Integers

CONSTANTS
  Names,      \* names of points
  Users,      \* goroutines that measure
  Durations,  \* what the clock may show for one measurement
  Resets,     \* POST metrics/reset is called
  MaxStarts,  \* bound: calls of Point
  None

Point == [active : Int, maxActive : Int, count : Nat, total : Nat,
          average : Nat, min : Nat, max : Nat]

ASSUME MeasurementAssumption ==
  /\ Durations \subseteq Nat
  /\ Resets \in BOOLEAN
  /\ MaxStarts \in Nat
  /\ None \notin Names \cup Users \cup Point

NewPoint == [active |-> 0, maxActive |-> 0, count |-> 0, total |-> 0,
             average |-> 0, min |-> 0, max |-> 0]

VARIABLES
  points,      \* the map: name -> Point, None where there is no entry
  plock,       \* who is in Point, which holds the mutex
  starts,      \* calls of Point so far, for a measurement or a reset
  upc, uname,  \* each user: place, name of its point
  rpc, rtodo, rname, rdata,  \* the report: place, points to visit, the one at
                             \* hand, the numbers read from it so far
  zpc, ztodo,  \* the reset of all points: place, points to visit
  crashed,     \* the runtime saw an iteration during a write of the map
  done,        \* history: durations counted in each point since its last reset
  sum,         \* history: their sum
  cleared      \* history: the point at hand was reset after the report had read
               \* its minimum and before it reads its maximum

userVars == <<upc, uname, starts>>
repVars  == <<rpc, rtodo, rname, rdata>>
resVars  == <<zpc, ztodo>>
histVars == <<done, sum, cleared>>
vars == <<points, plock, userVars, repVars, resVars, crashed, histVars>>

Present == {n \in Names : points[n] # None}
Snapshot == [min : Nat, max : Nat, average : Nat]
NoData == [min |-> 0, max |-> 0, average |-> 0]

Init ==
  /\ points = [n \in Names |-> None]
  /\ plock = None
  /\ starts = 0
  /\ upc = [u \in Users |-> "idle"]
  /\ uname = [u \in Users |-> None]
  /\ rpc = "idle" /\ rtodo = {} /\ rname = None /\ rdata = NoData
  /\ zpc = "idle" /\ ztodo = {}
  /\ crashed = FALSE
  /\ done = [n \in Names |-> 0]
  /\ sum = [n \in Names |-> 0]
  /\ cleared = FALSE

-----------------------------------------------------------------------------
(* Service.Start and Monitor.Stop *)

\* Point finds the entry.
Find(u, n) ==
  /\ upc[u] = "idle" /\ starts < MaxStarts
  /\ plock = None /\ points[n] # None
  /\ starts' = starts + 1
  /\ uname' = [uname EXCEPT ![u] = n]
  /\ upc' = [upc EXCEPT ![u] = "start"]
  /\ UNCHANGED <<points, plock, repVars, resVars, crashed, histVars>>

\* Point finds none and writes a new one into the map, with the mutex if it was free.
InsertWhen(free, u, n) ==
  /\ upc[u] = "idle" /\ starts < MaxStarts
  /\ free /\ points[n] = None
  /\ starts' = starts + 1
  /\ plock' = u
  /\ uname' = [uname EXCEPT ![u] = n]
  /\ upc' = [upc EXCEPT ![u] = "insert"]
  /\ UNCHANGED <<points, repVars, resVars, crashed, histVars>>

\* Mutant: the map is read without the mutex.
InsertUnlocked(u, n) == InsertWhen(TRUE, u, n)

InsertBegin(u, n) == InsertWhen(plock = None, u, n)

\* An iteration under way may come by the new entry or not.
MayVisit(place, todo, n) == {todo} \cup IF place = "walk" THEN {todo \cup {n}} ELSE {}

InsertEnd(u) ==
  /\ upc[u] = "insert"
  /\ rtodo' \in MayVisit(rpc, rtodo, uname[u])
  /\ ztodo' \in MayVisit(zpc, ztodo, uname[u])
  /\ points' = [points EXCEPT ![uname[u]] = NewPoint]
  /\ plock' = None
  /\ upc' = [upc EXCEPT ![u] = "start"]
  /\ UNCHANGED <<uname, starts, rpc, rname, rdata, zpc, crashed, histVars>>

\* activateMonitor, under calcLock
Activated(p) ==
  [p EXCEPT !.active = @ + 1,
            !.maxActive = IF p.active + 1 > @ THEN p.active + 1 ELSE @]

MonitorStart(u) ==
  /\ upc[u] = "start"
  /\ points' = [points EXCEPT ![uname[u]] = Activated(@)]
  /\ upc' = [upc EXCEPT ![u] = "running"]
  /\ UNCHANGED <<plock, uname, starts, repVars, resVars, crashed, histVars>>

\* Active goes down, n measurements of d are counted, and avg is the new average.
Summed(p, d, n, avg) ==
  [p EXCEPT !.active = @ - 1,
            !.count = @ + n,
            !.total = @ + d,
            !.average = avg,
            !.max = IF d > @ THEN d ELSE @,
            !.min = IF d < @ \/ @ = 0 THEN d ELSE @]

\* Mutants: count goes down with active; the average is of the total before.
CalculatedDown(p, d) == Summed(p, d, -1, p.average)
CalculatedBefore(p, d) == Summed(p, d, 1, p.total \div (p.count + 1))

\* calculateMonitor, under calcLock
Calculated(p, d) == Summed(p, d, 1, (p.total + d) \div (p.count + 1))

\* Stop of a monitor that does not run does nothing.
MonitorStop(u, d) ==
  LET n == uname[u]
  IN /\ upc[u] = "running"
     /\ points' = [points EXCEPT ![n] = Calculated(@, d)]
     /\ done' = [done EXCEPT ![n] = @ + 1]
     /\ sum' = [sum EXCEPT ![n] = @ + d]
     /\ upc' = [upc EXCEPT ![u] = "stopped"]
     /\ UNCHANGED <<plock, uname, starts, repVars, resVars, crashed, cleared>>

ClearedBy(n) == cleared \/ (rpc = "max" /\ rname = n)

\* POST metrics/reset/{name}: the point is got like that of a measurement.
ResetPoint(u) ==
  LET n == uname[u]
  IN /\ Resets /\ upc[u] = "start"
     /\ points' = [points EXCEPT ![n] = NewPoint]
     /\ done' = [done EXCEPT ![n] = 0]
     /\ sum' = [sum EXCEPT ![n] = 0]
     /\ cleared' = ClearedBy(n)
     /\ upc' = [upc EXCEPT ![u] = "idle"]
     /\ uname' = [uname EXCEPT ![u] = None]
     /\ UNCHANGED <<plock, starts, repVars, resVars, crashed>>

\* FTile returns on an error of the provider and stops none of its two monitors.
Leave(u) ==
  /\ upc[u] \in {"running", "stopped"}
  /\ upc' = [upc EXCEPT ![u] = "idle"]
  /\ uname' = [uname EXCEPT ![u] = None]
  /\ UNCHANGED <<points, plock, starts, repVars, resVars, crashed, histVars>>

-----------------------------------------------------------------------------
(* Datas: a step of the iteration during a write of the map is fatal. *)

ReportBegin ==
  /\ rpc = "idle"
  /\ rpc' = "walk" /\ rtodo' = Present
  /\ UNCHANGED <<points, plock, userVars, rname, rdata, resVars, crashed, histVars>>

ReportNext(n) ==
  /\ rpc = "walk" /\ n \in rtodo
  /\ IF plock # None
     THEN crashed' = TRUE /\ UNCHANGED <<repVars, cleared>>
     ELSE /\ rtodo' = rtodo \ {n} /\ rname' = n /\ rpc' = "min"
          /\ rdata' = NoData /\ cleared' = FALSE /\ UNCHANGED crashed
  /\ UNCHANGED <<points, plock, userVars, resVars, done, sum>>

\* Data takes one field into the data of its report.
Take(field, here, then) ==
  /\ rpc = here
  /\ rdata' = [rdata EXCEPT ![field] = points[rname][field]]
  /\ rpc' = then
  /\ UNCHANGED <<points, plock, userVars, rtodo, rname, resVars, crashed, histVars>>

\* Mutant: the maximum is read before the minimum.
ReadSwapped(field, here, then) ==
  Take(CASE field = "min" -> "max" [] field = "max" -> "min" [] OTHER -> field, here, then)

\* Data reads field after field, without calcLock.  The update of a point counts as
\* one step: it writes the maximum before the minimum and Data reads them the other
\* way round, so that a read between the two, on a processor that keeps the order
\* of its writes, shows nothing else.
Read(field, here, then) == Take(field, here, then)

ReadMin == Read("min", "min", "max")
ReadMax == Read("max", "max", "average")
ReadAverage == Read("average", "average", "walk")

ReportEnd ==
  /\ rpc = "walk" /\ rtodo = {}
  /\ rpc' = "idle" /\ rname' = None /\ rdata' = NoData
  /\ UNCHANGED <<points, plock, userVars, rtodo, resVars, crashed, histVars>>

-----------------------------------------------------------------------------
(* Service.Reset walks over the map too; a point is reset under calcLock.  *)

ResetBegin ==
  /\ Resets /\ zpc = "idle"
  /\ zpc' = "walk" /\ ztodo' = Present
  /\ UNCHANGED <<points, plock, userVars, repVars, crashed, histVars>>

ResetNext(n) ==
  /\ zpc = "walk" /\ n \in ztodo
  /\ IF plock # None
     THEN crashed' = TRUE /\ UNCHANGED <<points, ztodo, histVars>>
     ELSE /\ ztodo' = ztodo \ {n}
          /\ points' = [points EXCEPT ![n] = NewPoint]
          /\ done' = [done EXCEPT ![n] = 0]
          /\ sum' = [sum EXCEPT ![n] = 0]
          /\ cleared' = ClearedBy(n)
          /\ UNCHANGED crashed
  /\ UNCHANGED <<plock, userVars, repVars, zpc>>

ResetEnd ==
  /\ zpc = "walk" /\ ztodo = {}
  /\ zpc' = "idle"
  /\ UNCHANGED <<points, plock, userVars, repVars, ztodo, crashed, histVars>>

-----------------------------------------------------------------------------
UserStep(u) ==
  \/ InsertEnd(u) \/ MonitorStart(u) \/ Leave(u) \/ ResetPoint(u)
  \/ \E d \in Durations : MonitorStop(u, d)

ReportStep ==
  \/ \E n \in rtodo : ReportNext(n)
  \/ ReadMin \/ ReadMax \/ ReadAverage \/ ReportEnd

ResetStep == ResetEnd \/ \E n \in ztodo : ResetNext(n)

Next ==
  /\ ~crashed
  /\ \/ \E u \in Users, n \in Names : Find(u, n) \/ InsertBegin(u, n)
     \/ \E u \in Users : UserStep(u)
     \/ ReportBegin \/ ReportStep
     \/ ResetBegin \/ ResetStep

Spec == Init /\ [][Next]_vars

-----------------------------------------------------------------------------
(* Properties *)

\* Every variable stays in its range.
TypeOK ==
  /\ points \in [Names -> Point \cup {None}]
  /\ plock \in Users \cup {None}
  /\ starts \in 0..MaxStarts
  /\ upc \in [Users -> {"idle", "insert", "start", "running", "stopped"}]
  /\ uname \in [Users -> Names \cup {None}]
  /\ rpc \in {"idle", "walk", "min", "max", "average"}
  /\ rtodo \subseteq Names /\ rname \in Names \cup {None} /\ rdata \in Snapshot
  /\ zpc \in {"idle", "walk"} /\ ztodo \subseteq Names
  /\ crashed \in BOOLEAN
  /\ done \in [Names -> Nat] /\ sum \in [Names -> Nat] /\ cleared \in BOOLEAN

\* A measurement that is stopped is counted once, in the point it was started
\* for, and its duration is in the total: no two users lose an update to one
\* another, also not when one of them has just made the point.
NoLostUpdate ==
  \A n \in Present : points[n].count = done[n] /\ points[n].total = sum[n]

\* Without measurements too short for the clock, the average of a point lies
\* between its extremes.
AverageBetween ==
  \A n \in Present : points[n].count > 0 =>
    points[n].min <= points[n].average /\ points[n].average <= points[n].max

\* measurement_test.go:77: "ast.GreaterOrEqual(dat.Max, dat.Min)", of the data
\* a report shows of a point.
ReportOrdered == rpc = "average" => rdata.max >= rdata.min

\* Only a reset between the two reads can show a minimum above the maximum: no
\* measurement counted meanwhile does, although Data reads without calcLock.
TornOnlyByReset == ~cleared => ReportOrdered
=============================================================================
