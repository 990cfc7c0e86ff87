----------------------------- MODULE RoadNetwork -----------------------------
(***************************************************************************)
(* The free drive-time estimate (backend/conditions/road_network.py with   *)
(* ferries.py, pass_closures.py and access_points.py): one search from the *)
(* origin over the roads that are open and the boats of the day, then the  *)
(* best access point of each water.  Times are minutes.                    *)
(***************************************************************************)
EXTENDS Calendar, Sequences, Functions

CONSTANTS
    Node, Far,      \* Far: infinity
    Road,           \* [from, to, minutes, pass], pass being {} or one pass
    Ferry,          \* [id, ends, crossing, wait], ends two nodes, wait by the demand of the day
    Pass,           \* Pass[id]: [closes, opens], each a month and a day
    Day, Snap, Limit,   \* where a search may start: days, the origin's minutes to its nodes, limits
    Points              \* the access points that a water may have, each a set

VARIABLE field      \* DriveField: [day, limit, near, dist, pred, via, heap], near being the origin's minutes

-----------------------------------------------------------------------------
(* The day *)

SHOULDER_DAYS == 21
In(md, y) == Date(y, md[1], md[2])

OfYear(md) == md[1] \in 1..12 /\ md[2] \in 1..31

\* minutes are not negative; passes are shut over New Year, and open for longer than the shoulders
ASSUME NetworkAssumption ==
    /\ IsFiniteSet(Node) /\ Far \in Nat /\ Day \subseteq Days /\ Limit \subseteq 0..Far - 1
    /\ \A r \in Road : {r.from, r.to} \subseteq Node /\ r.minutes \in Nat /\ r.pass \subseteq DOMAIN Pass
    /\ \A f \in Ferry :
          /\ f.ends \subseteq Node /\ f.id \notin DOMAIN Pass
          /\ f.crossing \in Nat /\ f.wait \in [{"normal", "summer", "peak"} -> Nat]
    /\ \A p \in DOMAIN Pass :
          /\ OfYear(Pass[p].closes) /\ OfYear(Pass[p].opens)
          /\ \A day \in Day : In(Pass[p].opens, YearOf(day)) + SHOULDER_DAYS < In(Pass[p].closes, YearOf(day))
    /\ \A snap \in Snap : DOMAIN snap \subseteq Node /\ \A n \in DOMAIN snap : snap[n] \in 0..Far - 1
    /\ \A points \in Points :
          /\ points # {} /\ \A p \in points : p.key \in Nat /\ p.node \in Node /\ p.minutes \in Nat
          /\ \A p, q \in points : p.key = q.key => p = q

\* faulty variant: the window always starts in the day's own year
WindowOfYear(c, day) == <<In(c.closes, YearOf(day)), In(c.opens, YearOf(day) + 1)>>

\* the closure that the day falls in, or the nearest one
Window(c, day) ==
    LET y == YearOf(day) IN
    IF day <= In(c.opens, y) + SHOULDER_DAYS
    THEN <<In(c.closes, y - 1), In(c.opens, y)>>
    ELSE <<In(c.closes, y), In(c.opens, y + 1)>>

PassStatus(c, day) ==
    LET first == Window(c, day)[1]
        last == Window(c, day)[2]
    IN  IF first <= day /\ day < last THEN "closed"
        ELSE IF first - SHOULDER_DAYS <= day /\ day < last + SHOULDER_DAYS THEN "uncertain" ELSE "open"

HolidayWeekends(y) ==
    LET mlk == NthWeekday(y, 1, Monday, 3)
        presidents == NthWeekday(y, 2, Monday, 3)
        july4 == Date(y, 7, 4)
    IN  {<<mlk - 3, mlk>>, <<presidents - 3, presidents>>, <<MemorialDay(y) - 3, MemorialDay(y)>>,
         <<july4 - 2, july4 + 2>>, <<LaborDay(y) - 3, LaborDay(y)>>, <<Thanksgiving(y) - 1, Thanksgiving(y) + 3>>,
         <<Date(y, 12, 23), Date(y, 12, 26)>>, <<Date(y, 12, 30), Date(y, 12, 31)>>, <<Date(y, 1, 1), Date(y, 1, 1)>>}

Demand(day) ==
    LET y == YearOf(day) IN
    CASE \E w \in HolidayWeekends(y) : w[1] <= day /\ day <= w[2] -> "peak"
      [] OTHER -> IF MemorialDay(y) - 3 <= day /\ day <= LaborDay(y)
                  THEN IF Weekday(day) >= Friday THEN "peak" ELSE "summer"
                  ELSE "normal"

BoardingTime(f, day) == f.crossing + f.wait[Demand(day)]

\* faulty variant: the day's wait is added to a time that has it already
HereWaitAll(f, minutes, day) == f.wait[Demand(day)]

\* _here_ferries: what HERE counts beyond the crossing is taken as wait already included
HereWait(f, minutes, day) == Max({0, f.wait[Demand(day)] - Max({0, minutes - f.crossing})})

-----------------------------------------------------------------------------
(* The search *)

Closed(r, day) == \E p \in r.pass : PassStatus(Pass[p], day) = "closed"

\* the ways out of a node on that day: [to, cost, by]
Legs(n, day) ==
    {[to |-> r.to, cost |-> r.minutes, by |-> r.pass] : r \in {r \in Road : r.from = n /\ ~Closed(r, day)}}
    \cup UNION {{[to |-> m, cost |-> BoardingTime(f, day), by |-> {f.id}] : m \in f.ends \ {n}} : f \in {f \in Ferry : n \in f.ends}}

FieldInit ==
    \E day \in Day, snap \in Snap, limit \in Limit :
        field = [day |-> day, limit |-> limit, near |-> [n \in Node |-> IF n \in DOMAIN snap THEN snap[n] ELSE Far],
                 dist |-> [n \in Node |-> IF n \in DOMAIN snap THEN snap[n] ELSE Far],
                 pred |-> [n \in Node |-> {}], via |-> [n \in Node |-> {}],
                 heap |-> {<<snap[n], n>> : n \in DOMAIN snap}]

\* faulty variant: a node keeps the first time found
ImprovesFirst(f, leg, minutes) == f.dist[leg.to] = Far

Improves(f, leg, minutes) == minutes + leg.cost < f.dist[leg.to]

\* a node is taken from the heap; what it improves goes back on it
Settle ==
    /\ field.heap # {}
    /\ \E top \in field.heap :
          /\ \A e \in field.heap : top[1] <= e[1]
          /\ LET u == top[2]
                 found == {l \in Legs(u, field.day) : Improves(field, l, top[1])}
                 best(v) == CHOOSE l \in found : l.to = v /\ \A k \in found : k.to = v => l.cost <= k.cost
                 better == {l.to : l \in found}
                 rest == field.heap \ {top}
             IN  field' = IF top[1] > field.dist[u] \/ top[1] > field.limit THEN [field EXCEPT !.heap = rest]
                          ELSE [field EXCEPT
                            !.dist = [v \in Node |-> IF v \in better THEN top[1] + best(v).cost ELSE field.dist[v]],
                            !.pred = [v \in Node |-> IF v \in better THEN {u} ELSE field.pred[v]],
                            !.via = [v \in Node |-> IF v \in better THEN best(v).by ELSE field.via[v]],
                            !.heap = rest \cup {<<top[1] + best(v).cost, v>> : v \in better}]

FieldSpec == FieldInit /\ [][Settle]_field

\* the nodes of the route to n
RouteTo(n) ==
    LET route[k \in 0..Cardinality(Node)] ==
            IF k = 0 THEN <<n>> ELSE [i \in 1..Cardinality(field.pred[Head(route[k - 1])]) |->
                                         CHOOSE p \in field.pred[Head(route[k - 1])] : TRUE] \o route[k - 1]
    IN  route[Cardinality(Node)]

\* _route_flags: the boats and the passes on it
Flags(n) == UNION {field.via[m] : m \in Range(RouteTo(n))}

\* the passes on the route that may be closed are told of
PassWarnings(n) == {p \in Flags(n) \cap DOMAIN Pass : PassStatus(Pass[p], field.day) = "uncertain"}

-----------------------------------------------------------------------------
(* Access points: [key, node, minutes, source, kind, confidence, gate], gate being none or *)
(* one [kind, from, to] *)

Minutes(ap) == IF field.dist[ap.node] = Far THEN Far ELSE field.dist[ap.node] + ap.minutes

Penalty(ap) ==
    (IF ap.source = "osm" THEN 1 ELSE 0) + (IF ap.kind = "bridge" THEN 2 ELSE 0) + (IF ap.confidence = "low" THEN 3 ELSE 0)

\* vehicle_access: a range that ends before it starts runs over New Year
VehicleAccess(ap, day) ==
    LET inside(g) == LET first == In(g.from, YearOf(day)) last == In(g.to, YearOf(day)) IN
                     IF first <= last THEN first <= day /\ day <= last ELSE day >= first \/ day <= last
    IN  CASE ap.gate = {} -> "yes"
          [] \E g \in ap.gate : g.kind = "undated" -> "unknown"
          [] OTHER -> IF \E g \in ap.gate : inside(g) = (g.kind = "open") THEN "yes" ELSE "no"

Usable(points, day) ==
    LET in == {p \in points : VehicleAccess(p, day) # "no"} IN IF in = {} THEN points ELSE in

\* faulty variant: a point that cannot be reached is as good as any
PickReached(points, day) == CHOOSE p \in Usable(points, day) : \A q \in Usable(points, day) : Penalty(p) <= Penalty(q)

PickAccessPoint(points, day) ==
    CHOOSE p \in Usable(points, day) : \A q \in Usable(points, day) :
        \/ Minutes(p) + Penalty(p) < Minutes(q) + Penalty(q)
        \/ Minutes(p) + Penalty(p) = Minutes(q) + Penalty(q) /\ p.key <= q.key

-----------------------------------------------------------------------------
(* The drive as a reader of the map and the calendar would tell it *)

\* from the day that it closes in autumn to the day that it opens in spring
Shut(c, day) == day < In(c.opens, YearOf(day)) \/ day >= In(c.closes, YearOf(day))

Ways(day) ==
    {[from |-> r.from, to |-> r.to, cost |-> r.minutes] : r \in {r \in Road : \A p \in r.pass : ~Shut(Pass[p], day)}}
    \cup UNION {{[from |-> e[1], to |-> e[2], cost |-> BoardingTime(f, day)] :
                     e \in {e \in f.ends \X f.ends : e[1] # e[2]}} : f \in Ferry}

\* one road or boat more
Onward(best, ways) ==
    [n \in Node |-> Min({best[n]} \cup {best[w.from] + w.cost : w \in {w \in ways : w.to = n}})]

\* the least minutes from the origin over at most k roads or boats, for each k
OverAtMost(near, ways) ==
    LET best[k \in 0..Cardinality(Node)] == IF k = 0 THEN near ELSE Onward(best[k - 1], ways) IN best

Shortest(near, day) == OverAtMost(near, Ways(day))[Cardinality(Node)]

SearchIsExact ==
    \A least \in {Shortest(field.near, field.day)}, n \in Node :
        /\ field.dist[n] >= least[n]
        /\ least[n] <= field.limit => field.dist[n] = least[n]

RoutesAreOpen == \A n \in Node : \A p \in Flags(n) \cap DOMAIN Pass : ~Shut(Pass[p], field.day)

\* the most that a weaker point is charged
MaxPenalty == 6

PointIsNear ==
    \A points \in Points :
        LET pick == PickAccessPoint(points, field.day) IN
        /\ Minutes(pick) > field.limit =>
               \A q \in Usable(points, field.day) : Minutes(q) > field.limit - MaxPenalty
        /\ VehicleAccess(pick, field.day) = "no" => \A q \in points : VehicleAccess(q, field.day) = "no"

WaitCountsOnce ==
    \A f \in Ferry : \A minutes \in f.crossing..f.crossing + 2 * f.wait[Demand(field.day)] :
        minutes + HereWait(f, minutes, field.day) = Max({minutes, BoardingTime(f, field.day)})

(* An estimate within the limit is the shortest drive over what is open on the day, with the boats' wait *)
(* in it, and one past the limit is never too short; no estimate uses a pass that is closed; a water is  *)
(* dropped only if every point that can be used is past the limit, but for the six minutes that weaker   *)
(* points are charged; and a boat's wait is counted once, whatever HERE has counted (road_network.py:109,*)
(* access_points.py:108, drive_times.py:119).                                                            *)
EstimatesHold == field.heap = {} => SearchIsExact /\ RoutesAreOpen /\ PointIsNear /\ WaitCountsOnce
=============================================================================
