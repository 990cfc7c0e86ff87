--------------------------- MODULE MCRecommendation ---------------------------
(* How a recommendation is made: the candidate builds of two trips, and the  *)
(* judgements they rest on, each in behaviours of its own.                   *)
EXTENDS CandidatePipeline, RoadNetwork, WaterSeasons, Readings, NightlyScore, TLC

CONSTANTS a, b, c, d, g, t1, t2

VARIABLES part, sample

vars == <<part, sample, field, pipelineVars>>

-----------------------------------------------------------------------------
(* The builds *)

MCQuery == <<a, b, c, d, g>>
Lake == [type |-> "lake", river |-> FALSE, alpine |-> FALSE, elev |-> 0, minTemp |-> {}, groups |-> {"trout"},
         fires |-> {}, parks |-> <<>>, base |-> 0, boats |-> {}, visited |-> TRUE, old |-> FALSE,
         legal |-> TRUE, outOfSeason |-> FALSE, closed |-> FALSE]
River == [Lake EXCEPT !.type = "river", !.river = TRUE, !.minTemp = {40}]
MCSite ==
    (a :> [River EXCEPT !.base = 500]) @@
    (b :> [Lake EXCEPT !.base = 400, !.boats = {"peak"}]) @@
    (c :> [Lake EXCEPT !.base = 300]) @@
    \* left alone for long
    (d :> [Lake EXCEPT !.base = 100, !.groups = {"bass"}, !.old = TRUE]) @@
    (g :> [Lake EXCEPT !.base = 900, !.closed = TRUE])

MCPlace == {"home", "unknown"}
Times(x, y, z) == (a :> x) @@ (b :> y) @@ (c :> z) @@ (d :> 50) @@ (g :> 10)
\* at the limit of 100: within it, within the margin, past it
MCEstimate == [p \in MCPlace |-> Times(90, 95, 110)]
MCDrive == [p \in MCPlace |-> Times(100, 90, 95)]
NoWait == [s \in {a, b, c, d, g} |-> 0]
\* b is reached by boat, and only t1 travels on a busy day
MCBoatWait == (t1 :> [NoWait EXCEPT ![b] = 20]) @@ (t2 :> NoWait)

Gauge(cfs, temp) == {[cfs |-> cfs, trend |-> "steady", temp |-> {temp}, turbidity |-> {}]}
NoFlow == [delta |-> 0, flood |-> "none"]
Fine == [usgs |-> Gauge(300, 50), flow |-> [NoFlow EXCEPT !.delta = 100],
         swe |-> {}, pops |-> {<<0>>}, wind |-> {}, aqi |-> {}, trail |-> {}]
Poor == [Fine EXCEPT !.usgs = Gauge(900, 50), !.flow.delta = -250, !.aqi = {210}]
Flooded == [Fine EXCEPT !.usgs = Gauge(9000, 50), !.flow.flood = "flood"]
Unread == [Fine EXCEPT !.usgs = {}, !.flow = NoFlow, !.pops = {}]
MCOutlook == [s \in {a, b, c, d, g} |-> {Fine} \cup (IF s = a THEN {Poor, Flooded, Unread} ELSE {})]
MCMaxTurns == (t1 :> 2) @@ (t2 :> 1)

Wide == [types |-> {}, species |-> {"trout"}, goal |-> "maximize_catch", max |-> 100]
MCIntake == {Wide, [Wide EXCEPT !.max = 120]}

\* the other parts search for no way, and never find one
NoField == [heap |-> {"none"}]

InitBuild ==
    /\ part = "build" /\ sample = <<>> /\ field = NoField
    /\ PipelineInit
    /\ obs[a] = Fine
    /\ trip[t1].from = "home" /\ \A t \in Trip : trip[t].intake = Wide

\* the other parts leave the builds alone
NoBuilds ==
    /\ clock = 0 /\ observed = 0 /\ obs = [s \in Spots |-> Fine]
    /\ trip = <<>> /\ build = [t \in Trip |-> NoBuild] /\ list = <<>> /\ routes = {} /\ replies = {} /\ shown = <<>>

-----------------------------------------------------------------------------
(* The estimates: two ways around a pass and a boat across, on six kinds of day *)

MCNode == 1..5
Both(x, y, minutes, pass) == {[from |-> x, to |-> y, minutes |-> minutes, pass |-> pass], [from |-> y, to |-> x, minutes |-> minutes, pass |-> pass]}
MCRoad == Both(1, 2, 20, {}) \cup Both(2, 3, 30, {"sr20"}) \cup Both(1, 4, 35, {}) \cup Both(4, 3, 40, {}) \cup Both(3, 5, 5, {}) \cup Both(2, 4, 10, {})
MCFerry == {[id |-> "sea-bi", ends |-> {2, 5}, crossing |-> 35, wait |-> [normal |-> 5, summer |-> 15, peak |-> 40]]}
MCPass == [sr20 |-> [closes |-> <<11, 20>>, opens |-> <<5, 5>>]]
MCDay == {Date(2026, 7, 15), Date(2026, 7, 18), Date(2026, 11, 10), Date(2026, 11, 26), Date(2026, 12, 31),
          Date(2027, 1, 1), Date(2027, 2, 10), Date(2027, 5, 4), Date(2027, 5, 5), Date(2027, 6, 1)}
MCSnap == {(1 :> 5), (1 :> 5) @@ (2 :> 7), (5 :> 0)}
MCLimit == {40, 60, 200}

InitDrive == part = "drive" /\ FieldInit /\ sample = <<>> /\ NoBuilds

Point(key, node, minutes) ==
    [key |-> key, node |-> node, minutes |-> minutes, source |-> "wdfw_was", kind |-> "access", confidence |-> "high", gate |-> {}]
Gate(kind, from, to) == {[kind |-> kind, from |-> from, to |-> to]}
MCPoints ==
    {{[Point(1, 3, 2) EXCEPT !.source = "osm", !.kind = "bridge", !.confidence = "low"], Point(2, 5, 1), Point(3, 4, 28)},
     {[Point(1, 2, 1) EXCEPT !.gate = Gate("closed", <<12, 1>>, <<4, 30>>)], [Point(2, 4, 3) EXCEPT !.gate = Gate("open", <<4, 25>>, <<11, 15>>)],
      [Point(3, 3, 9) EXCEPT !.gate = Gate("undated", <<1, 1>>, <<1, 1>>)]}}

-----------------------------------------------------------------------------
(* The seasons: trips to five waters through two years *)

Row(species, dates) == [species |-> species, dates |-> dates, closes |-> FALSE, gear |-> {}]
Closing(row) == [row EXCEPT !.closes = TRUE]
Sat == 5
Pages ==
    <<\* open over New Year above, closed there in December, and in summer below
      [keys |-> {"green"}, counties |-> {"king"}, kind |-> "river",
       reaches |-> {[desc |-> "mouth", rows |-> {[Row("game", {Dates([at |-> "before memorial day", days |-> 2], Mid(9, 15))}) EXCEPT !.gear = {"fly"}]}],
                    [desc |-> "upper", rows |-> {Row("game", {Dates(Mid(11, 1), Mid(2, 29))}),
                                                 Closing(Row("all species", {Dates(Mid(12, 10), Mid(12, 20))}))}]}],
      [keys |-> {"long"}, counties |-> {}, kind |-> "lake",
       reaches |-> {[desc |-> "", rows |-> {Row("all species", {Dates([at |-> "nth", month |-> 4, weekday |-> Sat, n |-> 4], Mid(10, 31))}),
                                            Row("other", {[kind |-> "year-round"]})}]}],
      [keys |-> {"deep"}, counties |-> {"king"}, kind |-> "lake",
       reaches |-> {[desc |-> "", rows |-> {Row("game", {Dates([at |-> "after thanksgiving", n |-> 1], Mid(3, 31))})}]}],
      [keys |-> {"deep"}, counties |-> {"king"}, kind |-> "lake",
       reaches |-> {[desc |-> "arm", rows |-> {Row("game", {[kind |-> "unreadable"]}), Closing(Row("all game fish", {Dates(Mid(7, 1), Mid(3, 1))}))}]}]>>
Water(key, type, county) == [keys |-> {key}, type |-> type, county |-> county]
MCWaters == {Water("green", "river", {"king"}), Water("long", "lake", {}), Water("deep", "lake", {"king"}),
             Water("deep", "lake", {}), Water("brown", "creek", {}), Water("green", "coastal", {})}
MCPamphlet == {[year |-> 2026, entries |-> Pages]}

\* the days of a range, told from every year it could begin in
DaysOf(range) ==
    CASE range.kind = "year-round" -> Date(2025, 1, 1)..Date(2028, 12, 31)
      [] range.kind = "unreadable" -> {}
      [] OTHER -> UNION {LET first == PointIn(range.from, y)
                             ends == {PointIn(range.to, z) : z \in {y, y + 1}}
                         IN  first..Min({e \in ends : e >= first}) : y \in 2024..2027}

AllDays == Date(2026, 1, 1)..Date(2027, 12, 31)
RiverDays == DaysOf(STATEWIDE_RIVER_SEASON)

\* when each of the waters can be fished, as an angler reads the page
OpenDays(water) ==
    CASE water.keys = {"green"} ->
            DaysOf(Dates([at |-> "before memorial day", days |-> 2], Mid(9, 15)))
            \cup (DaysOf(Dates(Mid(11, 1), Mid(2, 29))) \ DaysOf(Dates(Mid(12, 10), Mid(12, 20))))
      [] water.keys = {"long"} -> DaysOf(Dates([at |-> "nth", month |-> 4, weekday |-> Sat, n |-> 4], Mid(10, 31)))
      [] water.keys = {"deep"} /\ water.county # {} ->
            DaysOf(Dates([at |-> "after thanksgiving", n |-> 1], Mid(3, 31))) \cup (AllDays \ DaysOf(Dates(Mid(7, 1), Mid(3, 1))))
      [] water.keys = {"deep"} /\ water.county = {} -> AllDays
      [] OTHER -> RiverDays

SeasonCase ==
    UNION {LET all == OpenDays(water) IN
           {LET days == start..(start + Min({length, 13})) IN
            [start |-> start, days |-> days, open |-> days \cap all, reopens |-> reopens,
             judged |-> water.type # "coastal" /\ start \in Date(2026, 7, 1)..Date(2027, 6, 30),
             told |-> SeasonFilter(water, start, start + length, MCPamphlet, reopens)] :
                start \in {Date(2026, 5, 1) + 5 * week : week \in 0..120}, length \in {0, 2, 20}, reopens \in BOOLEAN} :
           water \in MCWaters}

InitSeason == part = "season" /\ field = NoField /\ NoBuilds /\ sample \in SeasonCase

(* A water is left out exactly when no stretch of it is open on any of the first fourteen days of the    *)
(* trip, unless an emergency rule reopens it, its type has no season, or the pamphlet of the day is not  *)
(* at hand; and a trip that meets a closed day is told, with the right day (wdfw_seasons.py, status).    *)
SeasonsAgree ==
    part = "season" =>
        LET partly == {l \in sample.told.lines : l.about \in {"closes after", "closed until"}}
        IN  /\ sample.told.gate <=> sample.judged /\ sample.open = {} /\ ~sample.reopens
            /\ partly # {} <=> sample.judged /\ sample.open \notin {{}, sample.days}
            /\ \A l \in partly :
                  IF l.about = "closes after" THEN sample.start..l.day \subseteq sample.open /\ l.day + 1 \in sample.days \ sample.open
                  ELSE (sample.start..l.day) \cap sample.open = {l.day}

-----------------------------------------------------------------------------
(* The readings: a day of a gauge as it was, and as two sources tell it *)

Now == 3000
\* minutes before Now; the first is out of date, and the last two are of one batch
Ages == {1500, 70, 30, 10}
Flows == {{}, {100}, {103}, {200}}

Feature(param, instantaneous, at, value) == [param |-> param, instantaneous |-> instantaneous, at |-> at, value |-> value]
UsgsAnswer(up, flow) ==
    <<Feature("00060", FALSE, {Now}, {999}), Feature("00060", TRUE, {}, {999}), Feature("00065", TRUE, {Now - 5}, {3}),
      Feature("00010", TRUE, {Now - 10}, {100})>>
    \o (IF up = "whole" THEN [i \in 1..4 |-> LET age == <<30, 1500, 10, 70>>[i] IN
                                 Feature("00060", TRUE, {Now - age}, flow[age])] ELSE <<>>)

NwpsAnswer(flowField, units, flow) ==
    LET stageField == CHOOSE k \in {"primary", "secondary"} : k # flowField
        raw(v) == IF v = {} THEN {-999000} ELSE {IF units = "kcfs" THEN x ELSE 1000 * x : x \in v}
        told(k, age) == IF k = flowField THEN raw(flow[age]) ELSE {3000}
        named(k) == IF k = flowField THEN [name |-> "flow", units |-> units] ELSE [name |-> "stage", units |-> "ft"]
    IN  [primary |-> named("primary"), secondary |-> named("secondary"),
         data |-> {[at |-> Now - age, primary |-> told("primary", age), secondary |-> told("secondary", age)] : age \in Ages}]

ReadingCase ==
    {[flow |-> flow, nwps |-> nwps, up |-> up,
      got |-> FetchGauge(IF up = "down" THEN {} ELSE {UsgsAnswer(up, flow)},
                         IF nwps THEN {NwpsAnswer(f, u, flow)} ELSE {}, Now)] :
        flow \in [Ages -> Flows], f \in {"primary", "secondary"}, u \in {"kcfs", "cfs"},
        up \in {"whole", "stage", "down"}, nwps \in BOOLEAN}

InitReading == part = "reading" /\ field = NoField /\ NoBuilds /\ sample \in ReadingCase

(* A reading that is stored is the gauge's own of its time: the newest of the day that has a flow, in    *)
(* cfs whatever the units and the order of the fields, with the trend against three quarters of an hour  *)
(* before or earlier; and a flow that a source could have given is not missing (normalizer.py, usgs.py). *)
ReadingsFaithful ==
    part = "reading" =>
        LET known == {age \in Ages : sample.flow[age] # {}}
            today == known \ {1500}
            before == {age \in known : age >= Min(today) + 45}
            trend == UNION {FlowTrend(Max(sample.flow[Min(today)]), Max(sample.flow[Min(before)])) : x \in IF before = {} THEN {} ELSE {1}}
        IN  /\ \A r \in sample.got : r.cfs # {} =>
                  today # {} /\ r.cfs = sample.flow[Min(today)] /\ r.at = {Now - Min(today)} /\ r.trend = trend /\ r.stage = {3}
            /\ today # {} /\ (sample.nwps \/ sample.up = "whole") => \E r \in sample.got : r.cfs # {}
            /\ sample.up # "down" => \E r \in sample.got : r.temp = {500}

-----------------------------------------------------------------------------
(* The scores: one thing at a time gets worse, by small steps, as its source tells it *)

MaxLevel == 30
River1 == [Site[a] EXCEPT !.minTemp = {45}]
Alpine == [Lake EXCEPT !.alpine = TRUE, !.elev = 3000]
Rows == [day \in 360..365 |-> <<40, 90, 190, 290, 490, 790, 990>>] @@ [day \in 0..6 |-> <<60, 110, 210, 310, 510, 810, 1010>>]
\* what is stored: a gauge with its percentiles and stages, and one whose percentiles are of another season
Tables == [normals |-> [own |-> Rows, summer |-> [day \in 150..160 |-> <<1, 2, 3, 4, 5, 6, 7>>]],
           flood |-> [own |-> {[minor |-> {14}, action |-> {12}]}, summer |-> {[minor |-> {}, action |-> {1}]}]]
Reference(bands) == FlowRef("own", bands, Tables, 1)
Band(lo, hi) == [site |-> "own", lo |-> {lo}, hi |-> {hi}]
\* the forecast, in thousands of cubic feet and feet, of the departure
Forecast(cfs) == NwrfcForecast([NwpsAnswer("secondary", "kcfs", [x \in Ages |-> {cfs}]) EXCEPT
                                   !.data = <<[at |-> 0, primary |-> {cfs * 10}, secondary |-> {cfs}]>>])
AtDeparture(cfs) ==
    LET f == Forecast(cfs) IN
    [x \in {"own"} |-> {[cfs |-> NwrfcAt([i \in DOMAIN f |-> [at |-> f[i].at, value |-> f[i].cfs]], 3), stage |-> {s \div 1000 : s \in f[1].stage}]}]
FlowWorth(cfs, bands) ==
    LET f == CandidateFlow(Reference(bands), AtDeparture(cfs), FALSE) IN IF f.flood = "flood" THEN -100000 ELSE f.delta
On(w, o) == VolatileDelta(w, o, {"trout", "bass"}, Month)
Nightly == [type |-> "lake", debriefs |-> <<>>, notes |-> [positive |-> 3, neutral |-> 1, negative |-> 0], confidence |-> "probable",
            populated |-> 6, sources |-> 6, since |-> {}, stocked |-> {}, snow |-> {}, alpine |-> FALSE, reliability |-> {}]
Debriefed(rating, cfs) == [rating |-> rating, cfs |-> {cfs}]
\* the snow of a day whose median is 20
SnowPercent(swe) == UNION {r.percent : r \in FetchSnotel(<<[value |-> {swe}, median |-> {}]>>, <<>>, <<30, 10, 20, 15, 25>>)}

Worth ==
    [heat |-> [n \in 0..MaxLevel |-> On(River1, [Fine EXCEPT !.usgs = Gauge(300, 46 + n)])],
     cold |-> [n \in 0..MaxLevel |-> On(River1, [Fine EXCEPT !.usgs = Gauge(300, 55 - n)])],
     smoke |-> [n \in 0..MaxLevel |->
        On(Lake, [Fine EXCEPT !.aqi = NormalizeAirnow({[at |-> {Now - 200}, aqi |-> {400}], [at |-> {Now - 60}, aqi |-> {10 * n}], [at |-> {}, aqi |-> {20}]}, Now)])],
     wind |-> [n \in 0..MaxLevel |-> On(Lake, [Fine EXCEPT !.wind = NormalizeNws([observation |-> {[wind |-> {3 * n}]}, daily |-> <<>>]).wind])],
     rain |-> [n \in 0..MaxLevel |-> On(Lake, [Fine EXCEPT !.pops = {[i \in 1..14 |-> IF i <= n THEN IF i + 10 <= n THEN 80 ELSE 50 ELSE 10]}])],
     fire |-> [n \in 0..MaxLevel |->
        On([Lake EXCEPT !.fires = {i.km : i \in WaFires({[state |-> "WA", fire |-> TRUE, km |-> 50 - n], [state |-> "OR", fire |-> TRUE, km |-> 1]})}], Fine)],
     snow |-> [n \in 0..MaxLevel |-> On(Alpine, [Fine EXCEPT !.swe = UNION {r.swe : r \in FetchSnotel(<<[value |-> {2 * n}, median |-> {}]>>, <<>>, <<>>)}])],
     high |-> [n \in 0..MaxLevel |-> FlowWorth(600 + 30 * n, <<Band(300, 800), Band(400, 700)>>)],
     low |-> [n \in 0..MaxLevel |-> FlowWorth(800 - 26 * n, <<Band(300, 800)>>)],
     tail |-> [n \in 0..MaxLevel |-> FlowWorth(300 + 30 * n, <<>>)],
     percentile |-> [n \in 0..MaxLevel |-> -PercentileOf(45 * n, CHOOSE m \in SmoothNormals(Rows, 1) : TRUE)],
     roads |-> [n \in 0..MaxLevel |-> On(Lake, [Fine EXCEPT !.trail = {[total |-> 10, road |-> Min({n, 10}), snow |-> 0, trail |-> 1]}])],
     rating |-> [n \in 0..MaxLevel |-> NightlyScore([Nightly EXCEPT !.debriefs = <<Debriefed(50 - n, 300), Debriefed(40, 900)>>])],
     flowsOfGoodTrips |-> [n \in 0..MaxLevel |-> NormRating(Max(WeightedRating(<<Debriefed(50, 300), Debriefed(20, 900)>>, {300 + 20 * n})))],
     notes |-> [n \in 0..MaxLevel |-> NightlyScore([Nightly EXCEPT !.notes.negative = n])],
     stocked |-> [n \in 0..MaxLevel |-> NightlyScore([Nightly EXCEPT !.stocked = {10 * n}])],
     since |-> [n \in 0..MaxLevel |-> NightlyScore([Nightly EXCEPT !.since = {7 * n}])],
     unknown |-> [n \in 0..MaxLevel |-> NightlyScore([Nightly EXCEPT !.populated = Max({0, 6 - n})])],
     access |-> [n \in 0..MaxLevel |-> NightlyScore([Nightly EXCEPT !.alpine = TRUE, !.snow = SnowPercent(n)])],
     narrow |-> [n \in 0..MaxLevel |-> NightlyScore([Nightly EXCEPT !.type = "river",
                    !.reliability = {10 * x : x \in BestBandReliability(<<Band(200, 1100 - 30 * n)>>, [x \in {"own"} |-> SmoothNormals(Rows, 1)])}])]]

InitScore == part = "score" /\ field = NoField /\ NoBuilds /\ \E f \in DOMAIN Worth : sample = [factor |-> f, level |-> 0]

Worsen == sample.level < MaxLevel /\ sample' = [sample EXCEPT !.level = @ + 1]

(* Nothing that gets worse, as its source tells it, raises the score: no gap or turn in the steps, the   *)
(* interpolation or the fallbacks between the observation and the score (context_builder.py:658,         *)
(* flow_reference.py:150, spots/scorer.py); days since the last visit count as the code says, against it.*)
WorseNeverHigher ==
    [][part = "score" => Worth[sample'.factor][sample'.level] <= Worth[sample.factor][sample.level]]_vars

Init == InitBuild \/ InitDrive \/ InitSeason \/ InitReading \/ InitScore

Next ==
    \/ part = "build" /\ PipelineNext /\ UNCHANGED <<part, sample, field>>
    \/ part = "drive" /\ Settle /\ UNCHANGED <<part, sample, pipelineVars>>
    \/ part = "score" /\ Worsen /\ UNCHANGED <<part, field, pipelineVars>>

Spec == Init /\ [][Next]_vars
=============================================================================
