------------------------------- MODULE Ranking -------------------------------
(***************************************************************************)
(* What the conditions of the day add to the nightly score of a water, and *)
(* the order that results (backend/chat/context_builder.py, part [2] of    *)
(* build_context).  Scores are hundredths, distances kilometres, and a     *)
(* value that may be missing is a set of at most one element.              *)
(***************************************************************************)
EXTENDS FlowReference, Selection

LOCAL INSTANCE SequencesExt

SumOf(seq) == FoldLeft(LAMBDA x, y : x + y, 0, seq)

\* what a value counts for, if there is one
Known(value, Delta(_)) == IF value = {} THEN 0 ELSE Delta(CHOOSE x \in value : TRUE)

-----------------------------------------------------------------------------
(* Filters on the row alone *)

MatchesWaterType(type, types) == types = {} \/ "any" \in types \/ type \in types

\* the targets the angler chose: none of them when any fish will do
Targets(species) == IF "any" \in species THEN {} ELSE species

SpeciesMatchDelta(species, present) ==
    LET wanted == Targets(species)
    IN  IF wanted = {} \/ present = {} THEN 0
        ELSE IF wanted \subseteq present THEN 150
        ELSE IF wanted \cap present # {} THEN 50 ELSE -50

-----------------------------------------------------------------------------
(* Flow *)

FLOOD_ACTION_PENALTY == -300

\* readings: [site -> {} or one [cfs, stage]], the water's own gauge and those of its bands
\* the worst status of all the gauges decides
WorstFlood(readings, stages) ==
    LET at(s) == FloodStatus(UNION {r.stage : r \in readings[s]}, IF s \in DOMAIN stages THEN stages[s] ELSE {})
        found == {at(s) : s \in DOMAIN readings}
    IN  IF "flood" \in found THEN "flood" ELSE IF "action" \in found THEN "action" ELSE "none"

(***************************************************************************)
(* _load_flow_refs, for one river: its bands, and what the tables know of  *)
(* its own gauge and of theirs on the day.  A river without a gauge has a  *)
(* site that no table knows.                                               *)
(***************************************************************************)
FlowRef(site, bands, tables, day) ==
    LET sites == {site} \cup {b.site : b \in Range(bands)}
        normalsOf(s) == IF s \in DOMAIN tables.normals THEN SmoothNormals(tables.normals[s], day) ELSE {}
    IN  [site |-> site, bands |-> bands,
         normals |-> [s \in {t \in sites : normalsOf(t) # {}} |-> normalsOf(s)],
         flood |-> [s \in sites \cap DOMAIN tables.flood |-> tables.flood[s]]]

\* the percentiles describe the USGS gauge's own record, not the reading that stands in for it
OwnNormals(ref, fallback) ==
    IF ref.site \in DOMAIN ref.normals /\ ~fallback THEN ref.normals[ref.site] ELSE {}

\* _candidate_flow, once the readings are chosen (now, or the forecast at departure)
CandidateFlow(ref, readings, fallback) ==
    LET cfsOf(s) == UNION {r.cfs : r \in readings[s]}
        flood == WorstFlood(readings, ref.flood)
        flow == AssessFlow(IF ref.site \in DOMAIN readings THEN cfsOf(ref.site) ELSE {},
                           OwnNormals(ref, fallback), ref.bands, [s \in DOMAIN readings |-> cfsOf(s)])
    IN  [delta |-> flow.delta + (IF flood = "action" THEN FLOOD_ACTION_PENALTY ELSE 0), flood |-> flood]

\* _nwrfc_value_at: the entry nearest the departure, within six hours; the first of two as near
NwrfcAt(forecast, departure) ==
    LET dist(i) == Max({forecast[i].at - departure, departure - forecast[i].at})
        near == {i \in DOMAIN forecast : /\ forecast[i].value # {}
                                        /\ \A j \in DOMAIN forecast : forecast[j].value # {} => dist(i) <= dist(j)}
    IN  IF near = {} \/ dist(Min(near)) > 6 THEN {} ELSE forecast[Min(near)].value

-----------------------------------------------------------------------------
(* The signed parts of the delta *)

FireDelta(km) == IF \E d \in km : d <= 25 THEN -250 ELSE 0

\* the categories of the alerts of the parks near by
ParkDelta(alerts) ==
    SumOf([i \in DOMAIN alerts |-> CASE alerts[i] = "closure" -> -200 [] alerts[i] = "danger" -> -150
                                     [] alerts[i] = "caution" -> -100 [] OTHER -> 0])

SeasonBlocked(elev, month) ==
    (elev >= 6000 /\ month < 7) \/ (elev >= 5000 /\ month < 6) \/ (elev >= 4000 /\ month < 5)

AlpineDelta(w, swe, month) ==
    IF ~w.alpine THEN 0
    ELSE (IF \E x \in swe : x > 30 THEN -250 ELSE 0) + (IF SeasonBlocked(w.elev, month) THEN -200 ELSE 0)

TrendDelta(trend) == CASE trend = "dropping" -> 50 [] trend = "rising" -> -50 [] OTHER -> 0

CEILING == [steelhead |-> 61, trout |-> 61, cutthroat |-> 61, salmon |-> 61, bass |-> 70]
TempCeiling(species) ==
    LET known == {CEILING[s] : s \in Targets(species) \cap DOMAIN CEILING}
    IN  IF known = {} THEN {} ELSE {Min(known)}

\* faulty variant: the distance to the ceiling counts, on either side
HeatDeltaNear(temp, ceiling) ==
    IF \E t \in temp, c \in ceiling : Max({c - t, t - c}) <= 2 THEN -250
    ELSE IF \E t \in temp, c \in ceiling : Max({c - t, t - c}) <= 5 THEN -100 ELSE 0

HeatDelta(temp, ceiling) ==
    IF \E t \in temp, c \in ceiling : c - t <= 2 THEN -250
    ELSE IF \E t \in temp, c \in ceiling : c - t <= 5 THEN -100 ELSE 0

ColdDelta(temp, least) == IF \E t \in temp, m \in least : t < m THEN -100 ELSE 0

TurbidityDelta(turbidity) == IF \E x \in turbidity : x > 100 THEN -150 ELSE 0

\* the chances of rain of the first fourteen periods, as hundredths of an inch
PrecipEstimate(pops) ==
    SumOf([i \in 1..Min({14, Len(pops)}) |-> IF pops[i] >= 70 THEN 20 ELSE IF pops[i] >= 40 THEN 5 ELSE 0])

RainDelta(pops) == IF PrecipEstimate(pops) <= 25 THEN 100 ELSE IF PrecipEstimate(pops) <= 100 THEN -50 ELSE -150
WindDelta(wind) == IF \E x \in wind : x > 25 THEN -100 ELSE IF \E x \in wind : x > 15 THEN -50 ELSE 0
AirDelta(aqi) == IF \E x \in aqi : x > 200 THEN -300 ELSE IF \E x \in aqi : x >= 151 THEN -100 ELSE 0

\* the latest trip reports: how many there are, and how many speak of road, snow or trail
TrailDelta(t) ==
    (IF t.road = 0 THEN 0 ELSE IF 10 * t.road >= 4 * Max({t.total, 1}) THEN -150 ELSE -50)
    + (IF t.snow > 0 THEN -100 ELSE 0)
    + (IF t.total > 0 /\ t.road = 0 /\ t.snow = 0 /\ t.trail = 0 THEN 50 ELSE 0)

GaugeDelta(r, species, least) ==
    TrendDelta(r.trend) + HeatDelta(r.temp, TempCeiling(species)) + ColdDelta(r.temp, least)
    + TurbidityDelta(r.turbidity)

\* _compute_volatile_delta, of a water w and what was read for it; what is not known counts neither way
VolatileDelta(w, o, species, month) ==
    FireDelta(w.fires) + ParkDelta(w.parks) + AlpineDelta(w, o.swe, month)
    + (IF w.river THEN o.flow.delta + Known(o.usgs, LAMBDA r : GaugeDelta(r, species, w.minTemp)) ELSE 0)
    + Known(o.pops, RainDelta) + WindDelta(o.wind) + AirDelta(o.aqi) + Known(o.trail, TrailDelta)
    + SpeciesMatchDelta(species, w.groups)

-----------------------------------------------------------------------------
(* The order *)

\* a ferry costs by the demand of its day
SCORE_PENALTY == [normal |-> 25, summer |-> 35, peak |-> 60]
FerryPenalty(demands) == IF demands = {} THEN 0 ELSE Max({SCORE_PENALTY[d] : d \in demands})

SessionScore(base, delta, demands, goal, visited) ==
    base + delta - FerryPenalty(demands) + (IF goal = "explore" /\ ~visited THEN 200 ELSE 0)

\* ties go to the shorter drive, then to the order of the query
RankedBefore(a, b) ==
    \/ a.score > b.score
    \/ a.score = b.score /\ a.minutes < b.minutes

Ranked(cards) ==
    LET before(i) == {j \in DOMAIN cards : \/ RankedBefore(cards[j], cards[i])
                                           \/ ~RankedBefore(cards[i], cards[j]) /\ j < i}
    IN  [k \in DOMAIN cards |-> cards[CHOOSE i \in DOMAIN cards : Cardinality(before(i)) = k - 1]]

(***************************************************************************)
(* The variety rule: when none of the first cards has been left alone for  *)
(* sixty days, the best other one that has takes the last of their places. *)
(***************************************************************************)
Rotated(cards, window, old) ==
    LET rest == {i \in window + 1..Len(cards) : old[cards[i].spot]}
    IN  IF (\E i \in 1..Min({window, Len(cards)}) : old[cards[i].spot]) \/ rest = {} THEN cards
        ELSE SubSeq(cards, 1, window - 1) \o <<cards[Min(rest)]>>
             \o Kept(cards, {k \in window + 1..Len(cards) : cards[k].spot # cards[Min(rest)].spot})
=============================================================================
