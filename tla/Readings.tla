------------------------------ MODULE Readings ------------------------------
(***************************************************************************)
(* From what a source answers to the reading that is stored (backend/      *)
(* conditions/normalizer.py and the fetchers usgs.py, noaa_nwrfc.py,       *)
(* snotel.py, airnow.py, noaa_nws.py, inciweb.py).  Times are minutes,     *)
(* flows cfs, raw NWPS values thousandths, temperatures tenths of a        *)
(* degree; a value that may be missing is a set of at most one element.    *)
(***************************************************************************)
EXTENDS Integers, Sequences, FiniteSetsExt, Functions

LOCAL INSTANCE SequencesExt
LOCAL INSTANCE TLC

\* the value of the latest point that has one: points are [at, value]
Valid(points) == {p \in points : p.value # {}}
Latest(points) == CHOOSE p \in points : \A q \in points : q.at <= p.at

-----------------------------------------------------------------------------
(* USGS *)

USGS_MAX_READING_AGE == 24 * 60

\* _usgs_series: features are [param, instantaneous, at, value], in any order; those without a time are dropped
Series(features, param) ==
    {[at |-> Max(f.at), value |-> f.value] :
        f \in {f \in Range(features) : f.param = param /\ f.instantaneous /\ f.at # {}}}

\* a discontinued gauge repeats its last value for ever
Current(points, now) ==
    {p \in {Latest(Valid(points)) : x \in IF Valid(points) = {} THEN {} ELSE {1}} : now - p.at <= USGS_MAX_READING_AGE}

ValuesOf(points) == UNION {p.value : p \in points}

\* _flow_trend: at least 5% against about an hour before
FlowTrend(cfs, prior) ==
    IF prior <= 0 THEN {}
    ELSE IF 20 * (cfs - prior) >= prior THEN {"rising"}
    ELSE IF 20 * (cfs - prior) <= -prior THEN {"dropping"} ELSE {"stable"}

\* faulty variant: the record before the latest one, however close
HourBeforeByCount(points, latest) == {p \in Valid(points) : p.at < latest.at}

\* by time, not by count: batches come late and hold few readings
HourBefore(points, latest) == {p \in Valid(points) : p.at <= latest.at - 45}

Trend(points, latest) ==
    UNION {FlowTrend(Max(latest.value), Max(Latest(HourBefore(points, latest)).value)) :
              x \in IF HourBefore(points, latest) = {} THEN {} ELSE {1}}

Fahrenheit(celsius) == (celsius * 9) \div 5 + 320

\* normalize_usgs
NormalizeUsgs(features, now) ==
    LET flow == Series(features, "00060")
        at(param) == Current(Series(features, param), now)
    IN  [provider |-> "usgs", cfs |-> ValuesOf(at("00060")), stage |-> ValuesOf(at("00065")),
         temp |-> {Fahrenheit(c) : c \in ValuesOf(at("00010"))},
         trend |-> UNION {Trend(flow, p) : p \in at("00060")},
         at |-> {p.at : p \in at("00060")}]

-----------------------------------------------------------------------------
(* NWPS *)

\* faulty variant: the second field is the flow, in thousands
FieldsByPlace(series) == {[flow |-> "secondary", times |-> 1000, stage |-> {"primary"}]}

\* nwps_series_fields: which field is the flow is in the metadata [name, units] of each, and varies by gauge
NwpsFields(series) ==
    LET flows == {k \in {"primary", "secondary"} : series[k].name \in {"flow", "discharge"} /\ series[k].units \in {"kcfs", "cfs"}}
        flow == IF "secondary" \in flows THEN "secondary" ELSE "primary"
    IN  IF flows = {} THEN {}
        ELSE {[flow |-> flow, times |-> IF series[flow].units = "kcfs" THEN 1000 ELSE 1,
               stage |-> {k \in {"primary", "secondary"} : k \notin flows /\ series[k].name = "stage"}]}

FlowOf(f, entry) == {(v * f.times) \div 1000 : v \in {v \in entry[f.flow] : v >= 0}}

\* normalize_nwps_observed: negative values mark what is missing
NwpsObserved(series, now) ==
    LET fields == NwpsFields(series)
        points == UNION {{[at |-> e.at, value |-> FlowOf(f, e), stage |-> UNION {{v \in e[k] : v >= 0} : k \in f.stage}] :
                             e \in series.data} : f \in fields}
    IN  {[provider |-> "nwps", cfs |-> p.value, stage |-> {v \div 1000 : v \in p.stage}, temp |-> {},
          trend |-> Trend(points, p), at |-> {p.at}] : p \in Current(points, now)}

\* normalize_noaa_nwrfc, of a sequence: a value that cannot be told is left out, never guessed
NwrfcForecast(series) ==
    [i \in DOMAIN series.data |-> LET e == series.data[i] IN
        [at |-> e.at, cfs |-> UNION {FlowOf(f, e) : f \in NwpsFields(series)},
         stage |-> UNION {UNION {{v \in e[k] : v > -999000} : k \in f.stage} : f \in NwpsFields(series)}]]

-----------------------------------------------------------------------------
(* The gauge of a water *)

\* _fetch_usgs_reading: neither flow nor stage is no reading
UsgsReading(features, now) == {r \in {NormalizeUsgs(features, now)} : r.cfs # {} \/ r.stage # {}}

\* fetch_usgs_gauge: the answers of the two sources, none when one fails; USGS keeps its temperature
FetchGauge(usgs, nwps, now) ==
    LET own == UNION {UsgsReading(features, now) : features \in usgs}
        other == UNION {NwpsObserved(series, now) : series \in nwps}
        temp == UNION {r.temp : r \in own}
    IN  IF (\E r \in own : r.cfs # {}) \/ other = {} THEN own
        ELSE {[r EXCEPT !.temp = temp] : r \in other}

\* compute_conditions_hash: weather and smoke are not in it
INTERVAL_REALTIME == 15
RoundDown(minute, interval) == (minute \div interval) * interval
ConditionsHash(r, now, interval) ==
    [cfs |-> r.cfs, temp |-> r.temp, turbidity |-> {}, at |-> RoundDown(now, interval)]

-----------------------------------------------------------------------------
(* Air, weather, fires and snow *)

AIRNOW_MAX_READING_AGE == 3 * 60

\* normalize_airnow: the worst of the monitors that are not out of date; without a time zone the age is not known
NormalizeAirnow(records, now) ==
    LET usable == {r \in records : (\A t \in r.at : now - t <= AIRNOW_MAX_READING_AGE) /\ \E v \in r.aqi : v >= 0}
    IN  {Max(UNION {r.aqi : r \in usable}) : x \in IF usable = {} THEN {} ELSE {1}}

\* normalize_noaa_nws with _fetch: the forecast counts without the observation
NormalizeNws(raw) == [wind |-> {(w * 621371) \div 1000000 : w \in UNION {o.wind : o \in raw.observation}},
                      daily |-> SubSeq(raw.daily, 1, Min({7, Len(raw.daily)}))]

\* normalize_inciweb: the wildfires of Washington
WaFires(incidents) == {i \in incidents : i.state = "WA" /\ i.fire}

\* normalize_snotel: the last days' values, newest last
LastOf(values) ==
    LET known == {i \in DOMAIN values : values[i].value # {}} IN UNION {values[i].value : i \in {Max(known) : x \in known}}

PercentOfMedian(values) ==
    LET known == {i \in DOMAIN values : values[i].value # {} /\ \E m \in values[i].median : m # 0}
    IN  {(1000 * Max(values[i].value)) \div Max(values[i].median) : i \in {Max(known) : x \in known}}

\* _compute_historical_median: at least three years of the same day
HistoricalPercent(swe, years) ==
    LET ordered == SortSeq(years, <)
        middle == (ordered[(Len(years) + 1) \div 2] + ordered[Len(years) \div 2 + 1]) \div 2
    IN  IF Len(years) < 3 \/ middle = 0 THEN {} ELSE {(1000 * swe) \div middle}

\* fetch_snotel: [swe, depth, percent], or none
FetchSnotel(wteq, snwd, years) ==
    LET swe == LastOf(wteq)
        percent == PercentOfMedian(wteq)
    IN  IF swe = {} /\ LastOf(snwd) = {} THEN {}
        ELSE {[swe |-> swe, depth |-> LastOf(snwd),
               percent |-> IF percent # {} \/ swe = {} THEN percent
                           ELSE IF swe = {0} THEN {0} ELSE HistoricalPercent(Max(swe), years)]}
=============================================================================
