----------------------------- MODULE ReferenceJobs -----------------------------
(***************************************************************************)
(* The scheduled jobs that go through a list of places one by one and      *)
(* commit each on its own (conditions/scheduler.py job_snotel, job_wta,    *)
(* job_noaa_nwrfc, job_gauge_reference).  A place that fails is passed     *)
(* over; a process that dies leaves the rest to the next run.              *)
(***************************************************************************)
EXTENDS Integers, Sequences, SequencesExt, FiniteSets

CONSTANTS
    Place,          \* the waters of the water jobs, in the order of the query
    StationOf,      \* StationOf[w]: the station or trail page of a water
    Gauge,          \* the gauges of the gauge job, in order
    RefreshAfter,   \* REFRESH_AFTER, in days
    LastRefDay, MaxNews    \* bounds

ASSUME ReferenceAssumption ==
    /\ Place \in Seq(DOMAIN StationOf) /\ Gauge \in Seq(ToSet(Gauge))
    /\ RefreshAfter \in Nat /\ LastRefDay \in Nat /\ MaxNews \in Nat

Visited == ToSet(Place)
Gauges == ToSet(Gauge)
Station == {StationOf[w] : w \in Visited}

VARIABLES
    kind,        \* the job whose runs are looked at: the jobs share no rows
    day,
    news,       \* news[s]: how often what a station says has changed
    rows,       \* rows[w]: the water's latest row, {} or one [obs, stale]
    normals,    \* normals[g]: {} or the day on which the gauge's normals were loaded
    floods,     \* floods[g]: the same for its flood stages
    run         \* its run, at place pos of its list, 0 for none

refVars == <<kind, day, news, rows, normals, floods, run>>

NoRun == [pos |-> 0, memo |-> <<>>, freshNormals |-> {}, freshFloods |-> {}]

ReferenceInit ==
    /\ kind \in {"snotel", "wta", "nwrfc", "gauges"}
    /\ day = 0 /\ news = [s \in Station |-> 0]
    /\ rows = [w \in Visited |-> {}]
    /\ normals = [g \in Gauges |-> {}] /\ floods = [g \in Gauges |-> {}]
    /\ run = NoRun

Says(s) == {[obs |-> news[s], stale |-> FALSE]}

-----------------------------------------------------------------------------
(* Visited: SNOTEL, WTA, NWRFC *)

StartWaters ==
    /\ kind # "gauges" /\ run.pos = 0 /\ Place # <<>>
    /\ run' = [NoRun EXCEPT !.pos = 1]
    /\ UNCHANGED <<kind, day, news, rows, normals, floods>>

\* faulty variant: each water asks the station itself
AnswersUnshared(w) == {Says(StationOf[w]), {}}

\* what the fetch brings for a water: a station is asked once in a run of SNOTEL
Answers(w) ==
    LET asked == {k \in DOMAIN run.memo : run.memo[k].station = StationOf[w]}
    IN  IF kind = "snotel" /\ asked # {} THEN {run.memo[CHOOSE k \in asked : TRUE].said}
        ELSE {Says(StationOf[w]), {}}

MarkStale(kept) == {[r EXCEPT !.stale = TRUE] : r \in kept}

\* what becomes of the row, by job: a trail page may have no reports, which is passed over
\* like a page that fails; a forecast that fails is passed over; a snow reading is marked
TrailRows(old, said) == {old} \cup ({said} \ {{}})
ForecastRows(old, said) == {IF said = {} THEN old ELSE said}
SnowRows(old, said) == {IF said = {} THEN MarkStale(old) ELSE said}

Served(old, said) ==
    CASE kind = "wta" -> TrailRows(old, said)
      [] kind = "nwrfc" -> ForecastRows(old, said)
      [] OTHER -> SnowRows(old, said)

ServeWater ==
    LET w == Place[run.pos]
    IN  /\ kind # "gauges" /\ run.pos # 0
        /\ \E said \in Answers(w) :
              /\ \E row \in Served(rows[w], said) : rows' = [rows EXCEPT ![w] = row]
              /\ run' = IF run.pos = Len(Place) THEN NoRun
                        ELSE [run EXCEPT !.pos = @ + 1,
                                         !.memo = Append(@, [station |-> StationOf[w], said |-> said])]
        /\ UNCHANGED <<kind, day, news, normals, floods>>

-----------------------------------------------------------------------------
(* Gauges: flow normals and flood stages *)

FreshGauges(loaded) == {g \in Gauges : \E d \in loaded[g] : d > day - RefreshAfter}

StartGauges ==
    /\ kind = "gauges" /\ run.pos = 0 /\ Gauge # <<>>
    /\ run' = [NoRun EXCEPT !.pos = 1,
                            !.freshNormals = FreshGauges(normals), !.freshFloods = FreshGauges(floods)]
    /\ UNCHANGED <<kind, day, news, rows, normals, floods>>

\* faulty variant: a gauge for which USGS has no rows loses those it had
LoadedOrNone(old) == {{}, {day}, old}

\* rows replace rows; without rows, and after a failure, the old ones stay
Loaded(old) == {{day}, old}

\* one gauge: its normals unless they are fresh, then its flood stages unless they are; a
\* gauge without stages gets its row too
ServeGauge ==
    LET g == Gauge[run.pos]
        old == g \in run.freshNormals
        known == g \in run.freshFloods
    IN  /\ kind = "gauges" /\ run.pos # 0
        /\ \E loaded \in IF old THEN {normals[g]} ELSE Loaded(normals[g]), ok \in BOOLEAN :
              /\ normals' = [normals EXCEPT ![g] = loaded]
              /\ floods' = [floods EXCEPT ![g] = IF known \/ ~ok THEN @ ELSE {day}]
        /\ run' = IF run.pos = Len(Gauge) THEN NoRun ELSE [run EXCEPT !.pos = @ + 1]
        /\ UNCHANGED <<kind, day, news, rows>>

-----------------------------------------------------------------------------

\* the process dies, or a write fails: the rest of the list is left
RunDies ==
    /\ run.pos # 0
    /\ run' = NoRun
    /\ UNCHANGED <<kind, day, news, rows, normals, floods>>

NextDay ==
    /\ run.pos = 0 /\ day < LastRefDay
    /\ day' = day + 1
    /\ UNCHANGED <<kind, news, rows, normals, floods, run>>

NewsAt(s) ==
    /\ news[s] < MaxNews
    /\ news' = [news EXCEPT ![s] = @ + 1]
    /\ UNCHANGED <<kind, day, rows, normals, floods, run>>

ReferenceNext ==
    \/ StartWaters \/ ServeWater \/ StartGauges \/ ServeGauge \/ RunDies \/ NextDay
    \/ \E s \in Station : NewsAt(s)

-----------------------------------------------------------------------------
(* Properties *)

\* a run of SNOTEL that gets to its end leaves the waters of one station with one reading, or all marked
\* stale, although the station may change or fail in the middle
SharedStationAgrees ==
    [][kind = "snotel" /\ run.pos = Len(Place) /\ run'.pos = 0 /\ rows' # rows =>
        \A v, w \in Visited :
            StationOf[v] = StationOf[w] /\ rows'[v] # {} /\ rows'[w] # {}
            => \A r \in rows'[v], s \in rows'[w] : r.stale = s.stale /\ (~r.stale => r = s)]_refVars

\* flow normals and readings are replaced and never lost: failures and empty answers leave the old ones
NothingWiped ==
    [][/\ \A g \in Gauges : normals[g] # {} => normals'[g] # {}
       /\ \A w \in Visited : rows[w] # {} => rows'[w] # {}]_refVars
=============================================================================
