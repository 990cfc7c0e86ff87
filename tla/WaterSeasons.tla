---------------------------- MODULE WaterSeasons ----------------------------
(***************************************************************************)
(* The annual seasons of the WDFW pamphlet (backend/conditions/            *)
(* wdfw_seasons.py): which stretches of a water are open on a day, and     *)
(* what that means for a trip.  A date cell is [kind, from, to]; a row of  *)
(* a stretch is [species, dates, closes, gear], dates being the cell, or   *)
(* none; names are compared by their keys.                                 *)
(***************************************************************************)
EXTENDS Calendar, Sequences, Functions

-----------------------------------------------------------------------------
(* Dates of the pamphlet *)

\* _point: one end of a range, in a given year
PointIn(p, y) ==
    CASE p.at = "day" -> Date(y, p.month, Min({p.day, MonthLength(y, p.month)}))
      [] p.at = "before memorial day" -> MemorialDay(y) - p.days
      [] p.at = "nth" -> NthWeekday(y, p.month, p.weekday, p.n)
      [] p.at = "after thanksgiving" -> Thanksgiving(y) + 1 + 7 * (p.n - 1)
      [] p.at = "after labor day" -> LaborDay(y) + p.days

\* a range that ends before it starts runs into the next year
Spans(first, last, next, day) == first <= day /\ day <= (IF last < first THEN next ELSE last)

\* the range that starts in year y holds the day
Covers(range, y, day) == Spans(PointIn(range.from, y), PointIn(range.to, y), PointIn(range.to, y + 1), day)

\* faulty variant: only the range that starts in the day's own year is looked at
InRangeThisYear(range, day) ==
    CASE range.kind = "year-round" -> "in"
      [] range.kind = "unreadable" -> "unreadable"
      [] OTHER -> IF Covers(range, YearOf(day), day) THEN "in" ELSE "out"

InRange(range, day) ==
    CASE range.kind = "year-round" -> "in"
      [] range.kind = "unreadable" -> "unreadable"
      [] OTHER -> IF \E y \in {YearOf(day) - 1, YearOf(day)} : Covers(range, y, day) THEN "in" ELSE "out"

Mid(month, day) == [at |-> "day", month |-> month, day |-> day]
Dates(from, to) == [kind |-> "dates", from |-> from, to |-> to]

STATEWIDE_RIVER_SEASON == Dates([at |-> "before memorial day", days |-> 2], Mid(10, 31))

\* the year in which the pamphlet in force on a day began, in July
PamphletYear(day) == IF MonthOf(day) >= 7 THEN YearOf(day) ELSE YearOf(day) - 1

-----------------------------------------------------------------------------
(* Which entry is a water's *)

Kind(type) == IF type \in {"river", "creek"} THEN {"river"} ELSE IF type = "lake" THEN {"lake"} ELSE {}

\* match: none when the pamphlet does not list the water, or lists its name in several counties and ours is
\* not known; two headings of one county are one water, open where either is
Match(water, entries) ==
    LET named == {i \in DOMAIN entries : /\ entries[i].kind \in Kind(water.type)
                                         /\ entries[i].keys \cap water.keys # {}}
        here == {i \in named : water.county = {} \/ entries[i].counties = {} \/ water.county \cap entries[i].counties # {}}
    IN  IF Cardinality(here) = 1 \/ (here # {} /\ water.county # {})
        THEN {[kind |-> entries[Min(here)].kind, reaches |-> UNION {entries[i].reaches : i \in here}]}
        ELSE {}

-----------------------------------------------------------------------------
(* A stretch on a day *)

OfAll(row) == row.species \in {"all species", "all game fish"}
InSeason(row, day) == \E range \in row.dates : InRange(range, day) = "in"
NotOver(row, day) == \E range \in row.dates : InRange(range, day) # "out"

\* "All species" dates open a stretch only where no species has dates of its own
Seasons(rows) ==
    LET dated == {r \in rows : r.dates # {}}
        specific == {r \in dated : r.species \in {"all game fish", "game"}}
    IN  IF specific # {} THEN specific ELSE {r \in dated : r.species = "all species"}

Statewide(kind, day) == kind = "lake" \/ InRange(STATEWIDE_RIVER_SEASON, day) = "in"

\* faulty variant: a dated closure is overlooked when a season is open
ReachOpenAnyway(rows, day, kind) ==
    IF Seasons(rows) = {}
    THEN ~(\E r \in rows : OfAll(r) /\ r.closes /\ r.dates = {}) /\ Statewide(kind, day)
    ELSE \E r \in Seasons(rows) : ~r.closes /\ NotOver(r, day)

\* _reach_open: dates that cannot be read count as open
ReachOpen(rows, day, kind) ==
    /\ ~\E r \in rows : OfAll(r) /\ r.closes /\ InSeason(r, day)
    /\ IF Seasons(rows) = {}
       THEN ~(\E r \in rows : OfAll(r) /\ r.closes /\ r.dates = {}) /\ Statewide(kind, day)
       ELSE \E r \in Seasons(rows) : ~r.closes /\ NotOver(r, day)

\* a stretch is [desc, rows]; a heading without rows is one stretch, under the statewide rules
Reaches(entry) ==
    LET ruled == {r \in entry.reaches : r.rows # {}} IN IF ruled = {} THEN {[desc |-> "", rows |-> {}]} ELSE ruled

OpenReaches(entry, day) == {r \in Reaches(entry) : ReachOpen(r.rows, day, entry.kind)}

-----------------------------------------------------------------------------
(* A trip *)

MAX_TRIP_DAYS == 14
TripDays(start, end) == start..Min({Max({end, start}), start + MAX_TRIP_DAYS - 1})

Said(about, day, where) == [about |-> about, day |-> day, where |-> where]

\* _partial_trip_line: until when, or from when, a water that is not open throughout can be fished
PartialTrip(days, open) ==
    IF Min(days) \in open
    THEN Said("closes after", Max({d \in days : Min(days)..d \subseteq open}), {})
    ELSE Said("closed until", Min(open), {})

\* _stretch_lines: the shorter list is told, on the first day that can be fished
ShorterList(open, closed, day) ==
    IF closed = {} THEN {}
    ELSE IF Cardinality(closed) < Cardinality(open) THEN {Said("closed", day, closed)}
    ELSE {Said("open only", day, open)}

StretchLines(entry, day) ==
    LET open == OpenReaches(entry, day) IN ShorterList(open, Reaches(entry) \ open, day)

Verdict(gate, lines) == [gate |-> gate, lines |-> lines]

\* a water is left out when it is open on none of the days, and told of when on some only
DaysJudged(days, open, lines) ==
    IF open = {} THEN Verdict(TRUE, {})
    ELSE Verdict(FALSE, lines \cup (IF open = days THEN {} ELSE {PartialTrip(days, open)}))

StatewideJudged(water, days) == DaysJudged(days, {d \in days : \E k \in Kind(water.type) : Statewide(k, d)}, {})

EntryJudged(entry, days, open) == DaysJudged(days, open, IF open = {} THEN {} ELSE StretchLines(entry, Min(open)))

\* status, of a pamphlet [year, entries]; not judged when the one in force could not be loaded
Status(water, start, end, pamphlet) ==
    LET inForce == {p \in pamphlet : p.year = PamphletYear(start)}
        days == TripDays(start, end)
    IN  CASE Kind(water.type) = {} -> Verdict(FALSE, {})
          [] Kind(water.type) # {} /\ inForce = {} ->
                Verdict(FALSE, IF Kind(water.type) = {"river"} THEN {Said("outside", start, {})} ELSE {})
          [] OTHER ->
                LET entry == UNION {Match(water, p.entries) : p \in inForce} IN
                IF entry = {} THEN StatewideJudged(water, days)
                ELSE LET e == CHOOSE e \in entry : TRUE
                     IN  EntryJudged(e, days, {d \in days : OpenReaches(e, d) # {}})

\* _season_filter: an emergency rule that opens the water overrides the pamphlet
Overruled(verdict, start, reopens) ==
    IF verdict.gate /\ reopens THEN Verdict(FALSE, {Said("opened", start, {})}) ELSE verdict

SeasonFilter(water, start, end, pamphlet, reopens) == Overruled(Status(water, start, end, pamphlet), start, reopens)

-----------------------------------------------------------------------------
(* Gear *)

\* _day_rules: the gear rules of the rows in season, and of the undated rows for all species
DayRules(rows, day) ==
    UNION {r.gear : r \in {r \in rows : IF r.dates = {} THEN OfAll(r) ELSE InSeason(r, day)}}

\* gear_line: one line when the open stretches agree, else each with its own
GearLine(water, day, pamphlet) ==
    LET entry == UNION {Match(water, p.entries) : p \in {q \in pamphlet : q.year = PamphletYear(day)}}
        ruled == UNION {{[where |-> r.desc, rules |-> DayRules(r.rows, day)] : r \in OpenReaches(e, day)} : e \in entry}
    IN  IF \A r \in ruled : r.rules = {} THEN {}
        ELSE IF \A r, s \in ruled : r.rules = s.rules THEN {[where |-> "", rules |-> UNION {r.rules : r \in ruled}]}
        ELSE ruled
=============================================================================
