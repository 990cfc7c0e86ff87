--------------------------- MODULE FlowReference ---------------------------
(***************************************************************************)
(* Judging one flow reading against the references of the gauge that took  *)
(* it (backend/conditions/flow_reference.py): the date's percentiles, the  *)
(* published ranges and the flood stages.  Flows are cfs, stages feet,     *)
(* percentiles and chances tenths of a percent, scores hundredths.  A value*)
(* that may be missing is a set of at most one element.                    *)
(***************************************************************************)
EXTENDS Integers, Sequences, FiniteSetsExt, Folds

LOCAL INSTANCE SequencesExt

\* PERCENTILES, in tenths of a percent
PERCENTILES == <<50, 100, 250, 500, 750, 900, 950>>
Top == Len(PERCENTILES)
NORMALS_WINDOW_DAYS == 7
DaysOfYear == 366

\* the MM-DD keys within the window of a day of the year, across New Year
WindowKeys(day) == {(day + i) % DaysOfYear : i \in -NORMALS_WINDOW_DAYS..NORMALS_WINDOW_DAYS}

\* rows: a gauge's percentiles by day; each one averaged over the days of the window that have a row
SmoothNormals(rows, day) ==
    LET picked == WindowKeys(day) \cap DOMAIN rows IN
    {[i \in 1..Top |-> MapThenSumSet(LAMBDA k : rows[k][i], picked) \div Cardinality(picked)] :
        x \in IF picked = {} THEN {} ELSE {1}}

\* faulty variant: beyond the last percentile the value is not extrapolated
PercentileClipped(cfs, normals) ==
    IF cfs <= normals[1] THEN IF normals[1] > 0 THEN (PERCENTILES[1] * cfs) \div normals[1] ELSE 0
    ELSE IF cfs >= normals[Top] THEN 500
    ELSE LET i == Min({k \in 1..Top - 1 : normals[k] <= cfs /\ cfs <= normals[k + 1]}) IN
         PERCENTILES[i] + ((PERCENTILES[i + 1] - PERCENTILES[i]) * (cfs - normals[i]))
                            \div Max({1, normals[i + 1] - normals[i]})

\* linear between the published percentiles, extrapolated towards 0 and 100 outside them
PercentileOf(cfs, normals) ==
    IF cfs <= normals[1] THEN IF normals[1] > 0 THEN (PERCENTILES[1] * cfs) \div normals[1] ELSE 0
    ELSE IF cfs >= normals[Top] THEN
         PERCENTILES[Top] + ((1000 - PERCENTILES[Top]) * (cfs - normals[Top])) \div Max({1, cfs})
    ELSE LET i == Min({k \in 1..Top - 1 : normals[k] <= cfs /\ cfs <= normals[k + 1]}) IN
         PERCENTILES[i] + ((PERCENTILES[i + 1] - PERCENTILES[i]) * (cfs - normals[i]))
                            \div Max({1, normals[i + 1] - normals[i]})

\* a band is [site, lo, hi], either end possibly missing
ProbInRange(band, normals) ==
    LET upper == IF band.hi = {} THEN 1000 ELSE PercentileOf(Max(band.hi), normals)
        lower == IF band.lo = {} THEN 0 ELSE PercentileOf(Max(band.lo), normals)
    IN  Max({0, Min({1000, upper - lower})})

BandStatus(cfs, band) ==
    IF \E lo \in band.lo : cfs < lo THEN "low"
    ELSE IF \E hi \in band.hi : cfs > hi THEN "high" ELSE "in"

\* how far outside, in tenths of a percent of the end it is outside of
BandDistance(cfs, band) ==
    CASE BandStatus(cfs, band) = "low"  -> LET lo == Max(band.lo) IN ((lo - cfs) * 1000) \div Max({1, lo})
      [] BandStatus(cfs, band) = "high" -> LET hi == Max(band.hi) IN IF hi = 0 THEN 0 ELSE ((cfs - hi) * 1000) \div hi
      [] OTHER -> 0

\* flood at or above the minor flood stage, action at or above the action stage
FloodStatus(stage, stages) ==
    IF \E s \in stage, f \in stages : \E m \in f.minor : s >= m THEN "flood"
    ELSE IF \E s \in stage, f \in stages : \E a \in f.action : s >= a THEN "action" ELSE "none"

VERY_LOW_PCT == 100
VERY_HIGH_PCT == 900

\* the bands whose own gauge has a reading
Checked(bands, readings) ==
    SelectSeq(bands, LAMBDA b : b.site \in DOMAIN readings /\ readings[b.site] # {})

\* the band the reading is in, or least far outside of; the first of equals
BestBand(checked, readings) ==
    LET dist(i) == BandDistance(Max(readings[checked[i].site]), checked[i])
        near == {i \in 1..Len(checked) : \A j \in 1..Len(checked) : dist(i) <= dist(j)}
    IN  Min(near)

(***************************************************************************)
(* The score and the advisory of a flow: the best band decides, whatever   *)
(* the angler then does with it; without a band that can be checked, only  *)
(* the tails of the date's distribution do.                                *)
(***************************************************************************)
AssessFlow(cfs, normals, bands, readings) ==
    LET checked == Checked(bands, readings) IN
    IF checked # <<>> THEN
        LET best == checked[BestBand(checked, readings)]
            status == BandStatus(Max(readings[best.site]), best)
        IN  CASE status = "in"   -> [delta |-> 100, warns |-> FALSE]
              [] status = "low"  -> [delta |-> -200, warns |-> TRUE]
              [] status = "high" -> [delta |-> -250, warns |-> TRUE]
    ELSE LET pct == {PercentileOf(c, n) : c \in cfs, n \in normals} IN
         CASE \E p \in pct : p < VERY_LOW_PCT  -> [delta |-> -100, warns |-> TRUE]
           [] \E p \in pct : p > VERY_HIGH_PCT -> [delta |-> -150, warns |-> TRUE]
           [] OTHER -> [delta |-> 0, warns |-> FALSE]

\* the nightly reliability of a river: its best band's chance of holding around the date
BestBandReliability(bands, normalsOf) ==
    LET known == {b \in Range(bands) : b.site \in DOMAIN normalsOf}
        probs == UNION {{ProbInRange(b, n) : n \in normalsOf[b.site]} : b \in known}
    IN  IF probs = {} THEN {} ELSE {Max(probs)}
=============================================================================
