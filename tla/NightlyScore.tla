---------------------------- MODULE NightlyScore ----------------------------
(***************************************************************************)
(* The nightly score of a water, from what does not change during a day    *)
(* (backend/spots/scorer.py).  Signals, weights and scores are             *)
(* ten-thousandths, and a value that may be missing is a set of at most    *)
(* one element.                                                            *)
(***************************************************************************)
EXTENDS Integers, Sequences, FiniteSetsExt, Functions

LOCAL INSTANCE SequencesExt

ONE == 10000
Unit(x) == Max({0, Min({ONE, x})})
Known1(value, default) == IF value = {} THEN default ELSE Max(value)
Total(seq) == FoldLeft(LAMBDA x, y : x + y, 0, seq)

CONFIDENCE_MULTIPLIER == [confirmed |-> 10, probable |-> 6, unvalidated |-> 2]

\* the weights, without and with debriefs
WEIGHTS ==
    [river |-> [none |-> [rating |-> 0, notes |-> 3, trend |-> 2, reliability |-> 3, coverage |-> 10],
                some |-> [rating |-> 3, notes |-> 2, trend |-> 2, reliability |-> 2, coverage |-> 5]],
     lake |-> [none |-> [stocking |-> 3, rating |-> 0, notes |-> 3, access |-> 2, coverage |-> 10],
               some |-> [stocking |-> 3, rating |-> 3, notes |-> 2, access |-> 2, coverage |-> 5]]]

-----------------------------------------------------------------------------
(* Signals *)

\* ratings in tenths of a star, one to five
NormRating(rating) == Unit((ONE * (rating - 10)) \div 40)

\* no notes is neutral
NormNotes(n) ==
    LET all == n.positive + n.neutral + n.negative IN
    IF all = 0 THEN ONE \div 2 ELSE (ONE * (2 * n.positive + n.neutral)) \div (2 * all)

NormTrend(trend) == CASE trend = {"dropping"} -> ONE [] trend = {"rising"} -> 0 [] OTHER -> ONE \div 2

NormStocking(days) ==
    CASE days = {} -> 0
      [] \E d \in days : d <= 30 -> ONE
      [] \E d \in days : d > 30 /\ d <= 60 -> 7500
      [] \E d \in days : d > 60 /\ d <= 90 -> 5000
      [] \E d \in days : d > 90 /\ d <= 180 -> 2500
      [] OTHER -> 0

NormAccess(percent, alpine) ==
    IF ~alpine THEN 0
    ELSE IF percent = {} THEN ONE \div 2
    ELSE IF Max(percent) <= 50 THEN ONE ELSE IF Max(percent) <= 100 THEN ONE \div 2 ELSE 0

NormCoverage(w) == Unit((ONE * w.populated) \div w.sources)

\* faulty variant: what was visited long ago costs nothing any more
PenaltyWraps(days) == IF days = {} \/ Max(days) <= 0 THEN 0 ELSE IF Max(days) > 84 THEN 0 ELSE -((5000 * Max(days)) \div 14)

\* half a point for every two weeks since the last visit, three at most
RecencyPenalty(days) == IF days = {} \/ Max(days) <= 0 THEN 0 ELSE Max({-3 * ONE, -((5000 * Max(days)) \div 14)})

-----------------------------------------------------------------------------
(* Debriefs: [rating, cfs], the flow of their day *)

CfsSimilarity(then, now) ==
    IF then = {} \/ now = {} \/ now = {0} THEN 0
    ELSE (ONE * Max(now)) \div (Max(now) + Max({Max(then) - Max(now), Max(now) - Max(then)}))

\* those of a flow like today's weigh more; all alike when none is
WeightedRating(debriefs, now) ==
    LET weight(d) == IF now = {} THEN 1 ELSE CfsSimilarity(d.cfs, now)
        weights == Total([i \in DOMAIN debriefs |-> weight(debriefs[i])])
    IN  IF debriefs = <<>> THEN {}
        ELSE IF weights = 0 THEN {Total([i \in DOMAIN debriefs |-> debriefs[i].rating]) \div Len(debriefs)}
        ELSE {Total([i \in DOMAIN debriefs |-> debriefs[i].rating * weight(debriefs[i])]) \div weights}

-----------------------------------------------------------------------------
(* Scores *)

Weights(kind, debriefs) == WEIGHTS[kind][IF debriefs = <<>> THEN "none" ELSE "some"]

\* what both kinds of water have in common
BaseScore(w, weights, now) ==
    (LET rating == WeightedRating(w.debriefs, now) IN IF rating = {} THEN 0 ELSE weights.rating * NormRating(Max(rating)))
    + weights.notes * NormNotes(w.notes)
    + (weights.coverage * CONFIDENCE_MULTIPLIER[w.confidence] * NormCoverage(w)) \div 100
    + RecencyPenalty(w.since)

ScoreRiver(w, now, trend, reliability) ==
    LET weights == Weights("river", w.debriefs) IN
    BaseScore(w, weights, now) + weights.trend * NormTrend(trend) + weights.reliability * Unit(Known1(reliability, 0))

ScoreLake(w, now) ==
    LET weights == Weights("lake", w.debriefs) IN
    BaseScore(w, weights, now) + weights.stocking * NormStocking(w.stocked) + weights.access * NormAccess(w.snow, w.alpine)

RELIABILITY_NEUTRAL == ONE \div 2

\* compute_and_store_score: today's flow and trend are left to the session, and a river without a range is neutral
NightlyScore(w) ==
    IF w.type = "lake" THEN ScoreLake(w, {})
    ELSE ScoreRiver(w, {}, {}, IF w.type = "coastal" THEN {} ELSE {Known1(w.reliability, RELIABILITY_NEUTRAL)})
=============================================================================
