-------------------------- MODULE CandidatePipeline --------------------------
(***************************************************************************)
(* The build of a trip's candidates (backend/chat/context_builder.py       *)
(* build_context, parts [1] to [4]; chat/drive_times.py): the waters that  *)
(* are open and within reach are ranked by the conditions of the day, the  *)
(* first few get a drive time of HERE, and the answer may come from the    *)
(* cache of replies (chat/response_cache.py).  The trips build at the same *)
(* time and share the routes and the replies.                              *)
(***************************************************************************)
EXTENDS Ranking

CONSTANTS
    Query,          \* the spots, in the order in which the database returns them
    Site,           \* Site[s]: what does not change of a spot and its water
    Trip, Place,    \* Place: where trips start
    Drive,          \* Drive[p][s]: the minutes HERE says, boats without their wait
    Estimate,       \* Estimate[p][s]: those of the road network, with the wait of the day
    BoatWait,       \* BoatWait[t][s]: the wait for the boats on the trip's day
    Month,
    TOP_N, MAX_HERE_CALLS, MAX_CANDIDATES,
    WINDOW,         \* the cards among which one is to be new: five
    Outlook,        \* Outlook[s]: what the sources may say of a water
    Intake,         \* the filters a trip may have
    LastInterval, MaxObserved, MaxTurns     \* bounds, the last one for each trip

Spots == Range(Query)

ASSUME PipelineAssumption ==
    /\ {TOP_N, MAX_HERE_CALLS, MAX_CANDIDATES, WINDOW, LastInterval, MaxObserved} \subseteq Nat
    /\ MaxTurns \in [Trip -> Nat]
    /\ TOP_N > 0 /\ WINDOW > 0
    /\ Query \in Seq(DOMAIN Site)
    /\ {Drive, Estimate} \subseteq [Place -> [Spots -> Int]] /\ BoatWait \in [Trip -> [Spots -> Int]]
    /\ \A i \in Intake : i.max \in Int
    /\ Spots \subseteq DOMAIN Outlook
    \* a gauge has one reading, or none
    /\ \A s \in Spots : \A o \in Outlook[s] : \A x, y \in o.usgs : x = y

\* what a water is worth to an angler on the conditions o
Score(s, o, intake) ==
    SessionScore(Site[s].base, VolatileDelta(Site[s], o, intake.species, Month), Site[s].boats, intake.goal,
                 Site[s].visited)

ASSUME ScoreAssumption == \A s \in Spots : \A o \in Outlook[s], i \in Intake : Score(s, o, i) \in Int

VARIABLES
    clock,      \* the interval of the conditions hash
    obs,        \* obs[s]: the readable rows of the conditions cache
    observed,
    trip,       \* trip[t]: [from, intake, aside, turns]
    build,      \* build[t]: the build in progress, verify_top's locals
    list,       \* list[t]: session_candidates, {} before the first build
    routes,     \* drive_time_cache: [from, spot, minutes]
    replies,    \* response_cache: [key, text]
    shown       \* shown[t]: the text on the screen, {} or one [text, key, cached]

pipelineVars == <<clock, obs, observed, trip, build, list, routes, replies, shown>>

NoBuild == [pc |-> "idle", ranked |-> <<>>, todo |-> <<>>, kept |-> <<>>, verified |-> 0, calls |-> 0,
            unavailable |-> FALSE, key |-> {}]

PipelineInit ==
    /\ clock = 0
    /\ obs \in [Spots -> UNION Range(Outlook)] /\ (\A s \in Spots : obs[s] \in Outlook[s])
    /\ observed = 0
    /\ trip \in [Trip -> {[from |-> p, intake |-> i, aside |-> {}, turns |-> 0] : p \in Place, i \in Intake}]
    /\ build = [t \in Trip |-> NoBuild] /\ list = [t \in Trip |-> {}]
    /\ routes = {} /\ replies = {} /\ shown = [t \in Trip |-> {}]

-----------------------------------------------------------------------------
(* Filters and ranking *)

\* the estimate may exceed the limit by 15%, for HERE to judge; without an origin all are near
WithinMargin(t, s) ==
    trip[t].from = "unknown" \/ 100 * Estimate[trip[t].from][s] <= 115 * trip[t].intake.max

\* flood stage shuts a river; out-of-range flow, fire, snow and smoke only cost points
Offered(t, s) ==
    /\ Site[s].legal /\ ~Site[s].outOfSeason /\ ~Site[s].closed
    /\ MatchesWaterType(Site[s].type, trip[t].intake.types)
    /\ s \notin trip[t].aside
    /\ WithinMargin(t, s)
    /\ ~(Site[s].river /\ obs[s].flow.flood = "flood")

Card(t, s) ==
    LET known == trip[t].from # "unknown"
    IN  [spot |-> s, minutes |-> IF known THEN Estimate[trip[t].from][s] ELSE 0, estimated |-> known,
         score |-> Score(s, obs[s], trip[t].intake), usgs |-> obs[s].usgs]

Old == [s \in Spots |-> Site[s].old]

Cut(cards, n) == SubSeq(cards, 1, Min({n, Len(cards)}))

\* a few more than are kept: HERE may put some past the limit
Pool(t) ==
    LET offered == Kept(Query, {k \in DOMAIN Query : Offered(t, Query[k])})
    IN  Cut(Ranked([i \in DOMAIN offered |-> Card(t, offered[i])]), MAX_CANDIDATES + MAX_HERE_CALLS)

\* one build of a trip at a time; a trip without an origin asks HERE for nothing
Build(t) ==
    /\ build[t].pc = "idle" /\ list[t] = {} /\ trip[t].turns < MaxTurns[t]
    /\ LET cards == Rotated(Pool(t), WINDOW, Old)
           asks == trip[t].from # "unknown"
       IN  build' = [build EXCEPT ![t] = [NoBuild EXCEPT
               !.pc = "verify", !.ranked = Pool(t),
               !.todo = IF asks THEN cards ELSE <<>>, !.kept = IF asks THEN <<>> ELSE cards]]
    /\ trip' = [trip EXCEPT ![t].turns = @ + 1]
    /\ UNCHANGED <<clock, obs, observed, list, routes, replies, shown>>

-----------------------------------------------------------------------------
(* verify_top *)

Upcoming(b) == Head(b.todo)
Within(t, minutes) == minutes <= trip[t].intake.max

\* the next card is kept as given, or dropped
Passed(b, cards) ==
    [b EXCEPT !.pc = "verify", !.todo = Tail(@), !.kept = @ \o cards, !.verified = @ + Len(cards)]

\* the card, if its estimate is within the limit
Near(t, b) == IF Within(t, Upcoming(b).minutes) THEN <<Upcoming(b)>> ELSE <<>>

\* faulty variant: the estimate stands without a word when the month is used up
EstimateSilent(t, b, failed) == Passed(b, Near(t, b))

\* HERE is down, refused or not to be asked again: the card keeps its estimate
EstimateStands(t, b, failed) ==
    [Passed(b, Near(t, b)) EXCEPT !.unavailable = @ \/ failed]

\* faulty variant: the wait for the boat is left out
DriveWithoutWait(t, card, minutes) == minutes

\* HERE in planning mode has no date: the wait of the day is added to its time
DriveTime(t, card, minutes) == minutes + BoatWait[t][card.spot]

\* HERE's time decides, and is shown
Judged(t, b, minutes) ==
    LET time == DriveTime(t, Upcoming(b), minutes)
    IN  Passed(b, IF Within(t, time) THEN <<[Upcoming(b) EXCEPT !.minutes = time, !.estimated = FALSE]>> ELSE <<>>)

Verifying(t) == build[t].pc = "verify" /\ build[t].todo # <<>> /\ build[t].verified < TOP_N

\* the cache of routes first; a row that cannot be read counts as none, and HERE is asked
\* unless its breaker is open or the calls of this build are spent
ReadRoute(t) ==
    /\ Verifying(t)
    /\ LET mine == build[t]
           rows == {r \in routes : r.from = trip[t].from /\ r.spot = Upcoming(mine).spot}
       IN  \/ \E r \in rows : build' = [build EXCEPT ![t] = Judged(t, mine, r.minutes)]
           \/ mine.calls >= MAX_HERE_CALLS /\ build' = [build EXCEPT ![t] = EstimateStands(t, mine, FALSE)]
           \/ mine.calls < MAX_HERE_CALLS /\ build' = [build EXCEPT ![t] = EstimateStands(t, mine, TRUE)]
           \/ mine.calls < MAX_HERE_CALLS /\ build' = [build EXCEPT ![t].pc = "reserve"]
    /\ UNCHANGED <<clock, obs, observed, trip, list, routes, replies, shown>>

\* here_budget grants one request, or refuses
Reserve(t) ==
    /\ build[t].pc = "reserve"
    /\ \/ build' = [build EXCEPT ![t].pc = "route", ![t].calls = @ + 1]
       \/ build' = [build EXCEPT ![t] = EstimateStands(t, build[t], TRUE)]
    /\ UNCHANGED <<clock, obs, observed, trip, list, routes, replies, shown>>

\* faulty variant: the straight-line time of a failed call is stored as HERE's
StoredFallback(t, s) == {[from |-> trip[t].from, spot |-> s, minutes |-> Estimate[trip[t].from][s]]}

StoredNever(t, s) == {}

\* HERE answers, and the route is stored, or the write fails; or it fails, and nothing is stored
AskHere(t) ==
    /\ build[t].pc = "route"
    /\ LET s == Upcoming(build[t]).spot
           minutes == Drive[trip[t].from][s]
       IN  \/ /\ build' = [build EXCEPT ![t] = Judged(t, build[t], minutes)]
              /\ routes' \in {routes, routes \cup {[from |-> trip[t].from, spot |-> s, minutes |-> minutes]}}
           \/ /\ build' = [build EXCEPT ![t] = EstimateStands(t, build[t], TRUE)]
              /\ routes' = routes \cup StoredNever(t, s)
    /\ UNCHANGED <<clock, obs, observed, trip, list, replies, shown>>

\* faulty variant: what is not shown first is dropped
RestDropped(t, cards) == <<>>

\* the others are judged by their estimate
Rest(t, cards) == Kept(cards, {k \in DOMAIN cards : Within(t, cards[k].minutes)})

Deliver(t) ==
    /\ build[t].pc = "verify" /\ (build[t].todo = <<>> \/ build[t].verified >= TOP_N)
    /\ list' = [list EXCEPT ![t] =
          {[cards |-> Cut(build[t].kept \o Rest(t, build[t].todo), MAX_CANDIDATES),
            unavailable |-> build[t].unavailable]}]
    /\ build' = [build EXCEPT ![t] = [NoBuild EXCEPT !.pc = "lookup"]]
    /\ UNCHANGED <<clock, obs, observed, trip, routes, replies, shown>>

-----------------------------------------------------------------------------
(* The cache of replies (two-pass harness) *)

\* faulty variant: the limit of the drive is not in the key
IntakeHashShort(intake) == [types |-> intake.types, species |-> intake.species]

\* compute_intake_hash
IntakeHash(intake) == [types |-> intake.types, species |-> intake.species, max |-> intake.max]

\* the key of the first card, if its gauge was read
Keys(t) ==
    LET l == CHOOSE l \in list[t] : TRUE
        read == IF l.cards = <<>> THEN {} ELSE l.cards[1].usgs
    IN  {[spot |-> l.cards[1].spot, usgs |-> r, at |-> clock, intake |-> IntakeHash(trip[t].intake)] : r \in read}

TopSpots(cards) == [i \in 1..Min({TOP_N, Len(cards)}) |-> cards[i].spot]

LookUp(t) ==
    /\ build[t].pc = "lookup"
    /\ LET hits == {r \in replies : r.key \in Keys(t)}
       IN  IF hits # {}
           THEN /\ shown' = [shown EXCEPT ![t] = {[text |-> r.text, cached |-> TRUE] : r \in hits}]
                /\ build' = [build EXCEPT ![t] = NoBuild]
           ELSE /\ build' = [build EXCEPT ![t].pc = "reply", ![t].key = Keys(t)]
                /\ UNCHANGED shown
    /\ UNCHANGED <<clock, obs, observed, trip, list, routes, replies>>

\* the model answers; the first reply of a key is the one that stays
Reply(t) ==
    /\ build[t].pc = "reply"
    /\ LET text == [spots |-> TopSpots((CHOOSE l \in list[t] : TRUE).cards), intake |-> trip[t].intake,
                    usgs |-> {k.usgs : k \in build[t].key}]
       IN  /\ shown' = [shown EXCEPT ![t] = {[text |-> text, cached |-> FALSE]}]
           /\ replies' = replies \cup {[key |-> k, text |-> text] :
                              k \in {j \in build[t].key : \A r \in replies : r.key # j}}
    /\ build' = [build EXCEPT ![t] = NoBuild]
    /\ UNCHANGED <<clock, obs, observed, trip, list, routes>>

-----------------------------------------------------------------------------
(* What goes on around the builds *)

\* a follow-up question keeps the candidates
FollowUp(t) ==
    /\ build[t].pc = "idle" /\ list[t] # {} /\ trip[t].turns < MaxTurns[t]
    /\ trip' = [trip EXCEPT ![t].turns = @ + 1]
    /\ build' = [build EXCEPT ![t].pc = "lookup"]
    /\ UNCHANGED <<clock, obs, observed, list, routes, replies, shown>>

\* a confirmed filter starts the build anew
Confirm(t, intake) ==
    /\ build[t].pc = "idle" /\ list[t] # {} /\ intake # trip[t].intake /\ trip[t].turns < MaxTurns[t]
    /\ trip' = [trip EXCEPT ![t].intake = intake]
    /\ list' = [list EXCEPT ![t] = {}]
    /\ UNCHANGED <<clock, obs, observed, build, routes, replies, shown>>

\* a card is set aside: the others move up as they are
Exclude(t, s) ==
    /\ build[t].pc = "idle" /\ \E l \in list[t] : s \in Range(TopSpots(l.cards))
    /\ trip[t].turns < MaxTurns[t]
    /\ trip' = [trip EXCEPT ![t].aside = @ \cup {s}, ![t].turns = @ + 1]
    /\ list' = [list EXCEPT ![t] = {[l EXCEPT !.cards = Kept(@, {k \in DOMAIN @ : @[k].spot # s})] : l \in @}]
    /\ UNCHANGED <<clock, obs, observed, build, routes, replies, shown>>

Observe(s, o) ==
    /\ observed < MaxObserved /\ o # obs[s]
    /\ observed' = observed + 1
    /\ obs' = [obs EXCEPT ![s] = o]
    /\ UNCHANGED <<clock, trip, build, list, routes, replies, shown>>

Later ==
    /\ clock < LastInterval
    /\ clock' = clock + 1
    /\ UNCHANGED <<obs, observed, trip, build, list, routes, replies, shown>>

PipelineNext ==
    \/ \E t \in Trip : \/ Build(t) \/ ReadRoute(t) \/ Reserve(t) \/ AskHere(t) \/ Deliver(t)
                       \/ LookUp(t) \/ Reply(t) \/ FollowUp(t)
                       \/ \E i \in Intake : Confirm(t, i)
                       \/ \E s \in Spots : Exclude(t, s)
    \/ \E s \in Spots : \E o \in Outlook[s] : Observe(s, o)
    \/ Later

PipelineSpec == PipelineInit /\ [][PipelineNext]_pipelineVars

-----------------------------------------------------------------------------
(* Properties *)

Delivered(t) == build[t].pc = "verify" /\ build'[t].pc = "lookup"

(* A drive time that is not marked as an estimate is HERE's, for the day of the trip, whichever build    *)
(* paid for it; and a first card without one is told of: HERE was unavailable, which raises the banner,  *)
(* or this build had used its calls (drive_times.py, verify_top).                                        *)
DriveTimesTold ==
    [][\A t \in Trip : Delivered(t) /\ trip[t].from # "unknown" => \A l \in list'[t] :
          /\ \A i \in DOMAIN l.cards : ~l.cards[i].estimated =>
                LET s == l.cards[i].spot IN l.cards[i].minutes = Drive[trip[t].from][s] + BoatWait[t][s]
          /\ \A i \in 1..Min({TOP_N, Len(l.cards)}) :
                l.cards[i].estimated => l.unavailable \/ build[t].calls = MAX_HERE_CALLS]_pipelineVars

\* the spots that a build ranked and did not deliver
Missing(t, l) == {c \in Range(build[t].ranked) : \A d \in Range(l.cards) : d.spot # c.spot}
TooFar(t, s) ==
    \/ ~Within(t, Estimate[trip[t].from][s])
    \/ ~Within(t, Drive[trip[t].from][s] + BoatWait[t][s])

(* No spot is lost on the way from the ranking to the cards, whatever HERE does: one that is missing is  *)
(* too far, or the list is full, or it is the one that made room for a spot long unvisited; and but for  *)
(* that spot the cards are in the order of their scores (context_builder.py:814, drive_times.py:135).    *)
NothingLost ==
    [][\A t \in Trip : Delivered(t) => \A l \in list'[t] :
          /\ Len(l.cards) < MAX_CANDIDATES =>
                Cardinality({c \in Missing(t, l) : trip[t].from = "unknown" \/ ~TooFar(t, c.spot)}) <=
                    (IF \E c \in Range(build[t].ranked) : Old[c.spot] THEN 1 ELSE 0)
          /\ \A i, j \in DOMAIN l.cards :
                i < j /\ l.cards[i].score < l.cards[j].score => Old[l.cards[i].spot]]_pipelineVars

(* A reply on the screen was written for the spot that came first, for its gauge's reading and for the   *)
(* filters of the trip, also when it was written for another trip (response_cache.py:35).                *)
ReplyFits ==
    [][\A t \in Trip : build[t].pc = "lookup" /\ build'[t].pc = "idle" =>
          \A r \in shown'[t], l \in list[t] :
              /\ r.text.spots[1] = l.cards[1].spot /\ r.text.usgs = l.cards[1].usgs
              /\ IntakeHash(r.text.intake) = IntakeHash(trip[t].intake)
              /\ r.text.intake.max = trip[t].intake.max]_pipelineVars
=============================================================================
