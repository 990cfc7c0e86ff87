-------------------------- MODULE ConditionSources --------------------------
(***************************************************************************)
(* One source of conditions: its circuit breaker, the requests that fetch  *)
(* from it concurrently (the searches of several chats, the scheduled      *)
(* jobs), and its rows in conditions_cache with the readers' age limit     *)
(* (conditions/cache.py).  A fetch that fails returns nothing, and its     *)
(* caller serves the latest row that is young enough.                      *)
(***************************************************************************)
EXTENDS CircuitBreaker, FiniteSets, FiniteSetsExt

CONSTANTS
    Water,
    Fetch,          \* the fetches that may be in progress together
    TTL, MaxAge,    \* CACHE_TTL_HOURS and MAX_AGE_HOURS of the source, in ticks
    LastTick,       \* bound: the end of the clock
    MaxReadings     \* bound: changes of the water itself

ASSUME SourceAssumption ==
    /\ Water # {}
    /\ TTL \in Nat /\ MaxAge \in Nat /\ LastTick \in Nat /\ MaxReadings \in Nat

Outcome == {"data", "unusable", "client", "server", "timeout", "garbled", "cancelled"}

Reading == 0..MaxReadings
RowState == [water : Water, obs : Reading, at : 0..LastTick, stale : BOOLEAN]
FetchState == [pc : {"idle", "asked", "store", "mark"}, water : Water, obs : Reading, met : BOOLEAN]
NoFetch == [pc |-> "idle", water |-> CHOOSE w \in Water : TRUE, obs |-> 0, met |-> FALSE]

VARIABLES
    clock,
    actual,     \* what the source says, counted by its changes
    breaker,
    fetch,
    cache,      \* the rows of the source in conditions_cache
    streak,     \* results since the last success, all of them failures, as far as FailMax
    met         \* the waters for which two fetches have been in progress together

sourceVars == <<clock, actual, breaker, fetch, cache, streak, met>>

SourcesTypeOK ==
    /\ clock \in 0..LastTick
    /\ actual \in Reading
    /\ breaker \in BreakerState
    /\ fetch \in [Fetch -> FetchState]
    /\ cache \subseteq RowState
    /\ streak \in 0..FailMax
    /\ met \subseteq Water

SourcesInit ==
    /\ clock = 0 /\ actual = 0
    /\ breaker = NewBreaker
    /\ fetch = [f \in Fetch |-> NoFetch]
    /\ cache = {}
    /\ streak = 0 /\ met = {}

-----------------------------------------------------------------------------

Rows(w) == {r \in cache : r.water = w}

\* fresh: the rows young enough to be read
Fresh(w) == {r \in Rows(w) : clock - r.at <= MaxAge}

\* faulty variant: the oldest row that is fresh
OldestRow(w) == CHOOSE r \in Fresh(w) : \A s \in Fresh(w) : r.at <= s.at

\* the freshest row per source, as the readers order them
LatestRow(w) == CHOOSE r \in Fresh(w) : \A s \in Fresh(w) : r.at >= s.at

EndFetch(f) == fetch' = [fetch EXCEPT ![f] = NoFetch]

\* a fetch starts unless the breaker blocks it: then its caller serves the cache at once
Ask(f, w) ==
    /\ fetch[f].pc = "idle" /\ ~Blocking(breaker, clock)
    /\ breaker' = Admitted(breaker)
    /\ fetch' = [fetch EXCEPT ![f] = [NoFetch EXCEPT !.pc = "asked", !.water = w]]
    /\ met' = met \cup {w2 \in {w} : \E g \in Fetch : fetch[g].pc # "idle" /\ fetch[g].water = w}
    /\ UNCHANGED <<clock, actual, cache, streak>>

\* the answer arrives: usable data is stored, anything else is nothing (and SNOTEL marks its row)
Hear(f, outcome) ==
    /\ fetch[f].pc = "asked"
    /\ breaker' = Resulting(breaker, outcome, clock)
    /\ streak' = IF outcome = "cancelled" THEN streak
                 ELSE IF CountsAsFailure(outcome) THEN Min({FailMax, streak + 1}) ELSE 0
    /\ CASE outcome = "data" -> fetch' = [fetch EXCEPT ![f].pc = "store", ![f].obs = actual]
         [] outcome = "cancelled" -> EndFetch(f)
         [] OTHER -> EndFetch(f) \/ fetch' = [fetch EXCEPT ![f].pc = "mark"]
    /\ UNCHANGED <<clock, actual, cache, met>>

\* a write prunes its own water's rows by the TTL
Pruned(w) == {r \in cache : r.water # w \/ clock - r.at <= TTL}

\* write_conditions_cache, in one transaction; of two rows of one tick readers see the later
Store(f) ==
    /\ fetch[f].pc = "store"
    /\ cache' = {r \in Pruned(fetch[f].water) : r.water # fetch[f].water \/ r.at # clock}
                \cup {[water |-> fetch[f].water, obs |-> fetch[f].obs, at |-> clock, stale |-> FALSE]}
    /\ EndFetch(f)
    /\ UNCHANGED <<clock, actual, breaker, streak, met>>

\* _mark_stale: the latest row of the water, of whatever age
Mark(f) ==
    /\ fetch[f].pc = "mark"
    /\ \/ Rows(fetch[f].water) = {} /\ UNCHANGED cache
       \/ \E last \in Rows(fetch[f].water) :
              /\ \A r \in Rows(fetch[f].water) : last.at >= r.at
              /\ cache' = (cache \ {last}) \cup {[last EXCEPT !.stale = TRUE]}
    /\ EndFetch(f)
    /\ UNCHANGED <<clock, actual, breaker, streak, met>>

\* faulty variant: the nightly job prunes by the TTL of the writers
PruneByTTL == TTL

\* prune_expired keeps what either limit keeps
PruneLimit == Max({TTL, MaxAge})

Prune ==
    /\ cache' = {r \in cache : clock - r.at <= PruneLimit}
    /\ UNCHANGED <<clock, actual, breaker, fetch, streak, met>>

Elapses ==
    /\ clock < LastTick
    /\ clock' = clock + 1
    /\ UNCHANGED <<actual, breaker, fetch, cache, streak, met>>

Changes ==
    /\ actual < MaxReadings
    /\ actual' = actual + 1
    /\ UNCHANGED <<clock, breaker, fetch, cache, streak, met>>

SourcesNext ==
    \/ \E f \in Fetch : \/ \E w \in Water : Ask(f, w)
                        \/ \E o \in Outcome : Hear(f, o)
                        \/ Store(f) \/ Mark(f)
    \/ Prune \/ Elapses \/ Changes

SourcesSpec == SourcesInit /\ [][SourcesNext]_sourceVars

-----------------------------------------------------------------------------
(* Properties *)

\* no step takes a row that may still be read without a newer one in its place
Keeps(w) ==
    \A r \in Fresh(w) : \E s \in cache' : s.water = w /\ s.at >= r.at /\ clock - s.at <= MaxAge

\* what is served is never older than what was stored before
MovesForward(w) == Fresh(w)' # {} => \A r \in Rows(w) : LatestRow(w)'.obs >= r.obs

Serves(w) == (clock' = clock => Keeps(w)) /\ (w \notin met' => MovesForward(w))

(* A reading that may still be used is neither lost nor replaced by an older one: not by a failed fetch, *)
(* by a write, or by the nightly prune with its other limit (cache.py); except that of two fetches for   *)
(* one water the slower writes last (write_conditions_cache).                                            *)
ReadingsServed ==
    [][\A w \in Water : Serves(w)]_sourceVars

OpensInTime == breaker.state = "closed" /\ breaker'.state = "open" => streak' >= FailMax

ClosesInTime ==
    breaker.state = "open" => IF breaker'.state = "open" THEN breaker'.openedAt = breaker.openedAt
                              ELSE clock >= breaker.openedAt + ResetTimeout

(* The breaker rests a failing source, however its calls overlap: it opens after FailMax failures in a   *)
(* row and not before, and no result that arrives late closes it before its timeout is over or keeps it  *)
(* open for longer (call_coroutine: the state now, not at the start).                                    *)
BreakerSound == [][OpensInTime /\ ClosesInTime]_sourceVars
=============================================================================
