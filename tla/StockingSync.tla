----------------------------- MODULE StockingSync -----------------------------
(***************************************************************************)
(* The nightly copy of WDFW's stocking records (scheduler.py               *)
(* job_wdfw_stocking, wdfw_stocking.py, normalizer.py                      *)
(* normalize_wdfw_stocking).  The feed is read in pages, in the order of   *)
(* ids that change whenever WDFW republishes it; a record is told by its   *)
(* content and by its number among the records of the same content.        *)
(***************************************************************************)
EXTENDS Integers, Sequences, SequencesExt, FiniteSets

CONSTANTS
    Content,        \* what a record says: [water, year, date], date.year may differ from year
    Feeds,          \* the states the feed may be in, as sequences of contents
    LinkedWater,    \* the waters of the feed that are water bodies here, by name or alias
    PageSize,
    Years,          \* the years of the clock
    MaxRepublished, MaxDied     \* bounds

ASSUME StockingAssumption ==
    /\ PageSize \in Nat \ {0} /\ Years \subseteq Nat /\ Years # {}
    /\ MaxRepublished \in Nat /\ MaxDied \in Nat

VARIABLES
    year,       \* the clock
    feed, republished,
    sync,       \* the run of the job
    events,     \* stocking_events: [content, k]
    last,       \* last[w]: water_bodies.last_stocked_date, {} when none is known
    mirrored,   \* the feed that the events mirror: its year and records, {} before the first
    died

stockVars == <<year, feed, republished, sync, events, last, mirrored, died>>

NoSync == [pc |-> "idle", year |-> 0, got |-> <<>>, clean |-> TRUE]

StockingInit ==
    /\ year = CHOOSE y \in Years : \A z \in Years : y <= z
    /\ feed \in Feeds /\ republished = 0
    /\ sync = NoSync
    /\ events = {} /\ last = [w \in LinkedWater |-> {}]
    /\ mirrored = {} /\ died = 0

Of(records, y) == SelectSeq(records, LAMBDA c : c.year = y)
Count(records, c) == Len(SelectSeq(records, LAMBDA d : d = c))

-----------------------------------------------------------------------------

\* WDFW adds, corrects or takes out records, or publishes the same ones under new ids
Republish(records) ==
    /\ republished < MaxRepublished
    /\ republished' = republished + 1
    /\ feed' = records
    /\ sync' = [sync EXCEPT !.clean = @ /\ sync.pc # "pages"]
    /\ UNCHANGED <<year, events, last, mirrored, died>>

NewYear ==
    /\ year + 1 \in Years
    /\ year' = year + 1
    /\ UNCHANGED <<feed, republished, sync, events, last, mirrored, died>>

\* the job takes the year from the clock when it starts
StartSync ==
    /\ sync.pc = "idle"
    /\ sync' = [NoSync EXCEPT !.pc = "pages", !.year = year]
    /\ UNCHANGED <<year, feed, republished, events, last, mirrored, died>>

\* the next page; a short page is the last one
ReadRecords ==
    LET whole == Of(feed, sync.year)
        page == SelectSeq([j \in 1..PageSize |-> Len(sync.got) + j], LAMBDA j : j <= Len(whole))
    IN  /\ sync.pc = "pages"
        /\ sync' = [sync EXCEPT !.got = @ \o [j \in DOMAIN page |-> whole[page[j]]],
                                !.pc = IF Len(page) < PageSize THEN "upsert" ELSE "pages"]
        /\ UNCHANGED <<year, feed, republished, events, last, mirrored, died>>

\* the fetch fails, or the process dies between two transactions
SyncDies ==
    /\ sync.pc # "idle" /\ died < MaxDied
    /\ died' = died + 1
    /\ sync' = NoSync
    /\ UNCHANGED <<year, feed, republished, events, last, mirrored>>

\* faulty variant: records are told by their place in the feed, as by its ids
RecordIdsByPlace(records) == {[content |-> records[j], k |-> j] : j \in DOMAIN records}

\* faulty variant: records of the same content are one
RecordIdsOnce(records) == {[content |-> records[j], k |-> 1] : j \in DOMAIN records}

\* _stocking_record_ids
RecordIds(records) ==
    {[content |-> records[j], k |-> Count(SubSeq(records, 1, j), records[j])] : j \in DOMAIN records}

\* faulty variant: what the fetch does not hold is removed, of whatever year
RemovedAnyYear(y, current) == events \ current

\* the rows dated within the year that the fetch does not hold
Removed(y, current) == {e \in events : e.content.date.year = y} \ current

\* insert what is new, remove what is gone; a fetch without records removes nothing
Upsert ==
    LET current == RecordIds(sync.got)
    IN  /\ sync.pc = "upsert"
        /\ events' = (IF sync.got = <<>> THEN events ELSE events \ Removed(sync.year, current)) \cup current
        /\ mirrored' = IF sync.clean /\ sync.got # <<>>
                       THEN {[year |-> sync.year, records |-> sync.got]} ELSE {}
        /\ sync' = [sync EXCEPT !.pc = "refresh"]
        /\ UNCHANGED <<year, feed, republished, last, died>>

After(d, e) == d.year > e.year \/ (d.year = e.year /\ d.day > e.day)
DatesOf(w) == {e.content.date : e \in {f \in events : f.content.water = w}}

\* faulty variant: only what the run brought counts
LatestFetched(w) ==
    LET dates == {sync.got[j].date : j \in {i \in DOMAIN sync.got : sync.got[i].water = w}}
    IN  IF dates = {} THEN last[w] ELSE {CHOOSE d \in dates : \A e \in dates : ~After(e, d)}

\* REFRESH_LAST_STOCKED_SQL leaves a water without events as it was
Latest(w) ==
    IF DatesOf(w) = {} THEN last[w]
    ELSE {CHOOSE d \in DatesOf(w) : \A e \in DatesOf(w) : ~After(e, d)}

RefreshLast ==
    /\ sync.pc = "refresh"
    /\ last' = [w \in LinkedWater |-> Latest(w)]
    /\ sync' = NoSync
    /\ UNCHANGED <<year, feed, republished, events, mirrored, died>>

SyncStep == StartSync \/ ReadRecords \/ Upsert \/ RefreshLast

StockingNext == SyncStep \/ SyncDies \/ NewYear \/ \E records \in Feeds : Republish(records)

StockingSpec == StockingInit /\ [][StockingNext]_stockVars /\ WF_stockVars(SyncStep)

-----------------------------------------------------------------------------
(* Properties *)

\* the run of a year leaves the events of the other years as they are, whenever midnight falls
OtherYearsKept == \A e \in events \ events' : e.content.date.year = sync.year

\* a feed that is published again under new ids and in another order changes nothing
RepublishedIsKnown ==
    \A old \in mirrored, new \in mirrored' :
        /\ old.year = new.year
        /\ \A c \in Content : Count(old.records, c) = Count(new.records, c)
        => events' = events

\* a year has each record as often as the feed, as long as its date is of that year
YearMirrorsFeed ==
    \A m \in mirrored : \A c \in Content :
        c.date.year = m.year =>
            Cardinality({e \in events : e.content = c}) = (IF c.year = m.year THEN Count(m.records, c) ELSE 0)

(* After a run that read an unchanged feed its year mirrors the feed, the runs of other years take       *)
(* nothing of it away, and a feed that WDFW only republishes is recognised (scheduler.py:549,            *)
(* normalizer.py:493).  What the waters say of their last stocking catches up with the events, although  *)
(* it is written by another transaction, which a restart may skip (scheduler.py:571).                     *)
StockingMirrored ==
    /\ [][OtherYearsKept /\ RepublishedIsKnown /\ YearMirrorsFeed']_stockVars
    /\ <>[](\A w \in LinkedWater : DatesOf(w) # {} =>
                \E d \in last[w] : d \in DatesOf(w) /\ \A e \in DatesOf(w) : ~After(e, d))
=============================================================================
