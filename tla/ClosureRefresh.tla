---------------------------- MODULE ClosureRefresh ----------------------------
(***************************************************************************)
(* The two-hourly job that mirrors WDFW's emergency rules into a table     *)
(* (scheduler.py job_wdfw_emergency, wdfw_emergency.py                     *)
(* fetch_wdfw_emergency) and the pipeline that reads it.  The rules at     *)
(* WDFW change while the job reads them page by page; any page may fail.   *)
(***************************************************************************)
EXTENDS EmergencyRules

CONSTANTS
    Rules,      \* the rules WDFW may publish, as their pages have them
    Waters,     \* water_bodies: names and county
    Longest,    \* the names, longest first
    LastDay,    \* bound
    MaxChanges  \* bound: changes of what WDFW publishes

\* a rule is told by its id, its place in the listing
ASSUME ClosureAssumption ==
    /\ LastDay \in Nat /\ MaxChanges \in Nat
    /\ \A a, b \in Rules : a.id = b.id => a = b

Day == 0..LastDay

VARIABLES
    published,  \* the rules WDFW lists
    changes,
    job,        \* the run of the job
    table,      \* emergency_closures
    listing     \* the rules listed to the run that wrote the table, and those it read whole

closureVars == <<published, changes, job, table, listing>>

NoJob == [pc |-> "idle", listed |-> {}, todo |-> {}, got |-> {}]
NoListing == [rules |-> {}, whole |-> {}]

\* a row as the job writes it from the page, and from the title alone when the page fails
Whole(r) ==
    [id |-> r.id, title |-> r.title, location |-> r.location, details |-> r.details,
     action |-> r.action, closes |-> r.action = "closes" \/ (r.action = "none" /\ r.titleCloses),
     saysClosed |-> r.action = "closes" \/ (r.action = "none" /\ r.titleCloses),
     eff |-> r.eff, exp |-> r.exp, fk |-> {}]
TitleOnly(r) ==
    [Whole(r) EXCEPT !.location = Nowhere, !.details = <<>>, !.action = "none",
                     !.closes = r.titleCloses, !.saysClosed = r.titleCloses,
                     !.eff = r.month, !.exp = {}]

ClosureInit ==
    /\ published \in {p \in SUBSET Rules : Cardinality(p) \in {0, 1, Cardinality(Rules)}}
    /\ changes = 0
    /\ job = NoJob /\ table = {} /\ listing = NoListing

-----------------------------------------------------------------------------

\* WDFW posts a rule or takes one down
Publish(r) ==
    /\ changes < MaxChanges
    /\ changes' = changes + 1
    /\ published' = IF r \in published THEN published \ {r} ELSE published \cup {r}
    /\ UNCHANGED <<job, table, listing>>

\* the listing page is read
List ==
    /\ job.pc = "idle"
    /\ job' = [pc |-> "pages", listed |-> published, todo |-> published, got |-> {}]
    /\ UNCHANGED <<published, changes, table, listing>>

\* the pages are read in the order of the list
NextPage(r) == job.pc = "pages" /\ r \in job.todo /\ \A o \in job.todo : r.id <= o.id

\* faulty variant: a page that fails drops its rule
ReadPageOrDrop(r) ==
    /\ NextPage(r)
    /\ \E row \in {{Whole(r)}, {}} :
          job' = [job EXCEPT !.todo = @ \ {r}, !.got = @ \cup row]
    /\ UNCHANGED <<published, changes, table, listing>>

\* a rule's page is read, or fails: then its title stands in
ReadPage(r) ==
    /\ NextPage(r)
    /\ \E row \in {Whole(r), TitleOnly(r)} :
          job' = [job EXCEPT !.todo = @ \ {r}, !.got = @ \cup {row}]
    /\ UNCHANGED <<published, changes, table, listing>>

\* the site is down or has changed its structure, or the process dies: the rows stay
Abandon ==
    /\ job.pc # "idle"
    /\ job' = NoJob
    /\ UNCHANGED <<published, changes, table, listing>>

\* faulty variant: an empty listing is stored
MayStoreEmpty == job.pc = "pages" /\ job.todo = {}

\* an empty listing is taken for a failure
MayStore == job.pc = "pages" /\ job.todo = {} /\ job.got # {}

Linked == {[row EXCEPT !.fk = Resolve(row, Waters, Longest)] : row \in job.got}

\* DELETE and INSERT in one transaction
StoreRules ==
    /\ MayStore
    /\ table' = Supersede(Linked)
    /\ listing' = [rules |-> job.listed,
                   whole |-> {r \in job.listed : Whole(r) \in job.got}]
    /\ job' = NoJob
    /\ UNCHANGED <<published, changes>>

\* an empty listing ends the run
StoreNothing ==
    /\ job.pc = "pages" /\ job.todo = {} /\ job.got = {}
    /\ job' = NoJob
    /\ UNCHANGED <<published, changes, table, listing>>

ClosureNext ==
    \/ \E r \in Rules : Publish(r) \/ ReadPage(r)
    \/ List \/ Abandon \/ StoreRules \/ StoreNothing

ClosureSpec == ClosureInit /\ [][ClosureNext]_closureVars

-----------------------------------------------------------------------------
(* Properties *)

\* the table changes only when a run of the job ends, and is judged then
AtRest == job.pc = "idle"

Filtered(w, day) == HasActiveClosure(table, w, day)

\* closures that were known do not vanish because WDFW's site is down, changed or empty
NeverDark == [][table # {} => table' # {}]_closureVars

\* every listed rule has one row, whichever of the pages failed
NoRuleDropped ==
    /\ {row.id : row \in table} = {r.id : r \in listing.rules}
    /\ \A a, b \in table : a.id = b.id => a = b

\* a page says the name of the water, and says no other county for it
Mentions(r, w) ==
    /\ r.title.county \cup r.location.county \subseteq w.county \/ w.county = {}
    /\ \E n \in w.names : ~n.bracketed /\
          (\/ n.phrase \in r.title.names \cup r.location.names
           \/ \E k \in DOMAIN r.details :
                \/ n.phrase \in r.details[k].head.names
                \/ \E j \in DOMAIN r.details[k].items : n.phrase \in r.details[k].items[j].names)

Reopens(r, w) == \E o \in listing.rules : o.action = "reopens" /\ NamesWater(o, w) /\ LaterThan(o.eff, r.eff)
Around(r) == {w \in Waters : NamesWater(r, w)}

\* a closure that was read whole keeps its waters out on each of its days, wherever on the page it names
\* them and whatever else failed, unless a later rule opens a water that it names
ClosureHolds ==
    AtRest => \A r \in listing.whole : \A w \in Around(r), day \in Day :
        r.action = "closes" /\ InEffect(r, day) /\ (\A v \in Around(r) : ~Reopens(r, v)) => Filtered(w, day)

\* a water is kept out only by a rule that says it closes that water, not by its name in another county
NoPhantomClosure ==
    AtRest => \A w \in Waters, day \in Day : Filtered(w, day) =>
        \E r \in listing.rules : (r.action = "closes" \/ r.titleCloses) /\ Mentions(r, w)

\* what the rules say of a water on a trip is told: the water is kept out, or the rule is told, or a
\* newer one restates it, or a later one lifts it
NothingUnsaid ==
    AtRest => \A w \in Waters, start, end \in Day :
        LET told == AdvisoryRules(table, w, start, end)
        IN  start <= end => \A row \in table :
                RuleApplies(row, w) /\ Overlaps(row, start, end) /\ (row.action # "none" \/ row.details # <<>>) =>
                    \/ Filtered(w, start)
                    \/ \E k \in DOMAIN told : \/ told[k] = row
                                              \/ Headings(row) # {} /\ Headings(row) \subseteq Headings(told[k])
                    \/ row.saysClosed /\ Superseded(row, table)

(* What the angler is told of a water is what WDFW says of it, neither more nor less: a closure keeps    *)
(* its waters out on each of its days and no other waters, and a rule that the trip meets is told unless *)
(* a newer one restates it or a later one lifts it (wdfw_emergency.py:494, wdfw_advisories.py:194); and   *)
(* a page is read with each bullet under its own heading and each range of days as one range.            *)
RulesReachAngler == ClosureHolds /\ NoPhantomClosure /\ NothingUnsaid /\ DatesAgree /\ BulletsFiled

(* A closure keeps its waters out until a rule that opens them is itself in effect                       *)
(* (context_builder.py:1593).                                                                            *)
ClosedUntilReopened ==
    AtRest => \A r \in listing.whole : \A w \in Around(r), day \in Day :
        /\ r.action = "closes" /\ InEffect(r, day)
        /\ \A o \in listing.rules : o.action = "reopens" /\ NamesWater(o, w) => ~InEffect(o, day)
        => Filtered(w, day)
=============================================================================
