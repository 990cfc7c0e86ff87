------------------------------ MODULE MCRefresh ------------------------------
(* The components that refresh and guard the stored conditions.  They share no state, so   *)
(* each behaviour moves one of them: a step of another would change nothing for it.        *)
EXTENDS ConditionSources, SchedulerElection, ClosureRefresh, StockingSync, ReferenceJobs

VARIABLE part

CONSTANTS hoh, quil, fish, north, south, lake, river, t1, t2, t3, s1, s2

Name(p) == [phrase |-> p, bracketed |-> FALSE]
Hoh == [names |-> {Name(hoh)}, county |-> {north}]
Quil == [names |-> {Name(quil), [phrase |-> fish, bracketed |-> TRUE]}, county |-> {}]
FishN == [names |-> {Name(fish)}, county |-> {north}]
MCWaters == {Hoh, Quil, FishN}
MCLongest == <<quil, hoh, fish>>

Rule(id, title, location, details, action, titleCloses, eff, exp) ==
    [id |-> id, title |-> title, location |-> location, details |-> details, action |-> action,
     titleCloses |-> titleCloses, eff |-> eff, exp |-> exp, month |-> {0}]
In(p) == Text({p}, {})
MCRules == {
    \* two waters in a list: the title names no water and closes nothing by itself
    Rule(1, Nowhere, Nowhere, <<[head |-> Nowhere, list |-> TRUE, items |-> <<In(hoh), In(quil)>>]>>,
         "closes", FALSE, {0}, {}),
    \* one of them opens later
    Rule(2, In(hoh), Nowhere, <<>>, "reopens", FALSE, {2}, {}),
    \* a lake of that name in another county, closed by its title
    Rule(3, Text({fish}, {south}), Nowhere, <<>>, "closes", TRUE, {0}, {1}),
    \* a gear rule for a stretch, and a closure that starts later
    Rule(4, Nowhere, In(fish), <<[head |-> In(fish), list |-> FALSE, items |-> <<Nowhere>>]>>, "limits", FALSE, {}, {1}),
    Rule(5, Nowhere, In(fish), <<>>, "closes", FALSE, {1}, {2}) }

Rec(w, y, dy, d) == [water |-> w, year |-> y, date |-> [year |-> dy, day |-> d]]
A == Rec(lake, 1, 1, 1)
B == Rec(lake, 1, 1, 2)
\* released for the next year and dated in this one
N == Rec(lake, 2, 1, 3)
D == Rec(lake, 2, 2, 1)
O == Rec(river, 1, 1, 1)
MCContent == {A, B, N, D, O}
MCFeeds == {<<>>, <<A, B>>, <<B, A>>, <<A, A>>, <<A, B, A>>, <<A, D, N>>, <<N, A>>, <<O, B>>}

MCPlace == <<t1, t2, t3>>
MCStationOf == (t1 :> s1) @@ (t2 :> s2) @@ (t3 :> s1)
MCGauge == <<1, 2>>

allVars == <<part, sourceVars, electionVars, closureVars, stockVars, refVars>>

Init ==
    /\ part \in {"sources", "election", "closures", "stocking", "reference"}
    /\ SourcesInit /\ ElectionInit /\ ClosureInit /\ StockingInit /\ ReferenceInit
    /\ part # "closures" => published = {}
    /\ part # "stocking" => feed = <<>>
    /\ part # "reference" => kind = "gauges"

Stocking(step) ==
    part = "stocking" /\ step /\ UNCHANGED <<part, sourceVars, electionVars, closureVars, refVars>>

Next ==
    \/ part = "sources" /\ SourcesNext /\ UNCHANGED <<part, electionVars, closureVars, stockVars, refVars>>
    \/ part = "election" /\ ElectionNext /\ UNCHANGED <<part, sourceVars, closureVars, stockVars, refVars>>
    \/ part = "closures" /\ ClosureNext /\ UNCHANGED <<part, sourceVars, electionVars, stockVars, refVars>>
    \/ part = "reference" /\ ReferenceNext /\ UNCHANGED <<part, sourceVars, electionVars, closureVars, stockVars>>
    \/ Stocking(StockingNext)

(* A job that fails, wholly or half way, loses nothing that was known: the rules of WDFW stay while its  *)
(* site is down and each listed one keeps a row (scheduler.py:206, wdfw_emergency.py:133), normals and   *)
(* readings stay (scheduler.py:446, :662), and the waters of one station agree (scheduler.py:646).       *)
FailureLosesNothing == NeverDark /\ [][NoRuleDropped']_table /\ NothingWiped /\ SharedStationAgrees

Spec == Init /\ [][Next]_allVars /\ WF_allVars(Stocking(SyncStep))
==============================================================================
