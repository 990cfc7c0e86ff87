----------------------------- MODULE Shortlist -----------------------------
(***************************************************************************)
(* What the conversation's shortlist promises, without requests, sessions  *)
(* or the pipeline's steps: spots come and go as the intake changes, and a *)
(* spot that was set aside never comes back.                               *)
(***************************************************************************)
CONSTANT Spot

VARIABLES
    list,       \* the spots on offer
    setAside    \* the spots the user turned down

Init == list = {} /\ setAside = {}

SetAside(s) ==
    /\ s \in list
    /\ list' = list \ {s}
    /\ setAside' = setAside \cup {s}

\* the filters run again, on whatever the user did not set aside
Rebuild ==
    /\ list' \in SUBSET (Spot \ setAside)
    /\ UNCHANGED setAside

Next == Rebuild \/ \E s \in Spot : SetAside(s)

Spec == Init /\ [][Next]_<<list, setAside>>
=============================================================================
