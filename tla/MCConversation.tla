--------------------------- MODULE MCConversation ---------------------------
(***************************************************************************)
(* A conversation over two spots and one intake key with two proposals,  *)
(* one of which does not parse.  Confirming f1 drops s2 from what is       *)
(* eligible; a dated rule may close s2 on any run of the pipeline.         *)
(***************************************************************************)
EXTENDS Conversation, TLC

CONSTANTS s1, s2, f1, f2

MCSpot == {s1, s2}
MCFilter == {f1, f2}
OneFilter == {f1}
MCEligible == (NoFilter :> Spot @@ f1 :> {s1} @@ f2 :> Spot)
Seasonal == {{}, {s2}}

\* turns differ in nothing but their name
Turns == Permutations(Turn)

NoOverlap == {}
TwoTurns == {{"turn"}}
TwoExclusions == {{"exclude"}}
ExcludeWithConfirm == {{"exclude", "confirm"}}
ExcludeWithTurn == {{"exclude", "turn"}}
=============================================================================
