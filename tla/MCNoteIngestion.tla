-------------------------- MODULE MCNoteIngestion --------------------------
(***************************************************************************)
(* Two spots on two waters, which is what tells a spot from its water and  *)
(* lets an answer move a note from one score to the other.                 *)
(***************************************************************************)
EXTENDS NoteIngestion

CONSTANTS p1, p2, w1, w2

TwoSpots == {p1, p2}
TwoWaters == {w1, w2}
OneEach == [p \in TwoSpots |-> IF p = p1 THEN w1 ELSE w2]
=============================================================================
