-------------------------- MODULE MCTripLifecycle --------------------------
(***************************************************************************)
(* A trip with two notes to be written, and as many requests at once as  *)
(* Session has members.                                                    *)
(***************************************************************************)
EXTENDS TripLifecycle, TLC

\* sessions, and notes, differ in nothing but their name
Names == Permutations(Session) \cup Permutations(Note)
=============================================================================
