---------------------------- MODULE MCHereBudget ----------------------------
(***************************************************************************)
(* Two callers of reserve() at once, of different gunicorn workers, around *)
(* one rollover.  Each asks for up to two of a cap of three, so that the   *)
(* last grant is contended and may be partial.                             *)
(***************************************************************************)
EXTENDS HereBudget
=============================================================================
