--------------------------- MODULE MCAuthSessions ---------------------------
(***************************************************************************)
(* Two tabs of a browser, a sign-in link, and two API calls at once.       *)
(***************************************************************************)
EXTENDS AuthSessions
=============================================================================
