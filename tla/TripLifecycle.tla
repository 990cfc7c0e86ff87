--------------------------- MODULE TripLifecycle ---------------------------
(***************************************************************************)
(* A trip from its plan to its debrief (backend/trips): the state that the *)
(* clock and the user move, the debrief that ends it, its deletion, and    *)
(* the notes that link to it.                                              *)
(*                                                                         *)
(* A session is one request in progress.  It reads the trip once, works on *)
(* what it has read across its awaits (one of them a summary written by a  *)
(* language model) and commits the columns that it changed.                *)
(***************************************************************************)
EXTENDS Integers, FiniteSets

CONSTANTS
    Session,        \* requests that may be in progress together
    Note,           \* the notes that are ever written
    None,
    LastPhase,      \* how far the clock gets: 3, or 1 for a trip without a return time
    RetryDebrief,   \* a debrief may be sent again while the first is being summarised
    Losses          \* a request may fail or die with its worker

ASSUME TripAssumption ==
    /\ None \notin Note
    /\ LastPhase \in 0..3
    /\ RetryDebrief \in BOOLEAN /\ Losses \in BOOLEAN

StateAt == [c \in 0..3 |-> CASE c = 0 -> "PLANNED" [] c = 1 -> "IMMINENT"
                             [] c = 2 -> "IN_WINDOW" [] OTHER -> "POST_TRIP"]
State == {"PLANNED", "IMMINENT", "IN_WINDOW", "POST_TRIP", "DEBRIEFED"}

TripRow == [exists : BOOLEAN, state : State, debrief : Note \cup {None}]

NoteRow == [kind : {"none", "typed", "debrief"}, linked : BOOLEAN]
NoNote == [kind |-> "none", linked |-> FALSE]

\* state: as it was read; target: what evaluate_state made of the row that was read
SessionState == [pc : {"idle", "refresh", "cancel", "check", "summarise", "delete"},
                 debrief : BOOLEAN, state : State, target : State]
Free == [pc |-> "idle", debrief |-> FALSE, state |-> "PLANNED", target |-> "PLANNED"]

VARIABLES
    clock,      \* 0: departure is more than a day away ... 3: the return time has passed
    trip,       \* the trips row
    note,       \* of the notes rows, their kind and whether trip_id names the trip
    session,    \* the requests in progress
    cancelled   \* a cancellation was answered

vars == <<clock, trip, note, session, cancelled>>

TypeOK ==
    /\ clock \in 0..LastPhase
    /\ trip \in TripRow
    /\ note \in [Note -> NoteRow]
    /\ session \in [Session -> SessionState]
    /\ cancelled \in BOOLEAN

Init ==
    /\ clock \in 0..LastPhase
    /\ trip = [exists |-> TRUE, state |-> StateAt[clock], debrief |-> None]
    /\ note = [n \in Note |-> NoNote]
    /\ session = [s \in Session |-> Free]
    /\ cancelled = FALSE

-----------------------------------------------------------------------------
(* The state of the trip *)

\* faulty variant: the next state is taken from the stored one, not from the clock
EvaluateFromState(row) ==
    IF row.debrief # None THEN "DEBRIEFED"
    ELSE CASE row.state = "PLANNED" -> "IMMINENT" [] row.state = "IMMINENT" -> "IN_WINDOW"
           [] OTHER -> "POST_TRIP"

\* evaluate_state: from the debrief and the clock alone
Evaluate(row) == IF row.debrief # None THEN "DEBRIEFED" ELSE StateAt[clock]

\* a request that has read the trip; debrief: it is a debrief, else any page of the trip
Read(s, pc, debrief) ==
    session' = [session EXCEPT ![s] = [Free EXCEPT
        !.pc = pc, !.debrief = debrief, !.state = trip.state, !.target = Evaluate(trip)]]

End(s) == session' = [session EXCEPT ![s] = Free]

\* GET of the list or the trip, or a chat turn, when the stored state is out of date
Visit(s) ==
    /\ session[s].pc = "idle" /\ trip.exists
    /\ Evaluate(trip) # trip.state
    /\ Read(s, "refresh", FALSE)
    /\ UNCHANGED <<clock, trip, note, cancelled>>

\* refresh_state commits what it computed when the row was read
RefreshCommit(s) ==
    /\ session[s].pc = "refresh" /\ trip.exists
    /\ trip' = [trip EXCEPT !.state = session[s].target]
    /\ session' = IF session[s].debrief THEN [session EXCEPT ![s].pc = "check"]
                  ELSE [session EXCEPT ![s] = Free]
    /\ UNCHANGED <<clock, note, cancelled>>

Cancel(s) ==
    /\ session[s].pc = "idle" /\ trip.exists
    /\ Read(s, "cancel", FALSE)
    /\ UNCHANGED <<clock, trip, note, cancelled>>

\* set_trip_state: no UPDATE when the state that was read is POST_TRIP already
CancelCommit(s) ==
    /\ session[s].pc = "cancel" /\ trip.exists
    /\ trip' = [trip EXCEPT !.state = IF session[s].state = "POST_TRIP" THEN @ ELSE "POST_TRIP"]
    /\ cancelled' = TRUE
    /\ End(s)
    /\ UNCHANGED <<clock, note>>

Tick ==
    /\ clock < LastPhase
    /\ clock' = clock + 1
    /\ UNCHANGED <<trip, note, session, cancelled>>

-----------------------------------------------------------------------------
(* Debrief and deletion *)

\* faulty variant: the stored state is taken as it is
DebriefTrusting(s) ==
    /\ session[s].pc = "idle" /\ trip.exists
    /\ RetryDebrief \/ \A q \in Session : ~session[q].debrief
    /\ session' = [session EXCEPT ![s] = [Free EXCEPT
          !.pc = "check", !.debrief = TRUE, !.state = trip.state, !.target = trip.state]]
    /\ UNCHANGED <<clock, trip, note, cancelled>>

Debrief(s) ==
    /\ session[s].pc = "idle" /\ trip.exists
    /\ RetryDebrief \/ \A q \in Session : ~session[q].debrief
    /\ Read(s, IF Evaluate(trip) # trip.state THEN "refresh" ELSE "check", TRUE)
    /\ UNCHANGED <<clock, trip, note, cancelled>>

\* a state other than POST_TRIP, or a conversation without messages, is refused
DebriefCheck(s) ==
    /\ session[s].pc = "check"
    /\ \/ session[s].target = "POST_TRIP" /\ session' = [session EXCEPT ![s].pc = "summarise"]
       \/ End(s)
    /\ UNCHANGED <<clock, trip, note, cancelled>>

Written(n, kind) ==
    /\ note[n].kind = "none" /\ trip.exists
    /\ note' = [note EXCEPT ![n] = [kind |-> kind, linked |-> TRUE]]

\* the summary is stored, and the trip points to it
DebriefSave(s, n) ==
    /\ session[s].pc = "summarise"
    /\ Written(n, "debrief")
    /\ trip' = [trip EXCEPT !.debrief = n]
    /\ End(s)
    /\ UNCHANGED <<clock, cancelled>>

\* a SAVE_NOTE of a chat turn
SaveNote(n) ==
    /\ Written(n, "typed")
    /\ UNCHANGED <<clock, trip, session, cancelled>>

Delete(s) ==
    /\ session[s].pc = "idle" /\ trip.exists
    /\ Read(s, "delete", FALSE)
    /\ UNCHANGED <<clock, trip, note, cancelled>>

\* faulty variant: the notes keep their link
DeleteLinked(s) ==
    /\ session[s].pc = "delete" /\ trip.exists
    /\ trip' = [trip EXCEPT !.exists = FALSE, !.debrief = None]
    /\ End(s)
    /\ UNCHANGED <<clock, note, cancelled>>

\* one transaction: the notes are unlinked and kept, the trip is gone.  A note linked
\* between its statements breaks a foreign key, and the request fails as a whole.
DeleteCommit(s) ==
    /\ session[s].pc = "delete" /\ trip.exists
    /\ trip' = [trip EXCEPT !.exists = FALSE, !.debrief = None]
    /\ note' = [n \in Note |-> [note[n] EXCEPT !.linked = FALSE]]
    /\ End(s)
    /\ UNCHANGED <<clock, cancelled>>

\* an error, a refused foreign key or a worker that dies; a trip that was deleted
\* meanwhile is always an error
Fail(s) ==
    /\ session[s].pc # "idle"
    /\ Losses \/ ~trip.exists
    /\ End(s)
    /\ UNCHANGED <<clock, trip, note, cancelled>>

-----------------------------------------------------------------------------
Next ==
    \/ Tick
    \/ \E s \in Session :
          \/ Visit(s) \/ RefreshCommit(s) \/ Cancel(s) \/ CancelCommit(s)
          \/ Debrief(s) \/ DebriefCheck(s) \/ Delete(s) \/ DeleteCommit(s) \/ Fail(s)
          \/ \E n \in Note : DebriefSave(s, n)
    \/ \E n \in Note : SaveNote(n)

Spec == Init /\ [][Next]_vars
-----------------------------------------------------------------------------
\* A trip is debriefed once: a debrief is never replaced, although a page that read the
\* trip before it can still store POST_TRIP after it (save_debrief_endpoint).
DebriefOnce ==
    [][trip'.exists /\ trip'.debrief # trip.debrief => trip.debrief = None]_vars

\* a state that something has brought about: the debrief, a cancellation, or the clock,
\* now or earlier
Justified(st) ==
    \/ st = "DEBRIEFED" /\ trip.debrief # None
    \/ st = "POST_TRIP" /\ cancelled
    \/ \E c \in 0..clock : st = StateAt[c]

\* The stored state may lag behind but never runs ahead of the clock, the cancellation
\* and the debrief that justify it (refresh_state, set_trip_state).
StateNeverAhead == trip.exists => Justified(trip.state)

\* The trip's debrief is a debrief note that points back to it, and no note points to
\* a trip that was deleted, whatever was being saved then (delete_trip_endpoint).
LinksResolve ==
    /\ \A n \in Note : note[n].linked => trip.exists
    /\ trip.debrief # None => note[trip.debrief].kind = "debrief" /\ note[trip.debrief].linked

\* "Manual state override - used for trip cancellation" (set_trip_state): a trip that
\* was cancelled stays so.
CancelSticks ==
    trip.exists /\ cancelled => trip.state \in {"POST_TRIP", "DEBRIEFED"}
=============================================================================
