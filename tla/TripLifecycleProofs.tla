------------------------ MODULE TripLifecycleProofs ------------------------
(***************************************************************************)
(* The trip for any number of requests and notes, with failures anywhere.  *)
(* What a request carries from its reading to its commit is still true     *)
(* when it commits: its target state stays justified because the clock,    *)
(* the cancellation and the debrief only ever go forward while the trip    *)
(* exists.  That a trip is debriefed once needs in addition that debriefs  *)
(* are not sent again while one is being summarised (RetryDebrief).        *)
(***************************************************************************)
EXTENDS TripLifecycle, TLAPS

\* What a request is about to store is justified already (refresh_state).
TargetsJustified ==
    trip.exists => \A s \in Session : Justified(session[s].target)

IInv == TypeOK /\ LinksResolve /\ StateNeverAhead /\ TargetsJustified

LEMMA StatesOfClock ==
    ASSUME NEW c \in 0..LastPhase
    PROVE  StateAt[c] \in State
    BY TripAssumption DEF StateAt, State

\* evaluate_state returns one of the five states, and one that is justified.
LEMMA EvaluateSound ==
    ASSUME TypeOK
    PROVE  Evaluate(trip) \in State /\ Justified(Evaluate(trip))
    BY TripAssumption DEF TypeOK, TripRow, Evaluate, StateAt, State, Justified

LEMMA FreeSession ==
    ASSUME TypeOK
    PROVE  Free \in SessionState /\ Justified(Free.target)
    BY TripAssumption DEF TypeOK, Free, SessionState, State, Justified, StateAt

LEMMA InitInv == Init => IInv
<1> SUFFICES ASSUME Init PROVE IInv
    OBVIOUS
<1>1. TypeOK
  <2>1. trip \in TripRow
      BY StatesOfClock DEF Init, TripRow
  <2>2. note \in [Note -> NoteRow]
      BY DEF Init, NoteRow, NoNote
  <2>3. session \in [Session -> SessionState]
      BY DEF Init, Free, SessionState, State
  <2>4. QED
      BY <2>1, <2>2, <2>3 DEF Init, TypeOK
<1>2. Justified(trip.state)
    BY <1>1 DEF Init, TypeOK, Justified
<1>3. TargetsJustified
    BY <1>1, FreeSession DEF Init, TargetsJustified
<1>4. LinksResolve
    BY DEF Init, LinksResolve, NoNote
<1>5. QED
    BY <1>1, <1>2, <1>3, <1>4 DEF IInv, StateNeverAhead

\* What was justified stays so while the trip exists: none of the three causes is
\* taken back.
LEMMA JustifiedStays ==
    ASSUME TypeOK, NEW st, Justified(st),
           clock' \in Int, clock' >= clock, cancelled => cancelled',
           trip.debrief # None => trip'.debrief # None
    PROVE  Justified(st)'
    BY DEF TypeOK, Justified

\* A request that reads the trip takes a justified target along.
LEMMA ReadKeepsInv ==
    ASSUME IInv, NEW s \in Session, NEW debrief \in BOOLEAN,
           NEW pc \in {"refresh", "cancel", "check", "delete"},
           Read(s, pc, debrief), UNCHANGED <<clock, trip, note, cancelled>>
    PROVE  IInv'
<1>1. TypeOK'
    BY EvaluateSound, FreeSession DEF IInv, TypeOK, Read, SessionState, TripRow
<1>2. TargetsJustified'
  <2>1. session' = [session EXCEPT ![s] = [Free EXCEPT
            !.pc = pc, !.debrief = debrief, !.state = trip.state, !.target = Evaluate(trip)]]
      BY DEF Read
  <2>2. session'[s].target = Evaluate(trip)
      BY <2>1 DEF IInv, TypeOK, Free
  <2>3. \A q \in Session : Justified(session'[q].target) \/ ~trip.exists
      BY <2>1, <2>2, EvaluateSound DEF IInv, TypeOK, TargetsJustified
  <2>4. QED
      BY <2>3 DEF TargetsJustified, Justified
<1>3. LinksResolve' /\ StateNeverAhead'
    BY DEF IInv, LinksResolve, StateNeverAhead, Justified
<1>4. QED
    BY <1>1, <1>2, <1>3 DEF IInv

\* The end of a request never disturbs what the other requests carry.
LEMMA EndTargets ==
    ASSUME TypeOK, TypeOK', NEW s \in Session, End(s), TargetsJustified,
           trip'.exists => trip.exists,
           clock' >= clock, cancelled => cancelled',
           trip'.exists /\ trip.debrief # None => trip'.debrief # None
    PROVE  TargetsJustified'
<1> SUFFICES ASSUME trip'.exists, NEW q \in Session PROVE Justified(session[q].target)'
    BY DEF TargetsJustified
<1>1. Justified(session[q].target) \/ session'[q] = Free
    BY DEF TypeOK, End, TargetsJustified
<1>2. clock' \in Int
    BY TripAssumption DEF TypeOK
<1>3. CASE session'[q] = Free
    BY <1>3, <1>2, TripAssumption DEF Justified, Free, TypeOK, StateAt
<1>4. CASE session'[q] # Free
  <2>1. session'[q] = session[q] /\ Justified(session[q].target)
      BY <1>1, <1>4 DEF End, TypeOK
  <2>2. QED
      BY <2>1, <1>2, JustifiedStays
<1>5. QED
    BY <1>3, <1>4

LEMMA StepInv == IInv /\ [Next]_vars => IInv'
<1> SUFFICES ASSUME IInv, [Next]_vars PROVE IInv'
    OBVIOUS
<1> USE DEF IInv
<1>1. ASSUME UNCHANGED vars PROVE IInv'
    BY <1>1 DEF vars, TypeOK, LinksResolve, StateNeverAhead, TargetsJustified, Justified
<1>2. ASSUME Tick PROVE IInv'
  <2>1. TypeOK' /\ LinksResolve'
      BY <1>2, TripAssumption DEF Tick, TypeOK, LinksResolve
  <2>2. \A st : Justified(st) => Justified(st)'
      BY <1>2, TripAssumption, JustifiedStays DEF Tick, TypeOK
  <2>3. StateNeverAhead' /\ TargetsJustified'
      BY <1>2, <2>2 DEF Tick, StateNeverAhead, TargetsJustified
  <2>4. QED
      BY <2>1, <2>3
<1>3. ASSUME NEW s \in Session, Visit(s) PROVE IInv'
    BY <1>3, ReadKeepsInv DEF Visit
<1>4. ASSUME NEW s \in Session, RefreshCommit(s) PROVE IInv'
  <2>1. \A q \in Session : session'[q].target \in {session[q].target, Free.target}
      BY <1>4 DEF RefreshCommit, TypeOK, SessionState
  <2>2. TypeOK'
      BY <1>4, FreeSession DEF RefreshCommit, TypeOK, TripRow, SessionState
  <2>3. \A st : Justified(st) <=> Justified(st)'
      BY <1>4 DEF RefreshCommit, Justified, TypeOK, TripRow
  <2>4. StateNeverAhead'
      BY <1>4, <2>3 DEF RefreshCommit, StateNeverAhead, TargetsJustified, TypeOK, TripRow
  <2>5. TargetsJustified'
      BY <1>4, <2>1, <2>3, FreeSession DEF RefreshCommit, TargetsJustified, TypeOK, TripRow
  <2>6. LinksResolve'
      BY <1>4 DEF RefreshCommit, LinksResolve, TypeOK, TripRow
  <2>7. QED
      BY <2>2, <2>4, <2>5, <2>6
<1>5. ASSUME NEW s \in Session, Cancel(s) PROVE IInv'
    BY <1>5, ReadKeepsInv DEF Cancel
<1>6. ASSUME NEW s \in Session, CancelCommit(s) PROVE IInv'
  <2>1. TypeOK'
      BY <1>6, FreeSession DEF CancelCommit, End, TypeOK, TripRow, State
  <2>2. TargetsJustified'
      BY <1>6, <2>1, EndTargets DEF CancelCommit, TypeOK, TripRow
  <2>3. trip'.state \in {trip.state, "POST_TRIP"} /\ cancelled' /\ trip'.debrief = trip.debrief
      BY <1>6 DEF CancelCommit, TypeOK, TripRow
  <2>4. StateNeverAhead'
      BY <1>6, <2>3 DEF CancelCommit, StateNeverAhead, Justified
  <2>5. LinksResolve'
      BY <1>6 DEF CancelCommit, LinksResolve, TypeOK, TripRow
  <2>6. QED
      BY <2>1, <2>2, <2>4, <2>5
<1>7. ASSUME NEW s \in Session, Debrief(s) PROVE IInv'
    BY <1>7, ReadKeepsInv DEF Debrief
<1>8. ASSUME NEW s \in Session, DebriefCheck(s) PROVE IInv'
  <2>1. \A q \in Session : session'[q].target \in {session[q].target, Free.target}
      BY <1>8 DEF DebriefCheck, End, TypeOK, SessionState
  <2>2. TypeOK'
      BY <1>8, FreeSession DEF DebriefCheck, End, TypeOK, SessionState
  <2>3. TargetsJustified' /\ StateNeverAhead' /\ LinksResolve'
      BY <1>8, <2>1, FreeSession
      DEF DebriefCheck, TargetsJustified, StateNeverAhead, LinksResolve, Justified
  <2>4. QED
      BY <2>2, <2>3
<1>9. ASSUME NEW s \in Session, Delete(s) PROVE IInv'
    BY <1>9, ReadKeepsInv DEF Delete
<1>10. ASSUME NEW s \in Session, DeleteCommit(s) PROVE IInv'
  <2>1. TypeOK'
      BY <1>10, FreeSession DEF DeleteCommit, End, TypeOK, TripRow, NoteRow
  <2>2. ~trip'.exists /\ trip'.debrief = None /\ \A n \in Note : ~note'[n].linked
      BY <1>10 DEF DeleteCommit, TypeOK, TripRow, NoteRow
  <2>3. QED
      BY <2>1, <2>2 DEF LinksResolve, StateNeverAhead, TargetsJustified
<1>11. ASSUME NEW s \in Session, Fail(s) PROVE IInv'
  <2>1. TypeOK'
      BY <1>11, FreeSession DEF Fail, End, TypeOK
  <2>2. TargetsJustified'
      BY <1>11, <2>1, EndTargets DEF Fail, TypeOK
  <2>3. LinksResolve' /\ StateNeverAhead'
      BY <1>11 DEF Fail, LinksResolve, StateNeverAhead, Justified
  <2>4. QED
      BY <2>1, <2>2, <2>3
<1>12. ASSUME NEW s \in Session, NEW n \in Note, DebriefSave(s, n) PROVE IInv'
  <2>1. TypeOK'
      BY <1>12, FreeSession DEF DebriefSave, Written, End, TypeOK, TripRow, NoteRow
  <2>2. TargetsJustified'
      BY <1>12, <2>1, EndTargets, TripAssumption DEF DebriefSave, Written, TypeOK, TripRow
  <2>3. StateNeverAhead'
      BY <1>12, TripAssumption
      DEF DebriefSave, Written, StateNeverAhead, Justified, TypeOK, TripRow
  <2>4. LinksResolve'
      BY <1>12 DEF DebriefSave, Written, LinksResolve, TypeOK, TripRow, NoteRow
  <2>5. QED
      BY <2>1, <2>2, <2>3, <2>4
<1>13. ASSUME NEW n \in Note, SaveNote(n) PROVE IInv'
  <2>1. TypeOK'
      BY <1>13 DEF SaveNote, Written, TypeOK, NoteRow
  <2>2. StateNeverAhead' /\ TargetsJustified'
      BY <1>13 DEF SaveNote, StateNeverAhead, TargetsJustified, Justified
  <2>3. LinksResolve'
      BY <1>13 DEF SaveNote, Written, LinksResolve, TypeOK, TripRow, NoteRow
  <2>4. QED
      BY <2>1, <2>2, <2>3
<1>14. QED
    BY <1>1, <1>2, <1>3, <1>4, <1>5, <1>6, <1>7, <1>8, <1>9, <1>10, <1>11, <1>12, <1>13
    DEF Next

LEMMA Invariance == Spec => []IInv
    BY InitInv, StepInv, PTL DEF Spec

\* The rows and the requests keep their types (trips/service.py, trips/router.py).
THEOREM TypeCorrect == Spec => []TypeOK
    BY Invariance, PTL DEF IInv

\* No race of a deletion with what is being saved leaves a note or a trip that points to
\* something gone (delete_trip_endpoint, save_debrief_endpoint).
THEOREM NoDanglingLink == Spec => []LinksResolve
    BY Invariance, PTL DEF IInv

\* No stale page stores a state that nothing has brought about (refresh_state).
THEOREM StateHasCause == Spec => []StateNeverAhead
    BY Invariance, PTL DEF IInv

-----------------------------------------------------------------------------
\* What keeps a debrief from being replaced: one request at a time writes one, and
\* when it has passed its check there is none yet (save_debrief_endpoint).
OneDebriefing ==
    /\ \A s, q \in Session : session[s].debrief /\ session[q].debrief => s = q
    /\ \A s \in Session :
          /\ session[s].pc = "summarise" =>
                session[s].debrief /\ session[s].target = "POST_TRIP"
          /\ session[s].pc = "check" => session[s].debrief
          /\ trip.exists /\ session[s].debrief /\ session[s].target # "DEBRIEFED"
                => trip.debrief = None

\* A request that reads the trip and is no debrief leaves the debriefs as they are.
LEMMA ReadKeepsDebriefs ==
    ASSUME IInv, OneDebriefing, NEW s \in Session, NEW pc \in {"refresh", "cancel", "delete"},
           session[s].pc = "idle", Read(s, pc, FALSE), UNCHANGED trip
    PROVE  OneDebriefing'
<1>1. \A q \in Session \ {s} : session'[q] = session[q]
    BY DEF IInv, TypeOK, Read
<1>2. session'[s].pc = pc /\ ~session'[s].debrief
    BY DEF IInv, TypeOK, Read, Free
<1>3. QED
    BY <1>1, <1>2 DEF OneDebriefing

\* So does a request that ends, unless it has just stored one.
LEMMA EndKeepsDebriefs ==
    ASSUME IInv, OneDebriefing, NEW s \in Session, End(s),
           trip'.exists => trip.exists, trip'.exists => trip'.debrief = trip.debrief
    PROVE  OneDebriefing'
<1>1. \A q \in Session \ {s} : session'[q] = session[q]
    BY DEF IInv, TypeOK, End
<1>2. session'[s].pc = "idle" /\ ~session'[s].debrief
    BY DEF IInv, TypeOK, End, Free
<1>3. QED
    BY <1>1, <1>2 DEF OneDebriefing

LEMMA DebriefStep ==
    ASSUME RetryDebrief = FALSE, IInv, OneDebriefing, [Next]_vars
    PROVE  OneDebriefing'
<1>1. ASSUME UNCHANGED <<trip, session>> PROVE OneDebriefing'
    BY <1>1 DEF OneDebriefing
<1>2. ASSUME NEW s \in Session, RefreshCommit(s) PROVE OneDebriefing'
  <2>1. \A q \in Session \ {s} : session'[q] = session[q]
      BY <1>2 DEF IInv, TypeOK, RefreshCommit
  <2>2. \/ session'[s].pc = "idle" /\ ~session'[s].debrief
        \/ /\ session'[s].pc = "check" /\ session'[s].debrief /\ session[s].debrief
           /\ session'[s].target = session[s].target
      BY <1>2 DEF IInv, TypeOK, RefreshCommit, Free, SessionState
  <2>3. trip'.debrief = trip.debrief /\ trip'.exists = trip.exists
      BY <1>2 DEF IInv, TypeOK, RefreshCommit, TripRow
  <2>4. QED
      BY <2>1, <2>2, <2>3 DEF OneDebriefing
<1>3. ASSUME NEW s \in Session, Debrief(s) PROVE OneDebriefing'
  <2>1. \A q \in Session : ~session[q].debrief
      BY <1>3 DEF Debrief
  <2>2. \A q \in Session \ {s} : session'[q] = session[q]
      BY <1>3 DEF IInv, TypeOK, Debrief, Read
  <2>3. /\ session'[s].pc \in {"refresh", "check"} /\ session'[s].debrief
        /\ session'[s].target = Evaluate(trip)
      BY <1>3 DEF IInv, TypeOK, Debrief, Read, Free
  <2>4. Evaluate(trip) # "DEBRIEFED" => trip.debrief = None
      BY DEF Evaluate
  <2>5. QED
      BY <1>3, <2>1, <2>2, <2>3, <2>4 DEF Debrief, OneDebriefing
<1>4. ASSUME NEW s \in Session, DebriefCheck(s) PROVE OneDebriefing'
  <2>1. CASE End(s)
      BY <1>4, <2>1, EndKeepsDebriefs DEF DebriefCheck
  <2>2. CASE session[s].target = "POST_TRIP" /\ session' = [session EXCEPT ![s].pc = "summarise"]
    <3>1. \A q \in Session : /\ session'[q].debrief = session[q].debrief
                             /\ session'[q].target = session[q].target
                             /\ q # s => session'[q].pc = session[q].pc
        BY <2>2 DEF IInv, TypeOK, SessionState
    <3>2. QED
        BY <1>4, <2>2, <3>1 DEF DebriefCheck, OneDebriefing
  <2>3. QED
      BY <1>4, <2>1, <2>2 DEF DebriefCheck
<1>5. ASSUME NEW s \in Session, NEW n \in Note, DebriefSave(s, n) PROVE OneDebriefing'
  <2>1. \A q \in Session \ {s} : session'[q] = session[q] /\ ~session[q].debrief
      BY <1>5 DEF IInv, TypeOK, DebriefSave, End, OneDebriefing
  <2>2. session'[s].pc = "idle" /\ ~session'[s].debrief
      BY <1>5 DEF IInv, TypeOK, DebriefSave, End, Free
  <2>3. QED
      BY <2>1, <2>2 DEF OneDebriefing
<1>6. ASSUME NEW s \in Session, CancelCommit(s) \/ DeleteCommit(s) \/ Fail(s)
      PROVE  OneDebriefing'
    BY <1>6, EndKeepsDebriefs
    DEF CancelCommit, DeleteCommit, Fail, IInv, TypeOK, TripRow
<1>7. ASSUME NEW s \in Session, Visit(s) \/ Cancel(s) \/ Delete(s) PROVE OneDebriefing'
    BY <1>7, ReadKeepsDebriefs DEF Visit, Cancel, Delete
<1>8. QED
    BY <1>1, <1>2, <1>3, <1>4, <1>5, <1>6, <1>7 DEF Next, vars, Tick, SaveNote

\* A trip is debriefed once, as long as no second debrief is sent while the first is
\* being summarised (save_debrief_endpoint).
THEOREM DebriefedOnce == ASSUME RetryDebrief = FALSE PROVE Spec => DebriefOnce
<1>1. Init => OneDebriefing
    BY DEF Init, OneDebriefing, Free
<1>2. ASSUME IInv, OneDebriefing, [Next]_vars
      PROVE  [trip'.exists /\ trip'.debrief # trip.debrief => trip.debrief = None]_vars
  <2>1. ASSUME NEW s \in Session, NEW n \in Note, DebriefSave(s, n) PROVE trip.debrief = None
      BY <1>2, <2>1 DEF DebriefSave, Written, OneDebriefing
  <2>2. ASSUME NEW s \in Session, RefreshCommit(s) \/ CancelCommit(s) PROVE trip'.debrief = trip.debrief
      BY <1>2, <2>2 DEF RefreshCommit, CancelCommit, IInv, TypeOK, TripRow
  <2>3. ASSUME NEW s \in Session, DeleteCommit(s) PROVE ~trip'.exists
      BY <1>2, <2>3 DEF DeleteCommit, IInv, TypeOK, TripRow
  <2>4. QED
      BY <1>2, <2>1, <2>2, <2>3
      DEF Next, vars, Tick, Visit, Cancel, Debrief, DebriefCheck, Delete, Fail, SaveNote
<1>3. QED
    BY <1>1, <1>2, DebriefStep, InitInv, StepInv, PTL DEF Spec, DebriefOnce
=============================================================================
