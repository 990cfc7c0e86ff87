------------------------ MODULE NoteIngestionProofs ------------------------
(***************************************************************************)
(* Notes for any number of notes, spots and waters and any number of       *)
(* answers, with ingestion tasks lost anywhere.  Two writers share a row   *)
(* and each writes only the columns it changed, so the argument is about   *)
(* what a stale copy may still say: a spot that was read from the row is   *)
(* proof that the row has one, since no writer ever takes a spot away, and *)
(* once the ingestion is over the copy that an answer holds is current.    *)
(***************************************************************************)
EXTENDS NoteIngestion, TLAPS

\* Once a note has a spot it keeps one: a copy that shows a spot is not stale about that.
SpotsStay ==
    \A n \in Note :
        /\ task[n].was # None => note[n].spot # None
        /\ request[n].was # None => note[n].spot # None
        /\ request[n].pc = "confirm" => request[n].spot # None

\* An answer that came after the ingestion is the only writer of the row.
LateIsCurrent ==
    \A n \in Note :
        /\ note[n].kind = "none" => task[n].pc = "none" /\ request[n].pc = "idle"
        /\ request[n].pc = "confirm" /\ request[n].late =>
              task[n].pc = "over" /\ request[n].was = note[n].spot
        /\ answer[n].late => task[n].pc = "over"

IInv == TypeOK /\ SpotsStay /\ LateIsCurrent /\ SpotOrQuestion /\ LateAnswerHolds

LEMMA InitInv == Init => IInv
<1> SUFFICES ASSUME Init PROVE IInv
    OBVIOUS
<1>1. TypeOK
    BY NoteAssumption
    DEF Init, TypeOK, NoteRow, NoNote, Flag, TaskState, NoTask, Scoring, NoScoring,
        AnswerState, NoAnswer
<1>2. SpotsStay /\ LateIsCurrent /\ SpotOrQuestion /\ LateAnswerHolds
    BY DEF Init, SpotsStay, LateIsCurrent, SpotOrQuestion, LateAnswerHolds,
           NoNote, NoTask, NoAnswer
<1>3. QED
    BY <1>1, <1>2 DEF IInv

\* The re-score of a water body is typed, and what it stores is a score of every water.
LEMMA ScoringTyped ==
    ASSUME TypeOK, NEW rows, NEW w \in Water
    PROVE  ScoringOf(rows, w) \in Scoring
    BY DEF TypeOK, ScoringOf, Scoring, Counted

LEMMA StoredTyped ==
    ASSUME TypeOK, NEW c \in Scoring
    PROVE  Stored(c) \subseteq [Water -> SUBSET Note]
    BY DEF TypeOK, Stored, Scoring

\* What ingestion writes of a note, whatever the row has become meanwhile.
LEMMA IngestedRow ==
    ASSUME TypeOK, NEW n \in Note, NEW auto \in Spot \cup {None}
    PROVE  /\ Ingested(n, auto) \in [Note -> NoteRow]
           /\ \A m \in Note \ {n} : Ingested(n, auto)[m] = note[m]
           /\ Ingested(n, auto)[n].kind = note[n].kind
           /\ Ingested(n, auto)[n].flag = IF auto = None THEN "awaiting" ELSE "linked"
           /\ Ingested(n, auto)[n].spot =
                 IF auto \in {None, task[n].was} THEN note[n].spot ELSE auto
<1> DEFINE spot == IF auto \in {None, task[n].was} THEN note[n].spot ELSE auto
           flag == IF auto = None THEN "awaiting" ELSE "linked"
           row == [note[n] EXCEPT !.spot = spot, !.flag = flag, !.fields = TRUE]
<1>1. note[n] \in NoteRow /\ spot \in Spot \cup {None} /\ flag \in Flag
    BY DEF TypeOK, NoteRow, Flag
<1>2. /\ row \in NoteRow /\ row.kind = note[n].kind
      /\ row.spot = spot /\ row.flag = flag
  <2> HIDE DEF spot, flag
  <2>1. QED
      BY <1>1 DEF NoteRow
<1>3. Ingested(n, auto) = [note EXCEPT ![n] = row]
    BY DEF Ingested
<1>4. QED
  <2> HIDE DEF row
  <2>1. QED
      BY <1>2, <1>3 DEF TypeOK

\* A step that leaves the rows, the answers and the requests alone, and moves the task
\* of one note without bringing it to life or back from its end.
LEMMA TaskStep ==
    ASSUME IInv, TypeOK', NEW n \in Note, UNCHANGED <<note, request, answer>>,
           \A m \in Note \ {n} : task'[m] = task[m],
           task[n].pc \notin {"none", "over"},
           task'[n].was \in {None, task[n].was, note[n].spot}
    PROVE  IInv'
<1>1. SpotsStay'
    BY DEF IInv, SpotsStay
<1>2. LateIsCurrent'
    BY DEF IInv, LateIsCurrent
<1>3. QED
    BY <1>1, <1>2 DEF IInv, SpotOrQuestion, LateAnswerHolds

LEMMA LoadKeepsInv ==
    ASSUME IInv, NEW n \in Note, IngestLoad(n)
    PROVE  IInv'
<1>1. TypeOK'
    BY DEF IInv, TypeOK, IngestLoad, TaskState, NoteRow
<1>2. /\ \A m \in Note \ {n} : task'[m] = task[m]
      /\ task'[n].was = note[n].spot /\ task[n].pc = "queued"
    BY DEF IInv, TypeOK, IngestLoad, TaskState
<1>3. UNCHANGED <<note, request, answer>>
    BY DEF IngestLoad
<1>4. QED
    BY <1>1, <1>2, <1>3, TaskStep

LEMMA PlaceKeepsInv ==
    ASSUME IInv, NEW n \in Note, IngestPlace(n)
    PROVE  IInv'
<1>1. TypeOK'
  <2>1. task[n] \in TaskState /\ trip.spot \in Spot \cup {None}
      BY DEF IInv, TypeOK
  <2>2. \A spot \in Spot \cup {None} : [task[n] EXCEPT !.pc = "placed", !.auto = spot] \in TaskState
      BY <2>1 DEF TaskState
  <2>3. QED
      BY <2>1, <2>2 DEF IInv, TypeOK, IngestPlace
<1>2. /\ \A m \in Note \ {n} : task'[m] = task[m]
      /\ task'[n].was = task[n].was /\ task[n].pc = "loaded"
    BY DEF IInv, TypeOK, IngestPlace, TaskState
<1>3. UNCHANGED <<note, request, answer>>
    BY DEF IngestPlace
<1>4. QED
    BY <1>1, <1>2, <1>3, TaskStep

LEMMA FlushKeepsInv ==
    ASSUME IInv, NEW n \in Note, IngestFlush(n)
    PROVE  IInv'
<1>1. PICK auto \in Resolution(n) :
          task' = [task EXCEPT ![n] = [@ EXCEPT
              !.pc = "flushed", !.auto = auto,
              !.scoring = IF Rescores(n, auto)
                          THEN ScoringOf(Ingested(n, auto), WaterOf[auto]) ELSE task[n].scoring]]
    BY DEF IngestFlush
<1>2. auto \in Spot \cup {None}
    BY DEF Resolution, IInv, TypeOK, TaskState
<1>3. Rescores(n, auto) => ScoringOf(Ingested(n, auto), WaterOf[auto]) \in Scoring
    BY <1>2, ScoringTyped, NoteAssumption DEF Rescores, IInv
<1>4. task' \in [Note -> TaskState]
  <2> DEFINE scoring == IF Rescores(n, auto)
                        THEN ScoringOf(Ingested(n, auto), WaterOf[auto]) ELSE task[n].scoring
             row == [task[n] EXCEPT !.pc = "flushed", !.auto = auto, !.scoring = scoring]
  <2>1. task[n] \in TaskState /\ scoring \in Scoring
      BY <1>3 DEF IInv, TypeOK, TaskState
  <2>2. task' = [task EXCEPT ![n] = row]
      BY <1>1
  <2>3. row \in TaskState
    <3> HIDE DEF scoring
    <3>1. QED
        BY <1>2, <2>1 DEF TaskState
  <2>4. QED
    <3> HIDE DEF row
    <3>1. QED
        BY <2>2, <2>3 DEF IInv, TypeOK
<1>5. TypeOK'
    BY <1>4 DEF IInv, TypeOK, IngestFlush
<1>6. /\ \A m \in Note \ {n} : task'[m] = task[m]
      /\ task'[n].was = task[n].was /\ task[n].pc = "placed"
    BY <1>1 DEF IInv, TypeOK, IngestFlush, TaskState
<1>7. UNCHANGED <<note, request, answer>>
    BY DEF IngestFlush
<1>8. QED
    BY <1>5, <1>6, <1>7, TaskStep

LEMMA LostKeepsInv ==
    ASSUME IInv, NEW n \in Note, IngestLost(n)
    PROVE  IInv'
<1>1. TypeOK'
    BY DEF IInv, TypeOK, IngestLost, TaskState, NoTask, Scoring, NoScoring
<1>2. /\ \A m \in Note \ {n} : task'[m] = task[m]
      /\ task'[n].was = None /\ task[n].pc \notin {"none", "over"}
    BY DEF IInv, TypeOK, IngestLost, NoTask
<1>3. UNCHANGED <<note, request, answer>>
    BY DEF IngestLost
<1>4. QED
    BY <1>1, <1>2, <1>3, TaskStep

LEMMA CommitKeepsInv ==
    ASSUME IInv, NEW n \in Note, IngestCommit(n)
    PROVE  IInv'
<1> DEFINE auto == task[n].auto
<1>1. auto \in Spot \cup {None} /\ task[n].scoring \in Scoring /\ task[n].pc = "flushed"
    BY DEF IInv, TypeOK, TaskState, IngestCommit
<1>2. /\ note' \in [Note -> NoteRow]
      /\ \A m \in Note \ {n} : note'[m] = note[m]
      /\ note'[n].kind = note[n].kind
      /\ note'[n].flag = IF auto = None THEN "awaiting" ELSE "linked"
      /\ note'[n].spot = IF auto \in {None, task[n].was} THEN note[n].spot ELSE auto
    BY <1>1, IngestedRow DEF IInv, IngestCommit
<1>3. /\ task' \in [Note -> TaskState]
      /\ \A m \in Note \ {n} : task'[m] = task[m]
      /\ task'[n].pc = "over" /\ task'[n].was = None
    BY DEF IInv, TypeOK, IngestCommit, TaskState, NoTask, Scoring, NoScoring
<1>4. TypeOK'
    BY <1>1, <1>2, <1>3, StoredTyped DEF IInv, TypeOK, IngestCommit
<1>5. UNCHANGED <<request, answer>>
    BY DEF IngestCommit
<1>6. SpotsStay'
    BY <1>2, <1>3, <1>5, NoteAssumption DEF IInv, SpotsStay
<1>7. LateIsCurrent'
    BY <1>1, <1>2, <1>3, <1>5 DEF IInv, LateIsCurrent
<1>8. SpotOrQuestion'
  <2>1. note'[n].spot = None => note'[n].flag = "awaiting"
      BY <1>1, <1>2 DEF IInv, SpotsStay
  <2>2. QED
      BY <1>2, <2>1 DEF IInv, SpotOrQuestion
<1>9. LateAnswerHolds'
    BY <1>1, <1>2, <1>5 DEF IInv, LateAnswerHolds, LateIsCurrent
<1>10. QED
    BY <1>4, <1>6, <1>7, <1>8, <1>9 DEF IInv

LEMMA ConfirmKeepsInv ==
    ASSUME IInv, NEW n \in Note, NEW p \in Spot, Confirm(n, p)
    PROVE  IInv'
<1>1. TypeOK'
    BY NoteAssumption DEF IInv, TypeOK, Confirm, AnswerState, NoteRow, TaskState
<1>2. /\ \A m \in Note \ {n} : request'[m] = request[m]
      /\ request'[n].pc = "confirm" /\ request'[n].spot = p
      /\ request'[n].was = note[n].spot
      /\ request'[n].late => task[n].pc = "over"
    BY DEF IInv, TypeOK, Confirm
<1>3. UNCHANGED <<note, task, answer>> /\ note[n].kind # "none" /\ p # None
    BY NoteAssumption DEF Confirm
<1>4. QED
    BY <1>1, <1>2, <1>3
    DEF IInv, SpotsStay, LateIsCurrent, SpotOrQuestion, LateAnswerHolds

LEMMA AnsweredKeepsInv ==
    ASSUME IInv, NEW n \in Note, ConfirmCommit(n)
    PROVE  IInv'
<1> DEFINE r == request[n]
<1>1. /\ r.pc = "confirm" /\ r \in AnswerState /\ r.spot \in Spot /\ r.spot # None
      /\ Removed(r.flag) \in Flag
    BY NoteAssumption DEF IInv, TypeOK, ConfirmCommit, AnswerState, SpotsStay, Removed, Flag
<1>2. /\ note' \in [Note -> NoteRow]
      /\ \A m \in Note \ {n} : note'[m] = note[m]
      /\ note'[n].kind = note[n].kind
      /\ note'[n].spot = IF r.spot = r.was THEN note[n].spot ELSE r.spot
  <2> DEFINE spot == IF r.spot = r.was THEN note[n].spot ELSE r.spot
             flag == IF Removed(r.flag) = r.flag THEN note[n].flag ELSE "empty"
             row == [note[n] EXCEPT !.spot = spot, !.flag = flag]
  <2>1. note[n] \in NoteRow /\ spot \in Spot \cup {None} /\ flag \in Flag
      BY <1>1 DEF IInv, TypeOK, NoteRow, Flag
  <2>2. note' = [note EXCEPT ![n] = row]
      BY DEF ConfirmCommit
  <2>3. row \in NoteRow /\ row.kind = note[n].kind /\ row.spot = spot
    <3> HIDE DEF spot, flag
    <3>1. QED
        BY <2>1 DEF NoteRow
  <2>4. QED
    <3> HIDE DEF row
    <3>1. QED
        BY <2>2, <2>3 DEF IInv, TypeOK
<1>4. /\ \A m \in Note \ {n} : answer'[m] = answer[m]
      /\ answer'[n] = [spot |-> r.spot, late |-> r.late]
      /\ answer' \in [Note -> [spot : Spot \cup {None}, late : BOOLEAN]]
    BY <1>1 DEF IInv, TypeOK, ConfirmCommit, Answered, AnswerState
<1>5. /\ \A m \in Note \ {n} : request'[m] = request[m]
      /\ request'[n].pc # "confirm" /\ request'[n].was \in {None, r.was}
      /\ request' \in [Note -> AnswerState]
    BY <1>1 DEF IInv, TypeOK, ConfirmCommit, Answered, AnswerState, NoAnswer, Flag
<1>6. UNCHANGED <<trip, task, score, scan, answers>>
    BY DEF ConfirmCommit, Answered
<1>7. TypeOK'
    BY <1>2, <1>4, <1>5, <1>6 DEF IInv, TypeOK
<1>8. note'[n].spot # None
    BY <1>1, <1>2 DEF IInv, SpotsStay
<1>9. SpotsStay' /\ SpotOrQuestion'
    BY <1>2, <1>5, <1>6, <1>8 DEF IInv, SpotsStay, SpotOrQuestion
<1>10. LateIsCurrent'
    BY <1>1, <1>2, <1>4, <1>5, <1>6 DEF IInv, LateIsCurrent
<1>11. LateAnswerHolds'
  <2>1. r.late => note'[n].spot = r.spot
      BY <1>1, <1>2 DEF IInv, LateIsCurrent
  <2>2. QED
      BY <1>2, <1>4, <2>1 DEF IInv, LateAnswerHolds
<1>12. QED
    BY <1>7, <1>9, <1>10, <1>11 DEF IInv

\* Steps that leave notes, tasks, requests and answers alone only have types to keep.
LEMMA ElsewhereKeepsInv ==
    ASSUME IInv, UNCHANGED <<note, task, request, answer>>, TypeOK'
    PROVE  IInv'
    BY DEF IInv, SpotsStay, LateIsCurrent, SpotOrQuestion, LateAnswerHolds

LEMMA StepInv == IInv /\ [Next]_vars => IInv'
<1> SUFFICES ASSUME IInv, [Next]_vars PROVE IInv'
    OBVIOUS
<1>1. CASE UNCHANGED vars
    BY <1>1, ElsewhereKeepsInv DEF vars, IInv, TypeOK
<1>2. ASSUME NEW p \in Spot, AssignSpot(p) PROVE IInv'
    BY <1>2, ElsewhereKeepsInv DEF AssignSpot, IInv, TypeOK
<1>3. CASE DeleteTrip
    BY <1>3, ElsewhereKeepsInv DEF DeleteTrip, IInv, TypeOK
<1>4. ASSUME NEW n \in Note, Write(n) PROVE IInv'
  <2>1. TypeOK'
    <3>1. \A kind \in {"typed", "debrief"} : [note[n] EXCEPT !.kind = kind] \in NoteRow
        BY DEF IInv, TypeOK, NoteRow
    <3>2. [task[n] EXCEPT !.pc = "queued"] \in TaskState
      <4>1. task[n] \in TaskState
          BY DEF IInv, TypeOK
      <4>2. QED
          BY <4>1 DEF TaskState
    <3>3. QED
        BY <1>4, <3>1, <3>2 DEF Write, IInv, TypeOK
  <2>2. /\ note' = [note EXCEPT ![n].kind = IF n = DebriefNote THEN "debrief" ELSE "typed"]
        /\ task' = [task EXCEPT ![n].pc = "queued"]
        /\ note[n].kind = "none"
        /\ note \in [Note -> NoteRow] /\ task \in [Note -> TaskState]
        /\ (IF n = DebriefNote THEN "debrief" ELSE "typed") # "none"
      BY <1>4 DEF Write, IInv, TypeOK
  <2>3. /\ \A m \in Note : /\ note'[m].spot = note[m].spot /\ task'[m].was = task[m].was
                           /\ note'[m].flag = note[m].flag /\ note'[m].fields = note[m].fields
        /\ \A m \in Note \ {n} : note'[m].kind = note[m].kind /\ task'[m] = task[m]
        /\ note'[n].kind # "none" /\ note[n].kind = "none"
      BY <2>2 DEF NoteRow, TaskState
  <2>4. UNCHANGED <<request, answer>>
      BY <1>4 DEF Write
  <2>5. QED
      BY <2>1, <2>3, <2>4
      DEF IInv, SpotsStay, LateIsCurrent, SpotOrQuestion, LateAnswerHolds
<1>5. ASSUME NEW n \in Note, Ingest(n) \/ IngestLost(n) PROVE IInv'
    BY <1>5, LoadKeepsInv, PlaceKeepsInv, FlushKeepsInv, CommitKeepsInv, LostKeepsInv DEF Ingest
<1>6. ASSUME NEW n \in Note, NEW p \in Spot, Confirm(n, p) PROVE IInv'
    BY <1>6, ConfirmKeepsInv
<1>7. ASSUME NEW n \in Note, ConfirmCommit(n) PROVE IInv'
    BY <1>7, AnsweredKeepsInv
<1>8. ASSUME NEW n \in Note, ConfirmRescore(n) \/ ConfirmLost(n) PROVE IInv'
  <2>1. /\ request' = [request EXCEPT ![n] = NoAnswer]
        /\ UNCHANGED <<trip, note, task, score, scan, answer, answers>>
      BY <1>8 DEF ConfirmRescore, ConfirmLost
  <2>2. TypeOK'
      BY <2>1 DEF IInv, TypeOK, AnswerState, NoAnswer, Flag
  <2>3. /\ \A m \in Note \ {n} : request'[m] = request[m]
        /\ request'[n].pc = "idle" /\ request'[n].was = None
      BY <2>1 DEF IInv, TypeOK, NoAnswer
  <2>4. QED
      BY <2>1, <2>2, <2>3
      DEF IInv, SpotsStay, LateIsCurrent, SpotOrQuestion, LateAnswerHolds
<1>9. ASSUME NEW w \in Water, NightlyRead(w) PROVE IInv'
    BY <1>9, ElsewhereKeepsInv, ScoringTyped DEF NightlyRead, IInv, TypeOK
<1>10. ASSUME NEW w \in Water, NightlyWrite(w) PROVE IInv'
  <2>1. score' \in [Water -> SUBSET Note]
      BY <1>10, StoredTyped DEF NightlyWrite, IInv, TypeOK
  <2>2. TypeOK'
      BY <1>10, <2>1 DEF NightlyWrite, IInv, TypeOK, NoScoring, Scoring
  <2>3. QED
      BY <1>10, <2>2, ElsewhereKeepsInv DEF NightlyWrite
<1>11. CASE NightlyFail
    BY <1>11, ElsewhereKeepsInv DEF NightlyFail, IInv, TypeOK, NoScoring, Scoring
<1>12. QED
    BY <1>1, <1>2, <1>3, <1>4, <1>5, <1>6, <1>7, <1>8, <1>9, <1>10, <1>11 DEF Next

LEMMA Invariance == Spec => []IInv
    BY InitInv, StepInv, PTL DEF Spec

\* The rows, tasks and answers keep their types (notes/ingestion.py, notes/router.py).
THEOREM TypeCorrect == Spec => []TypeOK
    BY Invariance, PTL DEF IInv

\* No race of tasks and answers leaves an ingested note without a spot and without the
\* question for one (_ingest_typed, _ingest_debrief, service.confirm_spot).
THEOREM NoteIsPlacedOrAsked == Spec => []SpotOrQuestion
    BY Invariance, PTL DEF IInv

\* What the user answers once the ingestion is over is never lost (service.confirm_spot).
THEOREM LateAnswerIsKept == Spec => []LateAnswerHolds
    BY Invariance, PTL DEF IInv
=============================================================================
