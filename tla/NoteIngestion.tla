--------------------------- MODULE NoteIngestion ---------------------------
(***************************************************************************)
(* What becomes of a note (backend/notes): its ingestion in the background,*)
(* the user's answer to "which spot was it", and the score of the water    *)
(* body that the notes about its spots feed (backend/spots/scorer.py).     *)
(*                                                                         *)
(* An ingestion task has a database session of its own and lives in the    *)
(* memory of the worker that started it.  It reads the note, calls the     *)
(* language model for seconds, and writes the columns it changed; so does  *)
(* the handler of an answer.  Trips are seen only as the spot they are     *)
(* locked to (TripLifecycle has the rest).                                 *)
(***************************************************************************)
EXTENDS Integers, FiniteSets

CONSTANTS
    Note,           \* the notes that are ever written
    DebriefNote,    \* the one of them that is the debrief (DebriefOnce of TripLifecycle)
    Spot, Water,
    WaterOf,        \* WaterOf[p]: the water body of fishing spot p
    None,
    Losses,         \* a task, a request or a re-score may fail or die with its worker
    MaxAnswers      \* bound: how often the user answers, for all notes together

ASSUME NoteAssumption ==
    /\ WaterOf \in [Spot -> Water]
    /\ None \notin Spot \cup Water
    /\ Losses \in BOOLEAN
    /\ MaxAnswers \in Nat

\* processing_notes: NULL, "", "spot_auto_linked" or "awaiting_spot_confirmation"
Flag == {"null", "empty", "linked", "awaiting"}

\* fields: the ingestion has stored what it extracted, an outcome among it
NoteRow == [kind : {"none", "typed", "debrief"}, spot : Spot \cup {None}, flag : Flag,
            fields : BOOLEAN]
NoNote == [kind |-> "none", spot |-> None, flag |-> "null", fields |-> FALSE]

\* a re-score under way: the notes it has counted for water, and the score it loaded
Scoring == [water : Water \cup {None}, counted : SUBSET Note, was : SUBSET Note]
NoScoring == [water |-> None, counted |-> {}, was |-> {}]

\* was: the spot of the row the task loaded; auto: the spot of the trip it read, then
\* the spot it links
TaskState == [pc : {"none", "queued", "loaded", "placed", "flushed", "over"}, was : Spot \cup {None},
              auto : Spot \cup {None}, scoring : Scoring]
NoTask == [pc |-> "none", was |-> None, auto |-> None, scoring |-> NoScoring]

\* a request that answers for a note with spot; was, flag: the row that it loaded;
\* late: the ingestion of the note was over by then
AnswerState == [pc : {"idle", "confirm", "rescore"}, spot : Spot \cup {None},
                was : Spot \cup {None}, flag : Flag, late : BOOLEAN]
NoAnswer == [pc |-> "idle", spot |-> None, was |-> None, flag |-> "null", late |-> FALSE]

VARIABLES
    trip,       \* does the trip exist, and the spot it is locked to
    note,       \* the notes rows
    task,       \* the ingestion task of each note
    score,      \* score[w]: the notes counted in the stored score of water w
    scan,       \* the re-score the nightly job is at
    request,    \* request[n]: the answer for note n in progress
    answer,     \* answer[n]: the spot last confirmed for note n, and whether late
    answers     \* how many answers were sent

vars == <<trip, note, task, score, scan, request, answer, answers>>

TypeOK ==
    /\ trip \in [exists : BOOLEAN, spot : Spot \cup {None}]
    /\ note \in [Note -> NoteRow]
    /\ task \in [Note -> TaskState]
    /\ score \in [Water -> SUBSET Note]
    /\ scan \in Scoring
    /\ request \in [Note -> AnswerState]
    /\ answer \in [Note -> [spot : Spot \cup {None}, late : BOOLEAN]]
    /\ answers \in 0..MaxAnswers

Init ==
    /\ trip = [exists |-> TRUE, spot |-> None]
    /\ note = [n \in Note |-> NoNote]
    /\ task = [n \in Note |-> NoTask]
    /\ score = [w \in Water |-> {}]
    /\ scan = NoScoring
    /\ request = [n \in Note |-> NoAnswer]
    /\ answer = [n \in Note |-> [spot |-> None, late |-> FALSE]]
    /\ answers = 0

-----------------------------------------------------------------------------
(* The trip and the turns that leave a note *)

\* assign_spot, from the chat's lock-in
AssignSpot(p) ==
    /\ trip.exists
    /\ trip' = [trip EXCEPT !.spot = p]
    /\ UNCHANGED <<note, task, score, scan, request, answer, answers>>

\* delete_trip_endpoint: the notes stay, without a trip
DeleteTrip ==
    /\ trip.exists
    /\ trip' = [exists |-> FALSE, spot |-> None]
    /\ UNCHANGED <<note, task, score, scan, request, answer, answers>>

\* a SAVE_NOTE of a turn, or the summary of the debrief; the commit starts the task
Write(n) ==
    /\ trip.exists /\ note[n].kind = "none"
    /\ note' = [note EXCEPT ![n].kind = IF n = DebriefNote THEN "debrief" ELSE "typed"]
    /\ task' = [task EXCEPT ![n].pc = "queued"]
    /\ UNCHANGED <<trip, score, scan, request, answer, answers>>

-----------------------------------------------------------------------------
(* Ingestion *)

\* the notes that a score of water w computed over these rows counts
Counted(rows, w) ==
    {n \in Note : rows[n].fields /\ rows[n].spot # None /\ WaterOf[rows[n].spot] = w}

IngestLoad(n) ==
    /\ task[n].pc = "queued"
    /\ task' = [task EXCEPT ![n] = [@ EXCEPT !.pc = "loaded", !.was = note[n].spot]]
    /\ UNCHANGED <<trip, note, score, scan, request, answer, answers>>

\* the model has extracted the fields; a debrief looks at the spot its trip is locked to
IngestPlace(n) ==
    /\ task[n].pc = "loaded"
    /\ task' = [task EXCEPT ![n] = [@ EXCEPT
          !.pc = "placed", !.auto = IF note[n].kind = "debrief" THEN trip.spot ELSE None]]
    /\ UNCHANGED <<trip, note, score, scan, request, answer, answers>>

\* a spot of the trip is taken; else the resolver links one that it is sure of, or
\* leaves the question to the user
Resolution(n) == IF task[n].auto = None THEN Spot \cup {None} ELSE {task[n].auto}

\* faulty variant: an unresolved location raises no flag
IngestedQuiet(n, auto) ==
    [note EXCEPT ![n] = [@ EXCEPT
        !.spot = IF auto \in {None, task[n].was} THEN note[n].spot ELSE auto,
        !.flag = IF auto = None THEN "empty" ELSE "linked",
        !.fields = TRUE]]

\* the columns of the note that _update_note changes
Ingested(n, auto) ==
    [note EXCEPT ![n] = [@ EXCEPT
        !.spot = IF auto \in {None, task[n].was} THEN note[n].spot ELSE auto,
        !.flag = IF auto = None THEN "awaiting" ELSE "linked",
        !.fields = TRUE]]

Rescores(n, auto) == note[n].kind = "debrief" /\ auto # None

\* what compute_and_store_score reads, over these rows, and what it may store: a score
\* equal to the one it loaded is written unless the two also have the same digits
ScoringOf(rows, w) == [water |-> w, counted |-> Counted(rows, w), was |-> score[w]]
Stored(c) ==
    IF c.water = None THEN {score}
    ELSE {[score EXCEPT ![c.water] = c.counted]} \cup (IF c.counted = c.was THEN {score} ELSE {})

\* the flush locks the row; the re-score of a debrief reads it in the same transaction
IngestFlush(n) ==
    /\ task[n].pc = "placed"
    /\ \E auto \in Resolution(n) :
          task' = [task EXCEPT ![n] = [@ EXCEPT
              !.pc = "flushed", !.auto = auto,
              !.scoring = IF Rescores(n, auto)
                          THEN ScoringOf(Ingested(n, auto), WaterOf[auto]) ELSE task[n].scoring]]
    /\ UNCHANGED <<trip, note, score, scan, request, answer, answers>>

\* one commit, of compute_and_store_score or of ingest_note_task
IngestCommit(n) ==
    /\ task[n].pc = "flushed"
    /\ note' = Ingested(n, task[n].auto)
    /\ score' \in Stored(task[n].scoring)
    /\ task' = [task EXCEPT ![n] = [NoTask EXCEPT !.pc = "over"]]
    /\ UNCHANGED <<trip, scan, request, answer, answers>>

\* an exception rolls the task back, a restart drops it: nothing starts it again
IngestLost(n) ==
    /\ Losses /\ task[n].pc \in {"queued", "loaded", "placed", "flushed"}
    /\ task' = [task EXCEPT ![n] = [NoTask EXCEPT !.pc = "over"]]
    /\ UNCHANGED <<trip, note, score, scan, request, answer, answers>>

-----------------------------------------------------------------------------
(* The user's answer *)

\* confirm_spot reads the note; one answer for a note is under way at a time
Confirm(n, p) ==
    /\ request[n].pc = "idle" /\ note[n].kind # "none"
    /\ answers < MaxAnswers
    /\ request' = [request EXCEPT ![n] =
          [pc |-> "confirm", spot |-> p, was |-> note[n].spot, flag |-> note[n].flag,
           late |-> task[n].pc = "over"]]
    /\ answers' = answers + 1
    /\ UNCHANGED <<trip, note, task, score, scan, answer>>

\* _remove_flag, on the flags as they were read
Removed(flag) == IF flag \in {"null", "awaiting"} THEN "empty" ELSE flag

Answered(n) ==
    /\ answer' = [answer EXCEPT ![n] =
          [spot |-> request[n].spot, late |-> request[n].late]]
    /\ request' = [request EXCEPT ![n] =
          IF note[n].kind = "debrief" THEN [@ EXCEPT !.pc = "rescore"] ELSE NoAnswer]
    /\ UNCHANGED <<trip, task, score, scan, answers>>

\* faulty variant: an answer is taken only while the question is open
ConfirmCommitAwaiting(n) ==
    LET r == request[n] IN
    /\ r.pc = "confirm" /\ task[n].pc # "flushed"
    /\ note' = [note EXCEPT ![n] = [@ EXCEPT
          !.spot = IF r.flag = "linked" THEN note[n].spot ELSE r.spot,
          !.flag = IF Removed(r.flag) = r.flag THEN note[n].flag ELSE "empty"]]
    /\ Answered(n)

\* the row lock of a flushed ingestion is waited for; columns that are as they were
\* read are not written
ConfirmCommit(n) ==
    LET r == request[n] IN
    /\ r.pc = "confirm" /\ task[n].pc # "flushed"
    /\ note' = [note EXCEPT ![n] = [@ EXCEPT
          !.spot = IF r.spot = r.was THEN note[n].spot ELSE r.spot,
          !.flag = IF Removed(r.flag) = r.flag THEN note[n].flag ELSE "empty"]]
    /\ Answered(n)

\* what follows the commit: compute_and_store_score is given the fishing spot where it looks up a water body: it
\* finds none, logs that and returns
ConfirmRescore(n) ==
    /\ request[n].pc = "rescore"
    /\ request' = [request EXCEPT ![n] = NoAnswer]
    /\ UNCHANGED <<trip, note, task, score, scan, answer, answers>>

ConfirmLost(n) ==
    /\ Losses /\ request[n].pc # "idle"
    /\ request' = [request EXCEPT ![n] = NoAnswer]
    /\ UNCHANGED <<trip, note, task, score, scan, answer, answers>>

-----------------------------------------------------------------------------
(* The nightly job *)

\* faulty variant: a water body without notes keeps the score it has
NightlyReadSkipping(w) ==
    /\ scan = NoScoring
    /\ scan' = [ScoringOf(note, w) EXCEPT !.counted = IF @ = {} THEN score[w] ELSE @]
    /\ UNCHANGED <<trip, note, task, score, request, answer, answers>>

\* job_score_all_water_bodies, a session for each water body
NightlyRead(w) ==
    /\ scan = NoScoring
    /\ scan' = ScoringOf(note, w)
    /\ UNCHANGED <<trip, note, task, score, request, answer, answers>>

NightlyWrite(w) ==
    /\ scan.water = w
    /\ score' \in Stored(scan)
    /\ scan' = NoScoring
    /\ UNCHANGED <<trip, note, task, request, answer, answers>>

\* a water body that fails is logged and left for the next night
NightlyFail ==
    /\ Losses /\ scan # NoScoring
    /\ scan' = NoScoring
    /\ UNCHANGED <<trip, note, task, score, request, answer, answers>>

-----------------------------------------------------------------------------
Ingest(n) == IngestLoad(n) \/ IngestPlace(n) \/ IngestFlush(n) \/ IngestCommit(n)

Next ==
    \/ \E p \in Spot : AssignSpot(p)
    \/ DeleteTrip
    \/ \E n \in Note :
          \/ Write(n) \/ Ingest(n) \/ IngestLost(n)
          \/ \E p \in Spot : Confirm(n, p)
          \/ ConfirmCommit(n) \/ ConfirmRescore(n) \/ ConfirmLost(n)
    \/ \E w \in Water : NightlyRead(w) \/ NightlyWrite(w)
    \/ NightlyFail

\* the job comes to every water body night after night, and not every one of its
\* re-scores fails; nothing is assumed of users, tasks and answers
Fairness ==
    \A w \in Water : SF_vars(NightlyRead(w)) /\ SF_vars(NightlyWrite(w))

Spec == Init /\ [][Next]_vars
FairSpec == Spec /\ Fairness
-----------------------------------------------------------------------------
\* The answer of the user to a note whose ingestion was over is the spot of the note
\* until the next answer: neither a correction nor a repeated answer is lost, although
\* columns that look unchanged are not written (service.confirm_spot).
LateAnswerHolds ==
    \A n \in Note : answer[n].late => note[n].spot = answer[n].spot

\* No note falls between the task and the user: one whose fields were extracted has a
\* spot or asks for one, whatever answer raced the task (_ingest_typed, _ingest_debrief).
SpotOrQuestion ==
    \A n \in Note : note[n].fields /\ note[n].spot = None => note[n].flag = "awaiting"

\* Scores follow the notes: once nothing changes any more, every water body is scored
\* from exactly the notes about its spots, also one that has lost its last note to a
\* correction and one whose re-score a slower nightly scan has overwritten.
ScoreCatchesUp ==
    <>[](\A w \in Water : score[w] = Counted(note, w))
=============================================================================
