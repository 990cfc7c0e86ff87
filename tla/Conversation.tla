---------------------------- MODULE Conversation ----------------------------
(***************************************************************************)
(* One trip conversation before the trip (backend/chat/router.py with      *)
(* build_context of backend/chat/context_builder.py): the handlers that    *)
(* read and write its row, its transcript and the trip it belongs to.      *)
(*                                                                         *)
(* Every request has a database session of its own.  It loads the row      *)
(* once, works on that copy across its awaits and commits the columns that *)
(* it changed, so each commit is a step and other requests may come in     *)
(* between.  Overlap says which kinds of request the browser lets run at   *)
(* the same time; Faults lets a client leave or a worker die at any step.  *)
(***************************************************************************)
EXTENDS Integers, FiniteSets, FiniteSetsExt

CONSTANTS
    Spot, Filter,   \* fishing spots; values the model may propose for an intake key
    BadFilter,      \* the filters whose value does not parse
    NoFilter,       \* the intake as the trip was created
    Eligible,       \* Eligible[i]: the spots the hard filters keep under intake i
    Closures,       \* the sets of spots dated rules may close on a pipeline run
    Turn, Exclusion, Confirmation, Locking,     \* request ids of the four handlers
    None,
    Agentic,        \* settings.harness_mode = "agentic"
    Overlap,        \* the kinds {k1, k2} of requests that may be in progress together
    Faults,
    HopCap, MaxToolCalls, MaxNotes,
    WarnRows, HardRows,     \* the context budget, counted in transcript rows
    MaxHour                 \* bound: how often the freeze TTL passes

Request == Turn \cup Exclusion \cup Confirmation \cup Locking

Hour == 0..MaxHour
NoSlot == -1

\* session_candidates: the spots, and the period their conditions were read in
Listing == [spots : SUBSET Spot, cond : Hour]

ASSUME ConversationAssumption ==
    /\ BadFilter \subseteq Filter /\ NoFilter \notin Filter
    /\ \A i \in Filter \cup {NoFilter} : Eligible[i] \subseteq Spot
    /\ Closures \subseteq SUBSET Spot
    /\ Agentic \in BOOLEAN /\ Faults \in BOOLEAN
    /\ HopCap \in Nat /\ MaxToolCalls \in Nat /\ MaxNotes \in Nat
    /\ WarnRows \in Nat /\ HardRows \in Nat /\ MaxHour \in Nat
    /\ None \notin Spot \cup Filter \cup Listing
    /\ Turn \cap (Exclusion \cup Confirmation \cup Locking) = {}
    /\ Exclusion \cap (Confirmation \cup Locking) = {}

Column == {"cands", "excluded", "frozen", "frozenAt", "ctx", "pending"}
ConversationRow ==
    [cands : Listing \cup {None}, excluded : SUBSET Spot,
     frozen : (SUBSET Spot) \cup {None}, frozenAt : Hour \cup {None},
     ctx : {"ok", "warning", "closed"}, pending : Filter \cup {None}]

NewRow == [cands |-> None, excluded |-> {}, frozen |-> None, frozenAt |-> None,
           ctx |-> "ok", pending |-> None]

MessageRow == [turn : Turn, kind : {"user", "call", "result", "answer"},
               seq : Nat, calls : 0..MaxToolCalls]

VARIABLES
    conv,       \* the conversations row, as committed
    trip,       \* the trip's session_intake and fishing_spot_id
    messages,   \* the committed transcript; its order is that of seq
    notes,      \* notes[t]: SAVE_NOTE rows committed by turn t
    card,       \* the filter on the confirmation card the user sees, or None
    hour,       \* TTL periods since the conversation began
    req         \* the state of each request

vars == <<conv, trip, messages, notes, card, hour, req>>

Ended == {"done", "refused", "dead"}
Phase == Ended \cup
    {"idle", "loaded", "assess", "user", "list", "think", "call", "result",
     "reply", "effects", "notes", "exclude", "reject", "apply", "rerun", "lock"}

\* What the model streams: text, and the control tokens the handler intercepts
Reply == [text : BOOLEAN, filter : Filter \cup {None}, notes : 0..MaxNotes, cached : BOOLEAN]
NoReply == [text |-> FALSE, filter |-> None, notes |-> 0, cached |-> FALSE]

\* loaded: the row as this session last read or wrote it; row: the ORM object
RequestState ==
    [pc : Phase, loaded : ConversationRow, row : ConversationRow,
     intake : Filter \cup {NoFilter}, listing : Listing \cup {None},
     size : Nat, slot : Nat \cup {NoSlot}, hop : 0..HopCap, calls : 0..MaxToolCalls,
     given : SUBSET Spot, spot : Spot \cup {None}, reply : Reply]

Blank == [pc |-> "idle", loaded |-> NewRow, row |-> NewRow, intake |-> NoFilter,
          listing |-> None, size |-> 0, slot |-> NoSlot, hop |-> 0, calls |-> 0,
          given |-> {}, spot |-> None, reply |-> NoReply]

TypeOK ==
    /\ conv \in ConversationRow
    /\ trip \in [intake : Filter \cup {NoFilter}, spot : Spot \cup {None}]
    /\ messages \subseteq MessageRow
    /\ notes \in [Turn -> 0..MaxNotes]
    /\ card \in Filter \cup {None}
    /\ hour \in Hour
    /\ req \in [Request -> RequestState]

Init ==
    /\ conv = NewRow
    /\ trip = [intake |-> NoFilter, spot |-> None]
    /\ messages = {}
    /\ notes = [t \in Turn |-> 0]
    /\ card = None
    /\ hour = 0
    /\ req = [r \in Request |-> Blank]

-----------------------------------------------------------------------------
(* Sessions *)

Kind(r) == CASE r \in Turn -> "turn" [] r \in Exclusion -> "exclude"
             [] r \in Confirmation -> "confirm" [] OTHER -> "lock"

Active(r) == req[r].pc \notin Ended \cup {"idle"}

MayStart(r) ==
    /\ req[r].pc = "idle"
    /\ \A q \in Request : Active(q) => {Kind(r), Kind(q)} \in Overlap

\* an UPDATE names the columns whose value differs from the loaded one, no other
Merge(committed, loaded, row) ==
    [c \in Column |-> IF row[c] = loaded[c] THEN committed[c] ELSE row[c]]

Go(r, pc) == req' = [req EXCEPT ![r].pc = pc]

Flush(r, row, pc) ==
    /\ conv' = Merge(conv, req[r].loaded, row)
    /\ req' = [req EXCEPT ![r].pc = pc, ![r].loaded = row, ![r].row = row]

\* the request is over and its session gone; of a completed one, what it answered stays
Over(r, how) ==
    IF how = "done" THEN [Blank EXCEPT !.pc = how, !.spot = req[r].spot, !.reply = req[r].reply]
                    ELSE [Blank EXCEPT !.pc = how]

End(r, how) == req' = [req EXCEPT ![r] = Over(r, how)]

FlushAndEnd(r, row) ==
    /\ conv' = Merge(conv, req[r].loaded, row)
    /\ End(r, "done")

-----------------------------------------------------------------------------
(* build_context *)

\* faulty variant: a re-run that does not look at what was set aside
PipelineUnfiltered(intake, excluded) ==
    {[spots |-> Eligible[intake] \ closed, cond |-> hour] : closed \in Closures}

\* the hard filters: what the user set aside and what a dated rule closes is dropped
Pipeline(intake, excluded) ==
    {[spots |-> Eligible[intake] \ (excluded \cup closed), cond |-> hour] : closed \in Closures}

Stale(row) == row.frozenAt # None /\ hour > row.frozenAt

\* faulty variant: a re-run of the pipeline keeps the frozen text it has
FreezesOnce(row, force) == Agentic /\ (row.frozen \in {None, {}} \/ Stale(row))

Freezes(row, force) ==
    Agentic /\ (force \/ row.frozen \in {None, {}} \/ Stale(row))

\* a re-freeze past the TTL re-reads the conditions, when the cache has fresh ones
Refreshed(row, listing, force) ==
    IF Freezes(row, force) /\ Stale(row) /\ ~force
    THEN {[listing EXCEPT !.cond = c] : c \in {listing.cond, hour}}
    ELSE {listing}

Frozen(row, listing, force) ==
    IF Freezes(row, force)
    THEN [row EXCEPT !.frozen = listing.spots, !.frozenAt = hour]
    ELSE row

\* the candidates of a turn: the stored ones, or a first run of the pipeline
Candidates(row, intake) ==
    IF row.cands # None THEN {row.cands} ELSE Pipeline(intake, row.excluded)

BudgetState(size) ==
    IF size >= HardRows THEN "closed" ELSE IF size >= WarnRows THEN "warning" ELSE "ok"

-----------------------------------------------------------------------------
(* POST /chat *)

\* the row and the trip are read; a closed conversation is refused up front.
\* Sending a message takes the confirmation card off the screen.
TurnLoad(t) ==
    /\ MayStart(t)
    /\ card' = None
    /\ \/ /\ Agentic /\ conv.ctx = "closed"
          /\ End(t, "refused")
       \/ /\ ~(Agentic /\ conv.ctx = "closed")
          /\ req' = [req EXCEPT ![t] = [Blank EXCEPT !.pc = "loaded", !.loaded = conv,
                                                     !.row = conv, !.intake = trip.intake]]
    /\ UNCHANGED <<conv, trip, messages, notes, hour>>

TurnBuild(t) ==
    /\ req[t].pc = "loaded"
    /\ \E base \in Candidates(req[t].row, req[t].intake) :
       \E listing \in Refreshed(req[t].row, base, FALSE) :
          req' = [req EXCEPT ![t].pc = IF Agentic THEN "assess" ELSE "user",
                             ![t].listing = listing,
                             ![t].row = Frozen(@, listing, FALSE),
                             ![t].size = Cardinality(messages)]
    /\ UNCHANGED <<conv, trip, messages, notes, card, hour>>

\* faulty variant: the turn that closes the conversation is answered all the same
TurnAssessLate(t) ==
    LET band == BudgetState(req[t].size)
        row == [req[t].row EXCEPT !.ctx = band]
    IN
    /\ req[t].pc = "assess"
    /\ \/ band # req[t].row.ctx /\ Flush(t, row, "user")
       \/ band = req[t].row.ctx /\ Go(t, "user") /\ UNCHANGED conv
    /\ UNCHANGED <<trip, messages, notes, card, hour>>

\* assess_context_state: a change of band is committed, with the frozen text if new
TurnAssess(t) ==
    LET band == BudgetState(req[t].size)
        row == [req[t].row EXCEPT !.ctx = band]
    IN
    /\ req[t].pc = "assess"
    /\ \/ band \notin {req[t].row.ctx, "closed"} /\ Flush(t, row, "user")
       \/ band = req[t].row.ctx /\ band # "closed" /\ Go(t, "user") /\ UNCHANGED conv
       \/ /\ band = "closed"
          /\ conv' = Merge(conv, req[t].loaded, row)
          /\ End(t, "refused")
    /\ UNCHANGED <<trip, messages, notes, card, hour>>

\* faulty variant: max(seq) without the + 1
NextSeqStuck == IF messages = {} THEN 0 ELSE Max({m.seq : m \in messages})

\* _next_seq: one past the largest committed ordinal, read before the row is added
NextSeq == IF messages = {} THEN 0 ELSE 1 + Max({m.seq : m \in messages})

ReadSlot(t) ==
    /\ req[t].pc \in {"user", "call", "result", "reply"}
    /\ req[t].slot = NoSlot
    /\ req' = [req EXCEPT ![t].slot = NextSeq]
    /\ UNCHANGED <<conv, trip, messages, notes, card, hour>>

Append(t, kind, calls) ==
    /\ req[t].slot # NoSlot
    /\ messages' = messages \cup
          {[turn |-> t, kind |-> kind, seq |-> req[t].slot, calls |-> calls]}

PersistUser(t) ==
    /\ req[t].pc = "user"
    /\ Append(t, "user", 0)
    /\ conv' = Merge(conv, req[t].loaded, req[t].row)
    /\ req' = [req EXCEPT ![t].pc = "list", ![t].slot = NoSlot, ![t].loaded = req[t].row]
    /\ UNCHANGED <<trip, notes, card, hour>>

PersistCands(t) ==
    /\ req[t].pc = "list"
    /\ Flush(t, [req[t].row EXCEPT !.cands = req[t].listing], "think")
    /\ UNCHANGED <<trip, messages, notes, card, hour>>

\* two-pass only: the opening recommendation comes from the response cache
ServeCached(t) ==
    /\ req[t].pc = "think" /\ ~Agentic
    /\ req[t].listing.spots # {}
    /\ req' = [req EXCEPT ![t].pc = "reply",
                          ![t].reply = [NoReply EXCEPT !.text = TRUE, !.cached = TRUE]]
    /\ UNCHANGED <<conv, trip, messages, notes, card, hour>>

\* faulty variant: nothing withheld
ToolHopUnfiltered(t, asked, n) ==
    /\ req[t].pc = "think" /\ Agentic
    /\ req[t].hop < HopCap
    /\ Cardinality(asked) <= n
    /\ req' = [req EXCEPT ![t].pc = "call", ![t].hop = @ + 1, ![t].calls = n,
                          ![t].given = asked]
    /\ UNCHANGED <<conv, trip, messages, notes, card, hour>>

\* the model asks for tools: get_spot withholds what this session knows as set aside
ToolHop(t, asked, n) ==
    /\ req[t].pc = "think" /\ Agentic
    /\ req[t].hop < HopCap
    /\ Cardinality(asked) <= n
    /\ req' = [req EXCEPT ![t].pc = "call", ![t].hop = @ + 1, ![t].calls = n,
                          ![t].given = asked \ req[t].row.excluded]
    /\ UNCHANGED <<conv, trip, messages, notes, card, hour>>

PersistCall(t) ==
    /\ req[t].pc = "call"
    /\ Append(t, "call", req[t].calls)
    /\ req' = [req EXCEPT ![t].pc = "result", ![t].slot = NoSlot]
    /\ UNCHANGED <<conv, trip, notes, card, hour>>

\* faulty variant: one row for all the results of a hop
PersistFirstResult(t) ==
    /\ req[t].pc = "result"
    /\ Append(t, "result", 0)
    /\ req' = [req EXCEPT ![t].pc = "think", ![t].calls = 0, ![t].slot = NoSlot, ![t].given = {}]
    /\ UNCHANGED <<conv, trip, notes, card, hour>>

PersistResult(t) ==
    /\ req[t].pc = "result"
    /\ Append(t, "result", 0)
    /\ req' = [req EXCEPT ![t].pc = IF req[t].calls = 1 THEN "think" ELSE "result",
                          ![t].calls = @ - 1, ![t].slot = NoSlot,
                          ![t].given = IF req[t].calls = 1 THEN {} ELSE @]
    /\ UNCHANGED <<conv, trip, notes, card, hour>>

\* faulty variant: no final hop without tools once the hop cap is reached
AnswerBelowCap(t, reply) ==
    /\ req[t].pc = "think" /\ req[t].hop < HopCap
    /\ ~reply.cached
    /\ req' = [req EXCEPT ![t].pc = IF reply.text THEN "reply" ELSE "effects",
                          ![t].reply = reply]
    /\ card' \in {card, IF reply.filter = None THEN card ELSE reply.filter}
    /\ UNCHANGED <<conv, trip, messages, notes, hour>>

\* the answer is streamed; a proposed filter reaches the screen (not on the opening
\* turn of a page) before anything of the answer is saved
Answer(t, reply) ==
    /\ req[t].pc = "think"
    /\ ~reply.cached
    /\ req' = [req EXCEPT ![t].pc = IF reply.text THEN "reply" ELSE "effects",
                          ![t].reply = reply]
    /\ card' \in {card, IF reply.filter = None THEN card ELSE reply.filter}
    /\ UNCHANGED <<conv, trip, messages, notes, hour>>

\* faulty variant: the first proposal stays pending until it is answered
ProposedOnce(t) ==
    [req[t].row EXCEPT !.pending =
        IF req[t].reply.filter = None \/ @ # None THEN @ ELSE req[t].reply.filter]

Proposed(t) ==
    [req[t].row EXCEPT !.pending = IF req[t].reply.filter = None THEN @ ELSE req[t].reply.filter]

\* two-pass, when the top spot has a gauge reading: storing the answer in the response
\* cache commits on its own
CommitsEarly(t) == ~Agentic /\ req[t].listing.spots # {} /\ ~req[t].reply.cached

PersistAnswer(t) ==
    /\ req[t].pc = "reply"
    /\ Append(t, "answer", 0)
    /\ \/ /\ CommitsEarly(t)
          /\ req' = [req EXCEPT ![t].pc = "effects", ![t].slot = NoSlot]
          /\ UNCHANGED conv
       \/ /\ conv' = Merge(conv, req[t].loaded, Proposed(t))
          /\ req' = [req EXCEPT ![t].pc = "notes", ![t].slot = NoSlot,
                                ![t].loaded = Proposed(t), ![t].row = Proposed(t)]
    /\ UNCHANGED <<trip, notes, card, hour>>

PersistEffects(t) ==
    /\ req[t].pc = "effects"
    /\ Flush(t, Proposed(t), "notes")
    /\ UNCHANGED <<trip, messages, notes, card, hour>>

PersistNote(t) ==
    /\ req[t].pc = "notes"
    /\ notes[t] < req[t].reply.notes
    /\ notes' = [notes EXCEPT ![t] = @ + 1]
    /\ UNCHANGED <<conv, trip, messages, card, hour, req>>

\* faulty variant: done is sent as soon as the answer is committed
DoneEarly(t) ==
    /\ req[t].pc = "notes"
    /\ End(t, "done")
    /\ UNCHANGED <<conv, trip, messages, notes, card, hour>>

\* the done event
Done(t) ==
    /\ req[t].pc = "notes"
    /\ notes[t] = req[t].reply.notes
    /\ End(t, "done")
    /\ UNCHANGED <<conv, trip, messages, notes, card, hour>>

-----------------------------------------------------------------------------
(* POST /chat/exclude-spot, /chat/confirm-filter and /chat/commit-spot *)

Listed(s) == conv.cands # None /\ s \in conv.cands.spots

ExcludeLoad(x, s) ==
    /\ MayStart(x)
    /\ \/ ~Listed(s) /\ End(x, "refused")
       \/ /\ Listed(s)
          /\ req' = [req EXCEPT ![x] = [Blank EXCEPT !.pc = "exclude", !.spot = s,
                                                     !.loaded = conv, !.row = conv]]
    /\ UNCHANGED <<conv, trip, messages, notes, card, hour>>

\* faulty variants: the frozen text is kept; the exclusion is not recorded
SetAsideKeepFrozen(row, s) ==
    [row EXCEPT !.cands.spots = @ \ {s}, !.excluded = @ \cup {s}]

SetAsideUnrecorded(row, s) ==
    [row EXCEPT !.cands.spots = @ \ {s}, !.frozen = None, !.frozenAt = None]

\* the spot leaves the candidates, joins the excluded, and the frozen text is dropped
SetAsideIn(row, s) ==
    [row EXCEPT !.cands.spots = @ \ {s}, !.excluded = @ \cup {s},
                !.frozen = None, !.frozenAt = None]

ExcludeCommit(x) ==
    /\ req[x].pc = "exclude"
    /\ FlushAndEnd(x, SetAsideIn(req[x].row, req[x].spot))
    /\ UNCHANGED <<trip, messages, notes, card, hour>>

\* the user presses Yes or No on the card, which then goes away
ConfirmLoad(c, yes) ==
    /\ MayStart(c)
    /\ card # None
    /\ card' = None
    /\ \/ conv.pending = None /\ End(c, "refused")
       \/ /\ conv.pending # None
          /\ req' = [req EXCEPT ![c] =
                [Blank EXCEPT !.pc = IF yes THEN "apply" ELSE "reject", !.loaded = conv,
                              !.row = conv, !.intake = trip.intake]]
    /\ UNCHANGED <<conv, trip, messages, notes, hour>>

ConfirmReject(c) ==
    /\ req[c].pc = "reject"
    /\ FlushAndEnd(c, [req[c].row EXCEPT !.pending = None])
    /\ UNCHANGED <<trip, messages, notes, card, hour>>

\* a value that does not parse leaves the intake as it was
Applied(intake, filter) == IF filter \in BadFilter THEN intake ELSE filter

ConfirmApply(c) ==
    LET intake == Applied(req[c].intake, req[c].row.pending)
        row == [req[c].row EXCEPT !.pending = None]
    IN
    /\ req[c].pc = "apply"
    /\ conv' = Merge(conv, req[c].loaded, row)
    /\ trip' = [trip EXCEPT !.intake = IF intake = req[c].intake THEN @ ELSE intake]
    /\ req' = [req EXCEPT ![c].pc = "rerun", ![c].loaded = row, ![c].row = row,
                          ![c].intake = intake]
    /\ UNCHANGED <<messages, notes, card, hour>>

\* faulty variant: the re-run reuses the stored candidates (force_rerun forgotten)
ConfirmReuse(c) ==
    /\ req[c].pc = "rerun"
    /\ \E listing \in Candidates(req[c].row, req[c].intake) :
          FlushAndEnd(c, [Frozen(req[c].row, listing, TRUE) EXCEPT !.cands = listing])
    /\ UNCHANGED <<trip, messages, notes, card, hour>>

\* build_context(force_rerun=True) with the exclusions this session loaded
ConfirmRerun(c) ==
    /\ req[c].pc = "rerun"
    /\ \E listing \in Pipeline(req[c].intake, req[c].row.excluded) :
          FlushAndEnd(c, [Frozen(req[c].row, listing, TRUE) EXCEPT !.cands = listing])
    /\ UNCHANGED <<trip, messages, notes, card, hour>>

LockLoad(l, s) ==
    /\ MayStart(l)
    /\ \/ ~Listed(s) /\ End(l, "refused")
       \/ Listed(s) /\ req' = [req EXCEPT ![l] = [Blank EXCEPT !.pc = "lock", !.spot = s]]
    /\ UNCHANGED <<conv, trip, messages, notes, card, hour>>

LockCommit(l) ==
    /\ req[l].pc = "lock"
    /\ trip' = [trip EXCEPT !.spot = req[l].spot]
    /\ End(l, "done")
    /\ UNCHANGED <<conv, messages, notes, card, hour>>

-----------------------------------------------------------------------------
\* a client that disconnects, an error or a dead worker: uncommitted work is lost
Die(r) ==
    /\ Faults /\ Active(r)
    /\ End(r, "dead")
    /\ UNCHANGED <<conv, trip, messages, notes, card, hour>>

\* the TTL of the frozen text (six hours) passes
Lapse ==
    /\ hour < MaxHour
    /\ hour' = hour + 1
    /\ UNCHANGED <<conv, trip, messages, notes, card, req>>

Answers(t) == \E reply \in Reply : Answer(t, reply)

Hops(t) == \E n \in 1..MaxToolCalls : \E asked \in SUBSET Spot : ToolHop(t, asked, n)

TurnStep(t) ==
    \/ TurnBuild(t) \/ TurnAssess(t) \/ ReadSlot(t) \/ PersistUser(t) \/ PersistCands(t)
    \/ ServeCached(t) \/ Hops(t) \/ PersistCall(t) \/ PersistResult(t) \/ Answers(t)
    \/ PersistAnswer(t) \/ PersistEffects(t) \/ PersistNote(t) \/ Done(t)

Next ==
    \/ Lapse
    \/ \E t \in Turn : TurnLoad(t) \/ TurnStep(t)
    \/ \E x \in Exclusion : ExcludeCommit(x) \/ \E s \in Spot : ExcludeLoad(x, s)
    \/ \E c \in Confirmation :
          \/ \E yes \in BOOLEAN : ConfirmLoad(c, yes)
          \/ ConfirmReject(c) \/ ConfirmApply(c) \/ ConfirmRerun(c)
    \/ \E l \in Locking : LockCommit(l) \/ \E s \in Spot : LockLoad(l, s)
    \/ \E r \in Request : Die(r)

\* a request that runs keeps running: the engine's and the database's calls time out
Fairness == \A t \in Turn : WF_vars(TurnStep(t))

Spec == Init /\ [][Next]_vars /\ Fairness
-----------------------------------------------------------------------------
\* Transcript order comes from seq alone (Message.seq, order_by(Message.seq)), so no
\* two rows may share one: not after a crash, a retry or a re-sent turn.
SeqUnique == \A m, n \in messages : m.seq = n.seq => m = n

\* "a single assistant row carrying the tool_calls, then one role=tool row per result"
\* (_persist_tool_turn): once its turn is over, a replayed call has all its results
\* right behind it.
CallsAnswered ==
    \A m \in messages : m.kind = "call" /\ ~Active(m.turn) =>
        \A i \in 1..m.calls : \E n \in messages :
            n.kind = "result" /\ n.turn = m.turn /\ n.seq = m.seq + i

\* A spot the user set aside is never a candidate again, whatever is re-run
\* (_filter_excluded, exclude_spot_endpoint).
ExcludedNotCandidate == conv.cands # None => conv.cands.spots \cap conv.excluded = {}

\* Nor is it in the prefix that every later turn replays to the model.
FrozenHonoursExclusion == conv.frozen # None => conv.frozen \cap conv.excluded = {}

\* An exclusion that was answered 200 stays recorded.
ExclusionRecorded ==
    \A x \in Exclusion : req[x].pc = "done" => req[x].spot \in conv.excluded

\* get_spot never hands the model the bundle of a spot that is set aside by then
\* ("a set-aside spot is never resurfaced", _run_agentic_loop).
NeverResurfaced ==
    [][\A t \in Turn : req'[t].given # req[t].given => req'[t].given \cap conv.excluded = {}]_vars

\* A conversation closed on its length stays closed and takes in no further row.
ClosedIsFinal ==
    [][conv.ctx = "closed" => conv'.ctx = "closed" /\ messages' = messages]_vars

\* When the client reads `done`, everything the turn streamed is committed: its
\* question, its answer and its notes; and a proposed filter is pending unless a
\* later turn or confirmation replaced it.
DoneIsDurable ==
    \A t \in Turn : req[t].pc = "done" =>
        /\ \E m \in messages : m.turn = t /\ m.kind = "user"
        /\ req[t].reply.text => \E m \in messages : m.turn = t /\ m.kind = "answer"
        /\ notes[t] = req[t].reply.notes

Idling == \A r \in Request : ~Active(r)

\* The card the user can answer shows the filter that a Yes would apply.
CardIsPending == card # None /\ Idling => conv.pending = card

\* Between requests, the candidates satisfy the intake the user confirmed.
CandsMatchIntake ==
    conv.cands # None /\ Idling => conv.cands.spots \subseteq Eligible[trip.intake]

\* Between requests, the frozen prefix describes the stored candidates: the first of
\* them are the ones whose bundles get_spot takes to be loaded (_seed_active_ids).
FrozenMatchesCands ==
    conv.frozen # None /\ conv.cands # None /\ Idling => conv.frozen = conv.cands.spots

\* Between requests, the candidates satisfy the confirmed intake and the frozen prefix
\* describes them: what the model reads, what get_spot takes to be loaded and what the
\* user confirmed are one list, and the card on the screen shows the filter that a Yes
\* would apply (_build_agentic_context, confirm_filter_endpoint).
CandidatesCurrent == CandsMatchIntake /\ FrozenMatchesCands /\ CardIsPending

\* Excluding, re-running and re-freezing, seen as a shortlist that only loses what
\* the user sets aside for good.
Picks == INSTANCE Shortlist WITH
    list <- IF conv.cands = None THEN {} ELSE conv.cands.spots,
    setAside <- conv.excluded
ImplementsShortlist == Picks!Spec

\* Every turn that starts is answered, refused or cut off.
EveryTurnEnds == \A t \in Turn : Active(t) ~> req[t].pc \in Ended
=============================================================================
