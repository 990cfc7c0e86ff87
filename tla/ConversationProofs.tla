------------------------- MODULE ConversationProofs -------------------------
(***************************************************************************)
(* What holds of a conversation whose requests run one at a time, as       *)
(* _next_seq assumes, for any number of requests, spots, filters and       *)
(* failures.  The induction follows the one request that is in progress:   *)
(* the row its session loaded is still the committed one, so what it       *)
(* writes back was computed from the current exclusions and budget state.  *)
(* Two more invariants stand on that one and need requests that finish:    *)
(* the row, the intake and the card describe one list, and the results of  *)
(* a hop follow its call.  The last section drops the assumption that      *)
(* requests run one at a time.                                             *)
(***************************************************************************)
EXTENDS Conversation, TLAPS, FiniteSetTheorems

Serial == Overlap = {}

TurnPhase == {"loaded", "assess", "user", "list", "think", "call", "result",
              "reply", "effects", "notes"}

\* What a session knows is what is committed (c), and what it prepared respects it;
\* the ordinal it read lies past the committed rows (ms).
SessionCurrent(q, c) ==
    q.pc # "lock" =>
        /\ q.loaded = c
        /\ q.row.excluded = c.excluded /\ q.row.cands = c.cands /\ q.row.ctx = c.ctx
        /\ q.row.frozen # None => q.row.frozen \cap c.excluded = {}

Prepared(q, c, ms) ==
    /\ q.pc \in {"assess", "user", "list"} =>
          q.listing \in Listing /\ q.listing.spots \cap c.excluded = {}
    /\ q.pc = "exclude" =>
          /\ q.spot \in Spot /\ q.row.cands # None
          /\ q.row.cands \in Listing /\ q.spot \in q.row.cands.spots
    /\ q.pc = "apply" => q.row.pending \in Filter
    /\ q.pc = "lock" => q.spot \in Spot
    /\ q.pc \in {"call", "result"} => q.calls >= 1
    /\ q.pc = "assess" => Agentic
    /\ q.pc \in TurnPhase => c.ctx # "closed"
    /\ q.slot # NoSlot => \A m \in ms : m.seq < q.slot

InProgress(r) == SessionCurrent(req[r], conv) /\ Prepared(req[r], conv, messages)

\* The transcript has a last row, which is what _next_seq reads.
LastRow ==
    /\ IsFiniteSet(messages)
    /\ messages # {} => \E m \in messages : \A n \in messages : n.seq <= m.seq

OneAtATime == \A r, q \in Request : Active(r) /\ Active(q) => r = q

Kept ==
    /\ ExcludedNotCandidate /\ FrozenHonoursExclusion /\ SeqUnique
    /\ ~Agentic => conv.ctx # "closed"

IInv ==
    /\ TypeOK /\ LastRow /\ OneAtATime /\ Kept
    /\ \A r \in Request : Active(r) => InProgress(r)

-----------------------------------------------------------------------------
\* Flushing to the row that was loaded writes the session's row.
LEMMA MergeAlone ==
    ASSUME NEW db \in ConversationRow, NEW row \in ConversationRow
    PROVE  Merge(db, db, row) = row
    BY DEF Merge, ConversationRow, Column

\* A request that has not loaded anything is well typed.
LEMMA BlankTyped ==
    Blank \in RequestState /\ NewRow \in ConversationRow /\ NoReply \in Reply
<1>1. NewRow \in ConversationRow
    BY DEF NewRow, ConversationRow
<1>2. NoReply \in Reply
    BY ConversationAssumption DEF NoReply, Reply
<1>3. 0 \in 0..HopCap /\ 0 \in 0..MaxToolCalls /\ 0 \in Nat
    BY ConversationAssumption
<1>4. "idle" \in Phase
    BY DEF Phase
<1>5. QED
    BY <1>1, <1>2, <1>3, <1>4 DEF Blank, RequestState

LEMMA InitInv == Init => IInv
<1> SUFFICES ASSUME Init PROVE IInv
    OBVIOUS
<1>1. Blank \in RequestState
    BY BlankTyped
<1>2. TypeOK
    BY <1>1, BlankTyped, ConversationAssumption DEF Init, TypeOK, Hour
<1>3. LastRow
    BY FS_EmptySet DEF Init, LastRow
<1>4. \A r \in Request : ~Active(r)
    BY DEF Init, Active, Blank
<1>5. Kept
    BY DEF Init, Kept, NewRow, ExcludedNotCandidate, FrozenHonoursExclusion, SeqUnique
<1>6. QED
    BY <1>2, <1>3, <1>4, <1>5 DEF IInv, OneAtATime

\* A step of one request r leaves the others where they were: idle or over.
LEMMA OneMoves ==
    ASSUME IInv, NEW r \in Request,
           \A q \in Request \ {r} : ~Active(q),
           \A q \in Request \ {r} : req'[q] = req[q],
           Active(r)' => InProgress(r)'
    PROVE  OneAtATime' /\ \A q \in Request : Active(q)' => InProgress(q)'
    BY DEF OneAtATime, Active

\* While r is in progress, or may start, no other request is.
LEMMA Alone ==
    ASSUME IInv, Serial, NEW r \in Request, Active(r) \/ MayStart(r)
    PROVE  \A q \in Request \ {r} : ~Active(q)
    BY DEF IInv, OneAtATime, MayStart, Serial

\* The next ordinal lies past every committed row.
LEMMA NextSeqAhead ==
    ASSUME TypeOK, LastRow
    PROVE  NextSeq \in Nat /\ \A m \in messages : m.seq < NextSeq
<1>1. CASE messages = {}
    BY <1>1 DEF NextSeq
<1>2. CASE messages # {}
    <2> DEFINE S == {m.seq : m \in messages}
    <2>1. \A m \in messages : m.seq \in Nat
        BY DEF TypeOK, MessageRow
    <2>2. \E x \in S : \A y \in S : x >= y
        BY <1>2, <2>1 DEF LastRow
    <2>3. Max(S) \in S /\ \A y \in S : Max(S) >= y
        BY <2>2 DEF Max
    <2>4. NextSeq = 1 + Max(S)
        BY <1>2 DEF NextSeq
    <2>5. Max(S) \in Nat /\ \A m \in messages : Max(S) >= m.seq
        BY <2>1, <2>3
    <2> HIDE DEF S
    <2>6. QED
        BY <2>1, <2>4, <2>5
<1>3. QED
    BY <1>1, <1>2

\* Adding a row past all the others.
LEMMA AppendKeeps ==
    ASSUME TypeOK, LastRow, SeqUnique, NEW t \in Turn, NEW kind, NEW calls,
           kind \in {"user", "call", "result", "answer"}, calls \in 0..MaxToolCalls,
           Append(t, kind, calls), req[t].slot \in Nat \cup {NoSlot},
           \A m \in messages : m.seq < req[t].slot
    PROVE  messages' \subseteq MessageRow /\ LastRow' /\ SeqUnique'
<1> DEFINE new == [turn |-> t, kind |-> kind, seq |-> req[t].slot, calls |-> calls]
<1>1. new \in MessageRow /\ messages' = messages \cup {new} /\ messages \subseteq MessageRow
    BY DEF Append, MessageRow, TypeOK
<1>2. \A m \in messages : m.seq < new.seq /\ m.seq \in Nat
    BY <1>1 DEF MessageRow
<1>3. new.seq \in Nat
    BY <1>1 DEF MessageRow
<1> HIDE DEF new
<1>4. LastRow'
    <2>1. IsFiniteSet(messages')
        BY <1>1, FS_AddElement DEF LastRow
    <2>2. \A n \in messages' : n.seq <= new.seq
        BY <1>1, <1>2, <1>3
    <2>3. QED
        BY <1>1, <2>1, <2>2 DEF LastRow
<1>5. SeqUnique'
    BY <1>1, <1>2, <1>3 DEF SeqUnique
<1>6. QED
    BY <1>1, <1>4, <1>5

-----------------------------------------------------------------------------
\* A step of the one request in progress that only moves the request.
LEMMA OnlyRequest ==
    ASSUME IInv, Serial, NEW r \in Request, Active(r) \/ MayStart(r),
           NEW s \in RequestState, req' = [req EXCEPT ![r] = s],
           UNCHANGED <<conv, trip, messages, notes, hour>>, card' \in Filter \cup {None},
           s.pc \notin Ended \cup {"idle"} =>
               SessionCurrent(s, conv) /\ Prepared(s, conv, messages)
    PROVE  IInv'
<1>1. req \in [Request -> RequestState]
    BY DEF IInv, TypeOK
<1>2. TypeOK'
    BY <1>1 DEF IInv, TypeOK
<1>3. LastRow' /\ Kept'
    BY DEF IInv, LastRow, Kept, ExcludedNotCandidate, FrozenHonoursExclusion, SeqUnique
<1>4. req'[r] = s /\ \A q \in Request \ {r} : req'[q] = req[q]
    BY <1>1
<1>5. Active(r)' => InProgress(r)'
    BY <1>4 DEF Active, InProgress, SessionCurrent, Prepared
<1>6. QED
    BY <1>2, <1>3, <1>4, <1>5, OneMoves, Alone DEF IInv

\* A flush of the one session that is open writes that session's row.
LEMMA FlushedRow ==
    ASSUME IInv, NEW r \in Request, Active(r), req[r].pc # "lock",
           NEW row \in ConversationRow
    PROVE  Merge(conv, req[r].loaded, row) = row
    BY MergeAlone DEF IInv, TypeOK, InProgress, SessionCurrent

\* A step of the one request in progress that writes the row or the transcript.
LEMMA Writing ==
    ASSUME IInv, Serial, NEW r \in Request, Active(r), req[r].pc # "lock",
           NEW row \in ConversationRow, conv' = row,
           row.cands # None => row.cands.spots \cap row.excluded = {},
           row.frozen # None => row.frozen \cap row.excluded = {},
           ~Agentic => row.ctx # "closed",
           NEW s \in RequestState, req' = [req EXCEPT ![r] = s],
           messages' \subseteq MessageRow, LastRow', SeqUnique',
           trip' \in [intake : Filter \cup {NoFilter}, spot : Spot \cup {None}],
           UNCHANGED <<notes, card, hour>>,
           s.pc \notin Ended \cup {"idle"} =>
               SessionCurrent(s, row) /\ Prepared(s, row, messages')
    PROVE  IInv'
<1>1. req \in [Request -> RequestState]
    BY DEF IInv, TypeOK
<1>2. TypeOK'
    BY <1>1 DEF IInv, TypeOK
<1>3. Kept'
    BY DEF Kept, ExcludedNotCandidate, FrozenHonoursExclusion
<1>4. req'[r] = s /\ \A q \in Request \ {r} : req'[q] = req[q]
    BY <1>1
<1>5. Active(r)' => InProgress(r)'
    BY <1>4 DEF Active, InProgress
<1>6. QED
    BY <1>2, <1>3, <1>4, <1>5, OneMoves, Alone DEF IInv

\* What a request that is over keeps is well typed.
LEMMA OverTyped ==
    ASSUME TypeOK, NEW r \in Request, NEW how \in Ended
    PROVE  Over(r, how) \in RequestState /\ Over(r, how).pc = how
<1>1. req[r].spot \in Spot \cup {None} /\ req[r].reply \in Reply
    BY DEF TypeOK, RequestState
<1>2. Blank \in RequestState /\ how \in Phase
    BY BlankTyped DEF Phase
<1>3. [Blank EXCEPT !.pc = how] \in RequestState /\ [Blank EXCEPT !.pc = how].pc = how
    BY <1>2 DEF RequestState
<1>4. [Blank EXCEPT !.pc = how, !.spot = req[r].spot, !.reply = req[r].reply] \in RequestState
      /\ [Blank EXCEPT !.pc = how, !.spot = req[r].spot, !.reply = req[r].reply].pc = how
    BY <1>1, <1>2 DEF RequestState
<1>5. QED
    BY <1>3, <1>4 DEF Over

\* A request that ends without writing anything.
LEMMA Ending ==
    ASSUME IInv, Serial, NEW r \in Request, Active(r) \/ MayStart(r), NEW how \in Ended,
           End(r, how), UNCHANGED <<conv, trip, messages, notes, hour>>,
           card' \in Filter \cup {None}
    PROVE  IInv'
    BY OverTyped, OnlyRequest DEF IInv, End

\* The pipeline's listings are well typed and respect the exclusions it was given.
LEMMA PipelineRespects ==
    ASSUME TypeOK, NEW intake \in Filter \cup {NoFilter}, NEW excluded,
           NEW listing \in Pipeline(intake, excluded)
    PROVE  listing \in Listing /\ listing.spots \cap excluded = {}
    BY ConversationAssumption DEF TypeOK, Pipeline, Listing

\* Freezing a listing changes the frozen text only, to spots that are listed.
LEMMA FrozenRespects ==
    ASSUME TypeOK, NEW row \in ConversationRow, NEW listing \in Listing,
           NEW force \in BOOLEAN
    PROVE  LET new == Frozen(row, listing, force) IN
           /\ new \in ConversationRow
           /\ new.cands = row.cands /\ new.excluded = row.excluded /\ new.ctx = row.ctx
           /\ new.pending = row.pending
           /\ new.frozen \in {row.frozen, listing.spots}
<1>1. listing.spots \in SUBSET Spot /\ hour \in Hour
    BY DEF Listing, TypeOK
<1>2. QED
    BY <1>1 DEF Frozen, ConversationRow

-----------------------------------------------------------------------------
\* The steps of a turn, up to its first commit.
LEMMA TurnLoadInv ==
    ASSUME IInv, Serial, NEW t \in Turn, TurnLoad(t)
    PROVE  IInv'
<1>1. t \in Request /\ MayStart(t) /\ card' \in Filter \cup {None}
      /\ UNCHANGED <<conv, trip, messages, notes, hour>>
    BY DEF TurnLoad, Request
<1>2. CASE End(t, "refused")
    BY <1>1, <1>2, Ending DEF Ended
<1>3. CASE /\ ~(Agentic /\ conv.ctx = "closed")
           /\ req' = [req EXCEPT ![t] = [Blank EXCEPT !.pc = "loaded", !.loaded = conv,
                                                      !.row = conv, !.intake = trip.intake]]
    <2> DEFINE s == [Blank EXCEPT !.pc = "loaded", !.loaded = conv,
                                  !.row = conv, !.intake = trip.intake]
    <2>1. conv \in ConversationRow /\ trip.intake \in Filter \cup {NoFilter}
        BY DEF IInv, TypeOK
    <2>2. s \in RequestState
        BY <2>1, BlankTyped DEF RequestState, Phase
    <2>3. s.pc = "loaded" /\ s.loaded = conv /\ s.row = conv /\ s.slot = NoSlot
        BY DEF Blank
    <2>4. SessionCurrent(s, conv) /\ Prepared(s, conv, messages)
        BY <1>3, <2>3
        DEF SessionCurrent, Prepared, IInv, Kept, FrozenHonoursExclusion, TurnPhase
    <2> HIDE DEF s
    <2>5. QED
        BY <1>1, <1>3, <2>2, <2>4, OnlyRequest DEF s
<1>4. QED
    BY <1>2, <1>3 DEF TurnLoad

LEMMA TurnBuildInv ==
    ASSUME IInv, Serial, NEW t \in Turn, TurnBuild(t)
    PROVE  IInv'
<1>1. t \in Request /\ Active(t) /\ req[t].pc = "loaded" /\ InProgress(t)
      /\ UNCHANGED <<conv, trip, messages, notes, card, hour>>
      /\ card' \in Filter \cup {None}
    BY DEF TurnBuild, Request, Active, IInv, TypeOK, Ended
<1>2. PICK base \in Candidates(req[t].row, req[t].intake) :
      \E listing \in Refreshed(req[t].row, base, FALSE) :
          req' = [req EXCEPT ![t].pc = IF Agentic THEN "assess" ELSE "user",
                             ![t].listing = listing,
                             ![t].row = Frozen(@, listing, FALSE),
                             ![t].size = Cardinality(messages)]
    BY DEF TurnBuild
<1>3. PICK listing \in Refreshed(req[t].row, base, FALSE) :
          req' = [req EXCEPT ![t].pc = IF Agentic THEN "assess" ELSE "user",
                             ![t].listing = listing,
                             ![t].row = Frozen(@, listing, FALSE),
                             ![t].size = Cardinality(messages)]
    BY <1>2
<1>4. req[t] \in RequestState /\ req[t].row \in ConversationRow
      /\ req[t].intake \in Filter \cup {NoFilter}
    BY <1>1 DEF IInv, TypeOK, RequestState
<1>5. base \in Listing /\ base.spots \cap conv.excluded = {}
    <2>1. CASE req[t].row.cands = None
        BY <1>1, <1>4, <2>1, PipelineRespects
        DEF Candidates, IInv, InProgress, SessionCurrent
    <2>2. CASE req[t].row.cands # None
        BY <1>1, <1>4, <2>2
        DEF Candidates, IInv, InProgress, SessionCurrent, Kept, ExcludedNotCandidate, ConversationRow
    <2>3. QED
        BY <2>1, <2>2
<1>6. listing \in Listing /\ listing.spots \cap conv.excluded = {}
    <2>1. hour \in Hour
        BY DEF IInv, TypeOK
    <2>2. \A c \in {base.cond, hour} :
             [base EXCEPT !.cond = c] \in Listing /\ [base EXCEPT !.cond = c].spots = base.spots
        BY <1>5, <2>1 DEF Listing
    <2>3. QED
        BY <1>5, <2>2 DEF Refreshed
<1>7. Cardinality(messages) \in Nat
    BY FS_CardinalityType DEF IInv, LastRow
<1> DEFINE row == Frozen(req[t].row, listing, FALSE)
           s == [req[t] EXCEPT !.pc = IF Agentic THEN "assess" ELSE "user",
                               !.listing = listing, !.row = row, !.size = Cardinality(messages)]
<1>8. /\ row \in ConversationRow
      /\ row.cands = req[t].row.cands /\ row.excluded = req[t].row.excluded
      /\ row.ctx = req[t].row.ctx /\ row.frozen \in {req[t].row.frozen, listing.spots}
    BY <1>4, <1>6, FrozenRespects DEF IInv
<1> HIDE DEF row
<1>9. s \in RequestState
    BY <1>4, <1>6, <1>7, <1>8 DEF RequestState, Phase
<1>10. /\ s.pc \in {"assess", "user"} /\ (s.pc = "assess" => Agentic)
       /\ s.loaded = req[t].loaded /\ s.row = row /\ s.listing = listing
       /\ s.slot = req[t].slot
    BY <1>4 DEF RequestState
<1>11. SessionCurrent(s, conv)
    BY <1>1, <1>6, <1>8, <1>10 DEF SessionCurrent, InProgress
<1>12. Prepared(s, conv, messages)
    BY <1>1, <1>6, <1>10 DEF Prepared, InProgress, TurnPhase
<1>13. req' = [req EXCEPT ![t] = s]
    BY <1>3 DEF row
<1> HIDE DEF s
<1>14. QED
    BY <1>1, <1>9, <1>11, <1>12, <1>13, OnlyRequest

LEMMA TurnAssessInv ==
    ASSUME IInv, Serial, NEW t \in Turn, TurnAssess(t)
    PROVE  IInv'
<1> DEFINE band == BudgetState(req[t].size)
           row == [req[t].row EXCEPT !.ctx = band]
<1>1. t \in Request /\ Active(t) /\ req[t].pc = "assess" /\ InProgress(t)
      /\ UNCHANGED <<trip, messages, notes, card, hour>>
    BY DEF TurnAssess, Request, Active, IInv, Ended
<1>2. req[t] \in RequestState /\ req[t].row \in ConversationRow /\ Agentic
      /\ card \in Filter \cup {None} /\ req \in [Request -> RequestState]
      /\ trip \in [intake : Filter \cup {NoFilter}, spot : Spot \cup {None}]
      /\ messages \subseteq MessageRow /\ LastRow /\ SeqUnique
    BY <1>1 DEF IInv, TypeOK, RequestState, InProgress, Prepared, Kept
<1>3. band \in {"ok", "warning", "closed"}
    BY DEF BudgetState
<1>4. /\ row \in ConversationRow /\ row.cands = req[t].row.cands /\ row.ctx = band
      /\ row.excluded = req[t].row.excluded /\ row.frozen = req[t].row.frozen
    BY <1>2, <1>3 DEF ConversationRow
<1>5. /\ row.cands # None => row.cands.spots \cap row.excluded = {}
      /\ row.frozen # None => row.frozen \cap row.excluded = {}
    BY <1>1, <1>4 DEF InProgress, SessionCurrent, IInv, Kept, ExcludedNotCandidate
<1>6. LastRow' /\ SeqUnique'
    BY <1>1, <1>2 DEF LastRow, SeqUnique
<1> HIDE DEF row, band
<1>7. CASE band \notin {req[t].row.ctx, "closed"} /\ Flush(t, row, "user")
    <2> DEFINE s == [req[t] EXCEPT !.pc = "user", !.loaded = row, !.row = row]
    <2>1. s \in RequestState
        BY <1>2, <1>4 DEF RequestState, Phase
    <2>2. s.pc = "user" /\ s.loaded = row /\ s.row = row /\ s.listing = req[t].listing
          /\ s.slot = req[t].slot
        BY <1>2 DEF RequestState
    <2>3. Prepared(s, row, messages')
        BY <1>1, <1>4, <1>7, <2>2 DEF Prepared, InProgress, SessionCurrent, TurnPhase
    <2>4. req' = [req EXCEPT ![t] = s] /\ conv' = row
        BY <1>1, <1>4, <1>7, FlushedRow DEF Flush
    <2>5. SessionCurrent(s, row)
        BY <1>5, <2>2 DEF SessionCurrent
    <2> HIDE DEF s
    <2>6. QED
        BY <1>1, <1>2, <1>4, <1>5, <1>6, <2>1, <2>3, <2>4, <2>5, Writing
<1>8. CASE band = req[t].row.ctx /\ band # "closed" /\ Go(t, "user") /\ UNCHANGED conv
    <2> DEFINE s == [req[t] EXCEPT !.pc = "user"]
    <2>1. s \in RequestState
        BY <1>2 DEF RequestState, Phase
    <2>2. s.pc = "user" /\ s.loaded = req[t].loaded /\ s.row = req[t].row
          /\ s.listing = req[t].listing /\ s.slot = req[t].slot
        BY <1>2 DEF RequestState
    <2>3. SessionCurrent(s, conv) /\ Prepared(s, conv, messages)
        BY <1>1, <2>2 DEF SessionCurrent, Prepared, InProgress, TurnPhase
    <2>4. req' = [req EXCEPT ![t] = s]
        BY <1>8 DEF Go
    <2> HIDE DEF s
    <2>5. QED
        BY <1>1, <1>2, <1>8, <2>1, <2>3, <2>4, OnlyRequest
<1>9. CASE /\ band = "closed"
           /\ conv' = Merge(conv, req[t].loaded, row)
           /\ End(t, "refused")
    <2>1. Over(t, "refused") \in RequestState /\ Over(t, "refused").pc = "refused"
        BY <1>1, OverTyped DEF IInv, Ended
    <2>2. "refused" \in Ended
        BY DEF Ended
    <2>3. conv' = row
        BY <1>1, <1>4, <1>9, FlushedRow
    <2>4. QED
        BY <1>1, <1>2, <1>4, <1>5, <1>6, <1>9, <2>1, <2>2, <2>3, Writing DEF End
<1>10. QED
    BY <1>7, <1>8, <1>9 DEF TurnAssess, row, band

LEMMA ReadSlotInv ==
    ASSUME IInv, Serial, NEW t \in Turn, ReadSlot(t)
    PROVE  IInv'
<1> DEFINE s == [req[t] EXCEPT !.slot = NextSeq]
<1>1. t \in Request /\ Active(t) /\ InProgress(t) /\ req' = [req EXCEPT ![t] = s]
      /\ req[t].pc \in {"user", "call", "result", "reply"}
      /\ UNCHANGED <<conv, trip, messages, notes, card, hour>>
    BY DEF ReadSlot, Request, Active, IInv, Ended
<1>2. req[t] \in RequestState /\ card \in Filter \cup {None}
    BY <1>1 DEF IInv, TypeOK
<1>3. NextSeq \in Nat /\ \A m \in messages : m.seq < NextSeq
    BY NextSeqAhead DEF IInv
<1>4. s \in RequestState
    BY <1>2, <1>3 DEF RequestState
<1>5. /\ s.pc = req[t].pc /\ s.loaded = req[t].loaded /\ s.row = req[t].row
      /\ s.listing = req[t].listing /\ s.slot = NextSeq /\ s.calls = req[t].calls
    BY <1>2 DEF RequestState
<1>6. SessionCurrent(s, conv) /\ Prepared(s, conv, messages)
    BY <1>1, <1>3, <1>5 DEF SessionCurrent, Prepared, InProgress
<1> HIDE DEF s
<1>7. QED
    BY <1>1, <1>2, <1>4, <1>6, OnlyRequest

\* What is known of the turn in progress when it is about to write.
LEMMA TurnFacts ==
    ASSUME IInv, NEW t \in Turn, req[t].pc \in TurnPhase
    PROVE  /\ t \in Request /\ Active(t) /\ InProgress(t) /\ req[t].pc # "lock"
           /\ req \in [Request -> RequestState] /\ req[t] \in RequestState
           /\ req[t].row \in ConversationRow /\ conv \in ConversationRow
           /\ card \in Filter \cup {None}
           /\ trip \in [intake : Filter \cup {NoFilter}, spot : Spot \cup {None}]
           /\ messages \subseteq MessageRow /\ LastRow /\ SeqUnique
           /\ conv.ctx # "closed" /\ req[t].row.ctx # "closed"
           /\ req[t].slot \in Nat \cup {NoSlot}
           /\ req[t].slot # NoSlot => \A m \in messages : m.seq < req[t].slot
           /\ conv.cands # None => conv.cands.spots \cap conv.excluded = {}
           /\ conv.frozen # None => conv.frozen \cap conv.excluded = {}
<1>1. t \in Request /\ Active(t) /\ req[t].pc # "lock"
    BY DEF Request, Active, TurnPhase, Ended
<1>2. InProgress(t) /\ TypeOK /\ LastRow /\ Kept
    BY <1>1 DEF IInv
<1>3. req \in [Request -> RequestState] /\ req[t] \in RequestState
    BY <1>1, <1>2 DEF TypeOK
<1>4. req[t].row \in ConversationRow /\ req[t].slot \in Nat \cup {NoSlot}
    BY <1>3 DEF RequestState
<1>5. conv.ctx # "closed" /\ req[t].row.ctx # "closed"
      /\ (req[t].slot # NoSlot => \A m \in messages : m.seq < req[t].slot)
    BY <1>1, <1>2 DEF InProgress, Prepared, SessionCurrent
<1>6. QED
    BY <1>1, <1>2, <1>3, <1>4, <1>5
    DEF TypeOK, Kept, ExcludedNotCandidate, FrozenHonoursExclusion

\* A row the turn in progress adds goes past the others.
LEMMA AppendInTurn ==
    ASSUME IInv, NEW t \in Turn, req[t].pc \in TurnPhase, NEW kind, NEW calls,
           kind \in {"user", "call", "result", "answer"}, calls \in 0..MaxToolCalls,
           Append(t, kind, calls)
    PROVE  messages' \subseteq MessageRow /\ LastRow' /\ SeqUnique'
<1>1. req[t].slot \in Nat \cup {NoSlot} /\ req[t].slot # NoSlot
      /\ (\A m \in messages : m.seq < req[t].slot) /\ SeqUnique
    BY TurnFacts DEF Append
<1>2. QED
    BY <1>1, AppendKeeps DEF IInv

LEMMA PersistUserInv ==
    ASSUME IInv, Serial, NEW t \in Turn, PersistUser(t)
    PROVE  IInv'
<1> DEFINE row == req[t].row
           s == [req[t] EXCEPT !.pc = "list", !.slot = NoSlot, !.loaded = row]
<1>1. /\ req[t].pc = "user" /\ Append(t, "user", 0) /\ conv' = Merge(conv, req[t].loaded, row)
      /\ req' = [req EXCEPT ![t] = s] /\ UNCHANGED <<trip, notes, card, hour>>
    BY DEF PersistUser
<1>2. t \in Request /\ Active(t) /\ InProgress(t) /\ req[t] \in RequestState
      /\ row \in ConversationRow
      /\ trip \in [intake : Filter \cup {NoFilter}, spot : Spot \cup {None}]
    BY <1>1, TurnFacts DEF TurnPhase
<1>3. messages' \subseteq MessageRow /\ LastRow' /\ SeqUnique'
    BY <1>1, AppendInTurn, ConversationAssumption DEF TurnPhase
<1>4. conv' = row
    BY <1>1, <1>2, FlushedRow
<1>5. s \in RequestState
    BY <1>2 DEF RequestState, Phase
<1>6. s.pc = "list" /\ s.loaded = row /\ s.row = row /\ s.slot = NoSlot
      /\ s.listing = req[t].listing
    BY <1>2 DEF RequestState
<1>7. /\ row.excluded = conv.excluded /\ row.cands = conv.cands /\ row.ctx = conv.ctx
      /\ row.cands # None => row.cands.spots \cap row.excluded = {}
      /\ row.frozen # None => row.frozen \cap row.excluded = {}
      /\ row.ctx # "closed"
    BY <1>1, <1>2, TurnFacts DEF InProgress, SessionCurrent, TurnPhase
<1>8. SessionCurrent(s, row)
    BY <1>6, <1>7 DEF SessionCurrent
<1>9. Prepared(s, row, messages')
    BY <1>1, <1>2, <1>6, <1>7 DEF Prepared, InProgress
<1> HIDE DEF s
<1>10. QED
    BY <1>1, <1>2, <1>3, <1>4, <1>5, <1>7, <1>8, <1>9, Writing

LEMMA PersistCandsInv ==
    ASSUME IInv, Serial, NEW t \in Turn, PersistCands(t)
    PROVE  IInv'
<1> DEFINE row == [req[t].row EXCEPT !.cands = req[t].listing]
           s == [req[t] EXCEPT !.pc = "think", !.loaded = row, !.row = row]
<1>1. /\ req[t].pc = "list" /\ conv' = Merge(conv, req[t].loaded, row)
      /\ req' = [req EXCEPT ![t] = s] /\ UNCHANGED <<trip, messages, notes, card, hour>>
    BY DEF PersistCands, Flush
<1>2. t \in Request /\ Active(t) /\ InProgress(t) /\ req[t] \in RequestState
      /\ req[t].row \in ConversationRow /\ messages \subseteq MessageRow /\ LastRow /\ SeqUnique
      /\ trip \in [intake : Filter \cup {NoFilter}, spot : Spot \cup {None}]
    BY <1>1, TurnFacts DEF TurnPhase
<1>3. req[t].listing \in Listing /\ req[t].listing.spots \cap conv.excluded = {}
    BY <1>1, <1>2 DEF InProgress, Prepared
<1>4. /\ row \in ConversationRow /\ row.cands = req[t].listing
      /\ row.excluded = req[t].row.excluded /\ row.ctx = req[t].row.ctx
      /\ row.frozen = req[t].row.frozen
    BY <1>2, <1>3 DEF ConversationRow
<1>5. /\ row.excluded = conv.excluded
      /\ row.cands # None => row.cands.spots \cap row.excluded = {}
      /\ row.frozen # None => row.frozen \cap row.excluded = {}
      /\ row.ctx # "closed"
    BY <1>1, <1>2, <1>3, <1>4, TurnFacts DEF InProgress, SessionCurrent, TurnPhase
<1> HIDE DEF row
<1>6. conv' = row
    BY <1>1, <1>2, <1>4, FlushedRow
<1>7. s \in RequestState
    BY <1>2, <1>4 DEF RequestState, Phase
<1>8. s.pc = "think" /\ s.loaded = row /\ s.row = row /\ s.slot = req[t].slot
    BY <1>2 DEF RequestState
<1>9. SessionCurrent(s, row)
    BY <1>5, <1>8 DEF SessionCurrent
<1>10. Prepared(s, row, messages')
    BY <1>1, <1>2, <1>5, <1>8 DEF Prepared, InProgress
<1>11. LastRow' /\ SeqUnique'
    BY <1>1, <1>2 DEF LastRow, SeqUnique
<1> HIDE DEF s
<1>12. QED
    BY <1>1, <1>2, <1>4, <1>5, <1>6, <1>7, <1>9, <1>10, <1>11, Writing

-----------------------------------------------------------------------------
\* The steps of a turn that talk to the model and write the rest of its rows.
LEMMA ServeCachedInv ==
    ASSUME IInv, Serial, NEW t \in Turn, ServeCached(t)
    PROVE  IInv'
<1> DEFINE reply == [NoReply EXCEPT !.text = TRUE, !.cached = TRUE]
           s == [req[t] EXCEPT !.pc = "reply", !.reply = reply]
<1>1. /\ req[t].pc = "think" /\ req' = [req EXCEPT ![t] = s]
      /\ UNCHANGED <<conv, trip, messages, notes, card, hour>>
    BY DEF ServeCached
<1>2. t \in Request /\ Active(t) /\ InProgress(t) /\ req[t] \in RequestState
      /\ card \in Filter \cup {None}
    BY <1>1, TurnFacts DEF TurnPhase
<1>3. reply \in Reply
    BY BlankTyped DEF Reply
<1> HIDE DEF reply
<1>4. s \in RequestState
    BY <1>2, <1>3 DEF RequestState, Phase
<1>5. s.pc = "reply" /\ s.loaded = req[t].loaded /\ s.row = req[t].row /\ s.slot = req[t].slot
    BY <1>2 DEF RequestState
<1>6. SessionCurrent(s, conv) /\ Prepared(s, conv, messages)
    BY <1>1, <1>2, <1>5 DEF SessionCurrent, Prepared, InProgress, TurnPhase
<1> HIDE DEF s
<1>7. QED
    BY <1>1, <1>2, <1>4, <1>6, OnlyRequest

LEMMA ToolHopInv ==
    ASSUME IInv, Serial, NEW t \in Turn, NEW n \in 1..MaxToolCalls, NEW asked \in SUBSET Spot,
           ToolHop(t, asked, n)
    PROVE  IInv'
<1> DEFINE given == asked \ req[t].row.excluded
           s == [req[t] EXCEPT !.pc = "call", !.hop = @ + 1, !.calls = n, !.given = given]
<1>1. /\ req[t].pc = "think" /\ req[t].hop < HopCap /\ req' = [req EXCEPT ![t] = s]
      /\ UNCHANGED <<conv, trip, messages, notes, card, hour>>
    BY DEF ToolHop
<1>2. t \in Request /\ Active(t) /\ InProgress(t) /\ req[t] \in RequestState
      /\ card \in Filter \cup {None}
    BY <1>1, TurnFacts DEF TurnPhase
<1>3. req[t].hop + 1 \in 0..HopCap /\ n \in 0..MaxToolCalls /\ n >= 1
    <2>1. req[t].hop \in 0..HopCap
        BY <1>2 DEF RequestState
    <2>2. QED
        BY <1>1, <2>1, ConversationAssumption
<1>4. given \in SUBSET Spot
    OBVIOUS
<1> HIDE DEF given
<1>5. s \in RequestState
    BY <1>2, <1>3, <1>4 DEF RequestState, Phase
<1>6. s.pc = "call" /\ s.loaded = req[t].loaded /\ s.row = req[t].row /\ s.slot = req[t].slot
      /\ s.calls = n
    BY <1>2 DEF RequestState
<1>7. SessionCurrent(s, conv) /\ Prepared(s, conv, messages)
    BY <1>1, <1>2, <1>3, <1>6 DEF SessionCurrent, Prepared, InProgress, TurnPhase
<1> HIDE DEF s
<1>8. QED
    BY <1>1, <1>2, <1>5, <1>7, OnlyRequest

LEMMA PersistCallInv ==
    ASSUME IInv, Serial, NEW t \in Turn, PersistCall(t)
    PROVE  IInv'
<1> DEFINE s == [req[t] EXCEPT !.pc = "result", !.slot = NoSlot]
<1>1. /\ req[t].pc = "call" /\ Append(t, "call", req[t].calls)
      /\ req' = [req EXCEPT ![t] = s] /\ UNCHANGED <<conv, trip, notes, card, hour>>
    BY DEF PersistCall
<1>2. t \in Request /\ Active(t) /\ InProgress(t) /\ req[t] \in RequestState
      /\ req[t].calls \in 0..MaxToolCalls /\ req[t].pc # "lock" /\ conv \in ConversationRow
    BY <1>1, TurnFacts DEF TurnPhase, RequestState
<1>3. messages' \subseteq MessageRow /\ LastRow' /\ SeqUnique'
    BY <1>1, <1>2, AppendInTurn DEF TurnPhase
<1>4. s \in RequestState
    BY <1>2 DEF RequestState, Phase
<1>5. s.pc = "result" /\ s.loaded = req[t].loaded /\ s.row = req[t].row /\ s.slot = NoSlot
      /\ s.calls = req[t].calls
    BY <1>2 DEF RequestState
<1>6. SessionCurrent(s, conv) /\ Prepared(s, conv, messages')
    BY <1>1, <1>2, <1>5 DEF SessionCurrent, Prepared, InProgress, TurnPhase
<1> HIDE DEF s
<1>7. trip' \in [intake : Filter \cup {NoFilter}, spot : Spot \cup {None}]
    BY <1>1, TurnFacts DEF TurnPhase
<1>8. QED
    BY <1>1, <1>2, <1>3, <1>4, <1>6, <1>7, TurnFacts, Writing DEF TurnPhase

LEMMA PersistResultInv ==
    ASSUME IInv, Serial, NEW t \in Turn, PersistResult(t)
    PROVE  IInv'
<1> DEFINE last == req[t].calls = 1
           s == [req[t] EXCEPT !.pc = IF last THEN "think" ELSE "result",
                               !.calls = @ - 1, !.slot = NoSlot,
                               !.given = IF last THEN {} ELSE @]
<1>1. /\ req[t].pc = "result" /\ Append(t, "result", 0)
      /\ req' = [req EXCEPT ![t] = s] /\ UNCHANGED <<conv, trip, notes, card, hour>>
    BY DEF PersistResult
<1>2. t \in Request /\ Active(t) /\ InProgress(t) /\ req[t] \in RequestState
      /\ req[t].pc # "lock" /\ conv \in ConversationRow
    BY <1>1, TurnFacts DEF TurnPhase
<1>3. req[t].calls \in 0..MaxToolCalls /\ req[t].calls >= 1 /\ req[t].given \in SUBSET Spot
    BY <1>1, <1>2 DEF RequestState, InProgress, Prepared
<1>4. req[t].calls - 1 \in 0..MaxToolCalls /\ (req[t].calls # 1 => req[t].calls - 1 >= 1)
    BY <1>3, ConversationAssumption
<1>5. messages' \subseteq MessageRow /\ LastRow' /\ SeqUnique'
    BY <1>1, AppendInTurn, ConversationAssumption DEF TurnPhase
<1> DEFINE left == req[t].calls - 1
           given == IF last THEN {} ELSE req[t].given
           s2 == [req[t] EXCEPT !.pc = IF last THEN "think" ELSE "result",
                                !.calls = left, !.slot = NoSlot, !.given = given]
<1>6. s = s2 /\ given \in SUBSET Spot /\ left \in 0..MaxToolCalls /\ (~last => left >= 1)
    BY <1>2, <1>3, <1>4 DEF RequestState
<1> HIDE DEF left, given, last
<1>7. s2 \in RequestState
    BY <1>2, <1>6 DEF RequestState, Phase
<1>8. /\ s2.pc = IF last THEN "think" ELSE "result"
      /\ s2.loaded = req[t].loaded /\ s2.row = req[t].row /\ s2.slot = NoSlot
      /\ s2.calls = left
    BY <1>2 DEF RequestState
<1>9. SessionCurrent(s2, conv) /\ Prepared(s2, conv, messages')
    BY <1>1, <1>2, <1>6, <1>8 DEF SessionCurrent, Prepared, InProgress, TurnPhase
<1>10. trip' \in [intake : Filter \cup {NoFilter}, spot : Spot \cup {None}]
    BY <1>1, TurnFacts DEF TurnPhase
<1>11. req' = [req EXCEPT ![t] = s2]
    BY <1>1, <1>6
<1> HIDE DEF s, s2
<1>12. QED
    BY <1>1, <1>2, <1>5, <1>7, <1>9, <1>10, <1>11, TurnFacts, Writing DEF TurnPhase

LEMMA AnswerInv ==
    ASSUME IInv, Serial, NEW t \in Turn, NEW reply \in Reply, Answer(t, reply)
    PROVE  IInv'
<1> DEFINE s == [req[t] EXCEPT !.pc = IF reply.text THEN "reply" ELSE "effects",
                               !.reply = reply]
<1>1. /\ req[t].pc = "think" /\ req' = [req EXCEPT ![t] = s]
      /\ card' \in {card, IF reply.filter = None THEN card ELSE reply.filter}
      /\ UNCHANGED <<conv, trip, messages, notes, hour>>
    BY DEF Answer
<1>2. t \in Request /\ Active(t) /\ InProgress(t) /\ req[t] \in RequestState
      /\ card \in Filter \cup {None}
    BY <1>1, TurnFacts DEF TurnPhase
<1>3. card' \in Filter \cup {None}
    BY <1>1, <1>2 DEF Reply
<1>4. s \in RequestState
    BY <1>2 DEF RequestState, Phase
<1>5. s.pc \in {"reply", "effects"} /\ s.loaded = req[t].loaded /\ s.row = req[t].row
      /\ s.slot = req[t].slot
    BY <1>2 DEF RequestState
<1>6. SessionCurrent(s, conv) /\ Prepared(s, conv, messages)
    BY <1>1, <1>2, <1>5 DEF SessionCurrent, Prepared, InProgress, TurnPhase
<1> HIDE DEF s
<1>7. QED
    BY <1>1, <1>2, <1>3, <1>4, <1>6, OnlyRequest

\* A proposed filter is all that a turn's last write changes in the row.
LEMMA ProposedRow ==
    ASSUME IInv, NEW t \in Turn, req[t].pc \in TurnPhase
    PROVE  LET row == Proposed(t) IN
           /\ row \in ConversationRow
           /\ row.excluded = conv.excluded /\ row.cands = conv.cands /\ row.ctx = conv.ctx
           /\ row.ctx # "closed"
           /\ row.cands # None => row.cands.spots \cap row.excluded = {}
           /\ row.frozen # None => row.frozen \cap row.excluded = {}
<1>1. req[t].reply.filter \in Filter \cup {None} /\ req[t].row \in ConversationRow
    BY TurnFacts DEF RequestState, Reply
<1>2. /\ Proposed(t) \in ConversationRow
      /\ Proposed(t).excluded = req[t].row.excluded /\ Proposed(t).cands = req[t].row.cands
      /\ Proposed(t).ctx = req[t].row.ctx /\ Proposed(t).frozen = req[t].row.frozen
    BY <1>1 DEF Proposed, ConversationRow
<1>3. QED
    BY <1>2, TurnFacts DEF InProgress, SessionCurrent

LEMMA PersistAnswerInv ==
    ASSUME IInv, Serial, NEW t \in Turn, PersistAnswer(t)
    PROVE  IInv'
<1>1. /\ req[t].pc = "reply" /\ Append(t, "answer", 0)
      /\ UNCHANGED <<trip, notes, card, hour>>
    BY DEF PersistAnswer
<1>2. t \in Request /\ Active(t) /\ InProgress(t) /\ req[t] \in RequestState
      /\ req[t].pc # "lock" /\ conv \in ConversationRow
      /\ trip' \in [intake : Filter \cup {NoFilter}, spot : Spot \cup {None}]
    BY <1>1, TurnFacts DEF TurnPhase
<1>3. messages' \subseteq MessageRow /\ LastRow' /\ SeqUnique'
    BY <1>1, AppendInTurn, ConversationAssumption DEF TurnPhase
<1>4. CASE /\ req' = [req EXCEPT ![t].pc = "effects", ![t].slot = NoSlot]
           /\ UNCHANGED conv
    <2> DEFINE s == [req[t] EXCEPT !.pc = "effects", !.slot = NoSlot]
    <2>1. s \in RequestState
        BY <1>2 DEF RequestState, Phase
    <2>2. s.pc = "effects" /\ s.loaded = req[t].loaded /\ s.row = req[t].row /\ s.slot = NoSlot
        BY <1>2 DEF RequestState
    <2>3. SessionCurrent(s, conv) /\ Prepared(s, conv, messages')
        BY <1>1, <1>2, <2>2 DEF SessionCurrent, Prepared, InProgress, TurnPhase
    <2>4. req' = [req EXCEPT ![t] = s]
        BY <1>4
    <2> HIDE DEF s
    <2>5. QED
        BY <1>1, <1>2, <1>3, <1>4, <2>1, <2>3, <2>4, TurnFacts, Writing DEF TurnPhase
<1>5. CASE /\ conv' = Merge(conv, req[t].loaded, Proposed(t))
           /\ req' = [req EXCEPT ![t].pc = "notes", ![t].slot = NoSlot,
                                 ![t].loaded = Proposed(t), ![t].row = Proposed(t)]
    <2> DEFINE row == Proposed(t)
               s == [req[t] EXCEPT !.pc = "notes", !.slot = NoSlot,
                                   !.loaded = row, !.row = row]
    <2>1. /\ row \in ConversationRow /\ row.ctx # "closed"
          /\ row.cands # None => row.cands.spots \cap row.excluded = {}
          /\ row.frozen # None => row.frozen \cap row.excluded = {}
        BY <1>1, ProposedRow DEF TurnPhase
    <2>2. conv' = row /\ req' = [req EXCEPT ![t] = s]
        BY <1>2, <1>5, <2>1, FlushedRow
    <2> HIDE DEF row
    <2>3. s \in RequestState
        BY <1>2, <2>1 DEF RequestState, Phase
    <2>4. s.pc = "notes" /\ s.loaded = row /\ s.row = row /\ s.slot = NoSlot
        BY <1>2 DEF RequestState
    <2>5. SessionCurrent(s, row) /\ Prepared(s, row, messages')
        BY <2>1, <2>4 DEF SessionCurrent, Prepared
    <2> HIDE DEF s
    <2>6. QED
        BY <1>1, <1>2, <1>3, <2>1, <2>2, <2>3, <2>5, Writing
<1>6. QED
    BY <1>4, <1>5 DEF PersistAnswer

LEMMA PersistEffectsInv ==
    ASSUME IInv, Serial, NEW t \in Turn, PersistEffects(t)
    PROVE  IInv'
<1> DEFINE row == Proposed(t)
           s == [req[t] EXCEPT !.pc = "notes", !.loaded = row, !.row = row]
<1>1. /\ req[t].pc = "effects" /\ conv' = Merge(conv, req[t].loaded, row)
      /\ req' = [req EXCEPT ![t] = s] /\ UNCHANGED <<trip, messages, notes, card, hour>>
    BY DEF PersistEffects, Flush
<1>2. t \in Request /\ Active(t) /\ InProgress(t) /\ req[t] \in RequestState
      /\ req[t].pc # "lock" /\ messages \subseteq MessageRow /\ LastRow /\ SeqUnique
      /\ trip' \in [intake : Filter \cup {NoFilter}, spot : Spot \cup {None}]
    BY <1>1, TurnFacts DEF TurnPhase
<1>3. /\ row \in ConversationRow /\ row.ctx # "closed"
      /\ row.cands # None => row.cands.spots \cap row.excluded = {}
      /\ row.frozen # None => row.frozen \cap row.excluded = {}
    BY <1>1, ProposedRow DEF TurnPhase
<1> HIDE DEF row
<1>4. conv' = row
    BY <1>1, <1>2, <1>3, FlushedRow
<1>5. s \in RequestState
    BY <1>2, <1>3 DEF RequestState, Phase
<1>6. s.pc = "notes" /\ s.loaded = row /\ s.row = row /\ s.slot = req[t].slot
    BY <1>2 DEF RequestState
<1>7. SessionCurrent(s, row) /\ Prepared(s, row, messages')
    BY <1>1, <1>2, <1>3, <1>6 DEF SessionCurrent, Prepared, InProgress
<1>8. LastRow' /\ SeqUnique'
    BY <1>1, <1>2 DEF LastRow, SeqUnique
<1> HIDE DEF s
<1>9. QED
    BY <1>1, <1>2, <1>3, <1>4, <1>5, <1>7, <1>8, Writing

LEMMA PersistNoteInv ==
    ASSUME IInv, NEW t \in Turn, PersistNote(t)
    PROVE  IInv'
<1>1. /\ req[t].pc = "notes" /\ notes[t] < req[t].reply.notes
      /\ notes' = [notes EXCEPT ![t] = @ + 1]
      /\ UNCHANGED <<conv, trip, messages, card, hour, req>>
    BY DEF PersistNote
<1>2. req[t].reply.notes \in 0..MaxNotes /\ notes \in [Turn -> 0..MaxNotes]
    BY <1>1, TurnFacts DEF TurnPhase, RequestState, Reply, IInv, TypeOK
<1>3. notes[t] + 1 \in 0..MaxNotes
    BY <1>1, <1>2, ConversationAssumption
<1>4. TypeOK'
    BY <1>1, <1>2, <1>3 DEF IInv, TypeOK
<1>5. QED
    BY <1>1, <1>4
    DEF IInv, LastRow, OneAtATime, Active, Kept, ExcludedNotCandidate,
        FrozenHonoursExclusion, SeqUnique, InProgress

LEMMA DoneInv ==
    ASSUME IInv, Serial, NEW t \in Turn, Done(t)
    PROVE  IInv'
<1>1. /\ req[t].pc = "notes" /\ End(t, "done")
      /\ UNCHANGED <<conv, trip, messages, notes, card, hour>>
    BY DEF Done
<1>2. t \in Request /\ Active(t) /\ card \in Filter \cup {None}
    BY <1>1, TurnFacts DEF TurnPhase
<1>3. "done" \in Ended
    BY DEF Ended
<1>4. QED
    BY <1>1, <1>2, <1>3, Ending

-----------------------------------------------------------------------------
\* The other handlers.

\* A handler that has loaded the row and will write it back.
LEMMA LoadingInv ==
    ASSUME IInv, Serial, NEW r \in Request, MayStart(r), NEW s \in RequestState,
           s.pc \in {"exclude", "apply", "reject"},
           s.loaded = conv, s.row = conv, s.slot = NoSlot,
           req' = [req EXCEPT ![r] = s],
           UNCHANGED <<conv, trip, messages, notes, hour>>, card' \in Filter \cup {None},
           s.pc = "exclude" => s.spot \in Spot /\ conv.cands # None /\ s.spot \in conv.cands.spots,
           s.pc = "apply" => conv.pending # None
    PROVE  IInv'
<1>1. conv \in ConversationRow
    BY DEF IInv, TypeOK
<1>2. SessionCurrent(s, conv)
    BY DEF SessionCurrent, IInv, Kept, FrozenHonoursExclusion
<1>3. Prepared(s, conv, messages)
    BY <1>1 DEF Prepared, TurnPhase, ConversationRow
<1>4. QED
    BY <1>2, <1>3, OnlyRequest

\* A handler whose commit is its last step.
LEMMA LastWriteInv ==
    ASSUME IInv, Serial, NEW r \in Request, Active(r), req[r].pc # "lock",
           NEW row \in ConversationRow, FlushAndEnd(r, row),
           row.cands # None => row.cands.spots \cap row.excluded = {},
           row.frozen # None => row.frozen \cap row.excluded = {},
           ~Agentic => row.ctx # "closed",
           UNCHANGED <<trip, messages, notes, card, hour>>
    PROVE  IInv'
<1>1. conv' = row /\ req' = [req EXCEPT ![r] = Over(r, "done")]
    BY FlushedRow DEF FlushAndEnd, End
<1>2. Over(r, "done") \in RequestState /\ Over(r, "done").pc = "done" /\ "done" \in Ended
    BY OverTyped DEF IInv, Ended
<1>3. messages' \subseteq MessageRow /\ LastRow' /\ SeqUnique'
      /\ trip' \in [intake : Filter \cup {NoFilter}, spot : Spot \cup {None}]
    BY DEF IInv, TypeOK, LastRow, Kept, SeqUnique
<1>4. QED
    BY <1>1, <1>2, <1>3, Writing

\* What is known of a request in progress that holds the row.
LEMMA HolderFacts ==
    ASSUME IInv, NEW r \in Request, req[r].pc \in {"exclude", "reject", "apply", "rerun"}
    PROVE  /\ Active(r) /\ req[r].pc # "lock" /\ InProgress(r)
           /\ req[r] \in RequestState /\ req[r].row \in ConversationRow
           /\ req[r].row.excluded = conv.excluded /\ req[r].row.cands = conv.cands
           /\ req[r].row.ctx = conv.ctx
           /\ req[r].row.cands # None => req[r].row.cands.spots \cap conv.excluded = {}
           /\ req[r].row.frozen # None => req[r].row.frozen \cap conv.excluded = {}
           /\ ~Agentic => conv.ctx # "closed"
<1>1. Active(r) /\ req[r].pc # "lock" /\ req[r] \in RequestState
    BY DEF Active, Ended, IInv, TypeOK
<1>2. InProgress(r)
    BY <1>1 DEF IInv
<1>3. req[r].row \in ConversationRow
    BY <1>1 DEF RequestState
<1>4. QED
    BY <1>1, <1>2, <1>3
    DEF IInv, InProgress, SessionCurrent, Kept, ExcludedNotCandidate

LEMMA ExcludeLoadInv ==
    ASSUME IInv, Serial, NEW x \in Exclusion, NEW s \in Spot, ExcludeLoad(x, s)
    PROVE  IInv'
<1>1. x \in Request /\ MayStart(x) /\ card' \in Filter \cup {None}
      /\ UNCHANGED <<conv, trip, messages, notes, hour>>
    BY DEF ExcludeLoad, Request, IInv, TypeOK
<1>2. CASE End(x, "refused")
    BY <1>1, <1>2, Ending DEF Ended
<1>3. CASE /\ Listed(s)
           /\ req' = [req EXCEPT ![x] = [Blank EXCEPT !.pc = "exclude", !.spot = s,
                                                      !.loaded = conv, !.row = conv]]
    <2> DEFINE st == [Blank EXCEPT !.pc = "exclude", !.spot = s, !.loaded = conv, !.row = conv]
    <2>1. conv \in ConversationRow
        BY DEF IInv, TypeOK
    <2>2. st \in RequestState
        BY <2>1, BlankTyped DEF RequestState, Phase
    <2>3. /\ st.pc = "exclude" /\ st.spot = s /\ st.loaded = conv /\ st.row = conv
          /\ st.slot = NoSlot
        BY DEF Blank
    <2>4. conv.cands # None /\ s \in conv.cands.spots /\ req' = [req EXCEPT ![x] = st]
        BY <1>3 DEF Listed
    <2> HIDE DEF st
    <2>5. QED
        BY <1>1, <2>2, <2>3, <2>4, LoadingInv
<1>4. QED
    BY <1>2, <1>3 DEF ExcludeLoad

LEMMA ExcludeCommitInv ==
    ASSUME IInv, Serial, NEW x \in Exclusion, ExcludeCommit(x)
    PROVE  IInv'
<1> DEFINE row == SetAsideIn(req[x].row, req[x].spot)
<1>1. /\ x \in Request /\ req[x].pc = "exclude" /\ FlushAndEnd(x, row)
      /\ UNCHANGED <<trip, messages, notes, card, hour>>
    BY DEF ExcludeCommit, Request
<1>2. /\ req[x].spot \in Spot /\ req[x].row.cands \in Listing
      /\ req[x].row \in ConversationRow
    BY <1>1, HolderFacts DEF InProgress, Prepared
<1>3. req[x].row.cands # None /\ req[x].row.cands.spots \cap req[x].row.excluded = {}
    BY <1>1, HolderFacts DEF InProgress, Prepared
<1>4. /\ row \in ConversationRow
      /\ row.cands.spots = req[x].row.cands.spots \ {req[x].spot}
      /\ row.excluded = req[x].row.excluded \cup {req[x].spot}
      /\ row.frozen = None /\ row.ctx = req[x].row.ctx
    BY <1>2, <1>3 DEF SetAsideIn, ConversationRow, Listing
<1>5. row.cands.spots \cap row.excluded = {}
    BY <1>2, <1>3, <1>4
<1> HIDE DEF row
<1>6. QED
    BY <1>1, <1>4, <1>5, HolderFacts, LastWriteInv

LEMMA ConfirmLoadInv ==
    ASSUME IInv, Serial, NEW c \in Confirmation, NEW yes \in BOOLEAN, ConfirmLoad(c, yes)
    PROVE  IInv'
<1>1. c \in Request /\ MayStart(c) /\ card' \in Filter \cup {None}
      /\ UNCHANGED <<conv, trip, messages, notes, hour>>
      /\ trip.intake \in Filter \cup {NoFilter}
    BY DEF ConfirmLoad, Request, IInv, TypeOK
<1>2. CASE End(c, "refused")
    BY <1>1, <1>2, Ending DEF Ended
<1>3. CASE /\ conv.pending # None
           /\ req' = [req EXCEPT ![c] =
                [Blank EXCEPT !.pc = IF yes THEN "apply" ELSE "reject", !.loaded = conv,
                              !.row = conv, !.intake = trip.intake]]
    <2> DEFINE pc == IF yes THEN "apply" ELSE "reject"
               s == [Blank EXCEPT !.pc = pc, !.loaded = conv, !.row = conv,
                                  !.intake = trip.intake]
    <2>1. conv \in ConversationRow /\ pc \in {"apply", "reject"}
        BY DEF IInv, TypeOK
    <2>2. req' = [req EXCEPT ![c] = s]
        BY <1>3
    <2> HIDE DEF pc
    <2>3. s \in RequestState
        BY <1>1, <2>1, BlankTyped DEF RequestState, Phase
    <2>4. s.pc = pc /\ s.loaded = conv /\ s.row = conv /\ s.slot = NoSlot
        BY DEF Blank
    <2> HIDE DEF s
    <2>5. QED
        BY <1>1, <1>3, <2>1, <2>2, <2>3, <2>4, LoadingInv
<1>4. QED
    BY <1>2, <1>3 DEF ConfirmLoad

LEMMA ConfirmRejectInv ==
    ASSUME IInv, Serial, NEW c \in Confirmation, ConfirmReject(c)
    PROVE  IInv'
<1> DEFINE row == [req[c].row EXCEPT !.pending = None]
<1>1. /\ c \in Request /\ req[c].pc = "reject" /\ FlushAndEnd(c, row)
      /\ UNCHANGED <<trip, messages, notes, card, hour>>
    BY DEF ConfirmReject, Request
<1>2. /\ row \in ConversationRow
      /\ row.cands = req[c].row.cands /\ row.excluded = req[c].row.excluded
      /\ row.frozen = req[c].row.frozen /\ row.ctx = req[c].row.ctx
    BY <1>1, HolderFacts DEF ConversationRow
<1> HIDE DEF row
<1>3. QED
    BY <1>1, <1>2, HolderFacts, LastWriteInv

LEMMA ConfirmApplyInv ==
    ASSUME IInv, Serial, NEW c \in Confirmation, ConfirmApply(c)
    PROVE  IInv'
<1> DEFINE intake == Applied(req[c].intake, req[c].row.pending)
           row == [req[c].row EXCEPT !.pending = None]
           s == [req[c] EXCEPT !.pc = "rerun", !.loaded = row, !.row = row, !.intake = intake]
<1>1. /\ c \in Request /\ req[c].pc = "apply"
      /\ conv' = Merge(conv, req[c].loaded, row)
      /\ trip' = [trip EXCEPT !.intake = IF intake = req[c].intake THEN @ ELSE intake]
      /\ req' = [req EXCEPT ![c] = s] /\ UNCHANGED <<messages, notes, card, hour>>
    BY DEF ConfirmApply, Request
<1>2. /\ Active(c) /\ InProgress(c) /\ req[c].pc # "lock"
      /\ req[c] \in RequestState /\ req[c].row \in ConversationRow
    BY <1>1, HolderFacts
<1>3. intake \in Filter \cup {NoFilter}
    <2>1. req[c].row.pending \in Filter /\ req[c].intake \in Filter \cup {NoFilter}
        BY <1>1, <1>2 DEF InProgress, Prepared, RequestState
    <2>2. QED
        BY <2>1 DEF Applied
<1>4. /\ row \in ConversationRow
      /\ row.cands = req[c].row.cands /\ row.excluded = req[c].row.excluded
      /\ row.frozen = req[c].row.frozen /\ row.ctx = req[c].row.ctx
    BY <1>2 DEF ConversationRow
<1> HIDE DEF row, intake
<1>5. conv' = row
    BY <1>1, <1>2, <1>4, FlushedRow
<1>6. s \in RequestState
    BY <1>2, <1>3, <1>4 DEF RequestState, Phase
<1>7. s.pc = "rerun" /\ s.loaded = row /\ s.row = row /\ s.slot = req[c].slot
    BY <1>2 DEF RequestState
<1>8. /\ row.cands # None => row.cands.spots \cap row.excluded = {}
      /\ row.frozen # None => row.frozen \cap row.excluded = {}
      /\ ~Agentic => row.ctx # "closed"
    BY <1>1, <1>4, HolderFacts
<1>9. SessionCurrent(s, row) /\ Prepared(s, row, messages')
    BY <1>1, <1>2, <1>7, <1>8 DEF SessionCurrent, Prepared, InProgress, TurnPhase
<1>10. trip' \in [intake : Filter \cup {NoFilter}, spot : Spot \cup {None}]
    BY <1>1, <1>3 DEF IInv, TypeOK
<1>11. messages' \subseteq MessageRow /\ LastRow' /\ SeqUnique'
    BY <1>1 DEF IInv, TypeOK, LastRow, Kept, SeqUnique
<1> HIDE DEF s
<1>12. QED
    BY <1>1, <1>2, <1>4, <1>5, <1>6, <1>8, <1>9, <1>10, <1>11, Writing

LEMMA ConfirmRerunInv ==
    ASSUME IInv, Serial, NEW c \in Confirmation, ConfirmRerun(c)
    PROVE  IInv'
<1>1. /\ c \in Request /\ req[c].pc = "rerun"
      /\ UNCHANGED <<trip, messages, notes, card, hour>>
    BY DEF ConfirmRerun, Request
<1>2. PICK listing \in Pipeline(req[c].intake, req[c].row.excluded) :
          FlushAndEnd(c, [Frozen(req[c].row, listing, TRUE) EXCEPT !.cands = listing])
    BY DEF ConfirmRerun
<1> DEFINE frozen == Frozen(req[c].row, listing, TRUE)
           row == [frozen EXCEPT !.cands = listing]
<1>3. req[c].row \in ConversationRow /\ req[c].intake \in Filter \cup {NoFilter} /\ TypeOK
    BY <1>1, HolderFacts DEF RequestState, IInv
<1>4. listing \in Listing /\ listing.spots \cap req[c].row.excluded = {}
    BY <1>3, PipelineRespects
<1>5. /\ frozen \in ConversationRow
      /\ frozen.excluded = req[c].row.excluded /\ frozen.ctx = req[c].row.ctx
      /\ frozen.frozen \in {req[c].row.frozen, listing.spots}
    BY <1>3, <1>4, FrozenRespects
<1>6. /\ row \in ConversationRow /\ row.cands = listing
      /\ row.excluded = frozen.excluded /\ row.ctx = frozen.ctx /\ row.frozen = frozen.frozen
    BY <1>4, <1>5 DEF ConversationRow
<1>7. FlushAndEnd(c, row)
    BY <1>2
<1> HIDE DEF frozen, row
<1>8. /\ row.cands # None => row.cands.spots \cap row.excluded = {}
      /\ row.frozen # None => row.frozen \cap row.excluded = {}
      /\ ~Agentic => row.ctx # "closed"
    BY <1>1, <1>4, <1>5, <1>6, HolderFacts
<1>9. QED
    BY <1>1, <1>6, <1>7, <1>8, HolderFacts, LastWriteInv

LEMMA LockLoadInv ==
    ASSUME IInv, Serial, NEW l \in Locking, NEW spot \in Spot, LockLoad(l, spot)
    PROVE  IInv'
<1>1. l \in Request /\ MayStart(l) /\ card' \in Filter \cup {None}
      /\ UNCHANGED <<conv, trip, messages, notes, hour>>
    BY DEF LockLoad, Request, IInv, TypeOK
<1>2. CASE End(l, "refused")
    BY <1>1, <1>2, Ending DEF Ended
<1>3. CASE req' = [req EXCEPT ![l] = [Blank EXCEPT !.pc = "lock", !.spot = spot]]
    <2> DEFINE s == [Blank EXCEPT !.pc = "lock", !.spot = spot]
    <2>1. s \in RequestState
        BY BlankTyped DEF RequestState, Phase
    <2>2. s.pc = "lock" /\ s.spot = spot /\ s.slot = NoSlot
        BY DEF Blank
    <2>3. SessionCurrent(s, conv) /\ Prepared(s, conv, messages)
        BY <2>2 DEF SessionCurrent, Prepared, TurnPhase
    <2> HIDE DEF s
    <2>4. QED
        BY <1>1, <1>3, <2>1, <2>3, OnlyRequest DEF s
<1>4. QED
    BY <1>2, <1>3 DEF LockLoad

LEMMA LockCommitInv ==
    ASSUME IInv, Serial, NEW l \in Locking, LockCommit(l)
    PROVE  IInv'
<1>1. /\ l \in Request /\ Active(l) /\ req[l].pc = "lock"
      /\ trip' = [trip EXCEPT !.spot = req[l].spot] /\ End(l, "done")
      /\ UNCHANGED <<conv, messages, notes, card, hour>>
    BY DEF LockCommit, Request, Active, Ended
<1>2. req[l].spot \in Spot
    BY <1>1 DEF IInv, InProgress, Prepared
<1>3. Over(l, "done") \in RequestState /\ Over(l, "done").pc = "done" /\ "done" \in Ended
    BY <1>1, OverTyped DEF IInv, Ended
<1>4. req \in [Request -> RequestState] /\ req' = [req EXCEPT ![l] = Over(l, "done")]
    BY <1>1 DEF IInv, TypeOK, End
<1>5. TypeOK'
    BY <1>1, <1>2, <1>3, <1>4 DEF IInv, TypeOK
<1>6. LastRow' /\ Kept'
    BY <1>1 DEF IInv, LastRow, Kept, ExcludedNotCandidate, FrozenHonoursExclusion, SeqUnique
<1>7. ~Active(l)' /\ \A q \in Request \ {l} : req'[q] = req[q]
    BY <1>1, <1>3, <1>4 DEF Active
<1>8. QED
    BY <1>1, <1>5, <1>6, <1>7, OneMoves, Alone DEF IInv

LEMMA DieInv ==
    ASSUME IInv, Serial, NEW r \in Request, Die(r)
    PROVE  IInv'
    BY Ending DEF Die, Ended, IInv, TypeOK

LEMMA LapseInv ==
    ASSUME IInv, Lapse
    PROVE  IInv'
<1>1. /\ hour < MaxHour /\ hour' = hour + 1
      /\ UNCHANGED <<conv, trip, messages, notes, card, req>>
    BY DEF Lapse
<1>2. hour' \in Hour
    BY <1>1, ConversationAssumption DEF IInv, TypeOK, Hour
<1>3. TypeOK'
    BY <1>1, <1>2 DEF IInv, TypeOK
<1>4. QED
    BY <1>1, <1>3
    DEF IInv, LastRow, OneAtATime, Active, Kept, ExcludedNotCandidate,
        FrozenHonoursExclusion, SeqUnique, InProgress

LEMMA TurnStepInv ==
    ASSUME IInv, Serial, NEW t \in Turn, TurnStep(t)
    PROVE  IInv'
    BY TurnBuildInv, TurnAssessInv, ReadSlotInv, PersistUserInv, PersistCandsInv,
       ServeCachedInv, ToolHopInv, PersistCallInv, PersistResultInv, AnswerInv,
       PersistAnswerInv, PersistEffectsInv, PersistNoteInv, DoneInv
    DEF TurnStep, Hops, Answers

LEMMA StepInv ==
    ASSUME IInv, Serial, [Next]_vars
    PROVE  IInv'
<1>1. CASE Lapse
    BY <1>1, LapseInv
<1>2. ASSUME NEW t \in Turn, TurnLoad(t) \/ TurnStep(t)
      PROVE  IInv'
    BY <1>2, TurnLoadInv, TurnStepInv
<1>3. ASSUME NEW x \in Exclusion, ExcludeCommit(x) \/ \E s \in Spot : ExcludeLoad(x, s)
      PROVE  IInv'
    BY <1>3, ExcludeCommitInv, ExcludeLoadInv
<1>4. ASSUME NEW c \in Confirmation,
             \/ \E yes \in BOOLEAN : ConfirmLoad(c, yes)
             \/ ConfirmReject(c) \/ ConfirmApply(c) \/ ConfirmRerun(c)
      PROVE  IInv'
    BY <1>4, ConfirmLoadInv, ConfirmRejectInv, ConfirmApplyInv, ConfirmRerunInv
<1>5. ASSUME NEW l \in Locking, LockCommit(l) \/ \E s \in Spot : LockLoad(l, s)
      PROVE  IInv'
    BY <1>5, LockCommitInv, LockLoadInv
<1>6. ASSUME NEW r \in Request, Die(r)
      PROVE  IInv'
    BY <1>6, DieInv
<1>7. CASE UNCHANGED vars
    BY <1>7
    DEF vars, IInv, TypeOK, LastRow, OneAtATime, Active, Kept, ExcludedNotCandidate,
        FrozenHonoursExclusion, SeqUnique, InProgress
<1>8. QED
    BY <1>1, <1>2, <1>3, <1>4, <1>5, <1>6, <1>7 DEF Next

LEMMA Invariance ==
    ASSUME Serial
    PROVE  Spec => []IInv
<1>1. IInv /\ [Next]_vars => IInv'
    BY StepInv
<1>2. QED
    BY <1>1, InitInv, PTL DEF Spec

\* Every variable keeps its type.
THEOREM TypeCorrect ==
    ASSUME Serial
    PROVE  Spec => []TypeOK
<1>1. IInv => TypeOK
    BY DEF IInv
<1>2. QED
    BY <1>1, Invariance, PTL

\* The ordinal that max(seq) + 1 yields is never taken, whatever dies in between.
THEOREM OrderIsTotal ==
    ASSUME Serial
    PROVE  Spec => []SeqUnique
<1>1. IInv => SeqUnique
    BY DEF IInv, Kept
<1>2. QED
    BY <1>1, Invariance, PTL

\* No re-run of the pipeline and no flush of a stale copy brings back a spot that was
\* set aside, neither into the candidates nor into the frozen prefix.
THEOREM SetAsideStaysOut ==
    ASSUME Serial
    PROVE  Spec => [](ExcludedNotCandidate /\ FrozenHonoursExclusion)
<1>1. IInv => ExcludedNotCandidate /\ FrozenHonoursExclusion
    BY DEF IInv, Kept
<1>2. QED
    BY <1>1, Invariance, PTL

-----------------------------------------------------------------------------
\* What a step does to the exclusions, to the budget state and to the transcript.
KeepsExclusions == conv'.excluded = conv.excluded
StaysClosed == conv.ctx = "closed" => conv'.ctx = "closed" /\ messages' = messages

\* Flushing a row that agrees with the loaded one on both changes neither.
LEMMA FlushKeeps ==
    ASSUME IInv, NEW r \in Request, Active(r), req[r].pc # "lock",
           NEW row \in ConversationRow, conv' = Merge(conv, req[r].loaded, row),
           row.excluded = req[r].row.excluded, row.ctx = req[r].row.ctx
    PROVE  conv' = row /\ KeepsExclusions /\ conv'.ctx = conv.ctx
<1>1. conv' = row
    BY FlushedRow
<1>2. InProgress(r)
    BY DEF IInv
<1>3. QED
    BY <1>1, <1>2 DEF InProgress, SessionCurrent, KeepsExclusions

LEMMA TurnEffect ==
    ASSUME IInv, NEW t \in Turn, TurnLoad(t) \/ TurnStep(t)
    PROVE  KeepsExclusions /\ StaysClosed
<1>1. CASE UNCHANGED <<conv, messages>>
    BY <1>1 DEF KeepsExclusions, StaysClosed
<1>2. ASSUME req[t].pc \in TurnPhase
      PROVE  conv.ctx # "closed" /\ t \in Request /\ Active(t) /\ req[t].pc # "lock"
             /\ req[t].row \in ConversationRow
    <2>1. t \in Request /\ Active(t) /\ InProgress(t) /\ req[t].row \in ConversationRow
        BY <1>2, TurnFacts
    <2>2. QED
        BY <1>2, <2>1 DEF InProgress, Prepared, TurnPhase
<1>3. CASE TurnAssess(t)
    <2> DEFINE row == [req[t].row EXCEPT !.ctx = BudgetState(req[t].size)]
    <2>1. req[t].pc = "assess" /\ conv' \in {conv, Merge(conv, req[t].loaded, row)}
        BY <1>3 DEF TurnAssess, Flush
    <2>2. row \in ConversationRow /\ row.excluded = req[t].row.excluded
        BY <1>2, <2>1 DEF TurnPhase, ConversationRow, BudgetState
    <2>3. InProgress(t)
        BY <1>2, <2>1 DEF TurnPhase, IInv
    <2> HIDE DEF row
    <2>4. conv' \in {conv, row}
        BY <1>2, <2>1, <2>2, FlushedRow DEF TurnPhase
    <2>5. QED
        BY <1>2, <2>1, <2>2, <2>3, <2>4
        DEF TurnPhase, InProgress, SessionCurrent, KeepsExclusions, StaysClosed
<1>4. CASE PersistUser(t)
    BY <1>2, <1>4, FlushKeeps DEF PersistUser, TurnPhase, StaysClosed
<1>5. CASE PersistCands(t)
    <2> DEFINE row == [req[t].row EXCEPT !.cands = req[t].listing]
    <2>1. req[t].pc = "list" /\ conv' = Merge(conv, req[t].loaded, row)
        BY <1>5 DEF PersistCands, Flush
    <2>2. req[t].listing \in Listing
        BY <1>2, <2>1 DEF TurnPhase, IInv, InProgress, Prepared
    <2>3. /\ row \in ConversationRow /\ row.excluded = req[t].row.excluded
          /\ row.ctx = req[t].row.ctx
        BY <1>2, <2>1, <2>2 DEF TurnPhase, ConversationRow
    <2> HIDE DEF row
    <2>4. QED
        BY <1>2, <2>1, <2>3, FlushKeeps DEF TurnPhase, StaysClosed
<1>6. CASE PersistCall(t) \/ PersistResult(t)
    BY <1>2, <1>6 DEF PersistCall, PersistResult, TurnPhase, KeepsExclusions, StaysClosed
<1>7. CASE PersistAnswer(t) \/ PersistEffects(t)
    <2>1. /\ req[t].pc \in {"reply", "effects"}
          /\ conv' \in {conv, Merge(conv, req[t].loaded, Proposed(t))}
        BY <1>7 DEF PersistAnswer, PersistEffects, Flush
    <2>2. Proposed(t) \in ConversationRow /\ Proposed(t).excluded = conv.excluded
        BY <2>1, ProposedRow DEF TurnPhase
    <2>3. conv' = conv \/ conv' = Proposed(t)
        BY <1>2, <2>1, <2>2, FlushedRow DEF TurnPhase
    <2>4. QED
        BY <1>2, <2>1, <2>2, <2>3 DEF TurnPhase, KeepsExclusions, StaysClosed
<1>8. QED
    BY <1>1, <1>3, <1>4, <1>5, <1>6, <1>7
    DEF TurnStep, TurnLoad, TurnBuild, ReadSlot, ServeCached, Hops, ToolHop, Answers, Answer,
        PersistNote, Done

LEMMA ConfirmEffect ==
    ASSUME IInv, NEW c \in Confirmation,
           ConfirmReject(c) \/ ConfirmApply(c) \/ ConfirmRerun(c)
    PROVE  KeepsExclusions /\ StaysClosed
<1>1. c \in Request /\ req[c].pc \in {"reject", "apply", "rerun"}
    BY DEF Request, ConfirmReject, ConfirmApply, ConfirmRerun
<1>2. Active(c) /\ req[c].pc # "lock" /\ req[c].row \in ConversationRow
    BY <1>1, HolderFacts
<1>3. CASE ConfirmReject(c) \/ ConfirmApply(c)
    <2> DEFINE row == [req[c].row EXCEPT !.pending = None]
    <2>1. conv' = Merge(conv, req[c].loaded, row) /\ UNCHANGED messages
        BY <1>3 DEF ConfirmReject, ConfirmApply, FlushAndEnd
    <2>2. /\ row \in ConversationRow /\ row.excluded = req[c].row.excluded
          /\ row.ctx = req[c].row.ctx
        BY <1>2 DEF ConversationRow
    <2> HIDE DEF row
    <2>3. QED
        BY <1>1, <1>2, <2>1, <2>2, FlushKeeps DEF StaysClosed
<1>4. CASE ConfirmRerun(c)
    <2>1. PICK listing \in Pipeline(req[c].intake, req[c].row.excluded) :
              FlushAndEnd(c, [Frozen(req[c].row, listing, TRUE) EXCEPT !.cands = listing])
        BY <1>4 DEF ConfirmRerun
    <2> DEFINE row == [Frozen(req[c].row, listing, TRUE) EXCEPT !.cands = listing]
    <2>2. TypeOK /\ req[c].intake \in Filter \cup {NoFilter}
        BY <1>1, HolderFacts DEF IInv, RequestState
    <2>3. listing \in Listing
        BY <2>2, PipelineRespects
    <2>4. /\ row \in ConversationRow /\ row.excluded = req[c].row.excluded
          /\ row.ctx = req[c].row.ctx
        BY <1>2, <2>2, <2>3, FrozenRespects DEF ConversationRow
    <2>5. conv' = Merge(conv, req[c].loaded, row) /\ UNCHANGED messages
        BY <1>4, <2>1 DEF ConfirmRerun, FlushAndEnd
    <2> HIDE DEF row
    <2>6. QED
        BY <1>1, <1>2, <2>4, <2>5, FlushKeeps DEF StaysClosed
<1>5. QED
    BY <1>3, <1>4

\* An exclusion takes one listed spot off the list and records it.
LEMMA ExcludeEffect ==
    ASSUME IInv, NEW x \in Exclusion, ExcludeCommit(x)
    PROVE  /\ conv.cands # None /\ conv.cands \in Listing
           /\ req[x].spot \in conv.cands.spots /\ req[x].spot \in Spot
           /\ conv'.cands \in Listing
           /\ conv'.cands.spots = conv.cands.spots \ {req[x].spot}
           /\ conv'.excluded = conv.excluded \cup {req[x].spot}
           /\ StaysClosed
<1> DEFINE row == SetAsideIn(req[x].row, req[x].spot)
<1>1. /\ x \in Request /\ req[x].pc = "exclude"
      /\ conv' = Merge(conv, req[x].loaded, row) /\ UNCHANGED messages
    BY DEF ExcludeCommit, FlushAndEnd, Request
<1>2. /\ Active(x) /\ req[x].pc # "lock" /\ InProgress(x)
      /\ req[x].row \in ConversationRow /\ req[x].row.ctx = conv.ctx
      /\ req[x].row.cands = conv.cands /\ req[x].row.excluded = conv.excluded
    BY <1>1, HolderFacts
<1>3. /\ conv.cands # None /\ req[x].row.cands \in Listing
      /\ req[x].spot \in conv.cands.spots /\ req[x].spot \in Spot
    BY <1>1, <1>2 DEF InProgress, Prepared
<1>4. /\ row \in ConversationRow /\ row.cands \in Listing
      /\ row.cands.spots = req[x].row.cands.spots \ {req[x].spot}
      /\ row.excluded = req[x].row.excluded \cup {req[x].spot}
      /\ row.ctx = req[x].row.ctx
    BY <1>2, <1>3 DEF SetAsideIn, ConversationRow, Listing
<1> HIDE DEF row
<1>5. conv' = row
    BY <1>1, <1>2, <1>4, FlushedRow
<1>6. QED
    BY <1>1, <1>2, <1>3, <1>4, <1>5 DEF StaysClosed

LEMMA StepEffect ==
    ASSUME IInv, [Next]_vars
    PROVE  (KeepsExclusions \/ \E x \in Exclusion : ExcludeCommit(x)) /\ StaysClosed
<1>1. CASE UNCHANGED <<conv, messages>>
    BY <1>1 DEF KeepsExclusions, StaysClosed
<1>2. QED
    BY <1>1, TurnEffect, ConfirmEffect, ExcludeEffect
    DEF Next, Lapse, ExcludeLoad, ConfirmLoad, LockLoad, LockCommit, Die, vars

\* A conversation that was closed on its length is never reopened and grows no more.
THEOREM ClosedForGood ==
    ASSUME Serial
    PROVE  Spec => ClosedIsFinal
<1>1. IInv /\ [Next]_vars =>
          [conv.ctx = "closed" => conv'.ctx = "closed" /\ messages' = messages]_vars
    BY StepEffect DEF StaysClosed
<1>2. QED
    BY <1>1, Invariance, PTL DEF Spec, ClosedIsFinal

\* The handlers implement the abstract shortlist: whatever is re-run, frozen or flushed,
\* a spot leaves the list for good when it is set aside.
THEOREM Refinement ==
    ASSUME Serial
    PROVE  Spec => ImplementsShortlist
<1> DEFINE list == IF conv.cands = None THEN {} ELSE conv.cands.spots
<1>1. Init => Picks!Init
    BY DEF Init, NewRow, Picks!Init
<1>2. IInv /\ IInv' /\ [Next]_vars => [Picks!Next]_<<list, conv.excluded>>
    <2> SUFFICES ASSUME IInv, IInv', [Next]_vars
                 PROVE  [Picks!Next]_<<list, conv.excluded>>
        OBVIOUS
    <2>1. CASE KeepsExclusions
        <3>1. conv' \in ConversationRow /\ ExcludedNotCandidate'
            BY DEF IInv, TypeOK, Kept
        <3>2. list' \in SUBSET (Spot \ conv.excluded)
            BY <2>1, <3>1 DEF KeepsExclusions, ConversationRow, Listing, ExcludedNotCandidate
        <3>3. Picks!Rebuild
            BY <2>1, <3>2 DEF Picks!Rebuild, KeepsExclusions
        <3>4. QED
            BY <3>3 DEF Picks!Next
    <2>2. ASSUME NEW x \in Exclusion, ExcludeCommit(x)
          PROVE  Picks!Next
        <3>1. conv'.cands # None
            BY <2>2, ExcludeEffect, ConversationAssumption
        <3>2. Picks!SetAside(req[x].spot)
            BY <2>2, <3>1, ExcludeEffect DEF Picks!SetAside
        <3>3. QED
            BY <2>2, <3>2, ExcludeEffect DEF Picks!Next
    <2>3. QED
        BY <2>1, <2>2, StepEffect
<1>3. QED
    BY <1>1, <1>2, Invariance, PTL DEF Spec, ImplementsShortlist, Picks!Spec

\* An exclusion is answered by its own commit only, and keeps the spot that it answered for.
LEMMA OnlyCommitAnswers ==
    ASSUME IInv, [Next]_vars, NEW x \in Exclusion, req'[x].pc = "done"
    PROVE  req'[x] = req[x] \/ (ExcludeCommit(x) /\ req'[x].spot = req[x].spot)
<1>1. x \in Request /\ req \in [Request -> RequestState] /\ x \notin Turn \cup Confirmation \cup Locking
    BY ConversationAssumption DEF Request, IInv, TypeOK
<1>2. ASSUME NEW t \in Turn, TurnLoad(t) \/ TurnStep(t) PROVE req'[x] = req[x]
    BY <1>1, <1>2
    DEF TurnLoad, TurnStep, TurnBuild, TurnAssess, ReadSlot, PersistUser, PersistCands,
        ServeCached, Hops, ToolHop, PersistCall, PersistResult, Answers, Answer, PersistAnswer,
        PersistEffects, PersistNote, Done, Flush, Go, End
<1>3. ASSUME NEW c \in Confirmation,
             \/ \E yes \in BOOLEAN : ConfirmLoad(c, yes)
             \/ ConfirmReject(c) \/ ConfirmApply(c) \/ ConfirmRerun(c)
      PROVE  req'[x] = req[x]
    BY <1>1, <1>3 DEF ConfirmLoad, ConfirmReject, ConfirmApply, ConfirmRerun, FlushAndEnd, End
<1>4. ASSUME NEW l \in Locking, LockCommit(l) \/ \E s \in Spot : LockLoad(l, s)
      PROVE  req'[x] = req[x]
    BY <1>1, <1>4 DEF LockCommit, LockLoad, End
<1>5. ASSUME NEW r \in Request, Die(r) PROVE req'[x] = req[x]
    <2>1. req' = [req EXCEPT ![r] = Over(r, "dead")] /\ Over(r, "dead").pc = "dead"
        BY <1>5 DEF Die, End, Over, Blank
    <2>2. QED
        BY <1>1, <2>1
<1>6. ASSUME NEW y \in Exclusion, NEW s \in Spot, ExcludeLoad(y, s) PROVE req'[x] = req[x]
    <2>1. CASE y # x
        BY <1>1, <1>6, <2>1 DEF ExcludeLoad, End
    <2>2. CASE y = x
        <3>1. Over(x, "refused").pc = "refused"
            BY DEF Over, Blank
        <3>2. [Blank EXCEPT !.pc = "exclude", !.spot = s, !.loaded = conv, !.row = conv].pc = "exclude"
            BY DEF Blank
        <3>3. QED
            BY <1>1, <1>6, <2>2, <3>1, <3>2 DEF ExcludeLoad, End
    <2>3. QED
        BY <2>1, <2>2
<1>7. ASSUME NEW y \in Exclusion, ExcludeCommit(y)
      PROVE  req'[x] = req[x] \/ (ExcludeCommit(x) /\ req'[x].spot = req[x].spot)
    <2>1. req' = [req EXCEPT ![y] = Over(y, "done")] /\ Over(y, "done").spot = req[y].spot
        BY <1>7 DEF ExcludeCommit, FlushAndEnd, End, Over, Blank
    <2>2. QED
        BY <1>1, <1>7, <2>1
<1>8. CASE UNCHANGED req
    BY <1>8
<1>9. QED
    BY <1>2, <1>3, <1>4, <1>5, <1>6, <1>7, <1>8 DEF Next, Lapse, vars

\* An exclusion that was answered stays recorded, whatever a later turn, confirmation or
\* crash writes (exclude_spot_endpoint).
THEOREM SetAsideIsRecorded ==
    ASSUME Serial
    PROVE  Spec => []ExclusionRecorded
<1>1. Init => ExclusionRecorded
    BY DEF Init, ExclusionRecorded, Blank, Request
<1>2. IInv /\ ExclusionRecorded /\ [Next]_vars => ExclusionRecorded'
    <2> SUFFICES ASSUME IInv, ExclusionRecorded, [Next]_vars, NEW x \in Exclusion, req'[x].pc = "done"
                 PROVE  req'[x].spot \in conv'.excluded
        BY DEF ExclusionRecorded
    <2>1. conv.excluded \subseteq conv'.excluded
        BY StepEffect, ExcludeEffect DEF KeepsExclusions
    <2>2. CASE req'[x] = req[x]
        BY <2>1, <2>2 DEF ExclusionRecorded
    <2>3. CASE ExcludeCommit(x) /\ req'[x].spot = req[x].spot
        BY <2>3, ExcludeEffect
    <2>4. QED
        BY <2>2, <2>3, OnlyCommitAnswers
<1>3. QED
    BY <1>1, <1>2, Invariance, PTL DEF Spec

\* What a step hands the model: nothing new, nothing at all, or what get_spot let through.
Handed(t) ==
    \/ req'[t].given = req[t].given
    \/ req'[t].given \cap conv.excluded = {}

LEMMA EndHands ==
    ASSUME TypeOK, NEW r \in Request, NEW how, End(r, how), NEW t \in Turn
    PROVE  Handed(t)
<1>1. t \in Request /\ req \in [Request -> RequestState]
    BY DEF Request, TypeOK
<1>2. Over(r, how).given = {}
    BY DEF Over, Blank
<1>3. req' = [req EXCEPT ![r] = Over(r, how)]
    BY DEF End
<1>4. QED
    BY <1>1, <1>2, <1>3 DEF Handed

LEMMA TurnHands ==
    ASSUME IInv, NEW q \in Turn, TurnLoad(q) \/ TurnStep(q), NEW t \in Turn
    PROVE  Handed(t)
<1>1. t \in Request /\ q \in Request /\ req \in [Request -> RequestState] /\ TypeOK
    BY DEF Request, IInv, TypeOK
<1>2. t # q => Handed(t)
    BY <1>1
    DEF TurnLoad, TurnStep, TurnBuild, TurnAssess, ReadSlot, PersistUser, PersistCands,
        ServeCached, Hops, ToolHop, PersistCall, PersistResult, Answers, Answer, PersistAnswer,
        PersistEffects, PersistNote, Done, Flush, Go, End, Handed
<1>3. CASE TurnLoad(q)
    <2>1. Blank.given = {}
        BY DEF Blank
    <2>2. CASE End(q, "refused")
        BY <1>1, <2>2, EndHands
    <2>3. CASE req' = [req EXCEPT ![q] = [Blank EXCEPT !.pc = "loaded", !.loaded = conv,
                                                       !.row = conv, !.intake = trip.intake]]
        <3>1. req'[q].given = {}
            BY <1>1, <2>3 DEF Blank
        <3>2. QED
            BY <1>2, <3>1 DEF Handed
    <2>4. QED
        BY <1>3, <2>2, <2>3 DEF TurnLoad
<1>4. CASE TurnAssess(q) \/ Done(q)
    <2>1. CASE \E how \in Ended : End(q, how)
        BY <1>1, <2>1, EndHands
    <2>2. CASE ~ \E how \in Ended : End(q, how)
        <3>1. req'[q].given = req[q].given
            BY <1>1, <1>4, <2>2 DEF TurnAssess, Done, Flush, Go, Ended, RequestState
        <3>2. QED
            BY <1>2, <3>1 DEF Handed
    <2>3. QED
        BY <2>1, <2>2
<1>5. CASE \E n \in 1..MaxToolCalls : \E asked \in SUBSET Spot : ToolHop(q, asked, n)
    <2>1. PICK n \in 1..MaxToolCalls : \E asked \in SUBSET Spot : ToolHop(q, asked, n)
        BY <1>5
    <2>2. PICK asked \in SUBSET Spot : ToolHop(q, asked, n)
        BY <2>1
    <2>3. req'[q].given = asked \ req[q].row.excluded
        BY <1>1, <2>2 DEF ToolHop, RequestState
    <2>4. req[q].row.excluded = conv.excluded
        BY <1>1, <2>2, TurnFacts DEF ToolHop, TurnPhase, InProgress, SessionCurrent
    <2>5. QED
        BY <1>2, <2>3, <2>4 DEF Handed
<1>6. CASE TurnBuild(q) \/ ReadSlot(q) \/ PersistUser(q) \/ PersistCands(q) \/ ServeCached(q)
           \/ PersistCall(q)
    <2>1. TurnBuild(q) => req'[q].given = req[q].given
        BY <1>1 DEF TurnBuild, RequestState
    <2>2. ReadSlot(q) \/ PersistUser(q) \/ PersistCall(q) => req'[q].given = req[q].given
        BY <1>1 DEF ReadSlot, PersistUser, PersistCall, RequestState
    <2>3. PersistCands(q) \/ ServeCached(q) => req'[q].given = req[q].given
        BY <1>1 DEF PersistCands, Flush, ServeCached, RequestState
    <2>4. QED
        BY <1>2, <1>6, <2>1, <2>2, <2>3 DEF Handed
<1>7. CASE PersistResult(q)
    <2>1. req'[q].given \in {{}, req[q].given}
        BY <1>1, <1>7 DEF PersistResult, RequestState
    <2>2. QED
        BY <1>2, <2>1 DEF Handed
<1>8. CASE Answers(q) \/ PersistAnswer(q) \/ PersistEffects(q) \/ PersistNote(q)
    <2>1. Answers(q) => req'[q].given = req[q].given
        BY <1>1 DEF Answers, Answer, RequestState
    <2>2. PersistAnswer(q) => req'[q].given = req[q].given
        BY <1>1 DEF PersistAnswer, RequestState
    <2>3. PersistEffects(q) \/ PersistNote(q) => req'[q].given = req[q].given
        BY <1>1 DEF PersistEffects, PersistNote, Flush, RequestState
    <2>4. QED
        BY <1>2, <1>8, <2>1, <2>2, <2>3 DEF Handed
<1>9. QED
    BY <1>3, <1>4, <1>5, <1>6, <1>7, <1>8 DEF TurnStep, Hops

LEMMA OthersHand ==
    ASSUME IInv, NEW r \in Request, NEW t \in Turn,
           \/ \E s \in Spot : ExcludeLoad(r, s) \/ LockLoad(r, s)
           \/ \E yes \in BOOLEAN : ConfirmLoad(r, yes)
           \/ ExcludeCommit(r) \/ ConfirmReject(r) \/ ConfirmApply(r) \/ ConfirmRerun(r)
           \/ LockCommit(r) \/ Die(r)
    PROVE  Handed(t)
<1>1. t \in Request /\ req \in [Request -> RequestState] /\ TypeOK
    BY DEF Request, IInv, TypeOK
<1>2. CASE \E how \in Ended : End(r, how)
    BY <1>1, <1>2, EndHands
<1>3. CASE ConfirmApply(r)
    <2>1. req'[t].given = req[t].given
        BY <1>1, <1>3 DEF ConfirmApply, RequestState
    <2>2. QED
        BY <2>1 DEF Handed
<1>4. ASSUME NEW s \in Spot, ExcludeLoad(r, s) \/ LockLoad(r, s), ~ \E how \in Ended : End(r, how)
      PROVE  Handed(t)
    <2>1. [Blank EXCEPT !.pc = "lock", !.spot = s].given = {}
        BY DEF Blank
    <2>2. [Blank EXCEPT !.pc = "exclude", !.spot = s, !.loaded = conv, !.row = conv].given = {}
        BY DEF Blank
    <2>3. QED
        BY <1>1, <1>4, <2>1, <2>2 DEF ExcludeLoad, LockLoad, Ended, Handed
<1>5. ASSUME NEW yes \in BOOLEAN, ConfirmLoad(r, yes), ~ \E how \in Ended : End(r, how)
      PROVE  Handed(t)
    <2>1. [Blank EXCEPT !.pc = IF yes THEN "apply" ELSE "reject", !.loaded = conv,
                        !.row = conv, !.intake = trip.intake].given = {}
        BY DEF Blank
    <2>2. QED
        BY <1>1, <1>5, <2>1 DEF ConfirmLoad, Ended, Handed
<1>6. CASE ExcludeCommit(r) \/ ConfirmReject(r) \/ ConfirmRerun(r) \/ LockCommit(r) \/ Die(r)
    BY <1>1, <1>6, EndHands
    DEF ExcludeCommit, ConfirmReject, ConfirmRerun, LockCommit, Die, FlushAndEnd
<1>7. QED
    BY <1>2, <1>3, <1>4, <1>5, <1>6

\* get_spot filters by the exclusions this session loaded, and no other session can have
\* added to them: a spot that is set aside never reaches the model again.
THEOREM NeverHandedBack ==
    ASSUME Serial
    PROVE  Spec => NeverResurfaced
<1>1. IInv /\ [Next]_vars => \A t \in Turn : Handed(t) \/ UNCHANGED vars
    BY TurnHands, OthersHand DEF Next, Lapse, Handed, Request
<1>2. IInv /\ [Next]_vars =>
          [\A t \in Turn : req'[t].given # req[t].given =>
                               req'[t].given \cap conv.excluded = {}]_vars
    BY <1>1 DEF Handed
<1>3. QED
    BY <1>2, Invariance, PTL DEF Spec, NeverResurfaced
-----------------------------------------------------------------------------
\* One list for the user, the frozen prefix and get_spot.  Between requests the row, the
\* trip's intake and the card agree; while a request is in progress, what it has prepared
\* will make them agree again.
Matched(c, intake) == c.cands # None => c.cands.spots \subseteq Eligible[intake]

\* A prefix without candidates is left only by the turn that closes the conversation.
Agreed(c) ==
    /\ c.frozen # None /\ c.cands # None => c.frozen = c.cands.spots
    /\ c.frozen # None /\ c.cands = None => c.ctx = "closed"
    /\ ~Agentic => c.frozen = None

Shown(c, shown) == shown # None => c.pending = shown

Settled(c, intake, shown) == Matched(c, intake) /\ Agreed(c) /\ Shown(c, shown)

\* The phases in which a turn has built its context and not yet stored it.
Building == {"assess", "user", "list"}

Agrees(q, c, intake, shown) ==
    /\ q.pc \in Building =>
          /\ q.listing.spots \subseteq Eligible[intake]
          /\ c.cands # None => q.listing.spots = c.cands.spots
          /\ q.row.frozen = IF Agentic THEN q.listing.spots ELSE None
    /\ q.pc \notin Building \cup {"lock"} => q.row = c
    /\ q.pc \notin Building \cup {"rerun"} => Matched(c, intake) /\ Agreed(c)
    /\ q.pc = "rerun" /\ ~Agentic => c.frozen = None
    /\ q.pc \in {"loaded", "apply", "rerun"} => q.intake = intake
    /\ q.pc \in {"loaded", "assess", "user", "list", "think", "call", "result", "reject",
                 "apply", "rerun"} => shown = None
    /\ q.pc \in {"reply", "effects"} => shown \in {None, q.reply.filter}
    /\ q.pc \in {"notes", "exclude", "lock"} => Shown(c, shown)

CandsInv ==
    /\ Idling => Settled(conv, trip.intake, card)
    /\ \A r \in Request : Active(r) => Agrees(req[r], conv, trip.intake, card)

LEMMA InitCands == Init => CandsInv
    BY DEF Init, CandsInv, NewRow, Settled, Matched, Agreed, Shown, Active, Blank

\* A step of one request, seen from the others: they are not in progress.
LEMMA CandsMove ==
    ASSUME IInv, Serial, NEW r \in Request, Active(r) \/ MayStart(r),
           NEW s, s.pc \notin Ended \cup {"idle"} => Agrees(s, conv', trip'.intake, card'),
           s.pc \in Ended \cup {"idle"} => Settled(conv', trip'.intake, card'),
           req' = [req EXCEPT ![r] = s]
    PROVE  CandsInv'
<1>1. req \in [Request -> RequestState]
    BY DEF IInv, TypeOK
<1>2. req'[r] = s /\ \A q \in Request \ {r} : req'[q] = req[q] /\ ~Active(q)
    BY <1>1, Alone
<1>3. \A q \in Request \ {r} : ~Active(q)'
    BY <1>2 DEF Active
<1>4. CASE s.pc \in Ended \cup {"idle"}
    BY <1>2, <1>3, <1>4 DEF CandsInv, Active
<1>5. CASE s.pc \notin Ended \cup {"idle"}
    BY <1>2, <1>3, <1>5 DEF CandsInv, Active, Idling
<1>6. QED
    BY <1>4, <1>5

LEMMA CandsEnd ==
    ASSUME IInv, Serial, NEW r \in Request, Active(r) \/ MayStart(r), NEW how \in Ended,
           End(r, how), Settled(conv', trip'.intake, card')
    PROVE  CandsInv'
<1>1. Over(r, how).pc = how
    BY OverTyped DEF IInv
<1>2. QED
    BY <1>1, CandsMove DEF End

\* A request that may start finds no other in progress.
LEMMA CandsAtStart ==
    ASSUME CandsInv, Serial, NEW r \in Request, MayStart(r)
    PROVE  Settled(conv, trip.intake, card)
    BY DEF CandsInv, Serial, MayStart, Idling

LEMMA TurnLoadCands ==
    ASSUME IInv, CandsInv, Serial, NEW t \in Turn, TurnLoad(t)
    PROVE  CandsInv'
<1>1. t \in Request /\ MayStart(t) /\ card' = None /\ UNCHANGED <<conv, trip>>
    BY DEF TurnLoad, Request
<1>2. Settled(conv, trip.intake, card)
    BY <1>1, CandsAtStart
<1>3. Settled(conv', trip'.intake, card')
    BY <1>1, <1>2 DEF Settled, Shown
<1>4. CASE End(t, "refused")
    BY <1>1, <1>3, <1>4, CandsEnd DEF Ended
<1>5. CASE req' = [req EXCEPT ![t] = [Blank EXCEPT !.pc = "loaded", !.loaded = conv,
                                                   !.row = conv, !.intake = trip.intake]]
    <2> DEFINE s == [Blank EXCEPT !.pc = "loaded", !.loaded = conv,
                                  !.row = conv, !.intake = trip.intake]
    <2>1. s.pc = "loaded" /\ s.row = conv /\ s.intake = trip.intake
        BY DEF Blank
    <2> HIDE DEF s
    <2>2. Agrees(s, conv', trip'.intake, card')
        BY <1>1, <1>3, <2>1 DEF Agrees, Settled, Building
    <2>3. QED
        BY <1>1, <1>5, <2>1, <2>2, CandsMove DEF s, Ended
<1>6. QED
    BY <1>4, <1>5 DEF TurnLoad

\* The listing a turn works with is the stored one, or a first one that fits the intake.
LEMMA TurnBuildCands ==
    ASSUME IInv, CandsInv, Serial, NEW t \in Turn, TurnBuild(t)
    PROVE  CandsInv'
<1>1. /\ t \in Request /\ Active(t) /\ req[t].pc = "loaded" /\ InProgress(t)
      /\ req[t] \in RequestState /\ req[t].row \in ConversationRow /\ conv.ctx # "closed"
      /\ UNCHANGED <<conv, trip, card>>
    BY TurnFacts DEF TurnBuild, TurnPhase
<1>2. /\ req[t].row = conv /\ Matched(conv, trip.intake) /\ Agreed(conv)
      /\ req[t].intake = trip.intake /\ card = None
    BY <1>1 DEF CandsInv, Agrees, Building
<1>3. PICK base \in Candidates(req[t].row, req[t].intake) :
      \E listing \in Refreshed(req[t].row, base, FALSE) :
          req' = [req EXCEPT ![t].pc = IF Agentic THEN "assess" ELSE "user",
                             ![t].listing = listing,
                             ![t].row = Frozen(@, listing, FALSE),
                             ![t].size = Cardinality(messages)]
    BY DEF TurnBuild
<1>4. PICK listing \in Refreshed(req[t].row, base, FALSE) :
          req' = [req EXCEPT ![t].pc = IF Agentic THEN "assess" ELSE "user",
                             ![t].listing = listing,
                             ![t].row = Frozen(@, listing, FALSE),
                             ![t].size = Cardinality(messages)]
    BY <1>3
<1>5. base \in Listing /\ base.spots \subseteq Eligible[trip.intake]
      /\ (conv.cands # None => base = conv.cands)
    <2>1. CASE conv.cands = None
        <3>1. base \in Pipeline(req[t].intake, conv.excluded)
            BY <1>2, <2>1 DEF Candidates
        <3>2. req[t].intake \in Filter \cup {NoFilter} /\ TypeOK
            BY <1>1 DEF RequestState, IInv
        <3>3. base \in Listing
            BY <3>1, <3>2, PipelineRespects
        <3>4. base.spots \subseteq Eligible[req[t].intake]
            BY <3>1 DEF Pipeline
        <3>5. QED
            BY <1>2, <2>1, <3>3, <3>4
    <2>2. CASE conv.cands # None
        BY <1>1, <1>2, <2>2 DEF Candidates, Matched, ConversationRow
    <2>3. QED
        BY <2>1, <2>2
<1>6. listing.spots = base.spots
    BY <1>5 DEF Refreshed, Listing
<1> DEFINE row == Frozen(req[t].row, listing, FALSE)
           s == [req[t] EXCEPT !.pc = IF Agentic THEN "assess" ELSE "user",
                               !.listing = listing, !.row = row, !.size = Cardinality(messages)]
<1>7. row.frozen = IF Agentic THEN listing.spots ELSE None
    <2>1. CASE Freezes(conv, FALSE)
        BY <1>1, <1>2, <2>1 DEF Frozen, Freezes, ConversationRow
    <2>2. CASE ~Freezes(conv, FALSE)
        <3>1. row.frozen = conv.frozen
            BY <1>2, <2>2 DEF Frozen
        <3>2. CASE Agentic
            BY <1>1, <1>2, <1>5, <1>6, <2>2, <3>1, <3>2 DEF Freezes, Agreed
        <3>3. CASE ~Agentic
            BY <1>2, <3>1, <3>3 DEF Agreed
        <3>4. QED
            BY <3>2, <3>3
    <2>3. QED
        BY <2>1, <2>2
<1> HIDE DEF row
<1>8. s.pc \in {"assess", "user"} /\ s.listing = listing /\ s.row = row
    BY <1>1 DEF RequestState
<1>9. req' = [req EXCEPT ![t] = s]
    BY <1>4 DEF row
<1> HIDE DEF s
<1>10. Agrees(s, conv', trip'.intake, card')
    BY <1>1, <1>2, <1>5, <1>6, <1>7, <1>8 DEF Agrees, Building
<1>11. QED
    BY <1>1, <1>8, <1>9, <1>10, CandsMove DEF Ended

LEMMA TurnAssessCands ==
    ASSUME IInv, CandsInv, Serial, NEW t \in Turn, TurnAssess(t)
    PROVE  CandsInv'
<1> DEFINE band == BudgetState(req[t].size)
           row == [req[t].row EXCEPT !.ctx = band]
<1>1. /\ t \in Request /\ Active(t) /\ req[t].pc = "assess" /\ InProgress(t)
      /\ req[t].pc # "lock" /\ req[t] \in RequestState /\ req[t].row \in ConversationRow
      /\ UNCHANGED <<trip, card>>
    BY TurnFacts DEF TurnAssess, TurnPhase
<1>2. /\ Agrees(req[t], conv, trip.intake, card) /\ Agentic
      /\ req[t].row.cands = conv.cands
    BY <1>1 DEF CandsInv, InProgress, Prepared, SessionCurrent
<1>3. /\ req[t].listing.spots \subseteq Eligible[trip.intake]
      /\ conv.cands # None => req[t].listing.spots = conv.cands.spots
      /\ req[t].row.frozen = req[t].listing.spots /\ card = None
    BY <1>1, <1>2 DEF Agrees, Building
<1>4. band \in {"ok", "warning", "closed"}
    BY DEF BudgetState
<1>5. /\ row \in ConversationRow /\ row.cands = conv.cands /\ row.ctx = band
      /\ row.frozen = req[t].listing.spots
    BY <1>1, <1>2, <1>3, <1>4 DEF ConversationRow
<1>6. Merge(conv, req[t].loaded, row) = row
    BY <1>1, <1>5, FlushedRow
<1> HIDE DEF row, band
<1>7. CASE Flush(t, row, "user")
    <2> DEFINE s == [req[t] EXCEPT !.pc = "user", !.loaded = row, !.row = row]
    <2>1. s.pc = "user" /\ s.row = row /\ s.listing = req[t].listing
        BY <1>1 DEF RequestState
    <2>2. req' = [req EXCEPT ![t] = s] /\ conv' = row
        BY <1>6, <1>7 DEF Flush
    <2> HIDE DEF s
    <2>3. Agrees(s, conv', trip'.intake, card')
        BY <1>1, <1>2, <1>3, <1>5, <2>1, <2>2 DEF Agrees, Building
    <2>4. QED
        BY <1>1, <2>1, <2>2, <2>3, CandsMove DEF Ended
<1>8. CASE Go(t, "user") /\ UNCHANGED conv
    <2> DEFINE s == [req[t] EXCEPT !.pc = "user"]
    <2>1. s.pc = "user" /\ s.row = req[t].row /\ s.listing = req[t].listing
        BY <1>1 DEF RequestState
    <2>2. req' = [req EXCEPT ![t] = s]
        BY <1>8 DEF Go
    <2> HIDE DEF s
    <2>3. Agrees(s, conv', trip'.intake, card')
        BY <1>1, <1>2, <1>3, <1>8, <2>1 DEF Agrees, Building
    <2>4. QED
        BY <1>1, <2>1, <2>2, <2>3, CandsMove DEF Ended
<1>9. CASE /\ band = "closed"
           /\ conv' = Merge(conv, req[t].loaded, row)
           /\ End(t, "refused")
    <2>1. conv' = row
        BY <1>6, <1>9
    <2>2. Settled(conv', trip'.intake, card')
        BY <1>1, <1>2, <1>3, <1>5, <1>9, <2>1 DEF Settled, Matched, Agreed, Shown
    <2>3. QED
        BY <1>1, <1>9, <2>2, CandsEnd DEF Ended
<1>10. QED
    BY <1>7, <1>8, <1>9 DEF TurnAssess, row, band

\* Both commits of a turn before it asks the model: its question, then its candidates.
LEMMA TurnStoreCands ==
    ASSUME IInv, CandsInv, Serial, NEW t \in Turn, PersistUser(t) \/ PersistCands(t)
    PROVE  CandsInv'
<1>1. /\ t \in Request /\ Active(t) /\ req[t].pc \in {"user", "list"} /\ InProgress(t)
      /\ req[t].pc # "lock" /\ req[t] \in RequestState /\ req[t].row \in ConversationRow
      /\ UNCHANGED <<trip, card>>
    BY TurnFacts DEF PersistUser, PersistCands, TurnPhase
<1>2. /\ Agrees(req[t], conv, trip.intake, card)
      /\ req[t].row.cands = conv.cands /\ req[t].listing \in Listing
    BY <1>1 DEF CandsInv, InProgress, Prepared, SessionCurrent
<1>3. /\ req[t].listing.spots \subseteq Eligible[trip.intake]
      /\ conv.cands # None => req[t].listing.spots = conv.cands.spots
      /\ req[t].row.frozen = IF Agentic THEN req[t].listing.spots ELSE None
      /\ card = None
    BY <1>1, <1>2 DEF Agrees, Building
<1>4. CASE PersistUser(t)
    <2> DEFINE s == [req[t] EXCEPT !.pc = "list", !.slot = NoSlot, !.loaded = req[t].row]
    <2>1. req' = [req EXCEPT ![t] = s]
        BY <1>4 DEF PersistUser
    <2>2. conv' = req[t].row
        BY <1>1, <1>4, FlushedRow DEF PersistUser
    <2>3. s.pc = "list" /\ s.row = req[t].row /\ s.listing = req[t].listing
        BY <1>1 DEF RequestState
    <2> HIDE DEF s
    <2>4. Agrees(s, conv', trip'.intake, card')
        BY <1>1, <1>2, <1>3, <2>2, <2>3 DEF Agrees, Building
    <2>5. QED
        BY <1>1, <2>1, <2>3, <2>4, CandsMove DEF Ended
<1>5. CASE PersistCands(t)
    <2> DEFINE row == [req[t].row EXCEPT !.cands = req[t].listing]
               s == [req[t] EXCEPT !.pc = "think", !.loaded = row, !.row = row]
    <2>1. req' = [req EXCEPT ![t] = s] /\ conv' = Merge(conv, req[t].loaded, row)
        BY <1>5 DEF PersistCands, Flush
    <2>2. row \in ConversationRow /\ row.cands = req[t].listing /\ row.frozen = req[t].row.frozen
        BY <1>1, <1>2 DEF ConversationRow
    <2> HIDE DEF row
    <2>3. conv' = row
        BY <1>1, <2>1, <2>2, FlushedRow
    <2>4. s.pc = "think" /\ s.row = row
        BY <1>1 DEF RequestState
    <2>5. req[t].listing # None
        BY <1>2, ConversationAssumption
    <2> HIDE DEF s
    <2>6. Agrees(s, conv', trip'.intake, card')
        BY <1>1, <1>3, <2>2, <2>3, <2>4, <2>5 DEF Agrees, Building, Matched, Agreed
    <2>7. QED
        BY <1>1, <2>1, <2>4, <2>6, CandsMove DEF Ended
<1>6. QED
    BY <1>4, <1>5

\* The steps of a turn that leave the row as it is.
LEMMA TurnTalkCands ==
    ASSUME IInv, CandsInv, Serial, NEW t \in Turn, NEW s, req' = [req EXCEPT ![t] = s],
           req[t].pc \in {"think", "call", "result", "reply", "user"},
           s.row = req[t].row, s.listing = req[t].listing,
           \/ /\ req[t].pc = "user" /\ s.pc = "user" /\ UNCHANGED card
           \/ /\ req[t].pc \in {"think", "call", "result"}
              /\ s.pc \in {"think", "call", "result"} /\ UNCHANGED card
           \/ /\ req[t].pc = "think" /\ s.pc \in {"reply", "effects"}
              /\ card' \in {card, s.reply.filter}
           \/ /\ req[t].pc = "reply" /\ s.pc \in {"reply", "effects"}
              /\ s.reply = req[t].reply /\ UNCHANGED card,
           UNCHANGED <<conv, trip>>
    PROVE  CandsInv'
<1>1. t \in Request /\ Active(t)
    BY TurnFacts DEF TurnPhase
<1>2. Agrees(req[t], conv, trip.intake, card)
    BY <1>1 DEF CandsInv
<1>3. Agrees(s, conv', trip'.intake, card')
    BY <1>2 DEF Agrees, Building
<1>4. s.pc \notin Ended \cup {"idle"}
    BY DEF Ended
<1>5. QED
    BY <1>1, <1>3, <1>4, CandsMove

LEMMA TurnQuietCands ==
    ASSUME IInv, CandsInv, Serial, NEW t \in Turn,
           \/ ReadSlot(t) \/ ServeCached(t) \/ Hops(t) \/ PersistCall(t) \/ PersistResult(t)
           \/ Answers(t)
    PROVE  CandsInv'
<1>1. req[t] \in RequestState
    BY DEF IInv, TypeOK, Request
<1>2. CASE ReadSlot(t)
    <2> DEFINE s == [req[t] EXCEPT !.slot = NextSeq]
    <2>1. s.pc = req[t].pc /\ s.row = req[t].row /\ s.listing = req[t].listing
          /\ s.reply = req[t].reply
        BY <1>1 DEF RequestState
    <2>2. /\ req' = [req EXCEPT ![t] = s] /\ UNCHANGED <<conv, trip, card>>
          /\ req[t].pc \in {"user", "call", "result", "reply"}
        BY <1>2 DEF ReadSlot
    <2> HIDE DEF s
    <2>3. QED
        BY <2>1, <2>2, TurnTalkCands
<1>3. CASE ServeCached(t)
    <2> DEFINE reply == [NoReply EXCEPT !.text = TRUE, !.cached = TRUE]
               s == [req[t] EXCEPT !.pc = "reply", !.reply = reply]
    <2>1. s.pc = "reply" /\ s.row = req[t].row /\ s.listing = req[t].listing
        BY <1>1 DEF RequestState
    <2>2. /\ req' = [req EXCEPT ![t] = s] /\ UNCHANGED <<conv, trip, card>>
          /\ req[t].pc = "think"
        BY <1>3 DEF ServeCached
    <2> HIDE DEF s
    <2>3. QED
        BY <2>1, <2>2, TurnTalkCands
<1>4. ASSUME NEW n \in 1..MaxToolCalls, NEW asked \in SUBSET Spot, ToolHop(t, asked, n)
      PROVE  CandsInv'
    <2> DEFINE s == [req[t] EXCEPT !.pc = "call", !.hop = @ + 1, !.calls = n,
                                   !.given = asked \ req[t].row.excluded]
    <2>1. s.pc = "call" /\ s.row = req[t].row /\ s.listing = req[t].listing
        BY <1>1 DEF RequestState
    <2>2. /\ req' = [req EXCEPT ![t] = s] /\ UNCHANGED <<conv, trip, card>>
          /\ req[t].pc = "think"
        BY <1>4 DEF ToolHop
    <2> HIDE DEF s
    <2>3. QED
        BY <2>1, <2>2, TurnTalkCands
<1>5. CASE PersistCall(t)
    <2> DEFINE s == [req[t] EXCEPT !.pc = "result", !.slot = NoSlot]
    <2>1. s.pc = "result" /\ s.row = req[t].row /\ s.listing = req[t].listing
        BY <1>1 DEF RequestState
    <2>2. /\ req' = [req EXCEPT ![t] = s] /\ UNCHANGED <<conv, trip, card>>
          /\ req[t].pc = "call"
        BY <1>5 DEF PersistCall
    <2> HIDE DEF s
    <2>3. QED
        BY <2>1, <2>2, TurnTalkCands
<1>6. CASE PersistResult(t)
    <2> DEFINE s == [req[t] EXCEPT !.pc = IF req[t].calls = 1 THEN "think" ELSE "result",
                                   !.calls = @ - 1, !.slot = NoSlot,
                                   !.given = IF req[t].calls = 1 THEN {} ELSE @]
    <2>1. s.pc \in {"think", "result"} /\ s.row = req[t].row /\ s.listing = req[t].listing
        BY <1>1 DEF RequestState
    <2>2. /\ req' = [req EXCEPT ![t] = s] /\ UNCHANGED <<conv, trip, card>>
          /\ req[t].pc = "result"
        BY <1>6 DEF PersistResult
    <2> HIDE DEF s
    <2>3. QED
        BY <2>1, <2>2, TurnTalkCands
<1>7. ASSUME NEW reply \in Reply, Answer(t, reply) PROVE CandsInv'
    <2> DEFINE s == [req[t] EXCEPT !.pc = IF reply.text THEN "reply" ELSE "effects",
                                   !.reply = reply]
    <2>1. s.pc \in {"reply", "effects"} /\ s.row = req[t].row /\ s.listing = req[t].listing
          /\ s.reply = reply
        BY <1>1 DEF RequestState
    <2>2. /\ req' = [req EXCEPT ![t] = s] /\ UNCHANGED <<conv, trip>>
          /\ req[t].pc = "think"
          /\ card' \in {card, IF reply.filter = None THEN card ELSE reply.filter}
        BY <1>7 DEF Answer
    <2> HIDE DEF s
    <2>3. QED
        BY <2>1, <2>2, TurnTalkCands
<1>8. QED
    BY <1>2, <1>3, <1>4, <1>5, <1>6, <1>7 DEF Hops, Answers

\* What a turn writes last is the filter it proposed, which is the one on the card.
LEMMA TurnWriteCands ==
    ASSUME IInv, CandsInv, Serial, NEW t \in Turn, PersistAnswer(t) \/ PersistEffects(t)
    PROVE  CandsInv'
<1> DEFINE row == Proposed(t)
<1>1. /\ t \in Request /\ Active(t) /\ req[t].pc \in {"reply", "effects"} /\ InProgress(t)
      /\ req[t].pc # "lock" /\ req[t] \in RequestState /\ req[t].row \in ConversationRow
      /\ UNCHANGED <<trip, card>>
    BY TurnFacts DEF PersistAnswer, PersistEffects, TurnPhase
<1>2. /\ Matched(conv, trip.intake) /\ Agreed(conv) /\ req[t].row = conv
      /\ card \in {None, req[t].reply.filter}
    BY <1>1 DEF CandsInv, Agrees, Building
<1>3. /\ row \in ConversationRow
      /\ row.cands = conv.cands /\ row.frozen = conv.frozen /\ row.ctx = conv.ctx
      /\ req[t].reply.filter # None => row.pending = req[t].reply.filter
    BY <1>1, <1>2, ProposedRow DEF TurnPhase, Proposed, ConversationRow
<1> HIDE DEF row
<1>4. CASE conv' = Merge(conv, req[t].loaded, row)
    <2>1. conv' = row
        BY <1>1, <1>3, <1>4, FlushedRow
    <2>2. Matched(conv', trip'.intake) /\ Agreed(conv') /\ Shown(conv', card')
        BY <1>1, <1>2, <1>3, <2>1 DEF Matched, Agreed, Shown
    <2>3. ASSUME NEW s, s.pc = "notes", s.row = row, req' = [req EXCEPT ![t] = s]
          PROVE  CandsInv'
        <3>1. Agrees(s, conv', trip'.intake, card')
            BY <2>1, <2>2, <2>3 DEF Agrees, Building
        <3>2. QED
            BY <1>1, <2>3, <3>1, CandsMove DEF Ended
    <2>4. CASE PersistEffects(t)
        <3> DEFINE s == [req[t] EXCEPT !.pc = "notes", !.loaded = row, !.row = row]
        <3>1. req' = [req EXCEPT ![t] = s]
            BY <2>4 DEF PersistEffects, Flush, row
        <3>2. s.pc = "notes" /\ s.row = row
            BY <1>1 DEF RequestState
        <3> HIDE DEF s
        <3>3. QED
            BY <2>3, <3>1, <3>2
    <2>5. CASE /\ PersistAnswer(t)
               /\ req' = [req EXCEPT ![t].pc = "notes", ![t].slot = NoSlot,
                                     ![t].loaded = Proposed(t), ![t].row = Proposed(t)]
        <3> DEFINE s == [req[t] EXCEPT !.pc = "notes", !.slot = NoSlot,
                                       !.loaded = row, !.row = row]
        <3>1. req' = [req EXCEPT ![t] = s]
            BY <2>5 DEF row
        <3>2. s.pc = "notes" /\ s.row = row
            BY <1>1 DEF RequestState
        <3> HIDE DEF s
        <3>3. QED
            BY <2>3, <3>1, <3>2
    <2>6. CASE /\ PersistAnswer(t)
               /\ req' = [req EXCEPT ![t].pc = "effects", ![t].slot = NoSlot]
               /\ UNCHANGED conv
        <3> DEFINE s == [req[t] EXCEPT !.pc = "effects", !.slot = NoSlot]
        <3>1. s.pc = "effects" /\ s.row = req[t].row /\ s.reply = req[t].reply
              /\ s.listing = req[t].listing
            BY <1>1 DEF RequestState
        <3>2. req' = [req EXCEPT ![t] = s] /\ req[t].pc = "reply"
            BY <2>6 DEF PersistAnswer
        <3> HIDE DEF s
        <3>3. QED
            BY <1>1, <2>6, <3>1, <3>2, TurnTalkCands
    <2>7. QED
        BY <2>4, <2>5, <2>6 DEF PersistAnswer
<1>5. CASE /\ PersistAnswer(t)
           /\ req' = [req EXCEPT ![t].pc = "effects", ![t].slot = NoSlot]
           /\ UNCHANGED conv
    <2> DEFINE s == [req[t] EXCEPT !.pc = "effects", !.slot = NoSlot]
    <2>1. s.pc = "effects" /\ s.row = req[t].row /\ s.reply = req[t].reply
          /\ s.listing = req[t].listing
        BY <1>1 DEF RequestState
    <2>2. req' = [req EXCEPT ![t] = s] /\ req[t].pc = "reply"
        BY <1>5 DEF PersistAnswer
    <2> HIDE DEF s
    <2>3. QED
        BY <1>1, <1>5, <2>1, <2>2, TurnTalkCands
<1>6. QED
    BY <1>4, <1>5 DEF PersistAnswer, PersistEffects, Flush, row

LEMMA TurnEndCands ==
    ASSUME IInv, CandsInv, Serial, NEW t \in Turn, PersistNote(t) \/ Done(t)
    PROVE  CandsInv'
<1>1. CASE PersistNote(t)
    BY <1>1 DEF PersistNote, CandsInv, Idling, Active
<1>2. CASE Done(t)
    <2>1. /\ t \in Request /\ Active(t) /\ req[t].pc = "notes"
          /\ UNCHANGED <<conv, trip, card>> /\ End(t, "done")
        BY <1>2, TurnFacts DEF Done, TurnPhase
    <2>2. Settled(conv, trip.intake, card)
        BY <2>1 DEF CandsInv, Agrees, Building, Settled
    <2>3. QED
        BY <2>1, <2>2, CandsEnd DEF Ended
<1>3. QED
    BY <1>1, <1>2

-----------------------------------------------------------------------------
\* The other handlers keep the three in step as well.
LEMMA LoadCands ==
    ASSUME IInv, CandsInv, Serial, NEW r \in Request, MayStart(r),
           card' \in {card, None}, UNCHANGED <<conv, trip>>,
           \/ \E how \in Ended : End(r, how)
           \/ \E s : /\ req' = [req EXCEPT ![r] = s]
                     /\ \/ s.pc = "exclude" /\ s.row = conv
                        \/ s.pc \in {"reject", "apply"} /\ s.row = conv
                           /\ s.intake = trip.intake /\ card' = None
                        \/ s.pc = "lock"
    PROVE  CandsInv'
<1>1. Settled(conv, trip.intake, card)
    BY CandsAtStart
<1>2. Settled(conv', trip'.intake, card')
    BY <1>1 DEF Settled, Shown
<1>3. CASE \E how \in Ended : End(r, how)
    BY <1>2, <1>3, CandsEnd
<1>4. CASE \E s : /\ req' = [req EXCEPT ![r] = s]
                  /\ \/ s.pc = "exclude" /\ s.row = conv
                     \/ s.pc \in {"reject", "apply"} /\ s.row = conv
                        /\ s.intake = trip.intake /\ card' = None
                     \/ s.pc = "lock"
    <2>1. PICK s : /\ req' = [req EXCEPT ![r] = s]
                   /\ \/ s.pc = "exclude" /\ s.row = conv
                      \/ s.pc \in {"reject", "apply"} /\ s.row = conv
                         /\ s.intake = trip.intake /\ card' = None
                      \/ s.pc = "lock"
        BY <1>4
    <2>2. Agrees(s, conv', trip'.intake, card')
        BY <1>2, <2>1 DEF Agrees, Building, Settled
    <2>3. s.pc \notin Ended \cup {"idle"}
        BY <2>1 DEF Ended
    <2>4. QED
        BY <2>1, <2>2, <2>3, CandsMove
<1>5. QED
    BY <1>3, <1>4

LEMMA LoadsCands ==
    ASSUME IInv, CandsInv, Serial, NEW r \in Request,
           \/ \E s \in Spot : ExcludeLoad(r, s) \/ LockLoad(r, s)
           \/ \E yes \in BOOLEAN : ConfirmLoad(r, yes)
    PROVE  CandsInv'
<1>1. ASSUME NEW s \in Spot, ExcludeLoad(r, s) PROVE CandsInv'
    <2> DEFINE new == [Blank EXCEPT !.pc = "exclude", !.spot = s, !.loaded = conv, !.row = conv]
    <2>1. new.pc = "exclude" /\ new.row = conv
        BY DEF Blank
    <2>2. MayStart(r) /\ UNCHANGED <<conv, trip, card>>
          /\ (End(r, "refused") \/ req' = [req EXCEPT ![r] = new])
        BY <1>1 DEF ExcludeLoad
    <2> HIDE DEF new
    <2>3. QED
        BY <2>1, <2>2, LoadCands DEF Ended
<1>2. ASSUME NEW s \in Spot, LockLoad(r, s) PROVE CandsInv'
    <2> DEFINE new == [Blank EXCEPT !.pc = "lock", !.spot = s]
    <2>1. new.pc = "lock"
        BY DEF Blank
    <2>2. MayStart(r) /\ UNCHANGED <<conv, trip, card>>
          /\ (End(r, "refused") \/ req' = [req EXCEPT ![r] = new])
        BY <1>2 DEF LockLoad
    <2> HIDE DEF new
    <2>3. QED
        BY <2>1, <2>2, LoadCands DEF Ended
<1>3. ASSUME NEW yes \in BOOLEAN, ConfirmLoad(r, yes) PROVE CandsInv'
    <2> DEFINE new == [Blank EXCEPT !.pc = IF yes THEN "apply" ELSE "reject", !.loaded = conv,
                                    !.row = conv, !.intake = trip.intake]
    <2>1. new.pc \in {"reject", "apply"} /\ new.row = conv /\ new.intake = trip.intake
        BY DEF Blank
    <2>2. MayStart(r) /\ UNCHANGED <<conv, trip>> /\ card' = None
          /\ (End(r, "refused") \/ req' = [req EXCEPT ![r] = new])
        BY <1>3 DEF ConfirmLoad
    <2> HIDE DEF new
    <2>3. QED
        BY <2>1, <2>2, LoadCands DEF Ended
<1>4. QED
    BY <1>1, <1>2, <1>3

LEMMA ExcludeCommitCands ==
    ASSUME IInv, CandsInv, Serial, NEW x \in Exclusion, ExcludeCommit(x)
    PROVE  CandsInv'
<1> DEFINE row == SetAsideIn(req[x].row, req[x].spot)
<1>1. /\ x \in Request /\ req[x].pc = "exclude" /\ Active(x) /\ req[x].pc # "lock"
      /\ InProgress(x) /\ req[x].row \in ConversationRow
      /\ conv' = Merge(conv, req[x].loaded, row) /\ End(x, "done")
      /\ UNCHANGED <<trip, card>>
    BY HolderFacts DEF ExcludeCommit, FlushAndEnd, Request
<1>2. /\ req[x].row = conv /\ Matched(conv, trip.intake) /\ Agreed(conv) /\ Shown(conv, card)
    BY <1>1 DEF CandsInv, Agrees, Building
<1>3. conv.cands # None /\ conv.cands \in Listing /\ req[x].spot \in Spot
    BY <1>1, <1>2 DEF InProgress, Prepared
<1>4. /\ row \in ConversationRow /\ row.cands.spots = conv.cands.spots \ {req[x].spot}
      /\ row.frozen = None /\ row.pending = conv.pending
    BY <1>1, <1>2, <1>3 DEF SetAsideIn, ConversationRow, Listing
<1> HIDE DEF row
<1>5. conv' = row
    BY <1>1, <1>4, FlushedRow
<1>6. Settled(conv', trip'.intake, card')
    BY <1>1, <1>2, <1>3, <1>4, <1>5 DEF Settled, Matched, Agreed, Shown
<1>7. QED
    BY <1>1, <1>6, CandsEnd DEF Ended

LEMMA ConfirmCands ==
    ASSUME IInv, CandsInv, Serial, NEW c \in Confirmation,
           ConfirmReject(c) \/ ConfirmApply(c)
    PROVE  CandsInv'
<1> DEFINE row == [req[c].row EXCEPT !.pending = None]
<1>1. /\ c \in Request /\ req[c].pc \in {"reject", "apply"} /\ Active(c) /\ req[c].pc # "lock"
      /\ InProgress(c) /\ req[c] \in RequestState /\ req[c].row \in ConversationRow
      /\ conv' = Merge(conv, req[c].loaded, row) /\ UNCHANGED card
    BY HolderFacts DEF ConfirmReject, ConfirmApply, FlushAndEnd, Request
<1>2. /\ req[c].row = conv /\ Matched(conv, trip.intake) /\ Agreed(conv) /\ card = None
      /\ req[c].pc = "apply" => req[c].intake = trip.intake
    BY <1>1 DEF CandsInv, Agrees, Building
<1>3. /\ row \in ConversationRow /\ row.cands = conv.cands /\ row.frozen = conv.frozen
      /\ row.ctx = conv.ctx
    BY <1>1, <1>2 DEF ConversationRow
<1> HIDE DEF row
<1>4. conv' = row
    BY <1>1, <1>3, FlushedRow
<1>5. CASE ConfirmReject(c)
    <2>1. Settled(conv', trip'.intake, card')
        BY <1>1, <1>2, <1>3, <1>4, <1>5 DEF ConfirmReject, Settled, Matched, Agreed, Shown
    <2>2. QED
        BY <1>1, <1>5, <2>1, CandsEnd DEF ConfirmReject, FlushAndEnd, Ended
<1>6. CASE ConfirmApply(c)
    <2> DEFINE intake == Applied(req[c].intake, req[c].row.pending)
               s == [req[c] EXCEPT !.pc = "rerun", !.loaded = row, !.row = row,
                                   !.intake = intake]
    <2>1. /\ req' = [req EXCEPT ![c] = s]
          /\ trip' = [trip EXCEPT !.intake = IF intake = req[c].intake THEN @ ELSE intake]
          /\ req[c].pc = "apply"
        BY <1>6 DEF ConfirmApply, row
    <2> HIDE DEF intake
    <2>2. s.pc = "rerun" /\ s.row = row /\ s.intake = intake
        BY <1>1 DEF RequestState
    <2>3. trip'.intake = intake
        BY <1>2, <2>1 DEF IInv, TypeOK
    <2> HIDE DEF s
    <2>4. Agrees(s, conv', trip'.intake, card')
        BY <1>1, <1>2, <1>3, <1>4, <2>2, <2>3 DEF Agrees, Building, Agreed
    <2>5. QED
        BY <1>1, <2>1, <2>2, <2>4, CandsMove DEF Ended
<1>7. QED
    BY <1>5, <1>6

LEMMA ConfirmRerunCands ==
    ASSUME IInv, CandsInv, Serial, NEW c \in Confirmation, ConfirmRerun(c)
    PROVE  CandsInv'
<1>1. /\ c \in Request /\ req[c].pc = "rerun" /\ Active(c) /\ req[c].pc # "lock"
      /\ req[c] \in RequestState /\ req[c].row \in ConversationRow /\ UNCHANGED <<trip, card>>
    BY HolderFacts DEF ConfirmRerun, Request
<1>2. /\ req[c].row = conv /\ card = None /\ req[c].intake = trip.intake
      /\ ~Agentic => conv.frozen = None
    BY <1>1 DEF CandsInv, Agrees, Building
<1>3. PICK listing \in Pipeline(req[c].intake, req[c].row.excluded) :
          FlushAndEnd(c, [Frozen(req[c].row, listing, TRUE) EXCEPT !.cands = listing])
    BY DEF ConfirmRerun
<1> DEFINE row == [Frozen(req[c].row, listing, TRUE) EXCEPT !.cands = listing]
<1>4. listing \in Listing /\ listing # None /\ listing.spots \subseteq Eligible[trip.intake]
    <2>1. req[c].intake \in Filter \cup {NoFilter} /\ TypeOK
        BY <1>1 DEF RequestState, IInv
    <2>2. listing \in Listing
        BY <2>1, PipelineRespects
    <2>3. listing.spots \subseteq Eligible[req[c].intake]
        BY DEF Pipeline
    <2>4. QED
        BY <1>2, <2>2, <2>3, ConversationAssumption
<1>5. /\ row \in ConversationRow /\ row.cands = listing
      /\ row.frozen = IF Agentic THEN listing.spots ELSE None
    <2>1. /\ Frozen(req[c].row, listing, TRUE) \in ConversationRow
          /\ Frozen(req[c].row, listing, TRUE).frozen
                = IF Agentic THEN listing.spots ELSE conv.frozen
        BY <1>1, <1>2, <1>4, FrozenRespects DEF IInv, Frozen, Freezes, ConversationRow
    <2>2. QED
        BY <1>2, <1>4, <2>1 DEF ConversationRow
<1> HIDE DEF row
<1>6. conv' = row /\ End(c, "done")
    BY <1>1, <1>3, <1>5, FlushedRow DEF FlushAndEnd, row
<1>7. Settled(conv', trip'.intake, card')
    BY <1>1, <1>2, <1>4, <1>5, <1>6 DEF Settled, Matched, Agreed, Shown
<1>8. QED
    BY <1>1, <1>6, <1>7, CandsEnd DEF Ended

LEMMA LockCommitCands ==
    ASSUME IInv, CandsInv, Serial, NEW l \in Locking, LockCommit(l)
    PROVE  CandsInv'
<1>1. /\ l \in Request /\ req[l].pc = "lock" /\ Active(l) /\ End(l, "done")
      /\ trip' = [trip EXCEPT !.spot = req[l].spot] /\ UNCHANGED <<conv, card>>
    BY DEF LockCommit, Request, Active, Ended
<1>2. trip'.intake = trip.intake
    BY <1>1 DEF IInv, TypeOK
<1>3. Settled(conv', trip'.intake, card')
    BY <1>1, <1>2 DEF CandsInv, Agrees, Building, Settled
<1>4. QED
    BY <1>1, <1>3, CandsEnd DEF Ended

LEMMA StepCands == Serial /\ ~Faults /\ IInv /\ CandsInv /\ [Next]_vars => CandsInv'
<1> SUFFICES ASSUME Serial, ~Faults, IInv, CandsInv, [Next]_vars PROVE CandsInv'
    OBVIOUS
<1>1. ASSUME UNCHANGED <<conv, trip, card, req>> PROVE CandsInv'
    BY <1>1 DEF CandsInv, Idling, Active
<1>2. ASSUME NEW t \in Turn, TurnLoad(t) \/ TurnStep(t) PROVE CandsInv'
    BY <1>2, TurnLoadCands, TurnBuildCands, TurnAssessCands, TurnStoreCands, TurnQuietCands,
       TurnWriteCands, TurnEndCands
    DEF TurnStep
<1>3. ASSUME NEW x \in Exclusion, ExcludeCommit(x) \/ \E s \in Spot : ExcludeLoad(x, s)
      PROVE  CandsInv'
    BY <1>3, ExcludeCommitCands, LoadsCands DEF Request
<1>4. ASSUME NEW c \in Confirmation,
             \/ \E yes \in BOOLEAN : ConfirmLoad(c, yes)
             \/ ConfirmReject(c) \/ ConfirmApply(c) \/ ConfirmRerun(c)
      PROVE  CandsInv'
    BY <1>4, ConfirmCands, ConfirmRerunCands, LoadsCands DEF Request
<1>5. ASSUME NEW l \in Locking, LockCommit(l) \/ \E s \in Spot : LockLoad(l, s)
      PROVE  CandsInv'
    BY <1>5, LockCommitCands, LoadsCands DEF Request
<1>6. QED
    BY <1>1, <1>2, <1>3, <1>4, <1>5 DEF Next, Lapse, Die, vars

\* Between requests, what the model reads, what get_spot takes to be loaded and what the
\* user confirmed are one list, and the card shows the filter that a Yes would apply
\* (_build_agentic_context, confirm_filter_endpoint): when requests come one at a time
\* and none dies between its commits.
THEOREM OneList ==
    ASSUME Serial, ~Faults
    PROVE  Spec => []CandidatesCurrent
<1>1. CandsInv => CandidatesCurrent
    BY DEF CandsInv, Settled, Matched, Agreed, Shown, CandidatesCurrent, CandsMatchIntake,
           FrozenMatchesCands, CardIsPending
<1>2. Serial /\ ~Faults
    OBVIOUS
<1>3. QED
    BY <1>1, <1>2, InitCands, StepCands, Invariance, PTL DEF Spec
-----------------------------------------------------------------------------
\* The results of a hop follow its call without a gap.  While they are being added, the
\* last of them is the last row of the transcript, so the next ordinal is theirs.
AnsweredUpTo(m, k) ==
    \A i \in 1..k : \E n \in messages :
        n.kind = "result" /\ n.turn = m.turn /\ n.seq = m.seq + i

BeingAnswered(m) ==
    LET q == req[m.turn]
        given == m.calls - q.calls
    IN  /\ q.pc = "result" /\ q.calls \in 1..m.calls
        /\ AnsweredUpTo(m, given)
        /\ \A n \in messages : n.seq <= m.seq + given
        /\ q.slot # NoSlot => q.slot = m.seq + given + 1

CallsInv ==
    \A m \in messages : m.kind = "call" => AnsweredUpTo(m, m.calls) \/ BeingAnswered(m)

\* A step that adds no row, and leaves a turn that is adding results where it is.
LEMMA NoRowCalls ==
    ASSUME CallsInv, messages \subseteq MessageRow, messages' = messages,
           \A t \in Turn : req[t].pc = "result" => req'[t] = req[t]
    PROVE  CallsInv'
<1>1. \A m \in messages : m.turn \in Turn
    BY DEF MessageRow
<1>2. \A m \in messages : \A k : AnsweredUpTo(m, k) => AnsweredUpTo(m, k)'
    BY DEF AnsweredUpTo
<1>3. \A m \in messages : BeingAnswered(m) => BeingAnswered(m)'
    BY <1>1, <1>2 DEF BeingAnswered
<1>4. QED
    BY <1>2, <1>3 DEF CallsInv

\* In the phases in which no turn adds results, all the calls are answered.
LEMMA AllAnswered ==
    ASSUME IInv, CallsInv, NEW r \in Request, Active(r), req[r].pc # "result",
           NEW m \in messages, m.kind = "call"
    PROVE  AnsweredUpTo(m, m.calls)
<1>1. m.turn \in Turn
    BY DEF IInv, TypeOK, MessageRow
<1>2. ASSUME req[m.turn].pc = "result" PROVE FALSE
    BY <1>1, <1>2 DEF IInv, OneAtATime, Active, Ended, Request
<1>3. QED
    BY <1>2 DEF CallsInv, BeingAnswered

\* A row that is not a call, added when every call is answered.
LEMMA OtherRowCalls ==
    ASSUME \A m \in messages : m.kind = "call" => AnsweredUpTo(m, m.calls),
           NEW t \in Turn, NEW kind, kind # "call", Append(t, kind, 0)
    PROVE  CallsInv'
<1> DEFINE new == [turn |-> t, kind |-> kind, seq |-> req[t].slot, calls |-> 0]
<1>1. messages' = messages \cup {new} /\ new.kind # "call"
    BY DEF Append
<1> HIDE DEF new
<1>2. \A m \in messages : \A k : AnsweredUpTo(m, k) => AnsweredUpTo(m, k)'
    BY <1>1 DEF AnsweredUpTo
<1>3. QED
    BY <1>1, <1>2 DEF CallsInv

LEMMA PersistCallCalls ==
    ASSUME IInv, CallsInv, NEW t \in Turn, PersistCall(t)
    PROVE  CallsInv'
<1>1. /\ t \in Request /\ Active(t) /\ req[t].pc = "call" /\ req[t] \in RequestState
      /\ messages \subseteq MessageRow /\ req[t].slot \in Nat
      /\ \A m \in messages : m.seq < req[t].slot
      /\ req[t].calls \in Nat /\ req[t].calls >= 1
    BY TurnFacts DEF PersistCall, TurnPhase, Append, RequestState, InProgress, Prepared
<1>0. PICK new : new = [turn |-> t, kind |-> "call", seq |-> req[t].slot, calls |-> req[t].calls]
    OBVIOUS
<1>2. /\ messages' = messages \cup {new}
      /\ req' = [req EXCEPT ![t].pc = "result", ![t].slot = NoSlot]
    BY <1>0 DEF PersistCall, Append
<1>3. req'[t].pc = "result" /\ req'[t].slot = NoSlot /\ req'[t].calls = req[t].calls
    BY <1>1, <1>2, TurnFacts DEF RequestState, TurnPhase
<1>4. new.turn = t /\ new.kind = "call" /\ new.seq = req[t].slot /\ new.calls = req[t].calls
    BY <1>0
<1>5. \A m \in messages : m.kind = "call" => AnsweredUpTo(m, m.calls)
    BY <1>1, AllAnswered
<1>6. \A m \in messages : \A k : AnsweredUpTo(m, k) => AnsweredUpTo(m, k)'
    BY <1>2 DEF AnsweredUpTo
<1>7. BeingAnswered(new)'
    <2>1. \A m \in messages : m.seq \in Nat
        BY <1>1 DEF MessageRow
    <2>2. new.calls \in Nat /\ req'[t].calls \in 1..new.calls /\ new.calls - req'[t].calls = 0
        BY <1>1, <1>3, <1>4
    <2>3. \A n \in messages' : n.seq <= new.seq + 0
        BY <1>1, <1>2, <1>4, <2>1
    <2>4. \A i \in 1..0 : FALSE
        OBVIOUS
    <2>5. AnsweredUpTo(new, 0)'
        BY <2>4 DEF AnsweredUpTo
    <2>6. QED
        BY <1>3, <1>4, <2>2, <2>3, <2>5 DEF BeingAnswered
<1>8. QED
    BY <1>2, <1>5, <1>6, <1>7 DEF CallsInv

LEMMA PersistResultCalls ==
    ASSUME IInv, CallsInv, NEW t \in Turn, PersistResult(t)
    PROVE  CallsInv'
<1>1. /\ t \in Request /\ Active(t) /\ req[t].pc = "result" /\ req[t] \in RequestState
      /\ messages \subseteq MessageRow /\ req[t].slot \in Nat /\ req[t].slot # NoSlot
      /\ req[t].calls \in Nat /\ req[t].calls >= 1
    BY TurnFacts DEF PersistResult, TurnPhase, Append, RequestState, InProgress, Prepared
<1>0. PICK new : new = [turn |-> t, kind |-> "result", seq |-> req[t].slot, calls |-> 0]
    OBVIOUS
<1>2. /\ messages' = messages \cup {new}
      /\ req' = [req EXCEPT ![t].pc = IF req[t].calls = 1 THEN "think" ELSE "result",
                            ![t].calls = @ - 1, ![t].slot = NoSlot,
                            ![t].given = IF req[t].calls = 1 THEN {} ELSE @]
    BY <1>0 DEF PersistResult, Append
<1>3. /\ req'[t].pc = IF req[t].calls = 1 THEN "think" ELSE "result"
      /\ req'[t].slot = NoSlot /\ req'[t].calls = req[t].calls - 1
    BY <1>1, <1>2, TurnFacts DEF RequestState, TurnPhase
<1>4. new.turn = t /\ new.kind = "result" /\ new.seq = req[t].slot
    BY <1>0
<1>5. \A m \in messages : \A k : AnsweredUpTo(m, k) => AnsweredUpTo(m, k)'
    BY <1>2 DEF AnsweredUpTo
<1>6. SUFFICES ASSUME NEW m \in messages, m.kind = "call"
               PROVE  (AnsweredUpTo(m, m.calls) \/ BeingAnswered(m))'
    BY <1>2, <1>4 DEF CallsInv
<1>7. m.turn \in Turn /\ m.calls \in Nat /\ m.seq \in Nat
    BY <1>1 DEF MessageRow
<1>8. CASE AnsweredUpTo(m, m.calls)
    BY <1>5, <1>8
<1>9. CASE BeingAnswered(m)
    <2>0. PICK given : given = m.calls - req[t].calls
        OBVIOUS
    <2>1. m.turn = t
        BY <1>1, <1>7, <1>9 DEF BeingAnswered, IInv, OneAtATime, Active, Ended, Request
    <2>2. /\ req[t].calls \in 1..m.calls /\ AnsweredUpTo(m, given)
          /\ \A n \in messages : n.seq <= m.seq + given
          /\ req[t].slot = m.seq + given + 1
        BY <1>1, <1>9, <2>0, <2>1 DEF BeingAnswered
    <2>3. given \in Nat /\ given + 1 = m.calls - req'[t].calls
        BY <1>1, <1>3, <1>7, <2>0, <2>2
    <2>4. AnsweredUpTo(m, given + 1)'
        <3> SUFFICES ASSUME NEW i \in 1..given + 1
                     PROVE  \E n \in messages' :
                                n.kind = "result" /\ n.turn = m.turn /\ n.seq = m.seq + i
            BY DEF AnsweredUpTo
        <3>1. CASE i = given + 1
            BY <1>2, <1>4, <1>7, <2>1, <2>2, <2>3, <3>1
        <3>2. CASE i # given + 1
            <4>1. i \in 1..given
                BY <2>3, <3>2
            <4>2. QED
                BY <1>2, <2>2, <4>1 DEF AnsweredUpTo
        <3>3. QED
            BY <3>1, <3>2
    <2>5. CASE req[t].calls = 1
        <3>1. given + 1 = m.calls
            BY <1>3, <1>7, <2>3, <2>5
        <3>2. QED
            BY <2>4, <3>1
    <2>6. CASE req[t].calls # 1
        <3>1. req'[t].pc = "result" /\ req'[t].calls \in 1..m.calls
            BY <1>1, <1>3, <1>7, <2>2, <2>6
        <3>2. \A n \in messages : n.seq \in Nat
            BY <1>1 DEF MessageRow
        <3>3. \A n \in messages' : n.seq <= m.seq + (given + 1)
            BY <1>2, <1>4, <1>7, <2>2, <2>3, <3>2
        <3>4. BeingAnswered(m)'
            BY <1>3, <2>1, <2>3, <2>4, <3>1, <3>3 DEF BeingAnswered
        <3>5. QED
            BY <3>4
    <2>7. QED
        BY <2>5, <2>6
<1>10. AnsweredUpTo(m, m.calls) \/ BeingAnswered(m)
    BY <1>6 DEF CallsInv
<1>11. QED
    BY <1>8, <1>9, <1>10

\* The ordinal read for the next result is the one right behind the last.
LEMMA ReadSlotCalls ==
    ASSUME IInv, CallsInv, NEW t \in Turn, ReadSlot(t)
    PROVE  CallsInv'
<1>1. /\ t \in Request /\ Active(t) /\ req[t] \in RequestState
      /\ req' = [req EXCEPT ![t].slot = NextSeq] /\ messages' = messages
      /\ messages \subseteq MessageRow /\ req \in [Request -> RequestState]
      /\ req[t].slot = NoSlot
    BY TurnFacts DEF ReadSlot, TurnPhase
<1>2. /\ req'[t].pc = req[t].pc /\ req'[t].calls = req[t].calls /\ req'[t].slot = NextSeq
      /\ \A u \in Request \ {t} : req'[u] = req[u]
    BY <1>1 DEF RequestState
<1>3. \A m \in messages : \A k : AnsweredUpTo(m, k) => AnsweredUpTo(m, k)'
    BY <1>1 DEF AnsweredUpTo
<1>4. ASSUME NEW m \in messages, m.kind = "call", BeingAnswered(m)
      PROVE  BeingAnswered(m)'
    <2>1. m.turn \in Turn /\ m.calls \in Nat /\ m.seq \in Nat /\ m.turn \in Request
        BY <1>1 DEF MessageRow, Request
    <2>2. CASE m.turn # t
        BY <1>1, <1>2, <1>3, <1>4, <2>1, <2>2 DEF BeingAnswered
    <2>3. CASE m.turn = t
        <3> DEFINE given == m.calls - req[t].calls
        <3>1. /\ req[t].pc = "result" /\ req[t].calls \in 1..m.calls /\ AnsweredUpTo(m, given)
              /\ \A n \in messages : n.seq <= m.seq + given
            BY <1>4, <2>3 DEF BeingAnswered
        <3>2. given \in Nat
            BY <2>1, <3>1
        <3> HIDE DEF given
        <3>3. \E n \in messages : n.seq = m.seq + given
            <4>1. CASE given = 0
                BY <2>1, <4>1
            <4>2. CASE given # 0
                <5>1. given \in 1..given
                    BY <3>2, <4>2
                <5>2. QED
                    BY <3>1, <5>1 DEF AnsweredUpTo
            <4>3. QED
                BY <4>1, <4>2
        <3>4. \A n \in messages : n.seq \in Nat
            BY <1>1 DEF MessageRow
        <3>5. NextSeq = m.seq + given + 1
            <4> DEFINE S == {n.seq : n \in messages}
            <4>1. m.seq + given \in S /\ \A y \in S : m.seq + given >= y
                BY <2>1, <3>1, <3>2, <3>3, <3>4
            <4>2. \E x \in S : \A y \in S : x >= y
                BY <4>1
            <4>3. Max(S) \in S /\ \A y \in S : Max(S) >= y
                BY <4>2 DEF Max
            <4>4. \A y \in S : y \in Nat
                BY <3>4
            <4>5. NextSeq = 1 + Max(S)
                BY DEF NextSeq
            <4> HIDE DEF S
            <4>6. Max(S) = m.seq + given
                BY <2>1, <3>2, <4>1, <4>3, <4>4
            <4>7. QED
                BY <2>1, <3>2, <4>5, <4>6
        <3>6. given = m.calls - req'[t].calls
            BY <1>2 DEF given
        <3>7. QED
            BY <1>1, <1>2, <1>3, <2>3, <3>1, <3>5, <3>6 DEF BeingAnswered
    <2>4. QED
        BY <2>2, <2>3
<1>5. QED
    BY <1>1, <1>3, <1>4 DEF CallsInv

\* What a step does to a turn that is adding results: nothing, or it is that turn's own.
LEMMA ResultStays ==
    ASSUME IInv, Serial, ~Faults, [Next]_vars, NEW t \in Turn, req[t].pc = "result",
           ~ReadSlot(t), ~PersistResult(t)
    PROVE  req'[t] = req[t]
<1>1. t \in Request /\ Active(t) /\ req \in [Request -> RequestState]
    BY TurnFacts DEF TurnPhase
<1>2. \A q \in Request \ {t} : ~Active(q) /\ ~MayStart(q)
    BY <1>1 DEF IInv, OneAtATime, MayStart, Serial
<1>3. ASSUME NEW q \in Request, q # t, NEW new, req' = [req EXCEPT ![q] = new]
      PROVE  req'[t] = req[t]
    BY <1>1, <1>3
<1>4. ~MayStart(t)
    BY DEF MayStart
<1>5. ASSUME NEW u \in Turn, TurnLoad(u) \/ TurnStep(u) PROVE req'[t] = req[t]
    <2>1. CASE u = t
        BY <1>4, <1>5, <2>1
        DEF TurnLoad, TurnStep, TurnBuild, TurnAssess, PersistUser, PersistCands, ServeCached,
            Hops, ToolHop, PersistCall, Answers, Answer, PersistAnswer, PersistEffects,
            PersistNote, Done
    <2>2. CASE u # t
        <3>1. req[u].pc \in Ended \cup {"idle"} /\ ~MayStart(u)
            BY <1>2, <2>2 DEF Active, Request
        <3>2. ~TurnLoad(u) /\ (TurnStep(u) => FALSE)
            BY <3>1
            DEF TurnLoad, TurnStep, TurnBuild, TurnAssess, ReadSlot, PersistUser, PersistCands,
                ServeCached, Hops, ToolHop, PersistCall, PersistResult, Answers, Answer,
                PersistAnswer, PersistEffects, PersistNote, Done, Ended
        <3>3. QED
            BY <1>5, <3>2
    <2>3. QED
        BY <2>1, <2>2
<1>6. ASSUME NEW r \in Request \ Turn,
             \/ \E s \in Spot : ExcludeLoad(r, s) \/ LockLoad(r, s)
             \/ \E yes \in BOOLEAN : ConfirmLoad(r, yes)
             \/ ExcludeCommit(r) \/ ConfirmReject(r) \/ ConfirmApply(r) \/ ConfirmRerun(r)
             \/ LockCommit(r)
      PROVE  FALSE
    <2>1. req[r].pc \in Ended \cup {"idle"} /\ ~MayStart(r)
        BY <1>2, <1>6 DEF Active, Request
    <2>2. QED
        BY <1>6, <2>1
        DEF ExcludeLoad, LockLoad, ConfirmLoad, ExcludeCommit, ConfirmReject, ConfirmApply,
            ConfirmRerun, LockCommit, Ended
<1>7. Exclusion \cup Confirmation \cup Locking \subseteq Request \ Turn
    BY ConversationAssumption DEF Request
<1>8. CASE UNCHANGED req
    BY <1>8
<1>9. QED
    BY <1>5, <1>6, <1>7, <1>8 DEF Next, Lapse, Die, vars

LEMMA StepCalls == Serial /\ ~Faults /\ IInv /\ CallsInv /\ [Next]_vars => CallsInv'
<1> SUFFICES ASSUME Serial, ~Faults, IInv, CallsInv, [Next]_vars PROVE CallsInv'
    OBVIOUS
<1>1. messages \subseteq MessageRow
    BY DEF IInv, TypeOK
<1>2. ASSUME NEW t \in Turn, PersistUser(t) \/ PersistAnswer(t) PROVE CallsInv'
    <2>1. Active(t) /\ t \in Request /\ req[t].pc # "result"
        BY <1>2, TurnFacts DEF PersistUser, PersistAnswer, TurnPhase
    <2>2. \A m \in messages : m.kind = "call" => AnsweredUpTo(m, m.calls)
        BY <2>1, AllAnswered
    <2>3. QED
        BY <1>2, <2>2, OtherRowCalls DEF PersistUser, PersistAnswer
<1>3. ASSUME NEW t \in Turn, PersistCall(t) \/ PersistResult(t) \/ ReadSlot(t) PROVE CallsInv'
    BY <1>3, PersistCallCalls, PersistResultCalls, ReadSlotCalls
<1>4. CASE \A t \in Turn : /\ ~PersistUser(t) /\ ~PersistAnswer(t) /\ ~PersistCall(t)
                           /\ ~PersistResult(t) /\ ~ReadSlot(t)
    <2>1. messages' = messages
        BY <1>4
        DEF Next, vars, Lapse, TurnLoad, TurnStep, TurnBuild, TurnAssess, PersistCands,
            ServeCached, Hops, ToolHop, Answers, Answer, PersistEffects, PersistNote, Done,
            ExcludeCommit, ExcludeLoad, ConfirmLoad, ConfirmReject, ConfirmApply, ConfirmRerun,
            LockLoad, LockCommit, Die
    <2>2. \A t \in Turn : req[t].pc = "result" => req'[t] = req[t]
        BY <1>4, ResultStays
    <2>3. QED
        BY <1>1, <2>1, <2>2, NoRowCalls
<1>5. QED
    BY <1>2, <1>3, <1>4

\* "a single assistant row carrying the tool_calls, then one role=tool row per result"
\* (_persist_tool_turn): once its turn is over, a call has all its results right behind
\* it, for any number of turns, hops and calls, when requests come one at a time and none
\* dies between its commits.
THEOREM CallsAreAnswered ==
    ASSUME Serial, ~Faults
    PROVE  Spec => []CallsAnswered
<1>1. Init => CallsInv
    BY DEF Init, CallsInv
<1>2. IInv /\ CallsInv => CallsAnswered
    <2> SUFFICES ASSUME IInv, CallsInv, NEW m \in messages, m.kind = "call", ~Active(m.turn)
                 PROVE  AnsweredUpTo(m, m.calls)
        BY DEF CallsAnswered, AnsweredUpTo
    <2>1. ~BeingAnswered(m)
        BY DEF BeingAnswered, Active, Ended
    <2>2. QED
        BY <2>1 DEF CallsInv
<1>3. Serial /\ ~Faults
    OBVIOUS
<1>4. QED
    BY <1>1, <1>2, <1>3, StepCalls, Invariance, PTL DEF Spec
-----------------------------------------------------------------------------
\* What holds however the requests overlap: no assumption on Overlap, none on failures.
\* What a turn has shown is committed when its `done` is sent, because the turn adds its
\* rows and its notes itself, one commit after the other, and nobody takes a row of
\* another turn away.
Field == {"pc", "loaded", "row", "intake", "listing", "size", "slot", "hop", "calls",
          "given", "spot", "reply"}

\* Every request has its fields, whatever is in them: two sessions that overlap may
\* write what neither of them alone would.
HasFields(state) == state = [f \in Field |-> state[f]]

Shaped ==
    /\ req = [r \in Request |-> req[r]]
    /\ \A r \in Request : HasFields(req[r])
    /\ notes = [t \in Turn |-> notes[t]]

HasRow(t, kind) == \E m \in messages : m.turn = t /\ m.kind = kind

\* The phases of a turn whose question is saved.
Asked == {"list", "think", "call", "result", "reply", "effects", "notes"}

\* What a turn in progress has saved: its question once it lists candidates, its answer
\* once it turns to the effects.
Saved(t) ==
    /\ req[t].pc \in Asked => HasRow(t, "user")
    /\ req[t].pc \in {"effects", "notes"} /\ req[t].reply.text => HasRow(t, "answer")

\* DoneIsDurable of one turn.
Delivered(t) ==
    req[t].pc = "done" =>
        /\ HasRow(t, "user")
        /\ req[t].reply.text => HasRow(t, "answer")
        /\ notes[t] = req[t].reply.notes

DurableInv == Shaped /\ \A t \in Turn : Saved(t) /\ Delivered(t)

LEMMA InitDurable == Init => DurableInv
<1> SUFFICES ASSUME Init PROVE DurableInv
    OBVIOUS
<1>1. \A r \in Request : req[r] = Blank
    BY DEF Init
<1>2. HasFields(Blank) /\ Blank.pc = "idle"
    BY DEF Blank, Field, HasFields
<1>3. Shaped
    BY <1>1, <1>2 DEF Init, Shaped
<1>4. \A t \in Turn : req[t].pc = "idle"
    BY <1>1, <1>2 DEF Request
<1>5. QED
    BY <1>3, <1>4 DEF DurableInv, Saved, Delivered, Asked

\* A step of one request r: the others have what they had, so r alone is in question.
LEMMA OneSaves ==
    ASSUME DurableInv, NEW r \in Request, Shaped',
           \A q \in Request \ {r} : req'[q] = req[q],
           \A t \in Turn \ {r} : notes'[t] = notes[t],
           messages \subseteq messages',
           r \in Turn => Saved(r)' /\ Delivered(r)'
    PROVE  DurableInv'
<1>1. ASSUME NEW t \in Turn, t # r PROVE Saved(t)' /\ Delivered(t)'
    <2>1. req'[t] = req[t] /\ notes'[t] = notes[t]
        BY <1>1 DEF Request
    <2>2. \A kind : HasRow(t, kind) => HasRow(t, kind)'
        BY DEF HasRow
    <2>3. QED
        BY <2>1, <2>2 DEF DurableInv, Saved, Delivered
<1>2. QED
    BY <1>1 DEF DurableInv

\* A request that is replaced by one with the same fields.
LEMMA PutShaped ==
    ASSUME Shaped, NEW r \in Request, NEW new, HasFields(new),
           req' = [req EXCEPT ![r] = new], UNCHANGED notes
    PROVE  Shaped' /\ (\A q \in Request \ {r} : req'[q] = req[q]) /\ req'[r] = new
    BY DEF Shaped

\* A request that is over, or that starts, has its fields, and has nothing to show for a
\* turn unless it is done.
LEMMA EndShaped ==
    ASSUME Shaped, NEW r \in Request, NEW how, End(r, how), UNCHANGED notes
    PROVE  /\ Shaped' /\ \A q \in Request \ {r} : req'[q] = req[q]
           /\ req'[r].pc = how /\ (how = "done" => req'[r].reply = req[r].reply)
<1>1. HasFields(Over(r, how))
      /\ Over(r, how).pc = how /\ (how = "done" => Over(r, how).reply = req[r].reply)
    BY DEF Over, Blank, Field, HasFields
<1>2. QED
    BY <1>1 DEF End, Shaped

LEMMA TurnLoadSaves ==
    ASSUME DurableInv, NEW t \in Turn, TurnLoad(t)
    PROVE  DurableInv'
<1>1. t \in Request /\ UNCHANGED <<messages, notes>> /\ Shaped
    BY DEF Request, TurnLoad, DurableInv
<1>2. Shaped' /\ (\A q \in Request \ {t} : req'[q] = req[q]) /\ req'[t].pc \in {"refused", "loaded"}
    <2>1. CASE End(t, "refused")
        BY <1>1, <2>1, EndShaped
    <2>2. CASE req' = [req EXCEPT ![t] = [Blank EXCEPT !.pc = "loaded", !.loaded = conv,
                                                       !.row = conv, !.intake = trip.intake]]
        BY <1>1, <2>2 DEF Shaped, Blank, Field, HasFields
    <2>3. QED
        BY <2>1, <2>2 DEF TurnLoad
<1>3. QED
    BY <1>1, <1>2, OneSaves DEF Saved, Delivered, Asked

\* A step of a turn that adds no row leads only to where the saved rows suffice.
Suffices(t) ==
    /\ req'[t].pc # "done"
    /\ req'[t].pc \in Asked => req[t].pc \in Asked
    /\ req'[t].pc \in {"effects", "notes"} =>
           \/ ~req'[t].reply.text
           \/ req[t].pc \in {"effects", "notes"} /\ req'[t].reply = req[t].reply

LEMMA QuietSaves ==
    ASSUME DurableInv, NEW t \in Turn, Shaped', \A q \in Request \ {t} : req'[q] = req[q],
           UNCHANGED <<messages, notes>>, Suffices(t)
    PROVE  DurableInv'
<1>1. t \in Request /\ Saved(t)
    BY DEF Request, DurableInv
<1>2. Saved(t)' /\ Delivered(t)'
    BY <1>1 DEF Suffices, Saved, Delivered, HasRow
<1>3. QED
    BY <1>1, <1>2, OneSaves

LEMMA TurnSaves ==
    ASSUME DurableInv, NEW t \in Turn,
           \/ TurnBuild(t) \/ TurnAssess(t) \/ ReadSlot(t) \/ PersistCands(t) \/ ServeCached(t)
           \/ Hops(t) \/ Answers(t) \/ PersistEffects(t) \/ PersistNote(t) \/ Done(t)
    PROVE  DurableInv'
<1>1. t \in Request /\ Shaped /\ Saved(t) /\ Delivered(t)
    BY DEF Request, DurableInv
<1> DEFINE Moved == Shaped' /\ \A q \in Request \ {t} : req'[q] = req[q]
<1>2. CASE TurnBuild(t)
    <2>1. \E listing : req' = [req EXCEPT ![t].pc = IF Agentic THEN "assess" ELSE "user",
                                          ![t].listing = listing,
                                          ![t].row = Frozen(@, listing, FALSE),
                                          ![t].size = Cardinality(messages)]
        BY <1>2 DEF TurnBuild
    <2>2. UNCHANGED <<messages, notes>>
        BY <1>2 DEF TurnBuild
    <2>3. PICK listing : req' = [req EXCEPT ![t].pc = IF Agentic THEN "assess" ELSE "user",
                                           ![t].listing = listing,
                                           ![t].row = Frozen(@, listing, FALSE),
                                           ![t].size = Cardinality(messages)]
        BY <2>1
    <2>4. PICK new : /\ new = [req[t] EXCEPT !.pc = IF Agentic THEN "assess" ELSE "user",
                                             !.listing = listing,
                                             !.row = Frozen(req[t].row, listing, FALSE),
                                             !.size = Cardinality(messages)]
                     /\ req' = [req EXCEPT ![t] = new]
        BY <1>1, <2>3 DEF Shaped, Field, HasFields
    <2>5. HasFields(new) /\ new.pc \in {"assess", "user"}
        BY <1>1, <2>4 DEF Shaped, Field, HasFields
    <2>6. Moved /\ req'[t].pc \in {"assess", "user"}
        BY <1>1, <2>2, <2>4, <2>5, PutShaped
    <2>7. QED
        BY <2>2, <2>6, QuietSaves DEF Suffices, Asked
<1>3. CASE TurnAssess(t)
    <2>1. UNCHANGED <<messages, notes>>
        BY <1>3 DEF TurnAssess
    <2>2. Moved /\ req'[t].pc \in {"refused", "user"}
        <3>1. CASE End(t, "refused")
            BY <1>1, <2>1, <3>1, EndShaped
        <3>2. CASE ~End(t, "refused")
            BY <1>1, <1>3, <3>2 DEF TurnAssess, Flush, Go, Shaped, Field, HasFields
        <3>3. QED
            BY <3>1, <3>2
    <2>3. QED
        BY <2>1, <2>2, QuietSaves DEF Suffices, Asked
<1>4. CASE ReadSlot(t)
    <2>1. /\ Moved /\ UNCHANGED <<messages, notes>> /\ req'[t].pc \in Asked \cup {"user"}
          /\ req'[t].pc = req[t].pc /\ req'[t].reply = req[t].reply
        BY <1>1, <1>4 DEF ReadSlot, Shaped, Field, HasFields, Asked
    <2>2. QED
        BY <2>1, QuietSaves DEF Suffices, Asked
<1>5. CASE PersistCands(t)
    <2>1. /\ Moved /\ UNCHANGED <<messages, notes>>
          /\ req[t].pc = "list" /\ req'[t].pc = "think"
        BY <1>1, <1>5 DEF PersistCands, Flush, Shaped, Field, HasFields
    <2>2. QED
        BY <2>1, QuietSaves DEF Suffices, Asked
<1>6. CASE ServeCached(t)
    <2>1. /\ Moved /\ UNCHANGED <<messages, notes>>
          /\ req[t].pc = "think" /\ req'[t].pc = "reply"
        BY <1>1, <1>6 DEF ServeCached, Shaped, Field, HasFields
    <2>2. QED
        BY <2>1, QuietSaves DEF Suffices, Asked
<1>7. ASSUME NEW n \in 1..MaxToolCalls, NEW asked \in SUBSET Spot, ToolHop(t, asked, n)
      PROVE  DurableInv'
    <2>1. /\ req[t].pc = "think" /\ UNCHANGED <<messages, notes>>
          /\ req' = [req EXCEPT ![t].pc = "call", ![t].hop = @ + 1, ![t].calls = n,
                                ![t].given = asked \ req[t].row.excluded]
        BY <1>7 DEF ToolHop
    <2>2. PICK new : /\ new = [req[t] EXCEPT !.pc = "call", !.hop = @ + 1, !.calls = n,
                                             !.given = asked \ req[t].row.excluded]
                     /\ req' = [req EXCEPT ![t] = new]
        BY <1>1, <2>1 DEF Shaped, Field, HasFields
    <2>3. HasFields(new) /\ new.pc = "call"
        BY <1>1, <2>2 DEF Shaped, Field, HasFields
    <2>4. Moved /\ req'[t].pc = "call"
        BY <1>1, <2>1, <2>2, <2>3, PutShaped
    <2>5. QED
        BY <2>1, <2>4, QuietSaves DEF Suffices, Asked
<1>8. ASSUME NEW reply \in Reply, Answer(t, reply) PROVE DurableInv'
    <2>1. req[t].pc = "think" /\ UNCHANGED <<messages, notes>>
          /\ req' = [req EXCEPT ![t].pc = IF reply.text THEN "reply" ELSE "effects",
                                ![t].reply = reply]
        BY <1>8 DEF Answer
    <2>2. /\ Moved /\ req'[t].reply = reply
          /\ req'[t].pc \in {"reply", "effects"} /\ (reply.text => req'[t].pc = "reply")
        BY <1>1, <2>1 DEF Shaped, Field, HasFields
    <2>3. Suffices(t)
        BY <2>1, <2>2 DEF Suffices, Asked
    <2>4. QED
        BY <2>1, <2>2, <2>3, QuietSaves
<1>9. CASE PersistEffects(t)
    <2>1. /\ Moved /\ UNCHANGED <<messages, notes>>
          /\ req[t].pc = "effects" /\ req'[t].pc = "notes" /\ req'[t].reply = req[t].reply
        BY <1>1, <1>9 DEF PersistEffects, Flush, Shaped, Field, HasFields
    <2>2. QED
        BY <2>1, QuietSaves DEF Suffices, Asked
<1>10. CASE PersistNote(t)
    BY <1>1, <1>10, OneSaves DEF PersistNote, Shaped, Saved, Delivered, HasRow
<1>11. CASE Done(t)
    <2>1. UNCHANGED <<messages, notes>> /\ End(t, "done") /\ req[t].pc = "notes"
          /\ notes[t] = req[t].reply.notes
        BY <1>11 DEF Done
    <2>2. Moved /\ req'[t].pc = "done" /\ req'[t].reply = req[t].reply
        BY <1>1, <2>1, EndShaped
    <2>3. Saved(t)' /\ Delivered(t)'
        BY <1>1, <2>1, <2>2 DEF Saved, Delivered, HasRow, Asked
    <2>4. QED
        BY <1>1, <2>1, <2>2, <2>3, OneSaves
<1>12. QED
    BY <1>2, <1>3, <1>4, <1>5, <1>6, <1>7, <1>8, <1>9, <1>10, <1>11 DEF Hops, Answers

\* The steps of a turn that add a row of its own.
LEMMA AppendSaves ==
    ASSUME DurableInv, NEW t \in Turn,
           PersistUser(t) \/ PersistCall(t) \/ PersistResult(t) \/ PersistAnswer(t)
    PROVE  DurableInv'
<1>1. t \in Request /\ Shaped /\ Saved(t)
    BY DEF Request, DurableInv
<1>2. ASSUME NEW kind, NEW calls, Append(t, kind, calls)
      PROVE  messages \subseteq messages' /\ HasRow(t, kind)'
             /\ (HasRow(t, "user") => HasRow(t, "user")')
    <2> DEFINE m == [turn |-> t, kind |-> kind, seq |-> req[t].slot, calls |-> calls]
    <2>1. messages' = messages \cup {m} /\ m.turn = t /\ m.kind = kind
        BY <1>2 DEF Append
    <2> HIDE DEF m
    <2>2. QED
        BY <2>1 DEF HasRow
<1>3. CASE PersistUser(t)
    <2>1. messages \subseteq messages' /\ HasRow(t, "user")' /\ UNCHANGED notes
        BY <1>2, <1>3 DEF PersistUser
    <2>2. Shaped' /\ (\A q \in Request \ {t} : req'[q] = req[q]) /\ req'[t].pc = "list"
        BY <1>1, <1>3 DEF PersistUser, Shaped, Field, HasFields
    <2>3. QED
        BY <1>1, <2>1, <2>2, OneSaves DEF Saved, Delivered, Asked
<1>4. CASE PersistCall(t) \/ PersistResult(t)
    <2>1. messages \subseteq messages' /\ (HasRow(t, "user") => HasRow(t, "user")') /\ UNCHANGED notes
        BY <1>2, <1>4 DEF PersistCall, PersistResult
    <2>2. Shaped' /\ (\A q \in Request \ {t} : req'[q] = req[q]) /\ req'[t].pc \in {"result", "think"}
          /\ req[t].pc \in {"call", "result"}
        BY <1>1, <1>4 DEF PersistCall, PersistResult, Shaped, Field, HasFields
    <2>3. QED
        BY <1>1, <2>1, <2>2, OneSaves DEF Saved, Delivered, Asked
<1>5. CASE PersistAnswer(t)
    <2>1. messages \subseteq messages' /\ HasRow(t, "answer")' /\ UNCHANGED notes
          /\ (HasRow(t, "user") => HasRow(t, "user")')
        BY <1>2, <1>5 DEF PersistAnswer
    <2>2. Shaped' /\ (\A q \in Request \ {t} : req'[q] = req[q]) /\ req'[t].pc \in {"effects", "notes"}
          /\ req[t].pc = "reply"
        BY <1>1, <1>5 DEF PersistAnswer, Shaped, Field, HasFields
    <2>3. QED
        BY <1>1, <2>1, <2>2, OneSaves DEF Saved, Delivered, Asked
<1>6. QED
    BY <1>3, <1>4, <1>5

\* The other handlers write no row of the transcript and no note, and end no turn as done.
LEMMA OthersSave ==
    ASSUME DurableInv, NEW r \in Request,
           \/ r \notin Turn /\ \/ \E s \in Spot : ExcludeLoad(r, s) \/ LockLoad(r, s)
                               \/ \E yes \in BOOLEAN : ConfirmLoad(r, yes)
                               \/ ExcludeCommit(r) \/ ConfirmReject(r) \/ ConfirmApply(r)
                               \/ ConfirmRerun(r) \/ LockCommit(r)
           \/ Die(r)
    PROVE  DurableInv'
<1>1. Shaped
    BY DEF DurableInv
<1>2. UNCHANGED <<messages, notes>>
    BY DEF ExcludeLoad, LockLoad, ConfirmLoad, ExcludeCommit, ConfirmReject, ConfirmApply,
           ConfirmRerun, LockCommit, Die
<1>3. CASE Die(r)
    <2>1. Shaped' /\ (\A q \in Request \ {r} : req'[q] = req[q]) /\ req'[r].pc = "dead"
        BY <1>1, <1>2, <1>3, EndShaped DEF Die
    <2>2. QED
        BY <1>2, <2>1, OneSaves DEF Saved, Delivered, Asked
<1>4. CASE ~Die(r)
    <2>1. CASE \E how \in Ended : End(r, how)
        <3>1. Shaped' /\ (\A q \in Request \ {r} : req'[q] = req[q])
            BY <1>1, <1>2, <2>1, EndShaped
        <3>2. QED
            BY <1>2, <1>4, <3>1, OneSaves
    <2>2. CASE \E s \in Spot : ExcludeLoad(r, s) \/ LockLoad(r, s)
        <3>1. ASSUME NEW s \in Spot, ExcludeLoad(r, s), ~ \E how \in Ended : End(r, how)
              PROVE  Shaped' /\ \A q \in Request \ {r} : req'[q] = req[q]
            <4>1. req' = [req EXCEPT ![r] = [Blank EXCEPT !.pc = "exclude", !.spot = s,
                                                          !.loaded = conv, !.row = conv]]
                BY <3>1 DEF ExcludeLoad, Ended
            <4>2. QED
                BY <1>1, <1>2, <4>1 DEF Shaped, Blank, Field, HasFields
        <3>2. ASSUME NEW s \in Spot, LockLoad(r, s), ~ \E how \in Ended : End(r, how)
              PROVE  Shaped' /\ \A q \in Request \ {r} : req'[q] = req[q]
            <4>1. req' = [req EXCEPT ![r] = [Blank EXCEPT !.pc = "lock", !.spot = s]]
                BY <3>2 DEF LockLoad, Ended
            <4>2. QED
                BY <1>1, <1>2, <4>1 DEF Shaped, Blank, Field, HasFields
        <3>3. QED
            BY <1>2, <1>4, <2>1, <2>2, <3>1, <3>2, OneSaves
    <2>3. CASE \E yes \in BOOLEAN : ConfirmLoad(r, yes)
        <3>1. ASSUME NEW yes \in BOOLEAN, ConfirmLoad(r, yes), ~ \E how \in Ended : End(r, how)
              PROVE  Shaped' /\ \A q \in Request \ {r} : req'[q] = req[q]
            <4>1. req' = [req EXCEPT ![r] =
                    [Blank EXCEPT !.pc = IF yes THEN "apply" ELSE "reject", !.loaded = conv,
                                  !.row = conv, !.intake = trip.intake]]
                BY <3>1 DEF ConfirmLoad, Ended
            <4>2. QED
                BY <1>1, <1>2, <4>1 DEF Shaped, Blank, Field, HasFields
        <3>2. QED
            BY <1>2, <1>4, <2>1, <2>3, <3>1, OneSaves
    <2>4. CASE ConfirmApply(r)
        <3>1. Shaped' /\ (\A q \in Request \ {r} : req'[q] = req[q])
            BY <1>1, <1>2, <2>4 DEF ConfirmApply, Shaped, Field, HasFields
        <3>2. QED
            BY <1>2, <1>4, <3>1, OneSaves
    <2>5. CASE ExcludeCommit(r) \/ ConfirmReject(r) \/ ConfirmRerun(r) \/ LockCommit(r)
        BY <2>1, <2>5 DEF ExcludeCommit, ConfirmReject, ConfirmRerun, LockCommit, FlushAndEnd, Ended
    <2>6. QED
        BY <1>4, <2>2, <2>3, <2>4, <2>5
<1>5. QED
    BY <1>3, <1>4

LEMMA StepDurable == DurableInv /\ [Next]_vars => DurableInv'
<1> SUFFICES ASSUME DurableInv, [Next]_vars PROVE DurableInv'
    OBVIOUS
<1>1. ASSUME UNCHANGED <<req, messages, notes>> PROVE DurableInv'
    BY <1>1 DEF DurableInv, Shaped, Saved, Delivered, HasRow
<1>2. ASSUME NEW t \in Turn, TurnLoad(t) \/ TurnStep(t) PROVE DurableInv'
    BY <1>2, TurnLoadSaves, TurnSaves, AppendSaves DEF TurnStep
<1>3. ASSUME NEW x \in Exclusion, ExcludeCommit(x) \/ \E s \in Spot : ExcludeLoad(x, s)
      PROVE  DurableInv'
    BY <1>3, OthersSave, ConversationAssumption DEF Request
<1>4. ASSUME NEW c \in Confirmation,
             \/ \E yes \in BOOLEAN : ConfirmLoad(c, yes)
             \/ ConfirmReject(c) \/ ConfirmApply(c) \/ ConfirmRerun(c)
      PROVE  DurableInv'
    BY <1>4, OthersSave, ConversationAssumption DEF Request
<1>5. ASSUME NEW l \in Locking, LockCommit(l) \/ \E s \in Spot : LockLoad(l, s)
      PROVE  DurableInv'
    BY <1>5, OthersSave, ConversationAssumption DEF Request
<1>6. ASSUME NEW r \in Request, Die(r) PROVE DurableInv'
    BY <1>6, OthersSave
<1>7. QED
    BY <1>1, <1>2, <1>3, <1>4, <1>5, <1>6 DEF Next, Lapse, vars

\* When the client reads `done`, everything that the turn streamed is committed: its
\* question, its answer and its notes (generate(), before the done event).  For requests
\* that overlap in any way, with crashes and disconnects anywhere.
THEOREM DoneMeansSaved == Spec => []DoneIsDurable
<1>1. DurableInv => DoneIsDurable
    BY DEF DurableInv, Delivered, HasRow, DoneIsDurable
<1>2. QED
    BY <1>1, InitDurable, StepDurable, PTL DEF Spec
=============================================================================
