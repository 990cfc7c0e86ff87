------------------------------- MODULE AgentLoop -------------------------------
(***************************************************************************)
(* The turns of one conversation from inside: what the engine is sent,     *)
(* how its stream is put together again, how the tools of a hop run and    *)
(* what stays in the transcript (backend/chat/router.py _run_agentic_loop, *)
(* backend/chat/tools.py, backend/llm/llamacpp.py, with Streaming for the  *)
(* text).  Conversation sees a turn from outside, through its commits.     *)
(*                                                                         *)
(* A turn runs in the mode the process was started with: "agentic", a loop *)
(* of tool hops whose rows are kept, or "twopass", one planning pass whose *)
(* results only this turn sees.  The calls of a hop share one database     *)
(* session, which serves one query at a time: a query that starts while    *)
(* another is under way may be refused.                                    *)
(***************************************************************************)
EXTENDS Streaming, Selection, FiniteSetsExt

CONSTANTS
    Spots,          \* the session's candidates in rank order, by fishing spot
    Stranger,       \* a well-formed id that no fishing spot has
    None,
    FrozenTopN, HopCap, MaxToolCalls,
    Hard,           \* CONTEXT_HARD_TOKENS, in units of a small row
    BundleSize,     \* the size of a get_spot bundle in the same unit
    Pieces,         \* fragments the arguments of a call are streamed in
    Asks,           \* the lists of calls the model may make in one hop
    Texts,          \* Texts[n]: the texts it may answer with in the n-th turn
    Blocks,         \* the ids its RECOMMEND block may list
    MaxTurns        \* bound

Spot == {Spots[k] : k \in DOMAIN Spots}
Tool == {"get_spot", "compare_spots", "search_notes_by_text"}
Call == [tool : Tool, spot : Spot \cup {Stranger, None}]

ASSUME AgentLoopAssumption ==
    /\ FrozenTopN \in Nat /\ HopCap \in Nat /\ MaxToolCalls \in Nat \ {0}
    /\ Hard \in Nat \ {0} /\ BundleSize \in Nat \ {0} /\ Pieces \in Nat \ {0} /\ MaxTurns \in Nat
    /\ Spots \in Seq(Spot)
    /\ \A ask \in Asks : ask # <<>> /\ ask \in Seq(Call)
    /\ \A n \in 1..MaxTurns : Texts[n] \subseteq Seq(Symbol)

VARIABLES
    rows,       \* the persisted transcript
    excluded,   \* the conversation's excluded_spot_ids
    prompt,     \* the messages of the running turn
    turn,       \* its state
    calls,      \* the calls of the hop in flight
    out,        \* out[i]: how far the i-th call is, or what it answered
    answer,     \* [text, sent, ids]: the text being streamed, how much of it was
    handler,    \* the StreamHandler
    cards       \* the spot cards shown for this turn

vars == <<rows, excluded, prompt, turn, calls, out, answer, handler, cards>>
spoken == <<answer, handler, cards>>

\* a message: who says it, the calls it makes, the call it answers, what it holds
Message(role, made, of, holds) == [role |-> role, calls |-> made, of |-> of, holds |-> holds]
Plain(role) == Message(role, <<>>, None, "text")
NoAnswer == [text |-> <<>>, sent |-> 0, ids |-> <<>>]

NewTurn == [pc |-> "idle", n |-> 0, mode |-> "agentic", hop |-> 0, active |-> {},
            aside |-> {}, cands |-> <<>>, saved |-> 0]

Init ==
    /\ rows = <<>> /\ excluded = {} /\ prompt = <<>> /\ turn = NewTurn
    /\ calls = <<>> /\ out = <<>>
    /\ answer = NoAnswer /\ handler = NewHandler /\ cards = <<>>

-----------------------------------------------------------------------------
(* The prompt and its budget *)

Candidates == Kept(Spots, {k \in DOMAIN Spots : Spots[k] \notin excluded})
Top(cands) == {cands[k] : k \in 1..(IF Len(cands) < FrozenTopN THEN Len(cands) ELSE FrozenTopN)}

\* the size of a message: its text, or the bundle it holds, and its calls
Weight(m) == (IF m.holds = "bundle" THEN BundleSize ELSE 1) + Len(m.calls)
Units(messages) == UNION {{k} \X (1..Weight(messages[k])) : k \in DOMAIN messages}
Size(messages) == Cardinality(Units(messages))

Promoted(messages) ==
    {c.spot : c \in {d \in UNION {ToSet(messages[k].calls) : k \in DOMAIN messages} :
                        d.tool = "get_spot"}} \ {None}

SeedActive(messages, cands) == Top(cands) \cup Promoted(messages)

\* the ids the OpenAI shape pairs a result with: the n-th result not yet paired
\* takes the id of the n-th call not yet answered (an id is <<message, position>>)
PairNext(acc, k, m) ==
    IF m.role # "tool" THEN [acc EXCEPT !.free = @ \o [j \in DOMAIN m.calls |-> <<k, j>>]]
    ELSE IF acc.free = <<>> THEN acc
    ELSE [free |-> Tail(acc.free), paired |-> acc.paired \cup {<<k, Head(acc.free)>>}]

\* after the first k messages: the ids still free, and each result with its id
PairedUpTo(messages) ==
    LET upTo[k \in 0..Len(messages)] ==
            IF k = 0 THEN [free |-> <<>>, paired |-> {}]
            ELSE PairNext(upTo[k - 1], k, messages[k])
    IN  upTo

Pairing(messages) == PairedUpTo(messages)[Len(messages)].paired

-----------------------------------------------------------------------------
(* A turn begins *)

\* faulty variant: only the replayed system text is held against the budget
FitsWithoutRows(messages) == Size(<<Head(messages)>>) < Hard

\* the check a turn starts with: what the engine would be sent, under the hard stop
Fits(messages) == Size(messages) < Hard

\* the route's checks, the prefix and the replayed rows, the user's row, and the
\* sets that the loop reads once
StartTurn(mode) ==
    LET sent == <<Message("system", <<>>, None, "bundle")>> \o rows \o <<Plain("user")>>
    IN  /\ turn.pc = "idle" /\ turn.n < MaxTurns
        /\ mode = "agentic" => Fits(sent)
        /\ prompt' = sent
        /\ rows' = Append(rows, Plain("user"))
        /\ turn' = [NewTurn EXCEPT !.pc = "engine", !.n = turn.n + 1, !.mode = mode,
                                   !.active = IF mode = "agentic"
                                              THEN SeedActive(sent, Candidates) ELSE {},
                                   !.aside = IF mode = "agentic" THEN excluded ELSE {},
                                   !.cands = Candidates]
        /\ UNCHANGED <<excluded, calls, out, spoken>>

\* the user sets a spot aside; a turn that runs meanwhile has read the list already,
\* so the step is taken between turns
Exclude(s) ==
    /\ turn.pc = "idle"
    /\ s \in Spot \ excluded
    /\ excluded' = excluded \cup {s}
    /\ UNCHANGED <<rows, prompt, turn, calls, out, spoken>>

-----------------------------------------------------------------------------
(* One hop of the engine *)

ToolsOffered == IF turn.mode = "agentic" THEN turn.hop < HopCap ELSE turn.hop = 0

\* the calls a stream leaves behind when its first n fragments came, call after call,
\* the first of a call with its name: a call without a name is dropped, arguments that
\* do not parse become none at all
Assembled(asked, n) ==
    LET got(i) == n - (i - 1) * (Pieces + 1)
        named == Cardinality({i \in DOMAIN asked : got(i) > 0})
    IN  [k \in 1..named |->
            IF got(k) > Pieces THEN asked[k] ELSE [asked[k] EXCEPT !.spot = None]]

Capped(list) == SubSeq(list, 1, IF Len(list) < MaxToolCalls THEN Len(list) ELSE MaxToolCalls)

\* faulty variant: each call of the hop is kept
DedupNothing(list) == list

\* a get_spot of a spot that an earlier call of the hop asks for is dropped
DedupGetSpot(list) ==
    Kept(list, {i \in DOMAIN list : list[i].tool = "get_spot" =>
                                        \A j \in 1..i - 1 : list[j] # list[i]})

\* the model asks for tools.  The agentic loop streams the calls, so the connection
\* may close in the middle of one; the planning pass gets them in one answer
Ask(asked, n) ==
    LET whole == Capped(Assembled(asked, n))
        list == IF turn.mode = "agentic" THEN DedupGetSpot(whole) ELSE whole
    IN  /\ turn.pc = "engine" /\ ToolsOffered
        /\ turn.mode = "twopass" => n = Len(asked) * (Pieces + 1)
        /\ calls' = list
        /\ out' = [i \in DOMAIN list |-> "todo"]
        /\ turn' = [turn EXCEPT !.pc = IF list = <<>> THEN "flush" ELSE "tools", !.hop = @ + 1]
        /\ UNCHANGED <<rows, excluded, prompt, spoken>>

-----------------------------------------------------------------------------
(* The tools of a hop, concurrently *)

Busy == \E j \in DOMAIN out : out[j] = "query"

Becomes(i, state) ==
    /\ out' = [out EXCEPT ![i] = state]
    /\ UNCHANGED <<rows, excluded, prompt, turn, calls, spoken>>

\* answers that need no query: arguments that do not fit, a spot whose bundle counts
\* as loaded, a spot set aside
ShortCircuit(i) ==
    /\ turn.pc = "tools" /\ i \in DOMAIN out /\ out[i] = "todo"
    /\ \/ /\ calls[i].spot = None /\ calls[i].tool # "search_notes_by_text"
          /\ Becomes(i, "error")
       \/ /\ calls[i].tool = "get_spot" /\ calls[i].spot \in turn.active
          /\ Becomes(i, "pointer")
       \/ /\ calls[i].tool = "get_spot" /\ calls[i].spot \in turn.aside \ turn.active
          /\ Becomes(i, "aside")

\* search embeds its query first; an embedding that fails is its answer
Embed(i) ==
    /\ turn.pc = "tools" /\ i \in DOMAIN out /\ out[i] = "todo"
    /\ calls[i].tool = "search_notes_by_text"
    /\ Becomes(i, "embedded") \/ Becomes(i, "error")

NeedsQuery(i) ==
    \/ out[i] = "embedded"
    \/ out[i] = "todo" /\ calls[i].tool = "compare_spots"
    \/ /\ out[i] = "todo" /\ calls[i].tool = "get_spot"
       /\ calls[i].spot \notin turn.active \cup turn.aside \cup {None}

Query(i) ==
    /\ turn.pc = "tools" /\ i \in DOMAIN out /\ NeedsQuery(i)
    /\ Becomes(i, "query") \/ (Busy /\ Becomes(i, "error"))

\* the rows come back, or the database fails: an error is a result like any other
Rows(i) ==
    /\ turn.pc = "tools" /\ i \in DOMAIN out /\ out[i] = "query"
    /\ \/ Becomes(i, "error")
       \/ calls[i].tool # "get_spot" /\ Becomes(i, "data")
       \/ calls[i].tool = "get_spot" /\ calls[i].spot # Stranger /\ Becomes(i, "bundle")

Answered == turn.pc = "tools" /\ \A i \in DOMAIN out : out[i] \in
                {"error", "pointer", "aside", "data", "bundle"}

Targets == {calls[i].spot : i \in {j \in DOMAIN calls : calls[j].tool = "get_spot"}} \ {None}

\* faulty variant: results in the order they came, the short-circuited ones first
HopMessagesAsCompleted ==
    LET at == Len(prompt) + 1
        quick == SelectSeq([i \in DOMAIN calls |-> i], LAMBDA i : out[i] # "bundle")
        slow == SelectSeq([i \in DOMAIN calls |-> i], LAMBDA i : out[i] = "bundle")
        order == quick \o slow
    IN  <<Message("assistant", calls, None, "text")>>
        \o [k \in DOMAIN order |-> Message("tool", <<>>, <<at, order[k]>>, out[order[k]])]

\* the message with the calls, then one result for each, in the order of the calls
HopMessages ==
    LET at == Len(prompt) + 1
    IN  <<Message("assistant", calls, None, "text")>>
        \o [i \in DOMAIN calls |-> Message("tool", <<>>, <<at, i>>, out[i])]

\* gather returns: the spots asked for count as loaded, the hop joins the prompt
HopDone ==
    /\ Answered
    /\ prompt' = prompt \o HopMessages
    /\ turn' = [turn EXCEPT !.pc = IF turn.mode = "agentic" THEN "persist" ELSE "engine",
                            !.saved = 0,
                            !.active = IF turn.mode = "agentic" THEN @ \cup Targets ELSE @]
    /\ IF turn.mode = "agentic" THEN UNCHANGED <<calls, out>> ELSE calls' = <<>> /\ out' = <<>>
    /\ UNCHANGED <<rows, excluded, spoken>>

\* one row of the hop is committed; when the last is, the engine is asked again
PersistHop ==
    LET whole == Len(calls) + 1
        row == prompt[Len(prompt) - whole + turn.saved + 1]
    IN  /\ turn.pc = "persist"
        /\ rows' = Append(rows, row)
        /\ turn' = [turn EXCEPT !.saved = @ + 1,
                                !.pc = IF turn.saved + 1 = whole THEN "engine" ELSE "persist"]
        /\ IF turn.saved + 1 = whole THEN calls' = <<>> /\ out' = <<>>
                                     ELSE UNCHANGED <<calls, out>>
        /\ UNCHANGED <<excluded, prompt, spoken>>

-----------------------------------------------------------------------------
(* The answer *)

Speak(text, ids) ==
    /\ turn.pc = "engine"
    /\ turn' = [turn EXCEPT !.pc = "text", !.active = {}, !.aside = {}]
    /\ answer' = [text |-> text, sent |-> 0, ids |-> ids]
    /\ UNCHANGED <<rows, excluded, prompt, calls, out, handler, cards>>

\* the engine's tokens are short: at most one of them closes a bracket
Token(n) ==
    LET token == SubSeq(answer.text, answer.sent + 1, answer.sent + n)
    IN  /\ turn.pc = "text" /\ answer.sent + n <= Len(answer.text)
        /\ Cardinality({k \in DOMAIN token : token[k] = "]"}) <= 1
        /\ handler' = Process(handler, token)
        /\ answer' = [answer EXCEPT !.sent = @ + n]
        /\ UNCHANGED <<rows, excluded, prompt, turn, calls, out, cards>>

\* the end of the text, by its sentinel or by a connection that closes early
TextEnds ==
    /\ turn.pc = "text"
    /\ turn' = [turn EXCEPT !.pc = "flush"]
    /\ UNCHANGED <<rows, excluded, prompt, calls, out, spoken>>

\* what is held goes out, then the cards of the last RECOMMEND block
Finish ==
    LET done == FlushRemaining(handler)
    IN  /\ turn.pc = "flush"
        /\ handler' = done
        /\ cards' = IF done.recommends > 0
                    THEN BuildTurn(answer.ids, Spot \cup {Stranger}, ToSet(turn.cands)) ELSE <<>>
        /\ turn' = [turn EXCEPT !.pc = "save"]
        /\ UNCHANGED <<rows, excluded, prompt, calls, out, answer>>

\* the answer's row, if there is any text
SaveAnswer ==
    /\ turn.pc = "save"
    /\ rows' = IF handler.full = <<>> THEN rows ELSE Append(rows, Plain("assistant"))
    /\ turn' = [NewTurn EXCEPT !.n = turn.n]
    /\ prompt' = <<>> /\ answer' = NoAnswer /\ handler' = NewHandler /\ cards' = <<>>
    /\ UNCHANGED <<excluded, calls, out>>

\* the engine fails or times out, the client leaves or the worker dies: rows stay
Abort ==
    /\ turn.pc # "idle"
    /\ turn' = [NewTurn EXCEPT !.n = turn.n]
    /\ prompt' = <<>> /\ calls' = <<>> /\ out' = <<>>
    /\ answer' = NoAnswer /\ handler' = NewHandler /\ cards' = <<>>
    /\ UNCHANGED <<rows, excluded>>

Calling ==
    \/ \E asked \in Asks : \E n \in 0..Len(asked) * (Pieces + 1) : Ask(asked, n)
    \/ \E i \in 1..Len(calls) : ShortCircuit(i) \/ Embed(i) \/ Query(i) \/ Rows(i)
    \/ HopDone \/ PersistHop

Answering ==
    \/ turn.pc = "engine" /\ \E text \in Texts[turn.n], ids \in Blocks : Speak(text, ids)
    \/ \E n \in 1..Len(answer.text) : Token(n)
    \/ TextEnds \/ Finish \/ SaveAnswer

Next ==
    \/ \E mode \in {"agentic", "twopass"} : StartTurn(mode)
    \/ \E s \in Spot : Exclude(s)
    \/ Calling \/ Answering \/ Abort

Spec == Init /\ [][Next]_vars

-----------------------------------------------------------------------------
(* Properties *)

TypeOK ==
    /\ \A k \in DOMAIN rows : rows[k].role \in {"user", "assistant", "tool"}
    /\ excluded \subseteq Spot
    /\ turn.active \subseteq Spot \cup {Stranger} /\ turn.hop \in 0..HopCap + 1
    /\ turn.pc \in {"idle", "engine", "tools", "persist", "text", "flush", "save"}
    /\ calls \in Seq(Call) /\ DOMAIN out = DOMAIN calls /\ Len(calls) <= MaxToolCalls
    /\ turn.pc = "idle" => prompt = <<>> /\ calls = <<>>

\* the spot whose bundle the k-th row holds (a row is one place later in a prompt)
BundleAt(k) == rows[rows[k].of[1] - 1].calls[rows[k].of[2]].spot

\* The bundle of a spot stands at most once in the replayed tail, whatever hops, turns
\* and crashes it took to ask for it (router.py:180, the active set)
BundleOnce ==
    \A j, k \in DOMAIN rows :
        rows[j].holds = "bundle" /\ rows[k].holds = "bundle" /\ BundleAt(j) = BundleAt(k) => j = k

CallIds(messages) == UNION {{k} \X DOMAIN messages[k].calls : k \in DOMAIN messages}
Results(messages) == {k \in DOMAIN messages : messages[k].role = "tool"}

\* While no call of the transcript is without its result, the engine sees each result
\* under the id of the call that it answers (llamacpp.py:68)
PairedUnlessDangling ==
    Cardinality(CallIds(prompt)) = Cardinality(Results(prompt)) =>
        \A pair \in Pairing(prompt) : prompt[pair[1]].of = pair[2]

\* Only the start of a turn is checked against the hard stop: what its hops add on top
\* is bounded by the caps on hops and calls (router.py:376, context_builder.py:91)
OvershootBounded ==
    turn.mode = "agentic" =>
        Size(prompt) < Hard + HopCap * (1 + MaxToolCalls * (1 + BundleSize))

Sent == SubSeq(answer.text, 1, answer.sent)

\* the engine writes no control token inside another
FlatTexts == \A n \in 1..MaxTurns : \A text \in Texts[n] : Flat(text)

\* What the screen and the stored answer hold is the text without its control tokens,
\* in order and without a loss, and each control token has its effect once, however
\* the engine cuts the text (streaming.py:54)
AnswerFaithful ==
    /\ IsPrefix(handler.full, Visible(Sent))
    /\ turn.pc = "save" => handler.full = Visible(Sent)
    /\ <<handler.filters, handler.notes, handler.recommends>> =
           <<Tags(Sent, "filter"), Tags(Sent, "note"), Tags(Sent, "recommend")>>
=============================================================================
