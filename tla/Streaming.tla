------------------------------- MODULE Streaming -------------------------------
(***************************************************************************)
(* The text of one chat answer on its way to the screen                    *)
(* (backend/chat/streaming.py) and the spot cards built from it            *)
(* (backend/chat/turn_builder.py).                                         *)
(*                                                                         *)
(* A text is a sequence of symbols: "w" is plain text, "[" and "]" are     *)
(* brackets, and the names in Tag, right after a "[", are the rest of the  *)
(* opening of a control token with its content.  The engine cuts the text  *)
(* anywhere, between "[" and the name too.                                 *)
(***************************************************************************)
EXTENDS Integers, Sequences, SequencesExt, Selection

Tag == {"filter", "note", "recommend"}
Symbol == {"w", "[", "]"} \cup Tag

\* where control tokens of this name open, those that a later "]" closes
Opens(s, tag) ==
    {i \in 1..Len(s) - 2 : s[i] = "[" /\ s[i + 1] = tag /\ \E j \in i + 2..Len(s) : s[j] = "]"}

Least(S) == CHOOSE i \in S : \A j \in S : i <= j

ClosesAt(s, i) == Least({j \in i + 2..Len(s) : s[j] = "]"})

NewHandler == [buffer |-> <<>>, full |-> <<>>, filters |-> 0, notes |-> 0, recommends |-> 0]

Emitted(h, out, rest) == [h EXCEPT !.full = @ \o out, !.buffer = rest]

Noted(h, tag) ==
    [h EXCEPT !.filters = @ + (IF tag = "filter" THEN 1 ELSE 0),
              !.notes = @ + (IF tag = "note" THEN 1 ELSE 0),
              !.recommends = @ + (IF tag = "recommend" THEN 1 ELSE 0)]

\* the first of the three patterns, in the handler's order, that the text matches
Matched(s) ==
    IF Opens(s, "filter") # {} THEN "filter"
    ELSE IF Opens(s, "note") # {} THEN "note"
    ELSE IF Opens(s, "recommend") # {} THEN "recommend" ELSE "none"

Intercept(h, text, tag) ==
    LET i == Least(Opens(text, tag))
    IN  Emitted(Noted(h, tag), SubSeq(text, 1, i - 1),
                SubSeq(text, ClosesAt(text, i) + 1, Len(text)))

\* faulty variant: the token alone is searched, not what was held before it
ProcessTokenOnly(h, token) ==
    IF Matched(token) # "none" THEN Intercept(h, token, Matched(token))
    ELSE Emitted(h, h.buffer \o token, <<>>)

\* one token of the engine: a finished control token is taken out, text with
\* no open bracket goes out, anything else is held
Process(h, token) ==
    LET text == h.buffer \o token
    IN  IF Matched(text) # "none" THEN Intercept(h, text, Matched(text))
        ELSE IF \A i \in DOMAIN text : text[i] # "[" THEN Emitted(h, text, <<>>)
        ELSE [h EXCEPT !.buffer = text]

FlushRemaining(h) == Emitted(h, h.buffer, <<>>)

-----------------------------------------------------------------------------
(* The reference: what a reader of the whole text would take out of it *)

InTag(s, p) ==
    \E i \in 1..p : \E tag \in Tag : i \in Opens(s, tag) /\ p <= ClosesAt(s, i)

Visible(s) == Kept(s, {p \in DOMAIN s : ~InTag(s, p)})

Tags(s, tag) == Cardinality(Opens(s, tag))

\* a control token is closed before the next one opens
Flat(s) ==
    \A tag, next \in Tag : \A i \in Opens(s, tag), j \in Opens(s, next) :
        i < j => \E k \in i + 2..j - 1 : s[k] = "]"

-----------------------------------------------------------------------------
(* Spot cards *)

\* a block of exactly three well-formed ids becomes three cards, in its order;
\* a card takes its numbers from the session's candidates, of which it may be none
BuildTurn(ids, wellFormed, candidates) ==
    IF Len(ids) = 3 /\ \A k \in 1..3 : ids[k] \in wellFormed
    THEN [k \in 1..3 |-> [spot |-> ids[k], known |-> ids[k] \in candidates]]
    ELSE <<>>
=============================================================================
