------------------------------ MODULE MCAgentLoop ------------------------------
(***************************************************************************)
(* A small instance of AgentLoop: two spots of which the first is frozen,  *)
(* two turns, two tool hops of at most two calls out of three asked for,   *)
(* and answers with plain brackets and with control tokens.                *)
(***************************************************************************)
EXTENDS AgentLoop

CONSTANTS s1, s2

MCSpots == <<s1, s2>>

Get(s) == [tool |-> "get_spot", spot |-> s]
Compare == [tool |-> "compare_spots", spot |-> Stranger]
Search == [tool |-> "search_notes_by_text", spot |-> None]

MCAsks == {<<Get(s2), Get(s2), Compare>>, <<Get(s2), Search, Compare>>,
           <<Get(s1), Get(Stranger), Search>>}

MCTexts ==
    <<{<<"w", "[", "w", "]">>, <<"[", "note", "w", "]", "[", "recommend", "]", "w">>,
       <<"[", "filter", "]", "[", "w", "[", "note", "]">>, <<"[", "note", "w">>},
      {<<>>}>>

ASSUME TextsAreFlat == FlatTexts

MCBlocks == {<<s1, s2, Stranger>>}
=============================================================================
