---------------------------- MODULE AgentLoopProofs ----------------------------
(***************************************************************************)
(* Proofs about AgentLoop, for any spots, limits, calls and number of      *)
(* turns: the types, that a bundle stands once in the transcript, how far  *)
(* the hops of a turn may go over the hard stop, that the engine sees each *)
(* result under the call it answers, and that the answer is the engine's   *)
(* text without its control tokens, however that text is cut.              *)
(***************************************************************************)
EXTENDS AgentLoop, FiniteSetTheorems, SequenceTheorems, WellFoundedInduction, TLAPS

-----------------------------------------------------------------------------
(* The inductive invariant *)

OutState == {"todo", "embedded", "query", "error", "pointer", "aside", "data", "bundle"}
Phase == {"idle", "engine", "tools", "persist", "text", "flush", "save"}
Row == [role : {"system", "user", "assistant", "tool"}, calls : Seq(Call),
        of : {None} \cup (Nat \X Nat), holds : OutState \cup {"text"}]
Turn == [pc : Phase, n : Nat, mode : {"agentic", "twopass"}, hop : 0..HopCap + 1,
         active : SUBSET (Spot \cup {Stranger}), aside : SUBSET Spot,
         cands : Seq(Spot), saved : 0..MaxToolCalls + 1]

\* messages whose lists of calls are within the cap; from the given one on, no message
\* is the system text, and only results hold a bundle
Messages(list) == list \in Seq(Row) /\ \A k \in DOMAIN list : Len(list[k].calls) <= MaxToolCalls
Body(list, first) ==
    \A k \in DOMAIN list : k >= first =>
        list[k].role # "system" /\ (list[k].holds = "bundle" => list[k].role = "tool")

SystemText == Message("system", <<>>, None, "bundle")

Typed ==
    /\ Messages(rows) /\ Body(rows, 1) /\ Messages(prompt) /\ Body(prompt, 2)
    /\ excluded \subseteq Spot /\ turn \in Turn
    /\ calls \in Seq(Call) /\ Len(calls) <= MaxToolCalls /\ out \in [DOMAIN calls -> OutState]
    /\ IF turn.pc = "idle" THEN prompt = <<>> /\ calls = <<>>
                           ELSE prompt # <<>> /\ prompt[1] = SystemText

\* an agentic turn under way, whose loop runs or whose answer is being streamed
Running == turn.mode = "agentic" /\ turn.pc # "idle"
Looping == turn.mode = "agentic" /\ turn.pc \in {"engine", "tools", "persist"}

\* the rows of an agentic turn are its prompt, but for what the hop has not stored yet
Unsaved == IF turn.pc = "persist" THEN Len(calls) + 1 - turn.saved ELSE 0
Mirrored ==
    Running => /\ Len(prompt) = 1 + Len(rows) + Unsaved
               /\ \A k \in DOMAIN rows : rows[k] = prompt[k + 1]

Phases ==
    /\ turn.pc = "persist" => turn.mode = "agentic" /\ turn.saved <= Len(calls)
    /\ turn.mode = "agentic" => turn.hop <= HopCap
    /\ turn.pc = "tools" => turn.hop >= 1
    /\ turn.pc \notin {"tools", "persist"} => calls = <<>>
    /\ Mirrored

\* the bundles of a list of messages, whose links count gap messages in front of it
Bundle(list, k) == list[k].role = "tool" /\ list[k].holds = "bundle"
Asker(list, gap, k) == list[list[k].of[1] - gap].calls[list[k].of[2]]

Linked(list, gap) ==
    \A k \in DOMAIN list : Bundle(list, k) =>
        /\ list[k].of \in Nat \X Nat
        /\ list[k].of[1] - gap \in 1..k - 1
        /\ list[k].of[2] \in DOMAIN list[list[k].of[1] - gap].calls
        /\ Asker(list, gap, k).tool = "get_spot" /\ Asker(list, gap, k).spot # None

Once(list, gap) ==
    \A j, k \in DOMAIN list :
        Bundle(list, j) /\ Bundle(list, k) /\ Asker(list, gap, j).spot = Asker(list, gap, k).spot => j = k

\* what the calls of a hop may still append: one bundle for each spot not yet loaded
Fresh ==
    turn.mode = "agentic" /\ turn.pc = "tools" =>
        /\ \A i, j \in DOMAIN calls : calls[i].tool = "get_spot" /\ calls[i] = calls[j] => i = j
        /\ \A i \in DOMAIN calls : out[i] = "bundle" => calls[i].tool = "get_spot"
        /\ \A i \in DOMAIN calls : out[i] = "embedded" => calls[i].tool # "get_spot"
        /\ \A i \in DOMAIN calls : out[i] \in {"query", "bundle"} /\ calls[i].tool = "get_spot" =>
               calls[i].spot \notin turn.active \cup {None}

Loaded == Looping => Promoted(prompt) \subseteq turn.active

BundleInv ==
    /\ Linked(rows, 1) /\ Once(rows, 1)
    /\ Running => Linked(prompt, 0) /\ Once(prompt, 0)
    /\ Fresh /\ Loaded

\* the most a hop adds to the prompt, and the hops that have added to it
HopWeight == 1 + MaxToolCalls * (1 + BundleSize)
Joined == IF turn.pc = "tools" THEN turn.hop - 1 ELSE turn.hop

SizeInv == Running => Size(prompt) < Hard + Joined * HopWeight
-----------------------------------------------------------------------------
(* Places of a list, kept in order *)

LEMMA UpTo ==
    ASSUME NEW n \in Nat
    PROVE  IsFiniteSet(1..n) /\ Cardinality(1..n) = n
<1>1. 1 \in Int /\ n \in Int OBVIOUS
<1>2. IsFiniteSet(1..n) /\ Cardinality(1..n) = IF 1 > n THEN 0 ELSE n - 1 + 1
    BY ONLY <1>1, FS_Interval
<1> QED BY <1>2

\* Among n places each one from the first to the n-th smallest exists: counting the
\* places up to a place numbers them without a gap.
LEMMA PlaceExists ==
    ASSUME NEW S \in SUBSET Nat, IsFiniteSet(S), NEW k \in 1..Cardinality(S)
    PROVE  \E i \in S : Cardinality({j \in S : j <= i}) = k
<1> DEFINE upto(i) == {j \in S : j <= i}
           f == [i \in S |-> Cardinality(upto(i))]
<1>1. ASSUME NEW i \in S PROVE IsFiniteSet(upto(i)) /\ Cardinality(upto(i)) \in 1..Cardinality(S)
    <2>1. IsFiniteSet(upto(i)) /\ Cardinality(upto(i)) <= Cardinality(S) BY FS_Subset
    <2>2. IsFiniteSet({i}) /\ Cardinality({i}) = 1 BY FS_Singleton
    <2>3. {i} \in SUBSET upto(i) OBVIOUS
    <2>4. 1 <= Cardinality(upto(i)) BY <2>1, <2>2, <2>3, FS_Subset
    <2>5. Cardinality(upto(i)) \in Nat /\ Cardinality(S) \in Nat BY <2>1, FS_CardinalityType
    <2> QED BY <2>1, <2>4, <2>5
<1>2. ASSUME NEW i \in S, NEW j \in S, i < j PROVE Cardinality(upto(i)) # Cardinality(upto(j))
    <2>0. \A x \in S : x \in Nat OBVIOUS
    <2>1. \A x \in S : x <= i => x <= j BY <1>2, <2>0
    <2>2. j \in upto(j) /\ j \notin upto(i) BY <1>2
    <2>3. IsFiniteSet(upto(j)) BY <1>1
    <2>4. upto(i) \in SUBSET upto(j) BY <2>1
    <2> QED BY <2>4, <2>2, <2>3, FS_Subset
<1>3. ASSUME NEW i \in S, NEW j \in S, f[i] = f[j] PROVE i = j
    <2>1. i < j \/ j < i \/ i = j OBVIOUS
    <2> QED BY <2>1, <1>2, <1>3
<1>4. f \in [S -> 1..Cardinality(S)] BY <1>1
<1>5. f \in Injection(S, 1..Cardinality(S)) BY <1>3, <1>4 DEF Injection, IsInjective
<1>6. Cardinality(S) \in Nat BY FS_CardinalityType
<1>7. IsFiniteSet(1..Cardinality(S)) /\ Cardinality(1..Cardinality(S)) = Cardinality(S)
    BY <1>6, UpTo
<1>8. f \in Surjection(S, 1..Cardinality(S)) BY <1>5, <1>7, FS_Injection
<1>9. PICK i \in S : f[i] = k BY <1>8 DEF Surjection
<1> QED BY <1>9

\* What is kept of a list is a list of its elements, taken from different places.
LEMMA KeptIsList ==
    ASSUME NEW T, NEW list \in Seq(T), NEW S \in SUBSET DOMAIN list
    PROVE  /\ Cardinality(S) \in Nat /\ Cardinality(S) <= Len(list)
           /\ Kept(list, S) \in Seq(T) /\ Len(Kept(list, S)) = Cardinality(S)
           /\ DOMAIN Kept(list, S) = 1..Cardinality(S)
           /\ \A k \in 1..Cardinality(S) : Nth(S, k) \in S /\ Kept(list, S)[k] = list[Nth(S, k)]
           /\ \A k, l \in 1..Cardinality(S) : Nth(S, k) = Nth(S, l) => k = l
<1>0. Len(list) \in Nat BY LenProperties
<1>1. DOMAIN list = 1..Len(list) BY LenProperties
<1>2. IsFiniteSet(1..Len(list)) /\ Cardinality(1..Len(list)) = Len(list) BY <1>0, UpTo
<1>3. IsFiniteSet(S) /\ Cardinality(S) <= Len(list) BY <1>0, <1>1, <1>2, FS_Subset
<1>4. Cardinality(S) \in Nat BY <1>3, FS_CardinalityType
<1>5. ASSUME NEW k \in 1..Cardinality(S)
      PROVE  Nth(S, k) \in S /\ Cardinality({j \in S : j <= Nth(S, k)}) = k
    <2>1. S \in SUBSET Nat BY <1>1
    <2>2. \E i \in S : Cardinality({j \in S : j <= i}) = k BY <1>3, <2>1, PlaceExists
    <2> QED BY <2>2 DEF Nth
<1>6. \A k \in 1..Cardinality(S) : list[Nth(S, k)] \in T BY <1>0, <1>1, <1>5, ElementOfSeq
<1>7. Kept(list, S) \in [1..Cardinality(S) -> T] BY <1>6 DEF Kept
<1>8. Kept(list, S) \in Seq(T) /\ Len(Kept(list, S)) = Cardinality(S) BY <1>4, <1>7
<1> QED BY <1>3, <1>4, <1>5, <1>7, <1>8 DEF Kept

-----------------------------------------------------------------------------
(* The size of a list of messages, counted in units *)

LEMMA WeightBounds ==
    ASSUME NEW m \in Row, Len(m.calls) <= MaxToolCalls
    PROVE  Weight(m) \in 1..BundleSize + 1 + MaxToolCalls
<1>0. m.calls \in Seq(Call) BY DEF Row
<1>1. Len(m.calls) \in Nat BY <1>0, LenProperties
<1>2. BundleSize \in Nat /\ BundleSize >= 1 /\ MaxToolCalls \in Nat BY AgentLoopAssumption
<1> DEFINE c == Len(m.calls)
<1> HIDE DEF c
<1>3. CASE m.holds = "bundle"
    <2>1. Weight(m) = BundleSize + c BY <1>3 DEF Weight, c
    <2> QED BY <2>1, <1>1, <1>2 DEF c
<1>4. CASE m.holds # "bundle"
    <2>1. Weight(m) = 1 + c BY <1>4 DEF Weight, c
    <2> QED BY <2>1, <1>1, <1>2 DEF c
<1> QED BY <1>3, <1>4

\* The units are finitely many: no list is longer than its length times a largest message.
LEMMA UnitsFinite ==
    ASSUME NEW list, Messages(list)
    PROVE  /\ IsFiniteSet(Units(list)) /\ Size(list) \in Nat
           /\ \A x : x \in Units(list) <=>
                 \E k \in 1..Len(list) : \E u \in 1..Weight(list[k]) : x = <<k, u>>
<1> DEFINE W == BundleSize + 1 + MaxToolCalls
<1>1. list \in Seq(Row) BY DEF Messages
<1>2. Len(list) \in Nat BY <1>1, LenProperties
<1>3. DOMAIN list = 1..Len(list) BY <1>1, LenProperties
<1>4. \A k \in 1..Len(list) : Weight(list[k]) \in 1..W
    BY <1>1, <1>3, WeightBounds, ElementOfSeq DEF Messages
<1>5. W \in Nat BY AgentLoopAssumption
<1> HIDE DEF W
<1>6. \A x : x \in Units(list) <=>
        \E k \in 1..Len(list) : \E u \in 1..Weight(list[k]) : x = <<k, u>>
    BY <1>3 DEF Units
<1>7. \A k \in 1..Len(list) : \A u \in 1..Weight(list[k]) : u \in 1..W BY <1>4, <1>5
<1>8. Units(list) \in SUBSET ((1..Len(list)) \X (1..W)) BY <1>6, <1>7
<1>9. IsFiniteSet(1..Len(list)) /\ IsFiniteSet(1..W) BY <1>2, <1>5, UpTo
<1>10. IsFiniteSet(Units(list)) BY <1>8, <1>9, FS_Product, FS_Subset
<1> QED BY <1>6, <1>10, FS_CardinalityType DEF Size

\* The size of two lists in a row is the sum of their sizes.
LEMMA SizeOfConcat ==
    ASSUME NEW a, NEW b, Messages(a), Messages(b)
    PROVE  Messages(a \o b) /\ Size(a \o b) = Size(a) + Size(b)
<1>1. a \in Seq(Row) /\ b \in Seq(Row) BY DEF Messages
<1>2. Len(a) \in Nat /\ Len(b) \in Nat BY <1>1, LenProperties
<1>3. DOMAIN a = 1..Len(a) /\ DOMAIN b = 1..Len(b) BY <1>1, LenProperties
<1>4. /\ a \o b \in Seq(Row) /\ Len(a \o b) = Len(a) + Len(b)
      /\ \A i \in 1..Len(a) + Len(b) : (a \o b)[i] = IF i <= Len(a) THEN a[i] ELSE b[i - Len(a)]
    BY <1>1, ConcatProperties
<1>5. DOMAIN (a \o b) = 1..Len(a) + Len(b) BY <1>4, LenProperties
<1>6. Messages(a \o b)
    <2> SUFFICES ASSUME NEW k \in 1..Len(a) + Len(b)
                 PROVE  Len((a \o b)[k].calls) <= MaxToolCalls
        BY <1>4, <1>5 DEF Messages
    <2>1. CASE k <= Len(a)
        <3>1. k \in DOMAIN a /\ (a \o b)[k] = a[k] BY <2>1, <1>2, <1>3, <1>4
        <3> QED BY <3>1 DEF Messages
    <2>2. CASE ~(k <= Len(a))
        <3>1. k - Len(a) \in DOMAIN b /\ (a \o b)[k] = b[k - Len(a)] BY <2>2, <1>2, <1>3, <1>4
        <3> QED BY <3>1 DEF Messages
    <2> QED BY <2>1, <2>2
<1>7. \A x : x \in Units(a \o b) <=>
        \E k \in 1..Len(a) + Len(b) : \E u \in 1..Weight((a \o b)[k]) : x = <<k, u>>
    <2>1. \A x : x \in Units(a \o b) <=>
            \E k \in 1..Len(a \o b) : \E u \in 1..Weight((a \o b)[k]) : x = <<k, u>>
        BY ONLY <1>6, UnitsFinite
    <2>2. Len(a \o b) = Len(a) + Len(b) BY <1>4
    <2> QED BY ONLY <2>1, <2>2
<1>8. \A x : x \in Units(a) <=> \E k \in 1..Len(a) : \E u \in 1..Weight(a[k]) : x = <<k, u>>
    BY UnitsFinite
<1>9. \A x : x \in Units(b) <=> \E k \in 1..Len(b) : \E u \in 1..Weight(b[k]) : x = <<k, u>>
    BY UnitsFinite
<1> DEFINE f == [x \in Units(b) |-> <<x[1] + Len(a), x[2]>>]
           Behind == {f[x] : x \in Units(b)}
<1>10. \A x \in Units(b) : \E k \in 1..Len(b) : \E u \in 1..Weight(b[k]) :
           x = <<k, u>> /\ f[x] = <<k + Len(a), u>>
    BY <1>9
<1>11. Units(a \o b) = Units(a) \cup Behind
    <2>1. ASSUME NEW k \in 1..Len(a) + Len(b), NEW u \in 1..Weight((a \o b)[k])
          PROVE  <<k, u>> \in Units(a) \cup Behind
        <3>1. CASE k <= Len(a)
            <4>1. k \in 1..Len(a) /\ (a \o b)[k] = a[k] BY <3>1, <1>2, <1>4
            <4> QED BY <4>1, <1>8
        <3>2. CASE ~(k <= Len(a))
            <4>1. k - Len(a) \in 1..Len(b) /\ (a \o b)[k] = b[k - Len(a)] BY <3>2, <1>2, <1>4
            <4>2. <<k - Len(a), u>> \in Units(b) BY <4>1, <1>9
            <4>3. f[<<k - Len(a), u>>] = <<(k - Len(a)) + Len(a), u>> BY <4>2
            <4>4. (k - Len(a)) + Len(a) = k BY <1>2
            <4> QED BY <4>2, <4>3, <4>4
        <3> QED BY <3>1, <3>2
    <2>2. ASSUME NEW k \in 1..Len(a), NEW u \in 1..Weight(a[k]) PROVE <<k, u>> \in Units(a \o b)
        <3>1. k \in 1..Len(a) + Len(b) /\ (a \o b)[k] = a[k] BY <1>2, <1>4
        <3> QED BY <3>1, <1>7
    <2>3. ASSUME NEW k \in 1..Len(b), NEW u \in 1..Weight(b[k])
          PROVE  <<k + Len(a), u>> \in Units(a \o b)
        <3>1. k + Len(a) \in 1..Len(a) + Len(b) /\ ~(k + Len(a) <= Len(a)) /\ (k + Len(a)) - Len(a) = k
            BY <1>2
        <3>2. (a \o b)[k + Len(a)] = b[k] BY <3>1, <1>4
        <3> QED BY <3>1, <3>2, <1>7
    <2>4. Units(a \o b) \subseteq Units(a) \cup Behind BY <2>1, <1>7
    <2>5. Units(a) \subseteq Units(a \o b) BY <2>2, <1>8
    <2>6. Behind \subseteq Units(a \o b) BY <2>3, <1>10
    <2> QED BY <2>4, <2>5, <2>6
<1>12. Units(a) \cap Behind = {}
    <2> SUFFICES ASSUME NEW x \in Units(a), x \in Behind PROVE FALSE OBVIOUS
    <2>1. PICK k \in 1..Len(a) : \E u \in 1..Weight(a[k]) : x = <<k, u>> BY <1>8
    <2>2. PICK l \in 1..Len(b) : \E u \in 1..Weight(b[l]) : x = <<l + Len(a), u>> BY <1>10
    <2>3. k = l + Len(a) BY <2>1, <2>2
    <2> QED BY <2>3, <1>2
<1>13. f \in Bijection(Units(b), Behind)
    <2>1. ASSUME NEW x \in Units(b), NEW y \in Units(b), f[x] = f[y] PROVE x = y
        <3>1. PICK k \in 1..Len(b) : \E u \in 1..Weight(b[k]) : x = <<k, u>> BY <1>9
        <3>2. PICK l \in 1..Len(b) : \E v \in 1..Weight(b[l]) : y = <<l, v>> BY <1>9
        <3>3. k + Len(a) = l + Len(a) /\ x[2] = y[2] BY <2>1, <3>1, <3>2
        <3> QED BY <3>1, <3>2, <3>3, <1>2
    <2>2. f \in [Units(b) -> Behind] OBVIOUS
    <2> HIDE DEF f
    <2>3. f \in Injection(Units(b), Behind) BY <2>1, <2>2 DEF Injection, IsInjective
    <2>4. f \in Surjection(Units(b), Behind) BY <2>2 DEF Surjection
    <2> QED BY <2>3, <2>4 DEF Bijection
<1>14. IsFiniteSet(Units(a)) /\ IsFiniteSet(Units(b)) /\ Size(a) \in Nat /\ Size(b) \in Nat
    BY UnitsFinite
<1>15. IsFiniteSet(Behind) /\ Cardinality(Behind) = Size(b)
    BY <1>13, <1>14, FS_Bijection DEF ExistsBijection, Size
<1>16. Cardinality(Units(a) \cup Behind) = Size(a) + Size(b) - Cardinality(Units(a) \cap Behind)
    BY <1>14, <1>15, FS_Union DEF Size
<1>17. Size(a \o b) = Size(a) + Size(b) - 0 BY <1>11, <1>12, <1>16, FS_EmptySet DEF Size
<1> QED BY <1>6, <1>14, <1>17

-----------------------------------------------------------------------------
(* The calls and the messages of a hop *)

LEMMA CandidatesAreSpots == Candidates \in Seq(Spot) /\ Top(Candidates) \subseteq Spot
<1>1. Spots \in Seq(Spot) BY AgentLoopAssumption
<1> DEFINE left == {k \in DOMAIN Spots : Spots[k] \notin excluded}
<1>2. left \in SUBSET DOMAIN Spots OBVIOUS
<1>3. Candidates \in Seq(Spot) BY <1>1, <1>2, KeptIsList DEF Candidates
<1>4. PICK c : c = Candidates OBVIOUS
<1>5. c \in Seq(Spot) BY <1>3, <1>4
<1>6. Len(c) \in Nat /\ FrozenTopN \in Nat BY <1>5, LenProperties, AgentLoopAssumption
<1>7. \A k \in 1..Len(c) : c[k] \in Spot BY <1>5, ElementOfSeq
<1>8. Top(c) \subseteq Spot BY <1>6, <1>7 DEF Top
<1> QED BY <1>3, <1>4, <1>8

LEMMA PromotedAreSpots ==
    ASSUME NEW list, Messages(list)
    PROVE  /\ Promoted(list) \subseteq Spot \cup {Stranger}
           /\ \A s : s \in Promoted(list) <=>
                 /\ s # None
                 /\ \E k \in DOMAIN list : \E i \in DOMAIN list[k].calls :
                        list[k].calls[i].tool = "get_spot" /\ list[k].calls[i].spot = s
<1>1. list \in Seq(Row) BY DEF Messages
<1>2. \A k \in DOMAIN list : list[k] \in Row BY <1>1, LenProperties, ElementOfSeq
<1>3. \A k \in DOMAIN list : list[k].calls \in Seq(Call) BY <1>2 DEF Row
<1>4. \A k \in DOMAIN list : \A i \in DOMAIN list[k].calls : list[k].calls[i] \in Call
    BY <1>3, LenProperties, ElementOfSeq
<1>5. \A s : s \in Promoted(list) <=>
                 /\ s # None
                 /\ \E k \in DOMAIN list : \E i \in DOMAIN list[k].calls :
                        list[k].calls[i].tool = "get_spot" /\ list[k].calls[i].spot = s
    BY DEF Promoted, ToSet
<1> QED BY <1>4, <1>5 DEF Call

\* What the stream of a hop leaves behind is a list of calls within the cap, and of the
\* calls of one hop no two ask get_spot for the same spot.
LEMMA CallsOfHop ==
    ASSUME NEW asked \in Asks, NEW n \in Nat
    PROVE  LET whole == Capped(Assembled(asked, n)) IN
           /\ whole \in Seq(Call) /\ Len(whole) <= MaxToolCalls
           /\ DedupGetSpot(whole) \in Seq(Call) /\ Len(DedupGetSpot(whole)) <= MaxToolCalls
           /\ \A i, j \in DOMAIN DedupGetSpot(whole) :
                 DedupGetSpot(whole)[i].tool = "get_spot" /\ DedupGetSpot(whole)[i] = DedupGetSpot(whole)[j]
                 => i = j
<1>1. asked \in Seq(Call) BY AgentLoopAssumption
<1>2. Len(asked) \in Nat BY <1>1, LenProperties
<1>3. DOMAIN asked = 1..Len(asked) BY <1>1, LenProperties
<1>4. MaxToolCalls \in Nat /\ Pieces \in Nat BY AgentLoopAssumption
<1>5. Assembled(asked, n) \in Seq(Call)
    <2> DEFINE got(i) == n - (i - 1) * (Pieces + 1)
               begun == {i \in DOMAIN asked : got(i) > 0}
               built(k) == IF got(k) > Pieces THEN asked[k] ELSE [asked[k] EXCEPT !.spot = None]
    <2>1. IsFiniteSet(1..Len(asked)) /\ Cardinality(1..Len(asked)) = Len(asked)
        BY ONLY <1>2, UpTo
    <2>2. begun \in SUBSET (1..Len(asked)) BY <1>3
    <2>3. IsFiniteSet(begun) /\ Cardinality(begun) <= Len(asked) BY <2>1, <2>2, FS_Subset
    <2>4. Cardinality(begun) \in Nat BY <2>3, FS_CardinalityType
    <2>5. \A k \in 1..Len(asked) : asked[k] \in Call BY <1>1, ElementOfSeq
    <2>6. \A k \in 1..Len(asked) : built(k) \in Call BY <2>5 DEF Call
    <2>7. PICK m : m = Cardinality(begun) OBVIOUS
    <2>8. Assembled(asked, n) = [k \in 1..m |-> built(k)] BY <2>7 DEF Assembled
    <2> HIDE DEF built, begun
    <2>9. m \in Nat /\ m <= Len(asked) BY <2>3, <2>4, <2>7
    <2>10. \A k \in 1..m : built(k) \in Call BY <2>6, <2>9, <1>2
    <2>11. [k \in 1..m |-> built(k)] \in Seq(Call) BY <2>9, <2>10
    <2> QED BY <2>8, <2>11
<1>6. PICK w : w = Capped(Assembled(asked, n)) OBVIOUS
<1>7. w \in Seq(Call) /\ Len(w) <= MaxToolCalls
    <2>1. PICK a : a = Assembled(asked, n) OBVIOUS
    <2>2. a \in Seq(Call) BY <1>5, <2>1
    <2>3. Len(a) \in Nat BY <2>2, LenProperties
    <2>4. PICK m : m = IF Len(a) < MaxToolCalls THEN Len(a) ELSE MaxToolCalls OBVIOUS
    <2>5. m \in Nat /\ m <= Len(a) /\ m <= MaxToolCalls BY <2>3, <2>4, <1>4
    <2>6. \A i \in 1..m : a[i] \in Call BY <2>2, <2>3, <2>5, ElementOfSeq
    <2>7. w = SubSeq(a, 1, m) BY <2>1, <2>4, <1>6 DEF Capped
    <2>8. w \in Seq(Call) /\ Len(w) = IF 1 <= m THEN m - 1 + 1 ELSE 0
        BY <2>5, <2>6, <2>7, SubSeqProperties
    <2> QED BY <2>5, <2>8
<1> DEFINE places == {i \in DOMAIN w : w[i].tool = "get_spot" => \A j \in 1..i - 1 : w[j] # w[i]}
<1>8. places \in SUBSET DOMAIN w OBVIOUS
<1>9. DedupGetSpot(w) = Kept(w, places) BY DEF DedupGetSpot
<1>10. DOMAIN w = 1..Len(w) /\ Len(w) \in Nat BY <1>7, LenProperties
<1>11. PICK P : P = places OBVIOUS
<1>12. PICK d : d = Kept(w, P) OBVIOUS
<1>13. /\ Cardinality(P) \in Nat /\ Cardinality(P) <= Len(w)
       /\ d \in Seq(Call) /\ Len(d) = Cardinality(P) /\ DOMAIN d = 1..Cardinality(P)
       /\ \A k \in 1..Cardinality(P) : Nth(P, k) \in P /\ d[k] = w[Nth(P, k)]
       /\ \A k, l \in 1..Cardinality(P) : Nth(P, k) = Nth(P, l) => k = l
    <2>1. P \in SUBSET DOMAIN w BY <1>8, <1>11
    <2> QED BY ONLY <2>1, <1>7, <1>12, KeptIsList
<1>14. ASSUME NEW i \in DOMAIN d, NEW j \in DOMAIN d, d[i].tool = "get_spot", d[i] = d[j]
       PROVE  i = j
    <2>1. PICK x, y : x = Nth(P, i) /\ y = Nth(P, j) OBVIOUS
    <2>2. x \in places /\ y \in places /\ d[i] = w[x] /\ d[j] = w[y] BY <2>1, <1>11, <1>13
    <2>3. x \in Nat /\ y \in Nat /\ x >= 1 /\ y >= 1 BY <2>2, <1>10
    <2>4. w[x].tool = "get_spot" /\ w[x] = w[y] BY <2>2, <1>14
    <2>5. \A k \in 1..x - 1 : w[k] # w[x] BY <2>2, <2>4
    <2>6. \A k \in 1..y - 1 : w[k] # w[y] BY <2>2, <2>4
    <2>7. ~(x < y) BY <2>3, <2>4, <2>6
    <2>8. ~(y < x) BY <2>3, <2>4, <2>5
    <2>9. x = y BY <2>3, <2>7, <2>8
    <2> QED BY <2>1, <2>9, <1>13
<1>15. DedupGetSpot(w) = d BY <1>9, <1>11, <1>12
<1>16. Len(d) <= MaxToolCalls BY <1>7, <1>10, <1>13, <1>4
<1>17. \A i, j \in DOMAIN d : d[i].tool = "get_spot" /\ d[i] = d[j] => i = j BY <1>14
<1>18. d \in Seq(Call) BY <1>13
<1>19. /\ w \in Seq(Call) /\ Len(w) <= MaxToolCalls
       /\ DedupGetSpot(w) \in Seq(Call) /\ Len(DedupGetSpot(w)) <= MaxToolCalls
       /\ \A i, j \in DOMAIN DedupGetSpot(w) :
             DedupGetSpot(w)[i].tool = "get_spot" /\ DedupGetSpot(w)[i] = DedupGetSpot(w)[j] => i = j
    BY ONLY <1>7, <1>15, <1>16, <1>17, <1>18
<1> QED BY ONLY <1>6, <1>19

\* The messages of a hop: the calls, then one result for each of them.
LEMMA HopIsMessages ==
    ASSUME Typed
    PROVE  /\ Messages(HopMessages) /\ Len(HopMessages) = Len(calls) + 1
           /\ DOMAIN HopMessages = 1..Len(calls) + 1
           /\ HopMessages[1] = Message("assistant", calls, None, "text")
           /\ \A i \in 1..Len(calls) :
                 HopMessages[i + 1] = Message("tool", <<>>, <<Len(prompt) + 1, i>>, out[i])
           /\ Size(HopMessages) <= HopWeight
<1>1. calls \in Seq(Call) /\ out \in [DOMAIN calls -> OutState] /\ prompt \in Seq(Row)
    BY DEF Typed, Messages
<1>2. Len(calls) \in Nat BY <1>1, LenProperties
<1>3. DOMAIN calls = 1..Len(calls) BY <1>1, LenProperties
<1>4. Len(prompt) \in Nat BY <1>1, LenProperties
<1>5. PICK c : c = Len(calls) OBVIOUS
<1>6. PICK at : at = Len(prompt) + 1 OBVIOUS
<1>7. c \in Nat /\ at \in Nat /\ c <= MaxToolCalls BY <1>2, <1>4, <1>5, <1>6 DEF Typed
<1>8. MaxToolCalls \in Nat /\ MaxToolCalls >= 1 /\ BundleSize \in Nat /\ BundleSize >= 1
    BY AgentLoopAssumption
<1> DEFINE head == <<Message("assistant", calls, None, "text")>>
           results == [i \in DOMAIN calls |-> Message("tool", <<>>, <<at, i>>, out[i])]
<1>9. HopMessages = head \o results BY <1>6 DEF HopMessages
<1>10. Message("assistant", calls, None, "text") \in Row BY <1>1 DEF Message, Row
<1>11. head \in Seq(Row) /\ Len(head) = 1 /\ head[1] = Message("assistant", calls, None, "text")
    BY <1>10
<1>12. \A i \in 1..c : Message("tool", <<>>, <<at, i>>, out[i]) \in Row
    <2> SUFFICES ASSUME NEW i \in 1..c PROVE Message("tool", <<>>, <<at, i>>, out[i]) \in Row OBVIOUS
    <2>1. out[i] \in OutState BY <1>1, <1>3, <1>5
    <2>2. <<at, i>> \in Nat \X Nat BY <1>7
    <2>3. <<>> \in Seq(Call) BY EmptySeq
    <2> QED BY <2>1, <2>2, <2>3 DEF Message, Row
<1>13. results = [i \in 1..c |-> Message("tool", <<>>, <<at, i>>, out[i])] BY <1>3, <1>5
<1>14. results \in Seq(Row) /\ Len(results) = c BY <1>7, <1>12, <1>13
<1>15. \A i \in 1..c : results[i] = Message("tool", <<>>, <<at, i>>, out[i]) BY <1>13
<1>a. \A i \in 1..c : results[i].calls = <<>>
    <2>1. \A i : Message("tool", <<>>, <<at, i>>, out[i]).calls = <<>> BY DEF Message
    <2> QED BY <2>1, <1>15
<1>b. Len(<<>>) = 0 BY EmptySeq
<1> HIDE DEF head, results
<1>16. Messages(head)
    <2>1. DOMAIN head = 1..1 BY <1>11, LenProperties
    <2>2. head[1].calls = calls BY <1>11 DEF Message
    <2> QED BY <2>1, <2>2, <1>5, <1>7, <1>11 DEF Messages
<1>17. Messages(results)
    <2>1. DOMAIN results = 1..c BY <1>14, LenProperties
    <2>4. \A i \in 1..c : Len(results[i].calls) <= MaxToolCalls BY <1>a, <1>b, <1>8
    <2> QED BY <2>1, <2>4, <1>14 DEF Messages
<1>18. Messages(HopMessages) /\ Size(HopMessages) = Size(head) + Size(results)
    BY <1>9, <1>16, <1>17, SizeOfConcat
<1>19. /\ Len(HopMessages) = 1 + c
       /\ \A i \in 1..1 + c : HopMessages[i] = IF i <= 1 THEN head[1] ELSE results[i - 1]
    <2>1. /\ Len(head \o results) = Len(head) + Len(results)
          /\ \A i \in 1..Len(head) + Len(results) :
                (head \o results)[i] = IF i <= Len(head) THEN head[i] ELSE results[i - Len(head)]
        BY <1>11, <1>14, ConcatProperties
    <2> QED BY <2>1, <1>9, <1>11, <1>14
<1>20. DOMAIN HopMessages = 1..c + 1 BY <1>7, <1>18, <1>19, LenProperties DEF Messages
<1>21. Size(head) = 1 + c
    <2>1. Weight(head[1]) = 1 + c BY <1>5, <1>11 DEF Weight, Message
    <2>2. \A x : x \in Units(head) <=> \E k \in 1..1 : \E u \in 1..Weight(head[k]) : x = <<k, u>>
        BY <1>11, <1>16, UnitsFinite
    <2>3. Units(head) = {1} \X (1..1 + c) BY <2>1, <2>2
    <2>4. IsFiniteSet({1}) /\ Cardinality({1}) = 1 BY FS_Singleton
    <2>a. PICK e \in Nat : e = 1 + c BY <1>7
    <2>b. IsFiniteSet(1..e) /\ Cardinality(1..e) = e BY ONLY <2>a, UpTo
    <2>5. IsFiniteSet(1..1 + c) /\ Cardinality(1..1 + c) = 1 + c BY <2>a, <2>b
    <2>6. Cardinality({1} \X (1..1 + c)) = 1 * (1 + c)
        <3>1. PICK A, B : A = {1} /\ B = 1..1 + c OBVIOUS
        <3>2. Cardinality(A \X B) = Cardinality(A) * Cardinality(B)
            BY ONLY <2>4, <2>5, <3>1, FS_Product
        <3> QED BY ONLY <2>4, <2>5, <3>1, <3>2
    <2> QED BY <2>3, <2>6, <1>7 DEF Size
<1>22. Size(results) <= c * BundleSize
    <2>1. \A i \in 1..c : Weight(results[i]) <= BundleSize
        <3> SUFFICES ASSUME NEW i \in 1..c PROVE Weight(results[i]) <= BundleSize OBVIOUS
        <3>2. Len(results[i].calls) = 0 BY <1>a, <1>b
        <3> QED BY <3>2, <1>8 DEF Weight
    <2>2. \A x : x \in Units(results) <=> \E k \in 1..c : \E u \in 1..Weight(results[k]) : x = <<k, u>>
        BY <1>14, <1>17, UnitsFinite
    <2>3. \A k \in 1..c : Weight(results[k]) \in Nat
        <3> SUFFICES ASSUME NEW k \in 1..c PROVE Weight(results[k]) \in Nat OBVIOUS
        <3>1. results[k] \in Row BY <1>14, ElementOfSeq
        <3>3. Len(results[k].calls) <= MaxToolCalls BY <1>a, <1>b, <1>8
        <3> QED BY <3>1, <3>3, <1>8, WeightBounds
    <2>4. \A k \in 1..c : \A u \in 1..Weight(results[k]) : u \in 1..BundleSize BY <2>1, <2>3, <1>8
    <2>5. Units(results) \in SUBSET ((1..c) \X (1..BundleSize)) BY <2>2, <2>4
    <2>6. IsFiniteSet(1..c) /\ Cardinality(1..c) = c BY <1>7, UpTo
    <2>a. BundleSize \in Nat BY <1>8
    <2>7. IsFiniteSet(1..BundleSize) /\ Cardinality(1..BundleSize) = BundleSize BY ONLY <2>a, UpTo
    <2>8. /\ IsFiniteSet((1..c) \X (1..BundleSize))
          /\ Cardinality((1..c) \X (1..BundleSize)) = c * BundleSize
        <3>1. PICK A, B : A = 1..c /\ B = 1..BundleSize OBVIOUS
        <3>2. IsFiniteSet(A \X B) /\ Cardinality(A \X B) = Cardinality(A) * Cardinality(B)
            BY ONLY <2>6, <2>7, <3>1, FS_Product
        <3> QED BY ONLY <2>6, <2>7, <3>1, <3>2
    <2> QED BY <2>5, <2>8, FS_Subset DEF Size
<1>23. Size(head) + Size(results) <= HopWeight
    <2>1. Size(results) \in Nat BY <1>17, UnitsFinite
    <2>2. c * (1 + BundleSize) <= MaxToolCalls * (1 + BundleSize) BY <1>7, <1>8
    <2>3. c * (1 + BundleSize) = c + c * BundleSize BY <1>7, <1>8
    <2>4. /\ c * BundleSize \in Nat /\ c * (1 + BundleSize) \in Nat
          /\ MaxToolCalls * (1 + BundleSize) \in Nat
        BY <1>7, <1>8
    <2>5. PICK p, q, r \in Nat : p = c * BundleSize /\ q = c * (1 + BundleSize)
                                 /\ r = MaxToolCalls * (1 + BundleSize)
        BY <2>4
    <2>6. 1 + c + Size(results) <= 1 + r BY <2>1, <2>2, <2>3, <2>5, <1>7, <1>22
    <2> QED BY <2>5, <2>6, <1>21 DEF HopWeight
<1> QED BY <1>5, <1>6, <1>7, <1>11, <1>15, <1>18, <1>19, <1>20, <1>23

-----------------------------------------------------------------------------
(* The types *)

LEMMA PlainIsRow ==
    ASSUME NEW r \in {"user", "assistant"}
    PROVE  /\ Plain(r) \in Row /\ Len(Plain(r).calls) <= MaxToolCalls /\ Plain(r).calls = <<>>
           /\ Plain(r).role = r /\ Plain(r).holds = "text"
<1>1. <<>> \in Seq(Call) /\ Len(<<>>) = 0 BY EmptySeq
<1>2. Plain(r).calls = <<>> /\ Plain(r).role = r /\ Plain(r).holds = "text" BY DEF Plain, Message
<1>3. Plain(r) \in Row BY <1>1 DEF Plain, Message, Row
<1> QED BY <1>1, <1>2, <1>3, AgentLoopAssumption

LEMMA SystemIsRow == SystemText \in Row /\ SystemText.calls = <<>> /\ SystemText.role = "system"
<1>1. <<>> \in Seq(Call) BY EmptySeq
<1>2. SystemText.calls = <<>> /\ SystemText.role = "system" BY DEF SystemText, Message
<1>3. SystemText \in Row BY <1>1 DEF SystemText, Message, Row, OutState
<1> QED BY <1>2, <1>3

LEMMA AppendRow ==
    ASSUME NEW list, Messages(list), NEW m \in Row, Len(m.calls) <= MaxToolCalls
    PROVE  /\ Messages(Append(list, m)) /\ Len(list) \in Nat /\ DOMAIN list = 1..Len(list)
           /\ Len(Append(list, m)) = Len(list) + 1
           /\ DOMAIN Append(list, m) = 1..Len(list) + 1
           /\ \A k \in 1..Len(list) : Append(list, m)[k] = list[k]
           /\ Append(list, m)[Len(list) + 1] = m
<1>1. list \in Seq(Row) BY DEF Messages
<1>2. Len(list) \in Nat BY <1>1, LenProperties
<1>3. DOMAIN list = 1..Len(list) BY <1>1, LenProperties
<1>4. /\ Append(list, m) \in Seq(Row) /\ Len(Append(list, m)) = Len(list) + 1
      /\ \A k \in 1..Len(list) : Append(list, m)[k] = list[k]
      /\ Append(list, m)[Len(list) + 1] = m
    BY <1>1, AppendProperties
<1>5. DOMAIN Append(list, m) = 1..Len(list) + 1 BY <1>4, LenProperties
<1>6. \A k \in 1..Len(list) + 1 : k \in 1..Len(list) \/ k = Len(list) + 1 BY <1>2
<1>7. Messages(Append(list, m)) BY <1>3, <1>4, <1>5, <1>6 DEF Messages
<1> QED BY <1>2, <1>3, <1>4, <1>5, <1>7

\* The prompt of a new turn: the system text, the rows, the question.
Sending == <<SystemText>> \o rows \o <<Plain("user")>>

LEMMA SendingIs ==
    ASSUME Messages(rows)
    PROVE  /\ Messages(Sending) /\ Len(rows) \in Nat /\ Len(Sending) = Len(rows) + 2
           /\ DOMAIN Sending = 1..Len(rows) + 2 /\ DOMAIN rows = 1..Len(rows)
           /\ Sending[1] = SystemText /\ Sending[Len(rows) + 2] = Plain("user")
           /\ \A k \in 1..Len(rows) : Sending[k + 1] = rows[k]
<1>1. rows \in Seq(Row) BY DEF Messages
<1>2. Len(rows) \in Nat BY <1>1, LenProperties
<1>3. DOMAIN rows = 1..Len(rows) BY <1>1, LenProperties
<1> DEFINE head == <<SystemText>>  tail == <<Plain("user")>>
<1>4. head \in Seq(Row) /\ Len(head) = 1 /\ head[1] = SystemText BY SystemIsRow
<1>5. tail \in Seq(Row) /\ Len(tail) = 1 /\ tail[1] = Plain("user") BY PlainIsRow
<1>6. Sending = (head \o rows) \o tail BY DEF Sending
<1> HIDE DEF head, tail
<1>7. /\ head \o rows \in Seq(Row) /\ Len(head \o rows) = 1 + Len(rows)
      /\ \A i \in 1..1 + Len(rows) : (head \o rows)[i] = IF i <= 1 THEN head[1] ELSE rows[i - 1]
    <2>1. /\ head \o rows \in Seq(Row) /\ Len(head \o rows) = Len(head) + Len(rows)
          /\ \A i \in 1..Len(head) + Len(rows) :
                (head \o rows)[i] = IF i <= Len(head) THEN head[i] ELSE rows[i - Len(head)]
        BY <1>1, <1>4, ConcatProperties
    <2> QED BY <2>1, <1>4, <1>2
<1>8. PICK front : front = head \o rows OBVIOUS
<1>9. /\ front \o tail \in Seq(Row) /\ Len(front \o tail) = Len(front) + 1
      /\ \A i \in 1..Len(front) + 1 :
            (front \o tail)[i] = IF i <= Len(front) THEN front[i] ELSE tail[i - Len(front)]
    <2>1. /\ front \o tail \in Seq(Row) /\ Len(front \o tail) = Len(front) + Len(tail)
          /\ \A i \in 1..Len(front) + Len(tail) :
                (front \o tail)[i] = IF i <= Len(front) THEN front[i] ELSE tail[i - Len(front)]
        BY <1>5, <1>7, <1>8, ConcatProperties
    <2> QED BY <2>1, <1>5
<1>10. Len(front) = 1 + Len(rows) BY <1>7, <1>8
<1>11. Sending \in Seq(Row) /\ Len(Sending) = Len(rows) + 2 BY <1>2, <1>6, <1>8, <1>9, <1>10
<1>12. DOMAIN Sending = 1..Len(rows) + 2 BY <1>11, LenProperties
<1>13. Sending[1] = SystemText BY <1>2, <1>4, <1>6, <1>7, <1>8, <1>9, <1>10
<1>14. Sending[Len(rows) + 2] = Plain("user")
    <2>1. Len(rows) + 2 \in 1..Len(front) + 1 /\ ~(Len(rows) + 2 <= Len(front))
          /\ Len(rows) + 2 - Len(front) = 1
        BY <1>2, <1>10
    <2> QED BY <2>1, <1>5, <1>6, <1>8, <1>9
<1>15. ASSUME NEW k \in 1..Len(rows) PROVE Sending[k + 1] = rows[k]
    <2>1. k + 1 \in 1..Len(front) + 1 /\ k + 1 <= Len(front) /\ k + 1 \in 1..1 + Len(rows)
          /\ ~(k + 1 <= 1) /\ (k + 1) - 1 = k
        BY <1>2, <1>10
    <2> QED BY <2>1, <1>6, <1>7, <1>8, <1>9
<1>16. ASSUME NEW k \in 1..Len(rows) + 2 PROVE Len(Sending[k].calls) <= MaxToolCalls
    <2>1. k = 1 \/ k = Len(rows) + 2 \/ (k - 1 \in 1..Len(rows) /\ (k - 1) + 1 = k) BY <1>2
    <2>2. Len(<<>>) = 0 /\ MaxToolCalls \in Nat BY EmptySeq, AgentLoopAssumption
    <2>3. CASE k = 1 BY <2>2, <2>3, <1>13, SystemIsRow
    <2>4. CASE k = Len(rows) + 2 BY <2>4, <1>14, PlainIsRow
    <2>5. CASE k - 1 \in 1..Len(rows) /\ (k - 1) + 1 = k
        <3>1. Sending[k] = rows[k - 1] BY <2>5, <1>15
        <3> QED BY <2>5, <3>1, <1>3 DEF Messages
    <2> QED BY <2>1, <2>3, <2>4, <2>5
<1>17. Messages(Sending) BY <1>11, <1>12, <1>16 DEF Messages
<1> QED BY <1>2, <1>3, <1>11, <1>12, <1>13, <1>14, <1>15, <1>17

\* A step that leaves the transcript alone, inside a turn.
LEMMA SameTranscript ==
    ASSUME Typed, Phases, turn.pc # "idle", UNCHANGED <<rows, excluded, prompt>>,
           turn' \in Turn, turn'.pc # "idle", turn'.mode = turn.mode,
           calls' \in Seq(Call), Len(calls') <= MaxToolCalls, out' \in [DOMAIN calls' -> OutState],
           Unsaved' = Unsaved
    PROVE  Typed' /\ Mirrored'
<1>1. Typed' BY DEF Typed, Messages, Body
<1>2. Mirrored' BY DEF Phases, Mirrored, Running
<1> QED BY <1>1, <1>2

\* A turn that is given up leaves its rows.
LEMMA GivenUp ==
    ASSUME Typed, turn' = [NewTurn EXCEPT !.n = turn.n], prompt' = <<>>, calls' = <<>>,
           out' \in [DOMAIN <<>> -> OutState], Messages(rows'), Body(rows', 1), UNCHANGED excluded
    PROVE  Typed' /\ Phases'
<1>1. turn'.pc = "idle" /\ turn'.mode = "agentic" /\ turn'.hop = 0 BY DEF NewTurn
<1>2. turn' \in Turn
    <2>1. turn.n \in Nat BY DEF Typed, Turn
    <2>2. <<>> \in Seq(Spot) BY EmptySeq
    <2>3. 0 \in 0..HopCap + 1 /\ 0 \in 0..MaxToolCalls + 1 BY AgentLoopAssumption
    <2> QED BY <2>1, <2>2, <2>3 DEF NewTurn, Turn, Phase
<1>3. <<>> \in Seq(Row) /\ <<>> \in Seq(Call) /\ Len(<<>>) = 0 BY EmptySeq
<1>4. Len(<<>>) <= MaxToolCalls BY <1>3, AgentLoopAssumption
<1>6. Messages(prompt') /\ Body(prompt', 2) BY <1>3 DEF Messages, Body
<1>7. Typed' BY <1>1, <1>2, <1>3, <1>4, <1>6 DEF Typed, Messages, Body
<1>8. Phases' BY <1>1, AgentLoopAssumption DEF Phases, Mirrored, Running
<1> QED BY <1>7, <1>8

LEMMA StartTyped ==
    ASSUME Typed, Phases, NEW mode \in {"agentic", "twopass"}, StartTurn(mode)
    PROVE  Typed' /\ Phases'
<1>1. /\ turn.pc = "idle" /\ prompt' = Sending /\ rows' = Append(rows, Plain("user"))
      /\ excluded' = excluded /\ calls' = calls /\ out' = out /\ calls = <<>>
    BY DEF StartTurn, Sending, SystemText, Typed
<1>2. PICK act \in SUBSET (Spot \cup {Stranger}), set \in SUBSET Spot, cands \in Seq(Spot) :
        turn' = [NewTurn EXCEPT !.pc = "engine", !.n = turn.n + 1, !.mode = mode,
                                !.active = act, !.aside = set, !.cands = cands]
    <2>1. Messages(Sending) BY SendingIs DEF Typed
    <2>2. PICK s : s = Sending OBVIOUS
    <2>3. Promoted(s) \subseteq Spot \cup {Stranger} BY <2>1, <2>2, PromotedAreSpots
    <2>4. SeedActive(s, Candidates) \subseteq Spot \cup {Stranger}
        BY <2>3, CandidatesAreSpots DEF SeedActive
    <2>5. turn' = [NewTurn EXCEPT !.pc = "engine", !.n = turn.n + 1, !.mode = mode,
                            !.active = IF mode = "agentic" THEN SeedActive(s, Candidates) ELSE {},
                            !.aside = IF mode = "agentic" THEN excluded ELSE {}, !.cands = Candidates]
        BY <2>2 DEF StartTurn, Sending, SystemText
    <2>6. (IF mode = "agentic" THEN SeedActive(s, Candidates) ELSE {}) \in SUBSET (Spot \cup {Stranger})
        BY <2>4
    <2>7. (IF mode = "agentic" THEN excluded ELSE {}) \in SUBSET Spot BY DEF Typed
    <2>8. Candidates \in Seq(Spot) BY CandidatesAreSpots
    <2> HIDE DEF SeedActive, Candidates
    <2> QED BY <2>5, <2>6, <2>7, <2>8
<1>3. turn'.pc = "engine" /\ turn'.mode = mode /\ turn'.hop = 0 BY <1>2 DEF NewTurn
<1>4. turn' \in Turn
    <2>1. turn.n + 1 \in Nat BY DEF Typed, Turn
    <2>2. 0 \in 0..HopCap + 1 /\ 0 \in 0..MaxToolCalls + 1 BY AgentLoopAssumption
    <2> QED BY <1>2, <2>1, <2>2 DEF NewTurn, Turn, Phase
<1>5. Messages(rows) /\ Body(rows, 1) BY DEF Typed
<1>6. PICK u \in Row : u = Plain("user") BY PlainIsRow
<1>7. /\ u.role = "user" /\ u.holds = "text" /\ Len(u.calls) <= MaxToolCalls BY <1>6, PlainIsRow
<1>8. /\ Messages(rows') /\ Len(rows) \in Nat /\ DOMAIN rows = 1..Len(rows)
      /\ Len(rows') = Len(rows) + 1 /\ DOMAIN rows' = 1..Len(rows) + 1
      /\ \A k \in 1..Len(rows) : rows'[k] = rows[k]
      /\ rows'[Len(rows) + 1] = u
    BY <1>1, <1>5, <1>6, <1>7, AppendRow
<1>9. /\ Messages(Sending) /\ Len(Sending) = Len(rows) + 2 /\ DOMAIN Sending = 1..Len(rows) + 2
      /\ Sending[1] = SystemText /\ Sending[Len(rows) + 2] = u
      /\ \A k \in 1..Len(rows) : Sending[k + 1] = rows[k]
    BY <1>5, <1>6, SendingIs
<1>10. Body(rows', 1)
    <2> SUFFICES ASSUME NEW k \in 1..Len(rows) + 1
                 PROVE  rows'[k].role # "system" /\ (rows'[k].holds = "bundle" => rows'[k].role = "tool")
        BY <1>8 DEF Body
    <2>1. CASE k = Len(rows) + 1 BY <2>1, <1>7, <1>8
    <2>2. CASE k # Len(rows) + 1
        <3>1. k \in 1..Len(rows) /\ k >= 1 BY <2>2, <1>8
        <3> QED BY <3>1, <1>5, <1>8 DEF Body
    <2> QED BY <2>1, <2>2
<1>11. ASSUME NEW k \in 1..Len(rows') PROVE rows'[k] = Sending[k + 1]
    <2>1. CASE k = Len(rows) + 1
        <3>1. k + 1 = Len(rows) + 2 BY <2>1, <1>8
        <3> QED BY <2>1, <3>1, <1>8, <1>9
    <2>2. CASE k # Len(rows) + 1
        <3>1. k \in 1..Len(rows) BY <2>2, <1>8
        <3> QED BY <3>1, <1>8, <1>9
    <2> QED BY <2>1, <2>2
<1>12. Body(Sending, 2)
    <2> SUFFICES ASSUME NEW k \in 1..Len(rows) + 2, k >= 2
                 PROVE  Sending[k].role # "system" /\ (Sending[k].holds = "bundle" => Sending[k].role = "tool")
        BY <1>9 DEF Body
    <2>1. PICK l : l = k - 1 OBVIOUS
    <2>2. l \in 1..Len(rows') /\ l \in DOMAIN rows' /\ l >= 1 /\ k = l + 1 BY <2>1, <1>8
    <2>3. Sending[k] = rows'[l] BY <2>2, <1>11
    <2> QED BY <2>2, <2>3, <1>10 DEF Body
<1>13. Sending # <<>> BY <1>8, <1>9, EmptySeq
<1>14. Typed'
    <2>1. Messages(prompt') /\ Body(prompt', 2) /\ prompt' # <<>> /\ prompt'[1] = SystemText
        BY <1>1, <1>9, <1>12, <1>13
    <2>2. Messages(rows') /\ Body(rows', 1) BY <1>8, <1>10
    <2>3. calls' \in Seq(Call) /\ Len(calls') <= MaxToolCalls /\ out' \in [DOMAIN calls' -> OutState]
          /\ excluded' \subseteq Spot
        BY <1>1 DEF Typed
    <2> QED BY <2>1, <2>2, <2>3, <1>3, <1>4 DEF Typed, Messages, Body
<1>15. Phases'
    <2>1. Unsaved' = 0 BY <1>3 DEF Unsaved
    <2>2. Mirrored' BY <2>1, <1>1, <1>8, <1>9, <1>11 DEF Mirrored
    <2> QED BY <2>2, <1>1, <1>3, AgentLoopAssumption DEF Phases
<1> QED BY <1>14, <1>15

\* What the model may ask in a hop: the list of its calls is within the cap, and in the
\* agentic loop no two of them get the same spot.
LEMMA AskedCalls ==
    ASSUME NEW asked \in Asks, NEW n \in 0..Len(asked) * (Pieces + 1), Ask(asked, n)
    PROVE  /\ calls' \in Seq(Call) /\ Len(calls') <= MaxToolCalls
           /\ out' = [i \in DOMAIN calls' |-> "todo"]
           /\ turn' = [turn EXCEPT !.pc = IF calls' = <<>> THEN "flush" ELSE "tools", !.hop = @ + 1]
           /\ turn.mode = "agentic" =>
                \A i, j \in DOMAIN calls' : calls'[i].tool = "get_spot" /\ calls'[i] = calls'[j] => i = j
<1>1. n \in Nat OBVIOUS
<1>2. PICK w : w = Capped(Assembled(asked, n)) OBVIOUS
<1>3. PICK d : d = DedupGetSpot(w) OBVIOUS
<1>4. /\ w \in Seq(Call) /\ Len(w) <= MaxToolCalls /\ d \in Seq(Call) /\ Len(d) <= MaxToolCalls
      /\ \A i, j \in DOMAIN d : d[i].tool = "get_spot" /\ d[i] = d[j] => i = j
    BY ONLY <1>1, <1>2, <1>3, CallsOfHop, asked \in Asks
<1>5. /\ calls' = (IF turn.mode = "agentic" THEN d ELSE w)
      /\ out' = [i \in DOMAIN calls' |-> "todo"]
      /\ turn' = [turn EXCEPT !.pc = IF calls' = <<>> THEN "flush" ELSE "tools", !.hop = @ + 1]
    BY <1>2, <1>3 DEF Ask
<1> QED BY <1>4, <1>5

LEMMA AskTyped ==
    ASSUME Typed, Phases, NEW asked \in Asks, NEW n \in 0..Len(asked) * (Pieces + 1), Ask(asked, n)
    PROVE  Typed' /\ Phases'
<1>1. PICK pc \in {"flush", "tools"} : turn' = [turn EXCEPT !.pc = pc, !.hop = @ + 1]
    BY AskedCalls
<1>2. turn.pc = "engine" /\ ToolsOffered /\ UNCHANGED <<rows, excluded, prompt>> BY DEF Ask
<1>3. turn \in Turn /\ HopCap \in Nat BY AgentLoopAssumption DEF Typed
<1>4. turn.hop \in Nat /\ turn.hop + 1 <= HopCap + 1 /\ (turn.mode = "agentic" => turn.hop + 1 <= HopCap)
    BY <1>2, <1>3 DEF ToolsOffered, Turn
<1>5. /\ turn'.pc = pc /\ turn'.hop = turn.hop + 1 /\ turn'.mode = turn.mode
      /\ turn' \in Turn
    <2>1. PICK h \in 0..HopCap + 1 : h = turn.hop + 1 BY <1>3, <1>4
    <2>2. turn' = [turn EXCEPT !.pc = pc, !.hop = h] BY <1>1, <1>3, <2>1 DEF Turn
    <2>3. pc \in Phase BY DEF Phase
    <2> QED BY <2>1, <2>2, <2>3, <1>3 DEF Turn
<1>6. out' \in [DOMAIN calls' -> OutState] BY AskedCalls DEF OutState
<1>7. Unsaved' = Unsaved BY <1>2, <1>5 DEF Unsaved
<1>8. Typed' /\ Mirrored' BY <1>2, <1>5, <1>6, <1>7, AskedCalls, SameTranscript
<1>9. turn'.pc # "tools" => calls' = <<>> BY <1>3, AskedCalls DEF Turn
<1> QED BY <1>4, <1>5, <1>8, <1>9 DEF Phases

\* The tools of a hop change nothing but how far their calls are.
LEMMA ToolStep ==
    ASSUME Typed, NEW i \in 1..Len(calls), ShortCircuit(i) \/ Embed(i) \/ Query(i) \/ Rows(i)
    PROVE  /\ turn.pc = "tools" /\ i \in DOMAIN calls
           /\ UNCHANGED <<rows, excluded, prompt, turn, calls, spoken>>
           /\ \E state \in OutState : out' = [out EXCEPT ![i] = state]
           /\ out' \in [DOMAIN calls -> OutState]
<1>1. out \in [DOMAIN calls -> OutState] BY DEF Typed
<1>2. \E state \in OutState : Becomes(i, state)
    BY DEF ShortCircuit, Embed, Query, Rows, OutState
<1>3. turn.pc = "tools" /\ i \in DOMAIN out BY DEF ShortCircuit, Embed, Query, Rows
<1>4. PICK state \in OutState : Becomes(i, state) BY <1>2
<1> QED BY <1>1, <1>3, <1>4 DEF Becomes

LEMMA ToolTyped ==
    ASSUME Typed, Phases, NEW i \in 1..Len(calls), ShortCircuit(i) \/ Embed(i) \/ Query(i) \/ Rows(i)
    PROVE  Typed' /\ Phases'
<1>1. turn.pc = "tools" /\ UNCHANGED <<rows, excluded, prompt, turn, calls>>
      /\ out' \in [DOMAIN calls -> OutState]
    BY ToolStep
<1>2. Unsaved' = Unsaved BY <1>1 DEF Unsaved
<1>3. Typed' /\ Mirrored' BY <1>1, <1>2, SameTranscript DEF Typed
<1> QED BY <1>1, <1>3 DEF Phases

\* The hop joins the prompt: the message with its calls, then their results.
LEMMA HopJoins ==
    ASSUME Typed, HopDone
    PROVE  /\ Messages(prompt') /\ Len(prompt') = Len(prompt) + Len(calls) + 1
           /\ DOMAIN prompt' = 1..Len(prompt) + Len(calls) + 1
           /\ DOMAIN prompt = 1..Len(prompt) /\ Len(prompt) \in Nat /\ Len(prompt) >= 1
           /\ DOMAIN calls = 1..Len(calls) /\ Len(calls) \in Nat
           /\ \A k \in 1..Len(prompt) : prompt'[k] = prompt[k]
           /\ prompt'[Len(prompt) + 1] = Message("assistant", calls, None, "text")
           /\ \A i \in 1..Len(calls) : prompt'[Len(prompt) + 1 + i] =
                                           Message("tool", <<>>, <<Len(prompt) + 1, i>>, out[i])
           /\ Size(prompt') <= Size(prompt) + HopWeight
<1>1. turn.pc = "tools" BY DEF HopDone, Answered
<1>2. PICK h : h = HopMessages OBVIOUS
<1>3. /\ Messages(h) /\ Len(h) = Len(calls) + 1 /\ DOMAIN h = 1..Len(calls) + 1
      /\ h[1] = Message("assistant", calls, None, "text")
      /\ \A i \in 1..Len(calls) : h[i + 1] = Message("tool", <<>>, <<Len(prompt) + 1, i>>, out[i])
    BY <1>2, HopIsMessages
<1>4. prompt' = prompt \o h /\ UNCHANGED <<rows, excluded>> BY <1>2 DEF HopDone
<1>5. Messages(prompt) /\ Body(prompt, 2) /\ prompt # <<>> /\ prompt[1] = SystemText
    BY <1>1 DEF Typed
<1>6. calls \in Seq(Call) /\ Len(calls) \in Nat /\ DOMAIN calls = 1..Len(calls)
    BY LenProperties DEF Typed
<1>7. prompt \in Seq(Row) /\ Len(prompt) \in Nat /\ DOMAIN prompt = 1..Len(prompt) /\ h \in Seq(Row)
    BY <1>3, <1>5, LenProperties DEF Messages
<1>8. /\ Messages(prompt') /\ Len(prompt') = Len(prompt) + Len(calls) + 1
      /\ DOMAIN prompt' = 1..Len(prompt) + Len(calls) + 1
      /\ \A k \in 1..Len(prompt) : prompt'[k] = prompt[k]
      /\ \A k \in 1..Len(calls) + 1 : prompt'[Len(prompt) + k] = h[k]
    <2>1. Messages(prompt') BY <1>3, <1>4, <1>5, SizeOfConcat
    <2>2. /\ Len(prompt \o h) = Len(prompt) + Len(h)
          /\ \A i \in 1..Len(prompt) + Len(h) :
                (prompt \o h)[i] = IF i <= Len(prompt) THEN prompt[i] ELSE h[i - Len(prompt)]
        BY <1>7, ConcatProperties
    <2>3. Len(prompt') = Len(prompt) + Len(calls) + 1 BY <2>2, <1>3, <1>4, <1>6, <1>7
    <2>4. DOMAIN prompt' = 1..Len(prompt') BY <2>1, LenProperties DEF Messages
    <2>5. \A k \in 1..Len(prompt) : prompt'[k] = prompt[k] BY <2>2, <1>3, <1>4, <1>6, <1>7
    <2>6. \A k \in 1..Len(calls) + 1 : prompt'[Len(prompt) + k] = h[k]
        <3> SUFFICES ASSUME NEW k \in 1..Len(calls) + 1 PROVE prompt'[Len(prompt) + k] = h[k] OBVIOUS
        <3>1. /\ Len(prompt) + k \in 1..Len(prompt) + Len(h) /\ ~(Len(prompt) + k <= Len(prompt))
              /\ Len(prompt) + k - Len(prompt) = k
            BY <1>3, <1>6, <1>7
        <3> QED BY <3>1, <2>2, <1>4
    <2> QED BY <2>1, <2>3, <2>4, <2>5, <2>6
<1>9. Len(prompt) >= 1 BY <1>5, <1>7, EmptySeq
<1>10. prompt'[Len(prompt) + 1] = Message("assistant", calls, None, "text")
    <2>1. 1 \in 1..Len(calls) + 1 BY <1>6
    <2> QED BY <2>1, <1>3, <1>8
<1>11. ASSUME NEW i \in 1..Len(calls)
       PROVE  prompt'[Len(prompt) + 1 + i] = Message("tool", <<>>, <<Len(prompt) + 1, i>>, out[i])
    <2>1. i + 1 \in 1..Len(calls) + 1 /\ Len(prompt) + 1 + i = Len(prompt) + (i + 1) BY <1>6, <1>7
    <2>2. prompt'[Len(prompt) + 1 + i] = h[i + 1] BY <2>1, <1>8
    <2> QED BY <2>2, <1>3
<1>12. Size(prompt') <= Size(prompt) + HopWeight
    <2>1. Size(prompt') = Size(prompt) + Size(h) BY <1>3, <1>4, <1>5, SizeOfConcat
    <2>2. Size(h) <= HopWeight BY <1>2, HopIsMessages
    <2>3. Size(prompt) \in Nat /\ Size(h) \in Nat BY <1>3, <1>5, UnitsFinite
    <2>4. HopWeight \in Nat BY AgentLoopAssumption DEF HopWeight
    <2> QED BY <2>1, <2>2, <2>3, <2>4
<1> QED BY <1>6, <1>7, <1>8, <1>9, <1>10, <1>11, <1>12

LEMMA HopDoneTyped ==
    ASSUME Typed, Phases, HopDone
    PROVE  Typed' /\ Phases'
<1>1. turn.pc = "tools" /\ UNCHANGED <<rows, excluded>> BY DEF HopDone, Answered
<1>5. Body(prompt, 2) /\ prompt # <<>> /\ prompt[1] = SystemText BY <1>1 DEF Typed
<1>6. calls \in Seq(Call) /\ Len(calls) \in Nat /\ Len(calls) <= MaxToolCalls
    BY LenProperties DEF Typed
<1>7. Len(prompt) \in Nat /\ DOMAIN prompt = 1..Len(prompt) /\ Len(prompt) >= 1 BY HopJoins
<1>8. /\ Messages(prompt') /\ Len(prompt') = Len(prompt) + Len(calls) + 1
      /\ DOMAIN prompt' = 1..Len(prompt) + Len(calls) + 1
      /\ \A k \in 1..Len(prompt) : prompt'[k] = prompt[k]
    BY HopJoins
<1>9. ASSUME NEW l \in 1..Len(calls) + 1
      PROVE  /\ prompt'[Len(prompt) + l].role # "system"
             /\ prompt'[Len(prompt) + l].holds = "bundle" => prompt'[Len(prompt) + l].role = "tool"
    <2>1. CASE l = 1
        <3>1. prompt'[Len(prompt) + l] = Message("assistant", calls, None, "text") BY <2>1, HopJoins
        <3> QED BY <3>1 DEF Message
    <2>2. CASE l # 1
        <3>1. PICK i : i = l - 1 OBVIOUS
        <3>2. i \in 1..Len(calls) /\ Len(prompt) + l = Len(prompt) + 1 + i BY <3>1, <2>2, <1>6, <1>7
        <3>3. prompt'[Len(prompt) + l] = Message("tool", <<>>, <<Len(prompt) + 1, i>>, out[i])
            BY <3>2, HopJoins
        <3>4. prompt'[Len(prompt) + l].role = "tool" BY <3>3 DEF Message
        <3> QED BY <3>4
    <2> QED BY <2>1, <2>2
<1>10. Body(prompt', 2)
    <2> SUFFICES ASSUME NEW k \in DOMAIN prompt', k >= 2
                 PROVE  prompt'[k].role # "system" /\ (prompt'[k].holds = "bundle" => prompt'[k].role = "tool")
        BY DEF Body
    <2>1. CASE k <= Len(prompt)
        <3>1. k \in DOMAIN prompt /\ prompt'[k] = prompt[k] BY <2>1, <1>6, <1>7, <1>8
        <3> QED BY <3>1, <1>5 DEF Body
    <2>2. CASE ~(k <= Len(prompt))
        <3>1. PICK l : l = k - Len(prompt) OBVIOUS
        <3>2. l \in 1..Len(calls) + 1 /\ k = Len(prompt) + l BY <3>1, <2>2, <1>6, <1>7, <1>8
        <3> QED BY <3>2, <1>9
    <2> QED BY <2>1, <2>2
<1>11. prompt' # <<>> /\ prompt'[1] = SystemText
    <2>1. Len(prompt) >= 1 BY <1>5, <1>7, EmptySeq
    <2>2. Len(prompt') # 0 /\ 1 \in 1..Len(prompt) BY <2>1, <1>6, <1>7, <1>8
    <2> QED BY <2>2, <1>5, <1>8, EmptySeq
<1>12. PICK pc \in {"persist", "engine"}, act \in SUBSET (Spot \cup {Stranger}) :
        /\ turn' = [turn EXCEPT !.pc = pc, !.saved = 0, !.active = act]
        /\ pc = "persist" <=> turn.mode = "agentic"
    <2>1. \A i \in DOMAIN calls : calls[i] \in Call BY <1>6, LenProperties, ElementOfSeq
    <2>2. Targets \subseteq Spot \cup {Stranger} BY <2>1 DEF Targets, Call
    <2>3. turn.active \subseteq Spot \cup {Stranger} BY DEF Typed, Turn
    <2>4. (IF turn.mode = "agentic" THEN turn.active \cup Targets ELSE turn.active)
              \in SUBSET (Spot \cup {Stranger})
        BY <2>2, <2>3
    <2>5. (IF turn.mode = "agentic" THEN "persist" ELSE "engine") \in {"persist", "engine"} OBVIOUS
    <2>6. turn' = [turn EXCEPT !.pc = IF turn.mode = "agentic" THEN "persist" ELSE "engine",
                     !.saved = 0,
                     !.active = IF turn.mode = "agentic" THEN turn.active \cup Targets ELSE turn.active]
        BY DEF HopDone
    <2> HIDE DEF Targets
    <2> QED BY <2>4, <2>5, <2>6
<1>13. /\ turn'.pc = pc /\ turn'.mode = turn.mode /\ turn'.hop = turn.hop /\ turn'.saved = 0
       /\ turn' \in Turn
    <2>1. turn \in Turn /\ 0 \in 0..MaxToolCalls + 1 BY AgentLoopAssumption DEF Typed
    <2> QED BY <2>1, <1>12 DEF Turn, Phase
<1>14. calls' \in Seq(Call) /\ Len(calls') <= MaxToolCalls /\ out' \in [DOMAIN calls' -> OutState]
    <2>1. CASE turn.mode = "agentic" BY <2>1 DEF HopDone, Typed
    <2>2. CASE turn.mode # "agentic"
        <3>1. calls' = <<>> /\ out' = <<>> BY <2>2 DEF HopDone
        <3>2. <<>> \in Seq(Call) /\ Len(<<>>) = 0 BY EmptySeq
        <3> QED BY <3>1, <3>2, AgentLoopAssumption
    <2> QED BY <2>1, <2>2
<1>15. Typed'
    <2>1. turn'.pc # "idle" BY <1>12, <1>13
    <2>2. Messages(rows') /\ Body(rows', 1) /\ excluded' \subseteq Spot BY <1>1 DEF Typed, Messages, Body
    <2>3. Messages(prompt') /\ Body(prompt', 2) BY <1>8, <1>10
    <2> QED BY <2>1, <2>2, <2>3, <1>11, <1>13, <1>14 DEF Typed, Messages, Body
<1>16. Mirrored'
    <2> SUFFICES ASSUME turn.mode = "agentic"
                 PROVE  /\ Len(prompt') = 1 + Len(rows') + Unsaved'
                        /\ \A k \in DOMAIN rows' : rows'[k] = prompt'[k + 1]
        BY <1>13 DEF Mirrored, Running
    <2>1. calls' = calls /\ turn'.pc = "persist" BY <1>12, <1>13 DEF HopDone
    <2>2. Unsaved' = Len(calls) + 1 BY <2>1, <1>6, <1>13 DEF Unsaved
    <2>3. Len(prompt) = 1 + Len(rows) /\ \A k \in DOMAIN rows : rows[k] = prompt[k + 1]
        <3>1. rows \in Seq(Row) /\ Len(rows) \in Nat BY LenProperties DEF Typed, Messages
        <3> QED BY <3>1, <1>1 DEF Phases, Mirrored, Running, Unsaved
    <2>4. Len(rows) \in Nat /\ DOMAIN rows = 1..Len(rows) BY LenProperties DEF Typed, Messages
    <2>5. Len(prompt') = 1 + Len(rows') + Unsaved' BY <2>2, <2>3, <2>4, <1>1, <1>6, <1>8
    <2>6. ASSUME NEW k \in DOMAIN rows' PROVE rows'[k] = prompt'[k + 1]
        <3>1. k \in DOMAIN rows /\ k + 1 \in 1..Len(prompt) BY <2>3, <2>4, <1>1
        <3> QED BY <3>1, <2>3, <1>1, <1>8
    <2> QED BY <2>5, <2>6
<1>17. turn'.pc = "persist" => turn'.mode = "agentic" /\ turn'.saved <= Len(calls')
    <2>1. turn'.pc = "persist" => turn.mode = "agentic" /\ calls' = calls BY <1>12, <1>13 DEF HopDone
    <2> QED BY <2>1, <1>6, <1>13
<1>18. (turn'.mode = "agentic" => turn'.hop <= HopCap) /\ turn'.pc # "tools"
    BY <1>12, <1>13 DEF Phases
<1>19. turn'.pc \notin {"tools", "persist"} => calls' = <<>>
    <2>1. turn'.pc # "persist" => turn.mode # "agentic" BY <1>12, <1>13
    <2> QED BY <2>1 DEF HopDone
<1> QED BY <1>15, <1>16, <1>17, <1>18, <1>19 DEF Phases

\* The row that is stored next is the first message of the prompt without a row.
LEMMA PersistIs ==
    ASSUME Typed, Phases, PersistHop
    PROVE  /\ turn.mode = "agentic" /\ Len(rows) \in Nat /\ DOMAIN rows = 1..Len(rows)
           /\ Len(rows) + 2 \in DOMAIN prompt /\ DOMAIN prompt = 1..Len(prompt)
           /\ rows' = Append(rows, prompt[Len(rows) + 2])
           /\ Messages(rows') /\ Len(rows') = Len(rows) + 1 /\ DOMAIN rows' = 1..Len(rows) + 1
           /\ \A k \in DOMAIN rows' : rows'[k] = prompt[k + 1]
           /\ Len(prompt) = 1 + Len(rows') + Unsaved' /\ Unsaved' \in Nat
           /\ turn'.pc \in {"persist", "engine"} /\ UNCHANGED <<excluded, prompt, spoken>>
           /\ turn' \in Turn /\ turn'.mode = turn.mode /\ turn'.hop = turn.hop
           /\ turn'.active = turn.active
           /\ turn'.pc = "persist" => turn'.saved <= Len(calls) /\ UNCHANGED <<calls, out>>
           /\ turn'.pc = "engine" => calls' = <<>> /\ out' = <<>>
<1>1. turn.pc = "persist" /\ UNCHANGED <<excluded, prompt, spoken>> BY DEF PersistHop
<1>2. turn.mode = "agentic" /\ turn.saved <= Len(calls) BY <1>1 DEF Phases
<1>3. PICK c : c = Len(calls) OBVIOUS
<1>4. c \in Nat /\ c <= MaxToolCalls BY <1>3, LenProperties DEF Typed
<1>5. turn \in Turn /\ turn.saved \in Nat /\ MaxToolCalls \in Nat BY AgentLoopAssumption DEF Typed, Turn
<1>6. rows \in Seq(Row) /\ prompt \in Seq(Row) BY DEF Typed, Messages
<1>7. PICK r, p : r = Len(rows) /\ p = Len(prompt) OBVIOUS
<1>8. r \in Nat /\ p \in Nat BY <1>6, <1>7, LenProperties
<1>9. DOMAIN rows = 1..r BY <1>6, <1>7, LenProperties
<1>10. DOMAIN prompt = 1..p BY <1>6, <1>7, LenProperties
<1>11. p = 1 + r + (c + 1 - turn.saved) /\ \A k \in DOMAIN rows : rows[k] = prompt[k + 1]
    BY <1>1, <1>2, <1>3, <1>7 DEF Phases, Mirrored, Running, Unsaved
<1>12. turn.saved <= c BY <1>2, <1>3
<1>13. p - (c + 1) + turn.saved + 1 = r + 2 /\ r + 2 \in 1..p BY <1>4, <1>5, <1>8, <1>11, <1>12
<1>14. rows' = Append(rows, prompt[r + 2]) BY <1>3, <1>7, <1>13 DEF PersistHop
<1>15. PICK m : m = prompt[r + 2] OBVIOUS
<1>16. m \in Row /\ Len(m.calls) <= MaxToolCalls
    BY <1>6, <1>7, <1>10, <1>13, <1>15, ElementOfSeq DEF Typed, Messages
<1>17. /\ Messages(rows') /\ Len(rows') = r + 1 /\ DOMAIN rows' = 1..r + 1
       /\ \A k \in 1..r : rows'[k] = rows[k]
       /\ rows'[r + 1] = m
    BY <1>7, <1>14, <1>15, <1>16, AppendRow DEF Typed
<1>18. ASSUME NEW k \in 1..r + 1 PROVE rows'[k] = prompt[k + 1]
    <2>1. CASE k = r + 1
        <3>1. k + 1 = r + 2 BY <2>1, <1>8
        <3> QED BY <2>1, <3>1, <1>15, <1>17
    <2>2. CASE k # r + 1
        <3>1. k \in 1..r BY <2>2, <1>8
        <3> QED BY <3>1, <1>9, <1>11, <1>17
    <2> QED BY <2>1, <2>2
<1>19. PICK s \in 0..MaxToolCalls + 1 : s = turn.saved + 1 BY <1>4, <1>5, <1>12
<1>20. /\ turn' = [turn EXCEPT !.saved = s, !.pc = IF s = c + 1 THEN "engine" ELSE "persist"]
       /\ IF s = c + 1 THEN calls' = <<>> /\ out' = <<>> ELSE UNCHANGED <<calls, out>>
    BY <1>3, <1>5, <1>19 DEF PersistHop, Turn
<1>21. /\ turn'.pc = (IF s = c + 1 THEN "engine" ELSE "persist") /\ turn'.mode = turn.mode
       /\ turn'.hop = turn.hop /\ turn'.active = turn.active /\ turn'.saved = s
       /\ turn' \in Turn
    BY <1>5, <1>20 DEF Turn, Phase
<1>22. p = 1 + (r + 1) + Unsaved' /\ Unsaved' \in Nat
    <2>1. CASE s = c + 1
        <3>1. Unsaved' = 0 BY <2>1, <1>21 DEF Unsaved
        <3> QED BY <3>1, <2>1, <1>4, <1>5, <1>8, <1>11, <1>19
    <2>2. CASE s # c + 1
        <3>1. calls' = calls /\ turn'.pc = "persist" BY <2>2, <1>20, <1>21
        <3>2. Unsaved' = c + 1 - s BY <3>1, <1>3, <1>21 DEF Unsaved
        <3>3. PICK v \in Nat : v = turn.saved BY <1>5
        <3>4. p = 1 + r + (c + 1 - v) /\ s = v + 1 /\ v <= c BY <3>3, <1>11, <1>12, <1>19
        <3>5. c + 1 - s \in Nat /\ p = 1 + (r + 1) + (c + 1 - s) BY ONLY <3>4, <1>4, <1>8, <3>3
        <3> QED BY <3>2, <3>5
    <2> QED BY <2>1, <2>2
<1>23. turn'.pc = "persist" => turn'.saved <= Len(calls) /\ UNCHANGED <<calls, out>>
    <2>1. turn'.pc = "persist" => s # c + 1 BY <1>21
    <2>2. s # c + 1 => s <= c BY <1>4, <1>5, <1>12, <1>19
    <2> QED BY <2>1, <2>2, <1>3, <1>20, <1>21
<1>24. turn'.pc = "engine" => calls' = <<>> /\ out' = <<>> BY <1>20, <1>21
<1>25. turn'.pc \in {"persist", "engine"} BY <1>21
<1>26. \A k \in DOMAIN rows' : rows'[k] = prompt[k + 1] BY <1>17, <1>18
<1> QED BY <1>1, <1>2, <1>7, <1>8, <1>9, <1>10, <1>13, <1>14, <1>17, <1>21, <1>22, <1>23, <1>24, <1>25, <1>26

LEMMA PersistTyped ==
    ASSUME Typed, Phases, PersistHop
    PROVE  Typed' /\ Phases'
<1>1. Body(prompt, 2) /\ prompt # <<>> /\ prompt[1] = SystemText BY DEF Typed, PersistHop
<1>2. Body(rows', 1)
    <2> SUFFICES ASSUME NEW k \in DOMAIN rows'
                 PROVE  rows'[k].role # "system" /\ (rows'[k].holds = "bundle" => rows'[k].role = "tool")
        BY DEF Body
    <2>1. k \in 1..Len(rows) + 1 /\ rows'[k] = prompt[k + 1] /\ Len(rows) \in Nat BY PersistIs
    <2>2. k + 1 \in DOMAIN prompt /\ k + 1 >= 2
        <3>1. PICK r, p : r = Len(rows) /\ p = Len(prompt) OBVIOUS
        <3>2. r + 2 \in 1..p BY <3>1, PersistIs
        <3> QED BY <3>1, <3>2, <2>1, PersistIs
    <2> QED BY <2>1, <2>2, <1>1 DEF Body
<1>3. calls' \in Seq(Call) /\ Len(calls') <= MaxToolCalls /\ out' \in [DOMAIN calls' -> OutState]
    <2>1. CASE turn'.pc = "persist" BY <2>1, PersistIs DEF Typed
    <2>2. CASE turn'.pc = "engine"
        <3>1. calls' = <<>> /\ out' = <<>> BY <2>2, PersistIs
        <3>2. <<>> \in Seq(Call) /\ Len(<<>>) = 0 BY EmptySeq
        <3> QED BY <3>1, <3>2, AgentLoopAssumption
    <2> QED BY <2>1, <2>2, PersistIs
<1>4. turn'.pc # "idle" /\ turn' \in Turn /\ UNCHANGED <<excluded, prompt>> /\ Messages(rows') BY PersistIs
<1>5. Typed' BY <1>1, <1>2, <1>3, <1>4 DEF Typed, Messages, Body
<1>6. Mirrored' BY PersistIs DEF Mirrored
<1>7. turn'.pc = "persist" => turn'.mode = "agentic" /\ turn'.saved <= Len(calls') BY PersistIs
<1>8. (turn'.mode = "agentic" => turn'.hop <= HopCap) /\ turn'.pc # "tools" BY PersistIs DEF Phases
<1>9. turn'.pc # "persist" => calls' = <<>> BY PersistIs
<1> QED BY <1>5, <1>6, <1>7, <1>8, <1>9 DEF Phases

\* The answer is streamed, ended and shown beside the transcript.
LEMMA AnswerStep ==
    ASSUME Typed,
           \/ \E text, ids : Speak(text, ids)
           \/ \E n \in Nat : Token(n)
           \/ TextEnds
           \/ Finish
    PROVE  /\ UNCHANGED <<rows, excluded, prompt, calls, out>>
           /\ turn' \in Turn /\ turn'.mode = turn.mode /\ turn'.hop = turn.hop
           /\ turn.pc \in {"engine", "text", "flush"} /\ turn'.pc \in {"text", "flush", "save"}
<1>1. turn \in Turn BY DEF Typed
<1>2. CASE \E text, ids : Speak(text, ids) BY <1>1, <1>2 DEF Speak, Turn, Phase
<1>3. CASE \E n \in Nat : Token(n) BY <1>1, <1>3 DEF Token, Turn
<1>4. CASE TextEnds BY <1>1, <1>4 DEF TextEnds, Turn, Phase
<1>5. CASE Finish BY <1>1, <1>5 DEF Finish, Turn, Phase
<1> QED BY <1>2, <1>3, <1>4, <1>5

LEMMA AnswerTyped ==
    ASSUME Typed, Phases,
           \/ \E text, ids : Speak(text, ids)
           \/ \E n \in Nat : Token(n)
           \/ TextEnds
           \/ Finish
    PROVE  Typed' /\ Phases'
<1>1. /\ UNCHANGED <<rows, excluded, prompt, calls, out>>
      /\ turn' \in Turn /\ turn'.mode = turn.mode /\ turn'.hop = turn.hop
      /\ turn.pc \in {"engine", "text", "flush"} /\ turn'.pc \in {"text", "flush", "save"}
    BY AnswerStep
<1>2. Unsaved' = Unsaved BY <1>1 DEF Unsaved
<1>3. Typed' /\ Mirrored' BY <1>1, <1>2, SameTranscript DEF Typed
<1> QED BY <1>1, <1>3 DEF Phases

\* The answer's row is appended, or none is: either way the rows are messages.
LEMMA SaveIs ==
    ASSUME Typed, SaveAnswer
    PROVE  /\ rows' = rows \/ rows' = Append(rows, Plain("assistant"))
           /\ Messages(rows') /\ Body(rows', 1)
<1>1. rows' = rows \/ rows' = Append(rows, Plain("assistant")) BY DEF SaveAnswer
<1>2. Messages(rows) /\ Body(rows, 1) BY DEF Typed
<1>3. CASE rows' = rows BY <1>1, <1>2, <1>3 DEF Messages, Body
<1>4. CASE rows' = Append(rows, Plain("assistant"))
    <2>1. PICK u \in Row : u = Plain("assistant") BY PlainIsRow
    <2>2. /\ u.role = "assistant" /\ u.holds = "text" /\ Len(u.calls) <= MaxToolCalls
        BY <2>1, PlainIsRow
    <2>3. /\ Messages(rows') /\ Len(rows) \in Nat /\ DOMAIN rows = 1..Len(rows)
          /\ DOMAIN rows' = 1..Len(rows) + 1
          /\ \A k \in 1..Len(rows) : rows'[k] = rows[k]
          /\ rows'[Len(rows) + 1] = u
        BY <1>2, <1>4, <2>1, <2>2, AppendRow
    <2>4. ASSUME NEW k \in 1..Len(rows) + 1
          PROVE  rows'[k].role # "system" /\ (rows'[k].holds = "bundle" => rows'[k].role = "tool")
        <3>1. CASE k = Len(rows) + 1 BY <3>1, <2>2, <2>3
        <3>2. CASE k # Len(rows) + 1
            <4>1. k \in 1..Len(rows) /\ k >= 1 BY <3>2, <2>3
            <4> QED BY <4>1, <1>2, <2>3 DEF Body
        <3> QED BY <3>1, <3>2
    <2>5. Body(rows', 1) BY <2>3, <2>4 DEF Body
    <2> QED BY <2>3, <2>5, <1>1
<1> QED BY <1>1, <1>3, <1>4

LEMMA TypedInit == Init => Typed /\ Phases
<1> SUFFICES ASSUME Init PROVE Typed /\ Phases OBVIOUS
<1>1. rows = <<>> /\ prompt = <<>> /\ calls = <<>> /\ out = <<>> /\ excluded = {} /\ turn = NewTurn
    BY DEF Init
<1>2. <<>> \in Seq(Row) /\ <<>> \in Seq(Call) /\ <<>> \in Seq(Spot) /\ Len(<<>>) = 0 BY EmptySeq
<1>3. turn.pc = "idle" /\ turn.mode = "agentic" /\ turn.hop = 0 BY <1>1 DEF NewTurn
<1>4. turn \in Turn
    <2>1. 0 \in 0..HopCap + 1 /\ 0 \in 0..MaxToolCalls + 1 BY AgentLoopAssumption
    <2> QED BY <1>1, <1>2, <2>1 DEF NewTurn, Turn, Phase
<1>5. Messages(rows) /\ Messages(prompt) /\ Body(rows, 1) /\ Body(prompt, 2)
    BY <1>1, <1>2 DEF Messages, Body
<1>6. Typed BY <1>1, <1>2, <1>3, <1>4, <1>5, AgentLoopAssumption DEF Typed
<1> QED BY <1>1, <1>3, <1>6, AgentLoopAssumption DEF Phases, Mirrored, Running

LEMMA TypedStep == Typed /\ Phases /\ [Next]_vars => Typed' /\ Phases'
<1> SUFFICES ASSUME Typed, Phases, [Next]_vars PROVE Typed' /\ Phases' OBVIOUS
<1>1. CASE \E mode \in {"agentic", "twopass"} : StartTurn(mode) BY <1>1, StartTyped
<1>2. CASE \E s \in Spot : Exclude(s)
    <2>1. UNCHANGED <<rows, prompt, turn, calls, out>> /\ excluded' \subseteq Spot
        BY <1>2 DEF Exclude, Typed
    <2>2. Typed' BY <2>1 DEF Typed, Messages, Body
    <2> QED BY <2>1, <2>2 DEF Phases, Mirrored, Running, Unsaved
<1>3. CASE \E asked \in Asks : \E n \in 0..Len(asked) * (Pieces + 1) : Ask(asked, n)
    BY <1>3, AskTyped
<1>4. CASE \E i \in 1..Len(calls) : ShortCircuit(i) \/ Embed(i) \/ Query(i) \/ Rows(i)
    BY <1>4, ToolTyped
<1>5. CASE HopDone BY <1>5, HopDoneTyped
<1>6. CASE PersistHop BY <1>6, PersistTyped
<1>7. CASE turn.pc = "engine" /\ \E text \in Texts[turn.n], ids \in Blocks : Speak(text, ids)
    BY <1>7, AnswerTyped
<1>8. CASE (\E n \in 1..Len(answer.text) : Token(n)) \/ TextEnds \/ Finish
    <2>1. \A n \in 1..Len(answer.text) : n \in Nat OBVIOUS
    <2> QED BY <2>1, <1>8, AnswerTyped
<1>9. CASE SaveAnswer
    <2>1. turn.pc = "save" /\ turn' = [NewTurn EXCEPT !.n = turn.n] /\ prompt' = <<>>
          /\ calls' = calls /\ out' = out /\ excluded' = excluded
        BY <1>9 DEF SaveAnswer
    <2>2. calls = <<>> /\ out \in [DOMAIN <<>> -> OutState] BY <2>1 DEF Phases, Typed
    <2> QED BY <1>9, <2>1, <2>2, SaveIs, GivenUp
<1>10. CASE Abort
    <2>1. turn' = [NewTurn EXCEPT !.n = turn.n] /\ prompt' = <<>> /\ calls' = <<>> /\ out' = <<>>
          /\ rows' = rows /\ excluded' = excluded
        BY <1>10 DEF Abort
    <2>2. <<>> \in [DOMAIN <<>> -> OutState] OBVIOUS
    <2>3. Messages(rows') /\ Body(rows', 1) BY <2>1 DEF Typed, Messages, Body
    <2> QED BY <2>1, <2>2, <2>3, GivenUp
<1>11. CASE UNCHANGED vars
    <2>1. UNCHANGED <<rows, excluded, prompt, turn, calls, out>> BY <1>11 DEF vars
    <2>2. Typed' BY <2>1 DEF Typed, Messages, Body
    <2> QED BY <2>1, <2>2 DEF Phases, Mirrored, Running, Unsaved
<1> QED BY <1>1, <1>2, <1>3, <1>4, <1>5, <1>6, <1>7, <1>8, <1>9, <1>10, <1>11 DEF Next, Calling, Answering

\* The rows, the prompt and the turn keep their types, for any spots, limits and calls.
THEOREM LoopTyped == Spec => []TypeOK
<1>1. Typed /\ Phases => TypeOK
    <2> SUFFICES ASSUME Typed, Phases PROVE TypeOK OBVIOUS
    <2>1. ASSUME NEW k \in DOMAIN rows PROVE rows[k].role \in {"user", "assistant", "tool"}
        <3>1. rows[k] \in Row BY LenProperties, ElementOfSeq DEF Typed, Messages
        <3>2. k >= 1 BY LenProperties DEF Typed, Messages
        <3>3. rows[k].role # "system" BY <3>2 DEF Typed, Body
        <3> QED BY <3>1, <3>3 DEF Row
    <2>2. turn.active \subseteq Spot \cup {Stranger} /\ turn.hop \in 0..HopCap + 1
          /\ turn.pc \in {"idle", "engine", "tools", "persist", "text", "flush", "save"}
        BY DEF Typed, Turn, Phase
    <2>3. calls \in Seq(Call) /\ DOMAIN out = DOMAIN calls /\ Len(calls) <= MaxToolCalls BY DEF Typed
    <2>4. excluded \subseteq Spot /\ (turn.pc = "idle" => prompt = <<>> /\ calls = <<>>) BY DEF Typed
    <2> QED BY <2>1, <2>2, <2>3, <2>4 DEF TypeOK
<1> QED BY <1>1, TypedInit, TypedStep, PTL DEF Spec

-----------------------------------------------------------------------------
(* Lists that take over results *)

Result(list, k) == list[k].role = "tool"

\* List b takes over the results of list a at the same distance, each with the messages
\* before it that make calls; the links of the lists count ga and gb messages in front.
Takes(b, gb, a, ga) ==
    \A k \in DOMAIN b : Result(b, k) =>
        /\ k + gb - ga \in DOMAIN a /\ b[k] = a[k + gb - ga]
        /\ \A q \in 1..k + gb - ga - 1 : DOMAIN a[q].calls # {} =>
              q + ga - gb \in 1..k - 1 /\ b[q + ga - gb] = a[q]

\* The results of the rows are those of the prompt they mirror.
LEMMA RowsTake ==
    ASSUME NEW list, NEW p, Messages(p), p # <<>>, p[1] = SystemText,
           NEW m \in Nat, DOMAIN list = 1..m, m + 1 <= Len(p), \A k \in 1..m : list[k] = p[k + 1]
    PROVE  Takes(list, 1, p, 0)
<1>1. p \in Seq(Row) /\ Len(p) \in Nat BY LenProperties DEF Messages
<1>2. DOMAIN p = 1..Len(p) BY <1>1, LenProperties
<1>3. DOMAIN p[1].calls = {}
    <2>1. p[1].calls = <<>> BY SystemIsRow
    <2> QED BY <2>1
<1>4. ASSUME NEW k \in DOMAIN list, Result(list, k)
      PROVE  /\ k + 1 - 0 \in DOMAIN p /\ list[k] = p[k + 1 - 0]
             /\ \A q \in 1..k + 1 - 0 - 1 : DOMAIN p[q].calls # {} =>
                   q + 0 - 1 \in 1..k - 1 /\ list[q + 0 - 1] = p[q]
    <2>1. k \in 1..m /\ k + 1 - 0 = k + 1 /\ k + 1 \in 1..Len(p) BY <1>1
    <2>2. ASSUME NEW q \in 1..k + 1 - 0 - 1, DOMAIN p[q].calls # {}
          PROVE  q + 0 - 1 \in 1..k - 1 /\ list[q + 0 - 1] = p[q]
        <3>1. q # 1 BY <2>2, <1>3
        <3>2. PICK r : r = q - 1 OBVIOUS
        <3>3. r \in 1..m /\ r + 1 = q /\ q + 0 - 1 = r /\ r \in 1..k - 1 BY <2>1, <3>1, <3>2
        <3> QED BY <3>3
    <2> QED BY <2>1, <2>2, <1>2
<1> QED BY <1>4 DEF Takes

LEMMA SendingTakes ==
    ASSUME Messages(rows)
    PROVE  Takes(Sending, 0, rows, 1)
<1>1. /\ Len(rows) \in Nat /\ DOMAIN Sending = 1..Len(rows) + 2 /\ DOMAIN rows = 1..Len(rows)
      /\ Sending[1] = SystemText /\ Sending[Len(rows) + 2] = Plain("user")
      /\ \A k \in 1..Len(rows) : Sending[k + 1] = rows[k]
    BY SendingIs
<1>2. PICK s, m : s = Sending /\ m = Len(rows) OBVIOUS
<1>3. /\ m \in Nat /\ DOMAIN s = 1..m + 2 /\ DOMAIN rows = 1..m
      /\ s[1].role = "system" /\ s[m + 2].role = "user" /\ \A k \in 1..m : s[k + 1] = rows[k]
    BY <1>1, <1>2, SystemIsRow, PlainIsRow
<1>4. ASSUME NEW k \in DOMAIN s, Result(s, k)
      PROVE  /\ k + 0 - 1 \in DOMAIN rows /\ s[k] = rows[k + 0 - 1]
             /\ \A q \in 1..k + 0 - 1 - 1 : DOMAIN rows[q].calls # {} =>
                   q + 1 - 0 \in 1..k - 1 /\ s[q + 1 - 0] = rows[q]
    <2>1. s[k].role = "tool" BY <1>4 DEF Result
    <2>2. k # 1 /\ k # m + 2 BY <2>1, <1>3
    <2>3. PICK r : r = k - 1 OBVIOUS
    <2>4. r \in 1..m /\ r + 1 = k /\ k + 0 - 1 = r BY <2>2, <2>3, <1>3
    <2>5. ASSUME NEW q \in 1..k + 0 - 1 - 1 PROVE q + 1 - 0 \in 1..k - 1 /\ s[q + 1 - 0] = rows[q]
        <3>1. q \in 1..m /\ q + 1 - 0 = q + 1 /\ q + 1 \in 1..k - 1 BY <2>4, <1>3
        <3> QED BY <3>1, <1>3
    <2> QED BY <2>4, <2>5, <1>3
<1>5. Takes(s, 0, rows, 1) BY <1>4 DEF Takes
<1> QED BY <1>2, <1>5

LEMMA PlainTakes ==
    ASSUME Messages(rows), NEW r \in {"user", "assistant"}, NEW list, list = Append(rows, Plain(r))
    PROVE  Takes(list, 1, rows, 1)
<1>1. PICK u \in Row : u = Plain(r) BY PlainIsRow
<1>2. u.role = r /\ Len(u.calls) <= MaxToolCalls BY <1>1, PlainIsRow
<1>3. PICK m : m = Len(rows) OBVIOUS
<1>4. /\ m \in Nat /\ DOMAIN rows = 1..m /\ DOMAIN list = 1..m + 1
      /\ \A k \in 1..m : list[k] = rows[k]
      /\ list[m + 1] = u
    BY <1>1, <1>2, <1>3, AppendRow
<1>5. ASSUME NEW k \in DOMAIN list, Result(list, k)
      PROVE  /\ k + 1 - 1 \in DOMAIN rows /\ list[k] = rows[k + 1 - 1]
             /\ \A q \in 1..k + 1 - 1 - 1 : DOMAIN rows[q].calls # {} =>
                   q + 1 - 1 \in 1..k - 1 /\ list[q + 1 - 1] = rows[q]
    <2>1. list[k].role = "tool" BY <1>5 DEF Result
    <2>2. k # m + 1 BY <2>1, <1>2, <1>4
    <2>3. k \in 1..m /\ k + 1 - 1 = k BY <2>2, <1>4
    <2>4. ASSUME NEW q \in 1..k + 1 - 1 - 1 PROVE q + 1 - 1 \in 1..k - 1 /\ list[q + 1 - 1] = rows[q]
        <3>1. q \in 1..m /\ q + 1 - 1 = q /\ q \in 1..k - 1 BY <2>3, <1>4
        <3> QED BY <3>1, <1>4
    <2> QED BY <2>3, <2>4, <1>4
<1> QED BY <1>5 DEF Takes

-----------------------------------------------------------------------------
(* The bundles *)

\* Bundles that one list takes over from another, each with the message it answers and at
\* the same distance, stay linked and stay one for each spot.
LEMMA Carried ==
    ASSUME NEW a, NEW b, NEW ga \in Nat, NEW gb \in Nat, Linked(a, ga), Once(a, ga),
           DOMAIN a \subseteq Nat, DOMAIN b \subseteq Nat, Takes(b, gb, a, ga)
    PROVE  Linked(b, gb) /\ Once(b, gb)
<1>1. ASSUME NEW k \in DOMAIN b, Bundle(b, k)
      PROVE  /\ k + gb - ga \in DOMAIN a /\ Bundle(a, k + gb - ga)
             /\ Asker(b, gb, k) = Asker(a, ga, k + gb - ga)
             /\ b[k].of \in Nat \X Nat /\ b[k].of[1] - gb \in 1..k - 1
             /\ b[k].of[2] \in DOMAIN b[b[k].of[1] - gb].calls
             /\ Asker(b, gb, k).tool = "get_spot" /\ Asker(b, gb, k).spot # None
    <2>1. PICK l : l = k + gb - ga OBVIOUS
    <2>2. k \in Nat OBVIOUS
    <2>3. l \in DOMAIN a /\ b[k] = a[l] BY <1>1, <2>1 DEF Takes, Bundle, Result
    <2>4. Bundle(a, l) BY <1>1, <2>3 DEF Bundle
    <2>5. PICK x \in Nat, y \in Nat : b[k].of = <<x, y>> BY <2>3, <2>4 DEF Linked
    <2>6. PICK q : q = x - ga OBVIOUS
    <2>7. q \in 1..l - 1 /\ y \in DOMAIN a[q].calls BY <2>3, <2>4, <2>5, <2>6 DEF Linked
    <2>8. DOMAIN a[q].calls # {} BY <2>7
    <2>9. q + ga - gb \in 1..k - 1 /\ b[q + ga - gb] = a[q]
        BY <1>1, <2>1, <2>7, <2>8 DEF Takes, Bundle, Result
    <2>10. q + ga - gb = x - gb BY <2>5, <2>6
    <2>11. Asker(b, gb, k) = a[q].calls[y] BY <2>5, <2>9, <2>10 DEF Asker
    <2>12. Asker(a, ga, l) = a[q].calls[y] BY <2>3, <2>5, <2>6 DEF Asker
    <2>13. Asker(a, ga, l).tool = "get_spot" /\ Asker(a, ga, l).spot # None BY <2>3, <2>4 DEF Linked
    <2>14. b[k].of[1] = x /\ b[k].of[2] = y /\ b[k].of \in Nat \X Nat BY <2>5
    <2> QED BY <2>1, <2>3, <2>4, <2>7, <2>9, <2>10, <2>11, <2>12, <2>13, <2>14
<1>2. Linked(b, gb) BY <1>1 DEF Linked
<1>3. Once(b, gb)
    <2> SUFFICES ASSUME NEW j \in DOMAIN b, NEW k \in DOMAIN b, Bundle(b, j), Bundle(b, k),
                        Asker(b, gb, j).spot = Asker(b, gb, k).spot
                 PROVE  j = k
        BY DEF Once
    <2>1. j + gb - ga = k + gb - ga BY <1>1 DEF Once
    <2>2. j \in Nat /\ k \in Nat OBVIOUS
    <2> QED BY <2>1, <2>2
<1> QED BY <1>2, <1>3

\* The same, for the three ways a list of this loop comes from another.
LEMMA RowsFromPrompt ==
    ASSUME NEW list, NEW p, Messages(p), p # <<>>, p[1] = SystemText, Linked(p, 0), Once(p, 0),
           NEW m \in Nat, DOMAIN list = 1..m, m + 1 <= Len(p), \A k \in 1..m : list[k] = p[k + 1]
    PROVE  Linked(list, 1) /\ Once(list, 1)
<1>1. DOMAIN p \subseteq Nat /\ DOMAIN list \subseteq Nat BY LenProperties DEF Messages
<1>2. 0 \in Nat /\ 1 \in Nat OBVIOUS
<1>3. Takes(list, 1, p, 0) BY RowsTake
<1> QED BY ONLY <1>1, <1>2, <1>3, Linked(p, 0), Once(p, 0), Carried

LEMMA SendingCarries ==
    ASSUME Messages(rows), Linked(rows, 1), Once(rows, 1)
    PROVE  Linked(Sending, 0) /\ Once(Sending, 0)
<1>1. PICK s : s = Sending OBVIOUS
<1>2. DOMAIN rows = 1..Len(rows) /\ DOMAIN s = 1..Len(rows) + 2 /\ Len(rows) \in Nat BY <1>1, SendingIs
<1>3. DOMAIN rows \subseteq Nat /\ DOMAIN s \subseteq Nat BY <1>2
<1>4. 0 \in Nat /\ 1 \in Nat OBVIOUS
<1>5. Takes(s, 0, rows, 1) BY <1>1, SendingTakes
<1>6. Linked(s, 0) /\ Once(s, 0)
    BY ONLY <1>3, <1>4, <1>5, Linked(rows, 1), Once(rows, 1), Carried
<1> QED BY <1>1, <1>6

LEMMA PlainCarries ==
    ASSUME Messages(rows), Linked(rows, 1), Once(rows, 1), NEW r \in {"user", "assistant"},
           NEW list, list = Append(rows, Plain(r))
    PROVE  Linked(list, 1) /\ Once(list, 1)
<1>1. list \in Seq(Row)
    <2>1. rows \in Seq(Row) /\ Plain(r) \in Row BY PlainIsRow DEF Messages
    <2> QED BY <2>1, AppendProperties
<1>2. DOMAIN rows \subseteq Nat /\ DOMAIN list \subseteq Nat BY <1>1, LenProperties DEF Messages
<1>3. 1 \in Nat OBVIOUS
<1>4. Takes(list, 1, rows, 1) BY PlainTakes
<1> QED BY ONLY <1>2, <1>3, <1>4, Linked(rows, 1), Once(rows, 1), Carried

LEMMA StartBundles ==
    ASSUME Typed, BundleInv, NEW mode \in {"agentic", "twopass"}, StartTurn(mode)
    PROVE  BundleInv'
<1>1. /\ prompt' = Sending /\ rows' = Append(rows, Plain("user"))
      /\ Messages(rows) /\ Linked(rows, 1) /\ Once(rows, 1)
    BY DEF StartTurn, Sending, SystemText, Typed, BundleInv
<1>2. Linked(rows', 1) /\ Once(rows', 1) BY <1>1, PlainCarries
<1>3. Linked(prompt', 0) /\ Once(prompt', 0) BY <1>1, SendingCarries
<1>4. turn'.pc = "engine" /\ turn'.mode = mode BY DEF StartTurn, NewTurn
<1>5. Fresh' BY <1>4 DEF Fresh
<1>6. Loaded'
    <2> SUFFICES ASSUME mode = "agentic" PROVE Promoted(prompt') \subseteq turn'.active
        BY <1>4 DEF Loaded, Looping
    <2>1. PICK s : s = Sending OBVIOUS
    <2>2. turn'.active = SeedActive(s, Candidates)
        BY <2>1 DEF StartTurn, Sending, SystemText, NewTurn
    <2>3. Promoted(s) \subseteq SeedActive(s, Candidates) BY DEF SeedActive
    <2> QED BY <1>1, <2>1, <2>2, <2>3
<1> QED BY <1>2, <1>3, <1>5, <1>6 DEF BundleInv

LEMMA AskBundles ==
    ASSUME Typed, BundleInv, NEW asked \in Asks, NEW n \in 0..Len(asked) * (Pieces + 1), Ask(asked, n)
    PROVE  BundleInv'
<1>1. UNCHANGED <<rows, excluded, prompt>> /\ turn.pc = "engine" BY DEF Ask
<1>2. PICK pc \in {"flush", "tools"} : turn' = [turn EXCEPT !.pc = pc, !.hop = @ + 1]
    BY AskedCalls
<1>3. turn'.pc = pc /\ turn'.mode = turn.mode /\ turn'.active = turn.active
    BY <1>2 DEF Typed, Turn
<1>4. out' = [i \in DOMAIN calls' |-> "todo"] BY AskedCalls
<1>5. \A i \in DOMAIN calls' : out'[i] = "todo" BY <1>4
<1>6. Fresh' BY <1>3, <1>5, AskedCalls DEF Fresh
<1>7. Loaded' BY <1>1, <1>3 DEF Loaded, Looping, BundleInv
<1>8. Running' => Running BY <1>1, <1>3 DEF Running
<1> QED BY <1>1, <1>6, <1>7, <1>8 DEF BundleInv

LEMMA ToolBundles ==
    ASSUME Typed, BundleInv, NEW i \in 1..Len(calls),
           ShortCircuit(i) \/ Embed(i) \/ Query(i) \/ Rows(i)
    PROVE  BundleInv'
<1>1. /\ turn.pc = "tools" /\ i \in DOMAIN calls
      /\ UNCHANGED <<rows, excluded, prompt, turn, calls>>
    BY ToolStep DEF spoken
<1>2. out \in [DOMAIN calls -> OutState] BY DEF Typed
<1>3. PICK state \in OutState : out' = [out EXCEPT ![i] = state] BY ToolStep
<1>4. \A j \in DOMAIN calls : out'[j] = IF j = i THEN state ELSE out[j] BY <1>2, <1>3
<1>5. out'[i] = state BY <1>1, <1>4
<1>6. Fresh'
    <2> SUFFICES ASSUME turn.mode = "agentic" PROVE Fresh' BY <1>1 DEF Fresh
    <2>1. Fresh BY DEF BundleInv
    <2>2. /\ state = "bundle" => calls[i].tool = "get_spot"
          /\ state = "embedded" => calls[i].tool # "get_spot"
          /\ state \in {"query", "bundle"} /\ calls[i].tool = "get_spot" =>
                calls[i].spot \notin turn.active \cup {None}
        <3>1. CASE ShortCircuit(i)
            <4>1. out'[i] \in {"error", "pointer", "aside"}
                BY <3>1, <1>1, <1>2 DEF ShortCircuit, Becomes
            <4> QED BY <4>1, <1>5
        <3>2. CASE Embed(i)
            <4>1. out'[i] \in {"embedded", "error"} /\ calls[i].tool = "search_notes_by_text"
                BY <3>2, <1>1, <1>2 DEF Embed, Becomes
            <4> QED BY <4>1, <1>5
        <3>3. CASE Query(i)
            <4>1. out'[i] \in {"query", "error"} /\ NeedsQuery(i)
                BY <3>3, <1>1, <1>2 DEF Query, Becomes
            <4>2. calls[i].tool = "get_spot" => calls[i].spot \notin turn.active \cup {None}
                BY <4>1, <2>1, <1>1 DEF NeedsQuery, Fresh
            <4> QED BY <4>1, <4>2, <1>5
        <3>4. CASE Rows(i)
            <4>1. /\ out[i] = "query" /\ out'[i] \in {"error", "data", "bundle"}
                  /\ out'[i] = "bundle" => calls[i].tool = "get_spot"
                BY <3>4, <1>1, <1>2 DEF Rows, Becomes
            <4>2. calls[i].tool = "get_spot" => calls[i].spot \notin turn.active \cup {None}
                BY <4>1, <2>1, <1>1 DEF Fresh
            <4> QED BY <4>1, <4>2, <1>5
        <3> QED BY <3>1, <3>2, <3>3, <3>4
    <2> QED BY <2>1, <2>2, <1>1, <1>4 DEF Fresh
<1>7. Loaded' BY <1>1 DEF Loaded, Looping, BundleInv
<1>8. Running' => Running BY <1>1 DEF Running
<1> QED BY <1>1, <1>6, <1>7, <1>8 DEF BundleInv

\* What a hop adds are bundles of spots that were not loaded, each asked for once.
LEMMA HopBundles ==
    ASSUME Typed, Phases, BundleInv, HopDone
    PROVE  BundleInv'
<1>1. turn.pc = "tools" /\ UNCHANGED <<rows, excluded>> BY DEF HopDone, Answered
<1>2. turn'.mode = turn.mode /\ turn'.pc \in {"persist", "engine"} BY DEF HopDone, Typed, Turn
<1>3. Linked(rows', 1) /\ Once(rows', 1) BY <1>1 DEF BundleInv
<1>4. Fresh' BY <1>2 DEF Fresh
<1> SUFFICES ASSUME turn.mode = "agentic"
             PROVE  Linked(prompt', 0) /\ Once(prompt', 0) /\ Loaded'
    BY <1>2, <1>3, <1>4 DEF BundleInv, Running, Loaded, Looping
<1>5. Linked(prompt, 0) /\ Once(prompt, 0) /\ Fresh /\ Promoted(prompt) \subseteq turn.active
    BY <1>1 DEF BundleInv, Running, Loaded, Looping
<1>6. turn'.active = turn.active \cup Targets BY DEF HopDone, Typed, Turn
<1>7. Messages(prompt) /\ Messages(prompt') BY HopJoins DEF Typed
<1>8. PICK p, c : p = Len(prompt) /\ c = Len(calls) OBVIOUS
<1>9. /\ p \in Nat /\ c \in Nat /\ p >= 1
      /\ DOMAIN prompt = 1..p /\ DOMAIN prompt' = 1..p + c + 1 /\ DOMAIN calls = 1..c
      /\ \A k \in 1..p : prompt'[k] = prompt[k]
      /\ prompt'[p + 1] = Message("assistant", calls, None, "text")
      /\ \A i \in 1..c : prompt'[p + 1 + i] = Message("tool", <<>>, <<p + 1, i>>, out[i])
    BY <1>8, HopJoins
<1>10. prompt'[p + 1].role = "assistant" /\ prompt'[p + 1].calls = calls BY <1>9 DEF Message
<1>11. ASSUME NEW i \in 1..c
       PROVE  /\ prompt'[p + 1 + i].of = <<p + 1, i>> /\ prompt'[p + 1 + i].holds = out[i]
              /\ prompt'[p + 1 + i].calls = <<>>
    <2>1. prompt'[p + 1 + i] = Message("tool", <<>>, <<p + 1, i>>, out[i]) BY <1>9
    <2> QED BY <2>1 DEF Message
<1>12. ASSUME NEW k \in DOMAIN prompt', Bundle(prompt', k)
       PROVE  \/ k \in 1..p /\ Bundle(prompt, k)
              \/ \E i \in 1..c : k = p + 1 + i /\ out[i] = "bundle"
    <2>1. CASE k <= p
        <3>1. k \in 1..p BY <2>1, <1>9
        <3>2. prompt'[k] = prompt[k] BY <3>1, <1>9
        <3> QED BY <3>1, <3>2, <1>12 DEF Bundle
    <2>2. CASE ~(k <= p)
        <3>1. k # p + 1 BY <1>10, <1>12 DEF Bundle
        <3>2. PICK i : i = k - (p + 1) OBVIOUS
        <3>3. i \in 1..c /\ k = p + 1 + i BY <3>1, <3>2, <2>2, <1>9
        <3> QED BY <3>3, <1>11, <1>12 DEF Bundle
    <2> QED BY <2>1, <2>2
<1>13. ASSUME NEW k \in 1..p, Bundle(prompt, k)
       PROVE  /\ prompt'[k].of \in Nat \X Nat /\ prompt'[k].of[1] - 0 \in 1..k - 1
              /\ prompt'[k].of[2] \in DOMAIN prompt'[prompt'[k].of[1] - 0].calls
              /\ Asker(prompt', 0, k) = Asker(prompt, 0, k)
              /\ Asker(prompt, 0, k).tool = "get_spot" /\ Asker(prompt, 0, k).spot # None
              /\ Asker(prompt, 0, k).spot \in Promoted(prompt)
    <2>1. PICK x \in Nat, y \in Nat : prompt[k].of = <<x, y>> BY <1>9, <1>13, <1>5 DEF Linked
    <2>2. x - 0 \in 1..k - 1 /\ x - 0 = x /\ y \in DOMAIN prompt[x].calls
        BY <2>1, <1>9, <1>13, <1>5 DEF Linked
    <2>3. x \in 1..p /\ prompt'[x] = prompt[x] /\ prompt'[k] = prompt[k] BY <2>2, <1>9
    <2>4. Asker(prompt, 0, k) = prompt[x].calls[y] /\ Asker(prompt', 0, k) = prompt[x].calls[y]
        BY <2>1, <2>2, <2>3 DEF Asker
    <2>5. Asker(prompt, 0, k).tool = "get_spot" /\ Asker(prompt, 0, k).spot # None
        BY <1>9, <1>13, <1>5 DEF Linked
    <2>6. Asker(prompt, 0, k).spot \in Promoted(prompt)
        BY <2>2, <2>3, <2>4, <2>5, <1>7, <1>9, PromotedAreSpots
    <2>a. prompt'[k].of = <<x, y>> BY <2>1, <2>3
    <2>b. prompt'[k].of[1] = x /\ prompt'[k].of[2] = y BY <2>a
    <2>7. /\ prompt'[k].of \in Nat \X Nat
          /\ prompt'[k].of[1] - 0 = x /\ prompt'[k].of[2] = y
        BY <2>a, <2>b, <2>2
    <2> QED BY ONLY <2>2, <2>3, <2>4, <2>5, <2>6, <2>7
<1>14. ASSUME NEW k, NEW i \in 1..c, k = p + 1 + i, out[i] = "bundle"
       PROVE  /\ prompt'[k].of \in Nat \X Nat /\ prompt'[k].of[1] - 0 \in 1..k - 1
              /\ prompt'[k].of[2] \in DOMAIN prompt'[prompt'[k].of[1] - 0].calls
              /\ Asker(prompt', 0, k) = calls[i]
              /\ calls[i].tool = "get_spot" /\ calls[i].spot # None
              /\ calls[i].spot \notin Promoted(prompt)
    <2>1. prompt'[k].of = <<p + 1, i>> BY <1>11, <1>14
    <2>2. p + 1 - 0 = p + 1 /\ p + 1 \in 1..k - 1 /\ p + 1 \in Nat /\ i \in Nat BY <1>9, <1>14
    <2>3. prompt'[k].of[1] = p + 1 /\ prompt'[k].of[2] = i BY <2>1
    <2>4. prompt'[k].of \in Nat \X Nat BY <2>1, <2>2
    <2>5. Asker(prompt', 0, k) = calls[i] BY <2>2, <2>3, <1>10 DEF Asker
    <2>6. calls[i].tool = "get_spot" /\ calls[i].spot \notin turn.active \cup {None}
        BY <1>1, <1>5, <1>9, <1>14 DEF Fresh
    <2>7. prompt'[k].of[2] \in DOMAIN prompt'[prompt'[k].of[1] - 0].calls
        BY <2>2, <2>3, <1>9, <1>10
    <2> QED BY <2>2, <2>3, <2>4, <2>5, <2>6, <2>7, <1>5
<1>15. Linked(prompt', 0)
    <2> SUFFICES ASSUME NEW k \in DOMAIN prompt', Bundle(prompt', k)
                 PROVE  /\ prompt'[k].of \in Nat \X Nat /\ prompt'[k].of[1] - 0 \in 1..k - 1
                        /\ prompt'[k].of[2] \in DOMAIN prompt'[prompt'[k].of[1] - 0].calls
                        /\ Asker(prompt', 0, k).tool = "get_spot" /\ Asker(prompt', 0, k).spot # None
        BY DEF Linked
    <2>1. CASE k \in 1..p /\ Bundle(prompt, k) BY <2>1, <1>13
    <2>2. ASSUME NEW i \in 1..c, k = p + 1 + i, out[i] = "bundle"
          PROVE  /\ prompt'[k].of \in Nat \X Nat /\ prompt'[k].of[1] - 0 \in 1..k - 1
                 /\ prompt'[k].of[2] \in DOMAIN prompt'[prompt'[k].of[1] - 0].calls
                 /\ Asker(prompt', 0, k).tool = "get_spot" /\ Asker(prompt', 0, k).spot # None
        <3> QED BY <2>2, <1>14
    <2> QED BY <2>1, <2>2, <1>12
<1>16. Once(prompt', 0)
    <2> SUFFICES ASSUME NEW j \in DOMAIN prompt', NEW k \in DOMAIN prompt', Bundle(prompt', j),
                        Bundle(prompt', k), Asker(prompt', 0, j).spot = Asker(prompt', 0, k).spot
                 PROVE  j = k
        BY DEF Once
    <2>1. CASE j \in 1..p /\ Bundle(prompt, j) /\ k \in 1..p /\ Bundle(prompt, k)
        BY <2>1, <1>5, <1>9, <1>13 DEF Once
    <2>2. CASE j \in 1..p /\ Bundle(prompt, j) /\ \E i \in 1..c : k = p + 1 + i /\ out[i] = "bundle"
        BY <2>2, <1>13, <1>14
    <2>3. CASE k \in 1..p /\ Bundle(prompt, k) /\ \E i \in 1..c : j = p + 1 + i /\ out[i] = "bundle"
        BY <2>3, <1>13, <1>14
    <2>4. ASSUME NEW i \in 1..c, NEW l \in 1..c, j = p + 1 + i, k = p + 1 + l,
                 out[i] = "bundle", out[l] = "bundle"
          PROVE  j = k
        <3>1. calls[i].spot = calls[l].spot /\ calls[i].tool = "get_spot" /\ calls[l].tool = "get_spot"
            BY <2>4, <1>14
        <3>2. calls[i] \in Call /\ calls[l] \in Call BY <1>8, ElementOfSeq DEF Typed
        <3>3. calls[i] = calls[l] BY <3>1, <3>2 DEF Call
        <3>4. i = l BY <3>1, <3>3, <1>1, <1>5, <1>9 DEF Fresh
        <3> QED BY <3>4, <2>4
    <2> QED BY <2>1, <2>2, <2>3, <2>4, <1>12
<1>17. Promoted(prompt') \subseteq turn.active \cup Targets
    <2> SUFFICES ASSUME NEW s \in Promoted(prompt') PROVE s \in turn.active \cup Targets OBVIOUS
    <2>1. PICK k \in DOMAIN prompt' : \E i \in DOMAIN prompt'[k].calls :
              prompt'[k].calls[i].tool = "get_spot" /\ prompt'[k].calls[i].spot = s
        BY <1>7, PromotedAreSpots
    <2>2. s # None BY <1>7, PromotedAreSpots
    <2>3. CASE k <= p
        <3>1. k \in 1..p /\ prompt'[k] = prompt[k] BY <2>3, <1>9
        <3>2. s \in Promoted(prompt) BY <3>1, <2>1, <2>2, <1>7, <1>9, PromotedAreSpots
        <3> QED BY <3>2, <1>5
    <2>4. CASE k = p + 1
        <3>1. \E i \in DOMAIN calls : calls[i].tool = "get_spot" /\ calls[i].spot = s
            BY <2>4, <2>1, <1>10
        <3> QED BY <3>1, <2>2 DEF Targets
    <2>5. CASE ~(k <= p) /\ k # p + 1
        <3>1. PICK i : i = k - (p + 1) OBVIOUS
        <3>2. i \in 1..c /\ k = p + 1 + i BY <3>1, <2>5, <1>9
        <3>3. prompt'[k].calls = <<>> BY <3>2, <1>11
        <3>4. DOMAIN <<>> = {} OBVIOUS
        <3> QED BY <3>3, <3>4, <2>1
    <2> QED BY <2>3, <2>4, <2>5
<1>18. Loaded' BY <1>6, <1>17 DEF Loaded
<1> QED BY <1>15, <1>16, <1>18

LEMMA PersistBundles ==
    ASSUME Typed, Phases, BundleInv, PersistHop
    PROVE  BundleInv'
<1>1. /\ turn.mode = "agentic" /\ turn.pc = "persist" /\ Running /\ prompt' = prompt
      /\ turn'.mode = turn.mode /\ turn'.pc \in {"persist", "engine"} /\ turn'.active = turn.active
    BY PersistIs DEF Running, PersistHop
<1>2. Messages(prompt) /\ prompt # <<>> /\ prompt[1] = SystemText BY <1>1 DEF Typed
<1>3. Linked(prompt, 0) /\ Once(prompt, 0) /\ Promoted(prompt) \subseteq turn.active
    BY <1>1 DEF BundleInv, Loaded, Looping
<1>4. PICK m : m = Len(rows) + 1 OBVIOUS
<1>5. PICK list, p : list = rows' /\ p = prompt OBVIOUS
<1>6. m \in Nat /\ DOMAIN list = 1..m /\ m + 1 <= Len(p) /\ \A k \in 1..m : list[k] = p[k + 1]
    <2>1. PICK r, n : r = Len(rows) /\ n = Len(prompt) OBVIOUS
    <2>2. r \in Nat /\ r + 2 \in 1..n BY <2>1, PersistIs
    <2>3. m \in Nat /\ m + 1 <= n BY <2>1, <2>2, <1>4
    <2> QED BY <2>1, <2>3, <1>4, <1>5, PersistIs
<1>7. Linked(list, 1) /\ Once(list, 1) BY <1>2, <1>3, <1>5, <1>6, RowsFromPrompt
<1>8. Fresh' BY <1>1 DEF Fresh
<1>9. Loaded' BY <1>1, <1>3 DEF Loaded
<1> QED BY <1>1, <1>3, <1>5, <1>7, <1>8, <1>9 DEF BundleInv

\* Between turns there is no prompt, and only the rows count.
LEMMA IdleBundles ==
    ASSUME Linked(rows, 1)', Once(rows, 1)', turn'.pc = "idle"
    PROVE  BundleInv'
BY DEF BundleInv, Running, Fresh, Loaded, Looping

LEMMA BundleStep == Typed /\ Phases /\ BundleInv /\ [Next]_vars => BundleInv'
<1> SUFFICES ASSUME Typed, Phases, BundleInv, [Next]_vars PROVE BundleInv' OBVIOUS
<1>1. CASE \E mode \in {"agentic", "twopass"} : StartTurn(mode) BY <1>1, StartBundles
<1>2. CASE \E s \in Spot : Exclude(s)
    <2>1. UNCHANGED <<rows, prompt, turn, calls, out>> BY <1>2 DEF Exclude
    <2> QED BY <2>1 DEF BundleInv, Running, Fresh, Loaded, Looping
<1>3. CASE \E asked \in Asks : \E n \in 0..Len(asked) * (Pieces + 1) : Ask(asked, n)
    BY <1>3, AskBundles
<1>4. CASE \E i \in 1..Len(calls) : ShortCircuit(i) \/ Embed(i) \/ Query(i) \/ Rows(i)
    BY <1>4, ToolBundles
<1>5. CASE HopDone BY <1>5, HopBundles
<1>6. CASE PersistHop BY <1>6, PersistBundles
<1>7. CASE \/ turn.pc = "engine" /\ \E text \in Texts[turn.n], ids \in Blocks : Speak(text, ids)
           \/ \E n \in 1..Len(answer.text) : Token(n)
           \/ TextEnds \/ Finish
    <2>1. \A n \in 1..Len(answer.text) : n \in Nat OBVIOUS
    <2>2. /\ UNCHANGED <<rows, prompt>> /\ turn'.mode = turn.mode
          /\ turn.pc # "idle" /\ turn'.pc \in {"text", "flush", "save"}
        BY <2>1, <1>7, AnswerStep
    <2> QED BY <2>2 DEF BundleInv, Running, Fresh, Loaded, Looping
<1>8. CASE SaveAnswer
    <2>1. turn'.pc = "idle" BY <1>8 DEF SaveAnswer, NewTurn
    <2>2. Messages(rows) /\ Linked(rows, 1) /\ Once(rows, 1) BY DEF Typed, BundleInv
    <2>3. PICK list : list = rows' OBVIOUS
    <2>4. list = rows \/ list = Append(rows, Plain("assistant")) BY <2>3, <1>8, SaveIs
    <2>5. Linked(list, 1) /\ Once(list, 1) BY <2>2, <2>4, PlainCarries
    <2> QED BY <2>1, <2>3, <2>5, IdleBundles
<1>9. CASE Abort
    <2>1. turn'.pc = "idle" /\ rows' = rows BY <1>9 DEF Abort, NewTurn
    <2> QED BY <2>1, IdleBundles DEF BundleInv
<1>10. CASE UNCHANGED vars
    <2>1. UNCHANGED <<rows, prompt, turn, calls, out>> BY <1>10 DEF vars
    <2> QED BY <2>1 DEF BundleInv, Running, Fresh, Loaded, Looping
<1> QED BY <1>1, <1>2, <1>3, <1>4, <1>5, <1>6, <1>7, <1>8, <1>9, <1>10 DEF Next, Calling, Answering

\* The bundle of a spot is stored at most once, whatever hops, turns and crashes it took
\* to ask for it: for any spots, lists of calls, caps and number of turns.
THEOREM BundleStoredOnce == Spec => []BundleOnce
<1>1. Init => BundleInv
    <2> SUFFICES ASSUME Init PROVE BundleInv OBVIOUS
    <2>1. rows = <<>> /\ turn.pc = "idle" BY DEF Init, NewTurn
    <2>2. DOMAIN rows = {} BY <2>1
    <2> QED BY <2>1, <2>2 DEF BundleInv, Linked, Once, Running, Fresh, Loaded, Looping
<1>2. Typed /\ BundleInv => BundleOnce
    <2> SUFFICES ASSUME Typed, BundleInv, NEW j \in DOMAIN rows, NEW k \in DOMAIN rows,
                        rows[j].holds = "bundle", rows[k].holds = "bundle", BundleAt(j) = BundleAt(k)
                 PROVE  j = k
        BY DEF BundleOnce
    <2>1. j >= 1 /\ k >= 1 BY LenProperties DEF Typed, Messages
    <2>2. Bundle(rows, j) /\ Bundle(rows, k) BY <2>1 DEF Typed, Body, Bundle
    <2>3. Asker(rows, 1, j).spot = Asker(rows, 1, k).spot BY DEF BundleAt, Asker
    <2> QED BY <2>2, <2>3 DEF BundleInv, Once
<1> QED BY <1>1, <1>2, TypedInit, TypedStep, BundleStep, PTL DEF Spec

-----------------------------------------------------------------------------
(* The hard stop *)

LEMMA SizeStep == Typed /\ Phases /\ SizeInv /\ [Next]_vars => SizeInv'
<1> SUFFICES ASSUME Typed, Phases, SizeInv, [Next]_vars PROVE SizeInv' OBVIOUS
<1>1. Size(prompt) \in Nat BY UnitsFinite DEF Typed
<1>2. Hard \in Nat /\ HopWeight \in Nat BY AgentLoopAssumption DEF HopWeight
<1>3. turn.hop \in Nat BY DEF Typed, Turn
<1>4. ASSUME UNCHANGED prompt, turn'.mode = turn.mode, turn.pc # "idle", Joined' = Joined
      PROVE  SizeInv'
    BY <1>4 DEF SizeInv, Running
<1>5. CASE \E mode \in {"agentic", "twopass"} : StartTurn(mode)
    <2>1. PICK mode \in {"agentic", "twopass"} : StartTurn(mode) BY <1>5
    <2>2. turn'.mode = mode /\ turn'.pc = "engine" /\ turn'.hop = 0 BY <2>1 DEF StartTurn, NewTurn
    <2>3. mode = "agentic" => Size(prompt') < Hard BY <2>1 DEF StartTurn, Fits
    <2>4. Joined' = 0 /\ 0 * HopWeight = 0 BY <2>2, <1>2 DEF Joined
    <2> QED BY <2>2, <2>3, <2>4, <1>2 DEF SizeInv, Running
<1>6. CASE \E s \in Spot : Exclude(s)
    BY <1>6 DEF Exclude, SizeInv, Running, Joined
<1>7. CASE \E asked \in Asks : \E n \in 0..Len(asked) * (Pieces + 1) : Ask(asked, n)
    <2>1. PICK pc \in {"flush", "tools"} : turn' = [turn EXCEPT !.pc = pc, !.hop = @ + 1]
        BY <1>7, AskedCalls
    <2>2. turn'.pc = pc /\ turn'.mode = turn.mode /\ turn'.hop = turn.hop + 1
        BY <2>1 DEF Typed, Turn
    <2>3. turn.pc = "engine" /\ prompt' = prompt BY <1>7 DEF Ask
    <2>4. Joined = turn.hop /\ Joined' \in {turn.hop, turn.hop + 1}
        BY <2>2, <2>3, <1>3 DEF Joined
    <2>5. Joined * HopWeight <= Joined' * HopWeight
        <3>1. (turn.hop + 1) * HopWeight = turn.hop * HopWeight + HopWeight BY <1>2, <1>3
        <3>2. PICK x \in Nat : x = turn.hop * HopWeight BY <1>2, <1>3
        <3> QED BY <3>1, <3>2, <2>4, <1>2
    <2>6. PICK x, y \in Nat : x = Joined * HopWeight /\ y = Joined' * HopWeight
        BY <2>4, <1>2, <1>3
    <2>7. x <= y BY <2>5, <2>6
    <2> QED BY <2>2, <2>3, <2>6, <2>7, <1>1, <1>2 DEF SizeInv, Running
<1>8. CASE \E i \in 1..Len(calls) : ShortCircuit(i) \/ Embed(i) \/ Query(i) \/ Rows(i)
    <2>1. UNCHANGED <<prompt, turn>> /\ turn.pc = "tools" BY <1>8, ToolStep
    <2> QED BY <2>1, <1>4 DEF Joined
<1>9. CASE HopDone
    <2>1. /\ turn.pc = "tools" /\ turn'.mode = turn.mode /\ turn'.pc # "tools"
          /\ turn'.hop = turn.hop
        BY <1>9 DEF HopDone, Answered, Typed, Turn
    <2>2. Size(prompt') <= Size(prompt) + HopWeight BY <1>9, HopJoins
    <2>3. Size(prompt') \in Nat BY <1>9, HopJoins, UnitsFinite
    <2>4. turn.hop >= 1 /\ Joined = turn.hop - 1 /\ Joined' = turn.hop
        BY <2>1, <1>3 DEF Phases, Joined
    <2>5. turn.hop * HopWeight = (turn.hop - 1) * HopWeight + HopWeight BY <1>2, <1>3
    <2>6. PICK x \in Nat : x = (turn.hop - 1) * HopWeight BY <2>4, <1>2, <1>3
    <2>7. PICK y \in Nat : y = turn.hop * HopWeight BY <1>2, <1>3
    <2>8. Running => Size(prompt) < Hard + x BY <2>4, <2>6 DEF SizeInv
    <2>9. Running => Size(prompt') < Hard + y BY <2>2, <2>3, <2>5, <2>6, <2>7, <2>8, <1>1, <1>2
    <2> QED BY <2>1, <2>4, <2>7, <2>9 DEF SizeInv, Running
<1>10. CASE PersistHop
    <2>1. prompt' = prompt /\ turn.pc = "persist" BY <1>10 DEF PersistHop
    <2>2. turn'.pc # "tools" /\ turn'.mode = turn.mode /\ turn'.hop = turn.hop BY <1>10, PersistIs
    <2> QED BY <2>1, <2>2, <1>4 DEF Joined
<1>11. CASE \/ turn.pc = "engine" /\ \E text \in Texts[turn.n], ids \in Blocks : Speak(text, ids)
            \/ \E n \in 1..Len(answer.text) : Token(n)
            \/ TextEnds \/ Finish
    <2>1. \A n \in 1..Len(answer.text) : n \in Nat OBVIOUS
    <2>2. /\ prompt' = prompt /\ turn'.mode = turn.mode /\ turn'.hop = turn.hop
          /\ turn.pc \in {"engine", "text", "flush"} /\ turn'.pc \in {"text", "flush", "save"}
        BY <2>1, <1>11, AnswerStep
    <2> QED BY <2>2, <1>4 DEF Joined
<1>12. CASE SaveAnswer \/ Abort
    <2>1. turn'.pc = "idle" BY <1>12 DEF SaveAnswer, Abort, NewTurn
    <2> QED BY <2>1 DEF SizeInv, Running
<1>13. CASE UNCHANGED vars
    BY <1>13 DEF vars, SizeInv, Running, Joined
<1> QED BY <1>5, <1>6, <1>7, <1>8, <1>9, <1>10, <1>11, <1>12, <1>13 DEF Next, Calling, Answering

\* A turn that was let in under the hard stop goes over it by no more than its hops may
\* add: the cap on hops times the largest hop, for any caps and sizes.
THEOREM TurnsAreBounded == Spec => []OvershootBounded
<1>1. Init => SizeInv BY DEF Init, NewTurn, SizeInv, Running
<1>2. Typed /\ Phases /\ SizeInv => OvershootBounded
    <2> SUFFICES ASSUME Typed, Phases, SizeInv, turn.mode = "agentic"
                 PROVE  Size(prompt) < Hard + HopCap * HopWeight
        BY DEF OvershootBounded, HopWeight
    <2>1. /\ Hard \in Nat /\ Hard >= 1 /\ HopCap \in Nat /\ HopWeight \in Nat /\ turn.hop \in Nat
        <3>1. Hard \in Nat /\ Hard >= 1 /\ HopCap \in Nat BY AgentLoopAssumption
        <3>2. HopWeight \in Nat BY AgentLoopAssumption DEF HopWeight
        <3>3. turn.hop \in Nat BY <3>1 DEF Typed, Turn
        <3> QED BY <3>1, <3>2, <3>3
    <2>2. Size(prompt) \in Nat BY UnitsFinite DEF Typed
    <2>3. turn.hop <= HopCap BY DEF Phases
    <2>4. Joined <= HopCap /\ Joined \in Nat
        BY <2>1, <2>3 DEF Joined, Phases
    <2>5. PICK n \in Nat : n = Joined /\ n <= HopCap BY <2>4
    <2>6. n * HopWeight <= HopCap * HopWeight BY <2>1, <2>5
    <2>7. PICK x, y \in Nat : x = n * HopWeight /\ y = HopCap * HopWeight BY <2>1, <2>5
    <2>8. CASE turn.pc = "idle"
        <3>1. prompt = <<>> BY <2>8 DEF Typed
        <3>2. \A z : z \in Units(prompt) <=>
                 \E k \in 1..Len(prompt) : \E u \in 1..Weight(prompt[k]) : z = <<k, u>>
            BY UnitsFinite DEF Typed
        <3>3. Len(prompt) = 0 BY <3>1, EmptySeq
        <3>4. Units(prompt) = {} BY <3>2, <3>3
        <3>5. Size(prompt) = 0 BY <3>4, FS_EmptySet DEF Size
        <3> QED BY <3>5, <2>1, <2>7
    <2>9. CASE turn.pc # "idle"
        <3>1. Size(prompt) < Hard + x BY <2>5, <2>7, <2>9 DEF SizeInv, Running
        <3> QED BY <3>1, <2>1, <2>2, <2>6, <2>7
    <2> QED BY <2>8, <2>9
<1> QED BY <1>1, <1>2, TypedInit, TypedStep, SizeStep, PTL DEF Spec

-----------------------------------------------------------------------------
(* Counting up *)

\* A set of numbers that is not empty has a least one.
LEMMA LeastOf ==
    ASSUME NEW T, T \subseteq Nat, T # {}
    PROVE  \E n \in T : \A m \in T : n <= m
<1>1. IsWellFoundedOn(OpToRel(<, Nat), Nat) BY NatLessThanWellFounded, Zenon
<1>2. PICK n \in T : \A m \in T : <<m, n>> \notin OpToRel(<, Nat) BY <1>1, WFMin, Zenon
<1>3. \A m \in T : ~(m < n) BY <1>2 DEF OpToRel
<1> QED BY <1>3

\* What holds at the start and goes on from each number to the next holds up to the last.
LEMMA ByStep ==
    ASSUME NEW n \in Nat, NEW T, 0 \in T, \A k \in 1..n : k - 1 \in T => k \in T
    PROVE  0..n \subseteq T
<1> SUFFICES ASSUME (0..n) \ T # {} PROVE FALSE OBVIOUS
<1>1. PICK k \in (0..n) \ T : \A m \in (0..n) \ T : k <= m
    <2>1. (0..n) \ T \subseteq Nat OBVIOUS
    <2> QED BY <2>1, LeastOf
<1>2. k # 0 /\ k \in 1..n /\ k - 1 \in 0..n /\ ~(k <= k - 1) OBVIOUS
<1>3. k - 1 \in T BY <1>1, <1>2
<1> QED BY <1>2, <1>3

\* f goes through states of S, each the step from the one before
Goes(f, n, S, start, step) ==
    /\ f \in [0..n -> S] /\ f[0] = start
    /\ \A k \in 1..n : f[k] = step[<<f[k - 1], k>>]

\* A recursion along the numbers up to n defines a function.
LEMMA Recursion ==
    ASSUME NEW n \in Nat, NEW S, NEW start \in S, NEW step \in [S \X (1..n) -> S]
    PROVE  \E f : Goes(f, n, S, start, step)
<1> DEFINE T == {k \in 0..n : \E f : Goes(f, k, S, start, step)}
<1>1. 0 \in T
    <2>1. PICK f : f = [j \in 0..0 |-> start] OBVIOUS
    <2>2. Goes(f, 0, S, start, step) BY <2>1 DEF Goes
    <2>3. 0 \in 0..n OBVIOUS
    <2> QED BY <2>2, <2>3
<1>2. ASSUME NEW k \in 1..n, k - 1 \in T PROVE k \in T
    <2>1. PICK f : Goes(f, k - 1, S, start, step) BY <1>2
    <2>2. PICK g : g = [j \in 0..k |-> IF j = k THEN step[<<f[k - 1], k>>] ELSE f[j]] OBVIOUS
    <2>3. k \in 0..n /\ k - 1 \in 0..k - 1 /\ 0 \in 0..k - 1 /\ 0 \in 0..k /\ 0 # k OBVIOUS
    <2>4. f[k - 1] \in S /\ step[<<f[k - 1], k>>] \in S BY <2>1, <2>3 DEF Goes
    <2>5. \A j \in 0..k : j # k => j \in 0..k - 1 OBVIOUS
    <2>6. \A j \in 0..k : g[j] \in S BY <2>1, <2>2, <2>4, <2>5 DEF Goes
    <2>7. g \in [0..k -> S] BY <2>2, <2>6
    <2>8. g[0] = start BY <2>1, <2>2, <2>3 DEF Goes
    <2>9. ASSUME NEW j \in 1..k PROVE g[j] = step[<<g[j - 1], j>>]
        <3>0. j - 1 \in 0..k /\ j - 1 # k /\ j \in 0..k OBVIOUS
        <3>1. g[j - 1] = f[j - 1] BY <3>0, <2>2
        <3>2. CASE j = k BY <2>2, <3>0, <3>1, <3>2
        <3>3. CASE j # k
            <4>1. j \in 1..k - 1 /\ j \in 0..k BY <3>3
            <4> QED BY <2>1, <2>2, <3>1, <3>3, <4>1 DEF Goes
        <3> QED BY <3>2, <3>3
    <2>10. Goes(g, k, S, start, step) BY <2>7, <2>8, <2>9 DEF Goes
    <2> QED BY <2>3, <2>10
<1>3. 0..n \subseteq T
    <2> HIDE DEF T
    <2> QED BY <1>1, <1>2, ByStep
<1>4. n \in 0..n OBVIOUS
<1>5. n \in T BY <1>3, <1>4
<1> QED BY <1>5

-----------------------------------------------------------------------------
(* Calls and their results *)

\* each result names a call made before it, and results stand in the order of their calls
Precedes(a, b) == a[1] < b[1] \/ (a[1] = b[1] /\ a[2] < b[2])

Named(list, gap) ==
    \A k \in DOMAIN list : Result(list, k) =>
        /\ list[k].of \in Nat \X Nat /\ list[k].calls = <<>>
        /\ list[k].of[1] - gap \in 1..k - 1
        /\ list[k].of[2] \in DOMAIN list[list[k].of[1] - gap].calls

Ordered(list) ==
    \A j, k \in DOMAIN list : j < k /\ Result(list, j) /\ Result(list, k) => Precedes(list[j].of, list[k].of)

Paired == [free : Seq(Nat \X Nat), paired : SUBSET (Nat \X (Nat \X Nat))]

LEMMA PairNextTyped ==
    ASSUME NEW acc \in Paired, NEW k \in Nat, NEW m \in Row
    PROVE  PairNext(acc, k, m) \in Paired
<1>1. m.calls \in Seq(Call) BY DEF Row
<1>2. PICK c : c = [j \in DOMAIN m.calls |-> <<k, j>>] OBVIOUS
<1>3. c \in Seq(Nat \X Nat)
    <2>1. PICK n \in Nat : DOMAIN m.calls = 1..n BY <1>1, LenProperties
    <2>2. c \in [1..n -> Nat \X Nat] BY <2>1, <1>2
    <2> QED BY <2>2
<1>4. acc.free \in Seq(Nat \X Nat) /\ acc.paired \in SUBSET (Nat \X (Nat \X Nat)) BY DEF Paired
<1>5. CASE m.role # "tool"
    <2>1. PairNext(acc, k, m) = [acc EXCEPT !.free = @ \o c] BY <1>2, <1>5 DEF PairNext
    <2>2. acc.free \o c \in Seq(Nat \X Nat) BY <1>3, <1>4, ConcatProperties
    <2>3. PICK d \in Seq(Nat \X Nat) : d = acc.free \o c BY <2>2
    <2>4. PairNext(acc, k, m) = [acc EXCEPT !.free = d] BY <2>1, <2>3
    <2> QED BY <2>4 DEF Paired
<1>6. CASE m.role = "tool" /\ acc.free = <<>> BY <1>6 DEF PairNext
<1>7. CASE m.role = "tool" /\ acc.free # <<>>
    <2>1. Head(acc.free) \in Nat \X Nat /\ Tail(acc.free) \in Seq(Nat \X Nat)
        BY <1>4, <1>7, HeadTailProperties
    <2>2. PairNext(acc, k, m) = [free |-> Tail(acc.free), paired |-> acc.paired \cup {<<k, Head(acc.free)>>}]
        BY <1>7 DEF PairNext
    <2>3. acc.paired \cup {<<k, Head(acc.free)>>} \in SUBSET (Nat \X (Nat \X Nat)) BY <2>1, <1>4
    <2> QED BY <2>1, <2>2, <2>3 DEF Paired
<1> QED BY <1>5, <1>6, <1>7

LEMMA PairedUpToIs ==
    ASSUME NEW list \in Seq(Row)
    PROVE  /\ PairedUpTo(list)[0] = [free |-> <<>>, paired |-> {}]
           /\ \A k \in 1..Len(list) : PairedUpTo(list)[k] = PairNext(PairedUpTo(list)[k - 1], k, list[k])
<1> DEFINE n == Len(list)
           none == [free |-> <<>>, paired |-> {}]
           Def(f) == [k \in 0..n |-> IF k = 0 THEN none ELSE PairNext(f[k - 1], k, list[k])]
           step == [x \in Paired \X (1..n) |-> PairNext(x[1], x[2], list[x[2]])]
<1>1. n \in Nat /\ DOMAIN list = 1..n BY LenProperties
<1>2. \A k \in 1..n : list[k] \in Row BY <1>1, ElementOfSeq
<1>3. none \in Paired BY EmptySeq DEF Paired
<1>4. \A x \in Paired \X (1..n) : PairNext(x[1], x[2], list[x[2]]) \in Paired
    BY <1>1, <1>2, PairNextTyped
<1>5. step \in [Paired \X (1..n) -> Paired] BY <1>4
<1>6. PICK f : Goes(f, n, Paired, none, step)
    <2> HIDE DEF step, none, n
    <2> QED BY <1>1, <1>3, <1>5, Recursion, Zenon
<1>7. f = Def(f)
    <2>1. ASSUME NEW k \in 0..n PROVE f[k] = IF k = 0 THEN none ELSE PairNext(f[k - 1], k, list[k])
        <3>1. CASE k = 0 BY <3>1, <1>6 DEF Goes
        <3>2. CASE k # 0
            <4>1. k \in 1..n /\ k - 1 \in 0..n BY <3>2
            <4>2. f[k - 1] \in Paired /\ <<f[k - 1], k>> \in Paired \X (1..n) BY <4>1, <1>6 DEF Goes
            <4>3. step[<<f[k - 1], k>>] = PairNext(f[k - 1], k, list[k]) BY <4>2
            <4> QED BY <4>1, <4>3, <3>2, <1>6 DEF Goes
        <3> QED BY <3>1, <3>2
    <2> QED BY <1>6, <2>1 DEF Goes
<1>8. PICK g : g = CHOOSE h : h = Def(h) OBVIOUS
<1>9. g = Def(g) BY <1>7, <1>8, Zenon
<1>10. PairedUpTo(list) = g BY <1>8, Zenon DEF PairedUpTo
<1>11. g[0] = none BY <1>1, <1>9
<1>12. ASSUME NEW k \in 1..n PROVE g[k] = PairNext(g[k - 1], k, list[k])
    <2>1. k \in 0..n /\ k # 0 BY <1>1
    <2> QED BY <2>1, <1>9
<1> QED BY <1>10, <1>11, <1>12

\* the ids still free after the first k messages: in the order of the calls, and those of
\* the calls made so far that no result names so far
Waiting(list, k, free) ==
    /\ free \in Seq(Nat \X Nat)
    /\ \A i, j \in 1..Len(free) : i < j => Precedes(free[i], free[j])
    /\ \A i \in 1..Len(free) :
          free[i] \in CallIds(list) /\ free[i][1] <= k /\ \A t \in 1..k : Result(list, t) => list[t].of # free[i]
    /\ \A x \in CallIds(list) : x[1] <= k /\ (\A t \in 1..k : Result(list, t) => list[t].of # x) =>
          \E i \in 1..Len(free) : free[i] = x

LEMMA CallIdsAre ==
    ASSUME NEW list \in Seq(Row)
    PROVE  \A x : x \in CallIds(list) <=> \E k \in 1..Len(list) : \E i \in DOMAIN list[k].calls : x = <<k, i>>
<1>1. DOMAIN list = 1..Len(list) BY LenProperties
<1> QED BY <1>1 DEF CallIds

\* A message that is no result puts the ids of its calls behind those that wait.
LEMMA CallsWait ==
    ASSUME NEW list \in Seq(Row), NEW k \in 1..Len(list), ~Result(list, k), Named(list, 0),
           NEW free, Waiting(list, k - 1, free)
    PROVE  Waiting(list, k, free \o [j \in DOMAIN list[k].calls |-> <<k, j>>])
<1>1. k \in Nat /\ k \in DOMAIN list /\ list[k] \in Row BY LenProperties, ElementOfSeq
<1>2. list[k].calls \in Seq(Call) BY <1>1 DEF Row
<1>3. PICK n \in Nat : DOMAIN list[k].calls = 1..n BY <1>2, LenProperties
<1>4. PICK c : c = [j \in DOMAIN list[k].calls |-> <<k, j>>] OBVIOUS
<1>5. c \in Seq(Nat \X Nat) /\ Len(c) = n /\ \A j \in 1..n : c[j] = <<k, j>>
    <2>1. c \in [1..n -> Nat \X Nat] BY <1>1, <1>3, <1>4
    <2> QED BY <2>1, <1>3, <1>4
<1>6. free \in Seq(Nat \X Nat) BY DEF Waiting
<1>7. PICK m \in Nat : m = Len(free) BY <1>6, LenProperties
<1>8. PICK all : all = free \o c OBVIOUS
<1>9. /\ all \in Seq(Nat \X Nat) /\ Len(all) = m + n
      /\ \A i \in 1..m + n : all[i] = IF i <= m THEN free[i] ELSE c[i - m]
    BY <1>5, <1>6, <1>7, <1>8, ConcatProperties
<1>10. ASSUME NEW i \in 1..m + n
       PROVE  \/ i \in 1..m /\ all[i] = free[i] /\ free[i][1] <= k - 1 /\ free[i] \in Nat \X Nat
              \/ \E j \in 1..n : i = m + j /\ all[i] = <<k, j>>
    <2>1. CASE i <= m
        <3>1. i \in 1..m BY <2>1
        <3>2. free[i] \in Nat \X Nat BY <3>1, <1>6, <1>7, ElementOfSeq
        <3> QED BY <3>1, <3>2, <2>1, <1>7, <1>9 DEF Waiting
    <2>2. CASE ~(i <= m)
        <3>1. i - m \in 1..n /\ i = m + (i - m) BY <2>2
        <3>2. all[i] = <<k, i - m>> BY <3>1, <2>2, <1>5, <1>9
        <3> QED BY <3>1, <3>2
    <2> QED BY <2>1, <2>2
<1>11. ASSUME NEW i \in 1..m + n, NEW j \in 1..m + n, i < j PROVE Precedes(all[i], all[j])
    <2>1. CASE i \in 1..m /\ j \in 1..m BY <2>1, <1>7, <1>9, <1>11 DEF Waiting
    <2>2. CASE i \in 1..m /\ j \notin 1..m
        <3>1. all[i][1] <= k - 1 /\ all[i] \in Nat \X Nat BY <2>2, <1>10
        <3>2. all[j][1] = k BY <2>2, <1>10
        <3> QED BY <3>1, <3>2, <1>1 DEF Precedes
    <2>3. CASE i \notin 1..m
        <3>1. PICK x \in 1..n : i = m + x /\ all[i] = <<k, x>> BY <2>3, <1>10
        <3>2. j \notin 1..m BY <2>3, <1>11
        <3>3. PICK y \in 1..n : j = m + y /\ all[j] = <<k, y>> BY <3>2, <1>10
        <3>4. x < y BY <3>1, <3>3, <1>11
        <3> QED BY <3>1, <3>3, <3>4 DEF Precedes
    <2> QED BY <2>1, <2>2, <2>3
<1>12. \A x \in CallIds(list), t \in 1..k : (\A s \in 1..k - 1 : Result(list, s) => list[s].of # x) =>
          (Result(list, t) => list[t].of # x)
    <2>1. \A t \in 1..k : t = k \/ t \in 1..k - 1 BY <1>1
    <2> QED BY <2>1
<1>13. ASSUME NEW i \in 1..m + n
       PROVE  all[i] \in CallIds(list) /\ all[i][1] <= k /\ \A t \in 1..k : Result(list, t) => list[t].of # all[i]
    <2>1. CASE i \in 1..m
        <3>1. all[i] = free[i] /\ free[i][1] <= k - 1 /\ free[i] \in Nat \X Nat BY <2>1, <1>10
        <3>2. free[i] \in CallIds(list) /\ \A t \in 1..k - 1 : Result(list, t) => list[t].of # free[i]
            BY <2>1, <1>7 DEF Waiting
        <3> QED BY <3>1, <3>2, <1>1, <1>12
    <2>2. CASE i \notin 1..m
        <3>1. PICK j \in 1..n : all[i] = <<k, j>> BY <2>2, <1>10
        <3>2. all[i] \in CallIds(list) BY <3>1, <1>3, CallIdsAre
        <3>3. ASSUME NEW t \in 1..k, Result(list, t) PROVE list[t].of[1] # k
            <4>1. t \in DOMAIN list BY LenProperties
            <4>2. PICK y \in Nat, z \in Nat : list[t].of = <<y, z>> BY <4>1, <3>3 DEF Named
            <4>3. y - 0 \in 1..t - 1 BY <4>1, <4>2, <3>3 DEF Named
            <4> QED BY <4>2, <4>3, <1>1
        <3> QED BY <3>1, <3>2, <3>3, <1>1
    <2> QED BY <2>1, <2>2
<1>14. ASSUME NEW x \in CallIds(list), x[1] <= k, \A t \in 1..k : Result(list, t) => list[t].of # x
       PROVE  \E i \in 1..m + n : all[i] = x
    <2>0. PICK a \in 1..Len(list) : \E b \in DOMAIN list[a].calls : x = <<a, b>> BY CallIdsAre
    <2>1. PICK b \in DOMAIN list[a].calls : x = <<a, b>> BY <2>0
    <2>2. CASE a = k
        <3>1. b \in 1..n BY <2>1, <2>2, <1>3
        <3>0. PICK i : i = m + b OBVIOUS
        <3>2. i \in 1..m + n /\ ~(i <= m) /\ i - m = b BY <3>0, <3>1
        <3>3. all[i] = <<k, b>> BY <3>1, <3>2, <1>5, <1>9
        <3> QED BY <3>2, <3>3, <2>1, <2>2
    <2>3. CASE a # k
        <3>1. x[1] <= k - 1 BY <2>1, <2>3, <1>14, <1>1
        <3>2. \A t \in 1..k - 1 : t \in 1..k BY <1>1
        <3>3. PICK i \in 1..m : free[i] = x BY <3>1, <3>2, <1>7, <1>14 DEF Waiting
        <3>4. i \in 1..m + n /\ i <= m BY <3>3
        <3> QED BY <3>3, <3>4, <1>9
    <2> QED BY <2>2, <2>3
<1> QED BY <1>4, <1>8, <1>9, <1>11, <1>13, <1>14 DEF Waiting

\* A result whose call waits, and before which no other call is left unanswered for good,
\* takes the id that waits first: its own.
LEMMA ResultTakesFirst ==
    ASSUME NEW list \in Seq(Row), NEW k \in 1..Len(list), Result(list, k), Named(list, 0), Ordered(list),
           \A x \in CallIds(list) : \E t \in DOMAIN list : Result(list, t) /\ list[t].of = x,
           NEW free, Waiting(list, k - 1, free)
    PROVE  free # <<>> /\ Head(free) = list[k].of /\ Waiting(list, k, Tail(free))
<1>1. k \in Nat /\ DOMAIN list = 1..Len(list) /\ Len(list) \in Nat BY LenProperties
<1>2. PICK y \in Nat, z \in Nat : list[k].of = <<y, z>> BY <1>1 DEF Named
<1>3. y \in 1..k - 1 /\ z \in DOMAIN list[y].calls
    <2>1. y - 0 \in 1..k - 1 /\ z \in DOMAIN list[y - 0].calls /\ y - 0 = y BY <1>1, <1>2 DEF Named
    <2> QED BY <2>1
<1>4. list[k].of \in CallIds(list) /\ list[k].of[1] <= k - 1
    <2>1. y \in 1..Len(list) BY <1>1, <1>3
    <2> QED BY <2>1, <1>1, <1>2, <1>3, CallIdsAre
<1>5. ASSUME NEW s \in DOMAIN list, NEW t \in DOMAIN list, s < t, Result(list, s), Result(list, t)
      PROVE  Precedes(list[s].of, list[t].of) /\ ~Precedes(list[t].of, list[s].of) /\ list[s].of # list[t].of
    <2>1. list[s].of \in Nat \X Nat /\ list[t].of \in Nat \X Nat BY <1>5 DEF Named
    <2>2. Precedes(list[s].of, list[t].of) BY <1>5 DEF Ordered
    <2> QED BY <2>1, <2>2 DEF Precedes
<1>6. \A t \in 1..k - 1 : Result(list, t) => list[t].of # list[k].of
    <2>1. \A t \in 1..k - 1 : t \in DOMAIN list /\ t < k BY <1>1
    <2> QED BY <2>1, <1>1, <1>5
<1>7. free \in Seq(Nat \X Nat) BY DEF Waiting
<1>8. PICK m \in Nat : m = Len(free) BY <1>7, LenProperties
<1>9. PICK i \in 1..m : free[i] = list[k].of BY <1>4, <1>6, <1>8 DEF Waiting
<1>10. 1 \in 1..m /\ free # <<>> BY <1>8, <1>9, EmptySeq
<1>11. free[1] = list[k].of
    <2> SUFFICES ASSUME free[1] # list[k].of PROVE FALSE OBVIOUS
    <2>1. 1 < i BY <1>9
    <2>2. Precedes(free[1], list[k].of) BY <2>1, <1>8, <1>9, <1>10 DEF Waiting
    <2>3. /\ free[1] \in CallIds(list)
          /\ \A t \in 1..k - 1 : Result(list, t) => list[t].of # free[1]
        BY <1>8, <1>10 DEF Waiting
    <2>4. PICK t \in DOMAIN list : Result(list, t) /\ list[t].of = free[1] BY <2>3
    <2>5. t \notin 1..k - 1 /\ t # k BY <2>3, <2>4
    <2>6. k < t BY <2>5, <1>1
    <2> QED BY <2>2, <2>4, <2>6, <1>1, <1>5
<1>12. PICK rest : rest = Tail(free) OBVIOUS
<1>13. /\ Head(free) = free[1] /\ rest \in Seq(Nat \X Nat) /\ Len(rest) = m - 1
       /\ \A j \in 1..m - 1 : rest[j] = free[j + 1]
    BY <1>7, <1>8, <1>10, <1>12, HeadTailProperties
<1>14. ASSUME NEW j \in 1..m - 1
       PROVE  /\ j + 1 \in 1..m /\ free[1] # free[j + 1]
    <2>1. j + 1 \in 1..m /\ 1 < j + 1 OBVIOUS
    <2>2. Precedes(free[1], free[j + 1]) BY <2>1, <1>8, <1>10 DEF Waiting
    <2>3. free[1] \in Nat \X Nat BY <1>7, <1>8, <1>10, ElementOfSeq
    <2> QED BY <2>1, <2>2, <2>3 DEF Precedes
<1>15. \A t \in 1..k : t = k \/ t \in 1..k - 1 BY <1>1
<1>16. ASSUME NEW h \in 1..m - 1, NEW j \in 1..m - 1, h < j PROVE Precedes(rest[h], rest[j])
    <2>1. h + 1 \in 1..m /\ j + 1 \in 1..m /\ h + 1 < j + 1 BY <1>16
    <2>2. Precedes(free[h + 1], free[j + 1]) BY <2>1, <1>8 DEF Waiting
    <2> QED BY <2>2, <1>13
<1>17. ASSUME NEW j \in 1..m - 1
       PROVE  /\ rest[j] \in CallIds(list) /\ rest[j][1] <= k
              /\ \A t \in 1..k : Result(list, t) => list[t].of # rest[j]
    <2>1. rest[j] = free[j + 1] BY <1>13
    <2>2. j + 1 \in 1..m /\ free[j + 1] # list[k].of BY <1>11, <1>14
    <2>3. /\ free[j + 1] \in CallIds(list) /\ free[j + 1][1] <= k - 1
          /\ \A t \in 1..k - 1 : Result(list, t) => list[t].of # free[j + 1]
        BY <2>2, <1>8 DEF Waiting
    <2>4. free[j + 1] \in Nat \X Nat BY <2>2, <1>7, <1>8, ElementOfSeq
    <2>5. free[j + 1][1] <= k BY <2>3, <2>4, <1>1
    <2> QED BY <2>1, <2>2, <2>3, <2>5, <1>15
<1>18. ASSUME NEW x \in CallIds(list), x[1] <= k, \A t \in 1..k : Result(list, t) => list[t].of # x
       PROVE  \E j \in 1..m - 1 : rest[j] = x
    <2>0. PICK a \in 1..Len(list) : \E b \in DOMAIN list[a].calls : x = <<a, b>> BY CallIdsAre
    <2>1. PICK b \in DOMAIN list[a].calls : x = <<a, b>> BY <2>0
    <2>2. a # k
        <3>1. list[k].calls = <<>> BY <1>1 DEF Named
        <3>2. DOMAIN <<>> = {} OBVIOUS
        <3> QED BY <3>1, <3>2, <2>1
    <2>3. x[1] <= k - 1 BY <2>1, <2>2, <1>1, <1>18
    <2>4. \A t \in 1..k - 1 : t \in 1..k BY <1>1
    <2>5. PICK j \in 1..m : free[j] = x BY <2>3, <2>4, <1>8, <1>18 DEF Waiting
    <2>6. k \in 1..k BY <1>1
    <2>7. j # 1 BY <2>5, <2>6, <1>11, <1>18
    <2>8. PICK h : h = j - 1 OBVIOUS
    <2>9. h \in 1..m - 1 /\ h + 1 = j BY <2>7, <2>8
    <2> QED BY <2>5, <2>9, <1>13
<1>19. Waiting(list, k, rest) BY <1>13, <1>16, <1>17, <1>18 DEF Waiting
<1> QED BY <1>10, <1>11, <1>12, <1>13, <1>19

\* While every call has its result, and results stand in the order of their calls, each
\* result is paired with its own call.
LEMMA PairsAreTrue ==
    ASSUME NEW list \in Seq(Row), Named(list, 0), Ordered(list),
           \A x \in CallIds(list) : \E t \in DOMAIN list : Result(list, t) /\ list[t].of = x
    PROVE  \A pair \in Pairing(list) : list[pair[1]].of = pair[2]
<1> DEFINE up == PairedUpTo(list)
           T == {k \in 0..Len(list) :
                    /\ up[k] \in Paired /\ Waiting(list, k, up[k].free)
                    /\ \A pair \in up[k].paired : list[pair[1]].of = pair[2]}
<1>1. Len(list) \in Nat BY LenProperties
<1>2. /\ up[0] = [free |-> <<>>, paired |-> {}]
      /\ \A k \in 1..Len(list) : up[k] = PairNext(up[k - 1], k, list[k])
    BY PairedUpToIs
<1>3. 0 \in T
    <2>1. up[0].free = <<>> /\ up[0].paired = {} BY <1>2
    <2>2. <<>> \in Seq(Nat \X Nat) /\ Len(<<>>) = 0 BY EmptySeq
    <2>3. \A x \in CallIds(list) : ~(x[1] <= 0) BY CallIdsAre
    <2>4. Waiting(list, 0, <<>>) BY <2>2, <2>3 DEF Waiting
    <2>5. up[0] \in Paired BY <2>2, <1>2 DEF Paired
    <2> QED BY <2>1, <2>4, <2>5, <1>1
<1>4. ASSUME NEW k \in 1..Len(list), k - 1 \in T PROVE k \in T
    <2>1. PICK acc : acc = up[k - 1] OBVIOUS
    <2>2. /\ acc \in Paired /\ Waiting(list, k - 1, acc.free)
          /\ \A pair \in acc.paired : list[pair[1]].of = pair[2]
        BY <2>1, <1>4
    <2>3. up[k] = PairNext(acc, k, list[k]) BY <2>1, <1>2
    <2>7. up[k] \in Paired
        <3>1. list[k] \in Row /\ k \in Nat BY ElementOfSeq
        <3> QED BY <2>2, <2>3, <3>1, PairNextTyped
    <2>4. k \in 0..Len(list) BY <1>1
    <2>5. CASE ~Result(list, k)
        <3>1. PICK c : c = [j \in DOMAIN list[k].calls |-> <<k, j>>] OBVIOUS
        <3>2. Waiting(list, k, acc.free \o c) BY <2>2, <2>5, <3>1, CallsWait
        <3>3. up[k] = [acc EXCEPT !.free = @ \o c] BY <2>3, <2>5, <3>1 DEF PairNext, Result
        <3>4. up[k].free = acc.free \o c /\ up[k].paired = acc.paired
            <4>1. PICK d : d = acc.free \o c OBVIOUS
            <4>2. up[k] = [acc EXCEPT !.free = d] BY <3>3, <4>1
            <4> QED BY <2>2, <4>1, <4>2 DEF Paired
        <3> QED BY <2>2, <2>4, <2>7, <3>2, <3>4
    <2>6. CASE Result(list, k)
        <3>1. acc.free # <<>> /\ Head(acc.free) = list[k].of /\ Waiting(list, k, Tail(acc.free))
            BY <2>2, <2>6, ResultTakesFirst
        <3>2. up[k] = [free |-> Tail(acc.free), paired |-> acc.paired \cup {<<k, Head(acc.free)>>}]
            BY <2>3, <2>6, <3>1 DEF PairNext, Result
        <3>3. up[k].free = Tail(acc.free) /\ up[k].paired = acc.paired \cup {<<k, list[k].of>>}
            BY <3>1, <3>2
        <3>4. \A pair \in up[k].paired : list[pair[1]].of = pair[2] BY <2>2, <3>3
        <3> QED BY <2>4, <2>7, <3>1, <3>3, <3>4
    <2> QED BY <2>5, <2>6
<1>5. 0..Len(list) \subseteq T
    <2> HIDE DEF T
    <2> QED BY <1>1, <1>3, <1>4, ByStep
<1>6. Len(list) \in T BY <1>1, <1>5
<1> QED BY <1>6 DEF Pairing

\* As many results as calls: then every call has its result.
LEMMA NoneDangles ==
    ASSUME NEW list, Messages(list), Named(list, 0), Ordered(list),
           Cardinality(CallIds(list)) = Cardinality(Results(list))
    PROVE  \A x \in CallIds(list) : \E t \in DOMAIN list : Result(list, t) /\ list[t].of = x
<1>1. list \in Seq(Row) BY DEF Messages
<1>2. PICK n \in Nat : n = Len(list) /\ DOMAIN list = 1..n BY <1>1, LenProperties
<1>3. IsFiniteSet(CallIds(list))
    <2>1. MaxToolCalls \in Nat BY AgentLoopAssumption
    <2>2. IsFiniteSet(1..n) /\ IsFiniteSet(1..MaxToolCalls) BY <2>1, UpTo
    <2>3. IsFiniteSet((1..n) \X (1..MaxToolCalls)) BY <2>2, FS_Product
    <2>4. ASSUME NEW k \in 1..n PROVE DOMAIN list[k].calls \subseteq 1..MaxToolCalls
        <3>0. list[k] \in Row BY <1>1, <1>2, ElementOfSeq
        <3>1. list[k].calls \in Seq(Call) BY <3>0 DEF Row
        <3>2. Len(list[k].calls) \in Nat /\ DOMAIN list[k].calls = 1..Len(list[k].calls) BY <3>1, LenProperties
        <3>3. Len(list[k].calls) <= MaxToolCalls BY <1>2 DEF Messages
        <3> QED BY <3>2, <3>3, <2>1
    <2>5. CallIds(list) \in SUBSET ((1..n) \X (1..MaxToolCalls)) BY <1>2, <2>4 DEF CallIds
    <2> QED BY <2>3, <2>5, FS_Subset
<1>4. IsFiniteSet(Results(list))
    <2>1. IsFiniteSet(1..n) BY UpTo
    <2>2. Results(list) \in SUBSET (1..n) BY <1>2 DEF Results
    <2> QED BY <2>1, <2>2, FS_Subset
<1>5. \A t : t \in Results(list) <=> t \in DOMAIN list /\ Result(list, t) BY DEF Results, Result
<1>6. PICK f : f = [t \in Results(list) |-> list[t].of] OBVIOUS
<1>7. ASSUME NEW t \in Results(list) PROVE f[t] \in CallIds(list) /\ f[t] \in Nat \X Nat
    <2>1. t \in DOMAIN list /\ Result(list, t) BY <1>5
    <2>2. PICK y \in Nat, z \in Nat : list[t].of = <<y, z>> BY <2>1 DEF Named
    <2>3. y - 0 \in 1..t - 1 /\ z \in DOMAIN list[y - 0].calls /\ y - 0 = y BY <2>1, <2>2 DEF Named
    <2>4. y \in 1..n /\ z \in DOMAIN list[y].calls BY <2>1, <2>3, <1>2
    <2>5. <<y, z>> \in CallIds(list) BY <2>4, <1>1, <1>2, CallIdsAre
    <2> QED BY <2>2, <2>5, <1>6
<1>8. ASSUME NEW s \in Results(list), NEW t \in Results(list), f[s] = f[t] PROVE s = t
    <2>1. \A a, b \in DOMAIN list : a < b /\ Result(list, a) /\ Result(list, b) => Precedes(list[a].of, list[b].of)
        BY DEF Ordered
    <2>2. ~Precedes(f[s], f[t]) /\ ~Precedes(f[t], f[s]) BY <1>7, <1>8 DEF Precedes
    <2>3. ~(s < t) /\ ~(t < s) BY <2>1, <2>2, <1>5, <1>6
    <2>4. s \in Nat /\ t \in Nat BY <1>2, <1>5
    <2> QED BY <2>3, <2>4
<1>9. f \in Injection(Results(list), CallIds(list)) BY <1>6, <1>7, <1>8 DEF Injection, IsInjective
<1>10. f \in Surjection(Results(list), CallIds(list)) BY <1>3, <1>4, <1>9, FS_Injection
<1>11. \A x \in CallIds(list) : \E t \in Results(list) : f[t] = x BY <1>10 DEF Surjection
<1> QED BY <1>5, <1>6, <1>11

-----------------------------------------------------------------------------
(* Every list of the loop names its calls *)

LEMMA NamesCarried ==
    ASSUME NEW a, NEW b, NEW ga \in Nat, NEW gb \in Nat, Named(a, ga), Ordered(a),
           DOMAIN a \subseteq Nat, DOMAIN b \subseteq Nat, Takes(b, gb, a, ga)
    PROVE  Named(b, gb) /\ Ordered(b)
<1>1. ASSUME NEW k \in DOMAIN b, Result(b, k)
      PROVE  /\ k + gb - ga \in DOMAIN a /\ Result(a, k + gb - ga) /\ b[k] = a[k + gb - ga]
             /\ b[k].of \in Nat \X Nat /\ b[k].calls = <<>>
             /\ b[k].of[1] - gb \in 1..k - 1 /\ b[k].of[2] \in DOMAIN b[b[k].of[1] - gb].calls
    <2>1. PICK l : l = k + gb - ga OBVIOUS
    <2>2. k \in Nat OBVIOUS
    <2>3. l \in DOMAIN a /\ b[k] = a[l] BY <1>1, <2>1 DEF Takes
    <2>4. Result(a, l) BY <1>1, <2>3 DEF Result
    <2>5. PICK x \in Nat, y \in Nat : b[k].of = <<x, y>> BY <2>3, <2>4 DEF Named
    <2>6. PICK q : q = x - ga OBVIOUS
    <2>7. q \in 1..l - 1 /\ y \in DOMAIN a[q].calls /\ b[k].calls = <<>>
        BY <2>3, <2>4, <2>5, <2>6 DEF Named
    <2>8. q + ga - gb \in 1..k - 1 /\ b[q + ga - gb] = a[q] BY <1>1, <2>1, <2>7 DEF Takes
    <2>9. q + ga - gb = x - gb BY <2>5, <2>6
    <2>10. b[k].of[1] = x /\ b[k].of[2] = y /\ b[k].of \in Nat \X Nat BY <2>5
    <2> QED BY <2>1, <2>3, <2>4, <2>7, <2>8, <2>9, <2>10
<1>2. Named(b, gb) BY <1>1 DEF Named
<1>3. Ordered(b)
    <2> SUFFICES ASSUME NEW j \in DOMAIN b, NEW k \in DOMAIN b, j < k, Result(b, j), Result(b, k)
                 PROVE  Precedes(b[j].of, b[k].of)
        BY DEF Ordered
    <2>1. PICK x, y : x = j + gb - ga /\ y = k + gb - ga OBVIOUS
    <2>2. x < y BY <2>1
    <2>3. x \in DOMAIN a /\ y \in DOMAIN a /\ Result(a, x) /\ Result(a, y) BY <2>1, <1>1
    <2>4. Precedes(a[x].of, a[y].of) BY <2>2, <2>3 DEF Ordered
    <2>5. b[j] = a[x] /\ b[k] = a[y] BY <2>1, <1>1
    <2> QED BY <2>4, <2>5
<1> QED BY <1>2, <1>3

PairInv ==
    /\ Named(rows, 1) /\ Ordered(rows)
    /\ Named(prompt, 0) /\ Ordered(prompt)

LEMMA NothingNamed ==
    ASSUME NEW gap
    PROVE  Named(<<>>, gap) /\ Ordered(<<>>)
<1>1. DOMAIN <<>> = {} OBVIOUS
<1> QED BY <1>1 DEF Named, Ordered

LEMMA PlainNames ==
    ASSUME Messages(rows), Named(rows, 1), Ordered(rows), NEW r \in {"user", "assistant"},
           NEW list, list = Append(rows, Plain(r))
    PROVE  Named(list, 1) /\ Ordered(list)
<1>1. list \in Seq(Row)
    <2>1. rows \in Seq(Row) /\ Plain(r) \in Row BY PlainIsRow DEF Messages
    <2> QED BY <2>1, AppendProperties
<1>2. DOMAIN rows \subseteq Nat /\ DOMAIN list \subseteq Nat BY <1>1, LenProperties DEF Messages
<1>3. 1 \in Nat OBVIOUS
<1>4. Takes(list, 1, rows, 1) BY PlainTakes
<1> QED BY ONLY <1>2, <1>3, <1>4, Named(rows, 1), Ordered(rows), NamesCarried

LEMMA SendingNames ==
    ASSUME Messages(rows), Named(rows, 1), Ordered(rows)
    PROVE  Named(Sending, 0) /\ Ordered(Sending)
<1>1. PICK s : s = Sending OBVIOUS
<1>2. DOMAIN rows = 1..Len(rows) /\ DOMAIN s = 1..Len(rows) + 2 /\ Len(rows) \in Nat BY <1>1, SendingIs
<1>3. DOMAIN rows \subseteq Nat /\ DOMAIN s \subseteq Nat BY <1>2
<1>4. 0 \in Nat /\ 1 \in Nat OBVIOUS
<1>5. Takes(s, 0, rows, 1) BY <1>1, SendingTakes
<1>6. Named(s, 0) /\ Ordered(s)
    BY ONLY <1>3, <1>4, <1>5, Named(rows, 1), Ordered(rows), NamesCarried
<1> QED BY <1>1, <1>6

\* The results of a hop name its calls in their order, and its calls are the last.
LEMMA HopNames ==
    ASSUME Typed, HopDone, Named(prompt, 0), Ordered(prompt)
    PROVE  Named(prompt', 0) /\ Ordered(prompt')
<1>1. PICK p, c : p = Len(prompt) /\ c = Len(calls) OBVIOUS
<1>2. /\ p \in Nat /\ c \in Nat
      /\ DOMAIN prompt = 1..p /\ DOMAIN prompt' = 1..p + c + 1 /\ DOMAIN calls = 1..c
      /\ \A k \in 1..p : prompt'[k] = prompt[k]
      /\ prompt'[p + 1] = Message("assistant", calls, None, "text")
      /\ \A i \in 1..c : prompt'[p + 1 + i] = Message("tool", <<>>, <<p + 1, i>>, out[i])
    BY <1>1, HopJoins
<1>3. prompt'[p + 1].role = "assistant" /\ prompt'[p + 1].calls = calls BY <1>2 DEF Message
<1>4. ASSUME NEW i \in 1..c
      PROVE  prompt'[p + 1 + i].of = <<p + 1, i>> /\ prompt'[p + 1 + i].calls = <<>>
    <2>1. prompt'[p + 1 + i] = Message("tool", <<>>, <<p + 1, i>>, out[i]) BY <1>2
    <2> QED BY <2>1 DEF Message
<1>5. ASSUME NEW k \in DOMAIN prompt', Result(prompt', k)
      PROVE  \/ k \in 1..p /\ Result(prompt, k)
             \/ \E i \in 1..c : k = p + 1 + i
    <2>1. CASE k <= p
        <3>1. k \in 1..p BY <2>1, <1>2
        <3>2. prompt'[k] = prompt[k] BY <3>1, <1>2
        <3> QED BY <3>1, <3>2, <1>5 DEF Result
    <2>2. CASE ~(k <= p)
        <3>1. k # p + 1 BY <1>3, <1>5 DEF Result
        <3>2. PICK i : i = k - (p + 1) OBVIOUS
        <3>3. i \in 1..c /\ k = p + 1 + i BY <3>1, <3>2, <2>2, <1>2
        <3> QED BY <3>3
    <2> QED BY <2>1, <2>2
<1>6. ASSUME NEW k \in 1..p, Result(prompt, k)
      PROVE  \E x \in 1..k - 1 : \E y \in DOMAIN prompt'[x].calls :
                 prompt'[k].of = <<x, y>> /\ y \in Nat /\ prompt'[k].calls = <<>>
    <2>1. PICK x \in Nat, y \in Nat : prompt[k].of = <<x, y>> BY <1>2, <1>6 DEF Named
    <2>2. x - 0 \in 1..k - 1 /\ x - 0 = x /\ y \in DOMAIN prompt[x - 0].calls /\ prompt[k].calls = <<>>
        BY <2>1, <1>2, <1>6 DEF Named
    <2>3. x \in 1..k - 1 /\ x \in 1..p /\ prompt'[x] = prompt[x] /\ prompt'[k] = prompt[k]
        BY <2>2, <1>2
    <2> QED BY <2>1, <2>2, <2>3
<1>7. Named(prompt', 0)
    <2> SUFFICES ASSUME NEW k \in DOMAIN prompt', Result(prompt', k)
                 PROVE  /\ prompt'[k].of \in Nat \X Nat /\ prompt'[k].calls = <<>>
                        /\ prompt'[k].of[1] - 0 \in 1..k - 1
                        /\ prompt'[k].of[2] \in DOMAIN prompt'[prompt'[k].of[1] - 0].calls
        BY DEF Named
    <2>1. CASE k \in 1..p /\ Result(prompt, k)
        <3>1. PICK x \in 1..k - 1 : \E y \in DOMAIN prompt'[x].calls :
                 prompt'[k].of = <<x, y>> /\ y \in Nat /\ prompt'[k].calls = <<>>
            BY <2>1, <1>6
        <3>2. x \in Nat /\ x - 0 = x BY <2>1
        <3> QED BY <3>1, <3>2
    <2>2. CASE \E i \in 1..c : k = p + 1 + i
        <3>1. PICK i \in 1..c : k = p + 1 + i BY <2>2
        <3>2. prompt'[k].of = <<p + 1, i>> /\ prompt'[k].calls = <<>> BY <3>1, <1>4
        <3>3. p + 1 - 0 = p + 1 /\ p + 1 \in 1..k - 1 /\ p + 1 \in Nat /\ i \in Nat BY <3>1, <1>2
        <3>4. i \in DOMAIN prompt'[p + 1].calls BY <1>2, <1>3
        <3> QED BY <3>2, <3>3, <3>4
    <2> QED BY <2>1, <2>2, <1>5
<1>8. Ordered(prompt')
    <2> SUFFICES ASSUME NEW j \in DOMAIN prompt', NEW k \in DOMAIN prompt', j < k,
                        Result(prompt', j), Result(prompt', k)
                 PROVE  Precedes(prompt'[j].of, prompt'[k].of)
        BY DEF Ordered
    <2>1. CASE j \in 1..p /\ k \in 1..p
        <3>1. prompt'[j] = prompt[j] /\ prompt'[k] = prompt[k] BY <2>1, <1>2
        <3> QED BY <2>1, <3>1, <1>2 DEF Ordered, Result
    <2>2. CASE j \in 1..p /\ k \notin 1..p
        <3>1. PICK i \in 1..c : k = p + 1 + i BY <2>2, <1>5
        <3>2. prompt'[k].of = <<p + 1, i>> BY <3>1, <1>4
        <3>3. Result(prompt, j) BY <2>2, <1>2 DEF Result
        <3>4. PICK x \in 1..j - 1 : \E y \in DOMAIN prompt'[x].calls :
                 prompt'[j].of = <<x, y>> /\ y \in Nat /\ prompt'[j].calls = <<>>
            BY <2>2, <3>3, <1>6
        <3>5. x < p + 1 BY <2>2, <1>2
        <3> QED BY <3>2, <3>4, <3>5 DEF Precedes
    <2>3. CASE j \notin 1..p
        <3>1. PICK i \in 1..c : j = p + 1 + i BY <2>3, <1>5
        <3>2. k \notin 1..p BY <2>3, <1>2
        <3>3. PICK l \in 1..c : k = p + 1 + l BY <3>2, <1>5
        <3>4. prompt'[j].of = <<p + 1, i>> /\ prompt'[k].of = <<p + 1, l>> BY <3>1, <3>3, <1>4
        <3>5. i < l BY <3>1, <3>3, <1>2
        <3> QED BY <3>4, <3>5 DEF Precedes
    <2> QED BY <2>1, <2>2, <2>3
<1> QED BY <1>7, <1>8

LEMMA PersistNames ==
    ASSUME Typed, Phases, PairInv, PersistHop
    PROVE  PairInv'
<1>1. turn.pc = "persist" /\ prompt' = prompt BY DEF PersistHop
<1>2. Messages(prompt) /\ prompt # <<>> /\ prompt[1] = SystemText BY <1>1 DEF Typed
<1>3. PICK list, p, m : list = rows' /\ p = prompt /\ m = Len(rows) + 1 OBVIOUS
<1>4. m \in Nat /\ DOMAIN list = 1..m /\ m + 1 <= Len(p) /\ \A k \in 1..m : list[k] = p[k + 1]
    <2>1. PICK r, n : r = Len(rows) /\ n = Len(prompt) OBVIOUS
    <2>2. r \in Nat /\ r + 2 \in 1..n BY <2>1, PersistIs
    <2>3. m \in Nat /\ m + 1 <= n BY <2>1, <2>2, <1>3
    <2> QED BY <2>1, <2>3, <1>3, PersistIs
<1>5. Takes(list, 1, p, 0) BY <1>2, <1>3, <1>4, RowsTake
<1>6. DOMAIN p \subseteq Nat /\ DOMAIN list \subseteq Nat BY <1>2, <1>3, <1>4, LenProperties DEF Messages
<1>7. Named(p, 0) /\ Ordered(p) BY <1>3 DEF PairInv
<1>8. 0 \in Nat /\ 1 \in Nat OBVIOUS
<1>9. Named(list, 1) /\ Ordered(list) BY ONLY <1>5, <1>6, <1>7, <1>8, NamesCarried
<1> QED BY <1>1, <1>3, <1>9 DEF PairInv

LEMMA PairStep == Typed /\ Phases /\ PairInv /\ [Next]_vars => PairInv'
<1> SUFFICES ASSUME Typed, Phases, PairInv, [Next]_vars PROVE PairInv' OBVIOUS
<1>1. Messages(rows) BY DEF Typed
<1>2. ASSUME UNCHANGED <<rows, prompt>> PROVE PairInv' BY <1>2 DEF PairInv
<1>3. CASE \E mode \in {"agentic", "twopass"} : StartTurn(mode)
    <2>1. prompt' = Sending /\ rows' = Append(rows, Plain("user"))
        BY <1>3 DEF StartTurn, Sending, SystemText
    <2>2. PICK list, s : list = rows' /\ s = prompt' OBVIOUS
    <2>3. Named(list, 1) /\ Ordered(list) BY <1>1, <2>1, <2>2, PlainNames DEF PairInv
    <2>4. Named(s, 0) /\ Ordered(s) BY <1>1, <2>1, <2>2, SendingNames DEF PairInv
    <2> QED BY <2>2, <2>3, <2>4 DEF PairInv
<1>4. CASE \E s \in Spot : Exclude(s) BY <1>2, <1>4 DEF Exclude
<1>5. CASE \E asked \in Asks : \E n \in 0..Len(asked) * (Pieces + 1) : Ask(asked, n)
    BY <1>2, <1>5 DEF Ask
<1>6. CASE \E i \in 1..Len(calls) : ShortCircuit(i) \/ Embed(i) \/ Query(i) \/ Rows(i)
    BY <1>2, <1>6, ToolStep
<1>7. CASE HopDone
    <2>1. rows' = rows BY <1>7 DEF HopDone
    <2> QED BY <2>1, <1>7, HopNames DEF PairInv
<1>8. CASE PersistHop BY <1>8, PersistNames
<1>9. CASE \/ turn.pc = "engine" /\ \E text \in Texts[turn.n], ids \in Blocks : Speak(text, ids)
           \/ \E n \in 1..Len(answer.text) : Token(n)
           \/ TextEnds \/ Finish
    BY <1>2, <1>9 DEF Speak, Token, TextEnds, Finish
<1>10. CASE SaveAnswer
    <2>1. PICK list : list = rows' OBVIOUS
    <2>2. list = rows \/ list = Append(rows, Plain("assistant")) BY <2>1, <1>10, SaveIs
    <2>3. Named(list, 1) /\ Ordered(list) BY <1>1, <2>2, PlainNames DEF PairInv
    <2>4. prompt' = <<>> BY <1>10 DEF SaveAnswer
    <2> QED BY <2>1, <2>3, <2>4, NothingNamed DEF PairInv
<1>11. CASE Abort
    <2>1. rows' = rows /\ prompt' = <<>> BY <1>11 DEF Abort
    <2> QED BY <2>1, NothingNamed DEF PairInv
<1>12. CASE UNCHANGED vars BY <1>2, <1>12 DEF vars
<1> QED BY <1>3, <1>4, <1>5, <1>6, <1>7, <1>8, <1>9, <1>10, <1>11, <1>12 DEF Next, Calling, Answering

\* While no call of what is sent is without its result, each result goes out under the id
\* of the call that it answers: for any lists of calls, caps, orders in which the tools
\* come back, modes, and turns that were cut short.
THEOREM ResultsKeepTheirCalls == Spec => []PairedUnlessDangling
<1>1. Init => PairInv BY NothingNamed DEF Init, PairInv
<1>2. Typed /\ PairInv => PairedUnlessDangling
    <2> SUFFICES ASSUME Typed, PairInv, Cardinality(CallIds(prompt)) = Cardinality(Results(prompt))
                 PROVE  \A pair \in Pairing(prompt) : prompt[pair[1]].of = pair[2]
        BY DEF PairedUnlessDangling
    <2>1. PICK list : list = prompt OBVIOUS
    <2>2. Messages(list) /\ list \in Seq(Row) BY <2>1 DEF Typed, Messages
    <2>3. Named(list, 0) /\ Ordered(list) BY <2>1 DEF PairInv
    <2>4. Cardinality(CallIds(list)) = Cardinality(Results(list)) BY <2>1
    <2>5. \A x \in CallIds(list) : \E t \in DOMAIN list : Result(list, t) /\ list[t].of = x
        BY ONLY <2>2, <2>3, <2>4, NoneDangles
    <2>6. \A pair \in Pairing(list) : list[pair[1]].of = pair[2]
        BY ONLY <2>2, <2>3, <2>5, PairsAreTrue
    <2> QED BY <2>1, <2>6
<1> QED BY <1>1, <1>2, TypedInit, TypedStep, PairStep, PTL DEF Spec

-----------------------------------------------------------------------------
(* The text of an answer and its control tokens *)

Opening(s, i) == i \in 1..Len(s) - 1 /\ s[i] = "[" /\ s[i + 1] \in Tag
ClosedBy(s, i, n) == \E j \in i + 2..n : s[j] = "]"

\* u goes on where s ends
Extends(u, s) == Len(s) <= Len(u) /\ \A i \in 1..Len(s) : u[i] = s[i]

LEMMA OpensAre ==
    ASSUME NEW s \in Seq(Symbol), NEW tag
    PROVE  \A i : i \in Opens(s, tag) <=>
               i \in 1..Len(s) - 1 /\ s[i] = "[" /\ s[i + 1] = tag /\ ClosedBy(s, i, Len(s))
<1>1. Len(s) \in Nat BY LenProperties
<1>2. ASSUME NEW i \in 1..Len(s) - 1, ClosedBy(s, i, Len(s)) PROVE i \in 1..Len(s) - 2
    BY <1>1, <1>2 DEF ClosedBy
<1> QED BY <1>1, <1>2 DEF Opens, ClosedBy

LEMMA ClosesFirst ==
    ASSUME NEW s \in Seq(Symbol), NEW i \in Nat, ClosedBy(s, i, Len(s))
    PROVE  /\ ClosesAt(s, i) \in i + 2..Len(s) /\ s[ClosesAt(s, i)] = "]"
           /\ \A k \in i + 2..ClosesAt(s, i) - 1 : s[k] # "]"
<1>1. Len(s) \in Nat BY LenProperties
<1>2. PICK S : S = {j \in i + 2..Len(s) : s[j] = "]"} OBVIOUS
<1>3. S \subseteq Nat /\ S # {} BY <1>1, <1>2 DEF ClosedBy
<1>4. \E n \in S : \A m \in S : n <= m BY <1>3, LeastOf
<1>5. PICK c : c = Least(S) OBVIOUS
<1>6. c \in S /\ \A m \in S : c <= m BY <1>4, <1>5 DEF Least
<1>7. ClosesAt(s, i) = c BY <1>2, <1>5 DEF ClosesAt
<1>8. c \in i + 2..Len(s) /\ s[c] = "]" BY <1>2, <1>6
<1>9. \A k \in i + 2..c - 1 : s[k] # "]"
    <2> SUFFICES ASSUME NEW k \in i + 2..c - 1, s[k] = "]" PROVE FALSE OBVIOUS
    <2>1. k \in S BY <1>1, <1>2, <1>8
    <2> QED BY <2>1, <1>6, <1>8
<1> QED BY <1>7, <1>8, <1>9

\* A place is inside a control token when one opens at or before it and is closed, but not
\* before it.
LEMMA InTagIs ==
    ASSUME NEW s \in Seq(Symbol), NEW p \in 1..Len(s)
    PROVE  InTag(s, p) <=> \E i \in 1..p : /\ Opening(s, i) /\ ClosedBy(s, i, Len(s))
                                           /\ ~ClosedBy(s, i, p - 1)
<1>1. Len(s) \in Nat BY LenProperties
<1>2. ASSUME NEW i \in 1..p, NEW tag \in Tag, i \in Opens(s, tag), p <= ClosesAt(s, i)
      PROVE  Opening(s, i) /\ ClosedBy(s, i, Len(s)) /\ ~ClosedBy(s, i, p - 1)
    <2>1. i \in 1..Len(s) - 1 /\ s[i] = "[" /\ s[i + 1] = tag /\ ClosedBy(s, i, Len(s))
        BY <1>2, OpensAre
    <2>2. PICK c : c = ClosesAt(s, i) OBVIOUS
    <2>3. c \in i + 2..Len(s) /\ \A k \in i + 2..c - 1 : s[k] # "]" BY <2>1, <2>2, <1>1, ClosesFirst
    <2>4. \A k \in i + 2..p - 1 : k \in i + 2..c - 1 BY <2>2, <2>3, <1>1, <1>2
    <2> QED BY <2>1, <2>3, <2>4 DEF Opening, ClosedBy
<1>3. ASSUME NEW i \in 1..p, Opening(s, i), ClosedBy(s, i, Len(s)), ~ClosedBy(s, i, p - 1)
      PROVE  \E tag \in Tag : i \in Opens(s, tag) /\ p <= ClosesAt(s, i)
    <2>1. i \in Opens(s, s[i + 1]) /\ s[i + 1] \in Tag BY <1>3, OpensAre DEF Opening
    <2>2. PICK c : c = ClosesAt(s, i) OBVIOUS
    <2>3. c \in i + 2..Len(s) /\ s[c] = "]" BY <2>2, <1>1, <1>3, ClosesFirst
    <2>4. ~(c \in i + 2..p - 1) BY <2>3, <1>3 DEF ClosedBy
    <2>5. p <= c BY <2>3, <2>4, <1>1
    <2> QED BY <2>1, <2>2, <2>5
<1> QED BY <1>2, <1>3 DEF InTag

-----------------------------------------------------------------------------
(* What is kept of a text that grows *)

\* Counting the places up to one of them numbers it.
LEMMA NthIs ==
    ASSUME NEW S \in SUBSET Nat, IsFiniteSet(S), NEW i \in S
    PROVE  Nth(S, Cardinality({j \in S : j <= i})) = i
<1> DEFINE upto(x) == {j \in S : j <= x}
<1>1. ASSUME NEW x \in S, NEW y \in S, x < y PROVE Cardinality(upto(x)) # Cardinality(upto(y))
    <2>0. \A z \in S : z \in Nat OBVIOUS
    <2>4. \A z \in S : z <= x => z <= y BY <2>0, <1>1
    <2>1. upto(x) \in SUBSET upto(y) BY <2>4
    <2>2. y \in upto(y) /\ y \notin upto(x) BY <1>1
    <2>3. IsFiniteSet(upto(y)) BY FS_Subset
    <2> QED BY <2>1, <2>2, <2>3, FS_Subset
<1>2. ASSUME NEW x \in S, Cardinality(upto(x)) = Cardinality(upto(i)) PROVE x = i
    <2>1. x < i \/ i < x \/ x = i OBVIOUS
    <2> QED BY <2>1, <1>1, <1>2
<1>3. PICK k : k = Cardinality(upto(i)) OBVIOUS
<1>4. Nth(S, k) \in S /\ Cardinality(upto(Nth(S, k))) = k BY <1>3 DEF Nth
<1> QED BY <1>2, <1>3, <1>4

LEMMA KeptOfPart ==
    ASSUME NEW s, NEW u, NEW n \in Nat, \A i \in 1..n : u[i] = s[i], NEW A \in SUBSET (1..n)
    PROVE  Kept(u, A) = Kept(s, A)
<1>1. IsFiniteSet(A) /\ A \in SUBSET Nat BY UpTo, FS_Subset
<1>2. ASSUME NEW k \in 1..Cardinality(A) PROVE u[Nth(A, k)] = s[Nth(A, k)]
    <2>1. \E i \in A : Cardinality({j \in A : j <= i}) = k BY <1>1, PlaceExists
    <2>2. Nth(A, k) \in A BY <2>1 DEF Nth
    <2> QED BY <2>2
<1> QED BY <1>2 DEF Kept

\* A part of a text, place by place.
LEMMA PartIs ==
    ASSUME NEW s \in Seq(Symbol), NEW d \in Nat, NEW e \in Nat, d <= e, e <= Len(s)
    PROVE  /\ SubSeq(s, d + 1, e) \in Seq(Symbol) /\ Len(SubSeq(s, d + 1, e)) = e - d
           /\ \A k \in 1..e - d : SubSeq(s, d + 1, e)[k] = s[d + k]
<1>1. Len(s) \in Nat BY LenProperties
<1>2. PICK y : y = SubSeq(s, d + 1, e) OBVIOUS
<1>3. y = [k \in 1..e - d |-> s[d + k]]
    <2>1. y = [k \in 1..(1 + e) - (d + 1) |-> s[(d + 1) + k - 1]] BY <1>2
    <2>2. (1 + e) - (d + 1) = e - d OBVIOUS
    <2>3. \A k \in 1..e - d : (d + 1) + k - 1 = d + k OBVIOUS
    <2> QED BY <2>1, <2>2, <2>3
<1>4. ASSUME NEW k \in 1..e - d PROVE s[d + k] \in Symbol
    <2>1. d + k \in 1..Len(s) BY <1>1
    <2> QED BY <2>1, ElementOfSeq
<1>5. y \in [1..e - d -> Symbol] BY <1>3, <1>4
<1>6. e - d \in Nat OBVIOUS
<1>7. y \in Seq(Symbol) /\ Len(y) = e - d /\ \A k \in 1..e - d : y[k] = s[d + k] BY <1>3, <1>5, <1>6
<1> QED BY <1>2, <1>7

\* What is kept of a text up to d, then all up to e.
LEMMA KeptAndAll ==
    ASSUME NEW s \in Seq(Symbol), NEW d \in Nat, NEW e \in Nat, d <= e, e <= Len(s),
           NEW A \in SUBSET (1..d)
    PROVE  Kept(s, A \cup (d + 1..e)) = Kept(s, A) \o SubSeq(s, d + 1, e)
<1>1. PICK B, C : B = d + 1..e /\ C = A \cup B OBVIOUS
<1>2. IsFiniteSet(A) /\ A \in SUBSET Nat
    <2>1. IsFiniteSet(1..d) BY UpTo
    <2>2. IsFiniteSet(A) BY <2>1, FS_Subset
    <2>3. \A i \in 1..d : i \in Nat OBVIOUS
    <2> QED BY <2>2, <2>3
<1>3. IsFiniteSet(B) /\ Cardinality(B) = e - d
    <2>1. d + 1 \in Int /\ e \in Int OBVIOUS
    <2>2. IsFiniteSet(B) /\ Cardinality(B) = IF d + 1 > e THEN 0 ELSE e - (d + 1) + 1
        BY ONLY <2>1, <1>1, FS_Interval
    <2> QED BY <2>2
<1>4. PICK a : a = Cardinality(A) OBVIOUS
<1>5. a \in Nat BY <1>2, <1>4, FS_CardinalityType
<1>6. \A i \in A, j \in B : i < j BY <1>1
<1>7. IsFiniteSet(C) /\ C \in SUBSET Nat /\ Cardinality(C) = a + (e - d)
    <2>1. A \cap B = {} BY <1>6, <1>1
    <2>3. IsFiniteSet(C) /\ Cardinality(C) = Cardinality(A) + Cardinality(B) - Cardinality(A \cap B)
        BY <1>1, <1>2, <1>3, FS_Union
    <2>2. IsFiniteSet(C) /\ Cardinality(C) = Cardinality(A) + Cardinality(B) - Cardinality({})
        BY <2>1, <2>3
    <2> QED BY <2>2, <1>1, <1>2, <1>3, <1>4, <1>5, FS_EmptySet
<1>8. ASSUME NEW k \in 1..a PROVE Nth(C, k) = Nth(A, k) /\ Nth(A, k) \in A
    <2>1. \E i \in A : Cardinality({j \in A : j <= i}) = k BY <1>2, <1>4, PlaceExists
    <2>2. PICK i : i = Nth(A, k) OBVIOUS
    <2>3. i \in A /\ Cardinality({j \in A : j <= i}) = k BY <2>1, <2>2 DEF Nth
    <2>4. {j \in C : j <= i} = {j \in A : j <= i} BY <2>3, <1>1, <1>2, <1>6
    <2>5. i \in C BY <2>3, <1>1
    <2>6. Nth(C, Cardinality({j \in C : j <= i})) = i BY <2>5, <1>7, NthIs
    <2> QED BY <2>2, <2>3, <2>4, <2>6
<1>9. ASSUME NEW k \in 1..e - d PROVE Nth(C, a + k) = d + k
    <2>1. PICK i : i = d + k OBVIOUS
    <2>2. i \in B /\ i \in C /\ i \in Nat BY <2>1, <1>1
    <2>3. {j \in C : j <= i} = A \cup (d + 1..i)
        <3>1. \A j \in A : j <= i BY <2>1
        <3>2. \A j : j \in d + 1..i <=> j \in d + 1..e /\ j <= i BY <2>1
        <3> QED BY <3>1, <3>2, <1>1
    <2>4. Cardinality(A \cup (d + 1..i)) = a + k
        <3>1. d + 1 \in Int /\ i \in Int BY <2>2
        <3>2. PICK D : D = d + 1..i OBVIOUS
        <3>3. IsFiniteSet(D) /\ Cardinality(D) = IF d + 1 > i THEN 0 ELSE i - (d + 1) + 1
            BY ONLY <3>1, <3>2, FS_Interval
        <3>4. Cardinality(D) = k BY <3>3, <2>1
        <3>5. A \cap D = {} BY <3>2
        <3>6. Cardinality(A \cup D) = Cardinality(A) + Cardinality(D) - Cardinality({})
            BY <3>3, <3>5, <1>2, FS_Union
        <3> QED BY <3>2, <3>4, <3>6, <1>4, <1>5, FS_EmptySet
    <2>5. Nth(C, Cardinality({j \in C : j <= i})) = i BY <2>2, <1>7, NthIs
    <2> QED BY <2>1, <2>3, <2>4, <2>5
<1>10. PICK x, y : x = Kept(s, A) /\ y = SubSeq(s, d + 1, e) OBVIOUS
<1>11. x = [k \in 1..a |-> s[Nth(A, k)]] BY <1>4, <1>10 DEF Kept
<1>12. Len(s) \in Nat BY LenProperties
<1>13. x \in Seq(Symbol) /\ Len(x) = a /\ \A k \in 1..a : x[k] = s[Nth(A, k)]
    <2>1. ASSUME NEW k \in 1..a PROVE s[Nth(A, k)] \in Symbol
        <3>0. Nth(A, k) \in 1..d BY <1>8
        <3>1. Nth(A, k) \in 1..Len(s) BY <3>0, <1>12
        <3> QED BY <3>1, ElementOfSeq
    <2>2. x \in [1..a -> Symbol] BY <2>1, <1>11
    <2> QED BY <2>2, <1>5, <1>11
<1>14. y \in Seq(Symbol) /\ Len(y) = e - d /\ \A k \in 1..e - d : y[k] = s[d + k] BY <1>10, PartIs
<1>15. PICK z : z = x \o y OBVIOUS
<1>16. /\ z \in Seq(Symbol) /\ Len(z) = a + (e - d)
       /\ \A k \in 1..a + (e - d) : z[k] = IF k <= a THEN x[k] ELSE y[k - a]
    BY <1>13, <1>14, <1>15, ConcatProperties
<1>17. PICK w : w = Kept(s, C) OBVIOUS
<1>18. w = [k \in 1..a + (e - d) |-> s[Nth(C, k)]] BY <1>7, <1>17 DEF Kept
<1>19. ASSUME NEW k \in 1..a + (e - d) PROVE w[k] = z[k]
    <2>1. w[k] = s[Nth(C, k)] BY <1>18
    <2>2. CASE k <= a
        <3>1. k \in 1..a BY <2>2, <1>5
        <3> QED BY <3>1, <2>1, <2>2, <1>8, <1>13, <1>16
    <2>3. CASE ~(k <= a)
        <3>1. PICK l : l = k - a OBVIOUS
        <3>2. l \in 1..e - d /\ a + l = k BY <3>1, <2>3, <1>5
        <3>3. Nth(C, k) = d + l BY <3>2, <1>9
        <3> QED BY <3>1, <3>2, <3>3, <2>1, <2>3, <1>14, <1>16
    <2> QED BY <2>2, <2>3
<1>20. z = [k \in 1..a + (e - d) |-> z[k]]
    <2>1. DOMAIN z = 1..Len(z) /\ z = [k \in DOMAIN z |-> z[k]] BY <1>16, LenProperties
    <2> QED BY <2>1, <1>16
<1>21. w = z BY <1>18, <1>19, <1>20
<1> QED BY <1>1, <1>10, <1>15, <1>17, <1>21

-----------------------------------------------------------------------------
(* What the handler has let through and what it holds *)

Handler == [buffer : Seq(Symbol), full : Seq(Symbol), filters : Nat, notes : Nat, recommends : Nat]

\* the places up to d that no control token takes
Outside(s, d) == {p \in 1..d : ~InTag(s, p)}

\* no control token is under way at d: each one that opens up to d is closed by then
Settled(s, d) ==
    /\ \A i \in 1..d : s[i] = "[" => i < d
    /\ \A i \in 1..d : Opening(s, i) => ClosedBy(s, i, d)

\* none that opens after d, up to b, is closed at all
Unclosed(s, d, b) == \A i \in d + 1..b : Opening(s, i) => ~ClosedBy(s, i, Len(s))

Counted(h, s) ==
    /\ h.filters = Tags(s, "filter") /\ h.notes = Tags(s, "note") /\ h.recommends = Tags(s, "recommend")

\* of the text s the handler let go what is up to d, and holds the rest
Held(h, s, d) ==
    /\ h.buffer = SubSeq(s, d + 1, Len(s)) /\ h.full = Kept(s, Outside(s, d))
    /\ Settled(s, d) /\ Unclosed(s, d, Len(s)) /\ Counted(h, s)

LEMMA AllOutside ==
    ASSUME NEW s \in Seq(Symbol), NEW d \in Nat, NEW b \in Nat, d <= b, b <= Len(s),
           Settled(s, d), Unclosed(s, d, b)
    PROVE  /\ Outside(s, b) = Outside(s, d) \cup (d + 1..b)
           /\ Kept(s, Outside(s, b)) = Kept(s, Outside(s, d)) \o SubSeq(s, d + 1, b)
<1>1. Len(s) \in Nat BY LenProperties
<1>2. ASSUME NEW p \in d + 1..b, InTag(s, p) PROVE FALSE
    <2>1. p \in 1..Len(s) BY <1>1
    <2>2. PICK i \in 1..p : Opening(s, i) /\ ClosedBy(s, i, Len(s)) /\ ~ClosedBy(s, i, p - 1)
        BY <2>1, <1>2, InTagIs
    <2>3. CASE i <= d
        <3>1. ClosedBy(s, i, d) BY <2>2, <2>3 DEF Settled
        <3>2. \A j \in i + 2..d : j \in i + 2..p - 1 OBVIOUS
        <3> QED BY <3>1, <3>2, <2>2 DEF ClosedBy
    <2>4. CASE ~(i <= d)
        <3>1. i \in d + 1..b BY <2>4
        <3> QED BY <3>1, <2>2 DEF Unclosed
    <2> QED BY <2>3, <2>4
<1>3. \A p : p \in 1..b <=> p \in 1..d \/ p \in d + 1..b OBVIOUS
<1>4. Outside(s, b) = Outside(s, d) \cup (d + 1..b) BY <1>2, <1>3 DEF Outside
<1>5. Outside(s, d) \in SUBSET (1..d) BY DEF Outside
<1>6. PICK A : A = Outside(s, d) OBVIOUS
<1>7. Kept(s, A \cup (d + 1..b)) = Kept(s, A) \o SubSeq(s, d + 1, b) BY <1>5, <1>6, KeptAndAll
<1> QED BY <1>4, <1>6, <1>7

\* What was settled stays so when the text goes on, and what was let go stays the same.
LEMMA SettledStays ==
    ASSUME NEW s \in Seq(Symbol), NEW u \in Seq(Symbol), Extends(u, s),
           NEW d \in Nat, d <= Len(s), Settled(s, d)
    PROVE  /\ Settled(u, d) /\ Outside(u, d) = Outside(s, d)
           /\ Kept(u, Outside(u, d)) = Kept(s, Outside(s, d))
           /\ \A i \in 1..d : Opening(u, i) <=> Opening(s, i)
<1>1. Len(s) \in Nat /\ Len(u) \in Nat /\ Len(s) <= Len(u) BY LenProperties DEF Extends
<1>2. \A i \in 1..d : u[i] = s[i] BY <1>1 DEF Extends
<1>3. ASSUME NEW i \in 1..d, NEW n \in Nat, n <= d PROVE ClosedBy(u, i, n) <=> ClosedBy(s, i, n)
    <2>1. \A j \in i + 2..n : j \in 1..d BY <1>3
    <2> QED BY <2>1, <1>2 DEF ClosedBy
<1>4. ASSUME NEW i \in 1..d PROVE Opening(u, i) <=> Opening(s, i)
    <2>1. CASE s[i] = "["
        <3>1. i + 1 \in 1..d BY <2>1 DEF Settled
        <3>2. i \in 1..Len(s) - 1 /\ i \in 1..Len(u) - 1 BY <3>1, <1>1
        <3> QED BY <3>1, <3>2, <1>2 DEF Opening
    <2>2. CASE s[i] # "[" BY <2>2, <1>2 DEF Opening
    <2> QED BY <2>1, <2>2
<1>5. Settled(u, d) BY <1>2, <1>3, <1>4 DEF Settled
<1>6. ASSUME NEW p \in 1..d PROVE InTag(u, p) <=> InTag(s, p)
    <2>1. p \in 1..Len(s) /\ p \in 1..Len(u) /\ p - 1 \in Nat /\ p - 1 <= d BY <1>1
    <2>2. ASSUME NEW i \in 1..p, Opening(s, i)
          PROVE  ClosedBy(s, i, Len(s)) /\ ClosedBy(u, i, Len(u)) /\ i \in 1..d
        <3>1. i \in 1..d OBVIOUS
        <3>2. ClosedBy(s, i, d) /\ ClosedBy(u, i, d) BY <3>1, <2>2, <1>3 DEF Settled
        <3>3. \A j \in i + 2..d : j \in i + 2..Len(s) /\ j \in i + 2..Len(u) BY <1>1
        <3> QED BY <3>1, <3>2, <3>3 DEF ClosedBy
    <2>3. \A i \in 1..p : i \in 1..d OBVIOUS
    <2>4. \A i \in 1..p : /\ Opening(u, i) <=> Opening(s, i)
                          /\ ClosedBy(u, i, p - 1) <=> ClosedBy(s, i, p - 1)
        BY <2>1, <2>3, <1>3, <1>4
    <2>5. InTag(s, p) <=> \E i \in 1..p : Opening(s, i) /\ ClosedBy(s, i, Len(s)) /\ ~ClosedBy(s, i, p - 1)
        BY <2>1, InTagIs
    <2>6. InTag(u, p) <=> \E i \in 1..p : Opening(u, i) /\ ClosedBy(u, i, Len(u)) /\ ~ClosedBy(u, i, p - 1)
        BY <2>1, InTagIs
    <2> QED BY <2>2, <2>4, <2>5, <2>6
<1>7. Outside(u, d) = Outside(s, d) BY <1>6 DEF Outside
<1>8. Outside(s, d) \in SUBSET (1..d) BY DEF Outside
<1>9. Kept(u, Outside(s, d)) = Kept(s, Outside(s, d)) BY <1>2, <1>8, KeptOfPart
<1> QED BY <1>4, <1>5, <1>7, <1>9

\* The text in the buffer and the token after it are the end of the whole text.
LEMMA TextIs ==
    ASSUME NEW s \in Seq(Symbol), NEW t \in Seq(Symbol), NEW d \in Nat, d <= Len(s)
    PROVE  /\ s \o t \in Seq(Symbol) /\ Len(s \o t) = Len(s) + Len(t) /\ Extends(s \o t, s)
           /\ \A k \in 1..Len(t) : (s \o t)[Len(s) + k] = t[k]
           /\ SubSeq(s, d + 1, Len(s)) \o t = SubSeq(s \o t, d + 1, Len(s \o t))
<1>1. PICK n, m : n = Len(s) /\ m = Len(t) OBVIOUS
<1>2. n \in Nat /\ m \in Nat BY <1>1, LenProperties
<1>3. PICK u : u = s \o t OBVIOUS
<1>4. /\ u \in Seq(Symbol) /\ Len(u) = n + m
      /\ \A i \in 1..n + m : u[i] = IF i <= n THEN s[i] ELSE t[i - n]
    BY <1>1, <1>3, ConcatProperties
<1>5. Extends(u, s) BY <1>1, <1>2, <1>4 DEF Extends
<1>6. ASSUME NEW k \in 1..m PROVE u[n + k] = t[k]
    <2>1. n + k \in 1..n + m /\ ~(n + k <= n) /\ (n + k) - n = k BY <1>2
    <2> QED BY <2>1, <1>4
<1>7. PICK b, x : b = SubSeq(s, d + 1, n) /\ x = SubSeq(u, d + 1, n + m) OBVIOUS
<1>8. b \in Seq(Symbol) /\ Len(b) = n - d /\ \A k \in 1..n - d : b[k] = s[d + k]
    BY <1>1, <1>2, <1>7, PartIs
<1>9. x \in Seq(Symbol) /\ Len(x) = n + m - d /\ \A k \in 1..n + m - d : x[k] = u[d + k]
    BY <1>1, <1>2, <1>4, <1>7, PartIs
<1>10. PICK y : y = b \o t OBVIOUS
<1>11. /\ y \in Seq(Symbol) /\ Len(y) = (n - d) + m
       /\ \A k \in 1..(n - d) + m : y[k] = IF k <= n - d THEN b[k] ELSE t[k - (n - d)]
    <2>1. /\ y \in Seq(Symbol) /\ Len(y) = Len(b) + Len(t)
          /\ \A k \in 1..Len(b) + Len(t) : y[k] = IF k <= Len(b) THEN b[k] ELSE t[k - Len(b)]
        BY <1>8, <1>10, ConcatProperties
    <2>2. Len(b) = n - d /\ Len(t) = m BY <1>1, <1>8
    <2> QED BY <2>1, <2>2
<1>12. ASSUME NEW k \in 1..n + m - d PROVE y[k] = x[k]
    <2>1. d + k \in 1..n + m /\ k \in 1..(n - d) + m BY <1>1, <1>2
    <2>2. CASE k <= n - d
        <3>1. k \in 1..n - d /\ d + k <= n BY <2>2, <1>1, <1>2
        <3> QED BY <2>1, <3>1, <1>4, <1>8, <1>9, <1>11
    <2>3. CASE ~(k <= n - d)
        <3>1. ~(d + k <= n) /\ (d + k) - n = k - (n - d) BY <2>3, <1>1, <1>2
        <3> QED BY <2>1, <2>3, <3>1, <1>4, <1>9, <1>11
    <2> QED BY <2>2, <2>3
<1>13. x = y
    <2>1. Len(y) = Len(x) BY <1>1, <1>2, <1>9, <1>11
    <2> QED BY <2>1, <1>9, <1>11, <1>12, SeqEqual
<1> QED BY <1>1, <1>3, <1>4, <1>5, <1>6, <1>7, <1>10, <1>13

\* u is s and then the token t, which closes one bracket at most
Continues(u, s, t) ==
    Extends(u, s) /\ Len(u) = Len(s) + Len(t) /\ \A k \in 1..Len(t) : u[Len(s) + k] = t[k]
ClosesOne(t) == \A j, k \in 1..Len(t) : t[j] = "]" /\ t[k] = "]" => j = k

\* x is what of u comes after d
Rest(x, u, d) == x = SubSeq(u, d + 1, Len(u))

LEMMA PartOfPart ==
    ASSUME NEW u \in Seq(Symbol), NEW d \in Nat, d <= Len(u), NEW i \in Nat, NEW j \in Nat,
           i <= j, j <= Len(u) - d
    PROVE  SubSeq(SubSeq(u, d + 1, Len(u)), i + 1, j) = SubSeq(u, (d + i) + 1, d + j)
<1>1. PICK n : n = Len(u) OBVIOUS
<1>2. n \in Nat BY <1>1, LenProperties
<1>3. PICK x : x = SubSeq(u, d + 1, n) OBVIOUS
<1>4. x \in Seq(Symbol) /\ Len(x) = n - d /\ \A k \in 1..n - d : x[k] = u[d + k]
    BY <1>1, <1>2, <1>3, PartIs
<1>5. PICK y, z : y = SubSeq(x, i + 1, j) /\ z = SubSeq(u, (d + i) + 1, d + j) OBVIOUS
<1>6. y \in Seq(Symbol) /\ Len(y) = j - i /\ \A k \in 1..j - i : y[k] = x[i + k]
    BY <1>1, <1>4, <1>5, PartIs
<1>7. z \in Seq(Symbol) /\ Len(z) = (d + j) - (d + i) /\ \A k \in 1..(d + j) - (d + i) : z[k] = u[(d + i) + k]
    <2>1. d + i \in Nat /\ d + j \in Nat /\ d + i <= d + j /\ d + j <= Len(u) BY <1>1, <1>2
    <2> QED BY <2>1, <1>5, PartIs
<1>8. ASSUME NEW k \in 1..j - i PROVE y[k] = z[k]
    <2>1. i + k \in 1..n - d /\ (d + i) + k = d + (i + k) /\ k \in 1..(d + j) - (d + i) BY <1>1, <1>2
    <2> QED BY <2>1, <1>4, <1>6, <1>7
<1>9. y = z
    <2>1. Len(y) = Len(z) BY <1>6, <1>7
    <2> QED BY <2>1, <1>6, <1>7, <1>8, SeqEqual
<1> QED BY <1>1, <1>3, <1>5, <1>9

LEMMA WindowOpens ==
    ASSUME NEW u \in Seq(Symbol), NEW d \in Nat, d <= Len(u), NEW x, Rest(x, u, d)
    PROVE  \A tag, k : k \in Opens(x, tag) <=> k \in Nat \ {0} /\ d + k \in Opens(u, tag)
<1>1. PICK n, l : n = Len(u) /\ l = Len(x) OBVIOUS
<1>2. n \in Nat BY <1>1, LenProperties
<1>3. x \in Seq(Symbol) /\ l = n - d /\ l \in Nat /\ \A k \in 1..l : x[k] = u[d + k]
    BY <1>1, <1>2, PartIs DEF Rest
<1>4. ASSUME NEW k \in Nat \ {0} PROVE ClosedBy(x, k, l) <=> ClosedBy(u, d + k, n)
    <2>1. ASSUME NEW j \in k + 2..l PROVE d + j \in (d + k) + 2..n /\ x[j] = u[d + j]
        BY <1>1, <1>2, <1>3
    <2>2. ASSUME NEW j \in (d + k) + 2..n PROVE j - d \in k + 2..l /\ d + (j - d) = j
        BY <1>1, <1>2, <1>3
    <2> QED BY <2>1, <2>2 DEF ClosedBy
<1>5. ASSUME NEW tag, NEW k \in Nat \ {0} PROVE k \in Opens(x, tag) <=> d + k \in Opens(u, tag)
    <2>1. k \in 1..l - 1 <=> d + k \in 1..n - 1 BY <1>2, <1>3
    <2>2. k \in 1..l - 1 => /\ k \in 1..l /\ k + 1 \in 1..l /\ d + (k + 1) = (d + k) + 1
        BY <1>3
    <2>3. k \in 1..l - 1 => x[k] = u[d + k] /\ x[k + 1] = u[(d + k) + 1] BY <2>2, <1>3
    <2>4. k \in Opens(x, tag) <=> k \in 1..l - 1 /\ x[k] = "[" /\ x[k + 1] = tag /\ ClosedBy(x, k, l)
        <3>1. PICK y : y = x OBVIOUS
        <3>2. y \in Seq(Symbol) /\ l = Len(y) BY <3>1, <1>1, <1>3
        <3>3. k \in Opens(y, tag) <=> k \in 1..l - 1 /\ y[k] = "[" /\ y[k + 1] = tag /\ ClosedBy(y, k, l)
            BY ONLY <3>2, OpensAre
        <3> QED BY <3>1, <3>3
    <2>5. d + k \in Opens(u, tag) <=>
              d + k \in 1..n - 1 /\ u[d + k] = "[" /\ u[(d + k) + 1] = tag /\ ClosedBy(u, d + k, n)
        BY <1>1, OpensAre
    <2> QED BY <2>1, <2>3, <2>4, <2>5, <1>4
<1>6. ASSUME NEW tag, NEW k \in Opens(x, tag) PROVE k \in Nat \ {0}
    <2>1. k \in 1..Len(x) - 1 BY <1>3, OpensAre
    <2> QED BY <2>1, <1>1, <1>3
<1> QED BY <1>5, <1>6

\* The control tokens of a text are those of its beginning, all of them let go, and those
\* that open after it.
LEMMA OpensSplit ==
    ASSUME NEW s \in Seq(Symbol), NEW u \in Seq(Symbol), Extends(u, s),
           NEW d \in Nat, d <= Len(s), Settled(s, d), Unclosed(s, d, Len(s)), NEW tag \in Tag
    PROVE  /\ IsFiniteSet(Opens(s, tag)) /\ Opens(s, tag) \subseteq 1..d
           /\ \A i : i \in Opens(u, tag) <=> i \in Opens(s, tag) \/ (i \in d + 1..Len(u) /\ i \in Opens(u, tag))
<1>1. Len(s) \in Nat /\ Len(u) \in Nat /\ Len(s) <= Len(u) BY LenProperties DEF Extends
<1>2. ASSUME NEW i \in Opens(s, tag) PROVE i \in 1..d
    <2>1. i \in 1..Len(s) - 1 /\ s[i] = "[" /\ s[i + 1] = tag /\ ClosedBy(s, i, Len(s)) BY OpensAre
    <2>2. Opening(s, i) BY <2>1 DEF Opening
    <2>3. i \notin d + 1..Len(s) BY <2>1, <2>2 DEF Unclosed
    <2> QED BY <2>1, <2>3, <1>1
<1>3. ASSUME NEW i \in 1..d PROVE i \in Opens(u, tag) <=> i \in Opens(s, tag)
    <2>1. Opening(u, i) <=> Opening(s, i) BY SettledStays
    <2>2. Opening(s, i) => ClosedBy(s, i, d) /\ ClosedBy(u, i, d) /\ i < d
        BY <2>1, SettledStays DEF Settled, Opening
    <2>3. \A j \in i + 2..d : j \in i + 2..Len(s) /\ j \in i + 2..Len(u) BY <1>1
    <2>4. Opening(s, i) => ClosedBy(s, i, Len(s)) /\ ClosedBy(u, i, Len(u)) BY <2>2, <2>3 DEF ClosedBy
    <2>5. Opening(s, i) => s[i + 1] = u[i + 1]
        <3>1. i < d => i + 1 \in 1..Len(s) BY <1>1
        <3> QED BY <3>1, <2>2 DEF Extends
    <2>6. i \in Opens(u, tag) <=> Opening(u, i) /\ u[i + 1] = tag /\ ClosedBy(u, i, Len(u))
        BY OpensAre DEF Opening
    <2>7. i \in Opens(s, tag) <=> Opening(s, i) /\ s[i + 1] = tag /\ ClosedBy(s, i, Len(s))
        BY OpensAre DEF Opening
    <2> QED BY <2>1, <2>4, <2>5, <2>6, <2>7
<1>4. ASSUME NEW i \in Opens(u, tag) PROVE i \in 1..d \/ i \in d + 1..Len(u)
    <2>1. i \in 1..Len(u) - 1 BY OpensAre
    <2> QED BY <2>1, <1>1
<1>5. IsFiniteSet(1..d) BY UpTo
<1>6. IsFiniteSet(Opens(s, tag))
    <2>1. Opens(s, tag) \in SUBSET (1..d) BY <1>2
    <2> QED BY <2>1, <1>5, FS_Subset
<1> QED BY <1>2, <1>3, <1>4, <1>6

\* One token of the engine closes at most one control token of those that were held.
LEMMA OneCloses ==
    ASSUME NEW s \in Seq(Symbol), NEW t \in Seq(Symbol), NEW u \in Seq(Symbol), Continues(u, s, t), Flat(u),
           ClosesOne(t),
           NEW d \in Nat, d <= Len(s), Unclosed(s, d, Len(s)),
           NEW a \in d + 1..Len(u), NEW b \in d + 1..Len(u), Opening(u, a), Opening(u, b),
           ClosedBy(u, a, Len(u)), ClosedBy(u, b, Len(u))
    PROVE  /\ a = b
           /\ \A j, k \in a + 2..Len(u) : u[j] = "]" /\ u[k] = "]" => j = k
<1>1. PICK n, l : n = Len(s) /\ l = Len(u) OBVIOUS
<1>0. /\ Extends(u, s) /\ Len(u) = Len(s) + Len(t) /\ \A k \in 1..Len(t) : u[Len(s) + k] = t[k]
      /\ \A j, k \in 1..Len(t) : t[j] = "]" /\ t[k] = "]" => j = k
    BY DEF Continues, ClosesOne
<1>2. n \in Nat /\ l \in Nat /\ n <= l /\ l - n = Len(t) BY <1>0, <1>1, LenProperties
<1>3. ASSUME NEW i \in d + 1..l, Opening(u, i), NEW j \in i + 2..l, u[j] = "]" PROVE j > n
    <2> SUFFICES ASSUME j <= n PROVE FALSE BY <1>2
    <2>1. i \in 1..n - 1 /\ i \in d + 1..n /\ i \in 1..n /\ i + 1 \in 1..n /\ j \in 1..n /\ j \in i + 2..n
        BY <1>1, <1>2
    <2>2. u[i] = s[i] /\ u[i + 1] = s[i + 1] /\ u[j] = s[j] BY <2>1, <1>0, <1>1 DEF Extends
    <2>3. Opening(s, i) BY <2>1, <2>2, <1>1, <1>3 DEF Opening
    <2>4. ClosedBy(s, i, n) BY <2>1, <2>2, <1>3 DEF ClosedBy
    <2> QED BY <2>1, <2>3, <2>4, <1>1 DEF Unclosed
<1>4. ASSUME NEW j \in n + 1..l, NEW k \in n + 1..l, u[j] = "]", u[k] = "]" PROVE j = k
    <2>1. j - n \in 1..Len(t) /\ k - n \in 1..Len(t) /\ n + (j - n) = j /\ n + (k - n) = k BY <1>2
    <2>2. t[j - n] = "]" /\ t[k - n] = "]" BY <2>1, <1>0, <1>1, <1>4
    <2>3. j - n = k - n BY <2>1, <2>2, <1>0
    <2> QED BY <2>3, <1>2
<1>5. ASSUME NEW x \in d + 1..l, NEW y \in d + 1..l, x < y, Opening(u, x), Opening(u, y),
             ClosedBy(u, x, l), ClosedBy(u, y, l)
      PROVE  FALSE
    <2>1. /\ u[x + 1] \in Tag /\ u[y + 1] \in Tag
          /\ x \in Opens(u, u[x + 1]) /\ y \in Opens(u, u[y + 1])
        BY <1>1, <1>5, OpensAre DEF Opening
    <2>2. PICK k \in x + 2..y - 1 : u[k] = "]" BY <2>1, <1>5 DEF Flat
    <2>3. PICK j \in y + 2..l : u[j] = "]" BY <1>5 DEF ClosedBy
    <2>4. k \in x + 2..l BY <1>2
    <2>5. k > n /\ j > n BY <2>2, <2>3, <2>4, <1>3, <1>5
    <2>6. k \in n + 1..l /\ j \in n + 1..l BY <2>4, <2>5, <1>2
    <2>7. k = j BY <2>2, <2>3, <2>6, <1>4
    <2> QED BY <2>7
<1>6. a = b
    <2>1. a \in d + 1..l /\ b \in d + 1..l BY <1>1
    <2>2. ~(a < b) BY <2>1, <1>1, <1>5
    <2>3. ~(b < a) BY <2>1, <1>1, <1>5
    <2> QED BY <2>1, <2>2, <2>3
<1>7. ASSUME NEW j \in a + 2..l, NEW k \in a + 2..l, u[j] = "]", u[k] = "]" PROVE j = k
    <2>1. j > n /\ k > n BY <1>1, <1>3, <1>7
    <2>2. j \in n + 1..l /\ k \in n + 1..l BY <2>1, <1>2
    <2> QED BY <2>2, <1>4, <1>7
<1> QED BY <1>1, <1>6, <1>7

LEMMA MatchedIs ==
    ASSUME NEW x
    PROVE  \/ Matched(x) = "none" /\ \A tag \in Tag : Opens(x, tag) = {}
           \/ Matched(x) \in Tag /\ Matched(x) # "none" /\ Opens(x, Matched(x)) # {}
<1>1. \A tag \in Tag : tag \in {"filter", "note", "recommend"} BY DEF Tag
<1>2. CASE Opens(x, "filter") # {}
    <2>1. Matched(x) = "filter" BY <1>2 DEF Matched
    <2> QED BY <2>1, <1>2 DEF Tag
<1>3. CASE Opens(x, "filter") = {} /\ Opens(x, "note") # {}
    <2>1. Matched(x) = "note" BY <1>3 DEF Matched
    <2> QED BY <2>1, <1>3 DEF Tag
<1>4. CASE Opens(x, "filter") = {} /\ Opens(x, "note") = {} /\ Opens(x, "recommend") # {}
    <2>1. Matched(x) = "recommend" BY <1>4 DEF Matched
    <2> QED BY <2>1, <1>4 DEF Tag
<1>5. CASE Opens(x, "filter") = {} /\ Opens(x, "note") = {} /\ Opens(x, "recommend") = {}
    <2>1. Matched(x) = "none" BY <1>5 DEF Matched
    <2> QED BY <2>1, <1>1, <1>5
<1> QED BY <1>2, <1>3, <1>4, <1>5

\* of the control tokens after d only the one at a is finished, and its name is taken
OnlyTaken(u, d, taken, a) ==
    /\ taken \in Tag => a \in d + 1..Len(u)
    /\ \A tag \in Tag, i \in d + 1..Len(u) : i \in Opens(u, tag) <=> tag = taken /\ i = a

\* The handler's counts follow the control tokens: a token that takes one out adds one
\* to the count of its name, any other adds none.
LEMMA CountsFollow ==
    ASSUME NEW s \in Seq(Symbol), NEW u \in Seq(Symbol), Extends(u, s),
           NEW d \in Nat, d <= Len(s), Settled(s, d), Unclosed(s, d, Len(s)),
           NEW h \in Handler, Counted(h, s), NEW taken, NEW a,
           OnlyTaken(u, d, taken, a)
    PROVE  Counted(Noted(h, taken), u) /\ Noted(h, taken) \in Handler
           /\ Noted(h, taken).full = h.full /\ Noted(h, taken).buffer = h.buffer
<1>1. Len(u) \in Nat BY LenProperties
<1>0. /\ taken \in Tag => a \in d + 1..Len(u)
      /\ \A tag \in Tag, i \in d + 1..Len(u) : i \in Opens(u, tag) <=> tag = taken /\ i = a
    BY DEF OnlyTaken
<1>2. ASSUME NEW tag \in Tag, tag = taken PROVE Tags(u, tag) = Tags(s, tag) + 1
    <2>1. PICK O : O = Opens(s, tag) OBVIOUS
    <2>2. IsFiniteSet(O) /\ O \subseteq 1..d BY <2>1, OpensSplit
    <2>3. \A i : i \in Opens(u, tag) <=> i \in O \/ i = a BY <2>1, <1>0, <1>2, OpensSplit
    <2>4. Opens(u, tag) = O \cup {a} BY <2>3
    <2>5. a \notin O BY <2>2, <1>0, <1>2
    <2> QED BY <2>1, <2>2, <2>4, <2>5, FS_AddElement DEF Tags
<1>3. ASSUME NEW tag \in Tag, tag # taken PROVE Tags(u, tag) = Tags(s, tag)
    <2>1. \A i : i \in Opens(u, tag) <=> i \in Opens(s, tag) BY <1>0, <1>3, OpensSplit
    <2>2. Opens(u, tag) = Opens(s, tag) BY <2>1
    <2> QED BY <2>2 DEF Tags
<1>4. "filter" \in Tag /\ "note" \in Tag /\ "recommend" \in Tag BY DEF Tag
<1>5. PICK g : g = Noted(h, taken) OBVIOUS
<1>7. h.filters \in Nat /\ h.notes \in Nat /\ h.recommends \in Nat BY DEF Handler
<1>6. /\ g \in Handler /\ g.full = h.full /\ g.buffer = h.buffer
      /\ g.filters = h.filters + (IF taken = "filter" THEN 1 ELSE 0)
      /\ g.notes = h.notes + (IF taken = "note" THEN 1 ELSE 0)
      /\ g.recommends = h.recommends + (IF taken = "recommend" THEN 1 ELSE 0)
    <2>1. PICK a1, a2, a3 : /\ a1 = h.filters + (IF taken = "filter" THEN 1 ELSE 0)
                            /\ a2 = h.notes + (IF taken = "note" THEN 1 ELSE 0)
                            /\ a3 = h.recommends + (IF taken = "recommend" THEN 1 ELSE 0)
        OBVIOUS
    <2>2. a1 \in Nat /\ a2 \in Nat /\ a3 \in Nat BY <2>1, <1>7
    <2>3. g = [h EXCEPT !.filters = a1, !.notes = a2, !.recommends = a3] BY <2>1, <1>5 DEF Noted
    <2>4. /\ g \in Handler /\ g.full = h.full /\ g.buffer = h.buffer
          /\ g.filters = a1 /\ g.notes = a2 /\ g.recommends = a3
        BY ONLY <2>2, <2>3, h \in Handler DEF Handler
    <2> QED BY <2>1, <2>4
<1>8. g.filters = Tags(u, "filter")
    <2>1. h.filters = Tags(s, "filter") BY DEF Counted
    <2>2. CASE taken = "filter" BY <2>1, <2>2, <1>2, <1>4, <1>6
    <2>3. CASE taken # "filter" BY <2>1, <2>3, <1>3, <1>4, <1>6, <1>7
    <2> QED BY <2>2, <2>3
<1>9. g.notes = Tags(u, "note")
    <2>1. h.notes = Tags(s, "note") BY DEF Counted
    <2>2. CASE taken = "note" BY <2>1, <2>2, <1>2, <1>4, <1>6
    <2>3. CASE taken # "note" BY <2>1, <2>3, <1>3, <1>4, <1>6, <1>7
    <2> QED BY <2>2, <2>3
<1>10. g.recommends = Tags(u, "recommend")
    <2>1. h.recommends = Tags(s, "recommend") BY DEF Counted
    <2>2. CASE taken = "recommend" BY <2>1, <2>2, <1>2, <1>4, <1>6
    <2>3. CASE taken # "recommend" BY <2>1, <2>3, <1>3, <1>4, <1>6, <1>7
    <2> QED BY <2>2, <2>3
<1>11. Counted(g, u) BY <1>8, <1>9, <1>10 DEF Counted
<1> QED BY <1>5, <1>6, <1>11

\* what becomes of the text x that matches no pattern
LetsOn(p, h, x) ==
    p = IF \A i \in DOMAIN x : x[i] # "[" THEN Emitted(h, x, <<>>) ELSE [h EXCEPT !.buffer = x]

\* A token that closes no control token lets all that is held go, or is held with it.
LEMMA NothingTaken ==
    ASSUME NEW h \in Handler, NEW s \in Seq(Symbol), NEW u \in Seq(Symbol), Extends(u, s),
           NEW d \in Nat, d <= Len(s), Held(h, s, d), NEW x, Rest(x, u, d), Matched(x) = "none",
           NEW p, LetsOn(p, h, x)
    PROVE  p \in Handler /\ \E e \in 0..Len(u) : Held(p, u, e)
<1>1. PICK n, l : n = Len(s) /\ l = Len(u) OBVIOUS
<1>2. /\ n \in Nat /\ l \in Nat /\ n <= l /\ d <= n /\ d <= l /\ l <= Len(u)
      /\ x = SubSeq(u, d + 1, l) /\ x = SubSeq(u, d + 1, Len(u))
    BY <1>1, LenProperties DEF Extends, Rest
<1>3. p = IF \A i \in DOMAIN x : x[i] # "[" THEN Emitted(h, x, <<>>) ELSE [h EXCEPT !.buffer = x]
    BY DEF LetsOn
<1>4. x \in Seq(Symbol) /\ Len(x) = l - d /\ DOMAIN x = 1..l - d /\ \A k \in 1..l - d : x[k] = u[d + k]
    <2>2. x \in Seq(Symbol) /\ Len(x) = l - d /\ \A k \in 1..l - d : x[k] = u[d + k]
        BY ONLY <1>2, u \in Seq(Symbol), d \in Nat, PartIs
    <2> QED BY ONLY <2>2, LenProperties
<1>5. Settled(s, d) /\ Unclosed(s, d, Len(s)) /\ Counted(h, s) /\ h.full = Kept(s, Outside(s, d))
    BY DEF Held
<1>6. \A tag \in Tag : Opens(x, tag) = {} BY ONLY Matched(x) = "none", MatchedIs
<1>7. \A tag \in Tag, i \in d + 1..l : i \notin Opens(u, tag)
    <2> SUFFICES ASSUME NEW tag \in Tag, NEW i \in d + 1..l, i \in Opens(u, tag) PROVE FALSE OBVIOUS
    <2>1. i - d \in Nat \ {0} /\ d + (i - d) = i BY ONLY i \in d + 1..l, d \in Nat, <1>2
    <2>2. \A tg, k : k \in Opens(x, tg) <=> k \in Nat \ {0} /\ d + k \in Opens(u, tg)
        <3>1. d <= Len(u) BY <1>1, <1>2
        <3> QED BY ONLY <3>1, u \in Seq(Symbol), d \in Nat, Rest(x, u, d), WindowOpens
    <2>3. i - d \in Opens(x, tag) BY ONLY <2>1, <2>2, i \in Opens(u, tag)
    <2> QED BY <2>3, <1>6
<1>8. Counted(h, u)
    <2>1. "none" \notin Tag BY DEF Tag
    <2>2. OnlyTaken(u, d, "none", 0) BY ONLY <1>1, <1>7, <2>1 DEF OnlyTaken
    <2>4. Counted(Noted(h, "none"), u)
        BY ONLY <2>2, d <= Len(s), <1>5, h \in Handler, s \in Seq(Symbol), u \in Seq(Symbol),
                Extends(u, s), d \in Nat, CountsFollow
    <2>5. Counted(Noted(h, "none"), u) => Counted(h, u) BY DEF Noted, Handler, Counted
    <2> QED BY <2>4, <2>5
<1>9. Settled(u, d) /\ Kept(u, Outside(u, d)) = h.full
    <2>1. d <= Len(s) OBVIOUS
    <2> QED BY ONLY <2>1, <1>5, s \in Seq(Symbol), u \in Seq(Symbol), Extends(u, s), d \in Nat, SettledStays
<1>10. Unclosed(u, d, l)
    <2> SUFFICES ASSUME NEW i \in d + 1..l, Opening(u, i), ClosedBy(u, i, Len(u)) PROVE FALSE
        BY <1>1 DEF Unclosed
    <2>1. u[i + 1] \in Tag BY DEF Opening
    <2>2. i \in Opens(u, u[i + 1])
        <3>1. i \in 1..Len(u) - 1 /\ u[i] = "[" BY DEF Opening
        <3> QED BY ONLY <3>1, ClosedBy(u, i, Len(u)), u \in Seq(Symbol), OpensAre
    <2> QED BY <2>1, <2>2, <1>7
<1>11. CASE \A i \in DOMAIN x : x[i] # "["
    <2>2. p = [h EXCEPT !.full = h.full \o x, !.buffer = <<>>] BY ONLY <1>3, <1>11 DEF Emitted
    <2>3. h.full \o x \in Seq(Symbol) /\ <<>> \in Seq(Symbol) BY <1>4, ConcatProperties, EmptySeq DEF Handler
    <2>4. PICK f : f = h.full \o x OBVIOUS
    <2>5. /\ p \in Handler /\ p.full = f /\ p.buffer = <<>> /\ p.filters = h.filters
          /\ p.notes = h.notes /\ p.recommends = h.recommends
        BY ONLY <2>2, <2>3, <2>4, h \in Handler DEF Handler
    <2>6. Kept(u, Outside(u, l)) = f
        <3>1. Kept(u, Outside(u, l)) = Kept(u, Outside(u, d)) \o SubSeq(u, d + 1, l)
            BY ONLY <1>2, <1>9, <1>10, u \in Seq(Symbol), d \in Nat, AllOutside
        <3> QED BY ONLY <3>1, <2>4, <1>2, <1>9
    <2>7. ASSUME NEW i \in d + 1..l PROVE u[i] # "["
        <3>1. i - d \in 1..l - d /\ d + (i - d) = i BY ONLY <1>2, i \in d + 1..l, d \in Nat
        <3> QED BY ONLY <3>1, <1>4, <1>11
    <2>8. Settled(u, l)
        <3>1. \A i \in 1..l : i \in 1..d \/ i \in d + 1..l BY ONLY <1>2, d \in Nat
        <3>2. \A i \in 1..d : u[i] = "[" => i < l BY ONLY <1>2, d \in Nat, <1>9 DEF Settled
        <3>3. ASSUME NEW i \in 1..d, Opening(u, i) PROVE ClosedBy(u, i, l)
            <4>1. ClosedBy(u, i, d) BY <3>3, <1>9 DEF Settled
            <4>2. \A j \in i + 2..d : j \in i + 2..l BY ONLY <1>2, i \in 1..d
            <4> QED BY <4>1, <4>2 DEF ClosedBy
        <3>4. \A i \in d + 1..l : ~Opening(u, i) BY <2>7 DEF Opening
        <3> QED BY <3>1, <3>2, <3>3, <3>4, <2>7 DEF Settled
    <2>9. SubSeq(u, l + 1, Len(u)) = <<>> BY ONLY <1>1, <1>2, SubSeqEmpty
    <2>10. Unclosed(u, l, Len(u)) BY ONLY <1>1, <1>2 DEF Unclosed
    <2>11. Counted(p, u) BY <2>5, <1>8 DEF Counted
    <2>12. Held(p, u, l) BY ONLY <2>5, <2>6, <2>8, <2>9, <2>10, <2>11 DEF Held
    <2>13. l \in 0..Len(u) BY ONLY <1>1, <1>2
    <2> QED BY ONLY <2>5, <2>12, <2>13
<1>12. CASE ~(\A i \in DOMAIN x : x[i] # "[")
    <2>2. p = [h EXCEPT !.buffer = x] BY ONLY <1>3, <1>12
    <2>3. /\ p \in Handler /\ p.full = h.full /\ p.buffer = x /\ p.filters = h.filters
          /\ p.notes = h.notes /\ p.recommends = h.recommends
        BY ONLY <2>2, <1>4, h \in Handler DEF Handler
    <2>4. Counted(p, u) BY <2>3, <1>8 DEF Counted
    <2>5. Held(p, u, d)
        <3>1. x = SubSeq(u, d + 1, Len(u)) /\ Unclosed(u, d, Len(u)) BY ONLY <1>1, <1>2, <1>10
        <3> QED BY ONLY <3>1, <2>3, <2>4, <1>9 DEF Held
    <2>6. d \in 0..Len(u) BY ONLY <1>1, <1>2, d \in Nat
    <2> QED BY ONLY <2>3, <2>5, <2>6
<1> QED BY <1>11, <1>12

\* A token that closes a control token lets go what stands before it and takes it out.
LEMMA OneTaken ==
    ASSUME NEW h \in Handler, NEW s \in Seq(Symbol), NEW t \in Seq(Symbol), NEW u \in Seq(Symbol),
           Continues(u, s, t), ClosesOne(t), Flat(u), NEW d \in Nat, d <= Len(s), Held(h, s, d),
           NEW x, Rest(x, u, d), Matched(x) # "none"
    PROVE  /\ Intercept(h, x, Matched(x)) \in Handler
           /\ \E e \in 0..Len(u) : Held(Intercept(h, x, Matched(x)), u, e)
<1>0. Extends(u, s) /\ Len(u) = Len(s) + Len(t) BY DEF Continues
<1>3. PICK n, l, g, p : n = Len(s) /\ l = Len(u) /\ g = Matched(x) /\ p = Intercept(h, x, g) OBVIOUS
<1>1. l = Len(u) /\ n = Len(s) /\ d <= n /\ d <= l
    BY <1>0, <1>3, LenProperties
<1>2. d \in Nat /\ n \in Nat /\ l \in Nat /\ u \in Seq(Symbol) BY <1>3, LenProperties
<1>4. x \in Seq(Symbol) /\ Len(x) = l - d /\ \A k \in 1..l - d : x[k] = u[d + k]
    <2>1. x = SubSeq(u, d + 1, l) BY <1>1 DEF Rest
    <2>2. l <= Len(u) BY ONLY <1>1, <1>2
    <2> QED BY ONLY <1>1, <1>2, <2>1, <2>2, PartIs
<1>5. Settled(s, d) /\ Unclosed(s, d, Len(s)) /\ Counted(h, s) /\ h.full = Kept(s, Outside(s, d))
    BY DEF Held
<1>6. g \in Tag /\ Opens(x, g) # {} BY <1>3, MatchedIs
<1>7. \A tag, k : k \in Opens(x, tag) <=> k \in Nat \ {0} /\ d + k \in Opens(u, tag)
    <2>1. d <= Len(u) BY <1>1
    <2> QED BY ONLY <2>1, u \in Seq(Symbol), d \in Nat, Rest(x, u, d), WindowOpens
<1>A. ASSUME NEW a \in d + 1..Len(u), NEW b \in d + 1..Len(u), Opening(u, a), Opening(u, b),
              ClosedBy(u, a, Len(u)), ClosedBy(u, b, Len(u))
      PROVE  a = b /\ \A j, k \in a + 2..Len(u) : u[j] = "]" /\ u[k] = "]" => j = k
    BY ONLY <1>5, <1>A, s \in Seq(Symbol), t \in Seq(Symbol), u \in Seq(Symbol), d \in Nat, d <= Len(s),
            a \in d + 1..Len(u), b \in d + 1..Len(u), Continues(u, s, t), ClosesOne(t), Flat(u), OneCloses
<1>8. PICK i : i \in Opens(x, g) BY <1>6
<1>9. i \in Nat \ {0} /\ d + i \in Opens(u, g) BY <1>7, <1>8
<1>10. PICK a : a = d + i OBVIOUS
<1>11. /\ a \in 1..l - 1 /\ u[a] = "[" /\ u[a + 1] = g /\ ClosedBy(u, a, l) /\ Opening(u, a)
       /\ a \in d + 1..l
    <2>1. a \in 1..l - 1 /\ u[a] = "[" /\ u[a + 1] = g /\ ClosedBy(u, a, l)
        BY ONLY <1>1, <1>2, <1>9, <1>10, OpensAre
    <2>2. a \in d + 1..l BY ONLY <2>1, <1>2, <1>9, <1>10
    <2> QED BY ONLY <2>1, <2>2, <1>1, <1>6 DEF Opening
<1>12. ASSUME NEW b \in d + 1..l, Opening(u, b), ClosedBy(u, b, l) PROVE b = a
    BY ONLY <1>A, <1>1, <1>11, <1>12, b \in d + 1..l
<1>13. \A tag \in Tag, b \in d + 1..l : b \in Opens(u, tag) <=> tag = g /\ b = a
    <2>1. ASSUME NEW tag \in Tag, NEW b \in d + 1..l, b \in Opens(u, tag) PROVE tag = g /\ b = a
        <3>1. b \in 1..l - 1 /\ u[b] = "[" /\ u[b + 1] = tag /\ ClosedBy(u, b, l)
            BY ONLY <2>1, <1>1, <1>2, OpensAre
        <3>2. Opening(u, b) BY ONLY <3>1, <1>1, tag \in Tag DEF Opening
        <3>3. b = a BY ONLY <3>1, <3>2, <1>12, b \in d + 1..l
        <3> QED BY ONLY <3>1, <3>3, <1>11
    <2> QED BY ONLY <2>1, <1>9, <1>10
<1>14. Least(Opens(x, g)) = i
    <2>1. ASSUME NEW k \in Opens(x, g) PROVE k = i
        <3>1. k \in Nat \ {0} /\ d + k \in Opens(u, g) BY ONLY <2>1, <1>7
        <3>2. d + k \in 1..l - 1 BY ONLY <3>1, <1>1, <1>2, OpensAre
        <3>3. d + k \in d + 1..l BY ONLY <3>1, <3>2, <1>2
        <3>4. d + k = a BY ONLY <3>1, <3>3, <1>6, <1>13
        <3> QED BY ONLY <3>1, <3>4, <1>2, <1>9, <1>10
    <2>2. i <= i BY <1>9
    <2>3. Opens(x, g) = {i} BY <2>1, <1>8
    <2> QED BY <2>2, <2>3 DEF Least
<1>15. PICK r, c : r = ClosesAt(x, i) /\ c = d + r OBVIOUS
<1>16. r \in i + 2..l - d /\ x[r] = "]"
    <2>1. ClosedBy(x, i, Len(x)) /\ i \in Nat BY ONLY <1>4, <1>8, <1>9, OpensAre
    <2>2. r \in i + 2..Len(x) /\ x[r] = "]" BY ONLY <2>1, <1>4, <1>15, ClosesFirst
    <2> QED BY <2>2, <1>4
<1>17. c \in a + 2..l /\ u[c] = "]" /\ c \in Nat
    <2>1. r \in 1..l - d /\ i \in Nat BY ONLY <1>2, <1>9, <1>16
    <2>2. u[c] = "]" BY ONLY <2>1, <1>4, <1>15, <1>16
    <2>3. c \in a + 2..l /\ c \in Nat BY ONLY <2>1, <1>2, <1>10, <1>15, <1>16
    <2> QED BY ONLY <2>2, <2>3
<1>18. ASSUME NEW j \in a + 2..l, u[j] = "]" PROVE j = c
    <2>1. \A j1, k1 \in a + 2..Len(u) : u[j1] = "]" /\ u[k1] = "]" => j1 = k1
        BY ONLY <1>1, <1>A, <1>11
    <2> QED BY ONLY <2>1, <1>1, <1>17, <1>18, j \in a + 2..l
<1>19. PICK q : q = Noted(h, g) OBVIOUS
<1>20. Counted(q, u) /\ q \in Handler /\ q.full = h.full /\ q.buffer = h.buffer
    <2>1. OnlyTaken(u, d, g, a) BY ONLY <1>1, <1>11, <1>13 DEF OnlyTaken
    <2>3. /\ Counted(Noted(h, g), u) /\ Noted(h, g) \in Handler
          /\ Noted(h, g).full = h.full /\ Noted(h, g).buffer = h.buffer
        BY ONLY <2>1, d <= Len(s), <1>0, <1>5, h \in Handler, s \in Seq(Symbol), u \in Seq(Symbol), d \in Nat,
                CountsFollow
    <2> QED BY ONLY <2>3, <1>19
<1>21. PICK v, w : v = SubSeq(u, d + 1, a - 1) /\ w = SubSeq(u, c + 1, l) OBVIOUS
<1>22. p = [q EXCEPT !.full = q.full \o v, !.buffer = w]
    <2>1. d <= Len(u) /\ 0 \in Nat /\ i - 1 \in Nat /\ 0 <= i - 1 /\ i - 1 <= Len(u) - d
          /\ (d + 0) + 1 = d + 1 /\ d + (i - 1) = a - 1 /\ 0 + 1 = 1
        BY ONLY <1>1, <1>2, <1>9, <1>10, <1>11
    <2>0. x = SubSeq(u, d + 1, Len(u)) BY DEF Rest
    <2>2. SubSeq(x, 0 + 1, i - 1) = SubSeq(u, (d + 0) + 1, d + (i - 1))
        BY ONLY <2>0, <2>1, <1>2, PartOfPart
    <2>3. SubSeq(x, 1, i - 1) = v BY <2>1, <2>2, <1>21
    <2>4. r \in Nat /\ l - d \in Nat /\ r <= l - d /\ l - d <= Len(u) - d /\ d + (l - d) = l
        BY ONLY <1>1, <1>2, <1>9, <1>16
    <2>5. SubSeq(x, r + 1, l - d) = SubSeq(u, (d + r) + 1, d + (l - d))
        BY ONLY <2>0, <2>1, <2>4, <1>2, PartOfPart
    <2>6. SubSeq(x, r + 1, Len(x)) = w BY ONLY <2>4, <2>5, <1>4, <1>15, <1>21
    <2>7. p = Intercept(h, x, g) BY ONLY <1>3
    <2>8. Intercept(h, x, g) = Emitted(q, SubSeq(x, 1, i - 1), SubSeq(x, r + 1, Len(x)))
        BY ONLY <1>14, <1>15, <1>19 DEF Intercept
    <2> QED BY ONLY <2>3, <2>6, <2>7, <2>8 DEF Emitted
<1>23. a - 1 \in Nat /\ d <= a - 1 /\ a - 1 <= l /\ c <= l BY ONLY <1>2, <1>11, <1>17
<1>24. v \in Seq(Symbol) /\ w \in Seq(Symbol) BY ONLY <1>1, <1>2, <1>17, <1>21, <1>23, PartIs
<1>25. /\ p \in Handler /\ p.full = h.full \o v /\ p.buffer = w /\ Counted(p, u)
    <2>1. q.full \o v \in Seq(Symbol) BY ONLY <1>20, <1>24, ConcatProperties DEF Handler
    <2>2. PICK f : f = q.full \o v OBVIOUS
    <2>3. /\ p \in Handler /\ p.full = f /\ p.buffer = w /\ p.filters = q.filters /\ p.notes = q.notes
          /\ p.recommends = q.recommends
        BY ONLY <2>1, <2>2, <1>20, <1>22, <1>24 DEF Handler
    <2> QED BY ONLY <2>2, <2>3, <1>20 DEF Counted
<1>26. Settled(u, d) /\ Kept(u, Outside(u, d)) = h.full
    BY ONLY d <= Len(s), <1>0, <1>2, <1>5, s \in Seq(Symbol), SettledStays
<1>27. Kept(u, Outside(u, a - 1)) = h.full \o v
    <2>1. Unclosed(u, d, a - 1)
        <3> SUFFICES ASSUME NEW b \in d + 1..a - 1, Opening(u, b), ClosedBy(u, b, Len(u)) PROVE FALSE
            BY DEF Unclosed
        <3>1. b \in d + 1..l /\ b # a BY ONLY <1>2, <1>11, b \in d + 1..a - 1
        <3> QED BY <3>1, <1>1, <1>12
    <2>2. Kept(u, Outside(u, a - 1)) = Kept(u, Outside(u, d)) \o SubSeq(u, d + 1, a - 1)
        <3>1. PICK b : b = a - 1 OBVIOUS
        <3>2. b \in Nat /\ d <= b /\ b <= Len(u) /\ Unclosed(u, d, b) BY ONLY <3>1, <2>1, <1>1, <1>23
        <3>3. Kept(u, Outside(u, b)) = Kept(u, Outside(u, d)) \o SubSeq(u, d + 1, b)
            BY ONLY <3>2, <1>2, <1>26, AllOutside
        <3> QED BY ONLY <3>1, <3>3
    <2> QED BY ONLY <2>2, <1>21, <1>26
<1>28. Outside(u, c) = Outside(u, a - 1)
    <2>1. ASSUME NEW y \in a..c PROVE InTag(u, y)
        <3>1. y \in 1..Len(u) /\ a \in 1..y BY ONLY <1>1, <1>2, <1>11, <1>17, y \in a..c
        <3>2. ~ClosedBy(u, a, y - 1)
            <4> SUFFICES ASSUME NEW j \in a + 2..y - 1, u[j] = "]" PROVE FALSE BY DEF ClosedBy
            <4>1. j \in a + 2..l /\ j # c
                BY ONLY <1>2, <1>11, <1>17, y \in a..c, j \in a + 2..y - 1
            <4> QED BY <4>1, <1>18
        <3> QED BY ONLY <3>1, <3>2, <1>1, <1>2, <1>11, InTagIs
    <2>2. \A y : y \in 1..c <=> y \in 1..a - 1 \/ y \in a..c BY ONLY <1>2, <1>11, <1>17
    <2> QED BY <2>1, <2>2 DEF Outside
<1>29. Settled(u, c)
    <2>1. ASSUME NEW b \in 1..c, u[b] = "[" PROVE b < c
        <3>1. b # c BY ONLY <2>1, <1>17
        <3> QED BY ONLY <3>1, <1>17, b \in 1..c
    <2>2. ASSUME NEW b \in 1..c, Opening(u, b) PROVE ClosedBy(u, b, c)
        <3>1. CASE b <= d
            <4>1. ClosedBy(u, b, d) BY <2>2, <3>1, <1>26 DEF Settled
            <4>2. \A j \in b + 2..d : j \in b + 2..c BY ONLY <1>2, <1>10, <1>9, <1>17, b \in 1..c
            <4> QED BY <4>1, <4>2 DEF ClosedBy
        <3>2. CASE ~(b <= d)
            <4>1. b + 1 # c /\ b # c BY <2>2, <1>17 DEF Opening, Tag
            <4>2. c \in b + 2..c BY <2>2, <4>1, <1>17
            <4> QED BY <4>2, <1>17 DEF ClosedBy
        <3> QED BY <3>1, <3>2
    <2> QED BY <2>1, <2>2 DEF Settled
<1>30. Unclosed(u, c, l)
    <2> SUFFICES ASSUME NEW b \in c + 1..l, Opening(u, b), ClosedBy(u, b, l) PROVE FALSE
        BY <1>1 DEF Unclosed
    <2>1. b \in d + 1..l /\ b # a BY ONLY <1>2, <1>11, <1>17, b \in c + 1..l
    <2> QED BY <2>1, <1>12
<1>31. Held(p, u, c)
    <2>1. w = SubSeq(u, c + 1, Len(u)) /\ Unclosed(u, c, Len(u)) BY ONLY <1>1, <1>21, <1>30
    <2> QED BY ONLY <2>1, <1>25, <1>27, <1>28, <1>29 DEF Held
<1> QED
    <2>1. c \in 0..Len(u) BY ONLY <1>1, <1>2, <1>17
    <2> QED BY ONLY <2>1, <1>3, <1>25, <1>31

\* A token keeps what the handler holds true to the text, wherever the engine cut it.
LEMMA ProcessHolds ==
    ASSUME NEW h \in Handler, NEW s \in Seq(Symbol), NEW t \in Seq(Symbol), NEW d \in Nat, d <= Len(s),
           Held(h, s, d), Flat(s \o t), ClosesOne(t)
    PROVE  Process(h, t) \in Handler /\ \E e \in 0..Len(s \o t) : Held(Process(h, t), s \o t, e)
<1>1. PICK u, x, p : u = s \o t /\ x = h.buffer \o t /\ p = Process(h, t) OBVIOUS
<1>2. u \in Seq(Symbol) /\ Continues(u, s, t) /\ Extends(u, s) BY <1>1, TextIs DEF Continues
<1>3. Rest(x, u, d)
    <2>1. SubSeq(s, d + 1, Len(s)) \o t = SubSeq(s \o t, d + 1, Len(s \o t))
        BY ONLY s \in Seq(Symbol), t \in Seq(Symbol), d \in Nat, d <= Len(s), TextIs
    <2>2. h.buffer = SubSeq(s, d + 1, Len(s)) BY DEF Held
    <2> QED BY ONLY <2>1, <2>2, <1>1 DEF Rest
<1>4. Flat(u) BY <1>1
<1>5. p \in Handler /\ \E e \in 0..Len(u) : Held(p, u, e)
    <2>1. CASE Matched(x) = "none"
        <3>1. LetsOn(p, h, x) BY ONLY <1>1, <2>1 DEF Process, LetsOn
        <3> QED BY ONLY <3>1, <2>1, <1>2, <1>3, h \in Handler, s \in Seq(Symbol), d \in Nat, d <= Len(s),
                        Held(h, s, d), NothingTaken
    <2>2. CASE Matched(x) # "none"
        <3>1. p = Intercept(h, x, Matched(x)) BY ONLY <1>1, <2>2 DEF Process
        <3>2. /\ Intercept(h, x, Matched(x)) \in Handler
              /\ \E e \in 0..Len(u) : Held(Intercept(h, x, Matched(x)), u, e)
            BY ONLY <2>2, <1>2, <1>3, <1>4, h \in Handler, s \in Seq(Symbol), d \in Nat, d <= Len(s),
                    t \in Seq(Symbol), ClosesOne(t), Held(h, s, d), OneTaken
        <3> QED BY ONLY <3>1, <3>2
    <2> QED BY <2>1, <2>2
<1> QED BY ONLY <1>1, <1>5

-----------------------------------------------------------------------------
(* The answer, from its first token to the row *)

LEMMA PrefixOf ==
    ASSUME NEW text \in Seq(Symbol), NEW m \in 0..Len(text)
    PROVE  /\ SubSeq(text, 1, m) \in Seq(Symbol) /\ Len(SubSeq(text, 1, m)) = m
           /\ \A i \in 1..m : SubSeq(text, 1, m)[i] = text[i]
           /\ Flat(text) => Flat(SubSeq(text, 1, m))
<1>1. Len(text) \in Nat /\ m \in Nat /\ m <= Len(text) BY LenProperties
<1>2. PICK s : s = SubSeq(text, 1, m) OBVIOUS
<1>3. s \in Seq(Symbol) /\ Len(s) = m /\ \A i \in 1..m : s[i] = text[i]
    <2>1. 0 \in Nat /\ 0 <= m /\ 0 + 1 = 1 /\ m - 0 = m /\ \A i \in 1..m : 0 + i = i BY <1>1
    <2>2. /\ SubSeq(text, 0 + 1, m) \in Seq(Symbol) /\ Len(SubSeq(text, 0 + 1, m)) = m - 0
          /\ \A i \in 1..m - 0 : SubSeq(text, 0 + 1, m)[i] = text[0 + i]
        BY ONLY <2>1, <1>1, text \in Seq(Symbol), PartIs
    <2> QED BY <2>1, <2>2, <1>2
<1>4. ASSUME NEW tag \in Tag, NEW i \in Opens(s, tag) PROVE i \in Opens(text, tag) /\ i \in 1..m - 1
    <2>1. i \in 1..m - 1 /\ s[i] = "[" /\ s[i + 1] = tag /\ ClosedBy(s, i, m) BY <1>3, OpensAre
    <2>2. i \in 1..Len(text) - 1 /\ i \in 1..m /\ i + 1 \in 1..m BY <2>1, <1>1
    <2>3. PICK j \in i + 2..m : s[j] = "]" BY <2>1 DEF ClosedBy
    <2>4. j \in 1..m /\ j \in i + 2..Len(text) BY <2>1, <2>3, <1>1
    <2>5. text[j] = "]" BY <2>3, <2>4, <1>3
    <2>6. ClosedBy(text, i, Len(text)) BY <2>4, <2>5 DEF ClosedBy
    <2>7. text[i] = "[" /\ text[i + 1] = tag BY <2>1, <2>2, <1>3
    <2> QED BY ONLY <2>1, <2>2, <2>6, <2>7, text \in Seq(Symbol), OpensAre
<1>5. ASSUME Flat(text) PROVE Flat(s)
    <2> SUFFICES ASSUME NEW tag \in Tag, NEW next \in Tag, NEW i \in Opens(s, tag),
                        NEW j \in Opens(s, next), i < j
                 PROVE  \E k \in i + 2..j - 1 : s[k] = "]"
        BY DEF Flat
    <2>1. i \in Opens(text, tag) /\ j \in Opens(text, next) /\ i \in 1..m - 1 /\ j \in 1..m - 1 BY <1>4
    <2>2. PICK k \in i + 2..j - 1 : text[k] = "]" BY <2>1, <1>5 DEF Flat
    <2>3. k \in 1..m BY <2>1, <2>2, <1>1
    <2> QED BY <2>2, <2>3, <1>3
<1> QED BY <1>2, <1>3, <1>5

LEMMA SentGoesOn ==
    ASSUME NEW text \in Seq(Symbol), NEW m \in Nat, NEW n \in Nat, m + n <= Len(text)
    PROVE  /\ SubSeq(text, m + 1, m + n) \in Seq(Symbol)
           /\ SubSeq(text, 1, m + n) = SubSeq(text, 1, m) \o SubSeq(text, m + 1, m + n)
<1>1. Len(text) \in Nat BY LenProperties
<1>2. PICK e : e = m + n OBVIOUS
<1>3. e \in Nat /\ m <= e /\ e <= Len(text) /\ m \in 0..Len(text) /\ e \in 0..Len(text) BY <1>1, <1>2
<1>4. PICK a, b, c : a = SubSeq(text, 1, m) /\ b = SubSeq(text, m + 1, e) /\ c = SubSeq(text, 1, e) OBVIOUS
<1>5. a \in Seq(Symbol) /\ Len(a) = m /\ \A i \in 1..m : a[i] = text[i] BY <1>3, <1>4, PrefixOf
<1>6. c \in Seq(Symbol) /\ Len(c) = e /\ \A i \in 1..e : c[i] = text[i] BY <1>3, <1>4, PrefixOf
<1>7. b \in Seq(Symbol) /\ Len(b) = e - m /\ \A k \in 1..e - m : b[k] = text[m + k]
    BY ONLY <1>3, <1>4, m \in Nat, text \in Seq(Symbol), PartIs
<1>8. PICK y : y = a \o b OBVIOUS
<1>9. /\ y \in Seq(Symbol) /\ Len(y) = m + (e - m)
      /\ \A k \in 1..m + (e - m) : y[k] = IF k <= m THEN a[k] ELSE b[k - m]
    <2>1. /\ y \in Seq(Symbol) /\ Len(y) = Len(a) + Len(b)
          /\ \A k \in 1..Len(a) + Len(b) : y[k] = IF k <= Len(a) THEN a[k] ELSE b[k - Len(a)]
        BY ONLY <1>5, <1>7, <1>8, ConcatProperties
    <2> QED BY ONLY <2>1, <1>5, <1>7
<1>10. m + (e - m) = e BY <1>3
<1>11. ASSUME NEW k \in 1..e PROVE y[k] = c[k]
    <2>1. CASE k <= m
        <3>1. k \in 1..m BY <2>1
        <3> QED BY <2>1, <3>1, <1>5, <1>6, <1>9, <1>10
    <2>2. CASE ~(k <= m)
        <3>1. k - m \in 1..e - m /\ m + (k - m) = k BY <2>2, <1>3
        <3> QED BY <2>2, <3>1, <1>6, <1>7, <1>9, <1>10
    <2> QED BY <2>1, <2>2
<1>12. y = c BY ONLY <1>6, <1>9, <1>10, <1>11, SeqEqual
<1> QED BY <1>2, <1>4, <1>7, <1>8, <1>12

LEMMA ClosesOneIs ==
    ASSUME NEW t \in Seq(Symbol), Cardinality({k \in DOMAIN t : t[k] = "]"}) <= 1
    PROVE  ClosesOne(t)
<1>1. PICK n, S : n = Len(t) /\ S = {k \in DOMAIN t : t[k] = "]"} OBVIOUS
<1>2. n \in Nat /\ DOMAIN t = 1..n BY <1>1, LenProperties
<1>3. IsFiniteSet(S) /\ Cardinality(S) <= 1
    <2>1. IsFiniteSet(1..n) BY <1>2, UpTo
    <2>2. S \in SUBSET (1..n) BY <1>1, <1>2
    <2> QED BY <2>1, <2>2, <1>1, FS_Subset
<1>4. ASSUME NEW j \in S, NEW k \in S PROVE j = k
    <2>1. IsFiniteSet({j}) /\ Cardinality({j}) = 1 BY FS_Singleton
    <2>2. {j} \in SUBSET S OBVIOUS
    <2>3. Cardinality({j}) <= Cardinality(S) /\ (Cardinality({j}) = Cardinality(S) => {j} = S)
        BY <2>2, <1>3, FS_Subset
    <2>4. Cardinality(S) \in Nat BY <1>3, FS_CardinalityType
    <2>5. Cardinality({j}) = Cardinality(S) BY <2>1, <2>3, <2>4, <1>3
    <2>6. {j} = S BY <2>3, <2>5
    <2> QED BY <2>6
<1>5. \A j \in 1..n : t[j] = "]" => j \in S BY <1>1, <1>2
<1> QED BY <1>1, <1>4, <1>5 DEF ClosesOne

\* Before the first token nothing is held and nothing was let go.
LEMMA NothingHeld == NewHandler \in Handler /\ Held(NewHandler, <<>>, 0) /\ Counted(NewHandler, <<>>)
<1>1. PICK e : e = <<>> OBVIOUS
<1>2. e \in Seq(Symbol) /\ Len(e) = 0 BY <1>1, EmptySeq
<1>3. PICK h : h = NewHandler OBVIOUS
<1>4. /\ h \in Handler /\ h.buffer = e /\ h.full = e /\ h.filters = 0 /\ h.notes = 0 /\ h.recommends = 0
    <2>1. e \in Seq(Symbol) /\ 0 \in Nat BY <1>2
    <2> QED BY ONLY <2>1, <1>1, <1>3 DEF NewHandler, Handler
<1>5. ASSUME NEW tag PROVE Tags(e, tag) = 0
    <2>1. ASSUME NEW i \in Opens(e, tag) PROVE FALSE
        <3>1. i \in 1..Len(e) - 1 BY <1>2, OpensAre
        <3> QED BY <3>1, <1>2
    <2>2. Opens(e, tag) = {} BY <2>1
    <2> QED BY <2>2, FS_EmptySet DEF Tags
<1>6. Counted(h, e) BY <1>4, <1>5 DEF Counted
<1>7. Settled(e, 0) /\ Unclosed(e, 0, Len(e)) BY <1>2 DEF Settled, Unclosed
<1>8. SubSeq(e, 0 + 1, Len(e)) = e
    <2>1. SubSeq(e, 0 + 1, 0) = <<>> BY <1>2, SubSeqEmpty
    <2> QED BY <2>1, <1>1, <1>2
<1>9. Kept(e, Outside(e, 0)) = e
    <2>1. Outside(e, 0) = {} BY DEF Outside
    <2>2. Cardinality({}) = 0 BY FS_EmptySet
    <2>3. Kept(e, {}) = [k \in 1..0 |-> e[Nth({}, k)]] BY <2>2 DEF Kept
    <2>4. 1..0 = {} OBVIOUS
    <2>5. Kept(e, {}) = <<>> BY <2>3, <2>4
    <2> QED BY <2>1, <2>5, <1>1
<1>10. Held(h, e, 0) BY <1>4, <1>6, <1>7, <1>8, <1>9 DEF Held
<1> QED BY <1>1, <1>3, <1>4, <1>6, <1>10

\* What was let go and what is held make the text without its control tokens.
LEMMA HeldMakesVisible ==
    ASSUME NEW h \in Handler, NEW s \in Seq(Symbol), NEW d \in 0..Len(s), Held(h, s, d)
    PROVE  h.full \o h.buffer = Visible(s)
<1>1. Len(s) \in Nat /\ d \in Nat /\ d <= Len(s) /\ Len(s) <= Len(s) BY LenProperties
<1>2. /\ h.buffer = SubSeq(s, d + 1, Len(s)) /\ h.full = Kept(s, Outside(s, d))
      /\ Settled(s, d) /\ Unclosed(s, d, Len(s))
    BY DEF Held
<1>3. Kept(s, Outside(s, Len(s))) = Kept(s, Outside(s, d)) \o SubSeq(s, d + 1, Len(s))
    BY ONLY <1>1, <1>2, s \in Seq(Symbol), AllOutside
<1>4. DOMAIN s = 1..Len(s) BY LenProperties
<1>5. Visible(s) = Kept(s, Outside(s, Len(s))) BY <1>4 DEF Visible, Outside
<1> QED BY <1>2, <1>3, <1>5

LEMMA FlushEnds ==
    ASSUME NEW h \in Handler, NEW s \in Seq(Symbol), NEW d \in 0..Len(s), Held(h, s, d)
    PROVE  /\ FlushRemaining(h) \in Handler /\ FlushRemaining(h).full = Visible(s)
           /\ Counted(FlushRemaining(h), s)
<1>1. PICK p, f : p = FlushRemaining(h) /\ f = h.full \o h.buffer OBVIOUS
<1>2. f = Visible(s) BY <1>1, HeldMakesVisible
<1>3. f \in Seq(Symbol) /\ <<>> \in Seq(Symbol) BY <1>1, ConcatProperties, EmptySeq DEF Handler
<1>4. p = [h EXCEPT !.full = f, !.buffer = <<>>] BY ONLY <1>1 DEF FlushRemaining, Emitted
<1>5. /\ p \in Handler /\ p.full = f /\ p.filters = h.filters /\ p.notes = h.notes
      /\ p.recommends = h.recommends
    BY ONLY <1>3, <1>4, h \in Handler DEF Handler
<1>6. Counted(h, s) BY DEF Held
<1>7. Counted(p, s) BY ONLY <1>5, <1>6 DEF Counted
<1> QED BY <1>1, <1>2, <1>5, <1>7

LEMMA PartlyShown ==
    ASSUME NEW f \in Seq(Symbol), NEW b \in Seq(Symbol)
    PROVE  IsPrefix(f, f \o b)
<1>1. PICK n, y : n = Len(f) /\ y = f \o b OBVIOUS
<1>2. n \in Nat /\ Len(b) \in Nat /\ n \in 0..n BY <1>1, LenProperties
<1>3. /\ y \in Seq(Symbol) /\ Len(y) = n + Len(b)
      /\ \A k \in 1..n + Len(b) : y[k] = IF k <= n THEN f[k] ELSE b[k - n]
    BY <1>1, ConcatProperties
<1>4. n <= Len(y) /\ n \in 0..Len(y) BY ONLY <1>2, <1>3
<1>5. PICK v, w : v = SubSeq(f, 1, n) /\ w = SubSeq(y, 1, n) OBVIOUS
<1>6. v \in Seq(Symbol) /\ Len(v) = n /\ \A i \in 1..n : v[i] = f[i] BY <1>1, <1>2, <1>5, PrefixOf
<1>7. w \in Seq(Symbol) /\ Len(w) = n /\ \A i \in 1..n : w[i] = y[i] BY ONLY <1>3, <1>4, <1>5, PrefixOf
<1>8. \A i \in 1..n : v[i] = w[i] BY ONLY <1>2, <1>3, <1>6, <1>7
<1>9. v = w BY ONLY <1>6, <1>7, <1>8, SeqEqual
<1> QED BY <1>1, <1>4, <1>5, <1>9 DEF IsPrefix

\* The handler is true to what it was sent, from the first token to the flush.
Speaking == turn.pc \in {"text", "flush", "save"}
Speech ==
    /\ answer = [text |-> answer.text, sent |-> answer.sent, ids |-> answer.ids]
    /\ answer.text \in Seq(Symbol) /\ answer.sent \in 0..Len(answer.text) /\ handler \in Handler
StreamInv ==
    /\ turn.n \in 0..MaxTurns /\ (turn.pc # "idle" => turn.n >= 1)
    /\ Speech /\ Flat(answer.text)
    /\ ~Speaking => answer = NoAnswer /\ handler = NewHandler
    /\ turn.pc # "save" => \E d \in 0..answer.sent : Held(handler, Sent, d)
    /\ turn.pc = "save" => handler.full = Visible(Sent) /\ Counted(handler, Sent)

LEMMA SentIs ==
    ASSUME Speech
    PROVE  Sent \in Seq(Symbol) /\ Len(Sent) = answer.sent /\ (Flat(answer.text) => Flat(Sent))
<1>1. answer.text \in Seq(Symbol) /\ answer.sent \in 0..Len(answer.text) BY DEF Speech
<1> QED BY ONLY <1>1, PrefixOf DEF Sent

\* Where no answer is under way nothing is held.
LEMMA NoAnswerYet ==
    /\ NoAnswer = [text |-> NoAnswer.text, sent |-> NoAnswer.sent, ids |-> NoAnswer.ids]
    /\ NoAnswer.text \in Seq(Symbol) /\ NoAnswer.sent \in 0..Len(NoAnswer.text) /\ Flat(NoAnswer.text)
    /\ NewHandler \in Handler
    /\ \E d \in 0..NoAnswer.sent : Held(NewHandler, SubSeq(NoAnswer.text, 1, NoAnswer.sent), d)
<1>1. PICK e : e = <<>> OBVIOUS
<1>2. e \in Seq(Symbol) /\ Len(e) = 0 BY <1>1, EmptySeq
<1>3. NoAnswer.text = e /\ NoAnswer.sent = 0 BY <1>1 DEF NoAnswer
<1>4. NoAnswer = [text |-> NoAnswer.text, sent |-> NoAnswer.sent, ids |-> NoAnswer.ids] BY DEF NoAnswer
<1>5. Flat(e)
    <2>1. ASSUME NEW tag, NEW i \in Opens(e, tag) PROVE FALSE
        <3>1. i \in 1..Len(e) - 1 BY <1>2, OpensAre
        <3> QED BY <3>1, <1>2
    <2> QED BY <2>1 DEF Flat
<1>6. SubSeq(e, 1, 0) = <<>>
    <2>1. SubSeq(e, 0 + 1, 0) = <<>> BY <1>2, SubSeqEmpty
    <2> QED BY <2>1
<1>7. Held(NewHandler, SubSeq(NoAnswer.text, 1, NoAnswer.sent), 0) BY <1>3, <1>6, NothingHeld
<1>8. 0 \in 0..NoAnswer.sent /\ NoAnswer.sent \in 0..Len(e) BY <1>2, <1>3
<1> QED BY ONLY <1>2, <1>3, <1>4, <1>5, <1>7, <1>8, NothingHeld

LEMMA SpeakHolds ==
    ASSUME FlatTexts, AgentLoopAssumption, StreamInv, turn \in Turn,
           NEW text \in Texts[turn.n], NEW ids \in Blocks, Speak(text, ids)
    PROVE  StreamInv'
<1>1. /\ turn.pc = "engine" /\ turn' = [turn EXCEPT !.pc = "text", !.active = {}, !.aside = {}]
      /\ answer' = [text |-> text, sent |-> 0, ids |-> ids] /\ handler' = handler
    BY DEF Speak
<1>2. turn'.pc = "text" /\ turn'.n = turn.n BY <1>1 DEF Turn
<1>3. turn.n \in 1..MaxTurns
    <2>1. turn.n \in 0..MaxTurns /\ turn.n >= 1 /\ MaxTurns \in Nat BY <1>1 DEF StreamInv, AgentLoopAssumption
    <2> QED BY <2>1
<1>4. text \in Seq(Symbol) /\ Flat(text) BY <1>3 DEF AgentLoopAssumption, FlatTexts
<1>5. handler = NewHandler BY <1>1 DEF StreamInv, Speaking
<1>6. answer'.text = text /\ answer'.sent = 0
      /\ answer' = [text |-> answer'.text, sent |-> answer'.sent, ids |-> answer'.ids]
    BY ONLY <1>1
<1>7. Len(text) \in Nat /\ 0 \in 0..Len(text) BY <1>4, LenProperties
<1>8. Speech' BY <1>1, <1>4, <1>5, <1>6, <1>7, NothingHeld DEF Speech
<1>9. Sent' = <<>>
    <2>1. SubSeq(text, 0 + 1, 0) = <<>> BY <1>4, SubSeqEmpty
    <2>2. SubSeq(text, 1, 0) = <<>> BY <2>1
    <2> QED BY <2>2, <1>6 DEF Sent
<1>10. \E d \in 0..answer'.sent : Held(handler', Sent', d)
    <2>1. 0 \in 0..answer'.sent BY <1>6
    <2> QED BY <2>1, <1>1, <1>5, <1>9, NothingHeld
<1> QED BY <1>1, <1>2, <1>4, <1>6, <1>8, <1>10 DEF StreamInv, Speaking

LEMMA TokenHolds ==
    ASSUME StreamInv, turn \in Turn, NEW n \in 1..Len(answer.text), Token(n)
    PROVE  StreamInv'
<1>1. PICK text, m, s, t : /\ text = answer.text /\ m = answer.sent /\ s = Sent
                           /\ t = SubSeq(answer.text, answer.sent + 1, answer.sent + n)
    OBVIOUS
<1>2. /\ turn.pc = "text" /\ m + n <= Len(text) /\ Cardinality({k \in DOMAIN t : t[k] = "]"}) <= 1
      /\ handler' = Process(handler, t) /\ answer' = [answer EXCEPT !.sent = @ + n] /\ turn' = turn
    BY <1>1 DEF Token
<1>3. Speech /\ Flat(text) BY <1>1 DEF StreamInv
<1>4. text \in Seq(Symbol) /\ Len(text) \in Nat /\ m \in 0..Len(text) /\ m \in Nat /\ n \in Nat /\ m + n \in Nat
      /\ handler \in Handler
    <2>1. text \in Seq(Symbol) /\ m \in 0..Len(text) /\ handler \in Handler BY <1>1, <1>3 DEF Speech
    <2>2. Len(text) \in Nat BY <2>1, LenProperties
    <2> QED BY <2>1, <2>2, <1>1
<1>5. s = SubSeq(text, 1, m) /\ t = SubSeq(text, m + 1, m + n) BY <1>1 DEF Sent
<1>6. s \in Seq(Symbol) /\ Len(s) = m BY <1>1, <1>3, SentIs
<1>7. t \in Seq(Symbol) /\ SubSeq(text, 1, m + n) = s \o t BY ONLY <1>2, <1>4, <1>5, SentGoesOn
<1>8. answer'.text = text /\ answer'.sent = m + n
      /\ answer' = [text |-> answer'.text, sent |-> answer'.sent, ids |-> answer'.ids]
    <2>1. answer = [text |-> answer.text, sent |-> answer.sent, ids |-> answer.ids] BY <1>3 DEF Speech
    <2> QED BY ONLY <2>1, <1>1, <1>2
<1>9. Sent' = s \o t BY ONLY <1>7, <1>8 DEF Sent
<1>10. PICK u : u = s \o t OBVIOUS
<1>11. Flat(u) /\ Len(u) = m + n
    <2>1. m + n \in 0..Len(text) BY <1>2, <1>4
    <2>2. Flat(SubSeq(text, 1, m + n)) /\ Len(SubSeq(text, 1, m + n)) = m + n
        BY ONLY <2>1, <1>3, <1>4, PrefixOf
    <2> QED BY ONLY <2>2, <1>7, <1>10
<1>12. ClosesOne(t) BY ONLY <1>2, <1>7, ClosesOneIs
<1>13. PICK d \in 0..m : Held(handler, s, d) BY <1>1, <1>2 DEF StreamInv
<1>14. Process(handler, t) \in Handler /\ \E e \in 0..Len(s \o t) : Held(Process(handler, t), s \o t, e)
    <2>1. d \in Nat /\ d <= Len(s) BY <1>4, <1>6
    <2>2. Flat(s \o t) BY <1>10, <1>11
    <2> QED BY ONLY <2>1, <2>2, <1>4, <1>6, <1>7, <1>12, <1>13, ProcessHolds
<1>15. handler' \in Handler /\ \E e \in 0..answer'.sent : Held(handler', Sent', e)
    BY ONLY <1>2, <1>8, <1>9, <1>10, <1>11, <1>14
<1>16. Speech'
    <2>1. m + n \in 0..Len(text) BY <1>2, <1>4
    <2> QED BY ONLY <2>1, <1>4, <1>8, <1>15 DEF Speech
<1>17. Flat(answer'.text) BY <1>3, <1>8
<1> QED BY <1>2, <1>15, <1>16, <1>17 DEF StreamInv, Speaking

LEMMA FinishHolds ==
    ASSUME StreamInv, turn \in Turn, Finish
    PROVE  StreamInv'
<1>1. /\ turn.pc = "flush" /\ handler' = FlushRemaining(handler) /\ answer' = answer
      /\ turn' = [turn EXCEPT !.pc = "save"]
    BY DEF Finish
<1>2. turn'.pc = "save" /\ turn'.n = turn.n BY <1>1 DEF Turn
<1>3. Speech /\ Flat(answer.text) BY DEF StreamInv
<1>4. PICK d \in 0..answer.sent : Held(handler, Sent, d) BY <1>1 DEF StreamInv
<1>5. PICK s : s = Sent OBVIOUS
<1>6. s \in Seq(Symbol) /\ d \in 0..Len(s) /\ Held(handler, s, d) /\ handler \in Handler
    BY <1>3, <1>4, <1>5, SentIs DEF Speech
<1>7. /\ FlushRemaining(handler) \in Handler /\ FlushRemaining(handler).full = Visible(s)
      /\ Counted(FlushRemaining(handler), s)
    BY ONLY <1>6, FlushEnds
<1>8. Sent' = s BY <1>1, <1>5 DEF Sent
<1>9. Speech' BY <1>1, <1>3, <1>7 DEF Speech
<1> QED BY <1>1, <1>2, <1>3, <1>7, <1>8, <1>9 DEF StreamInv, Speaking

LEMMA StreamStep ==
    ASSUME FlatTexts, AgentLoopAssumption, turn \in Turn, StreamInv, [Next]_vars
    PROVE  StreamInv'
<1>1. ASSUME answer' = answer, handler' = handler, turn'.n = turn.n, Speaking' <=> Speaking,
             turn'.pc = "save" <=> turn.pc = "save", turn'.pc # "idle" => turn.n >= 1
      PROVE  StreamInv'
    <2>1. Sent' = Sent BY <1>1 DEF Sent
    <2>2. Speech' BY <1>1 DEF StreamInv, Speech
    <2> QED BY <1>1, <2>1, <2>2 DEF StreamInv
<1>2. ASSUME answer' = NoAnswer, handler' = NewHandler, turn'.n \in 0..MaxTurns,
             turn'.pc # "idle" => turn'.n >= 1, turn'.pc # "save"
      PROVE  StreamInv'
    <2>1. Speech' BY <1>2, NoAnswerYet DEF Speech
    <2>2. \E d \in 0..answer'.sent : Held(handler', Sent', d) BY <1>2, NoAnswerYet DEF Sent
    <2>3. Flat(answer'.text) BY <1>2, NoAnswerYet
    <2> QED BY <1>2, <2>1, <2>2, <2>3 DEF StreamInv
<1>3. turn.n \in 0..MaxTurns /\ turn.n \in Nat /\ MaxTurns \in Nat BY DEF StreamInv, AgentLoopAssumption
<1>4. CASE \E mode \in {"agentic", "twopass"} : StartTurn(mode)
    <2>1. /\ turn.pc = "idle" /\ turn.n < MaxTurns /\ turn'.pc = "engine" /\ turn'.n = turn.n + 1
          /\ answer' = answer /\ handler' = handler
        BY <1>4 DEF StartTurn, NewTurn, spoken
    <2>2. answer = NoAnswer /\ handler = NewHandler BY <2>1 DEF StreamInv, Speaking
    <2>3. turn'.n \in 0..MaxTurns /\ turn'.n >= 1 BY <2>1, <1>3
    <2> QED BY <2>1, <2>2, <2>3, <1>2
<1>5. CASE \E s \in Spot : Exclude(s)
    <2>1. turn' = turn /\ answer' = answer /\ handler' = handler BY <1>5 DEF Exclude, spoken
    <2>2. turn.pc # "idle" => turn.n >= 1 BY DEF StreamInv
    <2> QED BY <2>1, <2>2, <1>1 DEF Speaking
<1>6. CASE \E asked \in Asks : \E n \in 0..Len(asked) * (Pieces + 1) : Ask(asked, n)
    <2>1. PICK next : /\ next \in {"flush", "tools"} /\ turn.pc = "engine"
                      /\ turn' = [turn EXCEPT !.pc = next, !.hop = @ + 1]
                      /\ answer' = answer /\ handler' = handler
        BY <1>6 DEF Ask, spoken
    <2>2. turn'.pc = next /\ turn'.n = turn.n BY <2>1 DEF Turn
    <2>3. answer = NoAnswer /\ handler = NewHandler BY <2>1 DEF StreamInv, Speaking
    <2>4. turn'.n \in 0..MaxTurns /\ turn'.n >= 1 /\ turn'.pc # "save"
        BY <2>1, <2>2, <1>3 DEF StreamInv
    <2> QED BY <2>1, <2>3, <2>4, <1>2
<1>7. CASE \E i \in 1..Len(calls) : ShortCircuit(i) \/ Embed(i) \/ Query(i) \/ Rows(i)
    <2>1. turn' = turn /\ answer' = answer /\ handler' = handler
        BY <1>7 DEF ShortCircuit, Embed, Query, Rows, Becomes, spoken
    <2>2. turn.pc # "idle" => turn.n >= 1 BY DEF StreamInv
    <2> QED BY <2>1, <2>2, <1>1 DEF Speaking
<1>8. CASE HopDone
    <2>1. PICK next, active : /\ next \in {"persist", "engine"} /\ turn.pc = "tools"
                              /\ turn' = [turn EXCEPT !.pc = next, !.saved = 0, !.active = active]
                              /\ answer' = answer /\ handler' = handler
        BY <1>8 DEF HopDone, Answered, spoken
    <2>2. turn'.pc = next /\ turn'.n = turn.n BY <2>1 DEF Turn
    <2>3. turn.n >= 1 BY <2>1 DEF StreamInv
    <2> QED BY <2>1, <2>2, <2>3, <1>1 DEF Speaking
<1>9. CASE PersistHop
    <2>1. PICK next : /\ next \in {"persist", "engine"} /\ turn.pc = "persist"
                      /\ turn' = [turn EXCEPT !.saved = @ + 1, !.pc = next]
                      /\ answer' = answer /\ handler' = handler
        BY <1>9 DEF PersistHop, spoken
    <2>2. turn'.pc = next /\ turn'.n = turn.n BY <2>1 DEF Turn
    <2>3. turn.n >= 1 BY <2>1 DEF StreamInv
    <2> QED BY <2>1, <2>2, <2>3, <1>1 DEF Speaking
<1>10. CASE turn.pc = "engine" /\ \E text \in Texts[turn.n], ids \in Blocks : Speak(text, ids)
    BY <1>10, SpeakHolds
<1>11. CASE \E n \in 1..Len(answer.text) : Token(n) BY <1>11, TokenHolds
<1>12. CASE TextEnds
    <2>1. /\ turn.pc = "text" /\ turn' = [turn EXCEPT !.pc = "flush"]
          /\ answer' = answer /\ handler' = handler
        BY <1>12 DEF TextEnds, spoken
    <2>2. turn'.pc = "flush" /\ turn'.n = turn.n BY <2>1 DEF Turn
    <2>3. turn.n >= 1 BY <2>1 DEF StreamInv
    <2> QED BY <2>1, <2>2, <2>3, <1>1 DEF Speaking
<1>13. CASE Finish BY <1>13, FinishHolds
<1>14. CASE SaveAnswer \/ Abort
    <2>1. /\ turn' = [NewTurn EXCEPT !.n = turn.n] /\ answer' = NoAnswer /\ handler' = NewHandler
        BY <1>14 DEF SaveAnswer, Abort
    <2>2. turn'.pc = "idle" /\ turn'.n = turn.n BY <2>1 DEF NewTurn
    <2> QED BY <2>1, <2>2, <1>2, <1>3
<1>15. CASE UNCHANGED vars
    <2>1. turn' = turn /\ answer' = answer /\ handler' = handler BY <1>15 DEF vars
    <2>2. turn.pc # "idle" => turn.n >= 1 BY DEF StreamInv
    <2> QED BY <2>1, <2>2, <1>1 DEF Speaking
<1> QED BY <1>4, <1>5, <1>6, <1>7, <1>8, <1>9, <1>10, <1>11, <1>12, <1>13, <1>14, <1>15
        DEF Next, Calling, Answering

\* However the engine cuts its text, where it stops and whatever becomes of the turn, the
\* screen and the row hold the text without its control tokens, and each token counts once,
\* for any texts in which no control token stands inside another.
THEOREM AnswersAreWhole == ASSUME FlatTexts PROVE Spec => []AnswerFaithful
<1>1. Init => StreamInv
    <2> SUFFICES ASSUME Init PROVE StreamInv OBVIOUS
    <2>1. turn = NewTurn /\ answer = NoAnswer /\ handler = NewHandler BY DEF Init
    <2>2. turn.pc = "idle" /\ turn.n = 0 BY <2>1 DEF NewTurn
    <2>3. 0 \in 0..MaxTurns BY AgentLoopAssumption DEF AgentLoopAssumption
    <2>4. Speech BY <2>1, NoAnswerYet DEF Speech
    <2>5. \E d \in 0..answer.sent : Held(handler, Sent, d) BY <2>1, NoAnswerYet DEF Sent
    <2>6. Flat(answer.text) BY <2>1, NoAnswerYet
    <2> QED BY <2>1, <2>2, <2>3, <2>4, <2>5, <2>6 DEF StreamInv, Speaking
<1>2. Typed /\ StreamInv => AnswerFaithful
    <2> SUFFICES ASSUME StreamInv PROVE AnswerFaithful OBVIOUS
    <2>1. PICK s, h : s = Sent /\ h = handler OBVIOUS
    <2>2. s \in Seq(Symbol) /\ Len(s) = answer.sent /\ h \in Handler
        BY <2>1, SentIs DEF StreamInv, Speech
    <2>3. CASE turn.pc = "save"
        <3>1. h.full = Visible(s) /\ Counted(h, s) BY <2>1, <2>3 DEF StreamInv
        <3>2. h.full \in Seq(Symbol) /\ <<>> \in Seq(Symbol) BY <2>2, EmptySeq DEF Handler
        <3>3. h.full \o <<>> = h.full BY <3>2, ConcatEmptySeq
        <3>4. IsPrefix(h.full, h.full) BY <3>2, <3>3, PartlyShown
        <3> QED BY <3>1, <3>4, <2>1 DEF AnswerFaithful, Counted
    <2>4. CASE turn.pc # "save"
        <3>1. PICK d \in 0..Len(s) : Held(h, s, d) BY <2>1, <2>2, <2>4 DEF StreamInv
        <3>2. h.full \o h.buffer = Visible(s) BY ONLY <2>2, <3>1, HeldMakesVisible
        <3>3. IsPrefix(h.full, h.full \o h.buffer) BY ONLY <2>2, PartlyShown DEF Handler
        <3>4. Counted(h, s) BY <3>1 DEF Held
        <3> QED BY <3>2, <3>3, <3>4, <2>1, <2>4 DEF AnswerFaithful, Counted
    <2> QED BY <2>3, <2>4
<1>3. Typed /\ Phases /\ StreamInv /\ [Next]_vars => StreamInv'
    BY AgentLoopAssumption, StreamStep DEF Typed
<1> QED BY <1>1, <1>2, <1>3, TypedInit, TypedStep, PTL DEF Spec
=============================================================================
