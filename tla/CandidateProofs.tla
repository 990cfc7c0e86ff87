---------------------------- MODULE CandidateProofs ----------------------------
(***************************************************************************)
(* The build of a trip's candidates, for any waters, sources, trips, times *)
(* and bounds: what the cards say of the drive is HERE's, no spot is lost  *)
(* on the way from the ranking to the cards, and a reply on the screen was *)
(* written for the first card and the filters of the trip.                 *)
(***************************************************************************)
EXTENDS CandidatePipeline, TLAPS, FiniteSetTheorems, SequenceTheorems

Gauged == UNION {{o.usgs : o \in Outlook[s]} : s \in Spots}
Cards == [spot : Spots, minutes : Int, estimated : BOOLEAN, score : Int, usgs : Gauged]

\* The best come first; and but for a spot long unvisited they do.
Sorted(cards) == \A i, j \in DOMAIN cards : i < j => cards[i].score >= cards[j].score
Ordered(cards) == \A i, j \in DOMAIN cards : i < j /\ cards[i].score < cards[j].score => Old[cards[i].spot]
Across(cards, others) ==
    \A i \in DOMAIN cards, j \in DOMAIN others : cards[i].score < others[j].score => Old[cards[i].spot]

-----------------------------------------------------------------------------
(* Places of a list, kept in order *)

LEMMA UpTo ==
    ASSUME NEW n \in Nat
    PROVE  IsFiniteSet(1..n) /\ Cardinality(1..n) = n
<1>1. 1 \in Int /\ n \in Int OBVIOUS
<1>2. IsFiniteSet(1..n) /\ Cardinality(1..n) = IF 1 > n THEN 0 ELSE n - 1 + 1
    BY ONLY <1>1, FS_Interval
<1> QED BY <1>2

\* Among n places each one from the first to the n-th smallest exists: counting the
\* places up to a place numbers them without a gap.
LEMMA PlaceExists ==
    ASSUME NEW S \in SUBSET Nat, IsFiniteSet(S), NEW k \in 1..Cardinality(S)
    PROVE  \E i \in S : Cardinality({j \in S : j <= i}) = k
<1> DEFINE upto(i) == {j \in S : j <= i}
           f == [i \in S |-> Cardinality(upto(i))]
<1>1. ASSUME NEW i \in S PROVE IsFiniteSet(upto(i)) /\ Cardinality(upto(i)) \in 1..Cardinality(S)
    <2>1. IsFiniteSet(upto(i)) /\ Cardinality(upto(i)) <= Cardinality(S) BY FS_Subset
    <2>2. IsFiniteSet({i}) /\ Cardinality({i}) = 1 BY FS_Singleton
    <2>3. {i} \in SUBSET upto(i) OBVIOUS
    <2>4. 1 <= Cardinality(upto(i)) BY <2>1, <2>2, <2>3, FS_Subset
    <2>5. Cardinality(upto(i)) \in Nat /\ Cardinality(S) \in Nat BY <2>1, FS_CardinalityType
    <2> QED BY <2>1, <2>4, <2>5
<1>2. ASSUME NEW i \in S, NEW j \in S, i < j PROVE Cardinality(upto(i)) # Cardinality(upto(j))
    <2>1. \A x \in S : x \in Nat OBVIOUS
    <2>2. \A x \in S : x <= i => x <= j BY <1>2, <2>1
    <2>3. j \in upto(j) /\ j \notin upto(i) BY <1>2
    <2>4. IsFiniteSet(upto(j)) BY <1>1
    <2>5. upto(i) \in SUBSET upto(j) BY <2>2
    <2> QED BY <2>5, <2>3, <2>4, FS_Subset
<1>3. ASSUME NEW i \in S, NEW j \in S, f[i] = f[j] PROVE i = j
    <2>1. i < j \/ j < i \/ i = j OBVIOUS
    <2> QED BY <2>1, <1>2, <1>3
<1>4. f \in [S -> 1..Cardinality(S)] BY <1>1
<1>5. f \in Injection(S, 1..Cardinality(S)) BY <1>3, <1>4 DEF Injection, IsInjective
<1>6. Cardinality(S) \in Nat BY FS_CardinalityType
<1>7. IsFiniteSet(1..Cardinality(S)) /\ Cardinality(1..Cardinality(S)) = Cardinality(S)
    BY <1>6, UpTo
<1>8. f \in Surjection(S, 1..Cardinality(S)) BY <1>5, <1>7, FS_Injection
<1>9. PICK i \in S : f[i] = k BY <1>8 DEF Surjection
<1> QED BY <1>9

\* What is kept of a list is a list of its elements, in its order, and each place kept is in it.
LEMMA KeptIsList ==
    ASSUME NEW T, NEW seq \in Seq(T), NEW S \in SUBSET DOMAIN seq
    PROVE  /\ Cardinality(S) \in Nat /\ Cardinality(S) <= Len(seq)
           /\ Kept(seq, S) \in Seq(T) /\ Len(Kept(seq, S)) = Cardinality(S)
           /\ DOMAIN Kept(seq, S) = 1..Cardinality(S)
           /\ \A k \in 1..Cardinality(S) : Nth(S, k) \in S /\ Kept(seq, S)[k] = seq[Nth(S, k)]
           /\ \A k, l \in 1..Cardinality(S) : k < l => Nth(S, k) < Nth(S, l)
           /\ \A i \in S : \E k \in 1..Cardinality(S) : Nth(S, k) = i
<1>1. Len(seq) \in Nat BY LenProperties
<1>2. DOMAIN seq = 1..Len(seq) BY LenProperties
<1>3. IsFiniteSet(1..Len(seq)) /\ Cardinality(1..Len(seq)) = Len(seq) BY <1>1, UpTo
<1>4. IsFiniteSet(S) /\ Cardinality(S) <= Len(seq) BY <1>1, <1>2, <1>3, FS_Subset
<1>5. Cardinality(S) \in Nat BY <1>4, FS_CardinalityType
<1>6. ASSUME NEW k \in 1..Cardinality(S)
      PROVE  Nth(S, k) \in S /\ Cardinality({j \in S : j <= Nth(S, k)}) = k
    <2>1. S \in SUBSET Nat BY <1>2
    <2>2. \E i \in S : Cardinality({j \in S : j <= i}) = k BY <1>4, <2>1, PlaceExists
    <2> QED BY <2>2 DEF Nth
<1>7. \A k \in 1..Cardinality(S) : seq[Nth(S, k)] \in T BY <1>1, <1>2, <1>6, ElementOfSeq
<1>8. Kept(seq, S) \in [1..Cardinality(S) -> T] BY <1>7 DEF Kept
<1>9. Kept(seq, S) \in Seq(T) /\ Len(Kept(seq, S)) = Cardinality(S) BY <1>5, <1>8
<1>10. ASSUME NEW i \in S, NEW j \in S, i < j
      PROVE  Cardinality({x \in S : x <= i}) < Cardinality({x \in S : x <= j})
    <2>1. \A x \in S : x \in Nat BY <1>2
    <2>2. IsFiniteSet({x \in S : x <= i}) /\ IsFiniteSet({x \in S : x <= j}) BY <1>4, FS_Subset
    <2>3. {x \in S : x <= i} \in SUBSET {x \in S : x <= j} BY <2>1, <1>10
    <2>4. j \in {x \in S : x <= j} /\ j \notin {x \in S : x <= i} BY <2>1, <1>10
    <2>5. Cardinality({x \in S : x <= i}) \in Nat /\ Cardinality({x \in S : x <= j}) \in Nat
        BY <2>2, FS_CardinalityType
    <2> QED BY <2>2, <2>3, <2>4, <2>5, FS_Subset
<1>11. \A x \in S : x \in Nat BY <1>1, <1>2
<1>12. ASSUME NEW k \in 1..Cardinality(S), NEW l \in 1..Cardinality(S), k < l
       PROVE  Nth(S, k) < Nth(S, l)
    <2>1. PICK x \in S : x = Nth(S, k) /\ Cardinality({j \in S : j <= x}) = k BY <1>6
    <2>2. PICK y \in S : y = Nth(S, l) /\ Cardinality({j \in S : j <= y}) = l BY <1>6
    <2>3. ~(y < x)
        <3>1. SUFFICES ASSUME y < x PROVE FALSE OBVIOUS
        <3>2. l < k BY <3>1, <2>1, <2>2, <1>10
        <3>3. k \in Int /\ l \in Int BY <1>5
        <3> QED BY <3>2, <3>3, <1>12
    <2>4. x # y
        <3>1. k \in Int /\ l \in Int BY <1>5
        <3>2. x = y => k = l BY <2>1, <2>2
        <3> QED BY <3>1, <3>2, <1>12
    <2>5. x \in Nat /\ y \in Nat BY <1>11
    <2> QED BY <2>1, <2>2, <2>3, <2>4, <2>5
<1>13. ASSUME NEW i \in S PROVE \E k \in 1..Cardinality(S) : Nth(S, k) = i
    <2>1. PICK k : k = Cardinality({x \in S : x <= i}) OBVIOUS
    <2>2. IsFiniteSet({x \in S : x <= i}) /\ k <= Cardinality(S) BY <1>4, <2>1, FS_Subset
    <2>3. IsFiniteSet({i}) /\ Cardinality({i}) = 1 BY FS_Singleton
    <2>4. {i} \in SUBSET {x \in S : x <= i} BY <1>11
    <2>5. 1 <= k BY <2>1, <2>2, <2>3, <2>4, FS_Subset
    <2>6. k \in Nat BY <2>1, <2>2, FS_CardinalityType
    <2>7. k \in 1..Cardinality(S) BY <1>5, <2>2, <2>5, <2>6
    <2>8. PICK y \in S : y = Nth(S, k) /\ Cardinality({j \in S : j <= y}) = k BY <1>6, <2>7
    <2>9. ~(i < y)
        <3>1. SUFFICES ASSUME i < y PROVE FALSE OBVIOUS
        <3>2. k < k BY <3>1, <2>1, <2>8, <1>10
        <3> QED BY <3>2, <2>6
    <2>10. ~(y < i)
        <3>1. SUFFICES ASSUME y < i PROVE FALSE OBVIOUS
        <3>2. k < k BY <3>1, <2>1, <2>8, <1>10
        <3> QED BY <3>2, <2>6
    <2>11. i \in Nat /\ y \in Nat BY <1>11
    <2> QED BY <2>7, <2>8, <2>9, <2>10, <2>11
<1> QED BY <1>4, <1>5, <1>6, <1>8, <1>9, <1>12, <1>13 DEF Kept


-----------------------------------------------------------------------------
(* A list in the order of a relation, told by counting what comes before *)

\* In a strict total order of n places those that come before number the places from 0 to n - 1.
LEMMA RankExists ==
    ASSUME NEW n \in Nat, NEW R \in SUBSET ((1..n) \X (1..n)),
           \A i \in 1..n : <<i, i>> \notin R,
           \A i, j, k \in 1..n : <<i, j>> \in R /\ <<j, k>> \in R => <<i, k>> \in R,
           \A i, j \in 1..n : i # j => <<i, j>> \in R \/ <<j, i>> \in R
    PROVE  /\ \A k \in 1..n : \E i \in 1..n : Cardinality({j \in 1..n : <<j, i>> \in R}) = k - 1
           /\ \A i, j \in 1..n : Cardinality({k \in 1..n : <<k, i>> \in R}) < Cardinality({k \in 1..n : <<k, j>> \in R})
                                    => <<j, i>> \notin R
<1> DEFINE D == 1..n
           before(i) == {j \in D : <<j, i>> \in R}
           f == [i \in D |-> Cardinality(before(i)) + 1]
<1>1. IsFiniteSet(D) /\ Cardinality(D) = n BY UpTo
<1>2. \A i, j \in D : j \in before(i) <=> <<j, i>> \in R OBVIOUS
<1>3. \A i \in D : before(i) \in SUBSET D /\ i \notin before(i) OBVIOUS
<1> HIDE DEF D, before
<1>4. ASSUME NEW i \in D PROVE IsFiniteSet(before(i)) /\ Cardinality(before(i)) \in 0..n - 1
    <2>1. PICK B : B = before(i) OBVIOUS
    <2>2. B \in SUBSET D /\ B # D BY <1>3, <2>1
    <2>3. IsFiniteSet(B) /\ Cardinality(B) <= n /\ Cardinality(B) # n BY <1>1, <2>2, FS_Subset
    <2>4. Cardinality(B) \in Nat BY <2>3, FS_CardinalityType
    <2> QED BY <2>1, <2>3, <2>4
<1>5. ASSUME NEW i \in D, NEW j \in D, <<i, j>> \in R
      PROVE  Cardinality(before(i)) < Cardinality(before(j))
    <2>1. PICK A : A = before(i) OBVIOUS
    <2>2. PICK B : B = before(j) OBVIOUS
    <2>3. \A k \in D : <<k, i>> \in R => <<k, j>> \in R BY <1>5 DEF D
    <2>4. A \in SUBSET B /\ A # B BY <1>2, <1>3, <1>5, <2>1, <2>2, <2>3
    <2>5. IsFiniteSet(B) /\ Cardinality(A) \in Int /\ Cardinality(B) \in Int BY <1>4, <2>1, <2>2
    <2>6. Cardinality(A) <= Cardinality(B) /\ Cardinality(A) # Cardinality(B) BY <2>4, <2>5, FS_Subset
    <2> QED BY <2>1, <2>2, <2>5, <2>6
<1>6. ASSUME NEW i \in D PROVE f[i] = Cardinality(before(i)) + 1 /\ f[i] \in D
    BY <1>4 DEF D
<1>7. f \in [D -> D] BY <1>6
<1>8. ASSUME NEW i \in D, NEW j \in D, i # j PROVE f[i] # f[j]
    <2>1. <<i, j>> \in R \/ <<j, i>> \in R BY <1>8 DEF D
    <2>2. PICK a \in Int : a = Cardinality(before(i)) BY <1>4
    <2>3. PICK b \in Int : b = Cardinality(before(j)) BY <1>4
    <2>4. a < b \/ b < a BY <1>5, <2>1, <2>2, <2>3
    <2> QED BY <1>6, <2>2, <2>3, <2>4
<1> HIDE DEF f
<1>9. f \in Injection(D, D) BY <1>7, <1>8 DEF Injection, IsInjective
<1>10. f \in Surjection(D, D) BY <1>1, <1>9, FS_Injection
<1>11. ASSUME NEW k \in D PROVE \E i \in D : Cardinality(before(i)) = k - 1
    <2>1. PICK i \in D : f[i] = k BY <1>10 DEF Surjection
    <2>2. PICK a \in Int : a = Cardinality(before(i)) BY <1>4
    <2>3. k = a + 1 BY <1>6, <2>1, <2>2
    <2> QED BY <2>2, <2>3
<1>12. ASSUME NEW i \in D, NEW j \in D, Cardinality(before(i)) < Cardinality(before(j))
       PROVE  <<j, i>> \notin R
    <2>1. PICK a \in Int : a = Cardinality(before(i)) BY <1>4
    <2>2. PICK b \in Int : b = Cardinality(before(j)) BY <1>4
    <2>3. <<j, i>> \in R => b < a BY <1>5, <2>1, <2>2
    <2> QED BY <1>12, <2>1, <2>2, <2>3
<1> QED BY <1>11, <1>12 DEF D, before

\* The ranking has the cards it was given, the best first.
LEMMA RankedIsSorted ==
    ASSUME NEW cards \in Seq(Cards)
    PROVE  /\ Ranked(cards) \in Seq(Cards) /\ Sorted(Ranked(cards))
           /\ \A k \in DOMAIN Ranked(cards) : Ranked(cards)[k] \in Range(cards)
<1> DEFINE D == DOMAIN cards
           less(j, i) == \/ RankedBefore(cards[j], cards[i])
                         \/ ~RankedBefore(cards[i], cards[j]) /\ j < i
           before(i) == {j \in D : less(j, i)}
           R == {p \in D \X D : less(p[1], p[2])}
           pos(k) == CHOOSE i \in D : Cardinality(before(i)) = k - 1
           n == Len(cards)
<1>1. n \in Nat BY LenProperties
<1>2. D = 1..n BY LenProperties
<1>3. \A i \in D : cards[i] \in Cards BY <1>1, <1>2, ElementOfSeq
<1>4. \A i \in D : cards[i].score \in Int /\ cards[i].minutes \in Int /\ i \in Int BY <1>1, <1>2, <1>3 DEF Cards
<1>5. \A i \in D : ~less(i, i) BY <1>4 DEF RankedBefore
<1>6. \A i, j, k \in D : less(i, j) /\ less(j, k) => less(i, k) BY <1>4 DEF RankedBefore
<1>7. \A i, j \in D : i # j => less(i, j) \/ less(j, i) BY <1>4 DEF RankedBefore
<1>8. \A i, j \in D : less(i, j) => ~(cards[j].score > cards[i].score) BY <1>4 DEF RankedBefore
<1>9. Ranked(cards) = [k \in D |-> cards[pos(k)]] BY DEF Ranked
<1> HIDE DEF less
<1>10. \A i, j \in D : <<i, j>> \in R <=> less(i, j) OBVIOUS
<1>11. R \in SUBSET (D \X D) OBVIOUS
<1>12. \A i \in D : before(i) = {j \in D : <<j, i>> \in R} OBVIOUS
<1> HIDE DEF R, before
<1>13. \A i \in D : <<i, i>> \notin R BY <1>5, <1>10
<1>14. \A i, j, k \in D : <<i, j>> \in R /\ <<j, k>> \in R => <<i, k>> \in R BY <1>10, <1>6
<1>15. \A i, j \in D : i # j => <<i, j>> \in R \/ <<j, i>> \in R BY <1>10, <1>7
<1>16. /\ \A k \in D : \E i \in D : Cardinality({j \in D : <<j, i>> \in R}) = k - 1
       /\ \A i, j \in D : Cardinality({k \in D : <<k, i>> \in R}) < Cardinality({k \in D : <<k, j>> \in R})
                             => <<j, i>> \notin R
    <2> HIDE DEF D, n
    <2>1. R \in SUBSET ((1..n) \X (1..n)) BY <1>2, <1>11
    <2> QED BY <1>1, <1>2, <1>13, <1>14, <1>15, <2>1, RankExists
<1>17. \A k \in D : \E i \in D : Cardinality(before(i)) = k - 1 BY <1>12, <1>16
<1>18. \A i, j \in D : Cardinality(before(i)) < Cardinality(before(j)) => <<j, i>> \notin R BY <1>12, <1>16
<1>19. \A k \in D : pos(k) \in D /\ Cardinality(before(pos(k))) = k - 1 BY <1>17
<1> HIDE DEF pos, D
<1>20. Ranked(cards) \in Seq(Cards)
    <2>1. Ranked(cards) \in [1..n -> Cards] BY <1>2, <1>3, <1>19, <1>9
    <2> HIDE DEF n
    <2> QED BY <1>1, <2>1
<1>21. DOMAIN Ranked(cards) = D BY <1>9
<1>22. ASSUME NEW k \in D, NEW l \in D, k < l PROVE cards[pos(k)].score >= cards[pos(l)].score
    <2>1. PICK x \in D : x = pos(k) /\ Cardinality(before(x)) = k - 1 BY <1>19
    <2>2. PICK y \in D : y = pos(l) /\ Cardinality(before(y)) = l - 1 BY <1>19
    <2>3. k \in Int /\ l \in Int BY <1>4
    <2>4. Cardinality(before(x)) < Cardinality(before(y)) BY <1>22, <2>3, <2>1, <2>2
    <2>5. x # y
        <3>1. x = y => k - 1 = l - 1 BY <2>1, <2>2
        <3> QED BY <1>22, <2>3, <3>1
    <2>6. <<y, x>> \notin R BY <1>18, <2>4
    <2>7. x # y /\ ~less(y, x) BY <1>10, <2>5, <2>6
    <2>8. less(x, y) BY <1>7, <2>7
    <2>9. ~(cards[y].score > cards[x].score) BY <1>8, <2>8
    <2>10. cards[x].score >= cards[y].score BY <1>4, <2>9
    <2> QED BY <2>1, <2>2, <2>10
<1>23. \A k \in D : Ranked(cards)[k] \in Range(cards) BY <1>19, <1>9 DEF Range, D
<1> QED BY <1>9, <1>20, <1>21, <1>22, <1>23 DEF Sorted

-----------------------------------------------------------------------------
(* The lists of cards that are cut, rotated, filtered and joined *)

\* A list that is cut short is the beginning of it, and one that stays short is whole.
LEMMA CutIsPrefix ==
    ASSUME NEW T, NEW seq \in Seq(T), NEW n \in Nat
    PROVE  /\ Cut(seq, n) \in Seq(T) /\ Len(Cut(seq, n)) <= Len(seq) /\ Len(Cut(seq, n)) <= n
           /\ \A i \in 1..Len(Cut(seq, n)) : Cut(seq, n)[i] = seq[i]
           /\ Len(Cut(seq, n)) < n => Cut(seq, n) = seq
<1>1. Len(seq) \in Nat BY LenProperties
<1>2. PICK m \in {n, Len(seq)} : m <= n /\ m <= Len(seq) BY <1>1
<1>3. Min({n, Len(seq)}) = m BY <1>1, <1>2 DEF Min
<1>4. \A i \in 1..m : seq[i] \in T BY <1>1, <1>2, ElementOfSeq
<1>5. m \in Nat /\ 1 \in Int /\ m \in Int BY <1>1, <1>2
<1>6. PICK cut : cut = SubSeq(seq, 1, m) OBVIOUS
<1>7. /\ cut \in Seq(T) /\ Len(cut) = (IF 1 <= m THEN m - 1 + 1 ELSE 0)
      /\ \A i \in 1..m - 1 + 1 : cut[i] = seq[1 + i - 1]
    BY <1>4, <1>5, <1>6, SubSeqProperties
<1>8. Len(cut) = m BY <1>5, <1>7
<1>9. \A i \in 1..m : cut[i] = seq[i] BY <1>5, <1>7
<1>10. m < n => cut = seq
    <2>1. SUFFICES ASSUME m < n PROVE cut = seq OBVIOUS
    <2>2. m = Len(seq) BY <1>1, <1>2, <2>1
    <2> QED BY <1>6, <2>2, SubSeqFull
<1> QED BY <1>2, <1>3, <1>6, <1>7, <1>8, <1>9, <1>10 DEF Cut

LEMMA LeastPlace ==
    ASSUME NEW T, NEW seq \in Seq(T), NEW S \in SUBSET DOMAIN seq, S # {}
    PROVE  Min(S) \in S /\ \A j \in S : Min(S) <= j
<1>1. PICK n \in Nat : n = Cardinality(S) BY KeptIsList
<1>2. \A k \in 1..n : Nth(S, k) \in S BY <1>1, KeptIsList
<1>3. \A k, l \in 1..n : k < l => Nth(S, k) < Nth(S, l) BY <1>1, KeptIsList
<1>4. \A i \in S : \E k \in 1..n : Nth(S, k) = i BY <1>1, KeptIsList
<1>5. 1 \in 1..n BY <1>4
<1>6. PICK m \in S : m = Nth(S, 1) BY <1>2, <1>5
<1>7. Len(seq) \in Nat BY LenProperties
<1>8. DOMAIN seq = 1..Len(seq) BY LenProperties
<1>9. \A j \in S : j \in Nat BY <1>7, <1>8
<1>10. ASSUME NEW j \in S PROVE m <= j
    <2>1. PICK k \in 1..n : Nth(S, k) = j BY <1>4
    <2>2. k = 1 \/ 1 < k OBVIOUS
    <2>3. k = 1 => m = j BY <1>6, <2>1
    <2>4. 1 < k => m < j BY <1>3, <1>5, <1>6, <2>1
    <2> QED BY <1>9, <2>2, <2>3, <2>4
<1> QED BY <1>6, <1>10 DEF Min

\* What is kept of a list in order is in order.
LEMMA KeptOrdered ==
    ASSUME NEW cards \in Seq(Cards), Ordered(cards), NEW S \in SUBSET DOMAIN cards
    PROVE  Kept(cards, S) \in Seq(Cards) /\ Ordered(Kept(cards, S))
<1>1. PICK n : n = Cardinality(S) OBVIOUS
<1>2. Kept(cards, S) \in Seq(Cards) /\ DOMAIN Kept(cards, S) = 1..n BY <1>1, KeptIsList
<1>3. \A k \in 1..n : Nth(S, k) \in S /\ Kept(cards, S)[k] = cards[Nth(S, k)] BY <1>1, KeptIsList
<1>4. \A k, l \in 1..n : k < l => Nth(S, k) < Nth(S, l) BY <1>1, KeptIsList
<1> QED BY <1>2, <1>3, <1>4 DEF Ordered

\* Two lists in order, one after the other, are in order if they are across them.
LEMMA JoinedOrdered ==
    ASSUME NEW cards \in Seq(Cards), NEW others \in Seq(Cards),
           Ordered(cards), Ordered(others), Across(cards, others)
    PROVE  Ordered(cards \o others)
<1>1. PICK m \in Nat : m = Len(cards) BY LenProperties
<1>2. PICK n \in Nat : n = Len(others) BY LenProperties
<1>3. DOMAIN cards = 1..m BY <1>1, LenProperties
<1>4. DOMAIN others = 1..n BY <1>2, LenProperties
<1>5. PICK all : all = cards \o others OBVIOUS
<1>6. /\ all \in Seq(Cards) /\ Len(all) = m + n
      /\ \A i \in 1..m + n : all[i] = IF i <= m THEN cards[i] ELSE others[i - m]
    BY <1>1, <1>2, <1>5, ConcatProperties
<1>7. DOMAIN all = 1..m + n BY <1>6, LenProperties
<1>8. ASSUME NEW i \in 1..m + n, NEW j \in 1..m + n, i < j, all[i].score < all[j].score
      PROVE  Old[all[i].spot]
    <2>1. CASE j <= m
        <3>1. i \in 1..m /\ j \in 1..m /\ all[i] = cards[i] /\ all[j] = cards[j] BY <1>6, <1>8, <2>1
        <3> QED BY <1>3, <1>8, <3>1 DEF Ordered
    <2>2. CASE i <= m /\ ~(j <= m)
        <3>1. i \in 1..m /\ j - m \in 1..n /\ all[i] = cards[i] /\ all[j] = others[j - m] BY <1>6, <2>2
        <3> QED BY <1>3, <1>4, <1>8, <3>1 DEF Across
    <2>3. CASE ~(i <= m)
        <3>1. /\ i - m \in 1..n /\ j - m \in 1..n /\ i - m < j - m
              /\ all[i] = others[i - m] /\ all[j] = others[j - m]
            BY <1>6, <1>8, <2>3
        <3> QED BY <1>4, <1>8, <3>1 DEF Ordered
    <2> QED BY <2>1, <2>2, <2>3
<1> QED BY <1>5, <1>7, <1>8 DEF Ordered

\* The cards of a list whose spot is not among others.
Gone(cards, others) == {c \in Range(cards) : \A d \in Range(others) : d.spot # c.spot}

\* The variety rule puts one card, of a spot long unvisited, before better ones, and costs one card its place.
LEMMA RotatedKeeps ==
    ASSUME NEW cards \in Seq(Cards), Sorted(cards), NEW w \in Nat \ {0}
    PROVE  /\ Rotated(cards, w, Old) \in Seq(Cards) /\ Ordered(Rotated(cards, w, Old))
           /\ Range(Rotated(cards, w, Old)) \subseteq Range(cards)
           /\ \A c, d \in Gone(cards, Rotated(cards, w, Old)) : c = d
           /\ Gone(cards, Rotated(cards, w, Old)) # {} => \E c \in Range(cards) : Old[c.spot]
<1> DEFINE rest == {i \in w + 1..Len(cards) : Old[cards[i].spot]}
           m == Min(rest)
           S == {k \in w + 1..Len(cards) : cards[k].spot # cards[m].spot}
           first == SubSeq(cards, 1, w - 1)
           r == Rotated(cards, w, Old)
<1>1. PICK n \in Nat : n = Len(cards) BY LenProperties
<1>2. DOMAIN cards = 1..n BY <1>1, LenProperties
<1>3. \A i \in 1..n : cards[i] \in Cards BY <1>1, ElementOfSeq
<1>4. ASSUME NEW i \in 1..n, NEW j \in 1..n, i < j PROVE ~(cards[i].score < cards[j].score)
    <2>1. PICK a \in Int : a = cards[i].score BY <1>3 DEF Cards
    <2>2. PICK b \in Int : b = cards[j].score BY <1>3 DEF Cards
    <2>3. a >= b BY <1>2, <1>4, <2>1, <2>2 DEF Sorted
    <2> QED BY <2>1, <2>2, <2>3
<1>5. CASE r = cards
    <2>1. Ordered(cards) BY <1>2, <1>4 DEF Ordered
    <2>2. Gone(cards, cards) = {} BY DEF Gone
    <2> QED BY <1>5, <2>1, <2>2
<1>6. CASE r # cards
    <2>1. rest # {} /\ r = first \o <<cards[m]>> \o Kept(cards, S) BY <1>6 DEF Rotated
    <2>2. rest \in SUBSET DOMAIN cards BY <1>1, <1>2
    <2>3. m \in rest BY <2>1, <2>2, LeastPlace
    <2>4. m \in 1..n /\ w + 1 <= m /\ Old[cards[m].spot] BY <1>1, <2>3
    <2>5. S \in SUBSET DOMAIN cards BY <1>1, <1>2
    <2>6. \A k \in S : w + 1 <= k /\ k \in 1..n BY <1>1
    <2>7. \A k \in 1..n : w < k => k \in S \/ cards[k].spot = cards[m].spot BY <1>1
    <2> HIDE DEF rest, m, S
    <2>8. w - 1 \in Int /\ 1 \in Int /\ \A i \in 1..w - 1 : cards[i] \in Cards BY <1>1, <1>3, <2>4
    <2>9. /\ first \in Seq(Cards) /\ Len(first) = (IF 1 <= w - 1 THEN w - 1 - 1 + 1 ELSE 0)
          /\ \A i \in 1..w - 1 - 1 + 1 : first[i] = cards[1 + i - 1]
        BY <2>8, SubSeqProperties
    <2>10. Len(first) = w - 1 /\ \A i \in 1..w - 1 : first[i] = cards[i] BY <2>9
    <2> HIDE DEF first
    <2>11. <<cards[m]>> \in Seq(Cards) /\ Len(<<cards[m]>>) = 1 /\ <<cards[m]>>[1] = cards[m] BY <1>3, <2>4
    <2>12. PICK one \in Seq(Cards) : one = <<cards[m]>> /\ Len(one) = 1 /\ one[1] = cards[m] BY <2>11
    <2>13. PICK top : top = first \o one OBVIOUS
    <2>14. /\ top \in Seq(Cards) /\ Len(top) = w - 1 + 1
           /\ \A i \in 1..w - 1 + 1 : top[i] = IF i <= w - 1 THEN first[i] ELSE one[i - (w - 1)]
        BY <2>9, <2>10, <2>12, <2>13, ConcatProperties
    <2>15. Len(top) = w /\ top[w] = cards[m] /\ \A i \in 1..w - 1 : top[i] = cards[i]
        <3>1. w - 1 + 1 = w /\ w \in 1..w /\ ~(w <= w - 1) /\ w - (w - 1) = 1 OBVIOUS
        <3>2. Len(top) = w /\ \A i \in 1..w : top[i] = IF i <= w - 1 THEN first[i] ELSE one[i - (w - 1)]
            BY <2>14, <3>1
        <3>3. top[w] = cards[m] BY <2>12, <3>1, <3>2
        <3>4. \A i \in 1..w - 1 : i \in 1..w /\ i <= w - 1 OBVIOUS
        <3> QED BY <2>10, <3>2, <3>3, <3>4
    <2>16. PICK s \in Nat : s = Cardinality(S) BY <2>5, KeptIsList
    <2>17. PICK others \in Seq(Cards) :
              /\ others = Kept(cards, S) /\ Len(others) = s
              /\ \A k \in 1..s : Nth(S, k) \in S /\ others[k] = cards[Nth(S, k)]
        BY <2>5, <2>16, KeptIsList
    <2>18. \A k, l \in 1..s : k < l => Nth(S, k) < Nth(S, l) BY <2>5, <2>16, KeptIsList
    <2>19. \A i \in S : \E k \in 1..s : Nth(S, k) = i BY <2>5, <2>16, KeptIsList
    <2>20. PICK rot : rot = top \o others OBVIOUS
    <2>21. rot = r BY <2>1, <2>12, <2>13, <2>17, <2>20
    <2>22. /\ rot \in Seq(Cards) /\ Len(rot) = w + s
           /\ \A i \in 1..w + s : rot[i] = IF i <= w THEN top[i] ELSE others[i - w]
        <3>1. Len(top) = w /\ Len(others) = s /\ top \in Seq(Cards) BY <2>14, <2>15, <2>17
        <3>2. /\ top \o others \in Seq(Cards) /\ Len(top \o others) = Len(top) + Len(others)
              /\ \A i \in 1..Len(top) + Len(others) :
                    (top \o others)[i] = IF i <= Len(top) THEN top[i] ELSE others[i - Len(top)]
            BY <3>1, ConcatProperties
        <3> QED BY <2>20, <3>1, <3>2
    <2>23. DOMAIN rot = 1..w + s BY <2>22, LenProperties
    <2> DEFINE p == [i \in 1..w + s |-> IF i < w THEN i ELSE IF i = w THEN m ELSE Nth(S, i - w)]
    <2>24. \A i \in 1..w + s : /\ i < w => p[i] = i
                               /\ i = w => p[i] = m
                               /\ i > w => p[i] = Nth(S, i - w)
        OBVIOUS
    <2>25. p[w] = m BY <2>16
    <2> HIDE DEF p
    <2>26. \A i \in 1..w + s : i > w => i - w \in 1..s BY <2>16
    <2>27. ASSUME NEW i \in 1..w + s PROVE p[i] \in 1..n /\ rot[i] = cards[p[i]]
        <3>1. CASE i < w
            <4>1. p[i] = i /\ i \in 1..w - 1 /\ i <= w /\ i \in 1..n BY <2>4, <2>24, <3>1
            <4>2. rot[i] = top[i] BY <2>22, <4>1
            <4> QED BY <2>15, <4>1, <4>2
        <3>2. CASE i = w
            <4>1. rot[i] = top[i] BY <2>22, <3>2
            <4> QED BY <2>4, <2>15, <2>24, <3>2, <4>1
        <3>3. CASE i > w
            <4>1. p[i] = Nth(S, i - w) /\ i - w \in 1..s /\ ~(i <= w) BY <2>26, <2>24, <3>3
            <4>2. rot[i] = others[i - w] BY <2>22, <4>1
            <4> QED BY <2>6, <2>17, <4>1, <4>2
        <3> QED BY <3>1, <3>2, <3>3
    <2>28. ASSUME NEW i \in 1..w + s, NEW j \in 1..w + s, i < j, i # w PROVE p[i] < p[j]
        <3>1. CASE i < w
            <4>1. p[i] = i /\ (j < w => p[j] = j) /\ (j = w => p[j] = m) /\ (j > w => p[j] = Nth(S, j - w))
                BY <2>24, <3>1
            <4>2. j > w => Nth(S, j - w) \in S BY <2>17, <2>26
            <4>3. j > w => w + 1 <= p[j] /\ p[j] \in Int BY <2>6, <4>1, <4>2
            <4> QED BY <2>4, <2>28, <3>1, <4>1, <4>3
        <3>2. CASE i > w
            <4>1. p[i] = Nth(S, i - w) /\ p[j] = Nth(S, j - w) BY <2>28, <2>24, <3>2
            <4>2. i - w \in 1..s /\ j - w \in 1..s /\ i - w < j - w BY <2>26, <2>28, <3>2
            <4> QED BY <2>18, <4>1, <4>2
        <3> QED BY <2>28, <3>1, <3>2
    <2>29. Ordered(rot)
        <3>1. SUFFICES ASSUME NEW i \in 1..w + s, NEW j \in 1..w + s, i < j, rot[i].score < rot[j].score
                       PROVE  Old[rot[i].spot]
            BY <2>23 DEF Ordered
        <3>2. i = w BY <1>4, <2>27, <2>28, <3>1
        <3> QED BY <2>4, <2>27, <2>25, <3>2
    <2>30. \A i \in DOMAIN rot : rot[i] \in Range(cards) BY <1>2, <2>23, <2>27 DEF Range
    <2>31. ASSUME NEW c \in Gone(cards, rot) PROVE c = cards[w]
        <3>1. PICK q \in 1..n : c = cards[q] BY <1>2 DEF Gone, Range
        <3>2. \A i \in 1..w + s : rot[i].spot # c.spot BY <2>23 DEF Gone, Range
        <3>3. ~(q < w)
            <4>1. SUFFICES ASSUME q < w PROVE FALSE OBVIOUS
            <4>2. q \in 1..w + s /\ rot[q] = cards[q] BY <2>15, <2>16, <2>22, <4>1
            <4> QED BY <3>1, <3>2, <4>2
        <3>4. ~(w < q)
            <4>1. SUFFICES ASSUME w < q PROVE FALSE OBVIOUS
            <4>2. w \in 1..w + s /\ rot[w] = cards[m] BY <2>15, <2>16, <2>22
            <4>3. cards[q].spot # cards[m].spot BY <3>1, <3>2, <4>2
            <4>4. PICK k \in 1..s : Nth(S, k) = q BY <2>7, <2>19, <4>1, <4>3
            <4>5. others[k] = cards[q] BY <2>17, <4>4
            <4>6. w + k \in 1..w + s /\ ~(w + k <= w) /\ w + k - w = k BY <2>16
            <4>7. rot[w + k] = others[k] BY <2>22, <4>6
            <4> QED BY <3>1, <3>2, <4>5, <4>6, <4>7
        <3> QED BY <3>1, <3>3, <3>4
    <2>32. cards[m] \in Range(cards) BY <1>2, <2>4 DEF Range
    <2>33. \E c \in Range(cards) : Old[c.spot] BY <2>4, <2>32
    <2>34. Range(rot) \subseteq Range(cards) BY <2>30 DEF Range
    <2>35. \A c, d \in Gone(cards, rot) : c = d BY <2>31
    <2> QED BY <2>21, <2>22, <2>29, <2>33, <2>34, <2>35
<1> QED BY <1>5, <1>6
-----------------------------------------------------------------------------
(* What is true of every build *)

TripState == [from : Place, intake : Intake, aside : SUBSET Spots, turns : Nat]
ReplyKey == [spot : Spots, usgs : UNION Gauged, at : Nat, intake : {IntakeHash(i) : i \in Intake}]
ReplyText == [spots : Seq(Spots), intake : Intake, usgs : SUBSET UNION Gauged]
BuildState == [pc : {"idle", "verify", "reserve", "route", "lookup", "reply"},
               ranked : Seq(Cards), todo : Seq(Cards), kept : Seq(Cards), verified : Nat, calls : Nat,
               unavailable : BOOLEAN, key : SUBSET ReplyKey]
CardList == [cards : Seq(Cards), unavailable : BOOLEAN]

PipelineTyped ==
    /\ clock \in Nat
    /\ obs \in [Spots -> UNION Range(Outlook)] /\ \A s \in Spots : obs[s] \in Outlook[s]
    /\ trip \in [Trip -> TripState]
    /\ build \in [Trip -> BuildState]
    /\ list \in [Trip -> SUBSET CardList] /\ \A t \in Trip : \A x, y \in list[t] : x = y
    /\ routes \in SUBSET [from : Place, spot : Spots, minutes : Int]
    /\ replies \in SUBSET [key : ReplyKey, text : ReplyText]
    /\ shown \in [Trip -> SUBSET [text : ReplyText, cached : BOOLEAN]]

(* Of one build b for a trip t whose state is tr. *)

\* A card that waits has the estimate of the network; one that is kept has HERE's time and the wait for
\* the boats, or HERE was unavailable or the calls are spent; and the calls are within their bound.
Timed(t, tr, b) ==
    /\ tr.from # "unknown" =>
          /\ \A i \in DOMAIN b.todo :
                b.todo[i].estimated /\ b.todo[i].minutes = Estimate[tr.from][b.todo[i].spot]
          /\ \A i \in DOMAIN b.kept :
                IF b.kept[i].estimated THEN b.unavailable \/ b.calls = MAX_HERE_CALLS
                ELSE b.kept[i].minutes = Drive[tr.from][b.kept[i].spot] + BoatWait[t][b.kept[i].spot]
          /\ b.verified = Len(b.kept)
    /\ tr.from = "unknown" => b.todo = <<>>
    /\ b.calls <= MAX_HERE_CALLS
    /\ b.pc = "reserve" => b.calls < MAX_HERE_CALLS
    /\ b.pc \in {"reserve", "route"} => b.todo # <<>>

InOrder(b) == Ordered(b.kept) /\ Ordered(b.todo) /\ Across(b.kept, b.todo)

\* The cards that were ranked, are neither kept nor waiting, and are not too far.
Lost(t, tr, b) ==
    {c \in Range(b.ranked) :
        /\ \A d \in Range(b.kept) \cup Range(b.todo) : d.spot # c.spot
        /\ \/ tr.from = "unknown"
           \/ /\ Estimate[tr.from][c.spot] <= tr.intake.max
              /\ Drive[tr.from][c.spot] + BoatWait[t][c.spot] <= tr.intake.max}

\* At most one is lost, the one that made room for a spot long unvisited.
OneLost(t, tr, b) ==
    /\ \A c, d \in Lost(t, tr, b) : c = d
    /\ Lost(t, tr, b) # {} => \E c \in Range(b.ranked) : Old[c.spot]

Sound(t, tr, b) ==
    b.pc \in {"verify", "reserve", "route"} => Timed(t, tr, b) /\ InOrder(b) /\ OneLost(t, tr, b)

BuildsSound ==
    /\ \A t \in Trip : Sound(t, trip[t], build[t])
    /\ \A r \in routes : r.minutes = Drive[r.from][r.spot]

\* A key k is of the first card of the list l, and of the filters of the trip tr.
KeyOf(k, l, tr) ==
    /\ l.cards # <<>> /\ k.spot = l.cards[1].spot /\ l.cards[1].usgs = {k.usgs}
    /\ k.intake = IntakeHash(tr.intake)

Keyed(tr, b, ls) ==
    /\ b.pc \in {"lookup", "reply"} => ls # {}
    /\ b.pc = "reply" => \A k \in b.key, l \in ls : KeyOf(k, l, tr)

RepliesKeyed ==
    /\ \A t \in Trip : Keyed(trip[t], build[t], list[t])
    /\ \A r \in replies : /\ r.text.spots[1] = r.key.spot /\ r.text.usgs = {r.key.usgs}
                          /\ IntakeHash(r.text.intake) = r.key.intake

-----------------------------------------------------------------------------
(* The steps of verify_top *)

\* The next card was judged, and it was kept with a time that can be told, or was too far.
LEMMA NextCard ==
    ASSUME NEW t \in Trip, NEW tr \in TripState, NEW b \in BuildState, NEW next \in BuildState,
           NEW add \in Seq(Cards),
           Timed(t, tr, b), InOrder(b), OneLost(t, tr, b), b.todo # <<>>, tr.from # "unknown",
           next.pc = "verify", next.ranked = b.ranked, next.todo = Tail(b.todo), next.kept = b.kept \o add,
           next.verified = b.verified + Len(add), next.calls = b.calls, b.unavailable => next.unavailable,
           \/ /\ add = <<>>
              /\ \/ ~(b.todo[1].minutes <= tr.intake.max)
                 \/ ~(Drive[tr.from][b.todo[1].spot] + BoatWait[t][b.todo[1].spot] <= tr.intake.max)
           \/ \E card \in Cards :
                 /\ add = <<card>> /\ card.spot = b.todo[1].spot /\ card.score = b.todo[1].score
                 /\ IF card.estimated THEN next.unavailable \/ next.calls = MAX_HERE_CALLS
                    ELSE card.minutes = Drive[tr.from][card.spot] + BoatWait[t][card.spot]
    PROVE  Timed(t, tr, next) /\ InOrder(next) /\ OneLost(t, tr, next)
<1>1. PICK kept \in Seq(Cards) : kept = b.kept BY DEF BuildState
<1>2. PICK todo \in Seq(Cards) : todo = b.todo BY DEF BuildState
<1>3. PICK m \in Nat : m = Len(kept) BY LenProperties
<1>4. PICK n \in Nat : n = Len(todo) BY LenProperties
<1>5. PICK a \in Nat : a = Len(add) BY LenProperties
<1>6. DOMAIN kept = 1..m BY <1>3, LenProperties
<1>7. DOMAIN todo = 1..n BY <1>4, LenProperties
<1>8. DOMAIN add = 1..a BY <1>5, LenProperties
<1>9. PICK all : all = next.kept OBVIOUS
<1>10. /\ all \in Seq(Cards) /\ Len(all) = m + a
       /\ \A i \in 1..m + a : all[i] = IF i <= m THEN kept[i] ELSE add[i - m]
    BY <1>1, <1>3, <1>5, <1>9, ConcatProperties
<1>11. DOMAIN all = 1..m + a BY <1>10, LenProperties
<1>12. n \in Nat \ {0} BY <1>2, <1>4, EmptySeq
<1>13. PICK rest : rest = next.todo OBVIOUS
<1>14. /\ rest \in Seq(Cards) /\ Len(rest) = n - 1
       /\ \A i \in 1..n - 1 : rest[i] = todo[i + 1]
    BY <1>2, <1>4, <1>13, HeadTailProperties
<1>15. n - 1 \in Nat /\ DOMAIN rest = 1..n - 1 BY <1>12, <1>14, LenProperties
<1>16. PICK h \in Cards : h = todo[1] BY <1>4, <1>12, ElementOfSeq
<1>17. \A i \in 1..a : /\ a = 1 /\ i = 1 /\ add[1].spot = h.spot /\ add[1].score = h.score
                       /\ IF add[1].estimated THEN next.unavailable \/ next.calls = MAX_HERE_CALLS
                          ELSE add[1].minutes = Drive[tr.from][add[1].spot] + BoatWait[t][add[1].spot]
    <2>1. CASE add = <<>>
        <3>1. a = 0 BY <1>5, <2>1, EmptySeq
        <3> QED BY <3>1
    <2>2. CASE \E card \in Cards :
                 /\ add = <<card>> /\ card.spot = b.todo[1].spot /\ card.score = b.todo[1].score
                 /\ IF card.estimated THEN next.unavailable \/ next.calls = MAX_HERE_CALLS
                    ELSE card.minutes = Drive[tr.from][card.spot] + BoatWait[t][card.spot]
        <3>1. PICK card \in Cards :
                 /\ add = <<card>> /\ card.spot = h.spot /\ card.score = h.score
                 /\ IF card.estimated THEN next.unavailable \/ next.calls = MAX_HERE_CALLS
                    ELSE card.minutes = Drive[tr.from][card.spot] + BoatWait[t][card.spot]
            BY <1>2, <1>16, <2>2
        <3>2. a = 1 /\ add[1] = card BY <1>5, <3>1
        <3> QED BY <3>1, <3>2
    <2> QED BY <2>1, <2>2
<1>18. a = 0 => \/ ~(h.minutes <= tr.intake.max)
                \/ ~(Drive[tr.from][h.spot] + BoatWait[t][h.spot] <= tr.intake.max)
    <2>1. ASSUME NEW card \in Cards, add = <<card>> PROVE a = 1 BY <1>5, <2>1
    <2>2. a = 0 => ~\E card \in Cards : add = <<card>> BY <2>1
    <2> QED BY <1>2, <1>16, <2>2
<1>19. Timed(t, tr, next)
    <2>1. ASSUME NEW i \in DOMAIN rest
          PROVE  rest[i].estimated /\ rest[i].minutes = Estimate[tr.from][rest[i].spot]
        <3>1. i + 1 \in 1..n /\ rest[i] = todo[i + 1] BY <1>14, <1>15
        <3> QED BY <1>2, <1>7, <3>1 DEF Timed
    <2>2. ASSUME NEW i \in DOMAIN all
          PROVE  IF all[i].estimated THEN next.unavailable \/ next.calls = MAX_HERE_CALLS
                 ELSE all[i].minutes = Drive[tr.from][all[i].spot] + BoatWait[t][all[i].spot]
        <3>1. CASE i <= m
            <4>1. i \in 1..m /\ all[i] = kept[i] BY <1>10, <1>11, <3>1
            <4> QED BY <1>1, <1>6, <4>1 DEF Timed
        <3>2. CASE ~(i <= m)
            <4>1. i - m \in 1..a /\ all[i] = add[i - m] BY <1>10, <1>11, <3>2
            <4> QED BY <1>17, <4>1
        <3> QED BY <3>1, <3>2
    <2>3. next.verified = Len(all) BY <1>1, <1>3, <1>5, <1>10 DEF Timed
    <2> QED BY <1>9, <1>13, <2>1, <2>2, <2>3 DEF Timed
<1>20. InOrder(next)
    <2>1. Ordered(kept) /\ Ordered(todo) /\ Across(kept, todo) BY <1>1, <1>2 DEF InOrder
    <2>2. Ordered(add) BY <1>8, <1>17 DEF Ordered
    <2>3. Across(kept, add)
        <3>1. 1 \in DOMAIN todo BY <1>7, <1>12
        <3>2. \A i \in 1..m : kept[i].score < h.score => Old[kept[i].spot]
            BY <1>6, <1>16, <2>1, <3>1 DEF Across
        <3> QED BY <1>6, <1>8, <1>17, <3>2 DEF Across
    <2>4. Ordered(kept \o add) BY <2>1, <2>2, <2>3, JoinedOrdered
    <2>5. \A i, j \in 1..n - 1 : i + 1 \in 1..n /\ j + 1 \in 1..n /\ (i < j => i + 1 < j + 1) OBVIOUS
    <2>6. Ordered(rest)
        <3>1. SUFFICES ASSUME NEW i \in 1..n - 1, NEW j \in 1..n - 1, i < j, rest[i].score < rest[j].score
                       PROVE  Old[rest[i].spot]
            BY <1>15 DEF Ordered
        <3>2. rest[i] = todo[i + 1] /\ rest[j] = todo[j + 1] BY <1>14
        <3>3. i + 1 \in DOMAIN todo /\ j + 1 \in DOMAIN todo /\ i + 1 < j + 1 BY <1>7, <2>5, <3>1
        <3> QED BY <2>1, <3>1, <3>2, <3>3 DEF Ordered
    <2>7. ASSUME NEW i \in 1..m + a, NEW j \in 1..n - 1, all[i].score < rest[j].score
          PROVE  Old[all[i].spot]
        <3>1. rest[j] = todo[j + 1] /\ j + 1 \in 1..n BY <1>14
        <3>2. CASE i <= m
            <4>1. i \in 1..m /\ all[i] = kept[i] BY <1>10, <3>2
            <4> QED BY <1>6, <1>7, <2>1, <2>7, <3>1, <4>1 DEF Across
        <3>3. CASE ~(i <= m)
            <4>1. i - m \in 1..a /\ all[i] = add[i - m] BY <1>10, <3>3
            <4>2. all[i].spot = h.spot /\ all[i].score = h.score BY <1>17, <4>1
            <4>3. 1 \in 1..n /\ 1 < j + 1 BY <1>12
            <4> QED BY <1>7, <1>16, <2>1, <2>7, <3>1, <4>2, <4>3 DEF Ordered
        <3> QED BY <3>2, <3>3
    <2>8. Across(all, rest) BY <1>11, <1>15, <2>7 DEF Across
    <2> QED BY <1>1, <1>9, <1>13, <2>4, <2>6, <2>8 DEF InOrder
<1>21. OneLost(t, tr, next)
    <2>1. ASSUME NEW c \in Lost(t, tr, next) PROVE c \in Lost(t, tr, b)
        <3>1. /\ c \in Range(b.ranked) /\ \A d \in Range(all) \cup Range(rest) : d.spot # c.spot
              /\ Estimate[tr.from][c.spot] <= tr.intake.max
              /\ Drive[tr.from][c.spot] + BoatWait[t][c.spot] <= tr.intake.max
            BY <1>9, <1>13 DEF Lost
        <3>2. h.spot # c.spot
            <4>1. CASE a = 0
                <5>1. 1 \in DOMAIN b.todo /\ h = b.todo[1] BY <1>2, <1>7, <1>12, <1>16
                <5>2. h.minutes = Estimate[tr.from][h.spot] BY <5>1 DEF Timed
                <5> QED BY <1>18, <3>1, <4>1, <5>2
            <4>2. CASE a # 0
                <5>1. 1 \in 1..a /\ m + 1 \in 1..m + a /\ ~(m + 1 <= m) /\ m + 1 - m = 1 BY <4>2
                <5>2. all[m + 1] = add[1] BY <1>10, <5>1
                <5>3. all[m + 1] \in Range(all) BY <1>11, <5>1 DEF Range
                <5> QED BY <1>17, <3>1, <5>1, <5>2, <5>3
            <4> QED BY <4>1, <4>2
        <3>3. ASSUME NEW d \in Range(kept) PROVE d.spot # c.spot
            <4>1. PICK i \in 1..m : d = kept[i] BY <1>6 DEF Range
            <4>2. i \in 1..m + a /\ all[i] = kept[i] BY <1>10
            <4> QED BY <1>11, <3>1, <4>1, <4>2 DEF Range
        <3>4. ASSUME NEW d \in Range(todo) PROVE d.spot # c.spot
            <4>1. PICK i \in 1..n : d = todo[i] BY <1>7 DEF Range
            <4>2. CASE i = 1 BY <1>16, <3>2, <4>1, <4>2
            <4>3. CASE i # 1
                <5>1. i - 1 \in 1..n - 1 /\ i - 1 + 1 = i BY <4>3
                <5>2. rest[i - 1] = todo[i] BY <1>14, <5>1
                <5> QED BY <1>15, <3>1, <4>1, <5>1, <5>2 DEF Range
            <4> QED BY <4>2, <4>3
        <3> QED BY <1>1, <1>2, <3>1, <3>3, <3>4 DEF Lost
    <2> QED BY <2>1 DEF OneLost
<1> QED BY <1>19, <1>20, <1>21

\* Those of the cards ranked for a build b that are not in a list, and not too far.
NotTold(t, tr, b, cards) ==
    {c \in Gone(b.ranked, cards) :
        \/ tr.from = "unknown"
        \/ /\ Estimate[tr.from][c.spot] <= tr.intake.max
           /\ Drive[tr.from][c.spot] + BoatWait[t][c.spot] <= tr.intake.max}

\* The places of the cards that are within the limit by their estimate.
InReach(tr, cards) == {k \in DOMAIN cards : cards[k].minutes <= tr.intake.max}

\* What is right of the cards that a build b delivers.
DeliveredRight(t, tr, b, cards) ==
    /\ Ordered(cards)
    /\ tr.from # "unknown" => \A i \in DOMAIN cards : ~cards[i].estimated =>
          cards[i].minutes = Drive[tr.from][cards[i].spot] + BoatWait[t][cards[i].spot]
    /\ tr.from # "unknown" => \A i \in DOMAIN cards : i <= TOP_N /\ cards[i].estimated =>
          b.unavailable \/ b.calls = MAX_HERE_CALLS
    /\ Len(cards) < MAX_CANDIDATES =>
          /\ \A c, d \in NotTold(t, tr, b, cards) : c = d
          /\ NotTold(t, tr, b, cards) # {} => \E c \in Range(b.ranked) : Old[c.spot]

\* What is delivered: the cards kept, and those that waited and are within the limit by their estimate.
LEMMA DeliveredCards ==
    ASSUME NEW t \in Trip, NEW tr \in TripState, NEW b \in BuildState,
           Timed(t, tr, b), InOrder(b), OneLost(t, tr, b), b.todo = <<>> \/ b.verified >= TOP_N
    PROVE  \E cards \in Seq(Cards) : /\ cards = Cut(b.kept \o Kept(b.todo, InReach(tr, b.todo)), MAX_CANDIDATES)
                                     /\ DeliveredRight(t, tr, b, cards)
<1>1. PICK kept \in Seq(Cards) : kept = b.kept BY DEF BuildState
<1>2. PICK todo \in Seq(Cards) : todo = b.todo BY DEF BuildState
<1>3. PICK m \in Nat : m = Len(kept) BY LenProperties
<1>4. DOMAIN kept = 1..m BY <1>3, LenProperties
<1>5. PICK S \in SUBSET DOMAIN todo : S = InReach(tr, todo) BY DEF InReach
<1>6. PICK s \in Nat : s = Cardinality(S) BY <1>5, KeptIsList
<1>7. PICK rest \in Seq(Cards) :
         /\ rest = Kept(todo, S) /\ Len(rest) = s /\ DOMAIN rest = 1..s
         /\ \A k \in 1..s : Nth(S, k) \in S /\ rest[k] = todo[Nth(S, k)]
    BY ONLY <1>5, <1>6, KeptIsList
<1>8. \A k, l \in 1..s : k < l => Nth(S, k) < Nth(S, l) BY ONLY <1>5, <1>6, KeptIsList
<1>9. \A i \in S : \E k \in 1..s : Nth(S, k) = i BY ONLY <1>5, <1>6, KeptIsList
<1>10. PICK all : all = kept \o rest OBVIOUS
<1>11. kept \in Seq(Cards) /\ rest \in Seq(Cards) /\ Len(kept) = m /\ Len(rest) = s BY <1>3, <1>7
<1>12. /\ all \in Seq(Cards) /\ Len(all) = m + s
       /\ \A i \in 1..m + s : all[i] = IF i <= m THEN kept[i] ELSE rest[i - m]
    BY ONLY <1>10, <1>11, ConcatProperties
<1>13. PICK cards : cards = Cut(all, MAX_CANDIDATES) OBVIOUS
<1>14. MAX_CANDIDATES \in Nat /\ TOP_N \in Nat BY PipelineAssumption
<1>15. /\ cards \in Seq(Cards) /\ Len(cards) <= Len(all)
       /\ \A i \in 1..Len(cards) : cards[i] = all[i]
       /\ Len(cards) < MAX_CANDIDATES => cards = all
    BY ONLY <1>12, <1>13, <1>14, CutIsPrefix
<1>16. PICK n \in Nat : n = Len(cards) BY <1>15, LenProperties
<1>17. DOMAIN cards = 1..n BY <1>15, <1>16, LenProperties
<1>18. m \in Nat /\ s \in Nat /\ n \in Nat /\ n <= m + s BY <1>12, <1>15, <1>16
<1>19. \A i \in 1..n : i \in 1..m + s /\ cards[i] = all[i] BY ONLY <1>15, <1>16, <1>18
<1>20. Ordered(kept) /\ Ordered(todo) /\ Across(kept, todo) BY <1>1, <1>2 DEF InOrder
<1>21. Ordered(cards)
    <2>1. Ordered(rest) BY <1>5, <1>7, <1>20, KeptOrdered
    <2>2. Across(kept, rest) BY <1>5, <1>7, <1>20 DEF Across
    <2>3. Ordered(all) BY <1>10, <1>20, <2>1, <2>2, JoinedOrdered
    <2>4. DOMAIN all = 1..m + s BY <1>12, LenProperties
    <2> QED BY <1>17, <1>19, <2>3, <2>4 DEF Ordered
<1>22. ASSUME tr.from # "unknown", NEW i \in 1..n
       PROVE  \/ /\ i \in 1..m /\ cards[i] = kept[i]
                 /\ IF kept[i].estimated THEN b.unavailable \/ b.calls = MAX_HERE_CALLS
                    ELSE kept[i].minutes = Drive[tr.from][kept[i].spot] + BoatWait[t][kept[i].spot]
              \/ i > m /\ cards[i].estimated /\ todo # <<>>
    <2>1. CASE i <= m
        <3>1. i \in 1..m /\ cards[i] = kept[i] BY <1>12, <1>19, <2>1
        <3> QED BY <1>1, <1>4, <1>22, <3>1 DEF Timed
    <2>2. CASE ~(i <= m)
        <3>1. i - m \in 1..s /\ cards[i] = rest[i - m] BY <1>12, <1>19, <2>2
        <3>2. PICK k \in DOMAIN todo : cards[i] = todo[k] BY <1>5, <1>7, <3>1
        <3>3. cards[i].estimated BY <1>2, <1>22, <3>2 DEF Timed
        <3>4. todo # <<>> BY <3>2
        <3> QED BY <2>2, <3>3, <3>4
    <2> QED BY <2>1, <2>2
<1>23. ASSUME tr.from # "unknown", NEW i \in 1..n, i <= TOP_N, cards[i].estimated
       PROVE  b.unavailable \/ b.calls = MAX_HERE_CALLS
    <2>1. i > m => FALSE
        <3>1. SUFFICES ASSUME i > m PROVE FALSE OBVIOUS
        <3>2. todo # <<>> BY <1>22, <1>23, <3>1
        <3>3. m >= TOP_N BY <1>1, <1>2, <1>3, <1>23, <3>2 DEF Timed
        <3> QED BY <1>14, <1>23, <3>1, <3>3
    <2> QED BY <1>22, <1>23, <2>1
<1>24. ASSUME cards = all, NEW c \in NotTold(t, tr, b, cards) PROVE c \in Lost(t, tr, b)
    <2>1. /\ c \in Range(b.ranked) /\ \A i \in 1..n : cards[i].spot # c.spot
          /\ \/ tr.from = "unknown"
             \/ /\ Estimate[tr.from][c.spot] <= tr.intake.max
                /\ Drive[tr.from][c.spot] + BoatWait[t][c.spot] <= tr.intake.max
        BY <1>17 DEF NotTold, Gone, Range
    <2>2. n = m + s BY <1>12, <1>16, <1>24
    <2>3. ASSUME NEW d \in Range(kept) PROVE d.spot # c.spot
        <3>1. PICK i \in 1..m : d = kept[i] BY <1>4 DEF Range
        <3>2. i \in 1..n /\ cards[i] = kept[i] BY <1>12, <1>24, <2>2
        <3> QED BY <2>1, <3>1, <3>2
    <2>4. ASSUME NEW d \in Range(todo) PROVE d.spot # c.spot
        <3>1. PICK k \in DOMAIN todo : d = todo[k] BY DEF Range
        <3>2. CASE k \in S
            <4>1. PICK j \in 1..s : Nth(S, j) = k BY <1>9, <3>2
            <4>2. m + j \in 1..n /\ ~(m + j <= m) /\ m + j - m = j BY <2>2
            <4>3. cards[m + j] = rest[j] BY <1>12, <1>24, <2>2, <4>2
            <4>4. rest[j] = d BY <1>7, <3>1, <4>1
            <4> QED BY <2>1, <4>2, <4>3, <4>4
        <3>3. CASE k \notin S
            <4>1. ~(d.minutes <= tr.intake.max) BY <1>5, <3>1, <3>3 DEF InReach
            <4>2. tr.from # "unknown" BY <1>2, <3>1 DEF Timed
            <4>3. d.minutes = Estimate[tr.from][d.spot] BY <1>2, <3>1, <4>2 DEF Timed
            <4> QED BY <2>1, <4>1, <4>2, <4>3
        <3> QED BY <3>2, <3>3
    <2> QED BY <1>1, <1>2, <2>1, <2>3, <2>4 DEF Lost
<1>25. DeliveredRight(t, tr, b, cards)
    BY <1>16, <1>17, <1>21, <1>22, <1>23, <1>24, <1>15, <1>4 DEF OneLost, DeliveredRight
<1>26. cards = Cut(b.kept \o Kept(b.todo, InReach(tr, b.todo)), MAX_CANDIDATES)
    BY <1>1, <1>2, <1>5, <1>7, <1>10, <1>13
<1> QED BY <1>15, <1>25, <1>26

-----------------------------------------------------------------------------
(* The ranking of a trip *)

LEMMA QueryList == Query \in Seq(Spots)
<1>1. Query \in Seq(DOMAIN Site) BY PipelineAssumption
<1>2. PICK n \in Nat : n = Len(Query) BY <1>1, LenProperties
<1>3. Query \in [1..n -> DOMAIN Site] BY <1>1, <1>2, LenProperties
<1>4. \A i \in 1..n : Query[i] \in Spots BY <1>3 DEF Spots, Range
<1>5. Query \in [1..n -> Spots] BY <1>3, <1>4
<1> QED BY <1>2, <1>5

LEMMA CardTyped ==
    ASSUME PipelineTyped, NEW t \in Trip, NEW s \in Spots
    PROVE  /\ Card(t, s) \in Cards
           /\ trip[t].from # "unknown" =>
                 Card(t, s).estimated /\ Card(t, s).minutes = Estimate[trip[t].from][Card(t, s).spot]
<1>1. PICK tr \in TripState : tr = trip[t] BY DEF PipelineTyped
<1>2. tr.from \in Place /\ tr.intake \in Intake BY DEF TripState
<1>3. obs[s] \in Outlook[s] BY DEF PipelineTyped
<1>4. Score(s, obs[s], tr.intake) \in Int BY <1>2, <1>3, ScoreAssumption
<1>5. obs[s].usgs \in Gauged BY <1>3 DEF Gauged
<1>6. Estimate \in [Place -> [Spots -> Int]] BY PipelineAssumption
<1>7. Estimate[tr.from][s] \in Int BY <1>2, <1>6
<1>8. PICK minutes \in Int : minutes = IF tr.from # "unknown" THEN Estimate[tr.from][s] ELSE 0 BY <1>7
<1>9. PICK known \in BOOLEAN : known = (tr.from # "unknown") OBVIOUS
<1>10. PICK score \in Int : score = Score(s, obs[s], tr.intake) BY <1>4
<1>11. PICK usgs \in Gauged : usgs = obs[s].usgs BY <1>5
<1>12. Card(t, s) = [spot |-> s, minutes |-> minutes, estimated |-> known, score |-> score, usgs |-> usgs]
    BY <1>1, <1>8, <1>9, <1>10, <1>11 DEF Card
<1>13. [spot |-> s, minutes |-> minutes, estimated |-> known, score |-> score, usgs |-> usgs] \in Cards
    BY DEF Cards
<1>14. Card(t, s) \in Cards BY <1>12, <1>13
<1>15. /\ Card(t, s).spot = s /\ Card(t, s).minutes = minutes /\ Card(t, s).estimated = known
    BY <1>12
<1>16. tr.from # "unknown" => known /\ minutes = Estimate[tr.from][s] BY <1>8, <1>9
<1> QED BY <1>1, <1>14, <1>15, <1>16

\* A card that is ranked has its estimate, if the trip has an origin.
AsEstimated(tr, cards) ==
    tr.from # "unknown" => \A c \in Range(cards) : c.estimated /\ c.minutes = Estimate[tr.from][c.spot]

LEMMA PoolIsSorted ==
    ASSUME PipelineTyped, NEW t \in Trip
    PROVE  Pool(t) \in Seq(Cards) /\ Sorted(Pool(t)) /\ AsEstimated(trip[t], Pool(t))
<1>1. PICK S \in SUBSET DOMAIN Query : S = {k \in DOMAIN Query : Offered(t, Query[k])} OBVIOUS
<1>2. PICK offered \in Seq(Spots) : offered = Kept(Query, S) BY <1>1, QueryList, KeptIsList
<1>3. PICK n \in Nat : n = Len(offered) BY LenProperties
<1>4. DOMAIN offered = 1..n BY <1>3, LenProperties
<1>5. \A i \in 1..n : offered[i] \in Spots BY <1>3, ElementOfSeq
<1>6. PICK cards : cards = [i \in DOMAIN offered |-> Card(t, offered[i])] OBVIOUS
<1>7. \A i \in 1..n : cards[i] = Card(t, offered[i]) BY <1>4, <1>6
<1>8. \A i \in 1..n : cards[i] \in Cards BY <1>5, <1>7, CardTyped
<1>9. cards \in [1..n -> Cards] BY <1>4, <1>6, <1>8
<1>10. cards \in Seq(Cards) /\ DOMAIN cards = 1..n BY <1>3, <1>9
<1>11. AsEstimated(trip[t], cards)
    <2>1. SUFFICES ASSUME trip[t].from # "unknown", NEW c \in Range(cards)
                   PROVE  c.estimated /\ c.minutes = Estimate[trip[t].from][c.spot]
        BY DEF AsEstimated
    <2>2. PICK i \in 1..n : c = Card(t, offered[i]) BY <1>7, <1>10 DEF Range
    <2> QED BY <1>5, <2>1, <2>2, CardTyped
<1>12. PICK ranked \in Seq(Cards) : ranked = Ranked(cards) BY <1>10, RankedIsSorted
<1>13. Sorted(ranked) /\ \A k \in DOMAIN ranked : ranked[k] \in Range(cards) BY <1>10, <1>12, RankedIsSorted
<1>14. MAX_CANDIDATES + MAX_HERE_CALLS \in Nat BY PipelineAssumption
<1>15. PICK m \in Nat : m = MAX_CANDIDATES + MAX_HERE_CALLS BY <1>14
<1>16. PICK pool : pool = Cut(ranked, m) OBVIOUS
<1>17. /\ pool \in Seq(Cards) /\ Len(pool) <= Len(ranked)
       /\ \A i \in 1..Len(pool) : pool[i] = ranked[i]
    BY <1>16, CutIsPrefix
<1>18. PICK l \in Nat : l = Len(pool) BY <1>17, LenProperties
<1>19. DOMAIN pool = 1..l BY <1>17, <1>18, LenProperties
<1>20. PICK r \in Nat : r = Len(ranked) BY LenProperties
<1>21. DOMAIN ranked = 1..r BY <1>20, LenProperties
<1>22. \A i \in 1..l : i \in 1..r /\ pool[i] = ranked[i] BY <1>17, <1>18, <1>20
<1>23. Sorted(pool) BY <1>13, <1>19, <1>21, <1>22 DEF Sorted
<1>24. \A c \in Range(pool) : c \in Range(cards) BY <1>13, <1>19, <1>21, <1>22 DEF Range
<1>25. AsEstimated(trip[t], pool) BY <1>11, <1>24 DEF AsEstimated
<1>26. pool = Pool(t) BY <1>1, <1>2, <1>6, <1>12, <1>15, <1>16 DEF Pool
<1> QED BY <1>17, <1>23, <1>25, <1>26

LEMMA NoBuildTyped ==
    /\ NoBuild \in BuildState
    /\ NoBuild.pc = "idle" /\ NoBuild.ranked = <<>> /\ NoBuild.todo = <<>> /\ NoBuild.kept = <<>>
    /\ NoBuild.verified = 0 /\ NoBuild.calls = 0 /\ NoBuild.unavailable = FALSE /\ NoBuild.key = {}
<1>1. PICK none \in Seq(Cards) : none = <<>> BY EmptySeq
<1>2. PICK nokey \in SUBSET ReplyKey : nokey = {} OBVIOUS
<1>3. PICK base : base = [pc |-> "idle", ranked |-> none, todo |-> none, kept |-> none, verified |-> 0,
                          calls |-> 0, unavailable |-> FALSE, key |-> nokey]
    OBVIOUS
<1>4. NoBuild = base BY <1>1, <1>2, <1>3 DEF NoBuild
<1>5. base \in BuildState BY <1>3 DEF BuildState
<1> QED BY <1>1, <1>2, <1>3, <1>4, <1>5

\* A build that begins is sound: it has the ranking, but for the card that made room.
LEMMA BeginsSound ==
    ASSUME PipelineTyped, NEW t \in Trip, NEW tr, tr.from = trip[t].from, tr.intake = trip[t].intake,
           NEW next,
           next = [NoBuild EXCEPT !.pc = "verify", !.ranked = Pool(t),
                   !.todo = IF trip[t].from # "unknown" THEN Rotated(Pool(t), WINDOW, Old) ELSE <<>>,
                   !.kept = IF trip[t].from # "unknown" THEN <<>> ELSE Rotated(Pool(t), WINDOW, Old)]
    PROVE  next \in BuildState /\ Sound(t, tr, next) /\ next.pc = "verify"
<1>1. PICK pool \in Seq(Cards) : pool = Pool(t) BY PoolIsSorted
<1>2. Sorted(pool) /\ AsEstimated(trip[t], pool) BY <1>1, PoolIsSorted
<1>3. WINDOW \in Nat \ {0} /\ MAX_HERE_CALLS \in Nat BY PipelineAssumption
<1>4. PICK cards \in Seq(Cards) : cards = Rotated(pool, WINDOW, Old) BY <1>2, <1>3, RotatedKeeps
<1>5. Ordered(cards) /\ Range(cards) \subseteq Range(pool) BY <1>2, <1>3, <1>4, RotatedKeeps
<1>6. /\ \A c, d \in Gone(pool, cards) : c = d
      /\ Gone(pool, cards) # {} => \E c \in Range(pool) : Old[c.spot]
    BY <1>2, <1>3, <1>4, RotatedKeeps
<1>7. PICK none \in Seq(Cards) : none = <<>> BY EmptySeq
<1>8. Len(none) = 0 BY <1>7, EmptySeq
<1>9. DOMAIN none = 1..Len(none) BY LenProperties
<1>10. DOMAIN none = {} BY <1>8, <1>9
<1>11. none = <<>> /\ Len(none) = 0 /\ DOMAIN none = {} BY <1>7, <1>8, <1>10
<1>12. PICK todo \in Seq(Cards) : todo = IF tr.from # "unknown" THEN cards ELSE none OBVIOUS
<1>13. PICK kept \in Seq(Cards) : kept = IF tr.from # "unknown" THEN none ELSE cards OBVIOUS
<1>14. next = [NoBuild EXCEPT !.pc = "verify", !.ranked = pool, !.todo = todo, !.kept = kept]
    BY <1>1, <1>4, <1>11, <1>12, <1>13
<1>15. /\ next.pc = "verify" /\ next.ranked = pool /\ next.todo = todo /\ next.kept = kept
       /\ next.verified = 0 /\ next.calls = 0
    BY <1>14, NoBuildTyped DEF BuildState
<1>16. next \in BuildState BY <1>14, NoBuildTyped DEF BuildState
<1>17. Timed(t, tr, next)
    <2>1. ASSUME tr.from # "unknown", NEW i \in DOMAIN todo
          PROVE  todo[i].estimated /\ todo[i].minutes = Estimate[tr.from][todo[i].spot]
        <3>1. cards[i] \in Range(pool) /\ todo[i] = cards[i] BY <1>5, <1>12, <2>1 DEF Range
        <3> QED BY <1>2, <2>1, <3>1 DEF AsEstimated
    <2>2. tr.from # "unknown" => DOMAIN kept = {} /\ Len(kept) = 0 BY <1>11, <1>13
    <2>3. tr.from = "unknown" => todo = <<>> BY <1>11, <1>12
    <2> QED BY <1>3, <1>15, <2>1, <2>2, <2>3 DEF Timed
<1>18. InOrder(next)
    <2>1. Ordered(none) BY <1>11 DEF Ordered
    <2>2. Ordered(kept) /\ Ordered(todo) BY <1>5, <1>12, <1>13, <2>1
    <2>3. Across(kept, todo) BY <1>11, <1>12, <1>13 DEF Across
    <2> QED BY <1>15, <2>2, <2>3 DEF InOrder
<1>19. OneLost(t, tr, next)
    <2>1. \A c \in Lost(t, tr, next) : c \in Gone(pool, cards)
        BY <1>11, <1>12, <1>13, <1>15 DEF Lost, Gone
    <2> QED BY <1>6, <1>15, <2>1 DEF OneLost
<1> QED BY <1>16, <1>17, <1>18, <1>19, <1>15 DEF Sound

-----------------------------------------------------------------------------
(* The steps *)

PipelineInv == PipelineTyped /\ BuildsSound /\ RepliesKeyed

RouteRows == [from : Place, spot : Spots, minutes : Int]
ReplyRows == [key : ReplyKey, text : ReplyText]
Screen == [text : ReplyText, cached : BOOLEAN]

RouteRight(r) == r.minutes = Drive[r.from][r.spot]
ReplyRight(r) ==
    r.text.spots[1] = r.key.spot /\ r.text.usgs = {r.key.usgs} /\ IntakeHash(r.text.intake) = r.key.intake

\* A step of one trip, to a state that is right, leaves the others as they are.
LEMMA OneTripMoves ==
    ASSUME PipelineInv, NEW t \in Trip, NEW tr \in TripState, NEW next \in BuildState, NEW ls \in SUBSET CardList,
           \A x, y \in ls : x = y, Sound(t, tr, next), Keyed(tr, next, ls),
           trip' = [trip EXCEPT ![t] = tr], build' = [build EXCEPT ![t] = next], list' = [list EXCEPT ![t] = ls],
           clock' = clock, obs' = obs,
           routes' \in SUBSET RouteRows, \A r \in routes' : RouteRight(r),
           replies' \in SUBSET ReplyRows, \A r \in replies' : ReplyRight(r),
           shown' \in [Trip -> SUBSET Screen]
    PROVE  PipelineInv'
<1>1. PipelineTyped /\ BuildsSound /\ RepliesKeyed BY DEF PipelineInv
<1>2. trip' \in [Trip -> TripState] /\ build' \in [Trip -> BuildState] /\ list' \in [Trip -> SUBSET CardList]
    BY <1>1 DEF PipelineTyped
<1>3. \A u \in Trip : /\ trip'[u] = IF u = t THEN tr ELSE trip[u]
                      /\ build'[u] = IF u = t THEN next ELSE build[u]
                      /\ list'[u] = IF u = t THEN ls ELSE list[u]
    BY <1>1 DEF PipelineTyped
<1>4. \A u \in Trip : \A x, y \in list'[u] : x = y BY <1>1, <1>3 DEF PipelineTyped
<1>5. PipelineTyped' BY <1>1, <1>2, <1>4 DEF PipelineTyped, RouteRows, ReplyRows, Screen
<1>6. \A u \in Trip : Sound(u, trip'[u], build'[u]) BY <1>1, <1>3 DEF BuildsSound
<1>7. \A u \in Trip : Keyed(trip'[u], build'[u], list'[u]) BY <1>1, <1>3 DEF RepliesKeyed
<1>8. BuildsSound' BY <1>6 DEF BuildsSound, RouteRight
<1>9. RepliesKeyed' BY <1>7 DEF RepliesKeyed, ReplyRight
<1> QED BY <1>5, <1>8, <1>9 DEF PipelineInv

\* What the invariant says of one trip, of the routes and of the replies.
LEMMA OneTrip ==
    ASSUME PipelineInv, NEW t \in Trip
    PROVE  /\ trip[t] \in TripState /\ build[t] \in BuildState /\ list[t] \in SUBSET CardList
           /\ \A x, y \in list[t] : x = y
           /\ Sound(t, trip[t], build[t]) /\ Keyed(trip[t], build[t], list[t])
           /\ trip = [trip EXCEPT ![t] = trip[t]] /\ build = [build EXCEPT ![t] = build[t]]
           /\ list = [list EXCEPT ![t] = list[t]]
           /\ routes \in SUBSET RouteRows /\ \A r \in routes : RouteRight(r)
           /\ replies \in SUBSET ReplyRows /\ \A r \in replies : ReplyRight(r)
           /\ shown \in [Trip -> SUBSET Screen]
<1>1. PipelineTyped /\ BuildsSound /\ RepliesKeyed BY DEF PipelineInv
<1>2. trip \in [Trip -> TripState] /\ build \in [Trip -> BuildState] /\ list \in [Trip -> SUBSET CardList]
    BY <1>1 DEF PipelineTyped
<1>3. trip = [trip EXCEPT ![t] = trip[t]] /\ build = [build EXCEPT ![t] = build[t]]
      /\ list = [list EXCEPT ![t] = list[t]]
    BY <1>2
<1>4. routes \in SUBSET RouteRows /\ replies \in SUBSET ReplyRows /\ shown \in [Trip -> SUBSET Screen]
    BY <1>1 DEF PipelineTyped, RouteRows, ReplyRows, Screen
<1>5. \A r \in routes : RouteRight(r) BY <1>1 DEF BuildsSound, RouteRight
<1>6. \A r \in replies : ReplyRight(r) BY <1>1 DEF RepliesKeyed, ReplyRight
<1>7. \A x, y \in list[t] : x = y BY <1>1 DEF PipelineTyped
<1> QED BY <1>1, <1>2, <1>3, <1>4, <1>5, <1>6, <1>7 DEF BuildsSound, RepliesKeyed

\* A build that moves on, with the trip, its list and the replies as they are.
LEMMA BuildMoves ==
    ASSUME PipelineInv, NEW t \in Trip, NEW next \in BuildState,
           Sound(t, trip[t], next), Keyed(trip[t], next, list[t]),
           build' = [build EXCEPT ![t] = next],
           routes' \in SUBSET RouteRows, \A r \in routes' : RouteRight(r),
           UNCHANGED <<clock, obs, trip, list, replies, shown>>
    PROVE  PipelineInv'
<1>1. PICK tr \in TripState : tr = trip[t] BY OneTrip
<1>2. PICK ls \in SUBSET CardList : ls = list[t] BY OneTrip
<1>3. \A x, y \in ls : x = y BY <1>2, OneTrip
<1>4. trip' = [trip EXCEPT ![t] = tr] /\ list' = [list EXCEPT ![t] = ls] BY <1>1, <1>2, OneTrip
<1>5. replies' \in SUBSET ReplyRows /\ \A r \in replies' : ReplyRight(r) BY OneTrip
<1>6. shown' \in [Trip -> SUBSET Screen] BY OneTrip
<1> QED BY <1>1, <1>2, <1>3, <1>4, <1>5, <1>6, OneTripMoves

LEMMA BuildStep ==
    ASSUME PipelineInv, NEW t \in Trip, Build(t)
    PROVE  PipelineInv'
<1>1. PICK tr : tr = [trip[t] EXCEPT !.turns = @ + 1] OBVIOUS
<1>2. trip[t] \in TripState BY OneTrip
<1>3. tr \in TripState /\ tr.from = trip[t].from /\ tr.intake = trip[t].intake BY <1>1, <1>2 DEF TripState
<1>4. PICK next : next = [NoBuild EXCEPT !.pc = "verify", !.ranked = Pool(t),
                   !.todo = IF trip[t].from # "unknown" THEN Rotated(Pool(t), WINDOW, Old) ELSE <<>>,
                   !.kept = IF trip[t].from # "unknown" THEN <<>> ELSE Rotated(Pool(t), WINDOW, Old)]
    OBVIOUS
<1>5. PipelineTyped BY DEF PipelineInv
<1>6. next \in BuildState /\ Sound(t, tr, next) /\ next.pc = "verify" BY <1>3, <1>4, <1>5, BeginsSound
<1>7. build' = [build EXCEPT ![t] = next] BY <1>4 DEF Build
<1>8. trip' = [trip EXCEPT ![t] = tr]
    BY <1>1 DEF Build
<1>9. PICK ls \in SUBSET CardList : ls = list[t] BY OneTrip
<1>10. \A x, y \in ls : x = y BY <1>9, OneTrip
<1>11. list' = [list EXCEPT ![t] = ls] BY <1>9, OneTrip DEF Build
<1>12. Keyed(tr, next, ls) BY <1>6 DEF Keyed
<1>13. routes' \in SUBSET RouteRows /\ \A r \in routes' : RouteRight(r) BY OneTrip DEF Build
<1>14. replies' \in SUBSET ReplyRows /\ \A r \in replies' : ReplyRight(r) BY OneTrip DEF Build
<1>15. shown' \in [Trip -> SUBSET Screen] BY OneTrip DEF Build
<1>16. clock' = clock /\ obs' = obs BY DEF Build
<1> QED BY <1>3, <1>6, <1>7, <1>8, <1>9, <1>10, <1>11, <1>12, <1>13, <1>14, <1>15, <1>16, OneTripMoves

\* The card whose turn it is, of a build with an origin.
LEMMA UpcomingCard ==
    ASSUME PipelineInv, NEW t \in Trip, build[t].pc \in {"verify", "reserve", "route"}, build[t].todo # <<>>
    PROVE  /\ Upcoming(build[t]) \in Cards /\ Upcoming(build[t]) = build[t].todo[1]
           /\ Upcoming(build[t]).estimated /\ trip[t].from # "unknown"
           /\ Timed(t, trip[t], build[t]) /\ InOrder(build[t]) /\ OneLost(t, trip[t], build[t])
<1>1. PICK b \in BuildState : b = build[t] BY OneTrip
<1>2. PICK tr \in TripState : tr = trip[t] BY OneTrip
<1>3. Timed(t, tr, b) /\ InOrder(b) /\ OneLost(t, tr, b) BY <1>1, <1>2, OneTrip DEF Sound
<1>4. tr.from # "unknown" BY <1>1, <1>2, <1>3 DEF Timed
<1>5. PICK todo \in Seq(Cards) : todo = b.todo BY DEF BuildState
<1>6. Len(todo) \in Nat \ {0} BY <1>1, <1>5, EmptySeq
<1>7. DOMAIN todo = 1..Len(todo) BY LenProperties
<1>8. Head(todo) = todo[1] OBVIOUS
<1>9. 1 \in DOMAIN todo /\ todo[1] \in Cards BY <1>6, <1>7, ElementOfSeq
<1>10. todo[1].estimated BY <1>3, <1>4, <1>5, <1>9 DEF Timed
<1> QED BY <1>1, <1>2, <1>3, <1>4, <1>5, <1>8, <1>9, <1>10 DEF Upcoming

\* The next card is passed: kept as it is given, with the banner or not, or dropped.
LEMMA PassedSound ==
    ASSUME PipelineInv, NEW t \in Trip, build[t].pc \in {"verify", "reserve", "route"}, build[t].todo # <<>>,
           NEW add \in Seq(Cards), NEW banner \in BOOLEAN, build[t].unavailable => banner,
           \/ /\ add = <<>>
              /\ \/ ~Within(t, Upcoming(build[t]).minutes)
                 \/ ~Within(t, Drive[trip[t].from][Upcoming(build[t]).spot] + BoatWait[t][Upcoming(build[t]).spot])
           \/ \E card \in Cards :
                 /\ add = <<card>> /\ card.spot = Upcoming(build[t]).spot /\ card.score = Upcoming(build[t]).score
                 /\ IF card.estimated THEN banner \/ build[t].calls = MAX_HERE_CALLS
                    ELSE card.minutes = Drive[trip[t].from][card.spot] + BoatWait[t][card.spot]
    PROVE  /\ [Passed(build[t], add) EXCEPT !.unavailable = banner] \in BuildState
           /\ Sound(t, trip[t], [Passed(build[t], add) EXCEPT !.unavailable = banner])
           /\ [Passed(build[t], add) EXCEPT !.unavailable = banner].pc = "verify"
           /\ Passed(build[t], add).unavailable = build[t].unavailable
           /\ banner = build[t].unavailable =>
                 Passed(build[t], add) = [Passed(build[t], add) EXCEPT !.unavailable = banner]
<1>1. PICK b \in BuildState : b = build[t] BY OneTrip
<1>2. PICK tr \in TripState : tr = trip[t] BY OneTrip
<1>3. PICK h \in Cards : h = Upcoming(b) /\ h = b.todo[1] BY <1>1, UpcomingCard
<1>4. Timed(t, tr, b) /\ InOrder(b) /\ OneLost(t, tr, b) /\ tr.from # "unknown" BY <1>1, <1>2, UpcomingCard
<1>5. PICK todo \in Seq(Cards) : todo = Tail(b.todo) BY <1>1, HeadTailProperties DEF BuildState
<1>6. PICK kept \in Seq(Cards) : kept = b.kept \o add BY ConcatProperties DEF BuildState
<1>7. PICK n \in Nat : n = b.verified + Len(add)
    <2>1. Len(add) \in Nat BY LenProperties
    <2>2. PICK v \in Nat : v = b.verified BY DEF BuildState
    <2> QED BY <2>1, <2>2
<1>8. PICK next : next = [b EXCEPT !.pc = "verify", !.todo = todo, !.kept = kept, !.verified = n,
                                   !.unavailable = banner]
    OBVIOUS
<1>9. /\ next \in BuildState /\ next.pc = "verify" /\ next.ranked = b.ranked /\ next.todo = todo
      /\ next.kept = kept /\ next.verified = n /\ next.calls = b.calls /\ next.unavailable = banner
    BY <1>8 DEF BuildState
<1>10. Passed(b, add) = [b EXCEPT !.pc = "verify", !.todo = todo, !.kept = kept, !.verified = n]
    BY <1>5, <1>6, <1>7 DEF Passed
<1>11. [Passed(b, add) EXCEPT !.unavailable = banner] = next BY <1>8, <1>10 DEF BuildState
<1>12. b.unavailable => next.unavailable BY <1>1, <1>9
<1>13. \/ /\ add = <<>>
          /\ \/ ~(b.todo[1].minutes <= tr.intake.max)
             \/ ~(Drive[tr.from][b.todo[1].spot] + BoatWait[t][b.todo[1].spot] <= tr.intake.max)
       \/ \E card \in Cards :
             /\ add = <<card>> /\ card.spot = b.todo[1].spot /\ card.score = b.todo[1].score
             /\ IF card.estimated THEN next.unavailable \/ next.calls = MAX_HERE_CALLS
                ELSE card.minutes = Drive[tr.from][card.spot] + BoatWait[t][card.spot]
    BY <1>1, <1>2, <1>3, <1>9 DEF Within
<1>14. b.todo # <<>> BY <1>1
<1>15. Timed(t, tr, next) /\ InOrder(next) /\ OneLost(t, tr, next)
    <2>1. next.todo = Tail(b.todo) /\ next.kept = b.kept \o add /\ next.verified = b.verified + Len(add)
        BY <1>5, <1>6, <1>7, <1>9
    <2> QED BY ONLY <1>4, <1>9, <1>12, <1>13, <1>14, <2>1, NextCard
<1>16. Sound(t, tr, next) BY <1>15 DEF Sound
<1>17. PICK passed \in BuildState : passed = Passed(b, add) /\ passed.unavailable = b.unavailable
    BY <1>10 DEF BuildState
<1>18. banner = passed.unavailable => passed = [passed EXCEPT !.unavailable = banner] BY DEF BuildState
<1> QED BY <1>1, <1>2, <1>9, <1>11, <1>16, <1>17, <1>18

\* HERE's time was judged.
LEMMA JudgedSound ==
    ASSUME PipelineInv, NEW t \in Trip, build[t].pc \in {"verify", "reserve", "route"}, build[t].todo # <<>>,
           NEW minutes, minutes = Drive[trip[t].from][Upcoming(build[t]).spot]
    PROVE  /\ Judged(t, build[t], minutes) \in BuildState /\ Judged(t, build[t], minutes).pc = "verify"
           /\ Sound(t, trip[t], Judged(t, build[t], minutes))
<1>1. PICK b \in BuildState : b = build[t] BY OneTrip
<1>2. PICK h \in Cards : h = Upcoming(b) BY <1>1, UpcomingCard
<1>3. PICK tr \in TripState : tr = trip[t] BY OneTrip
<1>4. PICK time : time = minutes + BoatWait[t][h.spot] OBVIOUS
<1>5. time \in Int /\ time = Drive[tr.from][h.spot] + BoatWait[t][h.spot]
    <2>1. h.spot \in Spots /\ tr.from \in Place BY DEF Cards, TripState
    <2>2. Drive \in [Place -> [Spots -> Int]] /\ BoatWait \in [Trip -> [Spots -> Int]] BY PipelineAssumption
    <2>3. Drive[tr.from][h.spot] \in Int /\ BoatWait[t][h.spot] \in Int BY <2>1, <2>2
    <2> QED BY <1>1, <1>2, <1>3, <1>4, <2>3
<1>6. PICK card : card = [h EXCEPT !.minutes = time, !.estimated = FALSE] OBVIOUS
<1>7. /\ card \in Cards /\ card.spot = h.spot /\ card.score = h.score /\ card.minutes = time
      /\ card.estimated = FALSE
    BY <1>5, <1>6 DEF Cards
<1>8. PICK add : add = IF Within(t, time) THEN <<card>> ELSE <<>> OBVIOUS
<1>9. add \in Seq(Cards) BY <1>7, <1>8, EmptySeq
<1>10. Judged(t, b, minutes) = Passed(b, add) BY <1>2, <1>4, <1>6, <1>8 DEF Judged, DriveTime
<1>11. PICK banner \in BOOLEAN : banner = b.unavailable BY DEF BuildState
<1>12. \/ /\ add = <<>>
          /\ \/ ~Within(t, Upcoming(build[t]).minutes)
             \/ ~Within(t, Drive[trip[t].from][Upcoming(build[t]).spot] + BoatWait[t][Upcoming(build[t]).spot])
       \/ \E c \in Cards :
             /\ add = <<c>> /\ c.spot = Upcoming(build[t]).spot /\ c.score = Upcoming(build[t]).score
             /\ IF c.estimated THEN banner \/ build[t].calls = MAX_HERE_CALLS
                ELSE c.minutes = Drive[trip[t].from][c.spot] + BoatWait[t][c.spot]
    <2>1. CASE Within(t, time)
        <3>1. add = <<card>> BY <1>8, <2>1
        <3>2. IF card.estimated THEN banner \/ build[t].calls = MAX_HERE_CALLS
              ELSE card.minutes = Drive[trip[t].from][card.spot] + BoatWait[t][card.spot]
            BY <1>3, <1>5, <1>7
        <3>3. card.spot = Upcoming(build[t]).spot /\ card.score = Upcoming(build[t]).score BY <1>1, <1>2, <1>7
        <3> QED BY <1>7, <3>1, <3>2, <3>3
    <2>2. CASE ~Within(t, time)
        <3>1. add = <<>> BY <1>8, <2>2
        <3>2. time = Drive[trip[t].from][Upcoming(build[t]).spot] + BoatWait[t][Upcoming(build[t]).spot]
            BY <1>1, <1>2, <1>3, <1>5
        <3> QED BY <2>2, <3>1, <3>2
    <2> QED BY <2>1, <2>2
<1>13. build[t].unavailable => banner BY <1>1, <1>11
<1>14. /\ [Passed(build[t], add) EXCEPT !.unavailable = banner] \in BuildState
       /\ Sound(t, trip[t], [Passed(build[t], add) EXCEPT !.unavailable = banner])
       /\ [Passed(build[t], add) EXCEPT !.unavailable = banner].pc = "verify"
       /\ banner = build[t].unavailable =>
             Passed(build[t], add) = [Passed(build[t], add) EXCEPT !.unavailable = banner]
    BY <1>9, <1>12, <1>13, PassedSound
<1> QED BY <1>1, <1>10, <1>11, <1>14

\* The estimate stands: HERE failed or refused, or the calls are spent.
LEMMA EstimateSound ==
    ASSUME PipelineInv, NEW t \in Trip, build[t].pc \in {"verify", "reserve", "route"}, build[t].todo # <<>>,
           NEW failed \in BOOLEAN, failed \/ build[t].calls = MAX_HERE_CALLS
    PROVE  /\ EstimateStands(t, build[t], failed) \in BuildState
           /\ EstimateStands(t, build[t], failed).pc = "verify"
           /\ Sound(t, trip[t], EstimateStands(t, build[t], failed))
<1>1. PICK b \in BuildState : b = build[t] BY OneTrip
<1>2. PICK h \in Cards : h = Upcoming(b) /\ h.estimated BY <1>1, UpcomingCard
<1>3. PICK add : add = Near(t, b) OBVIOUS
<1>4. add = IF Within(t, h.minutes) THEN <<h>> ELSE <<>> BY <1>2, <1>3 DEF Near
<1>5. add \in Seq(Cards) BY <1>4, EmptySeq
<1>6. b.unavailable \in BOOLEAN BY DEF BuildState
<1>7. PICK banner \in BOOLEAN : banner = (b.unavailable \/ failed) BY <1>6
<1>8. build[t].unavailable => banner BY <1>1, <1>7
<1>9. failed => banner BY <1>7
<1>10. \/ /\ add = <<>>
          /\ \/ ~Within(t, Upcoming(build[t]).minutes)
             \/ ~Within(t, Drive[trip[t].from][Upcoming(build[t]).spot] + BoatWait[t][Upcoming(build[t]).spot])
       \/ \E c \in Cards :
             /\ add = <<c>> /\ c.spot = Upcoming(build[t]).spot /\ c.score = Upcoming(build[t]).score
             /\ IF c.estimated THEN banner \/ build[t].calls = MAX_HERE_CALLS
                ELSE c.minutes = Drive[trip[t].from][c.spot] + BoatWait[t][c.spot]
    <2>1. h = Upcoming(build[t]) BY <1>1, <1>2
    <2>2. banner \/ build[t].calls = MAX_HERE_CALLS BY <1>9
    <2>3. CASE Within(t, h.minutes)
        <3>1. add = <<h>> BY <1>4, <2>3
        <3> QED BY <1>2, <2>1, <2>2, <3>1
    <2>4. CASE ~Within(t, h.minutes)
        <3>1. add = <<>> BY <1>4, <2>4
        <3> QED BY <2>1, <2>4, <3>1
    <2> QED BY <2>3, <2>4
<1>11. /\ [Passed(build[t], add) EXCEPT !.unavailable = banner] \in BuildState
       /\ Sound(t, trip[t], [Passed(build[t], add) EXCEPT !.unavailable = banner])
       /\ [Passed(build[t], add) EXCEPT !.unavailable = banner].pc = "verify"
       /\ Passed(build[t], add).unavailable = build[t].unavailable
    BY <1>5, <1>8, <1>10, PassedSound
<1>12. EstimateStands(t, b, failed) = [Passed(b, add) EXCEPT !.unavailable = banner]
    <2>1. EstimateStands(t, b, failed) = [Passed(b, add) EXCEPT !.unavailable = Passed(b, add).unavailable \/ failed]
        BY <1>3 DEF EstimateStands
    <2>2. (Passed(b, add).unavailable \/ failed) = banner BY <1>1, <1>7, <1>11
    <2> QED BY <2>1, <2>2
<1> QED BY <1>1, <1>11, <1>12

LEMMA ReadRouteStep ==
    ASSUME PipelineInv, NEW t \in Trip, ReadRoute(t)
    PROVE  PipelineInv'
<1>1. PICK b \in BuildState : b = build[t] BY OneTrip
<1>2. b.pc \in {"verify", "reserve", "route"} /\ b.todo # <<>> BY <1>1 DEF ReadRoute, Verifying
<1>3. routes' \in SUBSET RouteRows /\ \A r \in routes' : RouteRight(r) BY OneTrip DEF ReadRoute
<1>4. UNCHANGED <<clock, obs, trip, list, replies, shown>> BY DEF ReadRoute
<1>5. PICK tr \in TripState : tr = trip[t] BY OneTrip
<1>6. ASSUME NEW next \in BuildState, build' = [build EXCEPT ![t] = next], Sound(t, trip[t], next),
             next.pc \in {"verify", "reserve"}
      PROVE  PipelineInv'
    <2>1. Keyed(trip[t], next, list[t]) BY <1>6 DEF Keyed
    <2> QED BY <1>3, <1>4, <1>6, <2>1, BuildMoves
<1>7. ASSUME NEW r \in routes, r.from = trip[t].from, r.spot = Upcoming(b).spot,
             build' = [build EXCEPT ![t] = Judged(t, b, r.minutes)]
      PROVE  PipelineInv'
    <2>1. PICK minutes : minutes = r.minutes OBVIOUS
    <2>2. minutes = Drive[trip[t].from][Upcoming(build[t]).spot] BY <1>1, <1>7, <2>1, OneTrip DEF RouteRight
    <2>3. PICK next \in BuildState : next = Judged(t, b, minutes) /\ next.pc = "verify" /\ Sound(t, trip[t], next)
        BY <1>1, <1>2, <2>2, JudgedSound
    <2>4. build' = [build EXCEPT ![t] = next] BY <1>7, <2>1, <2>3
    <2> QED BY <1>6, <2>3, <2>4
<1>8. ASSUME NEW failed \in BOOLEAN, failed \/ b.calls = MAX_HERE_CALLS,
             build' = [build EXCEPT ![t] = EstimateStands(t, b, failed)]
      PROVE  PipelineInv'
    <2>1. PICK next \in BuildState :
             next = EstimateStands(t, b, failed) /\ next.pc = "verify" /\ Sound(t, trip[t], next)
        BY <1>1, <1>2, <1>8, EstimateSound
    <2>2. build' = [build EXCEPT ![t] = next] BY <1>8, <2>1
    <2> QED BY <1>6, <2>1, <2>2
<1>9. b.calls \in Nat /\ MAX_HERE_CALLS \in Nat /\ b.calls <= MAX_HERE_CALLS
    BY <1>1, <1>2, PipelineAssumption, OneTrip DEF Sound, Timed, BuildState
<1>10. ASSUME b.calls < MAX_HERE_CALLS, build' = [build EXCEPT ![t].pc = "reserve"]
       PROVE  PipelineInv'
    <2>1. PICK next : next = [b EXCEPT !.pc = "reserve"] OBVIOUS
    <2>2. /\ next \in BuildState /\ next.pc = "reserve" /\ next.ranked = b.ranked /\ next.todo = b.todo
          /\ next.kept = b.kept /\ next.verified = b.verified /\ next.calls = b.calls
          /\ next.unavailable = b.unavailable
        BY <2>1 DEF BuildState
    <2>3. Timed(t, tr, b) /\ InOrder(b) /\ OneLost(t, tr, b) BY <1>1, <1>2, <1>5, OneTrip DEF Sound
    <2>4. Timed(t, tr, next) BY <1>2, <1>10, <2>2, <2>3 DEF Timed
    <2>5. InOrder(next) BY <2>2, <2>3 DEF InOrder
    <2>6. Lost(t, tr, next) = Lost(t, tr, b) BY <2>2 DEF Lost
    <2>7. OneLost(t, tr, next) BY <2>2, <2>3, <2>6 DEF OneLost
    <2>8. Sound(t, trip[t], next) BY <1>5, <2>4, <2>5, <2>7 DEF Sound
    <2>9. build' = [build EXCEPT ![t] = next] BY <1>1, <1>10, <2>1
    <2> QED BY <1>6, <2>2, <2>8, <2>9
<1>11. CASE \E r \in {x \in routes : x.from = trip[t].from /\ x.spot = Upcoming(b).spot} :
               build' = [build EXCEPT ![t] = Judged(t, b, r.minutes)]
    BY <1>7, <1>11
<1>12. CASE b.calls >= MAX_HERE_CALLS /\ build' = [build EXCEPT ![t] = EstimateStands(t, b, FALSE)]
    <2>1. b.calls = MAX_HERE_CALLS BY <1>9, <1>12
    <2> QED BY <1>8, <1>12, <2>1
<1>13. CASE build' = [build EXCEPT ![t] = EstimateStands(t, b, TRUE)] BY <1>8, <1>13
<1>14. CASE b.calls < MAX_HERE_CALLS /\ build' = [build EXCEPT ![t].pc = "reserve"] BY <1>10, <1>14
<1> QED BY <1>1, <1>11, <1>12, <1>13, <1>14 DEF ReadRoute

LEMMA ReserveStep ==
    ASSUME PipelineInv, NEW t \in Trip, Reserve(t)
    PROVE  PipelineInv'
<1>1. PICK b \in BuildState : b = build[t] BY OneTrip
<1>2. PICK tr \in TripState : tr = trip[t] BY OneTrip
<1>3. b.pc = "reserve" BY <1>1 DEF Reserve
<1>4. Timed(t, tr, b) /\ InOrder(b) /\ OneLost(t, tr, b) BY <1>1, <1>2, <1>3, OneTrip DEF Sound
<1>5. b.todo # <<>> /\ b.calls < MAX_HERE_CALLS BY <1>3, <1>4 DEF Timed
<1>6. routes' \in SUBSET RouteRows /\ \A r \in routes' : RouteRight(r) BY OneTrip DEF Reserve
<1>7. UNCHANGED <<clock, obs, trip, list, replies, shown>> BY DEF Reserve
<1>8. CASE build' = [build EXCEPT ![t].pc = "route", ![t].calls = @ + 1]
    <2>1. PICK calls \in Nat : calls = b.calls BY DEF BuildState
    <2>2. PICK more \in Nat : more = calls + 1 OBVIOUS
    <2>3. PICK next : next = [b EXCEPT !.pc = "route", !.calls = more] OBVIOUS
    <2>4. /\ next \in BuildState /\ next.pc = "route" /\ next.ranked = b.ranked /\ next.todo = b.todo
          /\ next.kept = b.kept /\ next.verified = b.verified /\ next.calls = more
          /\ next.unavailable = b.unavailable
        BY <2>3 DEF BuildState
    <2>5. MAX_HERE_CALLS \in Nat BY PipelineAssumption
    <2>6. more <= MAX_HERE_CALLS /\ calls # MAX_HERE_CALLS BY <1>5, <2>1, <2>5, <2>2
    <2>7. Timed(t, tr, next) BY <1>4, <1>5, <2>1, <2>4, <2>6 DEF Timed
    <2>8. InOrder(next) BY <1>4, <2>4 DEF InOrder
    <2>9. Lost(t, tr, next) = Lost(t, tr, b) BY <2>4 DEF Lost
    <2>10. OneLost(t, tr, next) BY <1>4, <2>4, <2>9 DEF OneLost
    <2>11. Sound(t, trip[t], next) BY <1>2, <2>7, <2>8, <2>10 DEF Sound
    <2>12. build' = [build EXCEPT ![t] = next]
        <3>1. build \in [Trip -> BuildState] BY DEF PipelineInv, PipelineTyped
        <3> QED BY <1>1, <1>8, <2>1, <2>3, <2>2, <3>1 DEF BuildState
    <2>13. Keyed(trip[t], next, list[t]) BY <2>4 DEF Keyed
    <2> QED BY <1>6, <1>7, <2>4, <2>11, <2>12, <2>13, BuildMoves
<1>9. CASE build' = [build EXCEPT ![t] = EstimateStands(t, build[t], TRUE)]
    <2>1. PICK next \in BuildState :
             next = EstimateStands(t, build[t], TRUE) /\ next.pc = "verify" /\ Sound(t, trip[t], next)
        BY <1>1, <1>3, <1>5, EstimateSound
    <2>2. build' = [build EXCEPT ![t] = next] BY <1>9, <2>1
    <2>3. Keyed(trip[t], next, list[t]) BY <2>1 DEF Keyed
    <2> QED BY <1>6, <1>7, <2>1, <2>2, <2>3, BuildMoves
<1> QED BY <1>8, <1>9 DEF Reserve

LEMMA AskHereStep ==
    ASSUME PipelineInv, NEW t \in Trip, AskHere(t)
    PROVE  PipelineInv'
<1>1. PICK b \in BuildState : b = build[t] BY OneTrip
<1>2. PICK tr \in TripState : tr = trip[t] BY OneTrip
<1>3. b.pc = "route" BY <1>1 DEF AskHere
<1>4. Timed(t, tr, b) BY <1>1, <1>2, <1>3, OneTrip DEF Sound
<1>5. b.todo # <<>> BY <1>3, <1>4 DEF Timed
<1>6. UNCHANGED <<clock, obs, trip, list, replies, shown>> BY DEF AskHere
<1>7. PICK spot \in Spots : spot = Upcoming(b).spot
    <2>1. Upcoming(b) \in Cards BY <1>1, <1>3, <1>5, UpcomingCard
    <2> QED BY <2>1 DEF Cards
<1>8. PICK minutes \in Int : minutes = Drive[tr.from][spot]
    <2>1. tr.from \in Place BY DEF TripState
    <2>2. Drive \in [Place -> [Spots -> Int]] BY PipelineAssumption
    <2> QED BY <2>1, <2>2
<1>9. PICK row : row = [from |-> tr.from, spot |-> spot, minutes |-> minutes] OBVIOUS
<1>10. row \in RouteRows /\ RouteRight(row) BY <1>8, <1>9 DEF RouteRows, RouteRight, TripState
<1>11. routes \in SUBSET RouteRows /\ \A r \in routes : RouteRight(r) BY OneTrip
<1>12. routes' \in {routes, routes \cup {row}} BY <1>1, <1>2, <1>7, <1>8, <1>9 DEF AskHere, StoredNever
<1>13. routes' \in SUBSET RouteRows /\ \A r \in routes' : RouteRight(r) BY <1>10, <1>11, <1>12
<1>14. ASSUME NEW next \in BuildState, build' = [build EXCEPT ![t] = next], Sound(t, trip[t], next),
              next.pc = "verify"
       PROVE  PipelineInv'
    <2>1. Keyed(trip[t], next, list[t]) BY <1>14 DEF Keyed
    <2> QED BY <1>6, <1>13, <1>14, <2>1, BuildMoves
<1>15. CASE build' = [build EXCEPT ![t] = Judged(t, build[t], minutes)]
    <2>1. PICK next \in BuildState :
             next = Judged(t, build[t], minutes) /\ next.pc = "verify" /\ Sound(t, trip[t], next)
        BY <1>1, <1>2, <1>3, <1>5, <1>7, <1>8, JudgedSound
    <2>2. build' = [build EXCEPT ![t] = next] BY <1>15, <2>1
    <2> QED BY <1>14, <2>1, <2>2
<1>16. CASE build' = [build EXCEPT ![t] = EstimateStands(t, build[t], TRUE)]
    <2>1. PICK next \in BuildState :
             next = EstimateStands(t, build[t], TRUE) /\ next.pc = "verify" /\ Sound(t, trip[t], next)
        BY <1>1, <1>3, <1>5, EstimateSound
    <2>2. build' = [build EXCEPT ![t] = next] BY <1>16, <2>1
    <2> QED BY <1>14, <2>1, <2>2
<1> QED BY <1>1, <1>2, <1>7, <1>8, <1>15, <1>16 DEF AskHere

\* The list that a build delivers.
Delivery(t) ==
    [cards |-> Cut(build[t].kept \o Rest(t, build[t].todo), MAX_CANDIDATES), unavailable |-> build[t].unavailable]

LEMMA DeliveryIs ==
    ASSUME PipelineInv, NEW t \in Trip, Deliver(t)
    PROVE  /\ Delivery(t) \in CardList /\ list' = [list EXCEPT ![t] = {Delivery(t)}]
           /\ Delivery(t).unavailable = build[t].unavailable
           /\ DeliveredRight(t, trip[t], build[t], Delivery(t).cards)
<1>1. PICK b \in BuildState : b = build[t] BY OneTrip
<1>2. PICK tr \in TripState : tr = trip[t] BY OneTrip
<1>3. b.pc = "verify" /\ (b.todo = <<>> \/ b.verified >= TOP_N) BY <1>1 DEF Deliver
<1>4. Timed(t, tr, b) /\ InOrder(b) /\ OneLost(t, tr, b) BY <1>1, <1>2, <1>3, OneTrip DEF Sound
<1>5. PICK cards \in Seq(Cards) : /\ cards = Cut(b.kept \o Kept(b.todo, InReach(tr, b.todo)), MAX_CANDIDATES)
                                  /\ DeliveredRight(t, tr, b, cards)
    BY <1>3, <1>4, DeliveredCards
<1>6. Rest(t, b.todo) = Kept(b.todo, InReach(tr, b.todo)) BY <1>2 DEF Rest, Within, InReach
<1>7. Delivery(t) = [cards |-> cards, unavailable |-> b.unavailable] BY <1>1, <1>5, <1>6 DEF Delivery
<1>8. b.unavailable \in BOOLEAN BY DEF BuildState
<1>9. Delivery(t) \in CardList BY <1>7, <1>8 DEF CardList
<1>10. Delivery(t).cards = cards /\ Delivery(t).unavailable = b.unavailable BY <1>7
<1>11. list' = [list EXCEPT ![t] = {Delivery(t)}] BY DEF Deliver, Delivery
<1> QED BY <1>1, <1>2, <1>5, <1>9, <1>10, <1>11

LEMMA DeliverStep ==
    ASSUME PipelineInv, NEW t \in Trip, Deliver(t)
    PROVE  PipelineInv'
<1>1. PICK next : next = [NoBuild EXCEPT !.pc = "lookup"] OBVIOUS
<1>2. next \in BuildState /\ next.pc = "lookup" BY <1>1, NoBuildTyped DEF BuildState
<1>3. PICK tr \in TripState : tr = trip[t] BY OneTrip
<1>4. PICK ls \in SUBSET CardList : ls = {Delivery(t)} BY DeliveryIs
<1>5. \A x, y \in ls : x = y BY <1>4
<1>6. Sound(t, tr, next) BY <1>2 DEF Sound
<1>7. Keyed(tr, next, ls) BY <1>2, <1>4 DEF Keyed
<1>8. trip' = [trip EXCEPT ![t] = tr] BY <1>3, OneTrip DEF Deliver
<1>9. build' = [build EXCEPT ![t] = next] BY <1>1 DEF Deliver
<1>10. list' = [list EXCEPT ![t] = ls] BY <1>4, DeliveryIs
<1>11. routes' \in SUBSET RouteRows /\ \A r \in routes' : RouteRight(r) BY OneTrip DEF Deliver
<1>12. replies' \in SUBSET ReplyRows /\ \A r \in replies' : ReplyRight(r) BY OneTrip DEF Deliver
<1>13. shown' \in [Trip -> SUBSET Screen] BY OneTrip DEF Deliver
<1>14. clock' = clock /\ obs' = obs BY DEF Deliver
<1> QED BY <1>2, <1>3, <1>4, <1>5, <1>6, <1>7, <1>8, <1>9, <1>10, <1>11, <1>12, <1>13, <1>14, OneTripMoves

\* The keys of a list: of its first card, whose gauge has one reading, and of the filters.
LEMMA KeysAreRight ==
    ASSUME PipelineInv, NEW t \in Trip, NEW l \in list[t]
    PROVE  Keys(t) \in SUBSET ReplyKey /\ \A k \in Keys(t) : KeyOf(k, l, trip[t])
<1>1. PICK ls \in SUBSET CardList : ls = list[t] BY OneTrip
<1>2. l \in CardList /\ \A x \in ls : x = l BY <1>1, OneTrip
<1>3. (CHOOSE x \in list[t] : TRUE) = l BY <1>1, <1>2
<1>4. PICK tr \in TripState : tr = trip[t] BY OneTrip
<1>5. PICK cards \in Seq(Cards) : cards = l.cards BY <1>2 DEF CardList
<1>6. PICK intake : intake = IntakeHash(tr.intake) OBVIOUS
<1>7. Keys(t) = {[spot |-> cards[1].spot, usgs |-> r, at |-> clock, intake |-> intake] :
                    r \in IF cards = <<>> THEN {} ELSE cards[1].usgs}
    BY <1>3, <1>4, <1>5, <1>6 DEF Keys
<1>8. ASSUME NEW k \in Keys(t) PROVE k \in ReplyKey /\ KeyOf(k, l, tr)
    <2>1. cards # <<>> BY <1>7
    <2>2. PICK r \in cards[1].usgs : k = [spot |-> cards[1].spot, usgs |-> r, at |-> clock, intake |-> intake]
        BY <1>7, <2>1
    <2>3. Len(cards) \in Nat \ {0} BY <2>1, EmptySeq
    <2>4. PICK card \in Cards : card = cards[1] BY <2>3, ElementOfSeq
    <2>5. card.spot \in Spots /\ card.usgs \in Gauged BY DEF Cards
    <2>6. PICK s \in Spots : \E o \in Outlook[s] : card.usgs = o.usgs BY <2>5 DEF Gauged
    <2>7. \A x, y \in card.usgs : x = y BY <2>6, PipelineAssumption
    <2>8. card.usgs = {r} BY <2>2, <2>4, <2>7
    <2>9. r \in UNION Gauged BY <2>2, <2>4, <2>5
    <2>10. clock \in Nat BY DEF PipelineInv, PipelineTyped
    <2>11. intake \in {IntakeHash(i) : i \in Intake} BY <1>6 DEF TripState
    <2>12. k \in ReplyKey BY <2>2, <2>4, <2>5, <2>9, <2>10, <2>11 DEF ReplyKey
    <2>13. k.spot = cards[1].spot /\ k.usgs = r /\ k.intake = intake BY <2>2
    <2>14. KeyOf(k, l, tr) BY <1>5, <1>6, <2>1, <2>4, <2>8, <2>13 DEF KeyOf
    <2> QED BY <2>12, <2>14
<1> QED BY <1>4, <1>8

LEMMA LookUpStep ==
    ASSUME PipelineInv, NEW t \in Trip, LookUp(t)
    PROVE  PipelineInv'
<1>1. PICK b \in BuildState : b = build[t] BY OneTrip
<1>2. b.pc = "lookup" BY <1>1 DEF LookUp
<1>3. PICK tr \in TripState : tr = trip[t] BY OneTrip
<1>4. PICK ls \in SUBSET CardList : ls = list[t] BY OneTrip
<1>5. Keyed(tr, b, ls) /\ \A x, y \in ls : x = y BY <1>1, <1>3, <1>4, OneTrip
<1>6. PICK l \in ls : TRUE BY <1>2, <1>5 DEF Keyed
<1>7. trip' = [trip EXCEPT ![t] = tr] /\ list' = [list EXCEPT ![t] = ls] BY <1>3, <1>4, OneTrip DEF LookUp
<1>8. routes' \in SUBSET RouteRows /\ \A r \in routes' : RouteRight(r) BY OneTrip DEF LookUp
<1>9. replies' \in SUBSET ReplyRows /\ \A r \in replies' : ReplyRight(r) BY OneTrip DEF LookUp
<1>10. clock' = clock /\ obs' = obs BY DEF LookUp
<1>11. shown \in [Trip -> SUBSET Screen] BY OneTrip
<1>12. ASSUME NEW next \in BuildState, build' = [build EXCEPT ![t] = next], next.pc \in {"idle", "reply"},
              Keyed(tr, next, ls), shown' \in [Trip -> SUBSET Screen]
       PROVE  PipelineInv'
    <2>1. Sound(t, tr, next) BY <1>12 DEF Sound
    <2> QED BY <1>5, <1>7, <1>8, <1>9, <1>10, <1>12, <2>1, OneTripMoves
<1>13. CASE {r \in replies : r.key \in Keys(t)} # {}
    <2>1. PICK texts : texts = {[text |-> r.text, cached |-> TRUE] : r \in {x \in replies : x.key \in Keys(t)}}
        OBVIOUS
    <2>2. texts \in SUBSET Screen
        <3>1. ASSUME NEW x \in texts PROVE x \in Screen
            <4>1. PICK r \in replies : x = [text |-> r.text, cached |-> TRUE] BY <2>1
            <4>2. r.text \in ReplyText BY <4>1, OneTrip DEF ReplyRows
            <4> QED BY <4>1, <4>2 DEF Screen
        <3> QED BY <3>1
    <2>3. shown' = [shown EXCEPT ![t] = texts] BY <1>13, <2>1 DEF LookUp
    <2>4. shown' \in [Trip -> SUBSET Screen] BY <1>11, <2>2, <2>3
    <2>5. build' = [build EXCEPT ![t] = NoBuild] BY <1>13 DEF LookUp
    <2>6. Keyed(tr, NoBuild, ls) BY NoBuildTyped DEF Keyed
    <2> QED BY <1>12, <2>4, <2>5, <2>6, NoBuildTyped
<1>14. CASE {r \in replies : r.key \in Keys(t)} = {}
    <2>1. PICK keys : keys = Keys(t) OBVIOUS
    <2>2. keys \in SUBSET ReplyKey /\ \A k \in keys : KeyOf(k, l, tr) BY <1>3, <1>4, <2>1, KeysAreRight
    <2>3. PICK next : next = [b EXCEPT !.pc = "reply", !.key = keys] OBVIOUS
    <2>4. next \in BuildState /\ next.pc = "reply" /\ next.key = keys BY <2>2, <2>3 DEF BuildState
    <2>5. build' = [build EXCEPT ![t].pc = "reply", ![t].key = keys] BY <1>14, <2>1 DEF LookUp
    <2>6. build' = [build EXCEPT ![t] = next]
        <3>1. build \in [Trip -> BuildState] BY DEF PipelineInv, PipelineTyped
        <3> QED BY <1>1, <2>3, <2>5, <3>1 DEF BuildState
    <2>7. Keyed(tr, next, ls) BY <1>5, <1>6, <2>2, <2>4 DEF Keyed
    <2>8. shown' = shown BY <1>14 DEF LookUp
    <2> QED BY <1>11, <1>12, <2>4, <2>6, <2>7, <2>8
<1> QED BY <1>13, <1>14

\* The spots on the first cards, of which the first one is the first card's.
LEMMA TopSpotsTyped ==
    ASSUME NEW cards \in Seq(Cards)
    PROVE  TopSpots(cards) \in Seq(Spots) /\ (cards # <<>> => TopSpots(cards)[1] = cards[1].spot)
<1>1. PICK n \in Nat : n = Len(cards) BY LenProperties
<1>2. TOP_N \in Nat /\ TOP_N > 0 BY PipelineAssumption
<1>3. PICK m \in Nat : m = Min({TOP_N, n}) /\ m <= n /\ (n > 0 => m > 0)
    <2>1. PICK k \in {TOP_N, n} : k <= TOP_N /\ k <= n BY <1>2
    <2>2. Min({TOP_N, n}) = k BY <1>2, <2>1 DEF Min
    <2> QED BY <1>2, <2>1, <2>2
<1>4. TopSpots(cards) = [i \in 1..m |-> cards[i].spot] BY <1>1, <1>3 DEF TopSpots
<1>5. ASSUME NEW i \in 1..m PROVE cards[i].spot \in Spots
    <2>1. i \in 1..n BY <1>3
    <2>2. cards[i] \in Cards BY <1>1, <2>1, ElementOfSeq
    <2> QED BY <2>2 DEF Cards
<1>6. [i \in 1..m |-> cards[i].spot] \in [1..m -> Spots] BY <1>5
<1>7. TopSpots(cards) \in Seq(Spots) BY <1>4, <1>6
<1>8. cards # <<>> => n > 0 BY <1>1, EmptySeq
<1>9. cards # <<>> => 1 \in 1..m BY <1>3, <1>8
<1> QED BY <1>4, <1>7, <1>9

LEMMA ReplyStep ==
    ASSUME PipelineInv, NEW t \in Trip, Reply(t)
    PROVE  PipelineInv'
<1>1. PICK b \in BuildState : b = build[t] BY OneTrip
<1>2. b.pc = "reply" BY <1>1 DEF Reply
<1>3. PICK tr \in TripState : tr = trip[t] BY OneTrip
<1>4. PICK ls \in SUBSET CardList : ls = list[t] BY OneTrip
<1>5. Keyed(tr, b, ls) /\ \A x, y \in ls : x = y BY <1>1, <1>3, <1>4, OneTrip
<1>6. PICK l \in ls : l = CHOOSE x \in list[t] : TRUE BY <1>2, <1>4, <1>5 DEF Keyed
<1>7. \A k \in b.key : KeyOf(k, l, tr) BY <1>2, <1>5, <1>6 DEF Keyed
<1>8. PICK cards \in Seq(Cards) : cards = l.cards BY <1>6 DEF CardList
<1>9. PICK spots \in Seq(Spots) : spots = TopSpots(cards) /\ (cards # <<>> => spots[1] = cards[1].spot)
    BY TopSpotsTyped
<1>10. PICK keys \in SUBSET ReplyKey : keys = b.key BY DEF BuildState
<1>11. PICK read : read = {k.usgs : k \in keys} OBVIOUS
<1>12. read \in SUBSET UNION Gauged
    <2>1. \A k \in ReplyKey : k.usgs \in UNION Gauged BY DEF ReplyKey
    <2> QED BY <1>11, <2>1
<1>13. PICK text : text = [spots |-> spots, intake |-> tr.intake, usgs |-> read] OBVIOUS
<1>14. text \in ReplyText BY <1>12, <1>13 DEF ReplyText, TripState
<1>15. /\ shown' = [shown EXCEPT ![t] = {[text |-> text, cached |-> FALSE]}]
       /\ replies' = replies \cup {[key |-> k, text |-> text] :
                          k \in {j \in keys : \A r \in replies : r.key # j}}
    BY <1>1, <1>3, <1>6, <1>8, <1>9, <1>10, <1>11, <1>13 DEF Reply
<1>16. ASSUME NEW k \in keys PROVE [key |-> k, text |-> text] \in ReplyRows /\ ReplyRight([key |-> k, text |-> text])
    <2>1. KeyOf(k, l, tr) BY <1>7, <1>10
    <2>2. \A j \in keys : j.usgs = k.usgs BY <1>7, <1>10, <2>1 DEF KeyOf
    <2>3. read = {k.usgs} BY <1>11, <2>2
    <2>4. spots[1] = k.spot BY <1>8, <1>9, <2>1 DEF KeyOf
    <2>5. IntakeHash(tr.intake) = k.intake BY <2>1 DEF KeyOf
    <2>6. [key |-> k, text |-> text] \in ReplyRows BY <1>14 DEF ReplyRows
    <2>7. text.spots = spots /\ text.usgs = read /\ text.intake = tr.intake BY <1>13
    <2> QED BY <2>3, <2>4, <2>5, <2>6, <2>7 DEF ReplyRight
<1>17. PICK rows : rows = {[key |-> k, text |-> text] : k \in {j \in keys : \A r \in replies : r.key # j}} OBVIOUS
<1>18. \A x \in rows : x \in ReplyRows /\ ReplyRight(x) BY <1>16, <1>17
<1>19. replies' = replies \cup rows BY <1>15, <1>17
<1>20. replies' \in SUBSET ReplyRows /\ \A r \in replies' : ReplyRight(r) BY <1>18, <1>19, OneTrip
<1>21. shown' \in [Trip -> SUBSET Screen]
    <2>1. [text |-> text, cached |-> FALSE] \in Screen BY <1>14 DEF Screen
    <2>2. PICK new \in SUBSET Screen : new = {[text |-> text, cached |-> FALSE]} BY <2>1
    <2>3. shown' = [shown EXCEPT ![t] = new] BY <1>15, <2>2
    <2>4. shown \in [Trip -> SUBSET Screen] BY OneTrip
    <2> QED BY <2>3, <2>4
<1>22. trip' = [trip EXCEPT ![t] = tr] /\ list' = [list EXCEPT ![t] = ls] BY <1>3, <1>4, OneTrip DEF Reply
<1>23. routes' \in SUBSET RouteRows /\ \A r \in routes' : RouteRight(r) BY OneTrip DEF Reply
<1>24. build' = [build EXCEPT ![t] = NoBuild] BY DEF Reply
<1>25. Sound(t, tr, NoBuild) /\ Keyed(tr, NoBuild, ls) BY NoBuildTyped DEF Sound, Keyed
<1>26. clock' = clock /\ obs' = obs BY DEF Reply
<1> QED BY <1>5, <1>20, <1>21, <1>22, <1>23, <1>24, <1>25, <1>26, NoBuildTyped, OneTripMoves

LEMMA FollowUpStep ==
    ASSUME PipelineInv, NEW t \in Trip, FollowUp(t)
    PROVE  PipelineInv'
<1>1. PICK b \in BuildState : b = build[t] BY OneTrip
<1>2. PICK old \in TripState : old = trip[t] BY OneTrip
<1>3. PICK ls \in SUBSET CardList : ls = list[t] BY OneTrip
<1>4. ls # {} /\ \A x, y \in ls : x = y BY <1>3, OneTrip DEF FollowUp
<1>5. PICK tr : tr = [old EXCEPT !.turns = @ + 1] OBVIOUS
<1>6. tr \in TripState BY <1>5 DEF TripState
<1>7. PICK next : next = [b EXCEPT !.pc = "lookup"] OBVIOUS
<1>8. next \in BuildState /\ next.pc = "lookup" BY <1>7 DEF BuildState
<1>9. Sound(t, tr, next) /\ Keyed(tr, next, ls) BY <1>4, <1>8 DEF Sound, Keyed
<1>10. trip' = [trip EXCEPT ![t] = tr] BY <1>2, <1>5 DEF FollowUp
<1>11. build' = [build EXCEPT ![t] = next] BY <1>1, <1>7 DEF FollowUp
<1>12. list' = [list EXCEPT ![t] = ls] BY <1>3, OneTrip DEF FollowUp
<1>13. routes' \in SUBSET RouteRows /\ \A r \in routes' : RouteRight(r) BY OneTrip DEF FollowUp
<1>14. replies' \in SUBSET ReplyRows /\ \A r \in replies' : ReplyRight(r) BY OneTrip DEF FollowUp
<1>15. shown' \in [Trip -> SUBSET Screen] BY OneTrip DEF FollowUp
<1>16. clock' = clock /\ obs' = obs BY DEF FollowUp
<1> QED BY <1>4, <1>6, <1>8, <1>9, <1>10, <1>11, <1>12, <1>13, <1>14, <1>15, <1>16, OneTripMoves

\* A step of a trip that has no build in progress: its filters and its list may change.
LEMMA IdleTripMoves ==
    ASSUME PipelineInv, NEW t \in Trip, build[t].pc = "idle", NEW tr \in TripState, NEW ls \in SUBSET CardList,
           \A x, y \in ls : x = y, trip' = [trip EXCEPT ![t] = tr], list' = [list EXCEPT ![t] = ls],
           UNCHANGED <<clock, obs, build, routes, replies, shown>>
    PROVE  PipelineInv'
<1>1. PICK b \in BuildState : b = build[t] BY OneTrip
<1>2. Sound(t, tr, b) /\ Keyed(tr, b, ls) BY <1>1 DEF Sound, Keyed
<1>3. build' = [build EXCEPT ![t] = b] BY <1>1, OneTrip
<1>4. routes' \in SUBSET RouteRows /\ \A r \in routes' : RouteRight(r) BY OneTrip
<1>5. replies' \in SUBSET ReplyRows /\ \A r \in replies' : ReplyRight(r) BY OneTrip
<1>6. shown' \in [Trip -> SUBSET Screen] BY OneTrip
<1> QED BY <1>2, <1>3, <1>4, <1>5, <1>6, OneTripMoves

LEMMA ConfirmStep ==
    ASSUME PipelineInv, NEW t \in Trip, NEW i \in Intake, Confirm(t, i)
    PROVE  PipelineInv'
<1>1. PICK old \in TripState : old = trip[t] BY OneTrip
<1>2. PICK tr : tr = [old EXCEPT !.intake = i] OBVIOUS
<1>3. tr \in TripState BY <1>2 DEF TripState
<1>4. trip' = [trip EXCEPT ![t] = tr]
    <2>1. trip \in [Trip -> TripState] BY DEF PipelineInv, PipelineTyped
    <2> QED BY <1>1, <1>2, <2>1 DEF Confirm, TripState
<1>5. PICK none \in SUBSET CardList : none = {} OBVIOUS
<1>6. list' = [list EXCEPT ![t] = none] BY <1>5 DEF Confirm
<1>7. UNCHANGED <<clock, obs, build, routes, replies, shown>> /\ build[t].pc = "idle" BY DEF Confirm
<1> QED BY <1>3, <1>4, <1>5, <1>6, <1>7, IdleTripMoves

\* A list l without the spot s.
Without(l, s) == [l EXCEPT !.cards = Kept(@, {k \in DOMAIN @ : @[k].spot # s})]

LEMMA ExcludeStep ==
    ASSUME PipelineInv, NEW t \in Trip, NEW s \in Spots, Exclude(t, s)
    PROVE  PipelineInv'
<1>1. PICK old \in TripState : old = trip[t] BY OneTrip
<1>2. PICK tr : tr = [old EXCEPT !.aside = @ \cup {s}, !.turns = @ + 1] OBVIOUS
<1>3. tr \in TripState
    <2>1. PICK aside \in SUBSET Spots : aside = old.aside \cup {s} BY DEF TripState
    <2>2. PICK turns \in Nat : turns = old.turns + 1 BY DEF TripState
    <2>3. tr = [old EXCEPT !.aside = aside, !.turns = turns] BY <1>2, <2>1, <2>2
    <2> QED BY <2>3 DEF TripState
<1>4. trip' = [trip EXCEPT ![t] = tr]
    <2>1. trip \in [Trip -> TripState] BY DEF PipelineInv, PipelineTyped
    <2> QED BY <1>1, <1>2, <2>1 DEF Exclude, TripState
<1>5. PICK had \in SUBSET CardList : had = list[t] BY OneTrip
<1>6. \A x, y \in had : x = y BY <1>5, OneTrip
<1>7. PICK ls : ls = {Without(l, s) : l \in had} OBVIOUS
<1>8. ASSUME NEW l \in had PROVE Without(l, s) \in CardList
    <2>1. PICK cards \in Seq(Cards) : cards = l.cards BY DEF CardList
    <2>2. PICK S \in SUBSET DOMAIN cards : S = {k \in DOMAIN cards : cards[k].spot # s} OBVIOUS
    <2>3. PICK kept \in Seq(Cards) : kept = Kept(cards, S) BY KeptIsList
    <2>4. Without(l, s) = [l EXCEPT !.cards = kept] BY <2>1, <2>2, <2>3 DEF Without
    <2>5. [l EXCEPT !.cards = kept] \in CardList BY DEF CardList
    <2> QED BY <2>4, <2>5
<1>9. ls \in SUBSET CardList BY <1>7, <1>8
<1>10. \A x, y \in ls : x = y BY <1>6, <1>7
<1>11. list' = [list EXCEPT ![t] = ls] BY <1>5, <1>7 DEF Exclude, Without
<1>12. UNCHANGED <<clock, obs, build, routes, replies, shown>> /\ build[t].pc = "idle" BY DEF Exclude
<1> QED BY <1>3, <1>4, <1>9, <1>10, <1>11, <1>12, IdleTripMoves

\* Nothing of the trips changes.
LEMMA WorldMoves ==
    ASSUME PipelineInv, clock' \in Nat, obs' \in [Spots -> UNION Range(Outlook)],
           \A s \in Spots : obs'[s] \in Outlook[s], UNCHANGED <<trip, build, list, routes, replies, shown>>
    PROVE  PipelineInv'
<1>1. PipelineTyped /\ BuildsSound /\ RepliesKeyed BY DEF PipelineInv
<1>2. PipelineTyped' BY <1>1 DEF PipelineTyped
<1>3. BuildsSound' BY <1>1 DEF BuildsSound
<1>4. RepliesKeyed' BY <1>1 DEF RepliesKeyed
<1> QED BY <1>2, <1>3, <1>4 DEF PipelineInv

LEMMA ObserveStep ==
    ASSUME PipelineInv, NEW s \in Spots, NEW o \in Outlook[s], Observe(s, o)
    PROVE  PipelineInv'
<1>1. PipelineTyped BY DEF PipelineInv
<1>2. s \in DOMAIN Outlook BY PipelineAssumption
<1>3. o \in UNION Range(Outlook) BY <1>2 DEF Range
<1>4. obs' = [obs EXCEPT ![s] = o] BY DEF Observe
<1>5. obs' \in [Spots -> UNION Range(Outlook)] BY <1>1, <1>3, <1>4 DEF PipelineTyped
<1>6. \A u \in Spots : obs'[u] \in Outlook[u] BY <1>1, <1>4 DEF PipelineTyped
<1>7. clock' \in Nat BY <1>1 DEF Observe, PipelineTyped
<1>8. UNCHANGED <<trip, build, list, routes, replies, shown>> BY DEF Observe
<1> QED BY <1>5, <1>6, <1>7, <1>8, WorldMoves

LEMMA LaterStep ==
    ASSUME PipelineInv, Later
    PROVE  PipelineInv'
<1>1. PipelineTyped BY DEF PipelineInv
<1>2. clock' \in Nat BY <1>1 DEF Later, PipelineTyped
<1>3. obs' \in [Spots -> UNION Range(Outlook)] /\ \A s \in Spots : obs'[s] \in Outlook[s]
    BY <1>1 DEF Later, PipelineTyped
<1>4. UNCHANGED <<trip, build, list, routes, replies, shown>> BY DEF Later
<1> QED BY <1>2, <1>3, <1>4, WorldMoves

-----------------------------------------------------------------------------
(* The theorems *)

LEMMA PipelineInvStarts ==
    ASSUME PipelineInit
    PROVE  PipelineInv
<1>1. clock \in Nat BY DEF PipelineInit
<1>2. obs \in [Spots -> UNION Range(Outlook)] /\ \A s \in Spots : obs[s] \in Outlook[s] BY DEF PipelineInit
<1>3. \A p \in Place, i \in Intake : [from |-> p, intake |-> i, aside |-> {}, turns |-> 0] \in TripState
    BY DEF TripState
<1>4. trip \in [Trip -> TripState] BY <1>3 DEF PipelineInit
<1>5. build = [t \in Trip |-> NoBuild] /\ list = [t \in Trip |-> {}] /\ shown = [t \in Trip |-> {}]
    BY DEF PipelineInit
<1>6. build \in [Trip -> BuildState] BY <1>5, NoBuildTyped
<1>7. list \in [Trip -> SUBSET CardList] /\ \A t \in Trip : \A x, y \in list[t] : x = y BY <1>5
<1>8. shown \in [Trip -> SUBSET [text : ReplyText, cached : BOOLEAN]] BY <1>5
<1>9. routes = {} /\ replies = {} BY DEF PipelineInit
<1>10. PipelineTyped BY <1>1, <1>2, <1>4, <1>6, <1>7, <1>8, <1>9 DEF PipelineTyped
<1>11. \A t \in Trip : build[t].pc = "idle" BY <1>5, NoBuildTyped
<1>12. BuildsSound BY <1>9, <1>11 DEF BuildsSound, Sound
<1>13. RepliesKeyed BY <1>9, <1>11 DEF RepliesKeyed, Keyed
<1> QED BY <1>10, <1>12, <1>13 DEF PipelineInv

LEMMA PipelineInvStep ==
    ASSUME PipelineInv, [PipelineNext]_pipelineVars
    PROVE  PipelineInv'
<1>1. ASSUME NEW t \in Trip,
             \/ Build(t) \/ ReadRoute(t) \/ Reserve(t) \/ AskHere(t) \/ Deliver(t)
             \/ LookUp(t) \/ Reply(t) \/ FollowUp(t)
      PROVE  PipelineInv'
    BY <1>1, BuildStep, ReadRouteStep, ReserveStep, AskHereStep, DeliverStep, LookUpStep, ReplyStep, FollowUpStep
<1>2. ASSUME NEW t \in Trip, NEW i \in Intake, Confirm(t, i) PROVE PipelineInv' BY <1>2, ConfirmStep
<1>3. ASSUME NEW t \in Trip, NEW s \in Spots, Exclude(t, s) PROVE PipelineInv' BY <1>3, ExcludeStep
<1>4. ASSUME NEW s \in Spots, NEW o \in Outlook[s], Observe(s, o) PROVE PipelineInv' BY <1>4, ObserveStep
<1>5. CASE Later BY <1>5, LaterStep
<1>6. CASE UNCHANGED pipelineVars
    BY <1>6 DEF pipelineVars, PipelineInv, PipelineTyped, BuildsSound, RepliesKeyed
<1> QED BY <1>1, <1>2, <1>3, <1>4, <1>5, <1>6 DEF PipelineNext

\* Every value is of its type, at most one list stands for a trip, every build in progress is sound, every
\* route is HERE's and every reply was written for its key: for any waters, outlooks, trips and bounds.
THEOREM PipelineIsSound == PipelineSpec => []PipelineInv
<1> QED BY PipelineInvStarts, PipelineInvStep, PTL DEF PipelineSpec

\* The build of a trip changes by a step of that trip.
LEMMA OwnStep ==
    ASSUME PipelineInv, [PipelineNext]_pipelineVars, NEW t \in Trip, build'[t] # build[t]
    PROVE  \/ Build(t) \/ ReadRoute(t) \/ Reserve(t) \/ AskHere(t) \/ Deliver(t)
           \/ LookUp(t) \/ Reply(t) \/ FollowUp(t)
<1>1. build \in [Trip -> BuildState] BY DEF PipelineInv, PipelineTyped
<1>2. ASSUME NEW u \in Trip, NEW next, build' = [build EXCEPT ![u] = next] PROVE u = t BY <1>1, <1>2
<1>3. ASSUME NEW u \in Trip, ReadRoute(u) PROVE u = t
    <2>1. build' = [build EXCEPT ![u].pc = "reserve"] => u = t BY <1>1
    <2> QED BY <1>2, <1>3, <2>1 DEF ReadRoute
<1>4. ASSUME NEW u \in Trip, Reserve(u) PROVE u = t
    <2>1. build' = [build EXCEPT ![u].pc = "route", ![u].calls = @ + 1] => u = t BY <1>1
    <2> QED BY <1>2, <1>4, <2>1 DEF Reserve
<1>5. ASSUME NEW u \in Trip, LookUp(u) PROVE u = t
    <2>1. build' = [build EXCEPT ![u].pc = "reply", ![u].key = Keys(u)] => u = t BY <1>1
    <2> QED BY <1>2, <1>5, <2>1 DEF LookUp
<1>6. ASSUME NEW u \in Trip, FollowUp(u) PROVE u = t
    <2>1. build' = [build EXCEPT ![u].pc = "lookup"] => u = t BY <1>1
    <2> QED BY <1>6, <2>1 DEF FollowUp
<1>7. ASSUME NEW u \in Trip, Build(u) PROVE u = t BY <1>2, <1>7 DEF Build
<1>8. ASSUME NEW u \in Trip, AskHere(u) PROVE u = t BY <1>2, <1>8 DEF AskHere
<1>9. ASSUME NEW u \in Trip, Deliver(u) PROVE u = t BY <1>2, <1>9 DEF Deliver
<1>10. ASSUME NEW u \in Trip, Reply(u) PROVE u = t BY <1>2, <1>10 DEF Reply
<1>11. \A u \in Trip, i \in Intake : ~Confirm(u, i) BY DEF Confirm
<1>12. \A u \in Trip, s \in Spots : ~Exclude(u, s) BY DEF Exclude
<1>13. \A s \in Spots : \A o \in Outlook[s] : ~Observe(s, o) BY DEF Observe
<1>14. ~Later /\ ~UNCHANGED pipelineVars BY DEF Later, pipelineVars
<1> QED BY <1>3, <1>4, <1>5, <1>6, <1>7, <1>8, <1>9, <1>10, <1>11, <1>12, <1>13, <1>14 DEF PipelineNext

\* A build that goes from its cards to the replies delivered its list.
LEMMA DeliversByDeliver ==
    ASSUME PipelineInv, [PipelineNext]_pipelineVars, NEW t \in Trip, Delivered(t)
    PROVE  Deliver(t)
<1>1. build[t].pc = "verify" /\ build'[t].pc = "lookup" BY DEF Delivered
<1>2. build \in [Trip -> BuildState] BY DEF PipelineInv, PipelineTyped
<1>3. ~ReadRoute(t)
    <2>1. SUFFICES ASSUME ReadRoute(t) PROVE FALSE OBVIOUS
    <2>2. PICK b \in BuildState : b = build[t] BY OneTrip
    <2>3. b.pc \in {"verify", "reserve", "route"} /\ b.todo # <<>> BY <2>1, <2>2 DEF ReadRoute, Verifying
    <2>4. ASSUME NEW next \in BuildState, build' = [build EXCEPT ![t] = next], next.pc = "verify" PROVE FALSE
        BY <1>1, <1>2, <2>4
    <2>5. ASSUME NEW r \in routes, r.from = trip[t].from, r.spot = Upcoming(b).spot,
                 build' = [build EXCEPT ![t] = Judged(t, b, r.minutes)]
          PROVE  FALSE
        <3>1. PICK minutes : minutes = r.minutes OBVIOUS
        <3>2. minutes = Drive[trip[t].from][Upcoming(build[t]).spot] BY <2>2, <2>5, <3>1, OneTrip DEF RouteRight
        <3>3. PICK next \in BuildState : next = Judged(t, b, minutes) /\ next.pc = "verify"
            BY <2>2, <2>3, <3>2, JudgedSound
        <3> QED BY <2>4, <2>5, <3>1, <3>3
    <2>6. ASSUME NEW failed \in BOOLEAN, failed \/ b.calls = MAX_HERE_CALLS,
                 build' = [build EXCEPT ![t] = EstimateStands(t, b, failed)]
          PROVE  FALSE
        <3>1. PICK next \in BuildState : next = EstimateStands(t, b, failed) /\ next.pc = "verify"
            BY <2>2, <2>3, <2>6, EstimateSound
        <3> QED BY <2>4, <2>6, <3>1
    <2>7. b.calls >= MAX_HERE_CALLS => b.calls = MAX_HERE_CALLS
        BY <2>2, <2>3, PipelineAssumption, OneTrip DEF Sound, Timed, BuildState
    <2>8. build' = [build EXCEPT ![t].pc = "reserve"] => FALSE BY <1>1, <1>2 DEF BuildState
    <2> QED BY <2>1, <2>2, <2>5, <2>6, <2>7, <2>8 DEF ReadRoute
<1>4. ~Build(t) /\ ~Reserve(t) /\ ~AskHere(t) /\ ~LookUp(t) /\ ~Reply(t) /\ ~FollowUp(t)
    BY <1>1 DEF Build, Reserve, AskHere, LookUp, Reply, FollowUp
<1> QED BY <1>1, <1>3, <1>4, OwnStep

\* What is right of the list that a build delivers.
LEMMA DeliveredList ==
    ASSUME PipelineInv, [PipelineNext]_pipelineVars, NEW t \in Trip, Delivered(t), NEW l \in list'[t]
    PROVE  /\ l \in CardList /\ l.unavailable = build[t].unavailable
           /\ DeliveredRight(t, trip[t], build[t], l.cards)
<1>1. Deliver(t) BY DeliversByDeliver
<1>2. PICK d : d = Delivery(t) OBVIOUS
<1>3. /\ d \in CardList /\ list' = [list EXCEPT ![t] = {d}] /\ d.unavailable = build[t].unavailable
      /\ DeliveredRight(t, trip[t], build[t], d.cards)
    BY <1>1, <1>2, DeliveryIs
<1>4. list \in [Trip -> SUBSET CardList] BY DEF PipelineInv, PipelineTyped
<1>5. list'[t] = {d} BY <1>3, <1>4
<1>6. l = d BY <1>5
<1> QED BY <1>3, <1>6

\* A time that is not marked as an estimate is HERE's with the wait of the day, and an estimate on a first
\* card was told of or the calls were spent (drive_times.py, verify_top): for any waters, routes, limits,
\* calls and failures of HERE, and any number of trips that build at the same time.
THEOREM DriveTimesAreTold == PipelineSpec => DriveTimesTold
<1>1. PipelineInv /\ [PipelineNext]_pipelineVars =>
        [\A t \in Trip : Delivered(t) /\ trip[t].from # "unknown" => \A l \in list'[t] :
            /\ \A i \in DOMAIN l.cards : ~l.cards[i].estimated =>
                  LET s == l.cards[i].spot IN l.cards[i].minutes = Drive[trip[t].from][s] + BoatWait[t][s]
            /\ \A i \in 1..Min({TOP_N, Len(l.cards)}) :
                  l.cards[i].estimated => l.unavailable \/ build[t].calls = MAX_HERE_CALLS]_pipelineVars
    <2>1. SUFFICES ASSUME PipelineInv, [PipelineNext]_pipelineVars, NEW t \in Trip, Delivered(t),
                          trip[t].from # "unknown", NEW l \in list'[t]
                   PROVE  /\ \A i \in DOMAIN l.cards : ~l.cards[i].estimated =>
                                l.cards[i].minutes = Drive[trip[t].from][l.cards[i].spot] + BoatWait[t][l.cards[i].spot]
                          /\ \A i \in 1..Min({TOP_N, Len(l.cards)}) :
                                l.cards[i].estimated => l.unavailable \/ build[t].calls = MAX_HERE_CALLS
        OBVIOUS
    <2>2. l \in CardList /\ l.unavailable = build[t].unavailable BY <2>1, DeliveredList
    <2>3. DeliveredRight(t, trip[t], build[t], l.cards) BY <2>1, DeliveredList
    <2>4. PICK cards \in Seq(Cards) : cards = l.cards BY <2>2 DEF CardList
    <2>5. PICK n \in Nat : n = Len(cards) BY LenProperties
    <2>6. DOMAIN cards = 1..n BY <2>5, LenProperties
    <2>7. TOP_N \in Nat BY PipelineAssumption
    <2>8. PICK m \in {TOP_N, n} : m <= TOP_N /\ m <= n BY <2>7
    <2>9. Min({TOP_N, n}) = m BY <2>7, <2>8 DEF Min
    <2>10. \A i \in 1..m : i \in 1..n /\ i <= TOP_N BY <2>7, <2>8
    <2> QED BY <2>1, <2>2, <2>3, <2>4, <2>5, <2>6, <2>9, <2>10 DEF DeliveredRight
<1> QED BY <1>1, PipelineIsSound, PTL DEF PipelineSpec, DriveTimesTold

\* A spot that was ranked and is not on the list is too far, or the list is full, or it made room for the
\* one long unvisited, and but for that one the cards stay in the order of their scores
\* (context_builder.py:814, drive_times.py:135): whatever HERE does, for any waters and limits.
THEOREM NoSpotIsLost == PipelineSpec => NothingLost
<1>1. PipelineInv /\ [PipelineNext]_pipelineVars =>
        [\A t \in Trip : Delivered(t) => \A l \in list'[t] :
            /\ Len(l.cards) < MAX_CANDIDATES =>
                  Cardinality({c \in Missing(t, l) : trip[t].from = "unknown" \/ ~TooFar(t, c.spot)}) <=
                      (IF \E c \in Range(build[t].ranked) : Old[c.spot] THEN 1 ELSE 0)
            /\ \A i, j \in DOMAIN l.cards :
                  i < j /\ l.cards[i].score < l.cards[j].score => Old[l.cards[i].spot]]_pipelineVars
    <2>1. SUFFICES ASSUME PipelineInv, [PipelineNext]_pipelineVars, NEW t \in Trip, Delivered(t), NEW l \in list'[t]
                   PROVE  /\ Len(l.cards) < MAX_CANDIDATES =>
                                Cardinality({c \in Missing(t, l) :
                                                trip[t].from = "unknown" \/ ~TooFar(t, c.spot)}) <=
                                    (IF \E c \in Range(build[t].ranked) : Old[c.spot] THEN 1 ELSE 0)
                          /\ \A i, j \in DOMAIN l.cards :
                                i < j /\ l.cards[i].score < l.cards[j].score => Old[l.cards[i].spot]
        OBVIOUS
    <2>2. DeliveredRight(t, trip[t], build[t], l.cards) BY <2>1, DeliveredList
    <2>3. PICK lost : lost = NotTold(t, trip[t], build[t], l.cards) OBVIOUS
    <2>4. {c \in Missing(t, l) : trip[t].from = "unknown" \/ ~TooFar(t, c.spot)} = lost
        BY <2>3 DEF Missing, TooFar, Within, NotTold, Gone
    <2>5. ASSUME Len(l.cards) < MAX_CANDIDATES
          PROVE  Cardinality(lost) <= IF \E c \in Range(build[t].ranked) : Old[c.spot] THEN 1 ELSE 0
        <3>1. /\ \A c, d \in lost : c = d
              /\ lost # {} => \E c \in Range(build[t].ranked) : Old[c.spot]
            BY <2>2, <2>3, <2>5 DEF DeliveredRight
        <3>2. CASE lost = {}
            <4>1. Cardinality(lost) = 0 BY <3>2, FS_EmptySet
            <4> QED BY <4>1
        <3>3. CASE lost # {}
            <4>1. PICK c : c \in lost BY <3>3
            <4>2. lost = {c} BY <3>1, <4>1
            <4>3. Cardinality(lost) = 1 BY <4>2, FS_Singleton
            <4> QED BY <3>1, <3>3, <4>3
        <3> QED BY <3>2, <3>3
    <2>6. Ordered(l.cards) BY <2>2 DEF DeliveredRight
    <2> QED BY <2>4, <2>5, <2>6 DEF Ordered
<1> QED BY <1>1, PipelineIsSound, PTL DEF PipelineSpec, NothingLost

\* A reply from the cache was written for the spot that comes first, for the reading of its gauge and for
\* the filters of the trip, whichever trip it was written for (response_cache.py:35): for any waters,
\* outlooks and filters, and however the conditions change in between.
THEOREM RepliesFit == PipelineSpec => ReplyFits
<1>1. PipelineInv /\ [PipelineNext]_pipelineVars =>
        [\A t \in Trip : build[t].pc = "lookup" /\ build'[t].pc = "idle" =>
            \A r \in shown'[t], l \in list[t] :
                /\ r.text.spots[1] = l.cards[1].spot /\ r.text.usgs = l.cards[1].usgs
                /\ IntakeHash(r.text.intake) = IntakeHash(trip[t].intake)
                /\ r.text.intake.max = trip[t].intake.max]_pipelineVars
    <2>1. SUFFICES ASSUME PipelineInv, [PipelineNext]_pipelineVars, NEW t \in Trip,
                          build[t].pc = "lookup", build'[t].pc = "idle", NEW r \in shown'[t], NEW l \in list[t]
                   PROVE  /\ r.text.spots[1] = l.cards[1].spot /\ r.text.usgs = l.cards[1].usgs
                          /\ IntakeHash(r.text.intake) = IntakeHash(trip[t].intake)
                          /\ r.text.intake.max = trip[t].intake.max
        OBVIOUS
    <2>2. LookUp(t)
        <3>1. ~Build(t) /\ ~ReadRoute(t) /\ ~Reserve(t) /\ ~AskHere(t) /\ ~Deliver(t) /\ ~Reply(t) /\ ~FollowUp(t)
            BY <2>1 DEF Build, ReadRoute, Verifying, Reserve, AskHere, Deliver, Reply, FollowUp
        <3> QED BY <2>1, <3>1, OwnStep
    <2>3. build \in [Trip -> BuildState] /\ shown \in [Trip -> SUBSET Screen]
        BY <2>1, OneTrip DEF PipelineInv, PipelineTyped
    <2>4. build' # [build EXCEPT ![t].pc = "reply", ![t].key = Keys(t)] BY <2>1, <2>3 DEF BuildState
    <2>5. shown' = [shown EXCEPT ![t] = {[text |-> x.text, cached |-> TRUE] :
                                            x \in {y \in replies : y.key \in Keys(t)}}]
        BY <2>2, <2>4 DEF LookUp
    <2>6. PICK row \in replies : row.key \in Keys(t) /\ r = [text |-> row.text, cached |-> TRUE]
        BY <2>1, <2>3, <2>5
    <2>7. r.text = row.text BY <2>6
    <2>8. ReplyRight(row) BY <2>1, <2>6, OneTrip
    <2>9. KeyOf(row.key, l, trip[t]) BY <2>1, <2>6, KeysAreRight
    <2>10. /\ r.text.spots[1] = l.cards[1].spot /\ r.text.usgs = l.cards[1].usgs
           /\ IntakeHash(r.text.intake) = IntakeHash(trip[t].intake)
        BY <2>7, <2>8, <2>9 DEF ReplyRight, KeyOf
    <2>11. IntakeHash(r.text.intake).max = r.text.intake.max /\ IntakeHash(trip[t].intake).max = trip[t].intake.max
        BY DEF IntakeHash
    <2> QED BY <2>10, <2>11
<1> QED BY <1>1, PipelineIsSound, PTL DEF PipelineSpec, ReplyFits
=============================================================================
