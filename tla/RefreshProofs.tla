---------------------------- MODULE RefreshProofs ----------------------------
(***************************************************************************)
(* The jobs that refresh what is stored, for any rules, places, stations,  *)
(* gauges and bounds: a job that fails, wholly or half way, loses nothing  *)
(* that was known; the election of the worker that runs them, for any      *)
(* number of workers; and the breaker and the cache of one source.         *)
(***************************************************************************)
EXTENDS MCRefresh, TLAPS

\* The row that a page gives, or its title when the page fails.
RowsOf(r) == {Whole(r), TitleOnly(r)}

\* A run has one row for each listed rule it has come to, from its page or its title.
RulesInv ==
    /\ job.pc \in {"idle", "pages"}
    /\ job.listed \subseteq Rules /\ job.todo \subseteq job.listed
    /\ job.got \subseteq UNION {RowsOf(r) : r \in job.listed \ job.todo}
    /\ \A r \in job.listed \ job.todo : \E row \in job.got : row.id = r.id
    /\ \A a, b \in job.got : a.id = b.id => a = b
    /\ published \subseteq Rules

-----------------------------------------------------------------------------

Row == [obs : Nat, stale : BOOLEAN]

\* What a fetch brings: one reading, or none.
Answer == {{}} \cup {{a} : a \in [obs : Nat, stale : {FALSE}]}
Asked == [station : Station, said : Answer]

RunState == [pos : Nat, memo : Seq(Asked), freshNormals : SUBSET Gauges, freshFloods : SUBSET Gauges]

ReferenceTyped ==
    /\ kind \in {"snotel", "wta", "nwrfc", "gauges"}
    /\ day \in Nat /\ news \in [Station -> Nat]
    /\ rows \in [Visited -> SUBSET Row]
    /\ normals \in [Gauges -> SUBSET Nat] /\ floods \in [Gauges -> SUBSET Nat]
    /\ run \in RunState
    /\ kind = "gauges" => run.pos <= Len(Gauge)
    /\ kind # "gauges" => run.pos <= Len(Place) /\ Len(run.memo) = (IF run.pos = 0 THEN 0 ELSE run.pos - 1)

\* What a row is after its station said something: that, or marked stale after silence.
Took(row, said) == IF said = {} THEN \A r \in row : r.stale ELSE row = said

\* What the asked stations have said, each the same to all its waters, is in the rows.
Remembered(memo, kept) ==
    /\ \A k \in 1..Len(memo) : memo[k].station = StationOf[Place[k]] /\ Took(kept[Place[k]], memo[k].said)
    /\ \A j, k \in 1..Len(memo) : memo[j].station = memo[k].station => memo[j].said = memo[k].said

StationsInv == kind = "snotel" => Remembered(run.memo, rows)

ReferenceInv == ReferenceTyped /\ StationsInv

-----------------------------------------------------------------------------
(* The rules of WDFW *)

\* Whatever a row is made of and whatever is stored with it, it keeps its rule's id.
LEMMA RowKeepsId ==
    ASSUME NEW r, NEW row \in RowsOf(r), NEW water, NEW lifted
    PROVE  LET linked == [row EXCEPT !.fk = water]
           IN  row.id = r.id /\ [linked EXCEPT !.closes = @ /\ ~lifted].id = r.id
<1>1. CASE row = Whole(r)
    BY <1>1 DEF Whole
<1>2. CASE row = TitleOnly(r)
    BY <1>2 DEF Whole, TitleOnly
<1>3. QED
    BY <1>1, <1>2 DEF RowsOf

LEMMA RulesInitInv == ClosureInit => RulesInv
    BY DEF ClosureInit, RulesInv, NoJob

\* Reading a page, or failing to, adds the one row of its rule.
LEMMA PageKeepsRules ==
    ASSUME RulesInv, NEW r \in Rules, ReadPage(r)
    PROVE  RulesInv'
<1>1. PICK row \in RowsOf(r) : job' = [job EXCEPT !.todo = @ \ {r}, !.got = @ \cup {row}]
    BY DEF ReadPage, RowsOf
<1>2. r \in job.todo /\ job.pc = "pages" /\ published' = published
    BY DEF ReadPage, NextPage
<1>3. /\ job'.pc = "pages" /\ job'.listed = job.listed
      /\ job'.todo = job.todo \ {r} /\ job'.got = job.got \cup {row}
    BY <1>1, <1>2 DEF RulesInv
<1>4. job'.listed \ job'.todo = (job.listed \ job.todo) \cup {r}
    BY <1>2, <1>3 DEF RulesInv
<1>5. row.id = r.id
    BY RowKeepsId
<1>6. \A a \in job.got : \E o \in job.listed \ job.todo : a.id = o.id
    BY RowKeepsId DEF RulesInv
<1>7. \A a \in job.got : a.id # r.id
    BY <1>2, <1>6, ClosureAssumption DEF RulesInv
<1>8. \A a, b \in job'.got : a.id = b.id => a = b
    BY <1>3, <1>5, <1>7 DEF RulesInv
<1>9. \A o \in job'.listed \ job'.todo : \E a \in job'.got : a.id = o.id
    BY <1>3, <1>4, <1>5 DEF RulesInv
<1>10. job'.got \subseteq UNION {RowsOf(o) : o \in job'.listed \ job'.todo}
    BY <1>3, <1>4 DEF RulesInv
<1>11. QED
    BY <1>2, <1>3, <1>8, <1>9, <1>10 DEF RulesInv

LEMMA RulesStep == RulesInv /\ [ClosureNext]_closureVars => RulesInv'
<1> SUFFICES ASSUME RulesInv, [ClosureNext]_closureVars PROVE RulesInv'
    OBVIOUS
<1>1. ASSUME NEW r \in Rules, Publish(r) PROVE RulesInv'
    BY <1>1 DEF Publish, RulesInv
<1>2. ASSUME NEW r \in Rules, ReadPage(r) PROVE RulesInv'
    BY <1>2, PageKeepsRules
<1>3. CASE List
    BY <1>3 DEF List, RulesInv
<1>4. CASE Abandon \/ StoreRules \/ StoreNothing
    BY <1>4 DEF Abandon, StoreRules, StoreNothing, NoJob, RulesInv
<1>5. CASE UNCHANGED closureVars
    BY <1>5 DEF closureVars, RulesInv
<1>6. QED
    BY <1>1, <1>2, <1>3, <1>4, <1>5 DEF ClosureNext

\* The table changes when a run that found rules stores them, and at no other step.
LEMMA OnlyStoreWrites ==
    ASSUME [ClosureNext]_closureVars, table' # table
    PROVE  StoreRules
    BY DEF ClosureNext, closureVars, Publish, ReadPage, List, Abandon, StoreNothing

\* What is stored has the ids of the run's rows, each as often.
LEMMA StoredRows ==
    ASSUME RulesInv
    PROVE  /\ {row.id : row \in Supersede(Linked)} = {row.id : row \in job.got}
           /\ \A a, b \in Supersede(Linked) : a.id = b.id => a = b
           /\ job.got # {} => Supersede(Linked) # {}
<1> DEFINE LinkOf(row) == [row EXCEPT !.fk = Resolve(row, Waters, Longest)]
           StoredOf(row) == [LinkOf(row) EXCEPT !.closes = @ /\ ~Superseded(LinkOf(row), Linked)]
<1>1. \A l \in Linked : \E row \in job.got : l = LinkOf(row)
    BY DEF Linked
<1>2. \A row \in job.got : LinkOf(row) \in Linked
    BY DEF Linked
<1>3. \A row \in job.got : StoredOf(row).id = row.id
    <2> SUFFICES ASSUME NEW row \in job.got PROVE StoredOf(row).id = row.id
        OBVIOUS
    <2>1. PICK r \in job.listed : row \in RowsOf(r)
        BY DEF RulesInv
    <2>2. QED
        BY <2>1, RowKeepsId
<1> HIDE DEF LinkOf
<1>4. \A a \in Supersede(Linked) : \E row \in job.got : a = StoredOf(row)
    BY <1>1 DEF Supersede
<1>5. \A row \in job.got : StoredOf(row) \in Supersede(Linked)
    BY <1>2 DEF Supersede
<1> HIDE DEF StoredOf
<1>6. {row.id : row \in Supersede(Linked)} = {row.id : row \in job.got}
    BY <1>3, <1>4, <1>5
<1>7. \A a, b \in Supersede(Linked) : a.id = b.id => a = b
    BY <1>3, <1>4 DEF RulesInv
<1>8. QED
    BY <1>5, <1>6, <1>7

LEMMA StoreKeepsRules ==
    ASSUME RulesInv, StoreRules
    PROVE  NoRuleDropped' /\ table' # {}
<1>1. /\ job.todo = {} /\ job.got # {} /\ table' = Supersede(Linked)
      /\ listing'.rules = job.listed
    BY DEF StoreRules, MayStore
<1>2. {row.id : row \in job.got} = {r.id : r \in job.listed}
    <2>1. \A row \in job.got : \E r \in job.listed : row.id = r.id
        BY RowKeepsId DEF RulesInv
    <2>2. QED
        BY <1>1, <2>1 DEF RulesInv
<1>3. QED
    BY <1>1, <1>2, StoredRows DEF NoRuleDropped

-----------------------------------------------------------------------------
(* The jobs that go from place to place *)

LEMMA Places ==
    /\ Len(Place) \in Nat /\ DOMAIN Place = 1..Len(Place)
    /\ Visited = {Place[k] : k \in 1..Len(Place)}
    /\ \A w \in Visited : StationOf[w] \in Station
    /\ Len(Gauge) \in Nat /\ \A k \in 1..Len(Gauge) : Gauge[k] \in Gauges
<1>1. Len(Place) \in Nat /\ Len(Gauge) \in Nat
    BY ReferenceAssumption
<1>2. DOMAIN Place = 1..Len(Place) /\ DOMAIN Gauge = 1..Len(Gauge)
    BY ReferenceAssumption
<1>3. QED
    BY <1>1, <1>2 DEF Visited, Gauges, Station, ToSet

LEMMA NoRunTyped == NoRun \in RunState /\ NoRun.pos = 0 /\ NoRun.memo = <<>> /\ Len(NoRun.memo) = 0
    BY DEF NoRun, RunState

\* The run goes on to its next place.
LEMMA RunMoves ==
    ASSUME NEW old \in RunState
    PROVE  /\ old.pos \in Nat
           /\ [old EXCEPT !.pos = @ + 1] \in RunState /\ [old EXCEPT !.pos = @ + 1].pos = old.pos + 1
           /\ \A memo \in Seq(Asked) :
                 LET next == [old EXCEPT !.pos = @ + 1, !.memo = memo]
                 IN  next \in RunState /\ next.pos = old.pos + 1 /\ next.memo = memo
<1>1. PICK Memo : Memo = Seq(Asked)
    OBVIOUS
<1>2. old \in [pos : Nat, memo : Memo, freshNormals : SUBSET Gauges, freshFloods : SUBSET Gauges]
    BY <1>1 DEF RunState
<1>3. /\ old.pos \in Nat /\ old.pos + 1 \in Nat
      /\ old.freshNormals \in SUBSET Gauges /\ old.freshFloods \in SUBSET Gauges
    BY <1>2
<1>4. [old EXCEPT !.pos = @ + 1] \in RunState /\ [old EXCEPT !.pos = @ + 1].pos = old.pos + 1
    BY <1>1, <1>2, <1>3 DEF RunState
<1>5. ASSUME NEW memo \in Memo, NEW next, next = [old EXCEPT !.pos = @ + 1, !.memo = memo]
      PROVE  next \in RunState /\ next.pos = old.pos + 1 /\ next.memo = memo
    <2>1. next = [pos |-> old.pos + 1, memo |-> memo,
                  freshNormals |-> old.freshNormals, freshFloods |-> old.freshFloods]
        BY <1>2, <1>5
    <2>2. QED
        BY <1>1, <1>3, <2>1 DEF RunState
<1>6. QED
    BY <1>1, <1>3, <1>4, <1>5

LEMMA ReferenceInitInv == ReferenceInit => ReferenceInv
<1> SUFFICES ASSUME ReferenceInit PROVE ReferenceInv
    OBVIOUS
<1>1. ReferenceTyped
    BY NoRunTyped, Places DEF ReferenceInit, ReferenceTyped
<1>2. StationsInv
    BY NoRunTyped DEF ReferenceInit, StationsInv, Remembered
<1>3. QED
    BY <1>1, <1>2 DEF ReferenceInv

\* A station that was asked in this run answers as it did.
LEMMA AnswersAgain ==
    ASSUME ReferenceInv, NEW w \in Visited, kind # "gauges", NEW said \in Answers(w)
    PROVE  /\ said \in Answer
           /\ kind = "snotel" =>
                 \A k \in 1..Len(run.memo) : run.memo[k].station = StationOf[w] => run.memo[k].said = said
<1> DEFINE asked == {k \in DOMAIN run.memo : run.memo[k].station = StationOf[w]}
<1>1. run.memo \in Seq(Asked)
    BY DEF ReferenceInv, ReferenceTyped, RunState
<1>2. DOMAIN run.memo = 1..Len(run.memo) /\ \A k \in 1..Len(run.memo) : run.memo[k] \in Asked
    BY <1>1
<1>3. CASE kind = "snotel" /\ asked # {}
    <2>1. PICK k \in asked : said = run.memo[k].said
        BY <1>3 DEF Answers
    <2>2. said \in Answer
        BY <1>2, <2>1 DEF Asked
    <2>3. Remembered(run.memo, rows)
        BY <1>3 DEF ReferenceInv, StationsInv
    <2>4. QED
        BY <1>2, <2>1, <2>2, <2>3 DEF Remembered
<1>4. CASE ~(kind = "snotel" /\ asked # {})
    <2>1. said \in {Says(StationOf[w]), {}}
        BY <1>4 DEF Answers
    <2>2. news[StationOf[w]] \in Nat
        BY Places DEF ReferenceInv, ReferenceTyped
    <2>3. [obs |-> news[StationOf[w]], stale |-> FALSE] \in [obs : Nat, stale : {FALSE}]
        BY <2>2
    <2>4. said \in Answer
        BY <2>1, <2>3 DEF Says, Answer
    <2>5. QED
        BY <1>2, <1>4, <2>4
<1>5. QED
    BY <1>3, <1>4

\* What becomes of a row: none that was there is lost.
LEMMA ServedRows ==
    ASSUME NEW old \in SUBSET Row, NEW said \in Answer, kind # "gauges", NEW row \in Served(old, said)
    PROVE  /\ row \in SUBSET Row
           /\ old # {} => row # {}
           /\ kind = "snotel" => Took(row, said)
<1>1. said \in SUBSET Row
    BY DEF Answer, Row
<1>2. CASE kind = "wta"
    BY <1>1, <1>2 DEF Served, TrailRows
<1>3. CASE kind = "nwrfc"
    BY <1>1, <1>3 DEF Served, ForecastRows
<1>4. CASE kind # "wta" /\ kind # "nwrfc"
    <2>1. row = IF said = {} THEN MarkStale(old) ELSE said
        BY <1>4 DEF Served, SnowRows
    <2>2. \A r \in old : [r EXCEPT !.stale = TRUE] \in Row /\ [r EXCEPT !.stale = TRUE].stale
        BY DEF Row
    <2>3. MarkStale(old) \in SUBSET Row /\ \A r \in MarkStale(old) : r.stale
        BY <2>2 DEF MarkStale
    <2>4. old # {} => MarkStale(old) # {}
        BY DEF MarkStale
    <2>5. QED
        BY <1>1, <1>4, <2>1, <2>3, <2>4 DEF Took
<1>5. QED
    BY <1>2, <1>3, <1>4

\* A water that is served: its row, and what the run remembers with it.
LEMMA ServeWaterSound ==
    ASSUME ReferenceInv, ServeWater
    PROVE  /\ rows' \in [Visited -> SUBSET Row]
           /\ \A w \in Visited : rows[w] # {} => rows'[w] # {}
           /\ \E memo \in Seq(Asked) :
                 /\ Len(memo) = run.pos
                 /\ kind = "snotel" => Remembered(memo, rows')
                 /\ run' = IF run.pos = Len(Place) THEN NoRun
                           ELSE [run EXCEPT !.pos = @ + 1, !.memo = memo]
<1> DEFINE w == Place[run.pos]
<1> USE DEF ReferenceInv, ReferenceTyped
<1>1. run.pos \in 1..Len(Place) /\ w \in Visited /\ StationOf[w] \in Station /\ kind # "gauges"
    BY Places DEF ServeWater, RunState
<1>2. PICK said \in Answers(w) :
          /\ \E row \in Served(rows[w], said) : rows' = [rows EXCEPT ![w] = row]
          /\ run' = IF run.pos = Len(Place) THEN NoRun
                    ELSE [run EXCEPT !.pos = @ + 1,
                                     !.memo = Append(@, [station |-> StationOf[w], said |-> said])]
    BY DEF ServeWater
<1>3. PICK row \in Served(rows[w], said) : rows' = [rows EXCEPT ![w] = row]
    BY <1>2
<1>4. PICK s : s = StationOf[w]
    OBVIOUS
<1>5. PICK v : v = w
    OBVIOUS
<1>6. /\ said \in Answer
      /\ kind = "snotel" => \A k \in 1..Len(run.memo) : run.memo[k].station = s => run.memo[k].said = said
    BY <1>1, <1>4, AnswersAgain
<1>7. row \in SUBSET Row /\ (rows[v] # {} => row # {}) /\ (kind = "snotel" => Took(row, said))
    <2>1. rows[w] \in SUBSET Row
        BY <1>1
    <2>2. row \in SUBSET Row /\ (rows[w] # {} => row # {}) /\ (kind = "snotel" => Took(row, said))
        BY ONLY <1>1, <1>3, <1>6, <2>1, ServedRows
    <2>3. QED
        BY <1>5, <2>2
<1>8. rows' = [rows EXCEPT ![v] = row] /\ v \in Visited /\ v = Place[run.pos] /\ s \in Station
    BY <1>1, <1>3, <1>4, <1>5
<1>9. rows' \in [Visited -> SUBSET Row] /\ \A u \in Visited : rows'[u] = IF u = v THEN row ELSE rows[u]
    BY <1>7, <1>8
<1>10. PICK memo : memo = Append(run.memo, [station |-> s, said |-> said])
    OBVIOUS
<1>11. run.memo \in Seq(Asked) /\ [station |-> s, said |-> said] \in Asked /\ Len(run.memo) = run.pos - 1
    BY <1>1, <1>6, <1>8 DEF RunState, Asked
<1>12. /\ memo \in Seq(Asked) /\ Len(memo) = run.pos
       /\ memo[run.pos] = [station |-> s, said |-> said]
       /\ \A k \in 1..(run.pos - 1) : memo[k] = run.memo[k]
    BY <1>1, <1>10, <1>11
<1>13. ASSUME kind = "snotel" PROVE Remembered(memo, rows')
    <2>1. /\ \A k \in 1..(run.pos - 1) : run.memo[k].station = StationOf[Place[k]]
                                          /\ Took(rows[Place[k]], run.memo[k].said)
          /\ \A j, k \in 1..(run.pos - 1) : run.memo[j].station = run.memo[k].station
                                          => run.memo[j].said = run.memo[k].said
        BY <1>11, <1>13 DEF StationsInv, Remembered
    <2>2. /\ memo[run.pos].station = s /\ memo[run.pos].said = said
          /\ StationOf[Place[run.pos]] = s /\ rows'[Place[run.pos]] = row
        BY <1>4, <1>5, <1>8, <1>9, <1>12
    <2>3. \A k \in 1..(run.pos - 1) : run.memo[k].station = s => run.memo[k].said = said
        BY <1>6, <1>11, <1>13
    <2>4. ASSUME NEW k \in 1..run.pos
          PROVE  memo[k].station = StationOf[Place[k]] /\ Took(rows'[Place[k]], memo[k].said)
        <3>1. CASE k = run.pos
            BY <1>7, <1>13, <2>2, <3>1
        <3>2. CASE k \in 1..(run.pos - 1)
            <4>1. memo[k].station = StationOf[Place[k]] /\ Took(rows[Place[k]], memo[k].said)
                BY <1>12, <2>1, <3>2
            <4>2. Place[k] \in Visited
                BY <1>1, Places
            <4>3. CASE Place[k] = v
                <5>1. memo[k].station = s /\ memo[k].said = said
                    BY <1>4, <1>5, <1>12, <2>3, <3>2, <4>1, <4>3
                <5>2. rows'[Place[k]] = row
                    BY <1>8, <1>9, <4>3
                <5>3. QED
                    BY <1>7, <1>13, <4>1, <5>1, <5>2
            <4>4. CASE Place[k] # v
                BY <1>9, <4>1, <4>2, <4>4
            <4>5. QED
                BY <4>3, <4>4
        <3>3. QED
            BY <1>1, <3>1, <3>2, Places
    <2>5. ASSUME NEW j \in 1..run.pos, NEW k \in 1..run.pos, memo[j].station = memo[k].station
          PROVE  memo[j].said = memo[k].said
        <3>1. j \in 1..(run.pos - 1) \/ j = run.pos
            BY <1>1, Places
        <3>2. k \in 1..(run.pos - 1) \/ k = run.pos
            BY <1>1, Places
        <3>3. ASSUME NEW i \in 1..(run.pos - 1), memo[i].station = s PROVE memo[i].said = said
            BY <1>12, <2>3, <3>3
        <3>4. CASE j = run.pos \/ k = run.pos
            BY <2>2, <2>5, <3>1, <3>2, <3>3, <3>4
        <3>5. CASE j \in 1..(run.pos - 1) /\ k \in 1..(run.pos - 1)
            BY <1>12, <2>1, <2>5, <3>5
        <3>6. QED
            BY <3>1, <3>2, <3>4, <3>5
    <2>6. QED
        BY <1>12, <2>4, <2>5 DEF Remembered
<1>14. run' = IF run.pos = Len(Place) THEN NoRun ELSE [run EXCEPT !.pos = @ + 1, !.memo = memo]
    BY <1>2, <1>4, <1>10 DEF RunState
<1>15. \A u \in Visited : rows[u] # {} => rows'[u] # {}
    BY <1>7, <1>9
<1>16. QED
    BY <1>9, <1>12, <1>13, <1>14, <1>15

\* A gauge that is served: what it had is replaced or stays.
LEMMA ServeGaugeSound ==
    ASSUME ReferenceInv, ServeGauge
    PROVE  /\ normals' \in [Gauges -> SUBSET Nat] /\ floods' \in [Gauges -> SUBSET Nat]
           /\ \A g \in Gauges : normals[g] # {} => normals'[g] # {}
           /\ run' # NoRun => run.pos + 1 <= Len(Gauge) /\ run' = [run EXCEPT !.pos = @ + 1]
<1> USE DEF ReferenceInv, ReferenceTyped
<1>1. PICK g : g = Gauge[run.pos]
    OBVIOUS
<1>2. run.pos \in 1..Len(Gauge) /\ g \in Gauges /\ kind = "gauges"
    BY <1>1, Places DEF ServeGauge, RunState
<1>3. PICK loaded \in {normals[g], {day}}, flood \in {floods[g], {day}} :
          normals' = [normals EXCEPT ![g] = loaded] /\ floods' = [floods EXCEPT ![g] = flood]
    BY <1>1 DEF ServeGauge, Loaded
<1>4. \A o \in Gauges : normals'[o] = IF o = g THEN loaded ELSE normals[o]
    BY <1>2, <1>3
<1>5. normals' \in [Gauges -> SUBSET Nat] /\ floods' \in [Gauges -> SUBSET Nat]
    BY <1>2, <1>3
<1>6. \A o \in Gauges : normals[o] # {} => normals'[o] # {}
    BY <1>4
<1>7. ASSUME run' # NoRun
      PROVE  run.pos + 1 <= Len(Gauge) /\ run' = [run EXCEPT !.pos = @ + 1]
    <2>1. run.pos # Len(Gauge) /\ run' = [run EXCEPT !.pos = @ + 1]
        BY <1>7 DEF ServeGauge
    <2>2. QED
        BY <1>2, <2>1, Places
<1>8. QED
    BY <1>5, <1>6, <1>7

LEMMA ReferenceStep == ReferenceInv /\ [ReferenceNext]_refVars => ReferenceInv'
<1> SUFFICES ASSUME ReferenceInv, [ReferenceNext]_refVars PROVE ReferenceInv'
    OBVIOUS
<1> USE DEF ReferenceInv, ReferenceTyped
<1>1. CASE StartWaters \/ StartGauges
    <2>1. PICK normal \in SUBSET Gauges, flood \in SUBSET Gauges :
              run' = [pos |-> 1, memo |-> <<>>, freshNormals |-> normal, freshFloods |-> flood]
        <3>1. CASE StartWaters
            <4>1. run' = [pos |-> 1, memo |-> <<>>, freshNormals |-> {}, freshFloods |-> {}]
                BY <3>1 DEF StartWaters, NoRun
            <4>2. QED
                BY <4>1
        <3>2. CASE StartGauges
            <4>1. run' = [pos |-> 1, memo |-> <<>>, freshNormals |-> FreshGauges(normals),
                          freshFloods |-> FreshGauges(floods)]
                BY <3>2 DEF StartGauges, NoRun
            <4>2. QED
                BY <4>1 DEF FreshGauges
        <3>3. QED
            BY <1>1, <3>1, <3>2
    <2>2. run' \in RunState /\ run'.pos = 1 /\ run'.memo = <<>> /\ Len(run'.memo) = 0
        BY <2>1, NoRunTyped DEF NoRun, RunState
    <2>3. UNCHANGED <<kind, day, news, rows, normals, floods>>
        BY <1>1 DEF StartWaters, StartGauges
    <2>4. (kind = "gauges" => 1 <= Len(Gauge)) /\ (kind # "gauges" => 1 <= Len(Place))
        BY <1>1, ReferenceAssumption DEF StartWaters, StartGauges
    <2>5. ReferenceTyped'
        BY <2>2, <2>3, <2>4
    <2>6. StationsInv'
        BY <2>2, <2>3 DEF StationsInv, Remembered
    <2>7. QED
        BY <2>5, <2>6
<1>2. CASE ServeWater
    <2>1. UNCHANGED <<kind, day, news, normals, floods>> /\ kind # "gauges"
        BY <1>2 DEF ServeWater
    <2>2. PICK memo \in Seq(Asked) :
              /\ Len(memo) = run.pos
              /\ kind = "snotel" => Remembered(memo, rows')
              /\ run' = IF run.pos = Len(Place) THEN NoRun
                        ELSE [run EXCEPT !.pos = @ + 1, !.memo = memo]
        BY <1>2, ServeWaterSound
    <2>3. rows' \in [Visited -> SUBSET Row]
        BY <1>2, ServeWaterSound
    <2>4. CASE run.pos = Len(Place)
        <3>0. run' = NoRun
            BY <2>2, <2>4
        <3>1. run' \in RunState /\ run'.pos = 0 /\ Len(run'.memo) = 0 /\ 0 <= Len(Place)
            BY <3>0, NoRunTyped, Places
        <3>2. ReferenceTyped'
            BY <2>1, <2>3, <3>1
        <3>3. StationsInv'
            BY <3>1 DEF StationsInv, Remembered
        <3>4. QED
            BY <3>2, <3>3
    <2>5. CASE run.pos # Len(Place)
        <3>1. run' = [run EXCEPT !.pos = @ + 1, !.memo = memo]
            BY <2>2, <2>5
        <3>2. /\ run'.pos = run.pos + 1 /\ run'.memo = memo /\ run' \in RunState
              /\ run.pos \in Nat /\ run.pos + 1 <= Len(Place)
            <4>1. run'.pos = run.pos + 1 /\ run'.memo = memo /\ run' \in RunState /\ run.pos \in Nat
                BY <3>1, RunMoves
            <4>2. QED
                BY <2>1, <2>5, <4>1, Places
        <3>3. ReferenceTyped'
            BY <2>1, <2>2, <2>3, <3>2
        <3>4. StationsInv'
            BY <2>1, <2>2, <3>2 DEF StationsInv
        <3>5. QED
            BY <3>3, <3>4
    <2>6. QED
        BY <2>4, <2>5
<1>3. CASE ServeGauge
    <2>1. UNCHANGED <<kind, day, news, rows>> /\ kind = "gauges"
        BY <1>3 DEF ServeGauge
    <2>2. run' \in RunState /\ run'.pos <= Len(Gauge)
        <3>1. CASE run' = NoRun
            BY <3>1, NoRunTyped, Places
        <3>2. CASE run.pos + 1 <= Len(Gauge) /\ run' = [run EXCEPT !.pos = @ + 1]
            BY <3>2, RunMoves
        <3>3. QED
            BY <1>3, <3>1, <3>2, ServeGaugeSound
    <2>3. ReferenceTyped'
        BY <1>3, <2>1, <2>2, ServeGaugeSound
    <2>4. QED
        BY <2>1, <2>3 DEF StationsInv
<1>4. CASE RunDies
    <2>1. run' = NoRun /\ UNCHANGED <<kind, day, news, rows, normals, floods>>
        BY <1>4 DEF RunDies
    <2>2. run' \in RunState /\ run'.pos = 0 /\ Len(run'.memo) = 0 /\ 0 <= Len(Place) /\ 0 <= Len(Gauge)
        BY <2>1, NoRunTyped, Places
    <2>3. ReferenceTyped'
        BY <2>1, <2>2
    <2>4. StationsInv'
        BY <2>2 DEF StationsInv, Remembered
    <2>5. QED
        BY <2>3, <2>4
<1>5. CASE NextDay
    BY <1>5 DEF NextDay, StationsInv
<1>6. ASSUME NEW s \in Station, NewsAt(s) PROVE ReferenceInv'
    <2>1. news' \in [Station -> Nat]
        BY <1>6 DEF NewsAt
    <2>2. QED
        BY <1>6, <2>1 DEF NewsAt, StationsInv
<1>7. CASE UNCHANGED refVars
    BY <1>7 DEF refVars, StationsInv
<1>8. QED
    BY <1>1, <1>2, <1>3, <1>4, <1>5, <1>6, <1>7 DEF ReferenceNext

LEMMA NothingIsWiped ==
    ASSUME ReferenceInv, [ReferenceNext]_refVars
    PROVE  /\ \A g \in Gauges : normals[g] # {} => normals'[g] # {}
           /\ \A w \in Visited : rows[w] # {} => rows'[w] # {}
<1>1. CASE ServeWater
    BY <1>1, ServeWaterSound DEF ServeWater
<1>2. CASE ServeGauge
    BY <1>2, ServeGaugeSound DEF ServeGauge
<1>3. CASE ~ServeWater /\ ~ServeGauge
    <2>1. UNCHANGED <<normals, rows>>
        BY <1>3 DEF ReferenceNext, refVars, StartWaters, StartGauges, RunDies, NextDay, NewsAt
    <2>2. QED
        BY <2>1
<1>4. QED
    BY <1>1, <1>2, <1>3

\* With every place asked, the waters of one station agree.
LEMMA RememberedAgree ==
    ASSUME NEW memo \in Seq(Asked), Len(memo) = Len(Place),
           NEW kept \in [Visited -> SUBSET Row], Remembered(memo, kept),
           NEW v \in Visited, NEW w \in Visited, StationOf[v] = StationOf[w],
           NEW r \in kept[v], NEW s \in kept[w]
    PROVE  r.stale = s.stale /\ (~r.stale => r = s)
<1>1. PICK j \in 1..Len(Place), k \in 1..Len(Place) : v = Place[j] /\ w = Place[k]
    BY Places
<1>2. j \in 1..Len(memo) /\ k \in 1..Len(memo) /\ memo[j] \in Asked
    BY <1>1
<1>3. memo[j].said = memo[k].said /\ Took(kept[v], memo[j].said) /\ Took(kept[w], memo[k].said)
    BY <1>1, <1>2 DEF Remembered
<1>4. PICK said \in Answer : said = memo[j].said
    BY <1>2 DEF Asked
<1>5. Took(kept[v], said) /\ Took(kept[w], said)
    BY <1>3, <1>4
<1>6. CASE said = {}
    <2>1. r.stale /\ s.stale
        BY <1>5, <1>6 DEF Took
    <2>2. r.stale \in BOOLEAN /\ s.stale \in BOOLEAN
        BY DEF Row
    <2>3. QED
        BY <2>1, <2>2
<1>7. CASE said # {}
    <2>1. r \in said /\ s \in said
        BY <1>5, <1>7 DEF Took
    <2>2. PICK a : said = {a}
        BY ONLY <1>4, <1>7 DEF Answer
    <2>3. QED
        BY <2>1, <2>2
<1>8. QED
    BY <1>6, <1>7

LEMMA StationsAgree ==
    ASSUME ReferenceInv, [ReferenceNext]_refVars,
           kind = "snotel", run.pos = Len(Place), run'.pos = 0, rows' # rows,
           NEW v \in Visited, NEW w \in Visited, StationOf[v] = StationOf[w],
           NEW r \in rows'[v], NEW s \in rows'[w]
    PROVE  r.stale = s.stale /\ (~r.stale => r = s)
<1>1. ServeWater
    BY DEF ReferenceNext, refVars, StartWaters, StartGauges, ServeGauge, RunDies, NextDay, NewsAt
<1>2. PICK memo \in Seq(Asked) : Len(memo) = run.pos /\ Remembered(memo, rows')
    BY <1>1, ServeWaterSound
<1>3. QED
    BY <1>1, <1>2, ServeWaterSound, RememberedAgree

-----------------------------------------------------------------------------
(* A failure loses nothing *)

RefreshInv == RulesInv /\ ReferenceInv

LEMMA RefreshInitInv == Init => RefreshInv
    BY RulesInitInv, ReferenceInitInv DEF Init, RefreshInv

\* A step moves one of the components.
LEMMA OneMoves ==
    ASSUME [Next]_allVars
    PROVE  /\ [ClosureNext]_closureVars /\ [ReferenceNext]_refVars
           /\ [StockingNext]_stockVars /\ [ElectionNext]_electionVars
    BY DEF Next, Stocking, allVars

LEMMA RefreshStep == RefreshInv /\ [Next]_allVars => RefreshInv'
    BY OneMoves, RulesStep, ReferenceStep DEF RefreshInv

LEMMA RefreshHolds == Spec => []RefreshInv
    BY RefreshInitInv, RefreshStep, PTL DEF Spec

\* The rules of WDFW stay while its site is down, changed or empty, and each listed one keeps
\* a row (scheduler.py:206, wdfw_emergency.py:133); normals and readings stay
\* (scheduler.py:446, :662), and the waters of one station agree (scheduler.py:646).  For any
\* rules, places, stations, gauges and bounds.
THEOREM JobsLoseNothing == Spec => FailureLosesNothing
<1>1. Spec => NeverDark
    <2>1. RefreshInv /\ [Next]_allVars => [table # {} => table' # {}]_closureVars
        BY OneMoves, OnlyStoreWrites, StoreKeepsRules DEF RefreshInv
    <2>2. QED
        BY <2>1, RefreshHolds, PTL DEF Spec, NeverDark
<1>2. Spec => [][NoRuleDropped']_table
    <2>1. RefreshInv /\ [Next]_allVars => [NoRuleDropped']_table
        BY OneMoves, OnlyStoreWrites, StoreKeepsRules DEF RefreshInv
    <2>2. QED
        BY <2>1, RefreshHolds, PTL DEF Spec
<1>3. Spec => NothingWiped
    <2>1. RefreshInv /\ [Next]_allVars =>
            [/\ \A g \in Gauges : normals[g] # {} => normals'[g] # {}
             /\ \A w \in Visited : rows[w] # {} => rows'[w] # {}]_refVars
        BY OneMoves, NothingIsWiped DEF RefreshInv
    <2>2. QED
        BY <2>1, RefreshHolds, PTL DEF Spec, NothingWiped
<1>4. Spec => SharedStationAgrees
    <2>1. RefreshInv /\ [Next]_allVars =>
            [kind = "snotel" /\ run.pos = Len(Place) /\ run'.pos = 0 /\ rows' # rows =>
                \A v, w \in Visited :
                    StationOf[v] = StationOf[w] /\ rows'[v] # {} /\ rows'[w] # {}
                    => \A r \in rows'[v], s \in rows'[w] : r.stale = s.stale /\ (~r.stale => r = s)]_refVars
        BY OneMoves, StationsAgree DEF RefreshInv
    <2>2. QED
        BY <2>1, RefreshHolds, PTL DEF Spec, SharedStationAgrees
<1>5. QED
    BY <1>1, <1>2, <1>3, <1>4 DEF FailureLosesNothing

\* The run of a year leaves the stocking events of other years, whenever midnight or a crash
\* falls (scheduler.py:549).
THEOREM OtherYearsStay == Spec => [][OtherYearsKept]_stockVars
<1>1. [StockingNext]_stockVars => [OtherYearsKept]_stockVars
    BY DEF StockingNext, SyncStep, StartSync, ReadRecords, Upsert, RefreshLast, SyncDies, NewYear, Republish,
           Removed, stockVars, OtherYearsKept
<1>2. [Next]_allVars => [OtherYearsKept]_stockVars
    BY <1>1, OneMoves
<1>3. QED
    BY <1>2, PTL DEF Spec

-----------------------------------------------------------------------------
(* The scheduler's election, for any number of workers.  The induction rests on what the   *)
(* lock says of its holder: a worker that runs the scheduler holds it unless Postgres has  *)
(* dropped it, and a worker that holds it runs the scheduler or is on its way out.         *)

\* A running scheduler belongs to a worker that serves, and that holds the lock unless
\* Postgres has dropped it since.
RunnersHold ==
    \A w \in Worker : runs[w] => proc[w] = "up" /\ (holder = w \/ w \in dropped)

\* The lock is with a worker that runs the scheduler, or that is leaving.
HolderAttends ==
    \A w \in Worker : holder = w => runs[w] \/ proc[w] = "stopping"

\* A worker that is not up, or the missed chance, explains that no scheduler runs.
Explained == SomeScheduler \/ missed \/ Worker = {} \/ \E w \in Worker : proc[w] # "up"

ElectionInv == ElectionTypeOK /\ RunnersHold /\ HolderAttends /\ Explained

LEMMA ElectionInitInv == ElectionInit => ElectionInv
    BY ElectionAssumption
    DEF ElectionInit, ElectionInv, ElectionTypeOK, RunnersHold, HolderAttends, Explained

\* The lock of a worker that is gone goes to nobody who lives, and nobody else's moves.
LEMMA LeftMovesOnlyTheirs ==
    ASSUME ElectionTypeOK, NEW gone \in SUBSET Worker
    PROVE  /\ Left(gone) \in Worker \cup {None, Ghost}
           /\ \A w \in Worker : Left(gone) = w <=> holder = w /\ w \notin gone
    BY ElectionAssumption DEF ElectionTypeOK, Left

\* A worker that ends, in whatever way, takes its scheduler and its lock with it.
LEMMA EndKeepsInv ==
    ASSUME ElectionInv, NEW w \in Worker,
           proc' = [proc EXCEPT ![w] = "down"], runs' = [runs EXCEPT ![w] = FALSE],
           holder' = Left({w}), dropped' = dropped \ {w}, missed' = missed
    PROVE  ElectionInv'
<1>1. /\ holder' \in Worker \cup {None, Ghost}
      /\ \A v \in Worker : holder' = v <=> holder = v /\ v # w
    BY LeftMovesOnlyTheirs DEF ElectionInv
<1>2. ElectionTypeOK'
    BY <1>1 DEF ElectionInv, ElectionTypeOK
<1>3. RunnersHold' /\ HolderAttends'
    BY <1>1 DEF ElectionInv, ElectionTypeOK, RunnersHold, HolderAttends
<1>4. Explained'
    BY DEF ElectionInv, ElectionTypeOK, Explained
<1>5. QED
    BY <1>2, <1>3, <1>4 DEF ElectionInv

LEMMA ElectionStep == ElectionInv /\ [ElectionNext]_electionVars => ElectionInv'
<1> SUFFICES ASSUME ElectionInv, [ElectionNext]_electionVars PROVE ElectionInv'
    OBVIOUS
<1> USE DEF ElectionInv, ElectionTypeOK
<1>1. ASSUME NEW w \in Worker, Boot(w) PROVE ElectionInv'
    BY <1>1 DEF Boot, RunnersHold, HolderAttends, Explained
<1>2. ASSUME NEW w \in Worker, TryLock(w) PROVE ElectionInv'
    <2>1. ElectionTypeOK'
        BY <1>2 DEF TryLock
    <2>2. RunnersHold' /\ HolderAttends'
        BY <1>2, ElectionAssumption DEF TryLock, RunnersHold, HolderAttends
    <2>3. Explained'
        <3>1. CASE holder = None
            BY <1>2, <3>1 DEF TryLock, Explained, SomeScheduler
        <3>2. CASE holder = Ghost
            BY <1>2, <3>2, ElectionAssumption DEF TryLock, Explained
        <3>3. CASE holder \in Worker
            <4>1. runs' = runs /\ proc[holder] # "starting" => proc'[holder] = proc[holder]
                BY <1>2, <3>3, ElectionAssumption DEF TryLock
            <4>2. runs[holder] \/ proc[holder] = "stopping"
                BY <3>3 DEF HolderAttends
            <4>3. QED
                BY <1>2, <3>3, <4>1, <4>2, ElectionAssumption
                DEF TryLock, Explained, SomeScheduler
        <3>4. QED
            BY <3>1, <3>2, <3>3
    <2>4. QED
        BY <2>1, <2>2, <2>3
<1>3. ASSUME NEW w \in Worker, BootFails(w) PROVE ElectionInv'
    <2>1. /\ holder' \in Worker \cup {None, Ghost}
          /\ \A v \in Worker : holder' # v
        BY <1>3, LeftMovesOnlyTheirs DEF BootFails
    <2>2. QED
        BY <1>3, <2>1 DEF BootFails, RunnersHold, HolderAttends, Explained
<1>4. ASSUME NEW w \in Worker, StopScheduler(w) PROVE ElectionInv'
    BY <1>4 DEF StopScheduler, RunnersHold, HolderAttends, Explained
<1>5. ASSUME NEW w \in Worker, Leave(w) PROVE ElectionInv'
    BY <1>5, EndKeepsInv DEF Leave
<1>6. ASSUME NEW w \in Worker, Die(w) PROVE ElectionInv'
    BY <1>6, EndKeepsInv DEF Die
<1>7. CASE Notice
    BY <1>7, ElectionAssumption DEF Notice, RunnersHold, HolderAttends, Explained, SomeScheduler
<1>8. CASE DatabaseRestarts
    BY <1>8, ElectionAssumption
    DEF DatabaseRestarts, RunnersHold, HolderAttends, Explained, SomeScheduler
<1>9. CASE UNCHANGED electionVars
    BY <1>9 DEF electionVars, RunnersHold, HolderAttends, Explained, SomeScheduler
<1>10. QED
    BY <1>1, <1>2, <1>3, <1>4, <1>5, <1>6, <1>7, <1>8, <1>9 DEF ElectionNext

\* The state of the election keeps its type: a worker is down, starting, up or stopping,
\* and the lock is with a worker, with a dead connection or free (main.py startup, shutdown).
THEOREM ElectionTyped == ElectionSpec => []ElectionTypeOK
<1>1. ElectionInv => ElectionTypeOK
    BY DEF ElectionInv
<1>2. QED
    BY <1>1, ElectionInitInv, ElectionStep, PTL DEF ElectionSpec

\* The jobs are attended, by one worker: two schedulers run only when Postgres has dropped
\* the lock of one of them (main.py:105), and with every worker up one runs the scheduler
\* unless the last chance was missed (main.py:117).  For every number of workers.
THEOREM ElectionAttends == ElectionSpec => []JobsAttended
<1>1. ElectionInv => JobsAttended
    <2> SUFFICES ASSUME ElectionInv PROVE JobsAttended
        OBVIOUS
    <2>1. OneScheduler
        BY DEF ElectionInv, RunnersHold, OneScheduler
    <2>2. (\A w \in Worker : proc[w] = "up") /\ Worker # {} /\ ~missed => SomeScheduler
        BY DEF ElectionInv, Explained
    <2>3. QED
        BY <2>1, <2>2 DEF JobsAttended
<1>2. QED
    BY <1>1, ElectionInitInv, ElectionStep, PTL DEF ElectionSpec

-----------------------------------------------------------------------------
(* The breaker and the cache of one source, for any number of waters and fetches, any      *)
(* limits and any clock.  The breaker's part rests on its count never running ahead of the *)
(* failures heard; the cache's part on rows, and the fetch that is about to store one,     *)
(* being ordered by what they have seen as they are by time, until two fetches for one     *)
(* water meet.                                                                             *)

\* A closed breaker has counted no more failures than came in a row.
CountsAreHeard == breaker.state = "closed" => breaker.fails <= streak

RowsArePast == \A r \in cache : r.at <= clock

\* Of the rows of a water one is the latest.
LatestStands ==
    \A w \in Water : Rows(w) # {} => \E r \in Rows(w) : \A s \in Rows(w) : r.at >= s.at

\* Two fetches for one water in progress together are remembered.
MeetingsKnown ==
    \A f, g \in Fetch : f # g /\ fetch[f].pc # "idle" /\ fetch[g].pc # "idle"
                        /\ fetch[f].water = fetch[g].water => fetch[f].water \in met

\* Nothing is seen before it happens.
SeenHappened ==
    /\ \A r \in cache : r.obs <= actual
    /\ \A f \in Fetch : fetch[f].obs <= actual

\* Later rows have seen no less.
RowsInOrder ==
    \A w \in Water \ met : \A r, s \in Rows(w) : r.at <= s.at => r.obs <= s.obs

\* A fetch that is about to store has seen no less than the rows.
StoresNewest ==
    \A f \in Fetch : fetch[f].pc = "store" /\ fetch[f].water \notin met =>
        \A r \in Rows(fetch[f].water) : r.obs <= fetch[f].obs

SourcesInv ==
    /\ SourcesTypeOK /\ CountsAreHeard /\ RowsArePast /\ LatestStands
    /\ MeetingsKnown /\ SeenHappened /\ RowsInOrder /\ StoresNewest

USE BreakerAssumption, SourceAssumption

-----------------------------------------------------------------------------
(* Lemmas about the operators *)

LEMMA IdleFetch == NoFetch \in FetchState /\ NoFetch.pc = "idle" /\ NoFetch.obs = 0
    BY DEF NoFetch, FetchState, Reading

\* The smaller of two numbers.
LEMMA MinOfTwo ==
    ASSUME NEW a \in Int, NEW b \in Int
    PROVE  Min({a, b}) = IF a <= b THEN a ELSE b
<1>1. \E x \in {a, b} : \A y \in {a, b} : x <= y
    OBVIOUS
<1>2. \A x \in {a, b} : (\A y \in {a, b} : x <= y) => x = IF a <= b THEN a ELSE b
    OBVIOUS
<1>3. QED
    BY <1>1, <1>2 DEF Min

\* The larger of two numbers.
LEMMA MaxOfTwo ==
    ASSUME NEW a \in Int, NEW b \in Int
    PROVE  Max({a, b}) \in {a, b} /\ Max({a, b}) >= a /\ Max({a, b}) >= b
<1>1. \E x \in {a, b} : \A y \in {a, b} : x >= y
    OBVIOUS
<1>2. QED
    BY <1>1 DEF Max

\* What a call's result makes of the breaker: its type, its count and its state.
LEMMA ResultSound ==
    ASSUME NEW b \in BreakerState, NEW outcome \in Outcome, NEW now \in Nat,
           NEW c, c = Resulting(b, outcome, now)
    PROVE  /\ c \in BreakerState
           /\ b.state = "open" => c.state = "open" /\ c.openedAt = b.openedAt
           /\ b.state = "closed" /\ c.state = "open" =>
                  CountsAsFailure(outcome) /\ outcome # "cancelled" /\ b.fails + 1 >= FailMax
           /\ c.state = "closed" =>
                  \/ c.fails = 0
                  \/ outcome = "cancelled" /\ c = b
                  \/ outcome # "cancelled" /\ CountsAsFailure(outcome)
                     /\ b.state = "closed" /\ c.fails = b.fails + 1
<1>1. CASE outcome = "cancelled"
    BY <1>1 DEF Resulting
<1>2. CASE outcome # "cancelled" /\ CountsAsFailure(outcome)
    <2>0. OpenSince(now) \in BreakerState /\ OpenSince(now).state = "open"
        BY DEF OpenSince, BreakerState
    <2>1. Resulting(b, outcome, now) = OnFailure(b, now)
        BY <1>2 DEF Resulting
    <2>2. CASE b.state = "closed"
        <3>1. OnFailure(b, now) = IF b.fails + 1 >= FailMax THEN OpenSince(now)
                                                            ELSE [b EXCEPT !.fails = @ + 1]
            BY <2>2 DEF OnFailure
        <3>2. CASE b.fails + 1 >= FailMax
            BY <1>2, <2>0, <2>1, <2>2, <3>1, <3>2
        <3>3. CASE ~(b.fails + 1 >= FailMax)
            <4>1. /\ b.fails + 1 \in 0..FailMax
                  /\ [b EXCEPT !.fails = @ + 1] =
                        [state |-> "closed", fails |-> b.fails + 1, openedAt |-> b.openedAt]
                BY <2>2, <3>3 DEF BreakerState
            <4>2. QED
                BY <1>2, <2>1, <2>2, <3>1, <3>3, <4>1 DEF BreakerState
        <3>4. QED
            BY <3>2, <3>3
    <2>3. CASE b.state = "half"
        <3>1. OnFailure(b, now) = OpenSince(now)
            BY <2>3 DEF OnFailure
        <3>2. QED
            BY <1>2, <2>0, <2>1, <2>3, <3>1
    <2>4. CASE b.state = "open"
        BY <1>2, <2>1, <2>4 DEF OnFailure, BreakerState
    <2>5. QED
        BY <2>2, <2>3, <2>4 DEF BreakerState
<1>3. CASE outcome # "cancelled" /\ ~CountsAsFailure(outcome)
    <2>1. Resulting(b, outcome, now) =
            [state |-> IF b.state = "half" THEN "closed" ELSE b.state,
             fails |-> 0, openedAt |-> b.openedAt]
        BY <1>3 DEF Resulting, OnSuccess, BreakerState
    <2>2. QED
        BY <1>3, <2>1 DEF BreakerState
<1>4. QED
    BY <1>1, <1>2, <1>3

\* The nightly prune keeps all that may be read.
LEMMA PruneLimitKeeps == PruneLimit \in Int /\ PruneLimit >= MaxAge
<1>1. Max({TTL, MaxAge}) \in {TTL, MaxAge} /\ Max({TTL, MaxAge}) >= MaxAge
    BY MaxOfTwo
<1>2. QED
    BY <1>1 DEF PruneLimit

-----------------------------------------------------------------------------
(* The induction *)

LEMMA SourcesInitInv == SourcesInit => SourcesInv
<1> SUFFICES ASSUME SourcesInit PROVE SourcesInv
    OBVIOUS
<1>1. SourcesTypeOK /\ CountsAreHeard
    BY IdleFetch DEF SourcesInit, SourcesTypeOK, CountsAreHeard, BreakerState, NewBreaker, Reading
<1>2. RowsArePast /\ LatestStands /\ RowsInOrder /\ StoresNewest
    BY IdleFetch DEF SourcesInit, RowsArePast, LatestStands, RowsInOrder, StoresNewest, Rows
<1>3. MeetingsKnown /\ SeenHappened
    BY IdleFetch DEF SourcesInit, MeetingsKnown, SeenHappened
<1>4. QED
    BY <1>1, <1>2, <1>3 DEF SourcesInv

\* A fetch that ends disturbs nothing the others rest on.
LEMMA EndKeepsFetches ==
    ASSUME SourcesInv, NEW f \in Fetch, EndFetch(f), UNCHANGED <<met, actual, clock>>
    PROVE  /\ fetch' \in [Fetch -> FetchState]
           /\ MeetingsKnown'
           /\ \A g \in Fetch : fetch'[g].obs <= actual'
           /\ \A g \in Fetch : fetch'[g].pc # "idle" => g # f /\ fetch'[g] = fetch[g]
<1> USE IdleFetch DEF SourcesInv, SourcesTypeOK, EndFetch
<1>1. \A g \in Fetch : fetch'[g] = IF g = f THEN NoFetch ELSE fetch[g]
    OBVIOUS
<1>2. fetch' \in [Fetch -> FetchState]
    OBVIOUS
<1>3. MeetingsKnown'
    BY <1>1 DEF MeetingsKnown
<1>4. \A g \in Fetch : fetch'[g].obs <= actual'
    BY <1>1 DEF SeenHappened, Reading
<1>5. QED
    BY <1>1, <1>2, <1>3, <1>4

\* The cache's invariants depend on the cache, the clock and the waters that met only.
LEMMA SameRowsKeep ==
    ASSUME SourcesInv, UNCHANGED cache, met \subseteq met', clock' \in 0..LastTick, clock <= clock',
           actual' \in Reading, actual <= actual'
    PROVE  RowsArePast' /\ LatestStands' /\ RowsInOrder' /\ \A r \in cache' : r.obs <= actual'
<1> USE DEF SourcesInv, SourcesTypeOK, RowState, Reading
<1>1. RowsArePast' /\ \A r \in cache' : r.obs <= actual'
    BY DEF RowsArePast, SeenHappened
<1>2. LatestStands' /\ RowsInOrder'
    BY DEF LatestStands, RowsInOrder, Rows
<1>3. QED
    BY <1>1, <1>2

LEMMA AskKeeps ==
    ASSUME SourcesInv, NEW f \in Fetch, NEW w \in Water, Ask(f, w)
    PROVE  SourcesInv'
<1> DEFINE asked == [NoFetch EXCEPT !.pc = "asked", !.water = w]
<1>0. /\ asked \in FetchState /\ asked.pc = "asked" /\ asked.water = w /\ asked.obs = 0
    BY IdleFetch DEF FetchState
<1>1. /\ UNCHANGED <<clock, actual, cache, streak>>
      /\ breaker' = Admitted(breaker)
      /\ fetch' = [fetch EXCEPT ![f] = asked]
      /\ \A g \in Fetch : fetch'[g] = IF g = f THEN asked ELSE fetch[g]
      /\ met \subseteq met' /\ met' \subseteq Water
      /\ (\E g \in Fetch : fetch[g].pc # "idle" /\ fetch[g].water = w) => w \in met'
      /\ fetch[f].pc = "idle"
    BY DEF Ask, SourcesInv, SourcesTypeOK
<1> HIDE DEF asked
<1>2. Admitted(breaker) \in BreakerState /\ (Admitted(breaker).state = "closed" => breaker.state = "closed" /\ Admitted(breaker) = breaker)
    BY DEF Admitted, BreakerState, SourcesInv, SourcesTypeOK
<1>3. SourcesTypeOK' /\ CountsAreHeard'
    BY <1>0, <1>1, <1>2 DEF SourcesInv, SourcesTypeOK, CountsAreHeard
<1>4. RowsArePast' /\ LatestStands' /\ RowsInOrder' /\ SeenHappened'
    BY <1>0, <1>1, SameRowsKeep DEF SourcesInv, SourcesTypeOK, SeenHappened, Reading
<1>5. MeetingsKnown'
    BY <1>0, <1>1 DEF SourcesInv, MeetingsKnown
<1>6. StoresNewest'
    BY <1>0, <1>1 DEF SourcesInv, StoresNewest, Rows
<1>7. QED
    BY <1>3, <1>4, <1>5, <1>6 DEF SourcesInv

LEMMA HearKeeps ==
    ASSUME SourcesInv, NEW f \in Fetch, NEW outcome \in Outcome, Hear(f, outcome)
    PROVE  SourcesInv'
<1>1. /\ UNCHANGED <<clock, actual, cache, met>>
      /\ breaker' = Resulting(breaker, outcome, clock)
      /\ streak' = IF outcome = "cancelled" THEN streak
                   ELSE IF CountsAsFailure(outcome) THEN Min({FailMax, streak + 1}) ELSE 0
      /\ fetch[f].pc = "asked"
      /\ clock \in Nat /\ streak \in 0..FailMax /\ breaker \in BreakerState
    BY DEF Hear, SourcesInv, SourcesTypeOK
<1>2. /\ streak' \in 0..FailMax
      /\ outcome # "cancelled" /\ CountsAsFailure(outcome) =>
             streak' = IF FailMax <= streak + 1 THEN FailMax ELSE streak + 1
    BY <1>1, MinOfTwo
<1>3. breaker' \in BreakerState /\ CountsAreHeard'
    <2>1. /\ breaker' \in BreakerState
          /\ breaker'.state = "closed" =>
                 \/ breaker'.fails = 0
                 \/ outcome = "cancelled" /\ breaker' = breaker
                 \/ outcome # "cancelled" /\ CountsAsFailure(outcome)
                    /\ breaker.state = "closed" /\ breaker'.fails = breaker.fails + 1
        BY <1>1, ResultSound
    <2>2. breaker.state = "closed" => breaker.fails <= streak
        BY DEF SourcesInv, CountsAreHeard
    <2>3. breaker.fails \in 0..FailMax /\ breaker'.fails \in 0..FailMax
        BY <1>1, <2>1 DEF BreakerState
    <2>4. outcome = "cancelled" => streak' = streak
        BY <1>1
    <2>5. breaker'.state = "closed" => breaker'.fails <= streak'
        BY <1>1, <1>2, <2>1, <2>2, <2>3, <2>4
    <2>6. QED
        BY <2>1, <2>5 DEF CountsAreHeard
<1>4. RowsArePast' /\ LatestStands' /\ RowsInOrder' /\ \A r \in cache' : r.obs <= actual'
    BY <1>1, SameRowsKeep DEF SourcesInv, SourcesTypeOK, Reading
<1>5. /\ fetch' \in [Fetch -> FetchState] /\ MeetingsKnown' /\ StoresNewest'
      /\ \A g \in Fetch : fetch'[g].obs <= actual'
    <2>1. CASE EndFetch(f)
        BY <1>1, <2>1, EndKeepsFetches DEF SourcesInv, StoresNewest, Rows
    <2>2. CASE \/ fetch' = [fetch EXCEPT ![f].pc = "store", ![f].obs = actual]
               \/ fetch' = [fetch EXCEPT ![f].pc = "mark"]
        <3>0. PICK e \in FetchState :
                  /\ fetch' = [fetch EXCEPT ![f] = e]
                  /\ e.water = fetch[f].water /\ e.pc \in {"store", "mark"}
                  /\ e.obs \in {actual, fetch[f].obs}
                  /\ e.pc = "store" => e.obs = actual
            <4>1. CASE fetch' = [fetch EXCEPT ![f].pc = "store", ![f].obs = actual]
                <5>1. [fetch[f] EXCEPT !.pc = "store", !.obs = actual] \in FetchState
                    BY DEF SourcesInv, SourcesTypeOK, FetchState
                <5>2. QED
                    BY <4>1, <5>1 DEF SourcesInv, SourcesTypeOK, FetchState
            <4>2. CASE fetch' = [fetch EXCEPT ![f].pc = "mark"]
                <5>1. [fetch[f] EXCEPT !.pc = "mark"] \in FetchState
                    BY DEF SourcesInv, SourcesTypeOK, FetchState
                <5>2. QED
                    BY <4>2, <5>1 DEF SourcesInv, SourcesTypeOK, FetchState
            <4>3. QED
                BY <2>2, <4>1, <4>2
        <3>a. \A g \in Fetch : fetch'[g] = IF g = f THEN e ELSE fetch[g]
            BY <3>0 DEF SourcesInv, SourcesTypeOK
        <3>1. /\ fetch' \in [Fetch -> FetchState]
              /\ \A g \in Fetch : /\ fetch'[g].water = fetch[g].water
                                  /\ fetch'[g].pc = "idle" <=> fetch[g].pc = "idle"
                                  /\ g # f => fetch'[g] = fetch[g]
              /\ fetch'[f].obs \in {actual, fetch[f].obs}
              /\ fetch'[f].pc = "store" => fetch'[f].obs = actual
            BY <1>1, <3>0, <3>a DEF SourcesInv, SourcesTypeOK
        <3>2. MeetingsKnown' /\ \A g \in Fetch : fetch'[g].obs <= actual'
            <4>1. MeetingsKnown'
                BY <1>1, <3>1 DEF SourcesInv, MeetingsKnown
            <4>2. \A g \in Fetch : fetch'[g].obs <= actual'
                BY <1>1, <3>1 DEF SourcesInv, SourcesTypeOK, SeenHappened, Reading
            <4>3. QED
                BY <4>1, <4>2
        <3>3. StoresNewest'
            BY <1>1, <3>1 DEF SourcesInv, StoresNewest, SeenHappened, Rows
        <3>4. QED
            BY <3>1, <3>2, <3>3
    <2>3. QED
        BY <1>1, <2>1, <2>2 DEF Hear
<1>6. QED
    BY <1>1, <1>2, <1>3, <1>4, <1>5 DEF SourcesInv, SourcesTypeOK, SeenHappened

LEMMA StoreKeeps ==
    ASSUME SourcesInv, NEW f \in Fetch, Store(f)
    PROVE  SourcesInv'
<1>0. PICK w \in Water : w = fetch[f].water
    BY DEF SourcesInv, SourcesTypeOK, FetchState
<1> DEFINE new == [water |-> w, obs |-> fetch[f].obs, at |-> clock, stale |-> FALSE]
<1>1. /\ UNCHANGED <<clock, actual, breaker, streak, met>>
      /\ EndFetch(f) /\ fetch[f].pc = "store"
      /\ cache' = {r \in Pruned(w) : r.water # w \/ r.at # clock} \cup {new}
    BY <1>0 DEF Store
<1>1b. new \in RowState /\ new.at = clock /\ new.obs = fetch[f].obs /\ new.water = w
    BY <1>0 DEF SourcesInv, SourcesTypeOK, FetchState, RowState
<1> HIDE DEF new
<1>1c. /\ new \in cache'
       /\ \A r \in cache' : r = new \/ (r \in cache /\ (r.water = w => r.at # clock))
    <2>1. Pruned(w) \subseteq cache
        BY DEF Pruned
    <2>2. QED
        BY <1>1, <2>1
<1>1a. \A r \in cache : r.water # w => r \in cache'
    BY <1>1 DEF Pruned
<1>2. cache' \subseteq RowState
    BY <1>1b, <1>1c DEF SourcesInv, SourcesTypeOK
<1>3. SourcesTypeOK' /\ CountsAreHeard' /\ MeetingsKnown'
    BY <1>1, <1>2, EndKeepsFetches DEF SourcesInv, SourcesTypeOK, CountsAreHeard
<1>4. RowsArePast' /\ SeenHappened'
    BY <1>1, <1>1b, <1>1c, <1>2, EndKeepsFetches DEF SourcesInv, SourcesTypeOK, RowsArePast, SeenHappened
<1>5. \A v \in Water \ {w} : Rows(v)' = Rows(v)
    BY <1>1a, <1>1b, <1>1c DEF Rows
<1>6. \A r \in Rows(w)' : r = new \/ (r \in Rows(w) /\ r.at < new.at)
    BY <1>1b, <1>1c DEF Rows, SourcesInv, SourcesTypeOK, RowState, RowsArePast
<1>7. new \in Rows(w)'
    BY <1>1b, <1>1c DEF Rows
<1>8. LatestStands'
    <2>1. \A r \in Rows(w)' : new.at >= r.at
        BY <1>1b, <1>6 DEF SourcesInv, SourcesTypeOK, RowState, Rows
    <2>2. QED
        BY <1>5, <1>7, <2>1 DEF SourcesInv, LatestStands
<1>9. RowsInOrder'
    <2>1. w \notin met => \A r \in Rows(w) : r.obs <= new.obs
        BY <1>0, <1>1, <1>1b DEF SourcesInv, StoresNewest
    <2>2. w \notin met => \A r, s \in Rows(w)' : r.at <= s.at => r.obs <= s.obs
        BY <1>1b, <1>6, <2>1 DEF SourcesInv, SourcesTypeOK, RowState, Reading, RowsInOrder, Rows
    <2>3. QED
        BY <1>1, <1>5, <2>2 DEF SourcesInv, RowsInOrder
<1>10. StoresNewest'
    <2>1. ASSUME NEW g \in Fetch, fetch'[g].pc = "store", fetch'[g].water \notin met'
          PROVE  fetch'[g] = fetch[g] /\ fetch[g].water \in Water \ {w}
        BY <1>0, <1>1, <2>1, EndKeepsFetches DEF SourcesInv, MeetingsKnown, SourcesTypeOK, FetchState
    <2>2. QED
        BY <1>1, <1>5, <2>1 DEF SourcesInv, StoresNewest
<1>11. QED
    BY <1>3, <1>4, <1>8, <1>9, <1>10 DEF SourcesInv

\* A row that is marked stale is otherwise the row it was.
LEMMA MarkKeeps ==
    ASSUME SourcesInv, NEW f \in Fetch, Mark(f)
    PROVE  SourcesInv'
<1>1. UNCHANGED <<clock, actual, breaker, streak, met>> /\ EndFetch(f)
    BY DEF Mark
<1>2. CASE UNCHANGED cache
    <2>1. RowsArePast' /\ LatestStands' /\ RowsInOrder' /\ \A r \in cache' : r.obs <= actual'
        BY <1>1, <1>2, SameRowsKeep DEF SourcesInv, SourcesTypeOK, Reading
    <2>2. StoresNewest'
        BY <1>1, <1>2, EndKeepsFetches DEF SourcesInv, StoresNewest, Rows
    <2>3. QED
        BY <1>1, <1>2, <2>1, <2>2, EndKeepsFetches
        DEF SourcesInv, SourcesTypeOK, CountsAreHeard, SeenHappened
<1>3. ASSUME NEW old \in Rows(fetch[f].water),
             cache' = (cache \ {old}) \cup {[old EXCEPT !.stale = TRUE]}
      PROVE  SourcesInv'
    <2> DEFINE marked == [old EXCEPT !.stale = TRUE]
    <2>1. /\ old \in cache /\ old \in RowState /\ marked \in RowState
          /\ marked.water = old.water /\ marked.at = old.at /\ marked.obs = old.obs
        BY <1>3 DEF Rows, SourcesInv, SourcesTypeOK, RowState
    <2> HIDE DEF marked
    <2>2. cache' = (cache \ {old}) \cup {marked}
        BY <1>3 DEF marked
    <2>3. cache' \subseteq RowState
        BY <2>1, <2>2 DEF SourcesInv, SourcesTypeOK
    <2>4. \A r \in cache' : \E s \in cache : r.water = s.water /\ r.at = s.at /\ r.obs = s.obs
        BY <2>1, <2>2
    <2>5. \A s \in cache : \E r \in cache' : r.water = s.water /\ r.at = s.at
        BY <2>1, <2>2
    <2>6. RowsArePast' /\ SeenHappened'
        BY <1>1, <2>4, EndKeepsFetches DEF SourcesInv, RowsArePast, SeenHappened
    <2>7. LatestStands'
        <3>1. SUFFICES ASSUME NEW w \in Water, NEW r0 \in cache', r0.water = w
                       PROVE  \E r \in cache' : r.water = w /\ \A s \in cache' : s.water = w => r.at >= s.at
            BY DEF LatestStands, Rows
        <3>2. PICK t \in cache : t.water = w /\ \A s \in cache : s.water = w => t.at >= s.at
            BY <3>1, <2>4 DEF SourcesInv, LatestStands, Rows
        <3>3. PICK r \in cache' : r.water = w /\ r.at = t.at
            BY <3>2, <2>5
        <3>4. QED
            BY <3>2, <3>3, <2>4
    <2>8. RowsInOrder'
        <3>1. SUFFICES ASSUME NEW w \in Water, w \notin met, NEW r \in cache', NEW s \in cache',
                              r.water = w, s.water = w, r.at <= s.at
                       PROVE  r.obs <= s.obs
            BY <1>1 DEF RowsInOrder, Rows
        <3>2. QED
            BY <2>4, <3>1 DEF SourcesInv, RowsInOrder, Rows
    <2>9. StoresNewest'
        <3>1. SUFFICES ASSUME NEW g \in Fetch, g # f, fetch'[g] = fetch[g], fetch[g].pc = "store",
                              fetch[g].water \notin met, NEW r \in cache', r.water = fetch[g].water
                       PROVE  r.obs <= fetch[g].obs
            BY <1>1, EndKeepsFetches DEF StoresNewest, Rows
        <3>2. QED
            BY <2>4, <3>1 DEF SourcesInv, StoresNewest, Rows
    <2>10. QED
        BY <1>1, <2>3, <2>6, <2>7, <2>8, <2>9, EndKeepsFetches
        DEF SourcesInv, SourcesTypeOK, CountsAreHeard
<1>4. QED
    BY <1>2, <1>3 DEF Mark

LEMMA PruneKeeps ==
    ASSUME SourcesInv, Prune
    PROVE  SourcesInv'
<1>1. PICK limit \in Int : limit = PruneLimit
    BY PruneLimitKeeps
<1>2. /\ cache' = {r \in cache : clock - r.at <= limit}
      /\ UNCHANGED <<clock, actual, breaker, fetch, streak, met>>
    BY <1>1 DEF Prune
<1>3. SourcesTypeOK' /\ CountsAreHeard' /\ MeetingsKnown'
    BY <1>2 DEF SourcesInv, SourcesTypeOK, CountsAreHeard, MeetingsKnown
<1>4. RowsArePast' /\ SeenHappened' /\ RowsInOrder' /\ StoresNewest'
    BY <1>2 DEF SourcesInv, RowsArePast, SeenHappened, RowsInOrder, StoresNewest, Rows
<1>5. LatestStands'
    <2>1. SUFFICES ASSUME NEW w \in Water, NEW r0 \in Rows(w)'
                   PROVE  \E r \in Rows(w)' : \A s \in Rows(w)' : r.at >= s.at
        BY DEF LatestStands
    <2>2. PICK t \in Rows(w) : \A s \in Rows(w) : t.at >= s.at
        BY <1>2, <2>1 DEF SourcesInv, LatestStands, Rows
    <2>3. r0 \in Rows(w) /\ t.at >= r0.at /\ clock - r0.at <= limit
        BY <1>2, <2>1, <2>2 DEF Rows
    <2>4. t.at \in Nat /\ r0.at \in Nat /\ clock \in Nat /\ limit \in Int
        BY <2>2, <2>3 DEF SourcesInv, SourcesTypeOK, RowState, Rows
    <2>5. t \in Rows(w)'
        BY <1>2, <2>2, <2>3, <2>4 DEF Rows
    <2>6. QED
        BY <1>2, <2>2, <2>5 DEF Rows
<1>6. QED
    BY <1>3, <1>4, <1>5 DEF SourcesInv

\* Time passes, or the water changes: nothing that was seen is undone.
LEMMA OutsideKeeps ==
    ASSUME SourcesInv, Elapses \/ Changes
    PROVE  SourcesInv'
<1>1. /\ UNCHANGED <<breaker, fetch, cache, streak, met>>
      /\ clock' \in 0..LastTick /\ clock <= clock'
      /\ actual' \in Reading /\ actual <= actual'
    BY DEF Elapses, Changes, SourcesInv, SourcesTypeOK, Reading
<1>2. RowsArePast' /\ LatestStands' /\ RowsInOrder' /\ \A r \in cache' : r.obs <= actual'
    BY <1>1, SameRowsKeep
<1>3. \A f \in Fetch : fetch'[f].obs <= actual'
    BY <1>1 DEF SourcesInv, SourcesTypeOK, SeenHappened, FetchState, Reading
<1>4. QED
    BY <1>1, <1>2, <1>3
    DEF SourcesInv, SourcesTypeOK, CountsAreHeard, MeetingsKnown, SeenHappened, StoresNewest, Rows

LEMMA SourcesStep == SourcesInv /\ [SourcesNext]_sourceVars => SourcesInv'
<1> SUFFICES ASSUME SourcesInv, [SourcesNext]_sourceVars PROVE SourcesInv'
    OBVIOUS
<1>1. CASE UNCHANGED sourceVars
    BY <1>1
    DEF sourceVars, SourcesInv, SourcesTypeOK, CountsAreHeard, RowsArePast, LatestStands,
        MeetingsKnown, SeenHappened, RowsInOrder, StoresNewest, Rows
<1>2. QED
    BY <1>1, AskKeeps, HearKeeps, StoreKeeps, MarkKeeps, PruneKeeps, OutsideKeeps
    DEF SourcesNext

-----------------------------------------------------------------------------
(* Theorems *)

\* A source's state keeps its type: the breaker's count within its limit, every row and
\* every fetch of a known water (circuit_breaker.py, cache.py).
THEOREM SourcesTyped == SourcesSpec => []SourcesTypeOK
<1>1. SourcesInv => SourcesTypeOK
    BY DEF SourcesInv
<1>2. QED
    BY <1>1, SourcesInitInv, SourcesStep, PTL DEF SourcesSpec

LEMMA BreakerStep ==
    ASSUME SourcesInv, SourcesNext
    PROVE  OpensInTime /\ ClosesInTime
<1>1. ASSUME NEW f \in Fetch, NEW w \in Water, Ask(f, w)
      PROVE  OpensInTime /\ ClosesInTime
    BY <1>1
    DEF Ask, Blocking, Admitted, OpensInTime, ClosesInTime, SourcesInv, SourcesTypeOK, BreakerState
<1>2. ASSUME NEW f \in Fetch, NEW outcome \in Outcome, Hear(f, outcome)
      PROVE  OpensInTime /\ ClosesInTime
    <2>1. /\ breaker' = Resulting(breaker, outcome, clock)
          /\ clock \in Nat /\ streak \in 0..FailMax /\ breaker \in BreakerState
          /\ breaker.state = "closed" => breaker.fails <= streak
        BY <1>2 DEF Hear, SourcesInv, SourcesTypeOK, CountsAreHeard
    <2>2. ClosesInTime
        BY <2>1, ResultSound DEF ClosesInTime
    <2>3. ASSUME breaker.state = "closed", breaker'.state = "open"
          PROVE  streak' >= FailMax
        <3>1. /\ CountsAsFailure(outcome) /\ outcome # "cancelled"
              /\ breaker.fails + 1 >= FailMax
            BY <2>1, <2>3, ResultSound
        <3>2. streak' = Min({FailMax, streak + 1})
            BY <1>2, <3>1 DEF Hear
        <3>3. QED
            BY <2>1, <2>3, <3>1, <3>2, MinOfTwo DEF BreakerState
    <2>4. QED
        BY <2>2, <2>3 DEF OpensInTime
<1>3. ASSUME UNCHANGED breaker
      PROVE  OpensInTime /\ ClosesInTime
    BY <1>3 DEF OpensInTime, ClosesInTime
<1>4. QED
    BY <1>1, <1>2, <1>3 DEF SourcesNext, Store, Mark, Prune, Elapses, Changes

\* The breaker rests a failing source, however its calls overlap: it opens after FailMax
\* failures in a row and not before, and no late result closes it before its timeout is
\* over or keeps it open for longer (call_coroutine).  For every limit and any number of
\* calls together.
THEOREM BreakerIsSound == SourcesSpec => BreakerSound
<1>1. SourcesInv /\ [SourcesNext]_sourceVars => [OpensInTime /\ ClosesInTime]_sourceVars
    BY BreakerStep
<1>2. QED
    BY <1>1, SourcesInitInv, SourcesStep, PTL DEF SourcesSpec, BreakerSound

\* Every row that may be read has one in its place, as new and as young.
LEMMA KeepsStep ==
    ASSUME SourcesInv, SourcesNext, UNCHANGED clock, NEW w \in Water
    PROVE  Keeps(w)
<1> SUFFICES ASSUME NEW r \in cache, r.water = w, clock - r.at <= MaxAge
             PROVE  \E s \in cache' : s.water = w /\ s.at >= r.at /\ clock - s.at <= MaxAge
    BY DEF Keeps, Fresh, Rows
<1>0. r.at \in Nat /\ r.at <= clock /\ clock \in Nat
    BY DEF SourcesInv, SourcesTypeOK, RowState, RowsArePast
<1>1. CASE r \in cache'
    BY <1>0, <1>1
<1>2. ASSUME NEW f \in Fetch, Store(f)
      PROVE  \E s \in cache' : s.water = w /\ s.at >= r.at /\ clock - s.at <= MaxAge
    <2>1. CASE fetch[f].water = w
        <3>0. [water |-> w, obs |-> fetch[f].obs, at |-> clock, stale |-> FALSE] \in cache'
            BY <1>2, <2>1 DEF Store
        <3>1. PICK s \in cache' : s.water = w /\ s.at = clock
            BY <3>0
        <3>2. QED
            BY <1>0, <3>1
    <2>2. CASE fetch[f].water # w
        BY <1>1, <1>2, <2>2 DEF Store, Pruned
    <2>3. QED
        BY <2>1, <2>2
<1>3. ASSUME NEW f \in Fetch, Mark(f)
      PROVE  \E s \in cache' : s.water = w /\ s.at >= r.at /\ clock - s.at <= MaxAge
    <2>1. CASE UNCHANGED cache
        BY <1>1, <2>1
    <2>2. ASSUME NEW old \in Rows(fetch[f].water),
                 cache' = (cache \ {old}) \cup {[old EXCEPT !.stale = TRUE]}
          PROVE  \E s \in cache' : s.water = w /\ s.at >= r.at /\ clock - s.at <= MaxAge
        <3>1. CASE r = old
            <4>1. PICK s \in cache' : s = [r EXCEPT !.stale = TRUE]
                BY <2>2, <3>1
            <4>2. s.water = r.water /\ s.at = r.at
                BY <4>1 DEF SourcesInv, SourcesTypeOK, RowState
            <4>3. QED
                BY <1>0, <4>2
        <3>2. CASE r # old
            BY <1>1, <2>2, <3>2
        <3>3. QED
            BY <3>1, <3>2
    <2>3. QED
        BY <1>3, <2>1, <2>2 DEF Mark
<1>4. CASE Prune
    <2>1. PICK limit \in Int : limit = PruneLimit /\ limit >= MaxAge
        BY PruneLimitKeeps
    <2>2. QED
        BY <1>0, <1>1, <1>4, <2>1 DEF Prune
<1>5. CASE UNCHANGED cache
    BY <1>1, <1>5
<1>6. QED
    BY <1>2, <1>3, <1>4, <1>5 DEF SourcesNext, Ask, Hear, Elapses, Changes

\* The rows that stand after a step are led by one that has seen no less than any before.
LEMMA ForwardStep ==
    ASSUME SourcesInv, SourcesInv', SourcesNext, NEW w \in Water, w \notin met'
    PROVE  MovesForward(w)
<1> SUFFICES ASSUME Fresh(w)' # {}
             PROVE  \A r \in Rows(w) : (LatestRow(w)').obs >= r.obs
    BY DEF MovesForward
<1>1. PICK lead : lead = LatestRow(w)'
    OBVIOUS
<1>2. lead \in Rows(w)' /\ \A s \in Rows(w)' : lead.at >= s.at
    <2>1. PICK t \in Rows(w)' : \A s \in Rows(w)' : t.at >= s.at
        BY DEF SourcesInv, LatestStands, Fresh
    <2>2. Rows(w)' \in SUBSET RowState /\ clock' \in Nat
        BY DEF SourcesInv, SourcesTypeOK, Rows
    <2>3. Fresh(w)' = {r \in Rows(w)' : clock' - r.at <= MaxAge}
        BY DEF Fresh
    <2>4. lead = CHOOSE r \in Fresh(w)' : \A s \in Fresh(w)' : r.at >= s.at
        BY <1>1 DEF LatestRow
    <2>5. \A s \in Rows(w)' : s.at \in Nat
        BY <2>2 DEF RowState
    <2>6. t \in Fresh(w)'
        BY <2>1, <2>2, <2>3, <2>5
    <2>7. lead \in Fresh(w)' /\ \A s \in Fresh(w)' : lead.at >= s.at
        BY <2>1, <2>3, <2>4, <2>6
    <2>8. lead.at >= t.at
        BY <2>6, <2>7
    <2>9. QED
        BY <2>1, <2>3, <2>5, <2>7, <2>8
<1>3. w \notin met
    BY DEF SourcesNext, Ask, Hear, Store, Mark, Prune, Elapses, Changes
<1>4. \A s \in Rows(w) : /\ s.at \in Nat /\ s.at <= clock /\ clock \in Nat
                          /\ \A r \in Rows(w) : r.at <= s.at => r.obs <= s.obs
    BY <1>3 DEF SourcesInv, SourcesTypeOK, RowState, RowsArePast, RowsInOrder, Rows
<1>5. SUFFICES ASSUME NEW r \in Rows(w) PROVE lead.obs >= r.obs
    BY <1>1
<1>6. ASSUME NEW s \in Rows(w), s.at = lead.at, s.obs = lead.obs, lead.at >= r.at
      PROVE  lead.obs >= r.obs
    BY <1>4, <1>6 DEF SourcesInv, SourcesTypeOK, RowState, Reading, Rows
<1>7. CASE Rows(w)' = Rows(w)
    BY <1>2, <1>6, <1>7
<1>8. ASSUME NEW f \in Fetch, Store(f)
      PROVE  lead.obs >= r.obs
    <2>1. CASE fetch[f].water # w
        BY <1>7, <1>8, <2>1 DEF Store, Pruned, Rows
    <2>2. CASE fetch[f].water = w
        <3>1. PICK new : new = [water |-> w, obs |-> fetch[f].obs, at |-> clock, stale |-> FALSE]
            OBVIOUS
        <3>2. cache' = {x \in Pruned(w) : x.water # w \/ x.at # clock} \cup {new}
            BY <1>8, <2>2, <3>1 DEF Store
        <3>3. \A x \in Rows(w)' : x = new \/ (x \in Rows(w) /\ x.at < clock)
            BY <1>4, <3>2 DEF Pruned, Rows
        <3>4. new \in Rows(w)' /\ new.at = clock /\ new.obs = fetch[f].obs
            BY <3>1, <3>2 DEF Rows
        <3>5. lead = new
            BY <1>2, <1>4, <3>3, <3>4
        <3>6. r.obs <= fetch[f].obs /\ r.obs \in Nat /\ fetch[f].obs \in Nat
            BY <1>3, <1>8, <2>2
            DEF Store, SourcesInv, SourcesTypeOK, StoresNewest, RowState, FetchState, Reading, Rows
        <3>7. QED
            BY <3>4, <3>5, <3>6
    <2>3. QED
        BY <2>1, <2>2
<1>9. ASSUME NEW f \in Fetch, Mark(f)
      PROVE  lead.obs >= r.obs
    <2>1. CASE UNCHANGED cache
        BY <1>7, <2>1 DEF Rows
    <2>2. ASSUME NEW old \in Rows(fetch[f].water),
                 cache' = (cache \ {old}) \cup {[old EXCEPT !.stale = TRUE]}
          PROVE  lead.obs >= r.obs
        <3>0. LET m == [old EXCEPT !.stale = TRUE] IN
              old \in cache /\ m.water = old.water /\ m.at = old.at /\ m.obs = old.obs
            BY DEF Rows, SourcesInv, SourcesTypeOK, RowState
        <3>1. PICK marked : /\ marked = [old EXCEPT !.stale = TRUE]
                            /\ old \in cache /\ marked.water = old.water
                            /\ marked.at = old.at /\ marked.obs = old.obs
            BY <3>0
        <3>2. cache' = (cache \ {old}) \cup {marked}
            BY <2>2, <3>1
        <3>3. PICK s \in Rows(w) : s.at = lead.at /\ s.obs = lead.obs
            BY <1>2, <3>1, <3>2 DEF Rows
        <3>4. PICK x \in Rows(w)' : x.at = r.at
            BY <3>1, <3>2 DEF Rows
        <3>5. QED
            BY <1>2, <1>6, <3>3, <3>4
    <2>3. QED
        BY <1>9, <2>1, <2>2 DEF Mark
<1>10. CASE Prune
    <2>1. PICK limit \in Int : limit = PruneLimit
        BY PruneLimitKeeps
    <2>2. lead \in Rows(w) /\ clock - lead.at <= limit
        BY <1>2, <1>10, <2>1 DEF Prune, Rows
    <2>3. r \in Rows(w)' \/ clock - r.at > limit
        BY <1>4, <1>10, <2>1 DEF Prune, Rows
    <2>4. lead.at >= r.at
        BY <1>2, <1>4, <2>2, <2>3
    <2>5. QED
        BY <1>6, <2>2, <2>4
<1>11. QED
    BY <1>7, <1>8, <1>9, <1>10 DEF SourcesNext, Ask, Hear, Elapses, Changes, Rows

\* A reading that may still be used is neither lost nor replaced by an older one, by a
\* failed fetch, a write or the nightly prune, until two fetches for one water overlap
\* (cache.py).  For any limits and any number of waters and fetches.
THEOREM ReadingsAreServed == SourcesSpec => ReadingsServed
<1>1. SourcesInv /\ SourcesInv' /\ [SourcesNext]_sourceVars => [\A w \in Water : Serves(w)]_sourceVars
    BY KeepsStep, ForwardStep DEF Serves
<1>2. QED
    BY <1>1, SourcesInitInv, SourcesStep, PTL DEF SourcesSpec, ReadingsServed
=============================================================================
