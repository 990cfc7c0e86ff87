---------------------------- MODULE EmergencyRules ----------------------------
(***************************************************************************)
(* WDFW's emergency rules as data: how a rule page is read, which water a  *)
(* rule names, which closures a later rule lifts, and what the readers do  *)
(* with a rule on a trip (conditions/wdfw_emergency.py,                    *)
(* conditions/wdfw_advisories.py, the pure parts of scheduler.py and       *)
(* context_builder.py).  No state.                                         *)
(*                                                                         *)
(* A text is the set of names found in it as whole phrases, with the       *)
(* county it gives.  An optional value is a set of at most one element.    *)
(***************************************************************************)
EXTENDS Integers, Sequences, SequencesExt, FiniteSets

Text(names, county) == [names |-> names, county |-> county]
Nowhere == Text({}, {})

\* a calendar day as a number that keeps the order of days
DayOf(y, m, d) == y * 372 + (m - 1) * 31 + d

-----------------------------------------------------------------------------
(* Reading a rule page *)

\* _parse_effective_field: f.form is the pattern that matches first.  A range that states
\* its year at the end only, and starts in a later month, starts the year before
StartYear(f) == IF f.y1 # {} THEN CHOOSE y \in f.y1 : TRUE ELSE IF f.m1 > f.m2 THEN f.y2 - 1 ELSE f.y2

EffectiveField(f, posted) ==
    CASE f.form = "two months" -> <<{DayOf(StartYear(f), f.m1, f.d1)}, {DayOf(f.y2, f.m2, f.d2)}>>
      [] f.form = "one month"  -> <<{DayOf(f.y2, f.m2, f.d1)}, {DayOf(f.y2, f.m2, f.d2)}>>
      [] OTHER                 -> <<IF f.from # {} THEN f.from ELSE IF f.immediately THEN posted ELSE {}, f.through>>

\* faulty variant: a range within one year only
ItemDatesInYear(i, year) ==
    LET y == IF i.y2 # {} THEN i.y2 ELSE IF i.y1 # {} THEN i.y1 ELSE {year}
        yr == CHOOSE x \in y : TRUE
        start == DayOf(yr, i.m1, i.d1)
    IN  <<start, IF i.m2 = {} THEN start ELSE DayOf(yr, CHOOSE x \in i.m2 : TRUE, i.d2)>>

\* item_dates: the days a stretch rule begins with; m2 is {} for a single day
ItemDates(i, year) ==
    LET pick(opt, else) == IF opt = {} THEN else ELSE CHOOSE x \in opt : TRUE
        m2 == pick(i.m2, i.m1)
        yEnd == pick(i.y2, pick(i.y1, year))
        yStart == pick(i.y1, IF m2 < i.m1 THEN yEnd - 1 ELSE yEnd)
        start == DayOf(yStart, i.m1, i.d1)
    IN  <<start, IF i.m2 = {} THEN start ELSE DayOf(yEnd, m2, i.d2)>>

\* parse_rule_body: a block is a bullet or a paragraph of some kind.  A bullet belongs to the
\* section that is open, and to none after "Additional information", which a footer ends
Section(heading) == [heading |-> heading, items |-> <<>>]
Body == [sections |-> <<>>, notes |-> <<>>, open |-> FALSE, mode |-> "body"]

Opened(b, section) == [b EXCEPT !.open = TRUE, !.sections = Append(@, section)]

\* faulty variant: a paragraph in between does not close the section
BulletRead(b, n) ==
    IF b.sections # <<>> THEN [b EXCEPT !.sections[Len(b.sections)].items = Append(@, n)]
    ELSE Opened(b, [Section({}) EXCEPT !.items = <<n>>])

Bullet(b, n) ==
    IF b.open THEN [b EXCEPT !.sections[Len(b.sections)].items = Append(@, n)]
    ELSE Opened(b, [Section({}) EXCEPT !.items = <<n>>])

BlockRead(b, block) ==
    IF b.mode = "end" THEN b
    ELSE IF block.kind = "bullet" THEN (IF b.mode = "body" THEN Bullet(b, block.n) ELSE b)
    ELSE IF block.kind = "additional" THEN [b EXCEPT !.mode = "notes", !.notes = Append(@, block.n)]
    ELSE IF block.kind = "footer" /\ b.mode = "notes" THEN [b EXCEPT !.mode = "end"]
    ELSE IF b.mode = "notes" THEN [b EXCEPT !.notes = Append(@, block.n)]
    ELSE IF block.kind = "heading" THEN Opened(b, Section({block.n}))
    ELSE IF block.kind = "rule" THEN Opened(b, [Section({block.n}) EXCEPT !.items = <<block.n>>])
    ELSE [b EXCEPT !.open = FALSE]

RuleBody(blocks) ==
    LET b == FoldLeft(BlockRead, Body, blocks)
    IN  [sections |-> SelectSeq(b.sections, LAMBDA s : s.items # <<>>), notes |-> b.notes]

-----------------------------------------------------------------------------
(* Which water a rule names *)

\* water_phrases: a stocking code counts in its plain form, a name in brackets never
WaterPhrases(w) == {n.phrase : n \in {m \in w.names : ~m.bracketed}}

First(a, b) == IF a # {} THEN a ELSE b
RuleCounty(rule) == First(rule.title.county, rule.location.county)

\* rule_match_texts: the title, the head of the location, the head of each stretch heading
\* and each bullet of a list of locations; never the text with its landmarks
MatchTexts(rule) ==
    LET in(text) == Text(text.names, RuleCounty(rule))
        of(section) == <<in(section.head)>> \o
            (IF section.list
             THEN [k \in DOMAIN section.items |->
                      Text(section.items[k].names, First(section.items[k].county, RuleCounty(rule)))]
             ELSE <<>>)
    IN  <<in(rule.title), in(rule.location)>> \o FlattenSeq([k \in DOMAIN rule.details |-> of(rule.details[k])])

\* faulty variant: a name counts in any county
CountyIgnored(ruleCounty, county) == FALSE

CountyConflicts(ruleCounty, county) == ruleCounty # {} /\ county # {} /\ ruleCounty # county

NamesWater(rule, w) ==
    \E k \in DOMAIN MatchTexts(rule) :
        LET text == MatchTexts(rule)[k]
        IN  ~CountyConflicts(text.county, w.county) /\ WaterPhrases(w) \cap text.names # {}

\* _resolve_water_body_id: the first text that names a water, and in it the longest name
Resolve(rule, waters, longest) ==
    LET fits(k, p) == {w \in waters : /\ p \in WaterPhrases(w) \cap MatchTexts(rule)[k].names
                                      /\ ~CountyConflicts(MatchTexts(rule)[k].county, w.county)}
        ks == {k \in DOMAIN MatchTexts(rule) : \E p \in ToSet(longest) : fits(k, p) # {}}
    IN  IF ks = {} THEN {}
        ELSE LET k == CHOOSE x \in ks : \A y \in ks : x <= y
                 js == {j \in DOMAIN longest : fits(k, longest[j]) # {}}
                 j == CHOOSE x \in js : \A y \in js : x <= y
             IN  {CHOOSE w \in fits(k, longest[j]) : TRUE}

RuleApplies(row, w) ==
    /\ ~CountyConflicts(RuleCounty(row), w.county)
    /\ row.fk = {w} \/ NamesWater(row, w)

\* section_names_other_water: a heading without a water in it names none
NamesOther(section, w) == section.head.names # {} /\ section.head.names \cap WaterPhrases(w) = {}

-----------------------------------------------------------------------------
(* Closures *)

LaterThan(a, b) == b # {} /\ a # {} /\ (CHOOSE x \in a : TRUE) > (CHOOSE x \in b : TRUE)

\* faulty variant: rules supersede each other by what they do, whatever the water
SupersededAnywhere(r, rows) == \E o \in rows \ {r} : o.action = "reopens" /\ LaterThan(o.eff, r.eff)

\* the key by which two rules are about the same water
WaterKey(row) == IF row.fk # {} THEN row.fk ELSE row.location.names

\* _apply_supersession: a dated closure that a later rule for the same water lifts
Superseded(r, rows) ==
    /\ WaterKey(r) # {}
    /\ \E o \in rows \ {r} : WaterKey(o) = WaterKey(r) /\ o.action = "reopens" /\ LaterThan(o.eff, r.eff)

Supersede(rows) == {[r EXCEPT !.closes = @ /\ ~Superseded(r, rows)] : r \in rows}

InEffect(row, day) == (\A e \in row.eff : e <= day) /\ (\A e \in row.exp : e >= day)
Overlaps(row, start, end) == (\A e \in row.eff : e <= end) /\ (\A e \in row.exp : e >= start)

\* _has_active_closure on the first day of the trip
HasActiveClosure(rows, w, day) == \E r \in rows : r.closes /\ InEffect(r, day) /\ RuleApplies(r, w)

-----------------------------------------------------------------------------
(* Advisories *)

MaxRules == 3

Headings(row) == {row.details[k].head : k \in DOMAIN row.details} \ {Nowhere}

\* faulty variant: a closure is the hard filter's, whenever it starts
NamedNoClosure(rows, w, start, end) ==
    {r \in rows : /\ Overlaps(r, start, end) /\ RuleApplies(r, w)
                  /\ r.action # "none" \/ r.details # <<>>
                  /\ ~r.saysClosed}

\* the rules that are told: neither empty, nor lifted, nor the hard filter's
Named(rows, w, start, end) ==
    {r \in rows : /\ Overlaps(r, start, end) /\ RuleApplies(r, w)
                  /\ r.action # "none" \/ r.details # <<>>
                  /\ r.saysClosed => r.closes
                  /\ ~(r.closes /\ InEffect(r, start))}

\* newest first, without what a newer one restates, at most MaxRules
Newest(rows) ==
    LET at(r) == IF r.eff = {} THEN 0 ELSE CHOOSE x \in r.eff : TRUE
    IN  SetToSortSeq(rows, LAMBDA a, b : at(a) > at(b) \/ (at(a) = at(b) /\ a.id < b.id))

DropRestated(list) ==
    FoldLeft(LAMBDA kept, r : IF Headings(r) # {} /\ \E k \in DOMAIN kept : Headings(r) \subseteq Headings(kept[k])
                              THEN kept ELSE Append(kept, r), <<>>, list)

AdvisoryRules(rows, w, start, end) ==
    LET kept == DropRestated(Newest(Named(rows, w, start, end)))
    IN  SubSeq(kept, 1, IF Len(kept) < MaxRules THEN Len(kept) ELSE MaxRules)

-----------------------------------------------------------------------------
(* What the reading of a page promises, over bounded pages *)

\* a range dated at its end is the last such range before it, for the field and for a bullet
DatesAgree ==
    \A m1, m2 \in {1, 6, 12}, d1, d2 \in {1, 31}, y \in {1, 2} :
        m1 # m2 \/ d1 <= d2 =>
            LET start == IF DayOf(y, m1, d1) <= DayOf(y, m2, d2) THEN DayOf(y, m1, d1) ELSE DayOf(y - 1, m1, d1)
            IN  /\ EffectiveField([form |-> "two months", m1 |-> m1, d1 |-> d1, y1 |-> {}, m2 |-> m2, d2 |-> d2,
                                   y2 |-> y], {}) = <<{start}, {DayOf(y, m2, d2)}>>
                /\ ItemDates([m1 |-> m1, d1 |-> d1, y1 |-> {}, m2 |-> {m2}, d2 |-> d2, y2 |-> {y}], y)
                       = <<start, DayOf(y, m2, d2)>>

Kinds == {"bullet", "heading", "rule", "text", "additional", "footer"}
LastOf(ks) == IF ks = {} THEN 0 ELSE CHOOSE k \in ks : \A o \in ks : o <= k

\* each bullet of the body is filed once, in order, under the heading right before its list
BulletsFiled ==
    \A kinds \in SeqOf(Kinds, 4) :
        LET body == {k \in DOMAIN kinds : \A j \in 1..k : kinds[j] # "additional"}
            sections == RuleBody([k \in DOMAIN kinds |-> [kind |-> kinds[k], n |-> k]]).sections
            above(k) == LastOf({j \in 1..k - 1 : kinds[j] # "bullet"})
        IN  /\ FlattenSeq([s \in DOMAIN sections |-> sections[s].items])
                   = SelectSeq([k \in DOMAIN kinds |-> k], LAMBDA k : k \in body /\ kinds[k] \in {"bullet", "rule"})
            /\ \A s \in DOMAIN sections : \A k \in ToSet(sections[s].items) :
                   kinds[k] = "bullet" =>
                       sections[s].heading = {above(k)} \cap {j \in DOMAIN kinds : kinds[j] \in {"heading", "rule"}}
=============================================================================
