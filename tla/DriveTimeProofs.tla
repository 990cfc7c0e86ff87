--------------------------- MODULE DriveTimeProofs ---------------------------
(***************************************************************************)
(* The two ways a drive time is had.  The HERE cap, for any number of      *)
(* workers, any cap and any request size: the induction rests on two facts *)
(* about a task inside its transaction, that it holds the row lock, so what*)
(* it read is still the committed count, and that what it is about to add  *)
(* fits under the cap.  Then the search behind the estimates, for any      *)
(* network, boats, passes and access points: they are the shortest drives  *)
(* of the day.                                                             *)
(***************************************************************************)
EXTENDS HereBudget, RoadNetwork, TLAPS, FiniteSetTheorems, SequenceTheorems, WellFoundedInduction

-----------------------------------------------------------------------------
(* The HERE cap *)

\* A task that has counted its grant stays under the cap with it (_grant).
CountedFits ==
    \A t \in Task : task[t].pc = "counted" => task[t].used + task[t].left <= Cap

IInv == TypeOK /\ LockedReadIsCurrent /\ GrantsAreCounted /\ CountedFits

\* _grant never hands out more than was asked, and never past the cap.
LEMMA GrantBounds ==
    ASSUME NEW used \in 0..Cap, NEW n \in 0..MaxAsk
    PROVE  /\ Grant(used, n) \in 0..MaxAsk
           /\ used + Grant(used, n) <= Cap
    BY BudgetAssumption DEF Grant

LEMMA InitInv == Init => IInv
    BY BudgetAssumption
    DEF Init, IInv, TypeOK, LockedReadIsCurrent, GrantsAreCounted, CountedFits,
        Holds, Charged, Idle, TaskState, Month, NoRow

\* A task that is not in its critical section constrains nothing: the two
\* conjuncts about holders survive a step that moves only such a task and
\* leaves the committed counts and the others' locks alone.
LEMMA OutsideTransaction ==
    ASSUME LockedReadIsCurrent, CountedFits, UNCHANGED counter,
           \A u \in Task : Holds(u)' =>
               /\ Holds(u) /\ task'[u] = task[u]
               /\ holder'[task[u].period] = holder[task[u].period]
    PROVE  LockedReadIsCurrent' /\ CountedFits'
<1>1. LockedReadIsCurrent'
    BY DEF LockedReadIsCurrent
<1>2. CountedFits'
    BY DEF CountedFits, Holds
<1>3. QED
    BY <1>1, <1>2

\* The end of a transaction that counted its grant, whoever learns of it.
LEMMA CommittedKeepsInv ==
    ASSUME IInv, NEW t \in Task, Committed(t),
           task'[t].pc \in {"paid", "idle"},
           \A u \in Task \ {t} : task'[u] = task[u]
    PROVE  /\ counter' \in [Month -> {NoRow} \cup 0..Cap]
           /\ holder' \in [Month -> Task \cup {NoTask}]
           /\ LockedReadIsCurrent' /\ CountedFits'
           /\ \A m \in Month : Charged(m)' =
                 Charged(m) + (IF m = task[t].period THEN task[t].left ELSE 0)
<1> DEFINE p == task[t].period
<1>a. /\ task[t].pc = "counted"
      /\ p \in Month /\ task[t].used \in 0..Cap /\ task[t].left \in 0..MaxAsk
    BY DEF IInv, TypeOK, TaskState, Committed
<1>b. /\ holder[p] = t
      /\ counter[p] \in {task[t].used, NoRow}
      /\ counter[p] = NoRow => task[t].used = 0
    BY <1>a DEF IInv, LockedReadIsCurrent, Holds
<1>c. task[t].used + task[t].left \in 0..Cap
    BY <1>a, BudgetAssumption DEF IInv, CountedFits
<1>1. /\ task[t].pc = "counted"
      /\ p \in Month /\ task[t].used \in 0..Cap /\ task[t].left \in 0..MaxAsk
      /\ holder[p] = t
      /\ counter[p] \in {task[t].used, NoRow}
      /\ counter[p] = NoRow => task[t].used = 0
      /\ task[t].used + task[t].left \in 0..Cap
      /\ counter' = [counter EXCEPT ![p] = task[t].used + task[t].left]
      /\ holder' = [holder EXCEPT ![p] = NoTask]
    BY <1>a, <1>b, <1>c DEF Committed, Release
<1>2. /\ counter' \in [Month -> {NoRow} \cup 0..Cap]
      /\ holder' \in [Month -> Task \cup {NoTask}]
    BY <1>1 DEF IInv, TypeOK
<1>3. \A u \in Task : Holds(u)' =>
          /\ u # t /\ Holds(u) /\ task'[u] = task[u]
          /\ task[u].period # p
    BY <1>1, BudgetAssumption DEF Holds, IInv, LockedReadIsCurrent
<1>4. LockedReadIsCurrent'
    BY <1>1, <1>3 DEF LockedReadIsCurrent, IInv, TypeOK, TaskState
<1>5. CountedFits'
    BY <1>3 DEF CountedFits, Holds, IInv
<1>6. \A m \in Month : Charged(m)' =
          Charged(m) + (IF m = p THEN task[t].left ELSE 0)
    BY <1>1, BudgetAssumption DEF Charged, IInv, TypeOK, NoRow
<1>7. QED
    BY <1>2, <1>4, <1>5, <1>6

LEMMA StepInv == IInv /\ [Next]_vars => IInv'
<1> SUFFICES ASSUME IInv, [Next]_vars PROVE IInv'
    OBVIOUS
<1>0. /\ TypeOK /\ LockedReadIsCurrent /\ GrantsAreCounted /\ CountedFits
      /\ \A t \in Task : task[t] \in TaskState
      /\ Month \subseteq Int
    BY DEF IInv, TypeOK, Month
<1>1. CASE Rollover
    <2>1. TypeOK'
        BY <1>0, <1>1, BudgetAssumption DEF TypeOK, Rollover, Month
    <2>2. LockedReadIsCurrent' /\ CountedFits'
        BY <1>0, <1>1, OutsideTransaction DEF Rollover, Holds
    <2>3. QED
        BY <1>0, <1>1, <2>1, <2>2 DEF Rollover, IInv, GrantsAreCounted, Charged
<1>2. ASSUME NEW t \in Task, NEW n \in 1..MaxAsk, Reserve(t, n) PROVE IInv'
    <2>0. Idle \in TaskState /\ month \in Month /\ n \in 0..MaxAsk
        BY <1>0, BudgetAssumption DEF TypeOK, TaskState, Idle, Month
    <2>1. [Idle EXCEPT !.pc = "open", !.period = month, !.ask = n] \in TaskState
        BY <2>0 DEF TaskState
    <2>2. TypeOK'
        BY <1>0, <1>2, <2>1 DEF TypeOK, Reserve
    <2>3. LockedReadIsCurrent' /\ CountedFits'
        BY <1>0, <1>2, OutsideTransaction DEF Reserve, Idle, TypeOK, Holds
    <2>4. QED
        BY <1>0, <1>2, <2>2, <2>3 DEF Reserve, IInv, GrantsAreCounted, Charged
<1>3. ASSUME NEW t \in Task, EnsureRow(t) PROVE IInv'
    <2>1. TypeOK'
        BY <1>0, <1>3 DEF TypeOK, EnsureRow, TaskState
    <2>2. LockedReadIsCurrent' /\ CountedFits'
        BY <1>0, <1>3, OutsideTransaction, BudgetAssumption
        DEF EnsureRow, TypeOK, Holds, LockedReadIsCurrent, TaskState
    <2>3. QED
        BY <1>0, <1>3, <2>1, <2>2 DEF EnsureRow, IInv, GrantsAreCounted, Charged
<1>4. ASSUME NEW t \in Task, LockRow(t) PROVE IInv'
    <2>0. task[t].period \in Month /\ counter[task[t].period] \in {NoRow} \cup 0..Cap
        BY <1>0 DEF TypeOK, TaskState
    <2>1. Charged(task[t].period) \in 0..Cap
        BY <2>0, BudgetAssumption DEF Charged, NoRow
    <2>2. TypeOK'
        BY <1>0, <1>4, <2>1 DEF TypeOK, LockRow, TaskState
    <2>3. LockedReadIsCurrent'
        <3> SUFFICES ASSUME NEW u \in Task, Holds(u)'
                     PROVE  /\ holder'[task'[u].period] = u
                            /\ counter'[task'[u].period] \in {task'[u].used, NoRow}
                            /\ counter'[task'[u].period] = NoRow => task'[u].used = 0
            BY DEF LockedReadIsCurrent
        <3>1. CASE u = t
            BY <1>0, <1>4, <3>1 DEF LockRow, TypeOK, TaskState, Charged
        <3>2. CASE u # t
            BY <1>0, <1>4, <3>2, BudgetAssumption
            DEF LockRow, TypeOK, TaskState, LockedReadIsCurrent, Holds
        <3>3. QED
            BY <3>1, <3>2
    <2>4. CountedFits'
        BY <1>0, <1>4 DEF LockRow, CountedFits, TypeOK
    <2>5. QED
        BY <1>0, <1>4, <2>2, <2>3, <2>4 DEF LockRow, IInv, GrantsAreCounted, Charged
<1>5. ASSUME NEW t \in Task, Count(t) PROVE IInv'
    <2>1. /\ Grant(task[t].used, task[t].ask) \in 0..MaxAsk
          /\ task[t].used + Grant(task[t].used, task[t].ask) <= Cap
        BY <1>0, GrantBounds DEF TaskState
    <2>2. TypeOK'
        BY <1>0, <1>5, <2>1 DEF Count, TypeOK, TaskState
    <2>3. LockedReadIsCurrent'
        BY <1>0, <1>5 DEF Count, TypeOK, TaskState, LockedReadIsCurrent, Holds
    <2>4. CountedFits'
        BY <1>0, <1>5, <2>1 DEF Count, TypeOK, TaskState, CountedFits
    <2>5. QED
        BY <1>0, <1>5, <2>2, <2>3, <2>4 DEF Count, IInv, GrantsAreCounted, Charged
<1>6. ASSUME NEW t \in Task, Commit(t) PROVE IInv'
    <2>1. /\ task'[t].pc = "paid" /\ task' \in [Task -> TaskState]
          /\ \A u \in Task \ {t} : task'[u] = task[u]
          /\ Committed(t)
        BY <1>0, <1>6 DEF Commit, TypeOK, TaskState
    <2>2. /\ counter' \in [Month -> {NoRow} \cup 0..Cap]
          /\ holder' \in [Month -> Task \cup {NoTask}]
          /\ LockedReadIsCurrent' /\ CountedFits'
          /\ \A m \in Month : Charged(m)' =
                 Charged(m) + (IF m = task[t].period THEN task[t].left ELSE 0)
        BY <2>1, CommittedKeepsInv
    <2>3. granted' \in [Month -> Nat]
        BY <1>0, <1>6 DEF Commit, TypeOK, TaskState
    <2>4. TypeOK'
        BY <1>0, <1>6, <2>1, <2>2, <2>3 DEF Commit, TypeOK
    <2>5. GrantsAreCounted'
        BY <1>0, <1>6, <2>2, BudgetAssumption
        DEF Commit, GrantsAreCounted, TypeOK, TaskState, Charged, NoRow
    <2>6. QED
        BY <2>2, <2>4, <2>5 DEF IInv
<1>7. ASSUME NEW t \in Task, CommitUnseen(t) PROVE IInv'
    <2>1. /\ task'[t].pc = "idle" /\ task' \in [Task -> TaskState]
          /\ \A u \in Task \ {t} : task'[u] = task[u]
          /\ Committed(t)
        BY <1>0, <1>7, BudgetAssumption DEF CommitUnseen, TypeOK, TaskState, Idle, Month
    <2>2. /\ counter' \in [Month -> {NoRow} \cup 0..Cap]
          /\ holder' \in [Month -> Task \cup {NoTask}]
          /\ LockedReadIsCurrent' /\ CountedFits'
          /\ \A m \in Month : Charged(m)' =
                 Charged(m) + (IF m = task[t].period THEN task[t].left ELSE 0)
        BY <2>1, CommittedKeepsInv
    <2>3. TypeOK'
        BY <1>0, <1>7, <2>1, <2>2 DEF CommitUnseen, TypeOK
    <2>4. GrantsAreCounted'
        BY <1>0, <1>7, <2>2, BudgetAssumption
        DEF CommitUnseen, GrantsAreCounted, TypeOK, TaskState, Charged, NoRow
    <2>5. QED
        BY <2>2, <2>3, <2>4 DEF IInv
<1>8. ASSUME NEW t \in Task, Fail(t) PROVE IInv'
    <2>1. Idle \in TaskState
        BY BudgetAssumption DEF Idle, TaskState, Month
    <2>2. TypeOK'
        BY <1>0, <1>8, <2>1 DEF Fail, Release, TypeOK, TaskState
    <2>3. LockedReadIsCurrent' /\ CountedFits'
        BY <1>0, <1>8, OutsideTransaction, BudgetAssumption
        DEF Fail, Release, Idle, TypeOK, TaskState, Holds, LockedReadIsCurrent
    <2>4. QED
        BY <1>0, <1>8, <2>2, <2>3 DEF Fail, IInv, GrantsAreCounted, Charged
<1>9. ASSUME NEW t \in Task, CallHere(t) PROVE IInv'
    <2>0. task[t].left - 1 \in 0..MaxAsk
        BY <1>0, <1>9, BudgetAssumption DEF CallHere, TaskState
    <2>a. [task[t] EXCEPT !.left = @ - 1] \in TaskState
        BY <1>0, <2>0 DEF TaskState
    <2>b. billed' \in [Month -> Nat]
        BY <1>0, <1>9 DEF CallHere, TypeOK
    <2>1. TypeOK'
        BY <1>0, <1>9, <2>a, <2>b DEF CallHere, TypeOK
    <2>2. LockedReadIsCurrent' /\ CountedFits'
        BY <1>0, <1>9, OutsideTransaction DEF CallHere, TypeOK, Holds
    <2>3. QED
        BY <1>0, <1>9, <2>1, <2>2 DEF CallHere, IInv, GrantsAreCounted, Charged
<1>10. ASSUME NEW t \in Task, Finish(t) PROVE IInv'
    <2>1. Idle \in TaskState
        BY BudgetAssumption DEF Idle, TaskState, Month
    <2>2. TypeOK'
        BY <1>0, <1>10, <2>1 DEF Finish, TypeOK
    <2>3. LockedReadIsCurrent' /\ CountedFits'
        BY <1>0, <1>10, OutsideTransaction DEF Finish, Idle, TypeOK, Holds
    <2>4. QED
        BY <1>0, <1>10, <2>2, <2>3 DEF Finish, IInv, GrantsAreCounted, Charged
<1>11. CASE UNCHANGED vars
    BY <1>0, <1>11
    DEF vars, IInv, TypeOK, LockedReadIsCurrent, GrantsAreCounted, CountedFits, Holds, Charged
<1>12. QED
    BY <1>1, <1>2, <1>3, <1>4, <1>5, <1>6, <1>7, <1>8, <1>9, <1>10, <1>11 DEF Next

LEMMA Invariance == Spec => []IInv
<1>1. QED
    BY InitInv, StepInv, PTL DEF Spec

\* Every state of the budget is well typed.
THEOREM TypeCorrect == Spec => []TypeOK
    BY Invariance, PTL DEF IInv

\* Per month, reserve() never promises more than the cap, for any number of
\* workers and whatever fails.
THEOREM CapHolds == Spec => []GrantedWithinCap
<1>1. ASSUME IInv, NEW m \in Month PROVE granted[m] <= Cap
    <2>1. /\ counter[m] \in {NoRow} \cup 0..Cap /\ granted[m] \in Nat
          /\ granted[m] <= Charged(m)
        BY <1>1 DEF IInv, TypeOK, GrantsAreCounted
    <2>2. QED
        BY <2>1, BudgetAssumption DEF Charged, NoRow
<1>2. IInv => GrantedWithinCap
    BY <1>1 DEF GrantedWithinCap
<1>3. QED
    BY <1>2, Invariance, PTL

\* Every grant reserve() returned is in the committed counter.
THEOREM CountCovers == Spec => []GrantsAreCounted
    BY Invariance, PTL DEF IInv

\* The row lock makes the read of `used` stay current until the commit.
THEOREM LockProtectsRead == Spec => []LockedReadIsCurrent
    BY Invariance, PTL DEF IInv

\* What one step does to the counters: nothing, or one draw within the cap.
LEMMA StepDraws ==
    ASSUME IInv, Next
    PROVE  \/ UNCHANGED counter
           \/ \E t \in Task :
                 LET m == task[t].period IN
                 /\ task[t].pc = "counted"
                 /\ counter' = [counter EXCEPT ![m] = task[t].used + task[t].left]
    BY DEF Next, Rollover, Reserve, EnsureRow, LockRow, Count, Commit, CommitUnseen,
           Committed, Fail, CallHere, Finish

\* A committed count never decreases.
THEOREM Monotone == Spec => CountersOnlyGrow
<1>1. IInv /\ [Next]_vars => [\A m \in Month : counter'[m] >= counter[m]]_vars
    <2> SUFFICES ASSUME IInv, Next PROVE \A m \in Month : counter'[m] >= counter[m]
        BY DEF vars
    <2>1. CASE UNCHANGED counter
        BY <2>1 DEF IInv, TypeOK, Month, NoRow
    <2>2. ASSUME NEW t \in Task, task[t].pc = "counted",
                 counter' = [counter EXCEPT ![task[t].period] = task[t].used + task[t].left]
          PROVE  \A m \in Month : counter'[m] >= counter[m]
        <3> DEFINE p == task[t].period
        <3>1. /\ p \in Month /\ task[t].used \in 0..Cap /\ task[t].left \in 0..MaxAsk
              /\ counter \in [Month -> {NoRow} \cup 0..Cap]
            BY DEF IInv, TypeOK, TaskState
        <3>2. counter[p] \in {task[t].used, NoRow}
            BY <2>2 DEF IInv, LockedReadIsCurrent, Holds
        <3>3. TAKE m \in Month
        <3>4. CASE m = p
            BY <2>2, <3>1, <3>2, <3>4, BudgetAssumption DEF NoRow
        <3>5. CASE m # p
            BY <2>2, <3>1, <3>5, BudgetAssumption DEF NoRow
        <3>6. QED
            BY <3>4, <3>5
    <2>3. QED
        BY <2>1, <2>2, StepDraws
<1>2. QED
    BY <1>1, Invariance, PTL DEF Spec, CountersOnlyGrow

\* The transactional counter implements the plain monthly allowance.
THEOREM Refinement == Spec => ImplementsAllowance
<1> DEFINE drawn == [m \in Month |-> Charged(m)]
<1>1. Init => Allowance!Init
    BY BudgetAssumption DEF Init, Allowance!Init, Charged, Month, NoRow
<1>2. IInv /\ [Next]_vars => [Allowance!Next]_drawn
    <2> SUFFICES ASSUME IInv, [Next]_vars PROVE [Allowance!Next]_drawn
        OBVIOUS
    <2>1. CASE UNCHANGED counter
        BY <2>1 DEF Charged
    <2>2. ASSUME NEW t \in Task, task[t].pc = "counted",
                 counter' = [counter EXCEPT ![task[t].period] = task[t].used + task[t].left]
          PROVE  Allowance!Next
        <3> DEFINE m == task[t].period
                   k == task[t].left
        <3>1. /\ m \in Month
              /\ k \in 0..Cap
              /\ Charged(m) = task[t].used
              /\ task[t].used + k <= Cap
              /\ task[t].used \in 0..Cap
              /\ counter \in [Month -> {NoRow} \cup 0..Cap]
            BY <2>2, BudgetAssumption
            DEF IInv, TypeOK, LockedReadIsCurrent, CountedFits, Holds, Charged,
                TaskState, Month, NoRow
        <3>a. counter' = [counter EXCEPT ![m] = task[t].used + k]
            BY <2>2
        <3>b. \A n \in Month : Charged(n)' = IF n = m THEN task[t].used + k ELSE Charged(n)
            BY <3>1, <3>a, BudgetAssumption DEF Charged, NoRow
        <3>2. drawn' = [drawn EXCEPT ![m] = @ + k]
            BY <3>1, <3>b
        <3>3. Allowance!Draw(m, k)
            BY <3>1, <3>2 DEF Allowance!Draw
        <3>4. QED
            BY <3>1, <3>3 DEF Allowance!Next
    <2>3. CASE UNCHANGED vars
        BY <2>3 DEF vars, Charged
    <2>4. QED
        BY <2>1, <2>2, <2>3, StepDraws DEF Allowance!Next
<1>3. QED
    BY <1>1, <1>2, Invariance, PTL DEF Spec, ImplementsAllowance, Allowance!Spec
-----------------------------------------------------------------------------
\* The bill.  Its bound is a sum over the tasks, which the provers cannot take
\* as a recursive function; a function of the tasks is summed by counting the
\* pairs below its graph.
Boxes(f) == {x \in Task \X (1..MaxAsk) : x[2] <= f[x[1]]}

Total(f) == Cardinality(Boxes(f))

LEMMA TotalBounds ==
    ASSUME NEW f
    PROVE  /\ IsFiniteSet(Boxes(f))
           /\ Cardinality(Task) \in Nat
           /\ MaxAsk * Cardinality(Task) \in Nat
           /\ Total(f) \in Nat
           /\ Total(f) <= MaxAsk * Cardinality(Task)
<1> DEFINE All == Task \X (1..MaxAsk)
<1>1. IsFiniteSet(1..MaxAsk) /\ Cardinality(1..MaxAsk) = MaxAsk
    BY FS_Interval, BudgetAssumption
<1>2. IsFiniteSet(All) /\ Cardinality(All) = Cardinality(Task) * Cardinality(1..MaxAsk)
    BY <1>1, FS_Product, BudgetAssumption
<1>3. Cardinality(Task) \in Nat
    BY FS_CardinalityType, BudgetAssumption
<1>4. MaxAsk * Cardinality(Task) \in Nat /\ Cardinality(All) = MaxAsk * Cardinality(Task)
    BY <1>1, <1>2, <1>3, BudgetAssumption
<1>5. Boxes(f) \in SUBSET All
    BY DEF Boxes
<1>6. IsFiniteSet(Boxes(f)) /\ Cardinality(Boxes(f)) <= Cardinality(All)
    BY <1>2, <1>5, FS_Subset
<1>7. QED
    BY <1>3, <1>4, <1>6, FS_CardinalityType DEF Total

LEMMA TotalMonotone ==
    ASSUME NEW f \in [Task -> Nat], NEW g \in [Task -> Nat],
           \A t \in Task : f[t] <= g[t]
    PROVE  Total(f) <= Total(g)
<1>1. Boxes(f) \in SUBSET Boxes(g)
    BY DEF Boxes
<1>2. QED
    BY <1>1, FS_Subset, TotalBounds DEF Total

LEMMA TotalSpend ==
    ASSUME NEW f \in [Task -> 0..MaxAsk], NEW t \in Task, f[t] > 0,
           NEW g, g = [f EXCEPT ![t] = f[t] - 1]
    PROVE  Total(g) = Total(f) - 1
<1> DEFINE top == <<t, f[t]>>
<1>1. f[t] \in 1..MaxAsk /\ top \in Task \X (1..MaxAsk)
    BY BudgetAssumption
<1>2. top \in Boxes(f)
    BY <1>1 DEF Boxes
<1>3. ASSUME NEW x \in Task \X (1..MaxAsk)
      PROVE  x \in Boxes(g) <=> x \in Boxes(f) /\ x # top
    <2>1. PICK u \in Task, i \in 1..MaxAsk : x = <<u, i>>
        BY <1>3
    <2>2. CASE u = t
        BY <1>1, <2>1, <2>2, BudgetAssumption DEF Boxes
    <2>3. CASE u # t
        BY <2>1, <2>3 DEF Boxes
    <2>4. QED
        BY <2>2, <2>3
<1>4. Boxes(g) = Boxes(f) \ {top}
    BY <1>3 DEF Boxes
<1>5. QED
    BY <1>2, <1>4, FS_RemoveElement, TotalBounds DEF Total

LEMMA TotalGrant ==
    ASSUME NEW f \in [Task -> 0..MaxAsk], NEW t \in Task, f[t] = 0,
           NEW k \in 0..MaxAsk, NEW g, g = [f EXCEPT ![t] = k]
    PROVE  Total(g) <= Total(f) + k
<1> DEFINE new == {t} \X (1..k)
<1>1. IsFiniteSet(new) /\ Cardinality(new) = k
    <2>1. IsFiniteSet(1..k) /\ Cardinality(1..k) = k
        BY FS_Interval, BudgetAssumption
    <2>2. IsFiniteSet({t}) /\ Cardinality({t}) = 1
        BY FS_Singleton
    <2>3. IsFiniteSet(new) /\ Cardinality(new) = Cardinality({t}) * Cardinality(1..k)
        BY <2>1, <2>2, FS_Product
    <2>4. QED
        BY <2>1, <2>2, <2>3, BudgetAssumption
<1>2. Boxes(g) \in SUBSET (Boxes(f) \cup new)
    <2> SUFFICES ASSUME NEW x \in Boxes(g) PROVE x \in Boxes(f) \cup new
        OBVIOUS
    <2>1. PICK u \in Task, i \in 1..MaxAsk : x = <<u, i>> /\ i <= g[u]
        BY DEF Boxes
    <2>2. CASE u = t
        BY <2>1, <2>2, BudgetAssumption
    <2>3. CASE u # t
        BY <2>1, <2>3 DEF Boxes
    <2>4. QED
        BY <2>2, <2>3
<1> HIDE DEF new
<1>3. /\ IsFiniteSet(Boxes(f) \cup new)
      /\ Cardinality(Boxes(f) \cup new) =
            Cardinality(Boxes(f)) + Cardinality(new) - Cardinality(Boxes(f) \cap new)
    BY <1>1, FS_Union, TotalBounds
<1>4. Cardinality(Boxes(f) \cap new) \in Nat
    BY <1>1, FS_Intersection, FS_CardinalityType
<1>5. Cardinality(Boxes(g)) <= Cardinality(Boxes(f) \cup new)
    BY <1>2, <1>3, FS_Subset
<1>6. QED
    BY <1>1, <1>3, <1>4, <1>5, TotalBounds DEF Total

\* What a task may still put on the current month's bill beyond the month's own
\* grants to come: the rest of its grant, or, while it is still asking against
\* an earlier month, any grant at all.
Pending ==
    [t \in Task |->
        IF task[t].pc = "paid" THEN task[t].left
        ELSE IF task[t].pc # "idle" /\ task[t].period < month THEN MaxAsk
        ELSE 0]

\* A request is charged to a month that has begun.
PeriodBegun == \A t \in Task : task[t].period <= month

\* The bill of the current month and what is pending on it are covered by the
\* month's grants and by one grant carried over for each task; past months are
\* closed, and later ones have no bill.
BillCovered ==
    /\ billed[month] + Total(Pending) <= granted[month] + MaxAsk * Cardinality(Task)
    /\ \A m \in Month : m < month => billed[m] <= Cap + MaxAsk * Cardinality(Task)
    /\ \A m \in Month : m > month => billed[m] = 0

LEMMA PendingType ==
    /\ TypeOK => Pending \in [Task -> 0..MaxAsk]
    /\ TypeOK' => Pending' \in [Task -> 0..MaxAsk]
    BY BudgetAssumption DEF Pending, TypeOK, TaskState

LEMMA InitBill == Init => PeriodBegun /\ BillCovered
<1> SUFFICES ASSUME Init PROVE PeriodBegun /\ BillCovered
    OBVIOUS
<1>1. /\ month = 0 /\ 0 \in Month
      /\ \A m \in Month : granted[m] = 0 /\ billed[m] = 0
    BY BudgetAssumption DEF Init, Month
<1>2. PeriodBegun
    BY DEF Init, PeriodBegun, Idle
<1>3. /\ Total(Pending) \in Nat
      /\ Total(Pending) <= MaxAsk * Cardinality(Task)
      /\ MaxAsk * Cardinality(Task) \in Nat
    BY TotalBounds
<1>4. BillCovered
    BY <1>1, <1>3, BudgetAssumption DEF BillCovered, Month
<1>5. QED
    BY <1>2, <1>4

\* A step inside the month that bills nothing keeps the cover when nothing
\* becomes pending, or when what does is granted by the month.
LEMMA QuietStep ==
    ASSUME TypeOK, TypeOK', BillCovered, UNCHANGED <<month, billed>>,
           granted'[month] >= granted[month],
           Total(Pending') - granted'[month] <= Total(Pending) - granted[month]
    PROVE  BillCovered'
<1> DEFINE carry == MaxAsk * Cardinality(Task)
<1>1. /\ Total(Pending) \in Nat /\ Total(Pending') \in Nat
      /\ carry \in Nat
    BY TotalBounds
<1>2. /\ month \in Month /\ billed[month] \in Nat
      /\ granted[month] \in Nat /\ granted'[month] \in Nat
    BY DEF TypeOK
<1>3. /\ billed[month] + Total(Pending) <= granted[month] + carry
      /\ \A m \in Month : m < month => billed[m] <= Cap + carry
      /\ \A m \in Month : m > month => billed[m] = 0
    BY DEF BillCovered
<1> HIDE DEF carry
<1>4. billed[month] + Total(Pending') <= granted'[month] + carry
    BY <1>1, <1>2, <1>3
<1>5. QED
    BY <1>3, <1>4 DEF BillCovered, carry

LEMMA StepBill == IInv /\ IInv' /\ PeriodBegun /\ BillCovered /\ [Next]_vars
                    => PeriodBegun' /\ BillCovered'
<1> SUFFICES ASSUME IInv, IInv', PeriodBegun, BillCovered, [Next]_vars
             PROVE  PeriodBegun' /\ BillCovered'
    OBVIOUS
<1> DEFINE carry == MaxAsk * Cardinality(Task)
<1>0. /\ TypeOK /\ TypeOK'
      /\ month \in Month /\ month' \in Month /\ Month \subseteq Nat
      /\ task \in [Task -> TaskState]
      /\ granted \in [Month -> Nat] /\ billed \in [Month -> Nat]
      /\ Pending \in [Task -> 0..MaxAsk] /\ Pending' \in [Task -> 0..MaxAsk]
      /\ Pending \in [Task -> Nat] /\ Pending' \in [Task -> Nat]
    <2>1. Pending \in [Task -> 0..MaxAsk] /\ Pending' \in [Task -> 0..MaxAsk]
        BY PendingType DEF IInv
    <2>2. Pending \in [Task -> Nat] /\ Pending' \in [Task -> Nat]
        BY <2>1, BudgetAssumption
    <2>3. QED
        BY <2>1, <2>2 DEF IInv, TypeOK, Month
<1>a. /\ Total(Pending) \in Nat /\ Total(Pending') \in Nat
      /\ Total(Pending) <= carry /\ Total(Pending') <= carry /\ carry \in Nat
    BY TotalBounds
<1>b. ASSUME UNCHANGED <<month, billed, granted>>,
             \A t \in Task : Pending'[t] <= Pending[t]
      PROVE  BillCovered'
    <2>1. Total(Pending') <= Total(Pending)
        BY <1>0, <1>b, TotalMonotone
    <2>2. QED
        BY <1>0, <1>a, <1>b, <2>1, QuietStep
<1>c. ASSUME UNCHANGED month, NEW t \in Task,
             \A u \in Task \ {t} : task'[u] = task[u]
      PROVE  \A u \in Task \ {t} : Pending'[u] = Pending[u]
    BY <1>c DEF Pending
<1>1. CASE Rollover
    <2>1. PeriodBegun'
        BY <1>0, <1>1 DEF Rollover, PeriodBegun, TaskState, Month
    <2>2. /\ billed[month] + Total(Pending) <= granted[month] + carry
          /\ \A m \in Month : m < month => billed[m] <= Cap + carry
          /\ \A m \in Month : m > month => billed[m] = 0
        BY DEF BillCovered
    <2>3. granted[month] \in Nat /\ granted[month] <= Cap
        BY <1>0, BudgetAssumption DEF IInv, TypeOK, GrantsAreCounted, Charged, NoRow
    <2>4. month' = month + 1 /\ billed' = billed /\ granted' = granted
        BY <1>1 DEF Rollover
    <2>5. billed[month] \in Nat /\ granted[month'] \in Nat /\ billed[month'] = 0
        BY <1>0, <2>2, <2>4
    <2> HIDE DEF carry
    <2>6. billed[month] <= Cap + carry
        BY <1>a, <2>2, <2>3, <2>5, BudgetAssumption
    <2>7. billed[month'] + Total(Pending') <= granted[month'] + carry
        BY <1>a, <2>5
    <2>8. \A m \in Month : m < month' => billed[m] <= Cap + carry
        BY <1>0, <2>2, <2>4, <2>6
    <2>9. \A m \in Month : m > month' => billed[m] = 0
        BY <1>0, <2>2, <2>4
    <2>10. BillCovered'
        BY <2>4, <2>7, <2>8, <2>9 DEF BillCovered, carry
    <2>11. QED
        BY <2>1, <2>10
<1>2. ASSUME NEW t \in Task, NEW n \in 1..MaxAsk, Reserve(t, n)
      PROVE  PeriodBegun' /\ BillCovered'
    <2>1. /\ task'[t].pc = "open" /\ task'[t].period = month
          /\ \A u \in Task \ {t} : task'[u] = task[u]
          /\ task[t].pc = "idle"
          /\ UNCHANGED <<month, billed, granted>>
        BY <1>0, <1>2 DEF Reserve, Idle
    <2>2. Pending'[t] <= Pending[t]
        BY <1>0, <2>1, BudgetAssumption DEF Pending
    <2>3. QED
        BY <1>0, <1>b, <1>c, <2>1, <2>2 DEF PeriodBegun
<1>3. ASSUME NEW t \in Task, EnsureRow(t) \/ LockRow(t) \/ Count(t)
      PROVE  PeriodBegun' /\ BillCovered'
    <2>1. /\ task'[t].period = task[t].period
          /\ task'[t].pc \in {"row", "locked", "counted"}
          /\ task[t].pc \in {"open", "row", "locked"}
          /\ \A u \in Task \ {t} : task'[u] = task[u]
          /\ UNCHANGED <<month, billed, granted>>
        BY <1>0, <1>3 DEF EnsureRow, LockRow, Count, TaskState
    <2>2. Pending'[t] <= Pending[t]
        BY <1>0, <2>1, BudgetAssumption DEF Pending
    <2>3. QED
        BY <1>0, <1>b, <1>c, <2>1, <2>2 DEF PeriodBegun
<1>4. ASSUME NEW t \in Task, Commit(t) PROVE PeriodBegun' /\ BillCovered'
    <2>1. /\ task[t].pc = "counted" /\ task[t].left \in 0..MaxAsk
          /\ task[t].period \in Month /\ task[t].period <= month
          /\ task'[t].pc = "paid" /\ task'[t].period = task[t].period
          /\ task'[t].left = task[t].left
          /\ \A u \in Task \ {t} : task'[u] = task[u]
          /\ granted' = [granted EXCEPT ![task[t].period] = @ + task[t].left]
          /\ UNCHANGED <<month, billed>>
        BY <1>0, <1>4 DEF Commit, Committed, TaskState, PeriodBegun
    <2>2. \A u \in Task \ {t} : Pending'[u] = Pending[u]
        BY <1>c, <2>1
    <2>3. Pending'[t] = task[t].left
        BY <2>1 DEF Pending
    <2>4. CASE task[t].period = month
        <3>1. Pending[t] = 0
            BY <1>0, <2>1, <2>4 DEF Pending
        <3>2. Pending' = [Pending EXCEPT ![t] = task[t].left]
            BY <1>0, <2>2, <2>3
        <3>3. Total(Pending') <= Total(Pending) + task[t].left
            BY <1>0, <2>1, <3>1, <3>2, TotalGrant
        <3>4. granted'[month] = granted[month] + task[t].left
            BY <1>0, <2>1, <2>4
        <3>5. BillCovered'
            BY <1>0, <1>a, <2>1, <3>3, <3>4, QuietStep, BudgetAssumption
        <3>6. QED
            BY <1>0, <2>1, <3>5 DEF PeriodBegun
    <2>5. CASE task[t].period # month
        <3>0. task[t].period \in Nat /\ month \in Nat /\ task[t].period <= month
            BY <1>0, <2>1
        <3>a. task[t].period < month
            BY <2>5, <3>0
        <3>b. Pending[t] = MaxAsk
            BY <2>1, <3>a DEF Pending
        <3>1. Pending'[t] <= Pending[t]
            BY <2>1, <2>3, <3>b, BudgetAssumption
        <3>2. Total(Pending') <= Total(Pending)
            BY <1>0, <2>2, <3>1, TotalMonotone
        <3>3. granted'[month] = granted[month]
            BY <1>0, <2>1, <2>5
        <3>4. BillCovered'
            BY <1>0, <1>a, <2>1, <3>2, <3>3, QuietStep
        <3>5. QED
            BY <1>0, <2>1, <3>4 DEF PeriodBegun
    <2>6. QED
        BY <2>4, <2>5
<1>5. ASSUME NEW t \in Task, CommitUnseen(t) \/ Fail(t) \/ Finish(t)
      PROVE  PeriodBegun' /\ BillCovered'
    <2>1. /\ task'[t].period = 0 /\ task'[t].pc = "idle"
          /\ \A u \in Task \ {t} : task'[u] = task[u]
          /\ UNCHANGED <<month, billed, granted>>
        BY <1>0, <1>5 DEF CommitUnseen, Fail, Finish, Idle
    <2>2. Pending'[t] <= Pending[t]
        BY <1>0, <2>1, BudgetAssumption DEF Pending
    <2>3. QED
        BY <1>0, <1>b, <1>c, <2>1, <2>2 DEF PeriodBegun
<1>6. ASSUME NEW t \in Task, CallHere(t) PROVE PeriodBegun' /\ BillCovered'
    <2>1. /\ task[t].pc = "paid" /\ task[t].left \in 0..MaxAsk /\ task[t].left > 0
          /\ task'[t].pc = "paid" /\ task'[t].period = task[t].period
          /\ task'[t].left = task[t].left - 1
          /\ \A u \in Task \ {t} : task'[u] = task[u]
          /\ billed' = [billed EXCEPT ![month] = @ + 1]
          /\ UNCHANGED <<month, granted>>
        BY <1>0, <1>6 DEF CallHere, TaskState
    <2>2. \A u \in Task \ {t} : Pending'[u] = Pending[u]
        BY <1>c, <2>1
    <2>3. Pending'[t] = task[t].left - 1 /\ Pending[t] = task[t].left
        BY <2>1 DEF Pending
    <2>4. Pending' = [Pending EXCEPT ![t] = Pending[t] - 1]
        BY <1>0, <2>2, <2>3
    <2>5. Total(Pending') = Total(Pending) - 1
        BY <1>0, <2>1, <2>3, <2>4, TotalSpend
    <2>6. /\ billed[month] + Total(Pending) <= granted[month] + carry
          /\ \A m \in Month : m < month => billed[m] <= Cap + carry
          /\ \A m \in Month : m > month => billed[m] = 0
        BY DEF BillCovered
    <2>7. /\ billed'[month] = billed[month] + 1
          /\ \A m \in Month : m # month => billed'[m] = billed[m]
          /\ billed[month] \in Nat /\ granted[month] \in Nat
        BY <1>0, <2>1
    <2> HIDE DEF carry
    <2>8. billed'[month] + Total(Pending') <= granted[month] + carry
        BY <1>a, <2>5, <2>6, <2>7
    <2>9. /\ \A m \in Month : m < month => billed'[m] <= Cap + carry
          /\ \A m \in Month : m > month => billed'[m] = 0
        BY <1>0, <2>6, <2>7
    <2>10. BillCovered'
        BY <2>1, <2>8, <2>9 DEF BillCovered, carry
    <2>11. QED
        BY <1>0, <2>1, <2>10 DEF PeriodBegun
<1>7. CASE UNCHANGED vars
    <2>1. Pending' = Pending
        BY <1>7 DEF vars, Pending
    <2>2. UNCHANGED <<month, billed, granted>> /\ task' = task
        BY <1>7 DEF vars
    <2>3. QED
        BY <1>0, <1>b, <2>1, <2>2 DEF PeriodBegun
<1>8. QED
    BY <1>1, <1>2, <1>3, <1>4, <1>5, <1>6, <1>7 DEF Next

\* What HERE bills in a month stays within the cap and one grant per task
\* carried over a rollover, for any number of tasks, cap and request size: the
\* carry is real, but it does not add up over the months.
THEOREM BillHolds == Spec => []BilledWithinCapAndCarry
<1>1. IInv /\ BillCovered => BilledWithinCapAndCarry
    <2> SUFFICES ASSUME IInv, BillCovered, NEW m \in Month
                 PROVE  billed[m] <= Cap + MaxAsk * Cardinality(Task)
        BY DEF BilledWithinCapAndCarry
    <2> DEFINE carry == MaxAsk * Cardinality(Task)
    <2>1. /\ month \in Month /\ m \in Month /\ Month \subseteq Nat
          /\ billed[m] \in Nat /\ granted[m] \in Nat
          /\ counter[m] \in {NoRow} \cup 0..Cap /\ granted[m] <= Charged(m)
        BY BudgetAssumption DEF IInv, TypeOK, GrantsAreCounted, Month
    <2>0. granted[m] <= Cap
        BY <2>1, BudgetAssumption DEF Charged, NoRow
    <2>2. Total(Pending) \in Nat /\ carry \in Nat
        BY TotalBounds
    <2>3. /\ billed[month] + Total(Pending) <= granted[month] + carry
          /\ \A k \in Month : k < month => billed[k] <= Cap + carry
          /\ \A k \in Month : k > month => billed[k] = 0
        BY DEF BillCovered
    <2> HIDE DEF carry
    <2>4. billed[m] <= Cap + carry
        BY <2>0, <2>1, <2>2, <2>3, BudgetAssumption
    <2>5. QED
        BY <2>4 DEF carry
<1>2. QED
    BY <1>1, InitBill, StepBill, Invariance, PTL DEF Spec


-----------------------------------------------------------------------------
(* The road network: a day and its passes *)

\* A day belongs to one year.
LEMMA YearIs ==
    ASSUME NEW day \in Days
    PROVE  day \in Int /\ YearOf(day) \in Int /\ Jan1(YearOf(day)) <= day /\ day < Jan1(YearOf(day) + 1)
<1>0. day \in Int /\ -45656 <= day /\ day < 27028
    <2>1. Jan1(1901) = -45656
        <3>1. (1901 - 2025) \div 4 = -31 BY SMT
        <3> QED BY <3>1 DEF Jan1
    <2>2. Jan1(2100) = 27028
        <3>1. (2100 - 2025) \div 4 = 18 BY SMT
        <3> QED BY <3>1 DEF Jan1
    <2> QED BY <2>1, <2>2 DEF Days
<1>1. PICK k \in Int : 1461 * k <= 4 * day + 2 /\ 4 * day + 2 < 1461 * (k + 1)
    <2>1. 4 * day + 2 \in Int BY <1>0
    <2>2. PICK n \in Int : n = 4 * day + 2 BY <2>1
    <2>3. n \div 1461 \in Int /\ 1461 * (n \div 1461) <= n /\ n < 1461 * (n \div 1461 + 1) BY <2>2, SMT
    <2> QED BY <2>2, <2>3
<1>2. PICK y \in Int : y = 2026 + k OBVIOUS
<1>3. Jan1(y) = 365 * k + ((k + 1) \div 4) /\ Jan1(y + 1) = 365 * k + 365 + ((k + 2) \div 4)
    <2>1. y - 2026 = k /\ y - 2025 = k + 1 /\ (y + 1) - 2026 = k + 1 /\ (y + 1) - 2025 = k + 2 BY <1>2
    <2> QED BY <2>1 DEF Jan1
<1>4. Jan1(y) <= day /\ day < Jan1(y + 1) BY <1>0, <1>1, <1>3, SMT
<1>5. y \in (2025 + day \div 366)..(2027 + day \div 365)
    <2>1. PICK p, q : p = day \div 366 /\ q = day \div 365 OBVIOUS
    <2>2. p \in Int /\ q \in Int /\ 366 * p <= day /\ day < 366 * (p + 1) /\ 365 * q <= day /\ day < 365 * (q + 1)
        BY <1>0, <2>1, SMT
    <2>3. -126 <= k /\ k <= 75 BY <1>0, <1>1
    <2>4. p <= k + 1 /\ k - 1 <= q BY <1>0, <1>1, <2>2, <2>3
    <2> QED BY <1>2, <2>1, <2>2, <2>4
<1>6. \E x \in (2025 + day \div 366)..(2027 + day \div 365) : Jan1(x) <= day /\ day < Jan1(x + 1)
    BY <1>4, <1>5
<1>7. YearOf(day) \in (2025 + day \div 366)..(2027 + day \div 365)
      /\ Jan1(YearOf(day)) <= day /\ day < Jan1(YearOf(day) + 1)
    BY ONLY <1>6 DEF YearOf
<1> QED BY <1>0, <1>7

\* A month and a day fall within their year.
LEMMA InYear ==
    ASSUME NEW y \in Int, NEW md, OfYear(md)
    PROVE  In(md, y) \in Int /\ Jan1(y) <= In(md, y) /\ In(md, y) < Jan1(y + 1)
<1>1. PICK m, d : m = md[1] /\ d = md[2] OBVIOUS
<1>2. m \in 1..12 /\ d \in 1..31 BY <1>1 DEF OfYear
<1>3. PICK leap : leap = IF m > 2 /\ y % 4 = 0 THEN 1 ELSE 0 OBVIOUS
<1>4. PICK n : n = <<0, 31, 59, 90, 120, 151, 181, 212, 243, 273, 304, 334>>[m] OBVIOUS
<1>5. n \in 0..334 BY <1>2, <1>4
<1>6. In(md, y) = Jan1(y) + (n + leap) + d - 1 BY <1>1, <1>3, <1>4 DEF In, Date, DaysBefore
<1>7. leap \in 0..1 /\ (leap = 1 => y % 4 = 0) BY <1>2, <1>3
<1>8. Jan1(y) \in Int /\ Jan1(y + 1) = Jan1(y) + 365 + (IF y % 4 = 0 THEN 1 ELSE 0) BY SMT DEF Jan1
<1> QED BY <1>2, <1>5, <1>6, <1>7, <1>8

\* A pass is closed from its day in autumn to its day in spring, as the search decides it.
LEMMA ClosedIsShut ==
    ASSUME NEW p \in DOMAIN Pass, NEW day \in Day
    PROVE  PassStatus(Pass[p], day) = "closed" <=> Shut(Pass[p], day)
<1>1. PICK c : c = Pass[p] OBVIOUS
<1>2. PICK y : y = YearOf(day) OBVIOUS
<1>3. day \in Int /\ y \in Int /\ Jan1(y) <= day /\ day < Jan1(y + 1) BY <1>2, YearIs, NetworkAssumption
<1>4. OfYear(c.closes) /\ OfYear(c.opens) /\ In(c.opens, y) + 21 < In(c.closes, y)
    BY <1>1, <1>2, NetworkAssumption DEF SHOULDER_DAYS
<1>5. /\ In(c.opens, y) \in Int /\ In(c.closes, y) \in Int
      /\ In(c.closes, y - 1) \in Int /\ In(c.closes, y - 1) < Jan1(y)
      /\ In(c.opens, y + 1) \in Int /\ Jan1(y + 1) <= In(c.opens, y + 1)
    <2>1. y - 1 \in Int /\ y + 1 \in Int /\ (y - 1) + 1 = y BY <1>3
    <2>2. In(c.closes, y - 1) \in Int /\ In(c.closes, y - 1) < Jan1((y - 1) + 1) BY <2>1, <1>4, InYear
    <2>3. In(c.opens, y + 1) \in Int /\ Jan1(y + 1) <= In(c.opens, y + 1) BY <2>1, <1>4, InYear
    <2>4. In(c.opens, y) \in Int /\ In(c.closes, y) \in Int BY <1>3, <1>4, InYear
    <2> QED BY <2>1, <2>2, <2>3, <2>4
<1>6. Jan1(y) \in Int /\ Jan1(y + 1) \in Int BY <1>3 DEF Jan1
<1>7. Shut(c, day) <=> day < In(c.opens, y) \/ day >= In(c.closes, y) BY <1>2 DEF Shut
<1>8. CASE day <= In(c.opens, y) + 21
    <2>1. Window(c, day) = <<In(c.closes, y - 1), In(c.opens, y)>> BY <1>2, <1>8 DEF Window, SHOULDER_DAYS
    <2>2. PassStatus(c, day) = "closed" <=> In(c.closes, y - 1) <= day /\ day < In(c.opens, y)
        BY <2>1 DEF PassStatus
    <2> QED BY <2>2, <1>1, <1>3, <1>4, <1>5, <1>6, <1>7, <1>8
<1>9. CASE ~(day <= In(c.opens, y) + 21)
    <2>1. Window(c, day) = <<In(c.closes, y), In(c.opens, y + 1)>> BY <1>2, <1>9 DEF Window, SHOULDER_DAYS
    <2>2. PassStatus(c, day) = "closed" <=> In(c.closes, y) <= day /\ day < In(c.opens, y + 1)
        BY <2>1 DEF PassStatus
    <2> QED BY <2>2, <1>1, <1>3, <1>4, <1>5, <1>6, <1>7, <1>9
<1> QED BY <1>8, <1>9

-----------------------------------------------------------------------------
(* Counting up *)

\* A set of numbers that is not empty has a least one.
LEMMA LeastOf ==
    ASSUME NEW T, T \subseteq Nat, T # {}
    PROVE  \E n \in T : \A m \in T : n <= m
<1> DEFINE less == OpToRel(<, Nat)
<1>1. IsWellFoundedOn(less, Nat) BY NatLessThanWellFounded, Zenon
<1> HIDE DEF less
<1>2. \E n \in T : \A m \in T : <<m, n>> \notin less BY <1>1, WFMin, Zenon
<1>3. PICK n \in T : \A m \in T : <<m, n>> \notin less BY <1>2
<1>4. \A m \in T : ~(m < n) BY <1>3 DEF less, OpToRel
<1> QED BY <1>4

\* What holds at the start and goes on from each number to the next holds up to the last.
LEMMA ByStep ==
    ASSUME NEW n \in Nat, NEW T, 0 \in T, \A k \in 1..n : k - 1 \in T => k \in T
    PROVE  0..n \subseteq T
<1> SUFFICES ASSUME (0..n) \ T # {} PROVE FALSE OBVIOUS
<1>1. PICK k \in (0..n) \ T : \A m \in (0..n) \ T : k <= m
    <2>1. (0..n) \ T \subseteq Nat OBVIOUS
    <2> QED BY <2>1, LeastOf
<1>2. k # 0 /\ k \in 1..n /\ k - 1 \in 0..n /\ ~(k <= k - 1) OBVIOUS
<1>3. k - 1 \in T BY <1>1, <1>2
<1> QED BY <1>2, <1>3

\* f goes through states of S, each the step from the one before
Goes(f, n, S, start, step) ==
    /\ f \in [0..n -> S] /\ f[0] = start
    /\ \A k \in 1..n : f[k] = step[<<f[k - 1], k>>]

\* A recursion along the numbers up to n defines a function.
LEMMA Recursion ==
    ASSUME NEW n \in Nat, NEW S, NEW start \in S, NEW step \in [S \X (1..n) -> S]
    PROVE  \E f : Goes(f, n, S, start, step)
<1> DEFINE T == {k \in 0..n : \E f : Goes(f, k, S, start, step)}
<1>1. 0 \in T
    <2>1. PICK f : f = [j \in 0..0 |-> start] OBVIOUS
    <2>2. Goes(f, 0, S, start, step) BY <2>1 DEF Goes
    <2>3. 0 \in 0..n OBVIOUS
    <2> QED BY <2>2, <2>3
<1>2. ASSUME NEW k \in 1..n, k - 1 \in T PROVE k \in T
    <2>1. PICK f : Goes(f, k - 1, S, start, step) BY <1>2
    <2>2. PICK g : g = [j \in 0..k |-> IF j = k THEN step[<<f[k - 1], k>>] ELSE f[j]] OBVIOUS
    <2>3. k \in 0..n /\ k - 1 \in 0..k - 1 /\ 0 \in 0..k - 1 /\ 0 \in 0..k /\ 0 # k OBVIOUS
    <2>4. f[k - 1] \in S /\ step[<<f[k - 1], k>>] \in S BY <2>1, <2>3 DEF Goes
    <2>5. \A j \in 0..k : j # k => j \in 0..k - 1 OBVIOUS
    <2>6. \A j \in 0..k : g[j] \in S BY <2>1, <2>2, <2>4, <2>5 DEF Goes
    <2>7. g \in [0..k -> S] BY <2>2, <2>6
    <2>8. g[0] = start BY <2>1, <2>2, <2>3 DEF Goes
    <2>9. ASSUME NEW j \in 1..k PROVE g[j] = step[<<g[j - 1], j>>]
        <3>0. j - 1 \in 0..k /\ j - 1 # k /\ j \in 0..k OBVIOUS
        <3>1. g[j - 1] = f[j - 1] BY <3>0, <2>2
        <3>2. CASE j = k BY <2>2, <3>0, <3>1, <3>2
        <3>3. CASE j # k
            <4>1. j \in 1..k - 1 /\ j \in 0..k BY <3>3
            <4> QED BY <2>1, <2>2, <3>1, <3>3, <4>1 DEF Goes
        <3> QED BY <3>2, <3>3
    <2>10. Goes(g, k, S, start, step) BY <2>7, <2>8, <2>9 DEF Goes
    <2> QED BY <2>3, <2>10
<1>3. 0..n \subseteq T
    <2> HIDE DEF T
    <2> QED BY <1>1, <1>2, ByStep
<1>4. n \in 0..n OBVIOUS
<1>5. n \in T BY <1>3, <1>4
<1> QED BY <1>5

-----------------------------------------------------------------------------
(* The least minutes over at most so many roads *)

LEMMA MinIs ==
    ASSUME NEW S, S \subseteq Nat, S # {}
    PROVE  Min(S) \in S /\ \A x \in S : Min(S) <= x
<1>1. PICK n \in S : \A m \in S : n <= m BY LeastOf
<1> QED BY <1>1 DEF Min

Drives == [Node -> Nat]
WaysTyped(ways) == \A w \in ways : w.from \in Node /\ w.to \in Node /\ w.cost \in Nat

\* b is a with one road or boat more
OneMore(a, b, ways) ==
    /\ \A n \in Node : b[n] <= a[n]
    /\ \A w \in ways : b[w.to] <= a[w.from] + w.cost
    /\ \A n \in Node : b[n] = a[n] \/ \E w \in ways : w.to = n /\ b[n] = a[w.from] + w.cost

LEMMA OnwardIs ==
    ASSUME NEW ways, WaysTyped(ways), NEW a \in Drives
    PROVE  Onward(a, ways) \in Drives /\ OneMore(a, Onward(a, ways), ways)
<1>1. PICK b : b = Onward(a, ways) OBVIOUS
<1> DEFINE S(n) == {a[n]} \cup {a[w.from] + w.cost : w \in {w \in ways : w.to = n}}
<1>2. b = [n \in Node |-> Min(S(n))] BY <1>1 DEF Onward
<1>3. \A w \in ways : w.from \in Node /\ w.to \in Node /\ w.cost \in Nat /\ a[w.from] \in Nat
    BY DEF WaysTyped, Drives
<1>4. ASSUME NEW n \in Node PROVE b[n] \in S(n) /\ b[n] \in Nat /\ \A x \in S(n) : b[n] <= x
    <2>1. a[n] \in Nat BY DEF Drives
    <2>2. S(n) \subseteq Nat BY <1>3, <2>1
    <2>3. S(n) # {} OBVIOUS
    <2>4. Min(S(n)) \in S(n) /\ \A x \in S(n) : Min(S(n)) <= x
        <3> HIDE DEF S
        <3> QED BY <2>2, <2>3, MinIs
    <2>5. b[n] = Min(S(n)) BY <1>2
    <2> QED BY <2>2, <2>4, <2>5
<1>5. \A n \in Node : b[n] <= a[n] BY <1>4
<1>6. ASSUME NEW w \in ways PROVE b[w.to] <= a[w.from] + w.cost
    <2>1. w.to \in Node BY <1>3
    <2>2. a[w.from] + w.cost \in S(w.to) OBVIOUS
    <2> QED BY <1>4, <2>1, <2>2
<1>7. ASSUME NEW n \in Node PROVE b[n] = a[n] \/ \E w \in ways : w.to = n /\ b[n] = a[w.from] + w.cost
    BY <1>4
<1>8. b \in Drives
    <2> HIDE DEF S
    <2> QED BY <1>2, <1>4 DEF Drives
<1> QED BY <1>1, <1>5, <1>6, <1>7, <1>8 DEF OneMore

LEMMA RoundsAre ==
    ASSUME NEW near \in Drives, NEW ways, WaysTyped(ways), Cardinality(Node) \in Nat
    PROVE  /\ OverAtMost(near, ways) \in [0..Cardinality(Node) -> Drives]
           /\ OverAtMost(near, ways)[0] = near
           /\ \A k \in 1..Cardinality(Node) : OneMore(OverAtMost(near, ways)[k - 1], OverAtMost(near, ways)[k], ways)
<1> DEFINE n == Cardinality(Node)
           Def(f) == [k \in 0..n |-> IF k = 0 THEN near ELSE Onward(f[k - 1], ways)]
           step == [x \in Drives \X (1..n) |-> Onward(x[1], ways)]
<1>1. n \in Nat OBVIOUS
<1>4. \A x \in Drives \X (1..n) : Onward(x[1], ways) \in Drives
    <2> SUFFICES ASSUME NEW x \in Drives \X (1..n) PROVE Onward(x[1], ways) \in Drives OBVIOUS
    <2>1. x[1] \in Drives OBVIOUS
    <2> QED BY <2>1, OnwardIs
<1>5. step \in [Drives \X (1..n) -> Drives] BY <1>4
<1>6. PICK f : Goes(f, n, Drives, near, step)
    <2> HIDE DEF step, n
    <2> QED BY <1>1, <1>5, Recursion, Zenon
<1>7. f = Def(f)
    <2>1. ASSUME NEW k \in 0..n PROVE f[k] = IF k = 0 THEN near ELSE Onward(f[k - 1], ways)
        <3>1. CASE k = 0 BY <3>1, <1>6 DEF Goes
        <3>2. CASE k # 0
            <4>1. k \in 1..n /\ k - 1 \in 0..n BY <3>2
            <4>2. f[k - 1] \in Drives /\ <<f[k - 1], k>> \in Drives \X (1..n) BY <4>1, <1>6 DEF Goes
            <4>3. step[<<f[k - 1], k>>] = Onward(f[k - 1], ways) BY <4>2
            <4> QED BY <4>1, <4>3, <3>2, <1>6 DEF Goes
        <3> QED BY <3>1, <3>2
    <2> QED BY <1>6, <2>1 DEF Goes
<1>8. PICK g : g = CHOOSE h : h = Def(h) OBVIOUS
<1>9. g = Def(g) BY <1>7, <1>8, Zenon
<1>10. OverAtMost(near, ways) = g BY <1>8, Zenon DEF OverAtMost
<1>11. g[0] = near BY <1>1, <1>9
<1>12. ASSUME NEW k \in 1..n PROVE g[k] = Onward(g[k - 1], ways)
    <2>1. k \in 0..n /\ k # 0 BY <1>1
    <2> QED BY <2>1, <1>9
<1> DEFINE T == {k \in 0..n : g[k] \in Drives}
<1>13. 0..n \subseteq T
    <2>1. 0 \in T BY <1>1, <1>11
    <2>2. ASSUME NEW k \in 1..n, k - 1 \in T PROVE k \in T
        <3>1. g[k - 1] \in Drives BY <2>2
        <3>2. g[k] \in Drives BY <3>1, <1>12, OnwardIs
        <3> QED BY <3>2, <1>1
    <2> HIDE DEF T
    <2> QED BY <1>1, <2>1, <2>2, ByStep
<1>14. \A k \in 0..n : g[k] \in Drives BY <1>13
<1>15. g \in [0..n -> Drives]
    <2>1. DOMAIN g = 0..n BY <1>9
    <2>2. g = [k \in 0..n |-> g[k]] BY <1>9, Zenon
    <2> HIDE DEF n
    <2> QED BY <1>14, <2>2
<1>16. ASSUME NEW k \in 1..n PROVE OneMore(g[k - 1], g[k], ways)
    <2>1. k - 1 \in 0..n BY <1>1
    <2>2. g[k - 1] \in Drives BY <2>1, <1>14
    <2> QED BY <2>2, <1>12, OnwardIs
<1> QED BY <1>10, <1>11, <1>15, <1>16

-----------------------------------------------------------------------------
(* The ways out of a node *)

\* The legs out of a node are the ways out of it.
LegsAre(n, day) ==
    /\ \A l \in Legs(n, day) :
          /\ l.to \in Node /\ l.cost \in Nat
          /\ \E w \in Ways(day) : w.from = n /\ w.to = l.to /\ w.cost = l.cost
          /\ \A p \in l.by \cap DOMAIN Pass : ~Shut(Pass[p], day)
    /\ \A w \in Ways(day) : w.from = n => \E l \in Legs(n, day) : l.to = w.to /\ l.cost = w.cost

LEMMA BoardingIs ==
    ASSUME NEW f \in Ferry, NEW day
    PROVE  f.wait[Demand(day)] \in Nat /\ BoardingTime(f, day) \in Nat
<1>1. Demand(day) \in {"normal", "summer", "peak"} BY DEF Demand
<1>2. f.wait \in [{"normal", "summer", "peak"} -> Nat] /\ f.crossing \in Nat BY NetworkAssumption
<1>3. f.wait[Demand(day)] \in Nat BY <1>1, <1>2
<1> QED BY <1>2, <1>3 DEF BoardingTime

LEMMA OpenRoad ==
    ASSUME NEW day \in Day, NEW r \in Road
    PROVE  Closed(r, day) <=> ~(\A p \in r.pass : ~Shut(Pass[p], day))
<1>1. r.pass \subseteq DOMAIN Pass BY NetworkAssumption
<1>2. \A p \in r.pass : PassStatus(Pass[p], day) = "closed" <=> Shut(Pass[p], day) BY <1>1, ClosedIsShut
<1> QED BY <1>2 DEF Closed

LEMMA WaysAreTyped ==
    ASSUME NEW day \in Day
    PROVE  WaysTyped(Ways(day))
<1> SUFFICES ASSUME NEW w \in Ways(day) PROVE w.from \in Node /\ w.to \in Node /\ w.cost \in Nat
    BY DEF WaysTyped
<1>1. CASE \E r \in Road : w = [from |-> r.from, to |-> r.to, cost |-> r.minutes]
    BY <1>1, NetworkAssumption
<1>2. CASE \E f \in Ferry : \E x, y \in f.ends : w = [from |-> x, to |-> y, cost |-> BoardingTime(f, day)]
    <2>0. PICK f \in Ferry : \E x, y \in f.ends : w = [from |-> x, to |-> y, cost |-> BoardingTime(f, day)] BY <1>2
    <2>1. PICK x, y \in f.ends : w = [from |-> x, to |-> y, cost |-> BoardingTime(f, day)] BY <2>0
    <2>2. f.ends \subseteq Node BY NetworkAssumption
    <2>3. BoardingTime(f, day) \in Nat BY BoardingIs
    <2> QED BY <2>1, <2>2, <2>3
<1> QED BY <1>1, <1>2 DEF Ways

LEMMA LegsAreWays ==
    ASSUME NEW day \in Day, NEW n \in Node
    PROVE  LegsAre(n, day)
<1>1. ASSUME NEW l \in Legs(n, day)
      PROVE  /\ \E w \in Ways(day) : w.from = n /\ w.to = l.to /\ w.cost = l.cost
             /\ \A p \in l.by \cap DOMAIN Pass : ~Shut(Pass[p], day)
    <2>1. CASE \E r \in Road : r.from = n /\ ~Closed(r, day) /\ l = [to |-> r.to, cost |-> r.minutes, by |-> r.pass]
        <3>1. PICK r \in Road : r.from = n /\ ~Closed(r, day) /\ l = [to |-> r.to, cost |-> r.minutes, by |-> r.pass]
            BY <2>1
        <3>2. \A p \in r.pass : ~Shut(Pass[p], day) BY <3>1, OpenRoad
        <3>3. [from |-> r.from, to |-> r.to, cost |-> r.minutes] \in Ways(day) BY <3>2 DEF Ways
        <3> QED BY <3>1, <3>2, <3>3
    <2>2. CASE \E f \in Ferry : n \in f.ends /\ \E m \in f.ends \ {n} :
                  l = [to |-> m, cost |-> BoardingTime(f, day), by |-> {f.id}]
        <3>1. PICK f \in Ferry : n \in f.ends /\ \E m \in f.ends \ {n} :
                  l = [to |-> m, cost |-> BoardingTime(f, day), by |-> {f.id}] BY <2>2
        <3>2. PICK m \in f.ends \ {n} : l = [to |-> m, cost |-> BoardingTime(f, day), by |-> {f.id}] BY <3>1
        <3>3. <<n, m>> \in f.ends \X f.ends /\ <<n, m>>[1] # <<n, m>>[2] BY <3>1, <3>2
        <3> DEFINE across(g) == {[from |-> e[1], to |-> e[2], cost |-> BoardingTime(g, day)] :
                                    e \in {e \in g.ends \X g.ends : e[1] # e[2]}}
        <3>6. [from |-> n, to |-> m, cost |-> BoardingTime(f, day)] \in across(f) BY <3>3
        <3>4. [from |-> n, to |-> m, cost |-> BoardingTime(f, day)] \in Ways(day)
            <4>1. across(f) \in {across(g) : g \in Ferry} OBVIOUS
            <4>2. across(f) \subseteq UNION {across(g) : g \in Ferry} BY <4>1, Zenon
            <4>3. UNION {across(g) : g \in Ferry} \subseteq Ways(day) BY Zenon DEF Ways
            <4> HIDE DEF across
            <4> QED BY <3>6, <4>2, <4>3
        <3>5. f.id \notin DOMAIN Pass BY NetworkAssumption
        <3> QED BY <3>2, <3>4, <3>5
    <2> QED BY <2>1, <2>2 DEF Legs
<1>2. ASSUME NEW w \in Ways(day), w.from = n PROVE \E l \in Legs(n, day) : l.to = w.to /\ l.cost = w.cost
    <2>1. CASE \E r \in Road : (\A p \in r.pass : ~Shut(Pass[p], day)) /\ w = [from |-> r.from, to |-> r.to, cost |-> r.minutes]
        <3>1. PICK r \in Road : (\A p \in r.pass : ~Shut(Pass[p], day)) /\ w = [from |-> r.from, to |-> r.to, cost |-> r.minutes]
            BY <2>1
        <3>2. r.from = n /\ ~Closed(r, day) BY <3>1, <1>2, OpenRoad
        <3>3. [to |-> r.to, cost |-> r.minutes, by |-> r.pass] \in Legs(n, day) BY <3>2 DEF Legs
        <3> QED BY <3>1, <3>3
    <2>2. CASE \E f \in Ferry : \E x, y \in f.ends : x # y /\ w = [from |-> x, to |-> y, cost |-> BoardingTime(f, day)]
        <3>0. PICK f \in Ferry : \E x, y \in f.ends : x # y /\ w = [from |-> x, to |-> y, cost |-> BoardingTime(f, day)]
            BY <2>2
        <3>1. PICK x, y \in f.ends : x # y /\ w = [from |-> x, to |-> y, cost |-> BoardingTime(f, day)]
            BY <3>0
        <3>2. x = n /\ y \in f.ends \ {n} BY <3>1, <1>2
        <3> DEFINE boats(g) == {[to |-> m, cost |-> BoardingTime(g, day), by |-> {g.id}] : m \in g.ends \ {n}}
                   here == {g \in Ferry : n \in g.ends}
        <3>4. [to |-> y, cost |-> BoardingTime(f, day), by |-> {f.id}] \in boats(f) BY <3>2
        <3>3. [to |-> y, cost |-> BoardingTime(f, day), by |-> {f.id}] \in Legs(n, day)
            <4>1. boats(f) \in {boats(g) : g \in here} BY <3>1, <3>2
            <4>2. boats(f) \subseteq UNION {boats(g) : g \in here} BY <4>1, Zenon
            <4>3. UNION {boats(g) : g \in here} \subseteq Legs(n, day) BY Zenon DEF Legs
            <4> HIDE DEF boats
            <4> QED BY <3>4, <4>2, <4>3
        <3> QED BY <3>1, <3>3
    <2> QED BY <2>1, <2>2 DEF Ways
<1>3. ASSUME NEW l \in Legs(n, day) PROVE l.to \in Node /\ l.cost \in Nat
    BY <1>1, <1>3, WaysAreTyped DEF WaysTyped
<1> QED BY <1>1, <1>2, <1>3 DEF LegsAre

-----------------------------------------------------------------------------
(* The search *)

\* A node is done once what it has is no longer on the heap, and settled if the ways out of
\* it were followed then.
Done(f, n) == f.dist[n] < Far /\ <<f.dist[n], n>> \notin f.heap
Settled(f) == {n \in Node : Done(f, n) /\ f.dist[n] <= f.limit}

FieldTyped(f) ==
    /\ f = [day |-> f.day, limit |-> f.limit, near |-> f.near, dist |-> f.dist,
            pred |-> f.pred, via |-> f.via, heap |-> f.heap]
    /\ f.day \in Day /\ f.limit \in Limit /\ f.near \in [Node -> 0..Far] /\ f.dist \in [Node -> 0..Far]
    /\ f.heap \subseteq Nat \X Node
    /\ f.pred \in [Node -> SUBSET Node] /\ \A n \in Node : f.pred[n] = {} \/ \E u \in Node : f.pred[n] = {u}
    /\ f.via = [n \in Node |-> f.via[n]] /\ \A n \in Node : \A p \in f.via[n] \cap DOMAIN Pass : ~Shut(Pass[p], f.day)

\* No entry is better than what its node has, none is better than what is done, what is
\* settled has been followed, and no time is less than some way with so many legs takes.
Searched(f) ==
    /\ \A n \in Node : f.dist[n] <= f.near[n]
    /\ \A e \in f.heap : f.dist[e[2]] <= e[1]
    /\ \A n \in Node, e \in f.heap : Done(f, n) => f.dist[n] <= e[1]
    /\ \A n \in Settled(f) : \A l \in Legs(n, f.day) : f.dist[l.to] <= f.dist[n] + l.cost
    /\ \A n \in Node : OverAtMost(f.near, Ways(f.day))[Cardinality(Settled(f))][n] <= f.dist[n]

SearchInv == FieldTyped(field) /\ Searched(field)

LEMMA SettledSize ==
    ASSUME NEW f
    PROVE  /\ Cardinality(Node) \in Nat /\ IsFiniteSet(Settled(f))
           /\ Cardinality(Settled(f)) \in 0..Cardinality(Node)
<1>1. IsFiniteSet(Node) BY NetworkAssumption
<1>2. Settled(f) \subseteq Node BY DEF Settled
<1>3. IsFiniteSet(Settled(f)) /\ Cardinality(Settled(f)) <= Cardinality(Node) BY <1>1, <1>2, FS_Subset
<1> QED BY <1>1, <1>3, FS_CardinalityType

LEMMA NearIs ==
    ASSUME NEW f, FieldTyped(f)
    PROVE  f.near \in Drives /\ f.dist \in Drives /\ Far \in Nat /\ f.limit \in Nat /\ f.limit < Far
<1>1. Far \in Nat /\ f.limit \in 0..Far - 1 BY NetworkAssumption DEF FieldTyped
<1> QED BY <1>1 DEF FieldTyped, Drives

LEMMA SearchStarts == ASSUME FieldInit PROVE SearchInv
<1>1. PICK day \in Day, snap \in Snap, limit \in Limit :
        field = [day |-> day, limit |-> limit, near |-> [n \in Node |-> IF n \in DOMAIN snap THEN snap[n] ELSE Far],
                 dist |-> [n \in Node |-> IF n \in DOMAIN snap THEN snap[n] ELSE Far],
                 pred |-> [n \in Node |-> {}], via |-> [n \in Node |-> {}],
                 heap |-> {<<snap[n], n>> : n \in DOMAIN snap}]
    BY DEF FieldInit
<1>2. Far \in Nat /\ DOMAIN snap \subseteq Node /\ \A n \in DOMAIN snap : snap[n] \in 0..Far - 1
    BY NetworkAssumption
<1>3. PICK near : near = [n \in Node |-> IF n \in DOMAIN snap THEN snap[n] ELSE Far] OBVIOUS
<1>4. near \in [Node -> 0..Far] BY <1>2, <1>3
<1>5. /\ field.day = day /\ field.limit = limit /\ field.near = near /\ field.dist = near
      /\ field.pred = [n \in Node |-> {}] /\ field.via = [n \in Node |-> {}]
      /\ field.heap = {<<snap[n], n>> : n \in DOMAIN snap}
    BY <1>1, <1>3
<1>6. field.heap \subseteq Nat \X Node BY <1>2, <1>5
<1>7. FieldTyped(field)
    <2>1. PICK none, entries : none = [n \in Node |-> {}] /\ entries = {<<snap[n], n>> : n \in DOMAIN snap} OBVIOUS
    <2>2. field = [day |-> day, limit |-> limit, near |-> near, dist |-> near, pred |-> none, via |-> none, heap |-> entries]
        BY ONLY <1>1, <1>3, <2>1
    <2>3. field = [day |-> field.day, limit |-> field.limit, near |-> field.near, dist |-> field.dist,
                   pred |-> field.pred, via |-> field.via, heap |-> field.heap]
        BY ONLY <2>2
    <2>4. field.via = [n \in Node |-> field.via[n]] /\ \A n \in Node : field.via[n] = {} BY <1>5
    <2>5. field.pred \in [Node -> SUBSET Node] /\ \A n \in Node : field.pred[n] = {} BY <1>5
    <2>6. field.near \in [Node -> 0..Far] /\ field.dist \in [Node -> 0..Far] BY <1>4, <1>5
    <2> QED BY <1>5, <1>6, <2>3, <2>4, <2>5, <2>6 DEF FieldTyped
<1>8. \A n \in Node : ~Done(field, n) BY <1>2, <1>3, <1>5 DEF Done
<1>9. Settled(field) = {} BY <1>8 DEF Settled
<1>10. Cardinality(Settled(field)) = 0 BY <1>9, FS_EmptySet
<1>11. OverAtMost(near, Ways(day))[0] = near
    <2>1. near \in Drives BY <1>5, <1>7, NearIs
    <2> QED BY <2>1, SettledSize, WaysAreTyped, RoundsAre
<1>12. \A e \in field.heap : near[e[2]] <= e[1]
    <2> SUFFICES ASSUME NEW n \in DOMAIN snap PROVE near[n] <= snap[n] BY <1>5
    <2> QED BY <1>2, <1>3
<1>13. \A n \in Node : near[n] <= near[n] BY <1>4, <1>2
<1> QED BY <1>5, <1>7, <1>8, <1>9, <1>10, <1>11, <1>12, <1>13 DEF SearchInv, Searched

\* g is f with v reached by the leg l, the best of those out of u that reach v in less
Reaches(f, g, m, u, v, l) ==
    /\ l \in Legs(u, f.day) /\ l.to = v /\ m + l.cost < f.dist[v]
    /\ \A k \in Legs(u, f.day) : k.to = v => l.cost <= k.cost
    /\ g.dist[v] = m + l.cost /\ g.pred[v] = {u} /\ g.via[v] = l.by /\ <<g.dist[v], v>> \in g.heap
Keeps(f, g, m, u, v) ==
    /\ \A k \in Legs(u, f.day) : k.to = v => f.dist[v] <= m + k.cost
    /\ g.dist[v] = f.dist[v] /\ g.pred[v] = f.pred[v] /\ g.via[v] = f.via[v]

\* g is f once the ways out of u were followed from m
Follows(f, g, m, u) ==
    /\ g.day = f.day /\ g.limit = f.limit /\ g.near = f.near
    /\ \A v \in Node : Keeps(f, g, m, u, v) \/ \E l \in Legs(u, f.day) : Reaches(f, g, m, u, v, l)
    /\ f.heap \ {<<m, u>>} \subseteq g.heap
    /\ \A e \in g.heap : \/ e \in f.heap \ {<<m, u>>}
                         \/ e[2] \in Node /\ e = <<g.dist[e[2]], e[2]>> /\ \E l \in Legs(u, f.day) : Reaches(f, g, m, u, e[2], l)
    /\ g.dist = [v \in Node |-> g.dist[v]] /\ g.pred = [v \in Node |-> g.pred[v]]
    /\ g.via = [v \in Node |-> g.via[v]]
    /\ g = [day |-> g.day, limit |-> g.limit, near |-> g.near, dist |-> g.dist,
            pred |-> g.pred, via |-> g.via, heap |-> g.heap]

Drops(f, g, m, u) == g = [f EXCEPT !.heap = f.heap \ {<<m, u>>}]

Least(f, m, u) == <<m, u>> \in f.heap /\ \A e \in f.heap : m <= e[1]

LEMMA SettleIs ==
    ASSUME FieldTyped(field), Settle
    PROVE  \E m \in Nat, u \in Node :
             /\ Least(field, m, u)
             /\ \/ (m > field.dist[u] \/ m > field.limit) /\ Drops(field, field', m, u)
                \/ m <= field.dist[u] /\ m <= field.limit /\ Follows(field, field', m, u)
<1>1. PICK top \in field.heap :
          /\ \A e \in field.heap : top[1] <= e[1]
          /\ LET u == top[2]
                 found == {l \in Legs(u, field.day) : Improves(field, l, top[1])}
                 best(v) == CHOOSE l \in found : l.to = v /\ \A k \in found : k.to = v => l.cost <= k.cost
                 better == {l.to : l \in found}
                 rest == field.heap \ {top}
             IN  field' = IF top[1] > field.dist[u] \/ top[1] > field.limit THEN [field EXCEPT !.heap = rest]
                          ELSE [field EXCEPT
                            !.dist = [v \in Node |-> IF v \in better THEN top[1] + best(v).cost ELSE field.dist[v]],
                            !.pred = [v \in Node |-> IF v \in better THEN {u} ELSE field.pred[v]],
                            !.via = [v \in Node |-> IF v \in better THEN best(v).by ELSE field.via[v]],
                            !.heap = rest \cup {<<top[1] + best(v).cost, v>> : v \in better}]
    BY DEF Settle
<1>2. PICK m, u : m = top[1] /\ u = top[2] OBVIOUS
<1>3. m \in Nat /\ u \in Node /\ top = <<m, u>> BY <1>2 DEF FieldTyped
<1>4. Least(field, m, u) BY <1>1, <1>2, <1>3 DEF Least
<1> DEFINE found == {l \in Legs(u, field.day) : Improves(field, l, m)}
           best(v) == CHOOSE l \in found : l.to = v /\ \A k \in found : k.to = v => l.cost <= k.cost
           better == {l.to : l \in found}
           rest == field.heap \ {top}
           F == field
<1>5. CASE m > field.dist[u] \/ m > field.limit
    <2>1. field' = [field EXCEPT !.heap = field.heap \ {top}] BY <1>1, <1>2, <1>5
    <2>2. Drops(field, field', m, u) BY <2>1, <1>3 DEF Drops
    <2> QED BY <1>3, <1>4, <1>5, <2>2
<1>6. CASE ~(m > field.dist[u] \/ m > field.limit)
    <2>1. field' = [field EXCEPT
                            !.dist = [v \in Node |-> IF v \in better THEN m + best(v).cost ELSE field.dist[v]],
                            !.pred = [v \in Node |-> IF v \in better THEN {u} ELSE field.pred[v]],
                            !.via = [v \in Node |-> IF v \in better THEN best(v).by ELSE field.via[v]],
                            !.heap = rest \cup {<<m + best(v).cost, v>> : v \in better}]
        BY <1>1, <1>2, <1>6
    <2>2. LegsAre(u, field.day) BY <1>3, LegsAreWays DEF FieldTyped
    <2>3. \A l \in Legs(u, field.day) : l.to \in Node /\ l.cost \in Nat BY <2>2 DEF LegsAre
    <2>4. \A l \in Legs(u, field.day) : l \in found <=> m + l.cost < field.dist[l.to] BY DEF Improves
    <2>5. ASSUME NEW v \in better
          PROVE  /\ best(v) \in found /\ best(v).to = v
                 /\ \A k \in found : k.to = v => best(v).cost <= k.cost
        <3>1. PICK l0 \in found : l0.to = v OBVIOUS
        <3> DEFINE costs == {l.cost : l \in {l \in found : l.to = v}}
        <3>2. costs \subseteq Nat /\ costs # {} BY <2>3, <3>1
        <3>3. PICK c \in costs : \A d \in costs : c <= d
            <4> HIDE DEF costs
            <4> QED BY <3>2, LeastOf
        <3>4. PICK l \in found : l.to = v /\ l.cost = c BY <3>3
        <3>5. \A k \in found : k.to = v => k.cost \in costs OBVIOUS
        <3>6. l.to = v /\ \A k \in found : k.to = v => l.cost <= k.cost BY <3>3, <3>4, <3>5
        <3> HIDE DEF found
        <3> QED BY <3>6
    <2>6. /\ field'.day = field.day /\ field'.limit = field.limit /\ field'.near = field.near
          /\ field'.dist = [v \in Node |-> IF v \in better THEN m + best(v).cost ELSE field.dist[v]]
          /\ field'.pred = [v \in Node |-> IF v \in better THEN {u} ELSE field.pred[v]]
          /\ field'.via = [v \in Node |-> IF v \in better THEN best(v).by ELSE field.via[v]]
          /\ field'.heap = rest \cup {<<m + best(v).cost, v>> : v \in better}
          /\ field' = [day |-> field'.day, limit |-> field'.limit, near |-> field'.near, dist |-> field'.dist,
                       pred |-> field'.pred, via |-> field'.via, heap |-> field'.heap]
        <3>1. PICK d, p, w, h :
                /\ d = [v \in Node |-> IF v \in better THEN m + best(v).cost ELSE field.dist[v]]
                /\ p = [v \in Node |-> IF v \in better THEN {u} ELSE field.pred[v]]
                /\ w = [v \in Node |-> IF v \in better THEN best(v).by ELSE field.via[v]]
                /\ h = rest \cup {<<m + best(v).cost, v>> : v \in better} OBVIOUS
        <3>2. field' = [field EXCEPT !.dist = d, !.pred = p, !.via = w, !.heap = h] BY <2>1, <3>1, Zenon
        <3>3. field = [day |-> field.day, limit |-> field.limit, near |-> field.near, dist |-> field.dist,
            pred |-> field.pred, via |-> field.via, heap |-> field.heap] BY DEF FieldTyped
        <3>4. field' = [day |-> field.day, limit |-> field.limit, near |-> field.near, dist |-> d,
                        pred |-> p, via |-> w, heap |-> h] BY ONLY <3>2, <3>3
        <3> QED BY ONLY <3>1, <3>4
    <2>7. better \subseteq Node BY <2>3
    <2>8. ASSUME NEW v \in better PROVE \E l \in Legs(u, field.day) : Reaches(field, field', m, u, v, l)
        <3>1. v \in Node BY <2>7
        <3>2. best(v) \in found /\ best(v).to = v /\ \A k \in found : k.to = v => best(v).cost <= k.cost
            BY <2>5
        <3>3. PICK l : l = best(v) OBVIOUS
        <3>4. l \in found /\ l.to = v /\ \A k \in found : k.to = v => l.cost <= k.cost BY <3>2, <3>3
        <3>5. l \in Legs(u, field.day) /\ m + l.cost < field.dist[v] BY <3>4, <2>4
        <3>6. ASSUME NEW k \in Legs(u, field.day), k.to = v PROVE l.cost <= k.cost
            <4>1. CASE k \in found BY <3>4, <3>6, <4>1
            <4>2. CASE k \notin found
                <5>1. ~(m + k.cost < field.dist[v]) BY <2>4, <3>6, <4>2
                <5>2. field.dist[v] \in Nat /\ k.cost \in Nat /\ l.cost \in Nat
                    BY <2>3, <3>1, <3>5, NearIs DEF Drives
                <5> QED BY <5>1, <5>2, <3>5, <1>3
            <4> QED BY <4>1, <4>2
        <3>7. /\ field'.dist[v] = m + l.cost /\ field'.pred[v] = {u} /\ field'.via[v] = l.by
              /\ <<m + l.cost, v>> \in field'.heap
            <4> HIDE DEF found, best, better, rest
            <4> QED BY <2>6, <3>1, <3>3
        <3> QED BY <3>4, <3>5, <3>6, <3>7 DEF Reaches
    <2>9. ASSUME NEW v \in Node, v \notin better PROVE Keeps(field, field', m, u, v)
        <3>1. /\ field'.dist[v] = field.dist[v] /\ field'.pred[v] = field.pred[v]
              /\ field'.via[v] = field.via[v]
            <4> HIDE DEF found, best, better, rest
            <4> QED BY <2>6, <2>9
        <3>2. ASSUME NEW k \in Legs(u, field.day), k.to = v PROVE field.dist[v] <= m + k.cost
            <4>1. k \notin found BY <2>9, <3>2
            <4>2. ~(m + k.cost < field.dist[v]) BY <4>1, <2>4, <3>2
            <4>3. field.dist[v] \in Nat /\ k.cost \in Nat BY <2>3, NearIs DEF Drives
            <4> QED BY <4>2, <4>3, <1>3
        <3> QED BY <3>1, <3>2 DEF Keeps
    <2>10. field.heap \ {<<m, u>>} \subseteq field'.heap
        <3>1. rest = field.heap \ {<<m, u>>} BY <1>3
        <3> HIDE DEF rest, best, better
        <3> QED BY <3>1, <2>6
    <2>11. ASSUME NEW e \in field'.heap
           PROVE  \/ e \in field.heap \ {<<m, u>>}
                  \/ e[2] \in Node /\ e = <<field'.dist[e[2]], e[2]>> /\ \E l \in Legs(u, field.day) : Reaches(field, field', m, u, e[2], l)
        <3>1. CASE e \in rest BY <3>1, <1>3
        <3>2. CASE e \in {<<m + best(v).cost, v>> : v \in better}
            <4>1. PICK v \in better : e = <<m + best(v).cost, v>>
                <5> HIDE DEF best, better
                <5> QED BY <3>2
            <4>2. v \in Node /\ e[2] = v BY <2>7, <4>1
            <4>3. field'.dist[v] = m + best(v).cost
                <5> HIDE DEF best, better, rest
                <5> QED BY <2>6, <4>1, <4>2
            <4>4. e = <<field'.dist[e[2]], e[2]>> BY <4>1, <4>2, <4>3
            <4> QED BY <4>1, <4>2, <4>4, <2>8
        <3> HIDE DEF best, better, rest
        <3> QED BY <3>1, <3>2, <2>6
    <2>12. /\ field'.dist = [v \in Node |-> field'.dist[v]] /\ field'.pred = [v \in Node |-> field'.pred[v]]
           /\ field'.via = [v \in Node |-> field'.via[v]]
        <3> HIDE DEF best, better, rest
        <3> QED BY <2>6
    <2>13. m <= field.dist[u] /\ m <= field.limit
        <3>1. field.dist[u] \in Nat /\ field.limit \in Nat BY <1>3, NearIs DEF Drives
        <3> QED BY <3>1, <1>3, <1>6
    <2>14. Follows(field, field', m, u)
        <3> HIDE DEF best, better, rest, found
        <3> QED BY <2>6, <2>8, <2>9, <2>10, <2>11, <2>12 DEF Follows
    <2> QED BY <1>3, <1>4, <2>13, <2>14
<1> QED BY <1>5, <1>6

\* An entry that is dropped: nothing is settled by it.
LEMMA DropsStep ==
    ASSUME NEW f, NEW g, FieldTyped(f), Searched(f), NEW m \in Nat, NEW u \in Node, Least(f, m, u),
           Drops(f, g, m, u), m > f.dist[u] \/ m > f.limit
    PROVE  FieldTyped(g) /\ Searched(g)
<1>1. PICK h : h = f.heap \ {<<m, u>>} OBVIOUS
<1>2. /\ g = [day |-> f.day, limit |-> f.limit, near |-> f.near, dist |-> f.dist,
              pred |-> f.pred, via |-> f.via, heap |-> h]
      /\ g.day = f.day /\ g.limit = f.limit /\ g.near = f.near /\ g.dist = f.dist
      /\ g.pred = f.pred /\ g.via = f.via /\ g.heap = h
    <2>1. g = [f EXCEPT !.heap = h] BY <1>1 DEF Drops
    <2>2. f = [day |-> f.day, limit |-> f.limit, near |-> f.near, dist |-> f.dist,
              pred |-> f.pred, via |-> f.via, heap |-> f.heap] BY DEF FieldTyped
    <2>3. g = [day |-> f.day, limit |-> f.limit, near |-> f.near, dist |-> f.dist,
              pred |-> f.pred, via |-> f.via, heap |-> h] BY ONLY <2>1, <2>2
    <2> QED BY ONLY <2>3
<1>3. FieldTyped(g)
    <2>1. g = [day |-> g.day, limit |-> g.limit, near |-> g.near, dist |-> g.dist,
               pred |-> g.pred, via |-> g.via, heap |-> g.heap] BY ONLY <1>2
    <2>2. g.heap \subseteq Nat \X Node BY <1>1, <1>2 DEF FieldTyped
    <2> QED BY <1>2, <2>1, <2>2 DEF FieldTyped
<1>4. f.dist \in Drives /\ Far \in Nat /\ f.limit \in Nat BY NearIs
<1>5. \A n \in Node : f.dist[n] \in Nat BY <1>4 DEF Drives
<1>6. f.dist[u] <= m
    <2>1. <<m, u>> \in f.heap BY DEF Least
    <2>2. f.dist[<<m, u>>[2]] <= <<m, u>>[1] BY <2>1 DEF Searched
    <2> QED BY <2>2
<1>7. ASSUME NEW n \in Node PROVE Done(g, n) => Done(f, n) \/ (n = u /\ f.dist[u] = m /\ m > f.limit)
    <2>1. CASE <<f.dist[n], n>> \in f.heap
        <3> SUFFICES ASSUME Done(g, n) PROVE n = u /\ f.dist[u] = m /\ m > f.limit OBVIOUS
        <3>1. <<f.dist[n], n>> \notin h BY <1>2 DEF Done
        <3>2. <<f.dist[n], n>> = <<m, u>> BY <2>1, <3>1, <1>1
        <3>3. n = u /\ f.dist[u] = m BY <3>2
        <3> QED BY <3>3, <1>4
    <2>2. CASE <<f.dist[n], n>> \notin f.heap BY <2>2, <1>2 DEF Done
    <2> QED BY <2>1, <2>2
<1>8. \A n \in Node : Done(f, n) => Done(g, n) BY <1>1, <1>2 DEF Done
<1>9. Settled(g) = Settled(f)
    <2>1. ASSUME NEW n \in Node PROVE Done(g, n) /\ g.dist[n] <= g.limit <=> Done(f, n) /\ f.dist[n] <= f.limit
        <3>1. f.dist[n] \in Nat BY <1>5
        <3> QED BY <1>2, <1>4, <1>7, <1>8, <3>1
    <2> QED BY <2>1 DEF Settled
<1>10. \A e \in g.heap : g.dist[e[2]] <= e[1] BY <1>1, <1>2 DEF Searched
<1>11. ASSUME NEW n \in Node, NEW e \in g.heap, Done(g, n) PROVE g.dist[n] <= e[1]
    <2>1. e \in f.heap BY <1>1, <1>2
    <2>2. CASE Done(f, n) BY <2>1, <2>2, <1>2 DEF Searched
    <2>3. CASE n = u /\ f.dist[u] = m BY <2>1, <2>3, <1>2 DEF Least
    <2> QED BY <1>7, <1>11, <2>2, <2>3
<1>12. \A n \in Settled(g) : \A l \in Legs(n, g.day) : g.dist[l.to] <= g.dist[n] + l.cost
    BY <1>2, <1>9 DEF Searched
<1>13. \A n \in Node : OverAtMost(g.near, Ways(g.day))[Cardinality(Settled(g))][n] <= g.dist[n]
    BY <1>2, <1>9 DEF Searched
<1>14. \A n \in Node : g.dist[n] <= g.near[n] BY <1>2 DEF Searched
<1> QED BY <1>3, <1>10, <1>11, <1>12, <1>13, <1>14 DEF Searched

\* The nearest node is settled: the nodes that it reaches are not done yet, and what they
\* get now takes one leg more.
LEMMA FollowsStep ==
    ASSUME NEW f, NEW g, FieldTyped(f), Searched(f), NEW m \in Nat, NEW u \in Node, Least(f, m, u),
           Follows(f, g, m, u), m <= f.dist[u], m <= f.limit
    PROVE  FieldTyped(g) /\ Searched(g)
<1>1. /\ f.near \in Drives /\ f.dist \in Drives /\ Far \in Nat /\ f.limit \in Nat /\ f.limit < Far
      /\ f.day \in Day
    BY NearIs DEF FieldTyped
<1>2. \A n \in Node : f.dist[n] \in Nat /\ f.dist[n] <= Far BY <1>1 DEF Drives, FieldTyped
<1>3. f.dist[u] = m
    <2>1. <<m, u>> \in f.heap BY DEF Least
    <2>2. f.dist[<<m, u>>[2]] <= <<m, u>>[1] BY <2>1 DEF Searched
    <2> QED BY <2>2, <1>2
<1>4. g.day = f.day /\ g.limit = f.limit /\ g.near = f.near BY DEF Follows
<1>5. /\ \A l \in Legs(u, f.day) : l.to \in Node /\ l.cost \in Nat
      /\ \A l \in Legs(u, f.day) : \E w \in Ways(f.day) : w.from = u /\ w.to = l.to /\ w.cost = l.cost
      /\ \A l \in Legs(u, f.day) : \A p \in l.by \cap DOMAIN Pass : ~Shut(Pass[p], f.day)
    BY <1>1, LegsAreWays DEF LegsAre
<1>6. \A v \in Node : Keeps(f, g, m, u, v) \/ \E l \in Legs(u, f.day) : Reaches(f, g, m, u, v, l)
    BY DEF Follows
<1>7. \A v \in Node, l \in Legs(u, f.day) : Reaches(f, g, m, u, v, l) =>
          /\ l.cost \in Nat /\ g.dist[v] = m + l.cost /\ g.dist[v] < f.dist[v] /\ g.dist[v] \in 0..Far /\ v # u
    <2> SUFFICES ASSUME NEW v \in Node, NEW l \in Legs(u, f.day), Reaches(f, g, m, u, v, l)
        PROVE /\ l.cost \in Nat /\ g.dist[v] = m + l.cost /\ g.dist[v] < f.dist[v] /\ g.dist[v] \in 0..Far /\ v # u
        OBVIOUS
    <2>1. l.cost \in Nat /\ g.dist[v] = m + l.cost /\ m + l.cost < f.dist[v] BY <1>5 DEF Reaches
    <2> QED BY <2>1, <1>1, <1>2, <1>3
<1>8. \A v \in Node : g.dist[v] \in 0..Far /\ g.dist[v] <= f.dist[v]
    <2> SUFFICES ASSUME NEW v \in Node PROVE g.dist[v] \in 0..Far /\ g.dist[v] <= f.dist[v] OBVIOUS
    <2>1. CASE Keeps(f, g, m, u, v) BY <2>1, <1>1, <1>2 DEF Keeps
    <2>2. CASE \E l \in Legs(u, f.day) : Reaches(f, g, m, u, v, l) BY <2>2, <1>1, <1>2, <1>7
    <2> QED BY <1>6, <2>1, <2>2
<1>9. FieldTyped(g)
    <2>1. /\ g.dist = [v \in Node |-> g.dist[v]] /\ g.pred = [v \in Node |-> g.pred[v]]
          /\ g.via = [v \in Node |-> g.via[v]]
          /\ g = [day |-> g.day, limit |-> g.limit, near |-> g.near, dist |-> g.dist,
                  pred |-> g.pred, via |-> g.via, heap |-> g.heap]
        BY DEF Follows
    <2>2. g.dist \in [Node -> 0..Far]
        <3> HIDE DEF Follows
        <3> QED BY <2>1, <1>8
    <2>3. \A v \in Node : g.pred[v] = f.pred[v] \/ g.pred[v] = {u} BY <1>6 DEF Keeps, Reaches
    <2>4. /\ \A n \in Node : f.pred[n] \in SUBSET Node
          /\ \A n \in Node : f.pred[n] = {} \/ \E x \in Node : f.pred[n] = {x}
          /\ \A n \in Node : \A p \in f.via[n] \cap DOMAIN Pass : ~Shut(Pass[p], f.day)
        BY DEF FieldTyped
    <2>5. \A v \in Node : g.pred[v] \in SUBSET Node /\ (g.pred[v] = {} \/ \E x \in Node : g.pred[v] = {x})
        BY <2>3, <2>4
    <2>6. g.pred \in [Node -> SUBSET Node] BY <2>1, <2>5
    <2>7. ASSUME NEW v \in Node, NEW p \in g.via[v] \cap DOMAIN Pass PROVE ~Shut(Pass[p], g.day)
        <3>1. CASE Keeps(f, g, m, u, v) BY <3>1, <2>4, <2>7, <1>4 DEF Keeps
        <3>2. CASE \E l \in Legs(u, f.day) : Reaches(f, g, m, u, v, l)
            BY <3>2, <1>4, <1>5, <2>7 DEF Reaches
        <3> QED BY <1>6, <3>1, <3>2
    <2>8. g.heap \subseteq Nat \X Node
        <3> SUFFICES ASSUME NEW e \in g.heap PROVE e \in Nat \X Node OBVIOUS
        <3>1. CASE e \in f.heap BY <3>1 DEF FieldTyped
        <3>2. CASE e[2] \in Node /\ e = <<g.dist[e[2]], e[2]>> BY <3>2, <1>8
        <3> QED BY <3>1, <3>2 DEF Follows
    <2> QED BY <1>1, <1>4, <2>1, <2>2, <2>5, <2>6, <2>7, <2>8 DEF FieldTyped
<1>10. ASSUME NEW v \in Node, Done(f, v) PROVE Keeps(f, g, m, u, v) /\ g.dist[v] = f.dist[v] /\ Done(g, v)
    <2>1. f.dist[v] <= m
        <3>1. f.dist[v] <= <<m, u>>[1] BY <1>10 DEF Searched, Least
        <3> QED BY <3>1
    <2>2. \A l \in Legs(u, f.day) : ~Reaches(f, g, m, u, v, l)
        <3> SUFFICES ASSUME NEW l \in Legs(u, f.day), Reaches(f, g, m, u, v, l) PROVE FALSE OBVIOUS
        <3>1. l.cost \in Nat /\ g.dist[v] = m + l.cost /\ g.dist[v] < f.dist[v] BY <1>7
        <3> QED BY <3>1, <2>1, <1>2
    <2>3. Keeps(f, g, m, u, v) BY <1>6, <2>2
    <2>4. g.dist[v] = f.dist[v] BY <2>3 DEF Keeps
    <2>5. ASSUME <<f.dist[v], v>> \in g.heap PROVE FALSE
        <3>1. PICK e : e = <<f.dist[v], v>> OBVIOUS
        <3>2. e[2] = v /\ e \in g.heap /\ e \notin f.heap BY <3>1, <2>5, <1>10 DEF Done
        <3>3. \E l \in Legs(u, f.day) : Reaches(f, g, m, u, v, l) BY <3>2 DEF Follows
        <3> QED BY <3>3, <2>2
    <2> QED BY <2>3, <2>4, <2>5, <1>10 DEF Done
<1>11. Keeps(f, g, m, u, u) /\ g.dist[u] = m BY <1>3, <1>6, <1>7 DEF Keeps
<1>12. ASSUME NEW v \in Node, Done(g, v) PROVE Done(f, v) \/ v = u
    <2>1. \A l \in Legs(u, f.day) : ~Reaches(f, g, m, u, v, l) BY <1>12 DEF Reaches, Done
    <2>2. g.dist[v] = f.dist[v] BY <2>1, <1>6 DEF Keeps
    <2>3. <<f.dist[v], v>> \notin f.heap \ {<<m, u>>} BY <2>2, <1>12 DEF Done, Follows
    <2>4. <<f.dist[v], v>> = <<m, u>> \/ <<f.dist[v], v>> \notin f.heap BY <2>3
    <2> QED BY <2>2, <2>4, <1>12 DEF Done
<1>13. \A e \in g.heap : m <= e[1]
    <2> SUFFICES ASSUME NEW e \in g.heap PROVE m <= e[1] OBVIOUS
    <2>1. CASE e \in f.heap BY <2>1 DEF Least
    <2>2. CASE e[2] \in Node /\ e = <<g.dist[e[2]], e[2]>> /\ \E l \in Legs(u, f.day) : Reaches(f, g, m, u, e[2], l)
        <3>1. PICK v : v = e[2] OBVIOUS
        <3>2. e[1] = g.dist[v] BY <2>2, <3>1
        <3> QED BY <2>2, <3>1, <3>2, <1>7
    <2> QED BY <2>1, <2>2 DEF Follows
<1>14. ASSUME NEW n \in Node, NEW e \in g.heap, Done(g, n) PROVE g.dist[n] <= e[1]
    <2>1. g.dist[n] <= m
        <3>1. CASE n = u BY <3>1, <1>11
        <3>2. CASE Done(f, n)
            <4>1. f.dist[n] <= <<m, u>>[1] BY <3>2 DEF Searched, Least
            <4> QED BY <4>1, <3>2, <1>10
        <3> QED BY <1>12, <1>14, <3>1, <3>2
    <2>2. m <= e[1] /\ e[1] \in Nat BY <1>13, <1>9 DEF FieldTyped
    <2> QED BY <2>1, <2>2, <1>8
<1>15. \A e \in g.heap : g.dist[e[2]] <= e[1]
    <2> SUFFICES ASSUME NEW e \in g.heap PROVE g.dist[e[2]] <= e[1] OBVIOUS
    <2>1. CASE e \in f.heap
        <3>1. f.dist[e[2]] <= e[1] /\ e[1] \in Nat /\ e[2] \in Node BY <2>1 DEF Searched, FieldTyped
        <3> QED BY <3>1, <1>2, <1>8
    <2>2. CASE e[2] \in Node /\ e = <<g.dist[e[2]], e[2]>>
        <3>1. PICK v, x : v = e[2] /\ x = g.dist[v] OBVIOUS
        <3>2. e[1] = x /\ x \in 0..Far BY <2>2, <3>1, <1>8
        <3> QED BY <3>1, <3>2, <1>1
    <2> QED BY <2>1, <2>2 DEF Follows
<1>16. ASSUME NEW n \in Settled(g), NEW l \in Legs(n, g.day) PROVE g.dist[l.to] <= g.dist[n] + l.cost
    <2>1. n \in Node /\ Done(g, n) /\ g.dist[n] <= f.limit BY <1>4 DEF Settled
    <2>2. l.to \in Node /\ l.cost \in Nat /\ l \in Legs(n, f.day)
        BY <2>1, <1>1, <1>4, LegsAreWays DEF LegsAre
    <2>3. CASE n = u
        <3>1. CASE Keeps(f, g, m, u, l.to) BY <3>1, <2>2, <2>3, <1>11 DEF Keeps
        <3>2. CASE \E k \in Legs(u, f.day) : Reaches(f, g, m, u, l.to, k)
            <4>1. PICK k \in Legs(u, f.day) : Reaches(f, g, m, u, l.to, k) BY <3>2
            <4>2. k.cost <= l.cost /\ g.dist[l.to] = m + k.cost /\ k.cost \in Nat
                BY <4>1, <2>2, <2>3, <1>5 DEF Reaches
            <4> QED BY <4>2, <2>2, <2>3, <1>11
        <3> QED BY <2>2, <1>6, <3>1, <3>2
    <2>4. CASE Done(f, n)
        <3>1. g.dist[n] = f.dist[n] BY <2>1, <2>4, <1>10
        <3>2. n \in Settled(f) BY <2>1, <2>4, <3>1 DEF Settled
        <3>3. f.dist[l.to] <= f.dist[n] + l.cost BY <2>2, <3>2 DEF Searched
        <3> QED BY <3>1, <3>3, <2>1, <2>2, <1>2, <1>8
    <2> QED BY <2>1, <2>3, <2>4, <1>12
<1>17. u \notin Settled(f)
    <2>1. <<f.dist[u], u>> \in f.heap BY <1>3 DEF Least
    <2> QED BY <2>1 DEF Settled, Done
<1>18. Settled(g) = Settled(f) \cup {u}
    <2>1. ASSUME NEW n \in Settled(f) PROVE n \in Settled(g)
        <3>1. n \in Node /\ Done(f, n) /\ f.dist[n] <= f.limit BY DEF Settled
        <3> QED BY <3>1, <1>4, <1>10 DEF Settled
    <2>2. u \in Settled(g)
        <3>1. <<m, u>> \notin g.heap
            <4> SUFFICES ASSUME <<m, u>> \in g.heap PROVE FALSE OBVIOUS
            <4>1. PICK e : e = <<m, u>> OBVIOUS
            <4>2. e[2] = u /\ e \in g.heap /\ e \notin f.heap \ {<<m, u>>} BY <4>1
            <4>3. \E l \in Legs(u, f.day) : Reaches(f, g, m, u, u, l) BY <4>2 DEF Follows
            <4> QED BY <4>3, <1>7
        <3>2. m < Far BY <1>1
        <3> QED BY <3>1, <3>2, <1>4, <1>11 DEF Settled, Done
    <2>3. ASSUME NEW n \in Settled(g) PROVE n \in Settled(f) \cup {u}
        <3>1. n \in Node /\ Done(g, n) /\ g.dist[n] <= f.limit BY <1>4 DEF Settled
        <3>2. CASE Done(f, n) BY <3>1, <3>2, <1>10 DEF Settled
        <3> QED BY <3>1, <3>2, <1>12
    <2> QED BY <2>1, <2>2, <2>3
<1>19. Cardinality(Settled(g)) = Cardinality(Settled(f)) + 1
    <2>1. IsFiniteSet(Settled(f)) BY SettledSize
    <2> QED BY <2>1, <1>17, <1>18, FS_AddElement
<1>20. \A n \in Node : OverAtMost(g.near, Ways(g.day))[Cardinality(Settled(g))][n] <= g.dist[n]
    <2>1. PICK k, best, ways : k = Cardinality(Settled(f)) /\ ways = Ways(f.day) /\ best = OverAtMost(f.near, ways)
        OBVIOUS
    <2>2. k \in 0..Cardinality(Node) /\ k + 1 \in 0..Cardinality(Node) /\ k + 1 \in 1..Cardinality(Node) /\ (k + 1) - 1 = k
        <3>1. Cardinality(Node) \in Nat /\ k \in 0..Cardinality(Node) BY <2>1, SettledSize
        <3>2. k + 1 \in 0..Cardinality(Node) BY <2>1, <1>19, SettledSize
        <3> QED BY <3>1, <3>2
    <2>3. /\ best \in [0..Cardinality(Node) -> Drives]
          /\ \A j \in 1..Cardinality(Node) : OneMore(best[j - 1], best[j], ways)
        BY <2>1, <1>1, SettledSize, WaysAreTyped, RoundsAre
    <2>4. OneMore(best[k], best[k + 1], ways) BY <2>2, <2>3
    <2>5. best[k] \in Drives /\ best[k + 1] \in Drives BY <2>2, <2>3
    <2>6. \A n \in Node : best[k][n] \in Nat /\ best[k + 1][n] \in Nat BY <2>5 DEF Drives
    <2>7. \A n \in Node : best[k][n] <= f.dist[n] BY <2>1 DEF Searched
    <2>8. ASSUME NEW n \in Node PROVE best[k + 1][n] <= g.dist[n]
        <3>1. CASE Keeps(f, g, m, u, n)
            <4>1. g.dist[n] = f.dist[n] BY <3>1 DEF Keeps
            <4>2. best[k + 1][n] <= best[k][n] BY <2>4 DEF OneMore
            <4> QED BY <4>1, <4>2, <2>6, <2>7, <1>2
        <3>2. CASE \E l \in Legs(u, f.day) : Reaches(f, g, m, u, n, l)
            <4>1. PICK l \in Legs(u, f.day) : Reaches(f, g, m, u, n, l) BY <3>2
            <4>2. l.to = n /\ g.dist[n] = m + l.cost /\ l.cost \in Nat BY <4>1, <1>5 DEF Reaches
            <4>3. PICK w \in ways : w.from = u /\ w.to = n /\ w.cost = l.cost BY <4>2, <2>1, <1>5
            <4>4. best[k + 1][n] <= best[k][u] + l.cost BY <4>3, <2>4 DEF OneMore
            <4>5. best[k][u] <= m BY <2>7, <1>3
            <4> QED BY <4>2, <4>4, <4>5, <2>6
        <3> QED BY <1>6, <3>1, <3>2
    <2> QED BY <2>1, <2>8, <1>4, <1>19
<1>21. \A n \in Node : g.dist[n] <= g.near[n]
    <2> SUFFICES ASSUME NEW n \in Node PROVE g.dist[n] <= f.near[n] BY <1>4
    <2>1. f.dist[n] <= f.near[n] /\ f.near[n] \in Nat BY <1>1 DEF Searched, Drives
    <2> QED BY <2>1, <1>2, <1>8
<1> QED BY <1>9, <1>14, <1>15, <1>16, <1>20, <1>21 DEF Searched

-----------------------------------------------------------------------------
(* What the search ends with *)

LEMMA SearchGoesOn == ASSUME SearchInv, [Settle]_field PROVE SearchInv'
<1>1. CASE UNCHANGED field BY <1>1 DEF SearchInv, FieldTyped, Searched, Settled, Done
<1>2. CASE Settle
    <2>1. PICK m \in Nat, u \in Node :
             /\ Least(field, m, u)
             /\ \/ (m > field.dist[u] \/ m > field.limit) /\ Drops(field, field', m, u)
                \/ m <= field.dist[u] /\ m <= field.limit /\ Follows(field, field', m, u)
        BY <1>2, SettleIs DEF SearchInv
    <2>2. PICK f, g : f = field /\ g = field' OBVIOUS
    <2>3. FieldTyped(f) /\ Searched(f) BY <2>2 DEF SearchInv
    <2>4. CASE (m > f.dist[u] \/ m > f.limit) /\ Drops(f, g, m, u)
        BY <2>1, <2>2, <2>3, <2>4, DropsStep DEF SearchInv
    <2>5. CASE m <= f.dist[u] /\ m <= f.limit /\ Follows(f, g, m, u)
        BY <2>1, <2>2, <2>3, <2>5, FollowsStep DEF SearchInv
    <2> QED BY <2>1, <2>2, <2>4, <2>5
<1> QED BY <1>1, <1>2

\* Once the heap is empty all that was reached within the limit is settled, and no way
\* within it is shorter, however many legs it has.
LEMMA EndIsExact == ASSUME SearchInv, field.heap = {} PROVE SearchIsExact
<1>1. PICK f, N, ways, best :
        /\ f = field /\ N = Cardinality(Node) /\ ways = Ways(f.day) /\ best = OverAtMost(f.near, ways)
    OBVIOUS
<1>2. FieldTyped(f) /\ Searched(f) /\ f.heap = {} BY <1>1 DEF SearchInv
<1>3. /\ f.near \in Drives /\ f.dist \in Drives /\ Far \in Nat /\ f.limit \in Nat /\ f.limit < Far
      /\ f.day \in Day
    BY <1>2, NearIs DEF FieldTyped
<1>4. N \in Nat /\ Cardinality(Settled(f)) \in 0..N BY <1>1, SettledSize
<1>5. /\ best \in [0..N -> Drives] /\ best[0] = f.near
      /\ \A j \in 1..N : OneMore(best[j - 1], best[j], ways)
    BY <1>1, <1>3, <1>4, WaysAreTyped, RoundsAre
<1>6. \A j \in 0..N : best[j] \in Drives BY <1>5
<1>7. \A j \in 0..N, n \in Node : best[j][n] \in Nat BY <1>6 DEF Drives
<1>8. \A n \in Node : f.dist[n] \in Nat /\ f.near[n] \in Nat BY <1>3 DEF Drives
<1>9. ASSUME NEW n \in Node PROVE best[N][n] <= f.dist[n]
    <2>1. PICK s : s = Cardinality(Settled(f)) OBVIOUS
    <2>2. s \in 0..N /\ best[s][n] <= f.dist[n] BY <1>1, <1>2, <1>4, <2>1 DEF Searched
    <2> DEFINE T == {j \in 0..N - s : best[s + j][n] <= best[s][n]}
    <2>3. 0 \in T BY <2>2, <1>4, <1>7
    <2>4. ASSUME NEW j \in 1..N - s, j - 1 \in T PROVE j \in T
        <3>1. s + j \in 1..N /\ s + j \in 0..N /\ (s + j) - 1 = s + (j - 1) /\ s + (j - 1) \in 0..N /\ s \in 0..N
              /\ j \in 0..N - s
            BY <1>4, <2>2
        <3>2. best[s + j][n] <= best[s + (j - 1)][n] BY <3>1, <1>5 DEF OneMore
        <3>3. best[s + (j - 1)][n] <= best[s][n] BY <2>4
        <3>4. best[s + j][n] \in Nat /\ best[s + (j - 1)][n] \in Nat /\ best[s][n] \in Nat BY <3>1, <1>7
        <3>5. best[s + j][n] <= best[s][n] BY <3>2, <3>3, <3>4
        <3> QED BY <3>1, <3>5
    <2>5. N - s \in Nat BY <2>2, <1>4
    <2>6. 0..N - s \subseteq T
        <3> HIDE DEF T
        <3> QED BY <2>3, <2>4, <2>5, ByStep
    <2>7. N - s \in T /\ s + (N - s) = N BY <2>5, <2>6, <2>2, <1>4
    <2>8. best[N][n] <= best[s][n] BY <2>7
    <2>9. best[N][n] \in Nat /\ best[s][n] \in Nat BY <1>4, <1>7, <2>2
    <2> QED BY <2>2, <2>8, <2>9, <1>8
<1> DEFINE Exact == {j \in 0..N : \A n \in Node : best[j][n] <= f.limit => f.dist[n] <= best[j][n]}
<1>10. 0 \in Exact BY <1>2, <1>4, <1>5 DEF Searched
<1>11. ASSUME NEW j \in 1..N, j - 1 \in Exact PROVE j \in Exact
    <2>1. j \in 0..N /\ j - 1 \in 0..N BY <1>4
    <2>2. OneMore(best[j - 1], best[j], ways) BY <1>5
    <2>3. ASSUME NEW n \in Node, best[j][n] <= f.limit PROVE f.dist[n] <= best[j][n]
        <3>1. CASE best[j][n] = best[j - 1][n] BY <3>1, <2>3, <1>11
        <3>2. CASE \E w \in ways : w.to = n /\ best[j][n] = best[j - 1][w.from] + w.cost
            <4>1. PICK w \in ways : w.to = n /\ best[j][n] = best[j - 1][w.from] + w.cost BY <3>2
            <4>2. w.from \in Node /\ w.cost \in Nat BY <1>1, <1>3, WaysAreTyped DEF WaysTyped
            <4>3. PICK v, c : v = w.from /\ c = w.cost OBVIOUS
            <4>4. best[j - 1][v] \in Nat /\ best[j][n] = best[j - 1][v] + c BY <4>1, <4>2, <4>3, <2>1, <1>7
            <4>5. best[j - 1][v] <= f.limit BY <4>2, <4>3, <4>4, <2>3, <1>3
            <4>6. f.dist[v] <= best[j - 1][v] BY <4>2, <4>3, <4>5, <1>11
            <4>7. f.dist[v] <= f.limit /\ f.dist[v] < Far BY <4>2, <4>3, <4>4, <4>5, <4>6, <1>3, <1>8
            <4>8. v \in Settled(f) BY <4>2, <4>3, <4>7, <1>2 DEF Settled, Done
            <4>9. PICK l \in Legs(v, f.day) : l.to = n /\ l.cost = c
                <5>1. LegsAre(v, f.day) BY <4>2, <4>3, <1>3, LegsAreWays
                <5> QED BY <5>1, <4>1, <4>3, <1>1 DEF LegsAre
            <4>10. f.dist[n] <= f.dist[v] + c BY <4>8, <4>9, <1>2 DEF Searched
            <4> QED BY <4>2, <4>3, <4>4, <4>6, <4>10, <1>8
        <3> QED BY <2>2, <3>1, <3>2 DEF OneMore
    <2> QED BY <2>1, <2>3
<1>12. N \in Exact
    <2>1. 0..N \subseteq Exact
        <3> HIDE DEF Exact
        <3> QED BY <1>4, <1>10, <1>11, ByStep
    <2> QED BY <2>1, <1>4
<1>13. \A n \in Node : best[N][n] <= f.limit => f.dist[n] = best[N][n]
    <2> SUFFICES ASSUME NEW n \in Node, best[N][n] <= f.limit PROVE f.dist[n] = best[N][n] OBVIOUS
    <2>1. f.dist[n] <= best[N][n] BY <1>12
    <2>2. best[N][n] \in Nat BY <1>4, <1>7
    <2> QED BY <2>1, <2>2, <1>8, <1>9
<1>14. \A n \in Node : f.dist[n] >= best[N][n]
    <2> SUFFICES ASSUME NEW n \in Node PROVE f.dist[n] >= best[N][n] OBVIOUS
    <2>1. best[N][n] \in Nat BY <1>4, <1>7
    <2> QED BY <2>1, <1>8, <1>9
<1>15. Shortest(f.near, f.day) = best[N] BY <1>1 DEF Shortest
<1> QED BY <1>1, <1>13, <1>14, <1>15 DEF SearchIsExact

\* The route to a node is made of nodes, the last of them that node.
LEMMA RouteIs ==
    ASSUME FieldTyped(field), NEW n \in Node
    PROVE  RouteTo(n) \in Seq(Node)
<1> DEFINE K == Cardinality(Node)
           back(r) == [i \in 1..Cardinality(field.pred[Head(r)]) |-> CHOOSE p \in field.pred[Head(r)] : TRUE] \o r
           S == {r \in Seq(Node) : r # <<>>}
           Def(f) == [k \in 0..K |-> IF k = 0 THEN <<n>> ELSE back(f[k - 1])]
           step == [x \in S \X (1..K) |-> back(x[1])]
<1>1. K \in Nat BY SettledSize
<1>2. <<n>> \in S OBVIOUS
<1>3. ASSUME NEW r \in S PROVE back(r) \in S
    <2>1. Head(r) \in Node /\ r \in Seq(Node) /\ Len(r) \in Nat /\ Len(r) > 0 BY HeadTailProperties
    <2>2. PICK P : P = field.pred[Head(r)] OBVIOUS
    <2>3. P = {} \/ \E u \in Node : P = {u} BY <2>1, <2>2 DEF FieldTyped
    <2>4. PICK q : q = [i \in 1..Cardinality(P) |-> CHOOSE p \in P : TRUE] OBVIOUS
    <2>5. q \in Seq(Node)
        <3>1. CASE P = {}
            <4>1. Cardinality(P) = 0 BY <3>1, FS_EmptySet
            <4>2. q \in [1..0 -> Node] BY <4>1, <2>4
            <4> QED BY <4>2
        <3>2. CASE \E u \in Node : P = {u}
            <4>1. PICK u \in Node : P = {u} BY <3>2
            <4>2. Cardinality(P) = 1 BY <4>1, FS_Singleton
            <4>3. q \in [1..1 -> Node] BY <4>1, <4>2, <2>4
            <4> QED BY <4>3
        <3> QED BY <2>3, <3>1, <3>2
    <2>6. q \o r \in Seq(Node) /\ Len(q \o r) = Len(q) + Len(r) /\ Len(q) \in Nat
        BY <2>1, <2>5, ConcatProperties, LenProperties
    <2>7. q \o r # <<>>
        <3>1. Len(<<>>) = 0 OBVIOUS
        <3> QED BY <2>1, <2>6, <3>1
    <2>8. back(r) = q \o r BY <2>2, <2>4
    <2> QED BY <2>6, <2>7, <2>8
<1>5. step \in [S \X (1..K) -> S]
    <2>1. \A x \in S \X (1..K) : back(x[1]) \in S
        <3> SUFFICES ASSUME NEW x \in S \X (1..K) PROVE back(x[1]) \in S OBVIOUS
        <3>1. x[1] \in S OBVIOUS
        <3> HIDE DEF S, back
        <3> QED BY <3>1, <1>3
    <2> HIDE DEF S, back
    <2> QED BY <2>1
<1>6. PICK f : Goes(f, K, S, <<n>>, step)
    <2> HIDE DEF step, K, S
    <2> QED BY <1>1, <1>2, <1>5, Recursion, Zenon
<1>7. f = Def(f)
    <2> HIDE DEF S, back, K
    <2>1. ASSUME NEW k \in 0..K PROVE f[k] = IF k = 0 THEN <<n>> ELSE back(f[k - 1])
        <3>1. CASE k = 0 BY <3>1, <1>6 DEF Goes
        <3>2. CASE k # 0
            <4>1. k \in 1..K /\ k - 1 \in 0..K BY <3>2, <1>1
            <4>2. f[k - 1] \in S /\ <<f[k - 1], k>> \in S \X (1..K) BY <4>1, <1>6 DEF Goes
            <4>3. step[<<f[k - 1], k>>] = back(f[k - 1]) BY <4>2
            <4> QED BY <4>1, <4>3, <3>2, <1>6 DEF Goes
        <3> QED BY <3>1, <3>2
    <2> QED BY <1>6, <2>1 DEF Goes
<1>8. PICK g : g = CHOOSE h : h = Def(h) OBVIOUS
<1>9. g = Def(g)
    <2> HIDE DEF back, K, S
    <2> QED BY <1>7, <1>8, Zenon
<1>10. RouteTo(n) = g[K] BY <1>8, Zenon DEF RouteTo
<1> DEFINE T == {k \in 0..K : g[k] \in S}
<1>11. 0..K \subseteq T
    <2>1. 0 \in T BY <1>1, <1>2, <1>9
    <2>2. ASSUME NEW k \in 1..K, k - 1 \in T PROVE k \in T
        <3>1. k \in 0..K /\ k # 0 /\ g[k - 1] \in S BY <2>2, <1>1
        <3>2. g[k] = back(g[k - 1]) BY <3>1, <1>9
        <3>3. g[k] \in S
            <4> HIDE DEF S, back
            <4> QED BY <3>1, <3>2, <1>3
        <3> QED BY <3>1, <3>3
    <2> HIDE DEF T
    <2> QED BY <1>1, <2>1, <2>2, ByStep
<1>12. g[K] \in S BY <1>1, <1>11
<1> QED BY <1>10, <1>12

LEMMA EndIsOpen == ASSUME SearchInv PROVE RoutesAreOpen
<1> SUFFICES ASSUME NEW n \in Node, NEW p \in Flags(n) \cap DOMAIN Pass PROVE ~Shut(Pass[p], field.day)
    BY DEF RoutesAreOpen
<1>1. FieldTyped(field) BY DEF SearchInv
<1>2. RouteTo(n) \in Seq(Node) BY <1>1, RouteIs
<1>3. PICK m \in Range(RouteTo(n)) : p \in field.via[m] BY DEF Flags
<1>4. m \in Node BY <1>2, <1>3, ElementOfSeq DEF Range
<1> QED BY <1>1, <1>3, <1>4 DEF FieldTyped

LEMMA EndIsNear == ASSUME SearchInv PROVE PointIsNear
<1> SUFFICES ASSUME NEW points \in Points
    PROVE LET pick == PickAccessPoint(points, field.day) IN
        /\ Minutes(pick) > field.limit =>
               \A q \in Usable(points, field.day) : Minutes(q) > field.limit - MaxPenalty
        /\ VehicleAccess(pick, field.day) = "no" => \A q \in points : VehicleAccess(q, field.day) = "no"
    BY DEF PointIsNear
<1>1. PICK U, pick : U = Usable(points, field.day) /\ pick = PickAccessPoint(points, field.day) OBVIOUS
<1>2. /\ points # {} /\ \A p \in points : p.key \in Nat /\ p.node \in Node /\ p.minutes \in Nat
      /\ Far \in Nat
    BY NetworkAssumption
<1>3. field.dist \in Drives /\ field.limit \in Nat BY NearIs DEF SearchInv
<1>4. \A p \in points : Minutes(p) \in Nat BY <1>2, <1>3 DEF Minutes, Drives
<1>5. U \subseteq points /\ U # {} BY <1>1, <1>2 DEF Usable
<1>6. \A p \in points : Penalty(p) \in 0..MaxPenalty BY DEF Penalty, MaxPenalty
<1> DEFINE cost(p) == Minutes(p) + Penalty(p)
<1>7. \A p \in points : cost(p) \in Nat BY <1>4, <1>6 DEF MaxPenalty
<1>8. \E p \in U : \A q \in U : cost(p) < cost(q) \/ (cost(p) = cost(q) /\ p.key <= q.key)
    <2> HIDE DEF cost
    <2> DEFINE costs == {cost(p) : p \in U}
    <2>1. costs \subseteq Nat /\ costs # {} BY <1>5, <1>7
    <2>2. PICK c \in costs : \A d \in costs : c <= d
        <3> HIDE DEF costs
        <3> QED BY <2>1, LeastOf
    <2> DEFINE keys == {p.key : p \in {p \in U : cost(p) = c}}
    <2>3. keys \subseteq Nat /\ keys # {} BY <1>2, <1>5, <2>2
    <2>4. PICK k \in keys : \A j \in keys : k <= j
        <3> HIDE DEF keys
        <3> QED BY <2>3, LeastOf
    <2>5. PICK p \in U : cost(p) = c /\ p.key = k BY <2>4
    <2>6. ASSUME NEW q \in U PROVE cost(p) < cost(q) \/ (cost(p) = cost(q) /\ p.key <= q.key)
        <3>1. c <= cost(q) /\ c \in Nat /\ cost(q) \in Nat BY <2>1, <2>2
        <3>2. CASE cost(q) = c
            <4>1. q.key \in keys BY <3>2
            <4> QED BY <2>4, <2>5, <3>2, <4>1
        <3>3. CASE cost(q) # c BY <2>5, <3>1, <3>3
        <3> QED BY <3>2, <3>3
    <2> QED BY <2>6
<1>9. pick \in U /\ \A q \in U : cost(pick) < cost(q) \/ (cost(pick) = cost(q) /\ pick.key <= q.key)
    BY <1>1, <1>8, Zenon DEF PickAccessPoint
<1>10. ASSUME Minutes(pick) > field.limit, NEW q \in U PROVE Minutes(q) > field.limit - MaxPenalty
    <2>1. pick \in points /\ q \in points BY <1>5, <1>9
    <2>2. cost(pick) <= cost(q) BY <1>7, <1>9, <2>1
    <2> QED BY <1>3, <1>4, <1>6, <1>10, <2>1, <2>2 DEF MaxPenalty
<1>11. ASSUME VehicleAccess(pick, field.day) = "no", NEW q \in points PROVE VehicleAccess(q, field.day) = "no"
    BY <1>1, <1>9, <1>11 DEF Usable
<1> QED BY <1>1, <1>10, <1>11

LEMMA EndCountsOnce == WaitCountsOnce
<1> SUFFICES ASSUME NEW f \in Ferry,
                    NEW minutes \in f.crossing..f.crossing + 2 * f.wait[Demand(field.day)]
    PROVE minutes + HereWait(f, minutes, field.day) = Max({minutes, BoardingTime(f, field.day)})
    BY DEF WaitCountsOnce
<1>1. PICK w, c : w = f.wait[Demand(field.day)] /\ c = f.crossing OBVIOUS
<1>2. w \in Nat /\ c \in Nat /\ BoardingTime(f, field.day) = c + w
    BY <1>1, BoardingIs, NetworkAssumption DEF BoardingTime
<1>3. minutes \in Nat /\ minutes >= c BY <1>1, <1>2
<1>4. \A x, y \in Int : Max({x, y}) = IF x >= y THEN x ELSE y
    <2> SUFFICES ASSUME NEW x \in Int, NEW y \in Int PROVE Max({x, y}) = IF x >= y THEN x ELSE y OBVIOUS
    <2>1. PICK z : z = IF x >= y THEN x ELSE y OBVIOUS
    <2>2. z \in {x, y} /\ \A v \in {x, y} : z >= v BY <2>1
    <2>3. \A v \in {x, y} : (\A u \in {x, y} : v >= u) => v = z BY <2>1
    <2>4. Max({x, y}) = z BY <2>2, <2>3 DEF Max
    <2> QED BY <2>1, <2>4
<1>5. HereWait(f, minutes, field.day) = Max({0, w - Max({0, minutes - c})}) BY <1>1 DEF HereWait
<1>6. Max({0, minutes - c}) = minutes - c BY <1>2, <1>3, <1>4
<1>7. Max({0, w - (minutes - c)}) = IF 0 >= w - (minutes - c) THEN 0 ELSE w - (minutes - c)
    BY <1>2, <1>3, <1>4
<1>8. Max({minutes, c + w}) = IF minutes >= c + w THEN minutes ELSE c + w BY <1>2, <1>3, <1>4
<1>9. PICK h : h = HereWait(f, minutes, field.day) OBVIOUS
<1>10. h = IF 0 >= w - (minutes - c) THEN 0 ELSE w - (minutes - c) BY ONLY <1>5, <1>6, <1>7, <1>9
<1>11. minutes + h = IF minutes >= c + w THEN minutes ELSE c + w BY ONLY <1>2, <1>3, <1>10
<1>12. BoardingTime(f, field.day) = c + w BY <1>2
<1> QED BY ONLY <1>8, <1>9, <1>11, <1>12

\* Once the search has ended, its estimates are the shortest drives within the limit over
\* what is open on the day, no route uses a closed pass, the access point chosen is as near
\* as any but for the penalties, and the wait for a boat counts once (road_network.py:109).
THEOREM EstimatesAreExact == FieldSpec => []EstimatesHold
<1>1. SearchInv => EstimatesHold
    BY EndIsExact, EndIsOpen, EndIsNear, EndCountsOnce DEF EstimatesHold
<1> QED BY <1>1, SearchStarts, SearchGoesOn, PTL DEF FieldSpec
=============================================================================
