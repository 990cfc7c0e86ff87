----------------------------- MODULE HereBudget -----------------------------
(***************************************************************************)
(* The monthly cap on billable HERE requests                               *)
(* (backend/conditions/here_budget.py).  One row of here_usage_counter per *)
(* UTC month is shared by every gunicorn worker; reserve() claims requests *)
(* under a row lock and its callers (drive_times.verify_top, the two       *)
(* geocoders) then send at most what was granted.                          *)
(*                                                                         *)
(* A task is one call of reserve() with the HERE calls it pays for.  Each  *)
(* statement of the transaction is a step, so tasks of different workers   *)
(* interleave between any two of them, and a task may lose its database    *)
(* connection or its process at every step.                                *)
(***************************************************************************)
EXTENDS Integers, FiniteSets

CONSTANTS
    Task,       \* concurrent callers of reserve(), over all the workers
    Cap,        \* _MONTHLY_CAP
    MaxAsk,     \* largest n a caller asks for (the callers in src/ ask for 1)
    LastMonth,  \* bound: the calendar runs over months 0..LastMonth
    NoTask

ASSUME BudgetAssumption ==
    /\ IsFiniteSet(Task)
    /\ Cap \in Nat
    /\ MaxAsk \in Nat
    /\ LastMonth \in Nat
    /\ NoTask \notin Task

Month == 0..LastMonth
NoRow == -1

VARIABLES
    month,      \* the current UTC month
    counter,    \* counter[m]: committed `used` of month m's row, or NoRow
    holder,     \* holder[m]: the task whose open transaction has locked the row
    task,       \* the local state of each task
    granted,    \* granted[m]: requests promised against month m so far
    billed      \* billed[m]: requests HERE received during month m

vars == <<month, counter, holder, task, granted, billed>>

\* used is what SELECT ... FOR UPDATE returned, left what may still be sent
TaskState ==
    [pc : {"idle", "open", "row", "locked", "counted", "paid"},
     period : Month, ask : 0..MaxAsk, used : 0..Cap, left : 0..MaxAsk]

Idle == [pc |-> "idle", period |-> 0, ask |-> 0, used |-> 0, left |-> 0]

TypeOK ==
    /\ month \in Month
    /\ counter \in [Month -> {NoRow} \cup 0..Cap]
    /\ holder \in [Month -> Task \cup {NoTask}]
    /\ task \in [Task -> TaskState]
    /\ granted \in [Month -> Nat]
    /\ billed \in [Month -> Nat]

Init ==
    /\ month = 0
    /\ counter = [m \in Month |-> NoRow]
    /\ holder = [m \in Month |-> NoTask]
    /\ task = [t \in Task |-> Idle]
    /\ granted = [m \in Month |-> 0]
    /\ billed = [m \in Month |-> 0]

-----------------------------------------------------------------------------
\* faulty variant: the request is cut to the cap, not to what is left of it
GrantOfWhole(used, n) == IF n <= Cap THEN n ELSE Cap

\* max(0, min(n, cap - used))
Grant(used, n) ==
    IF n <= Cap - used THEN n ELSE IF used <= Cap THEN Cap - used ELSE 0

\* what the month's row counts, a missing row counting nothing
Charged(m) == IF counter[m] = NoRow THEN 0 ELSE counter[m]

Release(t, m) == [holder EXCEPT ![m] = IF holder[m] = t THEN NoTask ELSE holder[m]]

\* reserve(n) with n > 0: the period is read from the clock before anything else
Reserve(t, n) ==
    /\ task[t].pc = "idle"
    /\ task' = [task EXCEPT ![t] = [Idle EXCEPT !.pc = "open", !.period = month, !.ask = n]]
    /\ UNCHANGED <<month, counter, holder, granted, billed>>

(***************************************************************************)
(* INSERT ... ON CONFLICT DO NOTHING.  With no committed row the inserting  *)
(* transaction owns the new one until it ends, and a second insert of the  *)
(* same period waits for it; over a committed row it changes nothing.      *)
(***************************************************************************)
EnsureRow(t) ==
    LET m == task[t].period IN
    /\ task[t].pc = "open"
    /\ \/ counter[m] # NoRow /\ UNCHANGED holder
       \/ /\ counter[m] = NoRow
          /\ holder[m] = NoTask
          /\ holder' = [holder EXCEPT ![m] = t]
    /\ task' = [task EXCEPT ![t].pc = "row"]
    /\ UNCHANGED <<month, counter, granted, billed>>

\* faulty variant: a plain SELECT, without the row lock
ReadRow(t) ==
    LET m == task[t].period IN
    /\ task[t].pc = "row"
    /\ task' = [task EXCEPT ![t].pc = "locked", ![t].used = Charged(m)]
    /\ UNCHANGED <<month, counter, holder, granted, billed>>

\* SELECT used ... FOR UPDATE waits for the row lock, then reads the last committed value
LockRow(t) ==
    LET m == task[t].period IN
    /\ task[t].pc = "row"
    /\ holder[m] \in {NoTask, t}
    /\ holder' = [holder EXCEPT ![m] = t]
    /\ task' = [task EXCEPT ![t].pc = "locked",
                            ![t].used = Charged(m)]
    /\ UNCHANGED <<month, counter, granted, billed>>

\* the grant and, when it is not zero, the UPDATE inside the open transaction
Count(t) ==
    /\ task[t].pc = "locked"
    /\ task' = [task EXCEPT ![t].pc = "counted",
                            ![t].left = Grant(task[t].used, task[t].ask)]
    /\ UNCHANGED <<month, counter, holder, granted, billed>>

\* faulty variant: SET used = grant
CommittedOver(t) ==
    LET m == task[t].period IN
    /\ task[t].pc = "counted"
    /\ counter' = [counter EXCEPT ![m] = task[t].left]
    /\ holder' = Release(t, m)

Committed(t) ==
    LET m == task[t].period IN
    /\ task[t].pc = "counted"
    /\ counter' = [counter EXCEPT ![m] = task[t].used + task[t].left]
    /\ holder' = Release(t, m)

\* the commit succeeds and reserve() returns the grant
Commit(t) ==
    /\ Committed(t)
    /\ task' = [task EXCEPT ![t].pc = "paid"]
    /\ granted' = [granted EXCEPT ![task[t].period] = @ + task[t].left]
    /\ UNCHANGED <<month, billed>>

\* the server committed but the reply was lost: counted, and denied to the caller
CommitUnseen(t) ==
    /\ Committed(t)
    /\ task' = [task EXCEPT ![t] = Idle]
    /\ UNCHANGED <<month, granted, billed>>

\* faulty variant: the failed transaction is left open
FailOpen(t) ==
    /\ task[t].pc \in {"open", "row", "locked", "counted"}
    /\ task' = [task EXCEPT ![t] = Idle]
    /\ UNCHANGED <<month, counter, holder, granted, billed>>

\* the budget store fails, or the worker dies, before the commit: rolled back, denied
Fail(t) ==
    /\ task[t].pc \in {"open", "row", "locked", "counted"}
    /\ holder' = Release(t, task[t].period)
    /\ task' = [task EXCEPT ![t] = Idle]
    /\ UNCHANGED <<month, counter, granted, billed>>

\* faulty variant: a failed request is retried on the same grant
CallHereRetry(t) ==
    /\ task[t].pc = "paid"
    /\ task[t].left > 0
    /\ billed' = [billed EXCEPT ![month] = @ + 1]
    /\ UNCHANGED <<month, counter, holder, task, granted>>

\* one granted request leaves for HERE; it is billed to the month in which it arrives
CallHere(t) ==
    /\ task[t].pc = "paid"
    /\ task[t].left > 0
    /\ task' = [task EXCEPT ![t].left = @ - 1]
    /\ billed' = [billed EXCEPT ![month] = @ + 1]
    /\ UNCHANGED <<month, counter, holder, granted>>

\* nothing left to send, or the rest goes unused (routing breaker open, worker killed)
Finish(t) ==
    /\ task[t].pc = "paid"
    /\ task' = [task EXCEPT ![t] = Idle]
    /\ UNCHANGED <<month, counter, holder, granted, billed>>

Rollover ==
    /\ month < LastMonth
    /\ month' = month + 1
    /\ UNCHANGED <<counter, holder, task, granted, billed>>

Answer(t) == EnsureRow(t) \/ LockRow(t) \/ Count(t) \/ Commit(t)

Next ==
    \/ Rollover
    \/ \E t \in Task :
        \/ \E n \in 1..MaxAsk : Reserve(t, n)
        \/ EnsureRow(t) \/ LockRow(t) \/ Count(t) \/ Commit(t)
        \/ CommitUnseen(t) \/ Fail(t) \/ CallHere(t) \/ Finish(t)

\* Postgres grants a contended row lock in arrival order, hence strong fairness
Fairness == \A t \in Task : SF_vars(Answer(t)) /\ WF_vars(Finish(t))

Spec == Init /\ [][Next]_vars /\ Fairness
-----------------------------------------------------------------------------
Holds(t) == task[t].pc \in {"locked", "counted"}

\* Two transactions never both hold one month's row, and what a holder has read
\* is still the committed count, whatever the other workers do meanwhile (the
\* FOR UPDATE of reserve()).
LockedReadIsCurrent ==
    \A t \in Task : Holds(t) =>
        /\ holder[task[t].period] = t
        /\ counter[task[t].period] \in {task[t].used, NoRow}
        /\ counter[task[t].period] = NoRow => task[t].used = 0

\* Every grant is in the committed count: no interleaving, rollback or lost
\* commit reply lets reserve() promise requests the counter does not hold.
GrantsAreCounted == \A m \in Month : granted[m] <= Charged(m)

\* The promise of the module: per month, never more than Cap requests granted.
GrantedWithinCap == \A m \in Month : granted[m] <= Cap

\* What a month's bill can reach: its own cap, and for each task one grant that
\* was claimed before the rollover and sent after it.
BilledWithinCapAndCarry ==
    \A m \in Month : billed[m] <= Cap + MaxAsk * Cardinality(Task)

\* A committed count never goes down: a month's row only ever grows, across
\* rollbacks, restarts and the rollover.
CountersOnlyGrow == [][\A m \in Month : counter'[m] >= counter[m]]_vars

\* The row's count, over workers, rollbacks and lost commit replies, is one
\* allowance that is only ever drawn down to the cap (reserve() as a whole).
Allowance == INSTANCE MonthlyAllowance WITH drawn <- [m \in Month |-> Charged(m)]
ImplementsAllowance == Allowance!Spec

\* Every reserve() is answered: the row lock is never leaked to a waiter's cost.
EveryReserveAnswered == \A t \in Task : task[t].pc = "open" ~> task[t].pc \in {"paid", "idle"}
=============================================================================
