-------------------------- MODULE SchedulerElection --------------------------
(***************************************************************************)
(* Which worker runs the scheduled jobs (backend/main.py startup and       *)
(* shutdown, conditions/scheduler.py start_scheduler and stop_scheduler).  *)
(* Each worker tries a Postgres advisory lock once, when it starts; the    *)
(* lock belongs to its connection.  Postgres learns of a dead connection   *)
(* some time after the worker died, and drops every lock when it restarts. *)
(***************************************************************************)
EXTENDS FiniteSets

CONSTANTS Worker, None, Ghost   \* Ghost: the connection of a worker that is gone

ASSUME ElectionAssumption == None # Ghost /\ {None, Ghost} \cap Worker = {}

VARIABLES
    proc,       \* what gunicorn has of each worker
    runs,       \* runs[w]: the scheduler of w is running
    holder,     \* whose connection holds the lock
    dropped,    \* the workers whose lock Postgres has dropped since they got it
    missed      \* a worker started while a dead worker's connection held the lock,
                \* and nobody was elected since

electionVars == <<proc, runs, holder, dropped, missed>>

ElectionTypeOK ==
    /\ proc \in [Worker -> {"down", "starting", "up", "stopping"}]
    /\ runs \in [Worker -> BOOLEAN]
    /\ holder \in Worker \cup {None, Ghost}
    /\ dropped \subseteq Worker
    /\ missed \in BOOLEAN

ElectionInit ==
    /\ proc = [w \in Worker |-> "down"]
    /\ runs = [w \in Worker |-> FALSE]
    /\ holder = None /\ dropped = {} /\ missed = FALSE

-----------------------------------------------------------------------------

\* gunicorn starts, or replaces, a worker, and it connects
Boot(w) ==
    /\ proc[w] = "down"
    /\ proc' = [proc EXCEPT ![w] = "starting"]
    /\ UNCHANGED <<runs, holder, dropped, missed>>

\* pg_try_advisory_lock does not wait: granted or not, the worker serves requests then
TryLock(w) ==
    /\ proc[w] = "starting"
    /\ proc' = [proc EXCEPT ![w] = "up"]
    /\ IF holder = None
       THEN /\ holder' = w
            /\ runs' = [runs EXCEPT ![w] = TRUE]
            /\ missed' = FALSE
       ELSE /\ missed' = (missed \/ holder = Ghost)
            /\ UNCHANGED <<runs, holder>>
    /\ UNCHANGED dropped

\* faulty variant: the connection goes back to the pool with its lock
LeftHeld(workers) == holder

\* the lock goes with the connection, once Postgres notices
Left(workers) == IF holder \in workers THEN Ghost ELSE holder

\* a crash, an out-of-memory kill or gunicorn's timeout
Die(w) ==
    /\ proc[w] # "down"
    /\ proc' = [proc EXCEPT ![w] = "down"]
    /\ runs' = [runs EXCEPT ![w] = FALSE]
    /\ holder' = Left({w})
    /\ dropped' = dropped \ {w}
    /\ UNCHANGED missed

\* a worker that cannot start (no connection, no job store) makes gunicorn halt: systemd
\* starts all of them anew
BootFails(w) ==
    /\ proc[w] = "starting"
    /\ proc' = [v \in Worker |-> "down"]
    /\ runs' = [v \in Worker |-> FALSE]
    /\ holder' = Left(Worker)
    /\ dropped' = {}
    /\ UNCHANGED missed

\* faulty variant: the connection is closed before the scheduler is stopped
ReleaseFirst(w) ==
    /\ proc[w] = "up"
    /\ proc' = [proc EXCEPT ![w] = "stopping"]
    /\ holder' = IF holder = w THEN None ELSE holder
    /\ UNCHANGED <<runs, dropped, missed>>

\* shutdown: the scheduler stops first
StopScheduler(w) ==
    /\ proc[w] = "up"
    /\ proc' = [proc EXCEPT ![w] = "stopping"]
    /\ runs' = [runs EXCEPT ![w] = FALSE]
    /\ UNCHANGED <<holder, dropped, missed>>

\* ... then the connection goes, with the process
Leave(w) ==
    /\ proc[w] = "stopping"
    /\ proc' = [proc EXCEPT ![w] = "down"]
    /\ runs' = [runs EXCEPT ![w] = FALSE]
    /\ holder' = Left({w})
    /\ dropped' = dropped \ {w}
    /\ UNCHANGED missed

Notice ==
    /\ holder = Ghost
    /\ holder' = None
    /\ UNCHANGED <<proc, runs, dropped, missed>>

\* Postgres restarts: no worker learns that its lock is gone
DatabaseRestarts ==
    /\ holder # None
    /\ dropped' = dropped \cup ({holder} \cap Worker)
    /\ holder' = None
    /\ UNCHANGED <<proc, runs, missed>>

ElectionNext ==
    \/ \E w \in Worker : \/ Boot(w) \/ TryLock(w) \/ BootFails(w)
                         \/ StopScheduler(w) \/ Leave(w) \/ Die(w)
    \/ Notice \/ DatabaseRestarts

ElectionSpec == ElectionInit /\ [][ElectionNext]_electionVars

-----------------------------------------------------------------------------
(* Properties *)

OneScheduler ==
    \A v, w \in Worker : runs[v] /\ runs[w] /\ v # w => v \in dropped \/ w \in dropped
SomeScheduler == \E w \in Worker : runs[w]

(* The jobs are run, and by one worker: two schedulers run only after Postgres has dropped the lock of   *)
(* one of them, whatever workers are replaced or shut down (main.py:105); and when every worker is up,   *)
(* one of them runs the scheduler, unless the last chance was missed: a worker started while a dead      *)
(* one's connection still held the lock (main.py:117).                                                   *)
JobsAttended ==
    /\ OneScheduler
    /\ (\A w \in Worker : proc[w] = "up") /\ Worker # {} /\ ~missed => SomeScheduler
=============================================================================
