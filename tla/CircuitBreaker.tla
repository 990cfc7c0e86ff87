--------------------------- MODULE CircuitBreaker ---------------------------
(***************************************************************************)
(* The circuit breaker of one source (conditions/circuit_breaker.py over   *)
(* pybreaker): after FailMax failures in a row the source is not called    *)
(* for ResetTimeout; then one call is tried, and decides.  The result of a *)
(* call is applied to the state that the breaker is in when it arrives.    *)
(***************************************************************************)
EXTENDS Integers

CONSTANTS
    FailMax,        \* fail_max: 3, of the routing service 2
    ResetTimeout    \* reset_timeout, in ticks of the clock

ASSUME BreakerAssumption == FailMax \in Nat \ {0} /\ ResetTimeout \in Nat

BreakerState == [state : {"closed", "open", "half"}, fails : 0..FailMax, openedAt : Nat]

NewBreaker == [state |-> "closed", fails |-> 0, openedAt |-> 0]

\* is_blocking
Blocking(b, now) == b.state = "open" /\ now < b.openedAt + ResetTimeout

\* call_coroutine: a call after the timeout is a trial, and so are all that start before it ends
Admitted(b) == IF b.state = "open" THEN [b EXCEPT !.state = "half"] ELSE b

OpenSince(now) == [state |-> "open", fails |-> FailMax, openedAt |-> now]

\* faulty variant: a failure that arrives late restarts the timeout
FailureReopens(b, now) ==
    IF b.state = "closed" /\ b.fails + 1 < FailMax THEN [b EXCEPT !.fails = @ + 1]
    ELSE OpenSince(now)

\* a failure trips a closed breaker at the limit, a trial always, and an open one not again
OnFailure(b, now) ==
    CASE b.state = "closed" -> IF b.fails + 1 >= FailMax THEN OpenSince(now) ELSE [b EXCEPT !.fails = @ + 1]
      [] b.state = "half"   -> OpenSince(now)
      [] b.state = "open"   -> b

\* faulty variant: a success does not end the row of failures
SuccessKeepsCount(b) == IF b.state = "half" THEN NewBreaker ELSE b

\* faulty variant: a success that arrives late closes the breaker
SuccessCloses(b) == [b EXCEPT !.fails = 0, !.state = "closed"]

\* a success ends the row of failures; only a trial's closes an open breaker
OnSuccess(b) == [b EXCEPT !.fails = 0, !.state = IF @ = "half" THEN "closed" ELSE @]

\* _client_error, ScraperStructureError: the service has answered
CountsAsFailure(outcome) == outcome \in {"server", "timeout", "garbled"}

\* what the breaker makes of a call; a cancelled one tells it nothing
Resulting(b, outcome, now) ==
    IF outcome = "cancelled" THEN b
    ELSE IF CountsAsFailure(outcome) THEN OnFailure(b, now) ELSE OnSuccess(b)
=============================================================================
