-------------------------- MODULE MonthlyAllowance --------------------------
(***************************************************************************)
(* What the HERE budget promises, without workers, transactions or         *)
(* failures: requests are drawn from a month's allowance one draw at a     *)
(* time, and a draw never takes what is not there.                         *)
(***************************************************************************)
EXTENDS Integers

CONSTANTS Cap, Month

VARIABLE drawn      \* drawn[m]: requests charged to month m

Init == drawn = [m \in Month |-> 0]

Draw(m, k) ==
    /\ drawn[m] + k <= Cap
    /\ drawn' = [drawn EXCEPT ![m] = @ + k]

Next == \E m \in Month : \E k \in 0..Cap : Draw(m, k)

Spec == Init /\ [][Next]_drawn
=============================================================================
