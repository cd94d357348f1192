---------------------------- MODULE MCProjection ----------------------------
(* Two curves, a pool in use, one that is nearly lent out, and a new one.  *)
EXTENDS Projection

CONSTANTS none

Low == [base |-> 1, slope1 |-> 2, slope2 |-> 6, optimal |-> 5, reserve |-> 1]
Steep == [base |-> 0, slope1 |-> 4, slope2 |-> 4, optimal |-> 10, reserve |-> 2]
MCCurves == {Low, Steep}

InUse == [scaled |-> 4000, index |-> 10000, debt |-> 6000, supplied |-> 10000, rate |-> 10000,
          cash |-> 4500, reserve |-> 500, last |-> 2, curve |-> Low]
LentOut == [scaled |-> 0, index |-> 11000, debt |-> 9500, supplied |-> 9000, rate |-> 10800,
            cash |-> 220, reserve |-> 0, last |-> 2, curve |-> Steep]
New == [scaled |-> Missing, index |-> 10000, debt |-> 0, supplied |-> 1000, rate |-> 10000,
        cash |-> 1000, reserve |-> 0, last |-> 0, curve |-> none]
MCPools == {InUse, LentOut, New}
MCAmounts == {-2000, 200}
MCSkews == {-1, 1}

\* pow_fixed against multiplying step by step: they round differently, by no
\* more than a unit for each factor
Stepwise[base \in Nat, exp \in Nat] ==
    IF exp = 0 THEN Scale ELSE Times(Stepwise[base, exp - 1], base)

ASSUME PowIsAPower ==
    \A hourly \in {0, 1, 17, 250, 999}, exp \in 0 .. 9 :
        LET difference == pow_fixed(Scale + hourly, exp) - Stepwise[Scale + hourly, exp]
        IN  difference \in -exp .. exp

\* The borrow rate never falls as more is lent, over the kink as well: this is
\* why an old reading of the market projects no more than a new one.
ASSUME RateNeverFalls ==
    \A curve \in {Ratios(Low), Ratios(Steep)} : \A u \in 1 .. 40 :
        compute_borrow_rate(curve, ((u - 1) * Scale) \div 40)
            <= compute_borrow_rate(curve, (u * Scale) \div 40)
=============================================================================
