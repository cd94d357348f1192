------------------------------ MODULE Interest ------------------------------
(***************************************************************************)
(* The interest arithmetic of lending_interest.py: integers alone, ratios  *)
(* at Scale (10^18 in the code), times in milliseconds, a floor after      *)
(* every product.  A curve holds base, slope1, slope2, optimal and reserve *)
(* (the reserve factor) as ratios.                                         *)
(***************************************************************************)
EXTENDS Integers

CONSTANTS Scale, BpsScale, MsPerHour, HoursPerYear

ASSUME ScalesAssumption ==
    /\ {Scale, BpsScale, MsPerHour, HoursPerYear} \subseteq Nat \ {0}
    /\ Scale % BpsScale = 0

Times(a, b) == (a * b) \div Scale

bps_to_ratio_inner(bps) == bps * (Scale \div BpsScale)

\* Mutant: the reserve is left out of the balance sheet
derive_cash_without_reserve(supplied, rate, debt, reserve) ==
    LET cash == Times(supplied, rate) - debt IN IF cash > 0 THEN cash ELSE 0

derive_cash(supplied, rate, debt, reserve) ==
    LET cash == Times(supplied, rate) - debt + reserve IN IF cash > 0 THEN cash ELSE 0

face_from_ltao(ltokens, rate) == Times(ltokens, rate)

\* one round of the loop of pow_fixed: a factor for a bit that is set, the
\* square of the base, the next bit
Round == [s \in [base : Nat, result : Nat, exp : Nat] |->
    IF s.exp = 0 THEN s
    ELSE [base |-> Times(s.base, s.base),
          result |-> IF s.exp % 2 = 1 THEN Times(s.result, s.base) ELSE s.result,
          exp |-> s.exp \div 2]]

\* square and multiply; so many rounds leave no bit of the exponent
pow_fixed(base, exp) ==
    LET rounds[i \in Nat] ==
            IF i = 0 THEN [base |-> base, result |-> Scale, exp |-> exp]
            ELSE Round[rounds[i - 1]]
    IN  rounds[exp].result

Utilization(debt, cash) == IF debt > 0 THEN (debt * Scale) \div (debt + cash) ELSE 0

\* the ValueError of compute_borrow_rate
NoRate == -1

compute_borrow_rate(curve, utilization) ==
    CASE utilization = 0 -> curve.base
      [] utilization > 0 /\ utilization <= curve.optimal ->
            curve.base + Times(curve.slope1, (utilization * Scale) \div curve.optimal)
      [] utilization > curve.optimal /\ curve.optimal # Scale ->
            curve.base + curve.slope1
              + Times(curve.slope2,
                      ((utilization - curve.optimal) * Scale) \div (Scale - curve.optimal))
      [] OTHER -> NoRate

\* Mutant: a started hour counts
started_hours(last, now) ==
    IF now > last THEN (now - last + MsPerHour - 1) \div MsPerHour ELSE 0

\* whole hours, none when the clock is behind
dt_hours(last, now) == IF now > last THEN (now - last) \div MsPerHour ELSE 0

\* what a rate makes of an amount within so many hours, if debt is live
Grown(amount, annual, debt, hours) ==
    IF debt > 0 /\ hours > 0
    THEN Times(amount, pow_fixed(Scale + annual \div HoursPerYear, hours))
    ELSE amount

\* suppliers get the borrowers' rate on what is lent, less the reserve's share
SupplyRate(curve, utilization) ==
    Times(Times(compute_borrow_rate(curve, utilization), utilization), Scale - curve.reserve)

\* Mutant: the interest alone, without the debt it is due on
project_interest(scaled, index, debt, cash, curve, last, now) ==
    LET annual == compute_borrow_rate(curve, Utilization(debt, cash))
        grown == Grown(index, annual, debt, dt_hours(last, now))
    IN  [index |-> grown, debt |-> Times(scaled, grown) - Times(scaled, index),
         hours |-> dt_hours(last, now)]

\* the projected borrow index and debt; callers drop a projection without rate
project_debt(scaled, index, debt, cash, curve, last, now) ==
    LET annual == compute_borrow_rate(curve, Utilization(debt, cash))
        grown == Grown(index, annual, debt, dt_hours(last, now))
    IN  [index |-> grown, debt |-> Times(scaled, grown), hours |-> dt_hours(last, now)]

project_exchange_rate(rate, debt, cash, curve, last, now) ==
    [rate |-> Grown(rate, SupplyRate(curve, Utilization(debt, cash)), debt, dt_hours(last, now)),
     hours |-> dt_hours(last, now)]
=============================================================================
