-------------------------- MODULE ProjectionProofs --------------------------
(***************************************************************************)
(* The interest arithmetic at every scale: what a floor loses, how the     *)
(* borrow rate moves with utilization, what the rounds of pow_fixed keep,  *)
(* what the local clock can cost; and the projections of Projection, for   *)
(* every pool, curve and clock.                                            *)
(*                                                                         *)
(* The induction theorems of the library take an operator, which the       *)
(* provers cannot instantiate.  That a set of natural numbers has a least  *)
(* member is a statement about sets, and what an induction needs.          *)
(***************************************************************************)
EXTENDS Projection, SequenceTheorems, WellFoundedInduction, TLAPS

Ratio == 0 .. Scale

\* Any rates, an optimum and a reserve factor of 0 to 100 %.
Curve == [base : Nat, slope1 : Nat, slope2 : Nat, optimal : Ratio, reserve : Ratio]

LEMMA Positive == Scale \in Nat \ {0} /\ MsPerHour \in Nat \ {0}
  BY ScalesAssumption

LEMMA DivFacts ==
  ASSUME NEW a \in Int, NEW n \in Nat \ {0}
  PROVE  a \div n \in Int /\ n * (a \div n) <= a /\ a < n * (a \div n) + n
  OBVIOUS

LEMMA DivMonotone ==
  ASSUME NEW a \in Int, NEW b \in Int, NEW n \in Nat \ {0}, a <= b
  PROVE  a \div n <= b \div n
  OBVIOUS

LEMMA MulMonotone ==
  ASSUME NEW a \in Int, NEW b \in Int, NEW k \in Nat, a <= b
  PROVE  k * a <= k * b
  OBVIOUS

LEMMA DivNatural ==
  ASSUME NEW a \in Nat, NEW n \in Nat \ {0}
  PROVE  a \div n \in Nat
<1>1. a \div n \in Int /\ 0 \div n <= a \div n /\ 0 \div n = 0
  BY DivFacts, DivMonotone
<1>2. QED
  BY <1>1

LEMMA DivExact ==
  ASSUME NEW a \in Nat, NEW n \in Nat \ {0}
  PROVE  (a * n) \div n = a
  OBVIOUS

LEMMA MulNatural ==
  ASSUME NEW a \in Nat, NEW b \in Nat
  PROVE  a * b \in Nat
  OBVIOUS

LEMMA TimesFacts ==
  ASSUME NEW k \in Nat
  PROVE  /\ \A a \in Nat : Times(k, a) \in Nat
         /\ \A a, b \in Nat : a <= b => Times(k, a) <= Times(k, b)
         /\ \A a \in Nat : a <= Scale => Times(k, a) <= k
<1>1. ASSUME NEW a \in Nat PROVE Times(k, a) \in Nat
  <2>1. k * a \in Nat
    BY MulNatural
  <2>2. QED
    BY <2>1, DivNatural, Positive DEF Times
<1>2. ASSUME NEW a \in Nat, NEW b \in Nat, a <= b PROVE Times(k, a) <= Times(k, b)
  <2>1. k * a <= k * b /\ k * a \in Int /\ k * b \in Int
    BY <1>2, MulMonotone, MulNatural
  <2>2. QED
    BY <2>1, DivMonotone, Positive DEF Times
<1>3. Times(k, Scale) = k
  BY DivExact, Positive DEF Times
<1>4. ASSUME NEW a \in Nat, a <= Scale PROVE Times(k, a) <= k
  BY <1>2, <1>3, <1>4, Positive
<1>5. QED
  BY <1>1, <1>2, <1>4

----------------------------------------------------------------------------
(* The clock. *)

LEMMA DivNear ==
  ASSUME NEW a \in Int, NEW b \in Int, NEW n \in Nat \ {0}, a <= b, b < a + n
  PROVE  b \div n \in (a \div n) .. (a \div n) + 1
<1>1. a \div n \in Int /\ b \div n \in Int /\ a \div n <= b \div n
  BY DivFacts, DivMonotone
<1>2. (a + n) \div n = a \div n + 1
  OBVIOUS
<1>3. b \div n <= (a + n) \div n
  BY DivMonotone
<1>4. QED
  BY <1>1, <1>2, <1>3

\* The comment at lending.py:1345 holds for every length of an hour: a local
\* clock that is off by less than an hour shifts dt_hours by one at the most.
THEOREM SkewCostsAnHour ==
  ASSUME NEW last \in Int, NEW chain \in Int, NEW local \in Int,
         local < chain + MsPerHour, chain < local + MsPerHour
  PROVE  dt_hours(last, local) \in dt_hours(last, chain) - 1 .. dt_hours(last, chain) + 1
<1> DEFINE Since(t) == IF t > last THEN t - last ELSE 0
<1>1. ASSUME NEW t \in Int PROVE dt_hours(last, t) = Since(t) \div MsPerHour
  <2>1. 0 \div MsPerHour = 0
    BY Positive
  <2>2. QED
    BY <2>1 DEF dt_hours
<1>2. Since(chain) \in Int /\ Since(local) \in Int
  OBVIOUS
<1>3. CASE chain <= local
  <2>1. Since(chain) <= Since(local) /\ Since(local) < Since(chain) + MsPerHour
    BY <1>3, Positive
  <2> HIDE DEF Since
  <2>2. Since(local) \div MsPerHour \in
            (Since(chain) \div MsPerHour) .. (Since(chain) \div MsPerHour) + 1
    BY <1>2, <2>1, DivNear, Positive
  <2>3. Since(chain) \div MsPerHour \in Int
    BY <1>2, DivFacts, Positive
  <2>4. QED
    BY <1>1, <2>2, <2>3
<1>4. CASE local < chain
  <2>1. Since(local) <= Since(chain) /\ Since(chain) < Since(local) + MsPerHour
    BY <1>4, Positive
  <2> HIDE DEF Since
  <2>2. Since(chain) \div MsPerHour \in
            (Since(local) \div MsPerHour) .. (Since(local) \div MsPerHour) + 1
    BY <1>2, <2>1, DivNear, Positive
  <2>3. Since(chain) \div MsPerHour \in Int /\ Since(local) \div MsPerHour \in Int
    BY <1>2, DivFacts, Positive
  <2>4. QED
    BY <1>1, <2>2, <2>3
<1>5. QED
  BY <1>3, <1>4

----------------------------------------------------------------------------
(* The borrow rate. *)

\* Below the optimum the rate stays between the base and base + slope1.
LEMMA BelowOptimum ==
  ASSUME NEW curve \in Curve, NEW u \in Ratio, NEW v \in Ratio,
         u <= v, v <= curve.optimal
  PROVE  /\ compute_borrow_rate(curve, u) \in Nat
         /\ compute_borrow_rate(curve, u) <= compute_borrow_rate(curve, v)
         /\ compute_borrow_rate(curve, v) <= curve.base + curve.slope1
<1> DEFINE part(w) == (w * Scale) \div curve.optimal
           rate(w) == compute_borrow_rate(curve, w)
<1>1. /\ curve.optimal \in Nat /\ curve.optimal <= Scale /\ curve.slope1 \in Nat
      /\ curve.base \in Nat /\ u \in Nat /\ v \in Nat /\ v <= Scale /\ Scale \in Nat
  BY Positive DEF Curve, Ratio
<1>2. \A w \in Nat : w <= curve.optimal =>
        rate(w) = IF w = 0 THEN curve.base ELSE curve.base + Times(curve.slope1, part(w))
  BY <1>1 DEF compute_borrow_rate
<1>3. CASE v = 0
  BY <1>1, <1>2, <1>3
<1>4. CASE v # 0
  <2>1. curve.optimal \in Nat \ {0}
    BY <1>1, <1>4
  <2>2. ASSUME NEW w \in Nat, w <= curve.optimal PROVE part(w) \in Nat /\ part(w) <= Scale
    <3>1. w * Scale \in Nat /\ Scale * w <= Scale * curve.optimal
      BY <1>1, <2>2, MulNatural, MulMonotone
    <3>2. (Scale * curve.optimal) \div curve.optimal = Scale
      BY <1>1, <2>1, DivExact
    <3>3. w * Scale = Scale * w /\ Scale * w \in Int /\ Scale * curve.optimal \in Int
      BY <1>1
    <3>4. part(w) \in Nat
      BY <2>1, <3>1, DivNatural
    <3>5. part(w) <= Scale
      BY <2>1, <3>1, <3>2, <3>3, DivMonotone
    <3>6. QED
      BY <3>4, <3>5
  <2>3. part(u) <= part(v)
    <3>1. Scale * u <= Scale * v
      BY <1>1, MulMonotone
    <3>2. u * Scale \in Int /\ v * Scale \in Int /\ u * Scale <= v * Scale
      BY <1>1, <3>1
    <3>3. QED
      BY <2>1, <3>2, DivMonotone
  <2>4. u <= curve.optimal /\ v <= curve.optimal
    BY <1>1
  <2>5. part(u) \in Nat /\ part(v) \in Nat /\ part(v) <= Scale
    BY <1>1, <2>2, <2>4
  <2> HIDE DEF part
  <2>6. /\ Times(curve.slope1, part(u)) \in Nat /\ Times(curve.slope1, part(v)) \in Nat
        /\ Times(curve.slope1, part(u)) <= Times(curve.slope1, part(v))
        /\ Times(curve.slope1, part(v)) <= curve.slope1
    BY <1>1, <2>3, <2>5, TimesFacts
  <2> HIDE DEF rate
  <2>7. QED
    BY <1>1, <1>2, <1>4, <2>4, <2>6 DEF rate
<1>5. QED
  BY <1>3, <1>4

\* Above it, at base + slope1 and more.
LEMMA AboveOptimum ==
  ASSUME NEW curve \in Curve, NEW u \in Ratio, NEW v \in Ratio,
         curve.optimal < u, u <= v
  PROVE  /\ compute_borrow_rate(curve, u) \in Nat /\ compute_borrow_rate(curve, v) \in Nat
         /\ curve.base + curve.slope1 <= compute_borrow_rate(curve, u)
         /\ compute_borrow_rate(curve, u) <= compute_borrow_rate(curve, v)
<1> DEFINE part(w) == ((w - curve.optimal) * Scale) \div (Scale - curve.optimal)
<1>1. /\ curve.optimal \in Nat /\ Scale - curve.optimal \in Nat \ {0}
      /\ curve.base \in Nat /\ curve.slope1 \in Nat /\ curve.slope2 \in Nat
  BY Positive DEF Curve, Ratio
<1>2. ASSUME NEW w \in Ratio, curve.optimal < w PROVE part(w) \in Nat
  <2>1. (w - curve.optimal) * Scale \in Nat
    BY <1>1, <1>2, Positive, MulNatural DEF Ratio
  <2>2. QED
    BY <1>1, <2>1, DivNatural
<1>3. part(u) <= part(v)
  <2>1. Scale * (u - curve.optimal) <= Scale * (v - curve.optimal)
    BY <1>1, Positive, MulMonotone DEF Ratio
  <2>2. /\ (u - curve.optimal) * Scale \in Int /\ (v - curve.optimal) * Scale \in Int
        /\ (u - curve.optimal) * Scale <= (v - curve.optimal) * Scale
    BY <1>1, <2>1, Positive DEF Ratio
  <2>3. QED
    BY <1>1, <2>2, DivMonotone
<1>4. ASSUME NEW w \in Ratio, curve.optimal < w
      PROVE  compute_borrow_rate(curve, w) =
                curve.base + curve.slope1 + Times(curve.slope2, part(w))
  BY <1>1, <1>4 DEF compute_borrow_rate, Ratio
<1>5. curve.optimal < v
  BY <1>1 DEF Ratio
<1>6. part(u) \in Nat /\ part(v) \in Nat
  BY <1>2, <1>5
<1> HIDE DEF part
<1>7. /\ Times(curve.slope2, part(u)) \in Nat /\ Times(curve.slope2, part(v)) \in Nat
      /\ Times(curve.slope2, part(u)) <= Times(curve.slope2, part(v))
  BY <1>1, <1>3, <1>6, TimesFacts
<1>8. QED
  BY <1>1, <1>4, <1>5, <1>7

\* The more is lent, the higher the borrow rate, on every curve and across its
\* kink, floors included (lending_interest.py:97-130); a projection from an
\* older market, with less lent, charges no more than one from the newer.
THEOREM BorrowRateMonotone ==
  ASSUME NEW curve \in Curve, NEW u \in Ratio, NEW v \in Ratio, u <= v
  PROVE  compute_borrow_rate(curve, u) <= compute_borrow_rate(curve, v)
<1>0. curve.optimal \in Nat /\ curve.base + curve.slope1 \in Nat /\ u \in Nat /\ v \in Nat
  BY Positive DEF Curve, Ratio
<1>1. CASE v <= curve.optimal
  BY <1>1, BelowOptimum
<1>2. CASE curve.optimal < u
  BY <1>2, AboveOptimum
<1>3. CASE u <= curve.optimal /\ curve.optimal < v
  <2>1. compute_borrow_rate(curve, u) \in Nat
        /\ compute_borrow_rate(curve, u) <= curve.base + curve.slope1
    BY <1>0, <1>3, BelowOptimum
  <2>2. compute_borrow_rate(curve, v) \in Nat
        /\ curve.base + curve.slope1 <= compute_borrow_rate(curve, v)
    BY <1>0, <1>3, AboveOptimum
  <2>3. QED
    BY <1>0, <2>1, <2>2
<1>4. QED
  BY <1>0, <1>1, <1>2, <1>3 DEF Ratio

\* Every curve that is configured has a rate: the ValueError of
\* compute_borrow_rate needs a utilization above 100 %.
THEOREM EveryRatioHasARate ==
  ASSUME NEW curve \in Curve, NEW u \in Ratio
  PROVE  compute_borrow_rate(curve, u) # NoRate
<1>1. curve.optimal \in Nat
  BY Positive DEF Curve, Ratio
<1>2. compute_borrow_rate(curve, u) \in Nat
  BY <1>1, BelowOptimum, AboveOptimum DEF Ratio
<1>3. QED
  BY <1>2 DEF NoRate

\* Suppliers are never promised more than borrowers pay
\* (lending_interest.py:258-264).
THEOREM SuppliersGetNoMore ==
  ASSUME NEW curve \in Curve, NEW u \in Ratio
  PROVE  SupplyRate(curve, u) <= compute_borrow_rate(curve, u)
<1> DEFINE rate == compute_borrow_rate(curve, u)
           gross == Times(rate, u)
<1>1. curve.optimal \in Nat /\ u \in Nat /\ u <= Scale
      /\ Scale - curve.reserve \in Nat /\ Scale - curve.reserve <= Scale
  BY Positive DEF Curve, Ratio
<1>2. rate \in Nat
  BY <1>1, BelowOptimum, AboveOptimum DEF Ratio
<1>3. SupplyRate(curve, u) = Times(gross, Scale - curve.reserve)
  BY DEF SupplyRate
<1> HIDE DEF rate
<1>4. gross \in Nat /\ gross <= rate
  BY <1>1, <1>2, TimesFacts
<1> HIDE DEF gross
<1>5. Times(gross, Scale - curve.reserve) \in Nat /\ Times(gross, Scale - curve.reserve) <= gross
  BY <1>1, <1>4, TimesFacts
<1>6. QED
  BY <1>2, <1>3, <1>4, <1>5 DEF rate
----------------------------------------------------------------------------
(* Induction, and what it says of a recursive function: the definition of  *)
(* such a function is an equation about CHOOSE, which has a solution.      *)

LEMMA LeastNatural ==
  ASSUME NEW T, T \subseteq Nat, T # {}
  PROVE  \E x \in T : \A y \in T : x <= y
<1> DEFINE R == OpToRel(<, Nat)
<1>1. IsWellFoundedOn(R, Nat)
  BY NatLessThanWellFounded
<1>2. \A x, y \in Nat : <<y, x>> \in R <=> y < x
  BY DEF OpToRel
<1> HIDE DEF R
<1>3. PICK x \in T : \A y \in T : ~(<<y, x>> \in R)
  BY <1>1, WFMin
<1>4. ASSUME NEW y \in T PROVE x <= y
  <2>1. x \in Nat /\ y \in Nat /\ ~(y < x)
    BY <1>2, <1>3
  <2>2. QED
    BY <2>1
<1>5. QED
  BY <1>4

LEMMA Induction ==
  ASSUME NEW S, 0 \in S, \A n \in Nat : n \in S => n + 1 \in S
  PROVE  \A n \in Nat : n \in S
<1> SUFFICES ASSUME Nat \ S # {} PROVE FALSE
  OBVIOUS
<1>1. PICK x \in Nat \ S : \A y \in Nat \ S : x <= y
  BY LeastNatural
<1>2. x - 1 \in Nat /\ x - 1 + 1 = x
  BY <1>1
<1>3. x - 1 \in S
  BY <1>1, <1>2
<1>4. QED
  BY <1>1, <1>2, <1>3

\* x0, step(x0), ... up to the n-th
Orbits(T, x0, step, n) ==
  {f \in [0 .. n -> T] : f[0] = x0 /\ \A i \in 1 .. n : f[i] = step[f[i - 1]]}

LEMMA OrbitsAgree ==
  ASSUME NEW T, NEW x0 \in T, NEW step \in [T -> T], NEW m \in Nat, NEW n \in Nat,
         NEW f \in Orbits(T, x0, step, m), NEW g \in Orbits(T, x0, step, n)
  PROVE  \A i \in 0 .. m : i <= n => f[i] = g[i]
<1> DEFINE S == {i \in Nat : i <= m /\ i <= n => f[i] = g[i]}
<1>1. 0 \in S
  BY DEF Orbits
<1>2. ASSUME NEW i \in Nat, i \in S PROVE i + 1 \in S
  <2>1. CASE i + 1 <= m /\ i + 1 <= n
    <3>1. i + 1 \in 1 .. m /\ i + 1 \in 1 .. n /\ i + 1 - 1 = i
      BY <2>1
    <3>2. f[i + 1] = step[f[i]] /\ g[i + 1] = step[g[i]]
      BY <3>1 DEF Orbits
    <3>3. QED
      BY <1>2, <2>1, <3>2
  <2>2. QED
    BY <2>1
<1> HIDE DEF S
<1>3. \A i \in Nat : i \in S
  BY <1>1, <1>2, Induction
<1>4. QED
  BY <1>3 DEF S

LEMMA OrbitExists ==
  ASSUME NEW T, NEW x0 \in T, NEW step \in [T -> T]
  PROVE  \A n \in Nat : Orbits(T, x0, step, n) # {}
<1> DEFINE S == {n \in Nat : Orbits(T, x0, step, n) # {}}
<1>1. 0 \in S
  <2>1. [i \in 0 .. 0 |-> x0] \in Orbits(T, x0, step, 0)
    BY DEF Orbits
  <2>2. QED
    BY <2>1
<1>2. ASSUME NEW n \in Nat, n \in S PROVE n + 1 \in S
  <2>1. PICK f : f \in Orbits(T, x0, step, n)
    BY <1>2
  <2> DEFINE g == [i \in 0 .. n + 1 |-> IF i <= n THEN f[i] ELSE step[f[n]]]
  <2>2. f \in [0 .. n -> T] /\ f[0] = x0 /\ \A i \in 1 .. n : f[i] = step[f[i - 1]]
    BY <2>1 DEF Orbits
  <2>3. g \in [0 .. n + 1 -> T]
    BY <2>2
  <2>4. g[0] = x0
    BY <2>2
  <2>5. ASSUME NEW i \in 1 .. n + 1 PROVE g[i] = step[g[i - 1]]
    <3>1. CASE i <= n
      <4>1. i \in 1 .. n /\ i - 1 \in 0 .. n + 1 /\ i - 1 <= n /\ i \in 0 .. n + 1
        BY <3>1
      <4>2. QED
        BY <2>2, <4>1
    <3>2. CASE i = n + 1
      <4>1. i - 1 = n /\ n \in 0 .. n + 1 /\ i \in 0 .. n + 1 /\ ~(i <= n)
        BY <3>2
      <4>2. QED
        BY <4>1
    <3>3. QED
      BY <3>1, <3>2
  <2> HIDE DEF g
  <2>6. g \in Orbits(T, x0, step, n + 1)
    BY <2>3, <2>4, <2>5 DEF Orbits
  <2>7. QED
    BY <2>6
<1> HIDE DEF S
<1>3. \A n \in Nat : n \in S
  BY <1>1, <1>2, Induction
<1>4. QED
  BY <1>3 DEF S

Iterated(x0, step) == CHOOSE g : g = [i \in Nat |-> IF i = 0 THEN x0 ELSE step[g[i - 1]]]

LEMMA Iteration ==
  ASSUME NEW T, NEW x0 \in T, NEW step \in [T -> T]
  PROVE  /\ Iterated(x0, step) \in [Nat -> T]
         /\ Iterated(x0, step)[0] = x0
         /\ \A n \in Nat : Iterated(x0, step)[n + 1] = step[Iterated(x0, step)[n]]
<1> DEFINE f == Iterated(x0, step)
           orbit(n) == CHOOSE o : o \in Orbits(T, x0, step, n)
           F == [n \in Nat |-> orbit(n)[n]]
<1>1. ASSUME NEW n \in Nat PROVE orbit(n) \in Orbits(T, x0, step, n)
  BY OrbitExists
<1> HIDE DEF orbit
<1>2. F \in [Nat -> T]
  <2>1. ASSUME NEW n \in Nat PROVE orbit(n)[n] \in T
    <3>1. orbit(n) \in [0 .. n -> T] /\ n \in 0 .. n
      BY <1>1 DEF Orbits
    <3>2. QED
      BY <3>1
  <2>2. QED
    BY <2>1
<1>3. F[0] = x0
  BY <1>1 DEF Orbits
<1>4. ASSUME NEW n \in Nat PROVE F[n + 1] = step[F[n]]
  <2>1. n + 1 \in 1 .. n + 1 /\ n + 1 - 1 = n /\ n + 1 \in Nat /\ n \in 0 .. n /\ n <= n + 1
    OBVIOUS
  <2>2. orbit(n + 1)[n + 1] = step[orbit(n + 1)[n]]
    BY <1>1, <2>1 DEF Orbits
  <2>3. orbit(n)[n] = orbit(n + 1)[n]
    BY <1>1, <2>1, OrbitsAgree
  <2>4. QED
    BY <2>1, <2>2, <2>3
<1> HIDE DEF F
<1>5. F = [i \in Nat |-> IF i = 0 THEN x0 ELSE step[F[i - 1]]]
  <2>1. ASSUME NEW i \in Nat PROVE F[i] = IF i = 0 THEN x0 ELSE step[F[i - 1]]
    <3>1. CASE i # 0
      <4>1. i - 1 \in Nat /\ i - 1 + 1 = i
        BY <3>1
      <4>2. QED
        BY <1>4, <3>1, <4>1
    <3>2. QED
      BY <1>3, <3>1
  <2>2. QED
    BY <1>2, <2>1
<1>6. f = [i \in Nat |-> IF i = 0 THEN x0 ELSE step[f[i - 1]]]
  BY <1>5 DEF Iterated
<1> HIDE DEF f
<1>7. f[0] = x0
  BY <1>6
<1>8. ASSUME NEW n \in Nat PROVE f[n + 1] = step[f[n]]
  <2>1. n + 1 \in Nat /\ n + 1 # 0 /\ n + 1 - 1 = n
    OBVIOUS
  <2>2. QED
    BY <1>6, <2>1
<1>9. \A n \in Nat : f[n] \in T
  <2> DEFINE S == {n \in Nat : f[n] \in T}
  <2>1. 0 \in S
    BY <1>7
  <2>2. ASSUME NEW n \in Nat, n \in S PROVE n + 1 \in S
    BY <1>8, <2>2
  <2> HIDE DEF S
  <2>3. \A n \in Nat : n \in S
    BY <2>1, <2>2, Induction
  <2>4. QED
    BY <2>3 DEF S
<1>10. f \in [Nat -> T]
  BY <1>6, <1>9
<1>11. QED
  BY <1>7, <1>8, <1>10 DEF f
----------------------------------------------------------------------------
(* The powers. *)

RoundState == [base : Nat, result : Nat, exp : Nat]

LEMMA TimesBoth ==
  ASSUME NEW a \in Nat, NEW b \in Nat, NEW c \in Nat, NEW d \in Nat, a <= c, b <= d
  PROVE  Times(a, b) \in Nat /\ Times(c, d) \in Nat /\ Times(a, b) <= Times(c, d)
<1>1. \A x, y \in Nat : Times(x, y) = Times(y, x)
  BY DEF Times
<1>2. /\ Times(a, b) \in Nat /\ Times(c, d) \in Nat /\ Times(a, d) \in Nat
      /\ Times(a, b) <= Times(a, d) /\ Times(d, a) <= Times(d, c)
  BY TimesFacts
<1>3. QED
  BY <1>1, <1>2

\* a ratio of 1 is neutral, and one of more only adds
LEMMA TimesOne ==
  ASSUME NEW a \in Int
  PROVE  Times(a, Scale) = a /\ Times(Scale, a) = a
<1>1. (a * Scale) \div Scale = a
  BY Positive
<1>2. a * Scale = Scale * a
  BY Positive
<1>3. QED
  BY <1>1, <1>2 DEF Times

LEMMA TimesGrows ==
  ASSUME NEW a \in Nat, NEW b \in Nat, Scale <= b
  PROVE  Times(a, b) \in Nat /\ a <= Times(a, b)
<1>1. Times(a, Scale) = a
  BY TimesOne
<1>2. Times(a, Scale) <= Times(a, b) /\ Times(a, b) \in Nat
  BY Positive, TimesFacts
<1>3. QED
  BY <1>1, <1>2

LEMMA RoundFacts ==
  /\ Round \in [RoundState -> RoundState]
  /\ \A s \in RoundState : Round[s] =
        IF s.exp = 0 THEN s
        ELSE [base |-> Times(s.base, s.base),
              result |-> IF s.exp % 2 = 1 THEN Times(s.result, s.base) ELSE s.result,
              exp |-> s.exp \div 2]
<1>1. ASSUME NEW s \in RoundState
      PROVE  /\ Times(s.base, s.base) \in Nat /\ Times(s.result, s.base) \in Nat
             /\ s.exp \div 2 \in Nat
  <2>1. s.base \in Nat /\ s.result \in Nat /\ s.exp \in Nat
    BY DEF RoundState
  <2>2. s.exp \div 2 \in Nat
    BY <2>1
  <2>3. Times(s.base, s.base) \in Nat /\ Times(s.result, s.base) \in Nat
    BY <2>1, TimesFacts
  <2>4. QED
    BY <2>2, <2>3
<1>2. QED
  BY <1>1 DEF Round, RoundState

Entry(base, exp) == [base |-> base, result |-> Scale, exp |-> exp]

\* f goes through the rounds of pow_fixed
Rounds(f, base, exp) ==
    /\ f \in [Nat -> RoundState]
    /\ f[0] = Entry(base, exp)
    /\ \A n \in Nat : f[n + 1] = Round[f[n]]

LEMMA PowRounds ==
  ASSUME NEW base \in Nat, NEW exp \in Nat
  PROVE  \E f : Rounds(f, base, exp) /\ pow_fixed(base, exp) = f[exp].result
<1>1. Entry(base, exp) \in RoundState /\ Round \in [RoundState -> RoundState]
  BY Positive, RoundFacts DEF RoundState, Entry
<1>2. pow_fixed(base, exp) = Iterated(Entry(base, exp), Round)[exp].result
  BY DEF pow_fixed, Entry, Iterated
<1>3. Rounds(Iterated(Entry(base, exp), Round), base, exp)
  BY <1>1, Iteration DEF Rounds
<1>4. QED
  BY <1>2, <1>3

\* what every round keeps, the result has
LEMMA PowKeeps ==
  ASSUME NEW base \in Nat, NEW exp \in Nat, NEW I, I \subseteq RoundState,
         Entry(base, exp) \in I,
         \A s \in I : Round[s] \in I
  PROVE  \E s \in I : pow_fixed(base, exp) = s.result
<1>1. PICK f : Rounds(f, base, exp) /\ pow_fixed(base, exp) = f[exp].result
  BY PowRounds
<1> DEFINE S == {n \in Nat : f[n] \in I}
<1>2. 0 \in S
  BY <1>1 DEF Rounds
<1>3. \A n \in Nat : n \in S => n + 1 \in S
  BY <1>1 DEF Rounds
<1> HIDE DEF S
<1>4. exp \in S
  BY <1>2, <1>3, Induction
<1>5. QED
  BY <1>1, <1>4 DEF S

\* So many rounds are enough: the loop of pow_fixed (lending_interest.py:88-93)
\* has come to its end, with no bit of the exponent left.
THEOREM PowFinishes ==
  ASSUME NEW base \in Nat, NEW exp \in Nat
  PROVE  \E f : Rounds(f, base, exp) /\ f[exp].exp = 0 /\ pow_fixed(base, exp) = f[exp].result
<1>1. PICK f : Rounds(f, base, exp) /\ pow_fixed(base, exp) = f[exp].result
  BY PowRounds
<1> DEFINE S == {n \in Nat : f[n].exp = 0 \/ f[n].exp <= exp - n}
<1>2. 0 \in S
  BY <1>1 DEF Rounds, Entry
<1>3. ASSUME NEW n \in Nat, n \in S PROVE n + 1 \in S
  <2>1. f[n] \in RoundState /\ f[n].exp \in Nat /\ f[n + 1] = Round[f[n]]
    BY <1>1 DEF RoundState, Rounds
  <2>2. CASE f[n].exp = 0
    <3>1. f[n + 1] = f[n]
      BY <2>1, <2>2, RoundFacts
    <3>2. QED
      BY <2>2, <3>1
  <2>3. CASE f[n].exp # 0
    <3>1. f[n + 1].exp = f[n].exp \div 2
      BY <2>1, <2>3, RoundFacts
    <3>2. f[n].exp \div 2 <= f[n].exp - 1
      BY <2>1, <2>3
    <3>3. f[n].exp <= exp - n
      BY <1>3, <2>3
    <3>4. QED
      BY <2>1, <3>1, <3>2, <3>3
  <2>4. QED
    BY <2>2, <2>3
<1> HIDE DEF S
<1>4. exp \in S
  BY <1>2, <1>3, Induction
<1>5. f[exp].exp \in Nat
  BY <1>1 DEF RoundState, Rounds
<1>6. f[exp].exp = 0
  BY <1>4, <1>5 DEF S
<1>7. QED
  BY <1>1, <1>6

\* An index only ever grows: a factor of 1 or more to any power is 1 or more,
\* and no less than nothing is made of any factor.
THEOREM PowNeverShrinks ==
  ASSUME NEW base \in Nat, NEW exp \in Nat
  PROVE  /\ pow_fixed(base, exp) \in Nat
         /\ Scale <= base => Scale <= pow_fixed(base, exp)
<1>1. pow_fixed(base, exp) \in Nat
  <2>1. PICK f : Rounds(f, base, exp) /\ pow_fixed(base, exp) = f[exp].result
    BY PowRounds
  <2>2. QED
    BY <2>1 DEF Rounds, RoundState
<1>2. ASSUME Scale <= base PROVE Scale <= pow_fixed(base, exp)
  <2> DEFINE I == {s \in RoundState : Scale <= s.base /\ Scale <= s.result}
  <2>1. Entry(base, exp) \in I
    BY <1>2, Positive DEF RoundState, Entry
  <2>2. ASSUME NEW s \in I PROVE Round[s] \in I
    <3>1. s \in RoundState /\ s.base \in Nat /\ s.result \in Nat /\ Scale <= s.base
          /\ Scale <= s.result
      BY DEF RoundState
    <3>2. /\ s.base <= Times(s.base, s.base) /\ Times(s.base, s.base) \in Nat
          /\ s.result <= Times(s.result, s.base) /\ Times(s.result, s.base) \in Nat
      BY <3>1, TimesGrows
    <3>3. Round[s] \in RoundState
      BY <3>1, RoundFacts
    <3>4. Scale <= Round[s].base /\ Scale <= Round[s].result
      BY <3>1, <3>2, RoundFacts, Positive
    <3>5. QED
      BY <3>3, <3>4
  <2> HIDE DEF I
  <2>3. PICK s \in I : pow_fixed(base, exp) = s.result
    <3>1. I \subseteq RoundState
      BY DEF I
    <3>2. QED
      BY <2>1, <2>2, <3>1, PowKeeps
  <2>4. QED
    BY <2>3 DEF I
<1>3. QED
  BY <1>1, <1>2

\* Without interest nothing is lost: a factor of 1 to any power is exactly 1.
THEOREM PowOfOne ==
  ASSUME NEW exp \in Nat
  PROVE  pow_fixed(Scale, exp) = Scale
<1> DEFINE I == {s \in RoundState : s.base = Scale /\ s.result = Scale}
<1>1. Entry(Scale, exp) \in I
  BY Positive DEF RoundState, Entry
<1>2. ASSUME NEW s \in I PROVE Round[s] \in I
  <2>1. Times(Scale, Scale) = Scale
    BY TimesOne, Positive
  <2>2. Round[s] \in RoundState
    BY RoundFacts
  <2>3. Round[s].base = Scale /\ Round[s].result = Scale
    BY <2>1, RoundFacts
  <2>4. QED
    BY <2>2, <2>3
<1> HIDE DEF I
<1>3. PICK s \in I : pow_fixed(Scale, exp) = s.result
  <2>1. I \subseteq RoundState
    BY DEF I
  <2>2. QED
    BY <1>1, <1>2, <2>1, PowKeeps, Positive
<1>4. QED
  BY <1>3 DEF I

\* A higher hourly factor makes no less of the same hours, whatever the floors
\* of the two computations lose on their way.
THEOREM PowMonotone ==
  ASSUME NEW low \in Nat, NEW high \in Nat, NEW exp \in Nat, low <= high
  PROVE  pow_fixed(low, exp) <= pow_fixed(high, exp)
<1>1. PICK f : Rounds(f, low, exp) /\ pow_fixed(low, exp) = f[exp].result
  BY PowRounds
<1>2. PICK g : Rounds(g, high, exp) /\ pow_fixed(high, exp) = g[exp].result
  BY PowRounds
<1> DEFINE S == {n \in Nat : /\ f[n].base <= g[n].base /\ f[n].result <= g[n].result
                             /\ f[n].exp = g[n].exp}
<1>3. 0 \in S
  BY <1>1, <1>2, Positive DEF Rounds, Entry
<1>4. ASSUME NEW n \in Nat, n \in S PROVE n + 1 \in S
  <2>1. /\ f[n] \in RoundState /\ f[n].base \in Nat /\ f[n].result \in Nat
        /\ g[n] \in RoundState /\ g[n].base \in Nat /\ g[n].result \in Nat
    BY <1>1, <1>2 DEF RoundState, Rounds
  <2>2. f[n].base <= g[n].base /\ f[n].result <= g[n].result /\ f[n].exp = g[n].exp
    BY <1>4
  <2>3. /\ Times(f[n].base, f[n].base) <= Times(g[n].base, g[n].base)
        /\ Times(f[n].result, f[n].base) <= Times(g[n].result, g[n].base)
    BY <2>1, <2>2, TimesBoth
  <2>4. f[n + 1] = Round[f[n]] /\ g[n + 1] = Round[g[n]]
    BY <1>1, <1>2 DEF Rounds
  <2>5. CASE f[n].exp = 0
    <3>1. f[n + 1] = f[n] /\ g[n + 1] = g[n]
      BY <2>1, <2>2, <2>4, <2>5, RoundFacts
    <3>2. QED
      BY <2>2, <3>1
  <2>6. CASE f[n].exp # 0
    <3>1. f[n + 1] = [base |-> Times(f[n].base, f[n].base),
                      result |-> IF f[n].exp % 2 = 1 THEN Times(f[n].result, f[n].base)
                                 ELSE f[n].result,
                      exp |-> f[n].exp \div 2]
      BY <2>1, <2>4, <2>6, RoundFacts
    <3>2. g[n + 1] = [base |-> Times(g[n].base, g[n].base),
                      result |-> IF g[n].exp % 2 = 1 THEN Times(g[n].result, g[n].base)
                                 ELSE g[n].result,
                      exp |-> g[n].exp \div 2]
      BY <2>1, <2>2, <2>4, <2>6, RoundFacts
    <3>3. QED
      BY <2>2, <2>3, <3>1, <3>2
  <2>7. QED
    BY <2>5, <2>6
<1> HIDE DEF S
<1>5. exp \in S
  BY <1>3, <1>4, Induction
<1>6. QED
  BY <1>1, <1>2, <1>5 DEF S

----------------------------------------------------------------------------
(* How far pow_fixed is from the power it computes.                        *)

MulBy(b) == [x \in Nat |-> x * b]

\* b to the n-th, with nothing rounded
Power(b, n) ==
    LET p[i \in Nat] == IF i = 0 THEN 1 ELSE MulBy(b)[p[i - 1]]
    IN  p[n]

LEMMA PowerFacts ==
  ASSUME NEW b \in Nat
  PROVE  /\ Power(b, 0) = 1
         /\ \A n \in Nat : Power(b, n) \in Nat /\ Power(b, n + 1) = Power(b, n) * b
<1> SUFFICES ASSUME NEW N, N = Nat, NEW one, one = 1, NEW step, step = MulBy(b)
             PROVE  /\ Power(b, 0) = 1
                    /\ \A n \in Nat : Power(b, n) \in Nat /\ Power(b, n + 1) = Power(b, n) * b
  OBVIOUS
<1> DEFINE f == Iterated(one, step)
<1>1. one \in N /\ step \in [N -> N] /\ \A x \in Nat : step[x] = x * b
  BY MulNatural DEF MulBy
<1>2. \A n : Power(b, n) = f[n]
  BY DEF Power, Iterated
<1>3. f \in [Nat -> N] /\ f[0] = one /\ \A n \in Nat : f[n + 1] = step[f[n]]
  <2>1. one \in N /\ step \in [N -> N]
    BY <1>1
  <2>2. QED
    BY ONLY <2>1, Iteration
<1> HIDE DEF f
<1>4. ASSUME NEW n \in Nat PROVE f[n] \in Nat /\ f[n + 1] = f[n] * b
  BY <1>1, <1>3
<1>5. QED
  BY <1>2, <1>3, <1>4

LEMMA MulTwice ==
  ASSUME NEW a \in Int, NEW b \in Int, NEW c \in Int
  PROVE  /\ a * b \in Int /\ a * b = b * a
         /\ (a * b) * c = a * (b * c) /\ (a * b) * c = (a * c) * b
         /\ (a + b) * c = a * c + b * c /\ (a - b) * c = a * c - b * c
  OBVIOUS

LEMMA PowerOfSum ==
  ASSUME NEW b \in Nat, NEW m \in Nat, NEW n \in Nat
  PROVE  Power(b, m + n) = Power(b, m) * Power(b, n)
<1> DEFINE S == {i \in Nat : Power(b, m + i) = Power(b, m) * Power(b, i)}
<1>1. 0 \in S
  BY PowerFacts
<1>2. ASSUME NEW i \in Nat, i \in S PROVE i + 1 \in S
  <2>1. Power(b, m + i) = Power(b, m) * Power(b, i)
    BY <1>2
  <2>2. /\ Power(b, m + (i + 1)) = Power(b, m + i) * b
        /\ Power(b, i + 1) = Power(b, i) * b
        /\ Power(b, m) \in Nat /\ Power(b, i) \in Nat
    <3>1. m + (i + 1) = (m + i) + 1 /\ m + i \in Nat
      OBVIOUS
    <3>2. QED
      BY <3>1, PowerFacts
  <2>3. (Power(b, m) * Power(b, i)) * b = Power(b, m) * (Power(b, i) * b)
    BY <2>2, MulTwice
  <2>4. QED
    BY <2>1, <2>2, <2>3
<1> HIDE DEF S
<1>3. \A i \in Nat : i \in S
  BY <1>1, <1>2, Induction
<1>4. QED
  BY <1>3 DEF S

LEMMA MulBoth ==
  ASSUME NEW a \in Nat, NEW b \in Nat, NEW c \in Nat, NEW d \in Nat, a <= c, b <= d
  PROVE  a * b <= c * d /\ a * b \in Nat /\ c * d \in Nat
<1>1. a * b <= a * d
  BY MulMonotone
<1>2. d * a <= d * c
  BY MulMonotone
<1>3. a * d = d * a /\ c * d = d * c
  BY MulTwice
<1>4. a * b \in Nat /\ a * d \in Nat /\ c * d \in Nat
  BY MulNatural
<1>5. QED
  BY <1>1, <1>2, <1>3, <1>4

LEMMA PowerMonotone ==
  ASSUME NEW a \in Nat, NEW b \in Nat, a <= b, NEW n \in Nat
  PROVE  Power(a, n) <= Power(b, n)
<1> DEFINE S == {i \in Nat : Power(a, i) <= Power(b, i)}
<1>1. 0 \in S
  BY PowerFacts
<1>2. ASSUME NEW i \in Nat, i \in S PROVE i + 1 \in S
  <2>1. Power(a, i) \in Nat /\ Power(b, i) \in Nat /\ Power(a, i) <= Power(b, i)
    BY <1>2, PowerFacts
  <2>2. Power(a, i) * a <= Power(b, i) * b
    BY <2>1, MulBoth
  <2>3. QED
    BY <2>2, PowerFacts
<1> HIDE DEF S
<1>3. \A i \in Nat : i \in S
  BY <1>1, <1>2, Induction
<1>4. QED
  BY <1>3 DEF S

LEMMA PowerPositive ==
  ASSUME NEW b \in Nat \ {0}, NEW n \in Nat
  PROVE  Power(b, n) \in Nat \ {0}
<1> DEFINE S == {i \in Nat : Power(b, i) # 0}
<1>1. 0 \in S
  BY PowerFacts
<1>2. ASSUME NEW i \in Nat, i \in S PROVE i + 1 \in S
  <2>1. Power(b, i) \in Nat \ {0}
    BY <1>2, PowerFacts
  <2>2. 1 * 1 <= Power(b, i) * b /\ Power(b, i) * b \in Nat
    BY <2>1, MulBoth
  <2>3. QED
    BY <2>2, PowerFacts
<1> HIDE DEF S
<1>3. \A i \in Nat : i \in S
  BY <1>1, <1>2, Induction
<1>4. QED
  BY <1>3, PowerFacts DEF S

LEMMA Cancel ==
  ASSUME NEW a \in Int, NEW b \in Int, NEW k \in Nat \ {0}, k * a <= k * b
  PROVE  a <= b
  OBVIOUS

\* floors lose less than a unit for every product but the first
Lost(n) == IF n = 0 THEN 0 ELSE n - 1

\* x is the n-th power of the factor b, both at Scale, but for what is lost
Near(x, b, n) ==
    /\ x * Power(Scale, n) <= Scale * Power(b, n)
    /\ Scale * Power(b, n) <= x * Power(Scale, n) + Lost(n) * Power(b, n)

LEMMA MulFour ==
  ASSUME NEW a \in Int, NEW b \in Int, NEW c \in Int, NEW d \in Int
  PROVE  (a * b) * (c * d) = (a * c) * (b * d)
<1>1. (a * b) * (c * d) = a * (b * (c * d)) /\ b * (c * d) = (b * c) * d
      /\ b * c = c * b /\ (c * b) * d = c * (b * d)
      /\ a * (c * (b * d)) = (a * c) * (b * d)
  BY MulTwice
<1>2. QED
  BY <1>1

\* the product of two numbers that are near is near, as less than a unit is lost
LEMMA ProductLoses ==
  ASSUME NEW s \in Nat \ {0}, NEW x \in Nat, NEW y \in Nat, NEW z \in Nat,
         s * z <= x * y, x * y < s * z + s,
         NEW A \in Nat, NEW B \in Nat, NEW P \in Nat, NEW Q \in Nat, P <= A, Q <= B,
         NEW k \in Nat, NEW l \in Nat,
         x * P <= s * A, s * A <= x * P + k * A,
         y * Q <= s * B, s * B <= y * Q + l * B
  PROVE  /\ z * (P * Q) <= s * (A * B)
         /\ s * (A * B) <= z * (P * Q) + (k + l + 1) * (A * B)
<1> DEFINE AB == A * B
           PQ == P * Q
           xP == x * P
           yQ == y * Q
           sB == s * B
           zPQ == z * PQ
           xPB == xP * B
           xy == x * y
           sz == s * z
           sA == s * A
           kA == k * A
           lB == l * B
           sAB == s * AB
           kAB == k * AB
           lAB == l * AB
           all == xP * yQ
<1>1. /\ AB \in Nat /\ PQ \in Nat /\ xP \in Nat /\ yQ \in Nat /\ sB \in Nat /\ xy \in Nat
      /\ sz \in Nat /\ sA \in Nat /\ kA \in Nat /\ lB \in Nat
  BY MulNatural
<1>2. PQ <= AB
  BY MulBoth
<1>3. xP * yQ = xy * PQ
  BY MulFour
<1>4. sA * sB = s * sAB /\ sA * B = sAB /\ kA * B = kAB
  <2>1. sA * sB = (s * s) * AB
    BY MulFour
  <2>2. (s * s) * AB = s * sAB
    BY <1>1, MulTwice
  <2>3. QED
    BY <2>1, <2>2, MulTwice
<1>5. xP * sB = s * xPB /\ xP * lB = l * xPB /\ sz * PQ = s * zPQ
  <2>1. xP * (s * B) = (xP * s) * B /\ xP * s = s * xP /\ (s * xP) * B = s * (xP * B)
    BY <1>1, MulTwice
  <2>2. xP * (l * B) = (xP * l) * B /\ xP * l = l * xP /\ (l * xP) * B = l * (xP * B)
    BY <1>1, MulTwice
  <2>3. (s * z) * PQ = s * (z * PQ)
    BY <1>1, MulTwice
  <2>4. QED
    BY <2>1, <2>2, <2>3
<1>6. xP <= sA /\ sA <= xP + kA /\ yQ <= sB /\ sB <= yQ + lB /\ sz <= xy /\ xy < sz + s
  OBVIOUS
<1>7. (k + l + 1) * AB = kAB + lAB + AB
  BY <1>1, MulTwice
<1> HIDE DEF AB, PQ, xP, yQ, sB, xy, sz, sA, kA, lB
<1>8. /\ zPQ \in Nat /\ xPB \in Nat /\ sAB \in Nat /\ kAB \in Nat /\ lAB \in Nat /\ all \in Nat
      /\ xy * PQ \in Nat /\ sz * PQ \in Nat /\ sA * sB \in Nat /\ xP * sB \in Nat /\ xP * lB \in Nat
  BY <1>1, MulNatural
<1>9. zPQ <= sAB
  <2>1. all <= sA * sB
    BY <1>1, <1>6, MulBoth
  <2>2. sz * PQ <= xy * PQ
    BY <1>1, <1>6, MulBoth
  <2>3. s * zPQ <= s * sAB
    BY <1>3, <1>4, <1>5, <1>8, <2>1, <2>2
  <2> HIDE DEF zPQ, sAB, all
  <2>4. QED
    BY <1>8, <2>3, Cancel
<1>10. sAB <= xPB + kAB
  <2>1. sA * B <= (xP + kA) * B
    BY <1>1, <1>6, MulBoth
  <2>2. (xP + kA) * B = xPB + kA * B
    BY <1>1, MulTwice
  <2>3. QED
    BY <1>4, <2>1, <2>2
<1>11. xPB <= sAB
  BY <1>1, <1>4, <1>6, MulBoth
<1>12. s * xPB <= all + l * xPB
  <2>1. xP * sB <= xP * (yQ + lB)
    BY <1>1, <1>6, MulMonotone
  <2>2. xP * (yQ + lB) = all + xP * lB
    <3>1. xP * (yQ + lB) = (yQ + lB) * xP /\ (yQ + lB) * xP = yQ * xP + lB * xP
          /\ yQ * xP = xP * yQ /\ lB * xP = xP * lB
      BY <1>1, MulTwice
    <3>2. QED
      BY <3>1
  <2>3. QED
    BY <1>5, <2>1, <2>2
<1>13. all <= s * zPQ + s * AB
  <2>1. xy * PQ <= (sz + s) * PQ
    BY <1>1, <1>6, MulBoth
  <2>2. (sz + s) * PQ = sz * PQ + s * PQ
    BY <1>1, MulTwice
  <2>3. s * PQ <= s * AB
    BY <1>1, <1>2, MulMonotone
  <2>4. s * PQ \in Nat
    BY <1>1, MulNatural
  <2>5. QED
    BY <1>3, <1>5, <1>8, <2>1, <2>2, <2>3, <2>4
<1>14. l * xPB <= s * lAB
  <2>1. l * xPB <= l * sAB
    BY <1>8, <1>11, MulMonotone
  <2>2. l * (s * AB) = (l * s) * AB /\ l * s = s * l /\ (s * l) * AB = s * (l * AB)
    BY <1>1, MulTwice
  <2>3. QED
    BY <2>1, <2>2
<1>15. sAB <= zPQ + (kAB + lAB + AB)
  <2> HIDE DEF all, zPQ, xPB, kAB, lAB, sAB
  <2>1. s * sAB <= s * (xPB + kAB)
    BY <1>8, <1>10, MulMonotone
  <2>2. s * (xPB + kAB) = s * xPB + s * kAB
    BY <1>8
  <2>3. s * (zPQ + (kAB + lAB + AB)) = s * zPQ + s * kAB + s * lAB + s * AB
    BY <1>1, <1>8
  <2>4. /\ s * xPB \in Nat /\ s * kAB \in Nat /\ s * zPQ \in Nat /\ s * lAB \in Nat /\ s * AB \in Nat
        /\ l * xPB \in Nat /\ s * sAB \in Nat
    BY <1>1, <1>8, MulNatural
  <2>5. s * sAB <= s * (zPQ + (kAB + lAB + AB))
    <3> DEFINE e1 == s * xPB
               e2 == s * kAB
               e3 == s * zPQ
               e4 == s * lAB
               e5 == s * AB
               e6 == l * xPB
               e7 == s * sAB
    <3>1. /\ e1 \in Nat /\ e2 \in Nat /\ e3 \in Nat /\ e4 \in Nat /\ e5 \in Nat /\ e6 \in Nat
          /\ e7 \in Nat /\ all \in Nat
          /\ e7 <= e1 + e2 /\ e1 <= all + e6 /\ all <= e3 + e5 /\ e6 <= e4
      BY <1>8, <1>12, <1>13, <1>14, <2>1, <2>2, <2>4
    <3> HIDE DEF e1, e2, e3, e4, e5, e6, e7
    <3>2. e7 <= e3 + e2 + e4 + e5
      BY <3>1
    <3>3. QED
      BY <2>3, <3>2 DEF e2, e3, e4, e5, e7
  <2>6. QED
    BY <1>1, <1>8, <2>5, Cancel
<1>16. QED
  BY <1>7, <1>9, <1>15 DEF AB, PQ

LEMMA NearTimes ==
  ASSUME NEW b \in Nat, Scale <= b, NEW x \in Nat, NEW y \in Nat,
         NEW m \in Nat, NEW n \in Nat \ {0}, Near(x, b, m), Near(y, b, n)
  PROVE  Near(Times(x, y), b, m + n)
<1>1. CASE m = 0
  <2>1. Power(b, 0) = 1 /\ Power(Scale, 0) = 1
    BY PowerFacts, Positive
  <2>2. x = Scale
    <3>1. x * 1 <= Scale * 1 /\ Scale * 1 <= x * 1 + 0 * 1
      BY <1>1, <2>1 DEF Near, Lost
    <3>2. QED
      BY <3>1, Positive
  <2>3. Times(x, y) = y
    BY <2>2, TimesOne
  <2>4. QED
    BY <1>1, <2>3
<1>2. CASE m # 0
  <2> DEFINE z == Times(x, y)
             A == Power(b, m)
             B == Power(b, n)
             P == Power(Scale, m)
             Q == Power(Scale, n)
  <2>1. /\ A \in Nat /\ B \in Nat /\ P \in Nat /\ Q \in Nat /\ P <= A /\ Q <= B
        /\ Power(b, m + n) = A * B /\ Power(Scale, m + n) = P * Q
    <3>1. Scale \in Nat
      BY Positive
    <3>2. A \in Nat /\ B \in Nat /\ P \in Nat /\ Q \in Nat
      BY <3>1, PowerFacts
    <3>3. P <= A /\ Q <= B
      BY <3>1, PowerMonotone
    <3>4. Power(b, m + n) = A * B /\ Power(Scale, m + n) = P * Q
      BY <3>1, PowerOfSum
    <3>5. QED
      BY <3>2, <3>3, <3>4
  <2>2. z \in Nat /\ Scale * z <= x * y /\ x * y < Scale * z + Scale
    <3>1. x * y \in Nat
      BY MulNatural
    <3>2. QED
      BY <3>1, DivFacts, DivNatural, Positive DEF Times
  <2>3. /\ x * P <= Scale * A /\ Scale * A <= x * P + (m - 1) * A
        /\ y * Q <= Scale * B /\ Scale * B <= y * Q + (n - 1) * B
    BY <1>2 DEF Near, Lost
  <2>4. m - 1 \in Nat /\ n - 1 \in Nat /\ (m - 1) + (n - 1) + 1 = (m + n) - 1 /\ m + n # 0
    BY <1>2
  <2> HIDE DEF z, A, B, P, Q
  <2>5. /\ z * (P * Q) <= Scale * (A * B)
        /\ Scale * (A * B) <= z * (P * Q) + ((m - 1) + (n - 1) + 1) * (A * B)
    BY <2>1, <2>2, <2>3, <2>4, Positive, ProductLoses
  <2>6. Near(z, b, m + n)
    BY <2>1, <2>4, <2>5 DEF Near, Lost
  <2>7. QED
    BY <2>6 DEF z
<1>3. QED
  BY <1>1, <1>2

\* the base stands for some power, the result for another, and what is left of
\* the exponent for the rest
Stands(s, b, exp) ==
    \E w \in Nat \ {0}, j \in Nat :
        Near(s.base, b, w) /\ Near(s.result, b, j) /\ j + w * s.exp = exp

LEMMA RoundStands ==
  ASSUME NEW b \in Nat, Scale <= b, NEW exp \in Nat, NEW s \in RoundState, Stands(s, b, exp)
  PROVE  Stands(Round[s], b, exp)
<1>1. s.base \in Nat /\ s.result \in Nat /\ s.exp \in Nat
  BY DEF RoundState
<1>2. PICK w \in Nat \ {0}, j \in Nat :
        Near(s.base, b, w) /\ Near(s.result, b, j) /\ j + w * s.exp = exp
  BY DEF Stands
<1>3. CASE s.exp = 0
  <2>1. Round[s] = s
    BY <1>3, RoundFacts
  <2>2. QED
    BY <2>1
<1>4. CASE s.exp # 0
  <2> DEFINE half == s.exp \div 2
  <2>1. Round[s] = [base |-> Times(s.base, s.base),
                    result |-> IF s.exp % 2 = 1 THEN Times(s.result, s.base) ELSE s.result,
                    exp |-> half]
    BY <1>4, RoundFacts
  <2>2. half \in Nat /\ (s.exp % 2 = 1 => s.exp = 2 * half + 1) /\ (s.exp % 2 # 1 => s.exp = 2 * half)
    BY <1>1
  <2> HIDE DEF half
  <2>3. Near(Times(s.base, s.base), b, w + w) /\ w + w \in Nat \ {0}
    BY <1>1, <1>2, NearTimes
  <2>4. CASE s.exp % 2 = 1
    <3>1. Near(Times(s.result, s.base), b, j + w) /\ j + w \in Nat
      BY <1>1, <1>2, NearTimes
    <3>2. (j + w) + (w + w) * half = exp
      <4>1. w * s.exp = w * (2 * half + 1) /\ w * (2 * half + 1) = (w + w) * half + w
        BY <2>2, <2>4
      <4>2. w * s.exp \in Nat /\ (w + w) * half \in Nat
        BY <1>1, <2>2, <2>3, MulNatural
      <4>3. QED
        BY <1>2, <4>1, <4>2
    <3>3. Round[s].base = Times(s.base, s.base) /\ Round[s].result = Times(s.result, s.base)
          /\ Round[s].exp = half
      BY <2>1, <2>4
    <3>4. QED
      BY <2>3, <3>1, <3>2, <3>3 DEF Stands
  <2>5. CASE s.exp % 2 # 1
    <3>1. j + (w + w) * half = exp
      <4>1. w * s.exp = w * (2 * half) /\ w * (2 * half) = (w + w) * half
        BY <2>2, <2>5
      <4>2. QED
        BY <1>2, <4>1
    <3>2. Round[s].base = Times(s.base, s.base) /\ Round[s].result = s.result
          /\ Round[s].exp = half
      BY <2>1, <2>5
    <3>3. QED
      BY <1>2, <2>3, <3>1, <3>2 DEF Stands
  <2>6. QED
    BY <2>4, <2>5
<1>5. QED
  BY <1>3, <1>4

\* pow_fixed (lending_interest.py:81-94), with a floor after every product of
\* its squares and factors, is never above the exact power, and below it by no
\* more than a share of 1 in Scale for every hour.
THEOREM PowAccurate ==
  ASSUME NEW base \in Nat, Scale <= base, NEW exp \in Nat
  PROVE  /\ pow_fixed(base, exp) * Power(Scale, exp) <= Scale * Power(base, exp)
         /\ Scale * Power(base, exp)
              <= pow_fixed(base, exp) * Power(Scale, exp) + Lost(exp) * Power(base, exp)
<1>1. PICK f : Rounds(f, base, exp) /\ f[exp].exp = 0 /\ pow_fixed(base, exp) = f[exp].result
  BY PowFinishes
<1> DEFINE S == {n \in Nat : Stands(f[n], base, exp)}
<1>2. 0 \in S
  <2>1. Power(base, 0) = 1 /\ Power(Scale, 0) = 1
    BY PowerFacts, Positive
  <2>2. Power(base, 1) = base /\ Power(Scale, 1) = Scale
    <3>1. Power(base, 0 + 1) = 1 * base /\ Power(Scale, 0 + 1) = 1 * Scale
      BY <2>1, PowerFacts, Positive
    <3>2. QED
      BY <3>1, Positive
  <2>3. Near(base, base, 1)
    <3>1. base * Scale = Scale * base /\ 0 * base = 0
      BY Positive
    <3>2. base * Scale \in Nat
      BY MulNatural, Positive
    <3>3. QED
      BY <2>2, <3>1, <3>2 DEF Near, Lost
  <2>4. Near(Scale, base, 0)
    <3>1. Scale * 1 \in Nat /\ 0 * 1 = 0
      BY Positive
    <3>2. QED
      BY <2>1, <3>1 DEF Near, Lost
  <2>5. f[0].base = base /\ f[0].result = Scale /\ f[0].exp = exp
    BY <1>1 DEF Rounds, Entry
  <2>6. 1 \in Nat \ {0} /\ 0 + 1 * exp = exp
    OBVIOUS
  <2>7. QED
    BY <2>3, <2>4, <2>5, <2>6 DEF Stands
<1>3. ASSUME NEW n \in Nat, n \in S PROVE n + 1 \in S
  <2>1. f[n] \in RoundState /\ f[n + 1] = Round[f[n]]
    BY <1>1 DEF Rounds
  <2>2. QED
    BY <1>3, <2>1, RoundStands
<1> HIDE DEF S
<1>4. exp \in S
  BY <1>2, <1>3, Induction
<1>5. PICK w \in Nat \ {0}, j \in Nat : Near(f[exp].result, base, j) /\ j + w * f[exp].exp = exp
  BY <1>4 DEF S, Stands
<1>6. j = exp
  <2>1. w * 0 = 0
    OBVIOUS
  <2>2. QED
    BY <1>1, <1>5, <2>1
<1>7. QED
  BY <1>1, <1>5, <1>6 DEF Near

----------------------------------------------------------------------------
(* What the chain and the projections compute of a pool.                   *)

LEMMA RatioOfBps ==
  ASSUME NEW b \in 0 .. BpsScale
  PROVE  bps_to_ratio_inner(b) \in Ratio
<1> DEFINE k == Scale \div BpsScale
<1>1. BpsScale \in Nat \ {0} /\ Scale % BpsScale = 0 /\ Scale \in Nat
  BY ScalesAssumption
<1>2. k \in Nat /\ k * BpsScale = Scale
  BY <1>1
<1> HIDE DEF k
<1>3. k * b \in Nat /\ k * b <= k * BpsScale
  BY <1>1, <1>2, MulNatural, MulMonotone
<1>4. bps_to_ratio_inner(b) = k * b
  BY <1>1, <1>2 DEF bps_to_ratio_inner, k
<1>5. QED
  BY <1>1, <1>2, <1>3, <1>4 DEF Ratio

LEMMA CurvesAreCurves ==
  /\ \A c \in Curves : Ratios(c) \in Curve
  /\ ZeroCurve \in Curve
<1>1. ASSUME NEW c \in Curves PROVE Ratios(c) \in Curve
  <2>1. /\ c \in [base : Nat, slope1 : Nat, slope2 : Nat,
                  optimal : 0 .. BpsScale, reserve : 0 .. BpsScale]
        /\ c.base \in Nat /\ c.slope1 \in Nat /\ c.slope2 \in Nat
        /\ c.optimal \in 0 .. BpsScale /\ c.reserve \in 0 .. BpsScale
    BY CurvesAssumption
  <2>2. DOMAIN c = {"base", "slope1", "slope2", "optimal", "reserve"}
    BY <2>1
  <2>3. Scale \div BpsScale \in Nat
    BY ScalesAssumption
  <2>4. \A b \in Nat : bps_to_ratio_inner(b) \in Nat
    BY <2>3, MulNatural DEF bps_to_ratio_inner
  <2>5. bps_to_ratio_inner(c.optimal) \in Ratio /\ bps_to_ratio_inner(c.reserve) \in Ratio
    BY <2>1, RatioOfBps
  <2>6. Ratios(c) = [base |-> bps_to_ratio_inner(c.base),
                     slope1 |-> bps_to_ratio_inner(c.slope1),
                     slope2 |-> bps_to_ratio_inner(c.slope2),
                     optimal |-> bps_to_ratio_inner(c.optimal),
                     reserve |-> bps_to_ratio_inner(c.reserve)]
    BY <2>2 DEF Ratios
  <2>7. QED
    BY <2>1, <2>4, <2>5, <2>6 DEF Curve
<1>2. ZeroCurve \in Curve
  BY Positive DEF ZeroCurve, Curve, Ratio
<1>3. QED
  BY <1>1, <1>2

LEMMA RateNatural ==
  ASSUME NEW curve \in Curve, NEW u \in Ratio
  PROVE  compute_borrow_rate(curve, u) \in Nat /\ compute_borrow_rate(curve, u) # NoRate
<1>1. curve.optimal \in Nat
  BY Positive DEF Curve, Ratio
<1>2. compute_borrow_rate(curve, u) \in Nat
  BY <1>1, BelowOptimum, AboveOptimum DEF Ratio
<1>3. QED
  BY <1>2 DEF NoRate

LEMMA UtilizationIsARatio ==
  ASSUME NEW debt \in Nat, NEW cash \in Nat
  PROVE  Utilization(debt, cash) \in Ratio
<1>1. CASE debt > 0
  <2> DEFINE all == debt + cash
  <2>1. all \in Nat \ {0} /\ debt <= all /\ Scale \in Nat
    BY <1>1, Positive
  <2> HIDE DEF all
  <2>2. /\ debt * Scale \in Nat /\ Scale * all \in Nat /\ debt * Scale = Scale * debt
        /\ Scale * debt <= Scale * all
    BY <2>1, MulNatural, MulMonotone
  <2>3. (debt * Scale) \div all <= (Scale * all) \div all
    BY <2>1, <2>2, DivMonotone
  <2>4. (Scale * all) \div all = Scale
    BY <2>1, DivExact
  <2>5. (debt * Scale) \div all \in Nat
    BY <2>1, <2>2, DivNatural
  <2>6. (debt * Scale) \div all \in Ratio
    BY <2>1, <2>3, <2>4, <2>5 DEF Ratio
  <2>7. QED
    BY <1>1, <2>6 DEF Utilization, all
<1>2. CASE ~(debt > 0)
  BY <1>2, Positive DEF Utilization, Ratio
<1>3. QED
  BY <1>1, <1>2

LEMMA SupplyRateNatural ==
  ASSUME NEW curve \in Curve, NEW u \in Ratio
  PROVE  SupplyRate(curve, u) \in Nat
<1> DEFINE rate == compute_borrow_rate(curve, u)
<1>1. u \in Nat /\ Scale - curve.reserve \in Nat
  BY Positive DEF Curve, Ratio
<1>2. rate \in Nat
  BY RateNatural
<1> HIDE DEF rate
<1>3. Times(rate, u) \in Nat
  BY <1>1, <1>2, TimesFacts
<1>4. Times(Times(rate, u), Scale - curve.reserve) \in Nat
  BY <1>1, <1>3, TimesFacts
<1>5. QED
  BY <1>4 DEF SupplyRate, rate

LEMMA GrownFacts ==
  ASSUME NEW amount \in Nat, NEW annual \in Nat, NEW debt \in Nat, NEW hours \in Nat
  PROVE  Grown(amount, annual, debt, hours) \in Nat
         /\ amount <= Grown(amount, annual, debt, hours)
<1> DEFINE hourly == annual \div HoursPerYear
<1>1. hourly \in Nat
  <2>1. HoursPerYear \in Nat \ {0}
    BY ScalesAssumption
  <2>2. QED
    BY <2>1, DivNatural
<1> HIDE DEF hourly
<1>2. Scale + hourly \in Nat /\ Scale <= Scale + hourly
  BY <1>1, Positive
<1> DEFINE factor == pow_fixed(Scale + hourly, hours)
<1>3. factor \in Nat /\ Scale <= factor
  BY <1>2, PowNeverShrinks
<1> HIDE DEF factor
<1>4. Times(amount, factor) \in Nat /\ amount <= Times(amount, factor)
  BY <1>3, TimesGrows
<1>5. Grown(amount, annual, debt, hours) =
        IF debt > 0 /\ hours > 0 THEN Times(amount, factor) ELSE amount
  BY DEF Grown, factor, hourly
<1>6. QED
  BY <1>4, <1>5

\* at a rate of 0 nothing grows
LEMMA GrownAtZero ==
  ASSUME NEW amount \in Int, NEW debt \in Nat, NEW hours \in Nat
  PROVE  Grown(amount, 0, debt, hours) = amount
<1>1. 0 \div HoursPerYear = 0
  BY ScalesAssumption
<1>2. Scale + 0 \div HoursPerYear = Scale
  BY <1>1, Positive
<1>3. Times(amount, pow_fixed(Scale, hours)) = amount
  BY PowOfOne, TimesOne
<1>4. QED
  BY <1>2, <1>3 DEF Grown

LEMMA HoursFacts ==
  ASSUME NEW last \in Int, NEW t \in Int
  PROVE  /\ dt_hours(last, t) \in Nat
         /\ last <= t => last + dt_hours(last, t) * MsPerHour <= t
<1>1. CASE t > last
  <2> DEFINE d == t - last
  <2>1. d \in Nat
    BY <1>1
  <2> HIDE DEF d
  <2>2. d \div MsPerHour \in Nat /\ MsPerHour * (d \div MsPerHour) <= d
    BY <2>1, DivNatural, DivFacts, Positive
  <2> DEFINE q == d \div MsPerHour
  <2>3. dt_hours(last, t) = q
    BY <1>1 DEF dt_hours, d
  <2> HIDE DEF q
  <2>4. q \in Nat /\ MsPerHour * q <= d /\ MsPerHour * q = q * MsPerHour /\ q * MsPerHour \in Int
    BY <2>2, Positive DEF q
  <2>5. last + q * MsPerHour <= t
    BY <2>4 DEF d
  <2>6. QED
    BY <2>3, <2>4, <2>5
<1>2. CASE ~(t > last)
  <2>1. dt_hours(last, t) = 0 /\ 0 * MsPerHour = 0
    BY <1>2, Positive DEF dt_hours
  <2>2. QED
    BY <1>2, <2>1
<1>3. QED
  BY <1>1, <1>2

LEMMA PoolFields ==
  ASSUME NEW p \in Pools
  PROVE  /\ p.scaled \in Int /\ p.debt \in Nat /\ p.supplied \in Nat /\ p.cash \in Nat
         /\ p.reserve \in Int /\ p.last \in Nat
         /\ p.index \in Nat /\ p.rate \in Nat /\ Scale <= p.index /\ Scale <= p.rate
         /\ p.curve \in Curves \union {NoCurve}
  BY DEF Pools, Grows, Missing

\* An accrual keeps the books: they balance, the index and the rate do not
\* fall, the time of the last accrual stays behind the clock.
LEMMA AccruedFacts ==
  ASSUME NEW p \in Pools, Balanced(p), NEW t \in Nat, p.last <= t
  PROVE  /\ Accrued(p, t) \in Pools /\ Balanced(Accrued(p, t)) /\ Accrued(p, t).last <= t
         /\ Accrued(p, t).scaled = p.scaled
         /\ p.index <= Accrued(p, t).index /\ p.rate <= Accrued(p, t).rate
<1> DEFINE hours == dt_hours(p.last, t)
           u == Utilization(p.debt, p.cash)
           debt == Grown(p.debt, Rate(p), p.debt, hours)
           rate == Grown(p.rate, SupplyRate(Ratios(p.curve), u), p.debt, hours)
           index == Grown(p.index, Rate(p), p.debt, hours)
           charged == [p EXCEPT !.index = index, !.debt = debt, !.rate = rate,
                                !.reserve = p.cash + debt - Times(p.supplied, rate),
                                !.last = p.last + hours * MsPerHour]
<1>1. /\ p.scaled \in Int /\ p.debt \in Nat /\ p.supplied \in Nat /\ p.cash \in Nat
      /\ p.reserve \in Int /\ p.last \in Nat
      /\ p.index \in Nat /\ p.rate \in Nat /\ Scale <= p.index /\ Scale <= p.rate
      /\ p.curve \in Curves \union {NoCurve}
  BY PoolFields
<1>2. CASE p.debt = 0
  <2>1. Accrued(p, t) = [p EXCEPT !.last = t]
    BY <1>2 DEF Accrued
  <2>2. QED
    BY <1>1, <2>1 DEF Pools, Balanced
<1>3. CASE p.debt # 0 /\ (p.curve = NoCurve \/ hours = 0 \/ Rate(p) = NoRate)
  <2>1. Accrued(p, t) = p
    BY <1>3 DEF Accrued
  <2>2. QED
    BY <1>1, <2>1
<1>4. CASE p.debt # 0 /\ ~(p.curve = NoCurve \/ hours = 0 \/ Rate(p) = NoRate)
  <2>1. Accrued(p, t) = charged
    BY <1>4 DEF Accrued
  <2>2. u \in Ratio /\ Ratios(p.curve) \in Curve
    BY <1>1, <1>4, UtilizationIsARatio, CurvesAreCurves
  <2>3. Rate(p) \in Nat /\ SupplyRate(Ratios(p.curve), u) \in Nat
    BY <2>2, RateNatural, SupplyRateNatural DEF Rate
  <2>4. hours \in Nat /\ p.last + hours * MsPerHour <= t
    <3>1. p.last \in Int /\ t \in Int /\ p.last <= t
      BY <1>1
    <3>2. /\ dt_hours(p.last, t) \in Nat
          /\ p.last + dt_hours(p.last, t) * MsPerHour <= t
      BY <3>1, HoursFacts
    <3>3. QED
      BY <3>2
  <2> HIDE DEF u, hours
  <2>5. /\ debt \in Nat /\ index \in Nat /\ rate \in Nat
        /\ p.index <= index /\ p.rate <= rate
    BY <1>1, <2>3, <2>4, GrownFacts
  <2> HIDE DEF debt, rate, index
  <2>6. Times(p.supplied, rate) \in Nat
    BY <1>1, <2>5, TimesFacts
  <2>7. hours * MsPerHour \in Nat
    BY <2>4, MulNatural, Positive
  <2>8. index \in Grows /\ rate \in Grows
    BY <1>1, <2>5, Positive DEF Grows
  <2>9. charged \in Pools
    <3>1. p.cash + debt - Times(p.supplied, rate) \in Int /\ p.last + hours * MsPerHour \in Nat
      BY <1>1, <2>5, <2>6, <2>7
    <3>2. QED
      BY <2>5, <2>8, <3>1 DEF Pools
  <2>10. charged.cash = Times(charged.supplied, charged.rate) - charged.debt + charged.reserve
    <3>1. /\ charged.cash = p.cash /\ charged.supplied = p.supplied /\ charged.rate = rate
          /\ charged.debt = debt /\ charged.reserve = p.cash + debt - Times(p.supplied, rate)
      BY DEF Pools
    <3>2. QED
      BY <1>1, <2>5, <2>6, <3>1
  <2>11. /\ charged.last = p.last + hours * MsPerHour /\ charged.scaled = p.scaled
         /\ charged.index = index /\ charged.rate = rate
    BY DEF Pools
  <2>12. QED
    BY <2>1, <2>4, <2>5, <2>9, <2>10, <2>11 DEF Balanced
<1>5. QED
  BY <1>2, <1>3, <1>4

----------------------------------------------------------------------------
(* Accruals of the same hours in fewer or more steps.                      *)

LEMMA UtilizationMonotone ==
  ASSUME NEW d \in Nat, NEW e \in Nat, d <= e, NEW cash \in Nat
  PROVE  Utilization(d, cash) <= Utilization(e, cash)
<1>1. Utilization(d, cash) \in Ratio /\ Utilization(e, cash) \in Ratio /\ Scale \in Nat
  BY UtilizationIsARatio, Positive
<1>2. CASE d = 0
  <2>1. Utilization(d, cash) = 0
    BY <1>2 DEF Utilization
  <2>2. QED
    BY <1>1, <2>1 DEF Ratio
<1>3. CASE d # 0
  <2> DEFINE q == Utilization(d, cash)
             r == Utilization(e, cash)
             more == e - d
             all == e + cash
  <2>1. more \in Nat /\ d + cash \in Nat \ {0} /\ all \in Nat \ {0} /\ all = (d + cash) + more
        /\ d + more = e
    BY <1>3
  <2>2. q = (d * Scale) \div (d + cash) /\ r = (e * Scale) \div all
    BY <1>3 DEF Utilization
  <2>3. d * Scale \in Nat /\ e * Scale \in Nat
    BY <1>1, MulNatural
  <2> HIDE DEF all
  <2>4. (d + cash) * q <= d * Scale /\ e * Scale < all * r + all
    <3>1. (d + cash) * ((d * Scale) \div (d + cash)) <= d * Scale
      BY <2>1, <2>3, DivFacts
    <3>2. e * Scale < all * ((e * Scale) \div all) + all
      <4> DEFINE a == e * Scale
      <4>1. a \in Int /\ all \in Nat \ {0}
        BY <2>1, <2>3
      <4> HIDE DEF a
      <4>2. a < all * (a \div all) + all
        BY <4>1, DivFacts
      <4>3. QED
        BY <4>2 DEF a
    <3>3. QED
      BY <2>2, <3>1, <3>2
  <2>5. q \in Nat /\ q <= Scale /\ r \in Nat
    BY <1>1 DEF Ratio
  <2> HIDE DEF q, r, more
  <2>6. more * q <= more * Scale
    BY <1>1, <2>1, <2>5, MulMonotone
  <2>7. all * q = (d + cash) * q + more * q /\ e * Scale = d * Scale + more * Scale
    BY <1>1, <2>1, <2>5, MulTwice
  <2>8. /\ (d + cash) * q \in Nat /\ more * q \in Nat /\ more * Scale \in Nat
        /\ all * q \in Nat /\ all * r \in Nat
    BY <1>1, <2>1, <2>5, MulNatural
  <2>9. all * q < all * (r + 1)
    <3>1. all * (r + 1) = all * r + all
      BY <2>1, <2>5
    <3>2. QED
      BY <2>1, <2>3, <2>4, <2>6, <2>7, <2>8, <3>1
  <2>10. ~(r + 1 <= q)
    <3>1. r + 1 <= q => all * (r + 1) <= all * q
      BY <2>1, <2>5, MulMonotone
    <3>2. all * (r + 1) \in Nat
      BY <2>1, <2>5, MulNatural
    <3>3. QED
      BY <2>8, <2>9, <3>1, <3>2
  <2>11. QED
    BY <2>5, <2>10 DEF q, r
<1>4. QED
  BY <1>2, <1>3

\* Nor does what suppliers get fall as more is lent, although two more products
\* are floored (lending_interest.py:259-263).
THEOREM SupplyRateMonotone ==
  ASSUME NEW curve \in Curve, NEW u \in Ratio, NEW v \in Ratio, u <= v
  PROVE  SupplyRate(curve, u) <= SupplyRate(curve, v)
<1> DEFINE low == compute_borrow_rate(curve, u)
           high == compute_borrow_rate(curve, v)
           kept == Scale - curve.reserve
<1>1. low \in Nat /\ high \in Nat /\ low <= high
  BY RateNatural, BorrowRateMonotone
<1>2. u \in Nat /\ v \in Nat /\ kept \in Nat
  BY Positive DEF Curve, Ratio
<1>3. SupplyRate(curve, u) = Times(Times(low, u), kept)
      /\ SupplyRate(curve, v) = Times(Times(high, v), kept)
  BY DEF SupplyRate
<1> HIDE DEF low, high, kept
<1>4. Times(low, u) \in Nat /\ Times(high, v) \in Nat /\ Times(low, u) <= Times(high, v)
  BY <1>1, <1>2, TimesBoth
<1>5. Times(Times(low, u), kept) <= Times(Times(high, v), kept)
  BY <1>2, <1>4, TimesBoth
<1>6. QED
  BY <1>3, <1>5

\* what an hour at an annual rate makes of a unit
Factor(annual) == Scale + annual \div HoursPerYear

LEMMA FactorFacts ==
  ASSUME NEW low \in Nat, NEW high \in Nat, low <= high
  PROVE  /\ Factor(low) \in Nat /\ Factor(high) \in Nat
         /\ Scale <= Factor(low) /\ Factor(low) <= Factor(high)
<1>1. HoursPerYear \in Nat \ {0}
  BY ScalesAssumption
<1>2. /\ low \div HoursPerYear \in Nat /\ high \div HoursPerYear \in Nat
      /\ low \div HoursPerYear <= high \div HoursPerYear
  BY <1>1, DivNatural, DivMonotone
<1>3. QED
  BY <1>2, Positive DEF Factor

\* One accrual of so many hours gives no more than the exact power.
LEMMA GrownAtMost ==
  ASSUME NEW y \in Nat, NEW annual \in Nat, NEW debt \in Nat, NEW hours \in Nat
  PROVE  Grown(y, annual, debt, hours) * Power(Scale, hours) <= y * Power(Factor(annual), hours)
<1> DEFINE f == Factor(annual)
           F == Power(f, hours)
           Q == Power(Scale, hours)
           p == pow_fixed(f, hours)
<1>1. f \in Nat /\ Scale <= f /\ Scale \in Nat \ {0}
  BY FactorFacts, Positive
<1>2. F \in Nat /\ Q \in Nat /\ Q <= F
  BY <1>1, PowerFacts, PowerMonotone
<1>3. CASE debt > 0 /\ hours > 0
  <2> DEFINE x == Times(y, p)
  <2>1. Grown(y, annual, debt, hours) = x
    BY <1>3 DEF Grown, Factor
  <2>2. p \in Nat /\ p * Q <= Scale * F
    BY <1>1, PowNeverShrinks, PowAccurate
  <2> HIDE DEF p, F, Q, f
  <2>3. y * p \in Nat /\ x \in Nat /\ Scale * x <= y * p
    BY <1>1, <2>2, MulNatural, DivNatural, DivFacts DEF Times
  <2> HIDE DEF x
  <2>4. (Scale * x) * Q <= (y * p) * Q
    BY <1>1, <1>2, <2>3, MulNatural, MulBoth
  <2>5. y * (p * Q) <= y * (Scale * F)
    BY <1>1, <1>2, <2>2, MulNatural, MulMonotone
  <2>6. /\ (Scale * x) * Q = Scale * (x * Q) /\ (y * p) * Q = y * (p * Q)
        /\ y * (Scale * F) = Scale * (y * F)
    <3>1. y * (Scale * F) = (y * Scale) * F /\ y * Scale = Scale * y
          /\ (Scale * y) * F = Scale * (y * F)
      BY <1>1, <1>2, MulTwice
    <3>2. QED
      BY <1>1, <1>2, <2>2, <2>3, <3>1, MulTwice
  <2>7. x * Q \in Nat /\ y * F \in Nat
    BY <1>2, <2>3, MulNatural
  <2>8. Scale * (x * Q) <= Scale * (y * F)
    <3>1. (y * p) * Q \in Nat /\ Scale * (x * Q) \in Nat /\ Scale * (y * F) \in Nat
      BY <1>1, <1>2, <2>3, <2>7, MulNatural
    <3>2. QED
      BY <2>4, <2>5, <2>6, <3>1
  <2>9. x * Q <= y * F
    BY <1>1, <2>7, <2>8, Cancel
  <2>10. QED
    BY <2>1, <2>9 DEF F, Q, f
<1>4. CASE ~(debt > 0 /\ hours > 0)
  <2>1. Grown(y, annual, debt, hours) = y
    BY <1>4 DEF Grown
  <2>2. y * Q <= y * F
    BY <1>2, MulMonotone
  <2>3. QED
    BY <2>1, <2>2
<1>5. QED
  BY <1>3, <1>4

\* x is what h hours at the factor f make of y, or more, but for a share of 1 in
\* Scale for every hour
AtLeast(x, y, f, h) == (Scale - h) * (y * Power(f, h)) <= Scale * (x * Power(Scale, h))

\* n hours more, charged at any higher rate, with the floors of their own
LEMMA AtLeastGrows ==
  ASSUME NEW low \in Nat, NEW high \in Nat, low <= high, NEW debt \in Nat \ {0},
         NEW x \in Nat, Scale <= x, NEW y \in Nat, NEW h \in Nat, NEW n \in Nat,
         AtLeast(x, y, Factor(low), h)
  PROVE  AtLeast(Grown(x, high, debt, n), y, Factor(low), h + n)
<1> DEFINE f == Factor(low)
           g == Factor(high)
<1>1. f \in Nat /\ g \in Nat /\ Scale <= f /\ f <= g /\ Scale \in Nat \ {0}
  BY FactorFacts, Positive
<1>2. CASE n = 0
  <2>1. Grown(x, high, debt, n) = x /\ h + n = h
    BY <1>2 DEF Grown
  <2>2. QED
    BY <2>1
<1>3. CASE n # 0
  <2> DEFINE p == pow_fixed(f, n)
             q == pow_fixed(g, n)
             z == Times(x, q)
             Fn == Power(f, n)
             Sn == Power(Scale, n)
             Fh == Power(f, h)
             Sh == Power(Scale, h)
  <2>1. Grown(x, high, debt, n) = z
    BY <1>3 DEF Grown, Factor
  <2>2. /\ Fn \in Nat /\ Sn \in Nat /\ Fh \in Nat /\ Sh \in Nat /\ Sn <= Fn
        /\ Power(f, h + n) = Fh * Fn /\ Power(Scale, h + n) = Sh * Sn
    <3>1. Fn \in Nat /\ Sn \in Nat /\ Fh \in Nat /\ Sh \in Nat
      BY <1>1, PowerFacts
    <3>2. Sn <= Fn
      BY <1>1, PowerMonotone
    <3>3. Power(f, h + n) = Fh * Fn /\ Power(Scale, h + n) = Sh * Sn
      BY <1>1, PowerOfSum
    <3>4. QED
      BY <3>1, <3>2, <3>3
  <2>3. /\ p \in Nat /\ q \in Nat /\ p <= q /\ Scale * Fn <= p * Sn + (n - 1) * Fn
    <3>1. p \in Nat /\ q \in Nat /\ p <= q
      BY <1>1, PowNeverShrinks, PowMonotone
    <3>2. Scale * Fn <= p * Sn + Lost(n) * Fn
      BY <1>1, PowAccurate
    <3>3. QED
      BY <1>3, <3>1, <3>2 DEF Lost
  <2> HIDE DEF p, q
  <2>4. x * q \in Nat /\ z \in Nat /\ x * q < Scale * z + Scale
    BY <1>1, <2>3, MulNatural, DivNatural, DivFacts DEF Times
  <2> HIDE DEF z, Fn, Sn, Fh, Sh
  \* what is left of the last accrual
  <2>5. (Scale - n) * (x * Fn) <= Scale * (z * Sn)
    <3> DEFINE xF == x * Fn
               zS == z * Sn
               xpS == (x * p) * Sn
    <3>1. xF \in Nat /\ zS \in Nat /\ x * p \in Nat /\ xpS \in Nat
      BY <2>2, <2>3, <2>4, MulNatural
    <3>2. Scale * xF <= xpS + (n - 1) * xF
      <4>1. x * (Scale * Fn) <= x * (p * Sn + (n - 1) * Fn)
        <5>1. n - 1 \in Nat
          BY <1>3
        <5>2. Scale * Fn \in Nat /\ p * Sn + (n - 1) * Fn \in Nat
          BY <1>1, <2>2, <2>3, <5>1, MulNatural
        <5>3. QED
          BY <2>3, <5>2, MulMonotone
      <4>2. x * (Scale * Fn) = Scale * xF
        BY <1>1, <2>2, MulTwice
      <4>3. x * (p * Sn + (n - 1) * Fn) = x * (p * Sn) + x * ((n - 1) * Fn)
        BY <2>2, <2>3
      <4>4. x * (p * Sn) = xpS /\ x * ((n - 1) * Fn) = (n - 1) * xF
        BY <2>2, <2>3, MulTwice
      <4>5. QED
        BY <4>1, <4>2, <4>3, <4>4
    <3>3. xpS <= Scale * zS + Scale * Sn
      <4>1. x * p <= Scale * z + Scale
        <5>1. x * p <= x * q
          BY <2>3, MulMonotone
        <5>2. Scale * z \in Nat
          BY <1>1, <2>4, MulNatural
        <5>3. QED
          BY <1>1, <2>4, <3>1, <5>1, <5>2
      <4>2. xpS <= (Scale * z + Scale) * Sn
        BY <1>1, <2>2, <2>4, <3>1, <4>1, MulNatural, MulBoth
      <4>3. (Scale * z + Scale) * Sn = (Scale * z) * Sn + Scale * Sn
        BY <1>1, <2>2, <2>4, MulTwice
      <4>4. (Scale * z) * Sn = Scale * zS
        BY <1>1, <2>2, <2>4, MulTwice
      <4>5. QED
        BY <4>2, <4>3, <4>4
    <3>4. Scale * Sn <= xF
      BY <1>1, <2>2, MulBoth
    <3>5. (Scale - n) * xF = Scale * xF - (n - 1) * xF - xF
      BY <1>1, <3>1
    <3>6. /\ Scale * xF \in Int /\ (n - 1) * xF \in Int /\ Scale * zS \in Int /\ Scale * Sn \in Int
      BY <1>1, <2>2, <3>1
    <3> HIDE DEF xF, zS, xpS
    <3>7. Scale * xF - (n - 1) * xF - xF <= Scale * zS
      BY <3>1, <3>2, <3>3, <3>4, <3>6
    <3>8. QED
      BY <3>5, <3>7 DEF xF, zS
  \* and of those before it
  <2>6. (Scale - h) * (y * Fh) <= Scale * (x * Sh)
    BY DEF AtLeast, Fh, Sh, f
  <2>7. (Scale - (h + n)) * (y * (Fh * Fn)) <= Scale * (z * (Sh * Sn))
    <3> DEFINE a == Scale - h
               b == Scale - n
               yFF == y * (Fh * Fn)
               zSS == z * (Sh * Sn)
    <3>1. yFF \in Nat /\ zSS \in Nat
      BY <2>2, <2>4, MulNatural
    <3>2. CASE Scale - (h + n) <= 0
      <4>1. 0 <= ((h + n) - Scale) * yFF
        <5>1. (h + n) - Scale \in Nat
          BY <1>1, <3>2
        <5>2. QED
          BY <3>1, <5>1, MulNatural
      <4>2. (Scale - (h + n)) * yFF = -(((h + n) - Scale) * yFF)
        BY <1>1, <3>1
      <4>3. 0 <= Scale * zSS
        BY <1>1, <3>1, MulNatural
      <4>4. QED
        BY <1>1, <3>1, <4>1, <4>2, <4>3
    <3>3. CASE ~(Scale - (h + n) <= 0)
      <4>1. a \in Nat /\ b \in Nat
        BY <1>1, <3>3
      <4> DEFINE u1 == a * (y * Fh)
                 u2 == b * (x * Fn)
                 v1 == Scale * (x * Sh)
                 v2 == Scale * (z * Sn)
                 xx == x * yFF
                 zz == x * zSS
      <4> HIDE DEF a, b
      <4>2. /\ y * Fh \in Nat /\ x * Fn \in Nat /\ x * Sh \in Nat /\ z * Sn \in Nat
        BY <2>2, <2>4, MulNatural
      <4>3. u1 \in Nat /\ u2 \in Nat /\ v1 \in Nat /\ v2 \in Nat
        BY <1>1, <4>1, <4>2, MulNatural
      <4>4. u1 * u2 <= v1 * v2
        BY <2>5, <2>6, <4>3, MulBoth DEF a, b
      <4>5. u1 * u2 = (a * b) * xx
        <5>1. (a * (y * Fh)) * (b * (x * Fn)) = (a * b) * ((y * Fh) * (x * Fn))
          BY <4>1, <4>2, MulFour
        <5>2. (y * Fh) * (x * Fn) = (y * x) * (Fh * Fn) /\ (y * x) * (Fh * Fn) = x * (y * (Fh * Fn))
          <6>1. Fh * Fn \in Int
            BY <2>2
          <6>2. y * x = x * y /\ (x * y) * (Fh * Fn) = x * (y * (Fh * Fn))
            BY <6>1, MulTwice
          <6>3. QED
            BY <2>2, <6>2, MulFour
        <5>3. QED
          BY <5>1, <5>2
      <4>6. v1 * v2 = (Scale * Scale) * zz
        <5>1. (Scale * (x * Sh)) * (Scale * (z * Sn)) = (Scale * Scale) * ((x * Sh) * (z * Sn))
          BY <1>1, <4>2, MulFour
        <5>2. (x * Sh) * (z * Sn) = (x * z) * (Sh * Sn) /\ (x * z) * (Sh * Sn) = x * (z * (Sh * Sn))
          <6>1. Sh * Sn \in Int
            BY <2>2
          <6>2. QED
            BY <2>2, <2>4, <6>1, MulFour, MulTwice
        <5>3. QED
          BY <5>1, <5>2
      <4>7. Scale * (Scale - (h + n)) <= a * b
        <5>1. a * b = Scale * (Scale - (h + n)) + h * n
          BY <1>1 DEF a, b
        <5>2. h * n \in Nat /\ Scale * (Scale - (h + n)) \in Int
          BY <1>1, MulNatural
        <5>3. QED
          BY <5>1, <5>2
      <4>8. xx \in Nat /\ zz \in Nat
        BY <3>1, MulNatural
      <4> DEFINE c == Scale - (h + n)
      <4>9. c \in Nat
        BY <1>1, <3>3
      <4> HIDE DEF u1, u2, v1, v2, xx, zz, c
      <4>10. (Scale * c) * xx <= (a * b) * xx
        <5>1. Scale * c \in Nat /\ a * b \in Nat /\ Scale * c <= a * b
          BY <1>1, <4>1, <4>7, <4>9, MulNatural DEF c
        <5>2. QED
          BY <4>8, <5>1, MulBoth
      <4>11. (Scale * c) * xx <= (Scale * Scale) * zz
        <5>1. (Scale * c) * xx \in Int /\ (a * b) * xx \in Int /\ (Scale * Scale) * zz \in Int
          BY <1>1, <4>1, <4>8, <4>9
        <5>2. QED
          BY <4>4, <4>5, <4>6, <4>10, <5>1
      <4>12. (Scale * c) * xx = Scale * (c * xx) /\ (Scale * Scale) * zz = Scale * (Scale * zz)
        BY <1>1, <4>8, <4>9, MulTwice
      <4>13. c * xx <= Scale * zz
        BY <1>1, <4>8, <4>9, <4>11, <4>12, MulNatural, Cancel
      <4>14. c * xx = x * (c * yFF) /\ Scale * zz = x * (Scale * zSS)
        BY <1>1, <3>1, <4>9, MulTwice DEF xx, zz
      <4>15. c * yFF <= Scale * zSS
        <5>1. c * yFF \in Int /\ Scale * zSS \in Int /\ x \in Nat \ {0}
          BY <1>1, <3>1, <4>9
        <5>2. QED
          BY <4>13, <4>14, <5>1, Cancel
      <4>16. QED
        BY <4>15 DEF c
    <3>4. QED
      BY <3>2, <3>3
  <2>8. AtLeast(z, y, f, h + n)
    BY <2>2, <2>7 DEF AtLeast
  <2>9. QED
    BY <2>1, <2>8 DEF f
<1>4. QED
  BY <1>2, <1>3

----------------------------------------------------------------------------
(* What is owed of it in the end.                                          *)

\* what an accrual makes of every part of the pool
LEMMA AccruedParts ==
  ASSUME NEW p \in Pools, NEW t \in Nat, p.last <= t
  PROVE  LET q == Accrued(p, t)
             hours == dt_hours(p.last, t)
             earned == SupplyRate(Ratios(p.curve), Utilization(p.debt, p.cash))
         IN  /\ q.cash = p.cash /\ q.supplied = p.supplied /\ q.curve = p.curve
             /\ p.last <= q.last /\ q.debt \in Nat /\ p.debt <= q.debt
             /\ p.debt = 0 => q.debt = 0 /\ q.index = p.index /\ q.rate = p.rate
             /\ p.debt # 0 /\ p.curve # NoCurve =>
                  /\ q.last = p.last + hours * MsPerHour
                  /\ q.index = Grown(p.index, Rate(p), p.debt, hours)
                  /\ q.rate = Grown(p.rate, earned, p.debt, hours)
<1> DEFINE hours == dt_hours(p.last, t)
           u == Utilization(p.debt, p.cash)
           debt == Grown(p.debt, Rate(p), p.debt, hours)
           rate == Grown(p.rate, SupplyRate(Ratios(p.curve), u), p.debt, hours)
           index == Grown(p.index, Rate(p), p.debt, hours)
           charged == [p EXCEPT !.index = index, !.debt = debt, !.rate = rate,
                                !.reserve = p.cash + debt - Times(p.supplied, rate),
                                !.last = p.last + hours * MsPerHour]
<1>1. /\ p.debt \in Nat /\ p.cash \in Nat /\ p.last \in Nat
      /\ p.curve \in Curves \union {NoCurve}
  BY PoolFields
<1>2. CASE p.debt = 0
  <2>1. Accrued(p, t) = [p EXCEPT !.last = t]
    BY <1>2 DEF Accrued
  <2>2. QED
    BY <1>1, <1>2, <2>1 DEF Pools
<1>3. CASE p.debt # 0 /\ p.curve = NoCurve
  <2>1. Accrued(p, t) = p
    BY <1>3 DEF Accrued
  <2>2. QED
    BY <1>1, <1>3, <2>1
<1>4. CASE p.debt # 0 /\ p.curve # NoCurve
  <2>1. u \in Ratio /\ Ratios(p.curve) \in Curve
    BY <1>1, <1>4, UtilizationIsARatio, CurvesAreCurves
  <2>2. Rate(p) \in Nat /\ Rate(p) # NoRate
    BY <2>1, RateNatural DEF Rate
  <2>3. hours \in Nat
    <3>1. p.last \in Int /\ t \in Int
      BY <1>1
    <3>2. QED
      BY <3>1, HoursFacts
  <2>4. debt \in Nat /\ p.debt <= debt
    <3> HIDE DEF hours
    <3>1. QED
      BY <1>1, <2>2, <2>3, GrownFacts
  <2>5. CASE hours = 0
    <3>1. Accrued(p, t) = p
      BY <1>4, <2>5 DEF Accrued
    <3>2. index = p.index /\ rate = p.rate
      BY <2>5 DEF Grown
    <3>3. p.last = p.last + hours * MsPerHour
      BY <1>1, <2>5, Positive
    <3> HIDE DEF index, rate, hours
    <3>4. QED
      BY <1>1, <1>4, <3>1, <3>2, <3>3 DEF index, rate, u, hours
  <2>6. CASE hours # 0
    <3>1. Accrued(p, t) = charged
      BY <1>4, <2>2, <2>6 DEF Accrued
    <3>2. p.last <= p.last + hours * MsPerHour
      <4>1. hours * MsPerHour \in Nat
        BY <2>3, MulNatural, Positive
      <4>2. QED
        BY <1>1, <4>1
    <3> HIDE DEF index, rate, debt, hours
    <3>3. /\ charged.cash = p.cash /\ charged.supplied = p.supplied /\ charged.curve = p.curve
          /\ charged.debt = debt /\ charged.index = index /\ charged.rate = rate
          /\ charged.last = p.last + hours * MsPerHour
      BY DEF Pools
    <3> HIDE DEF charged
    <3>4. QED
      BY <1>4, <2>4, <3>1, <3>2, <3>3 DEF index, rate, u, hours
  <2>7. QED
    BY <2>5, <2>6
<1>5. QED
  BY <1>2, <1>3, <1>4

\* whole hours, and those of the rest
LEMMA HoursAdd ==
  ASSUME NEW last \in Nat, NEW h \in Nat, NEW t \in Nat, last + h * MsPerHour <= t
  PROVE  /\ dt_hours(last, last + h * MsPerHour) = h
         /\ dt_hours(last, t) = h + dt_hours(last + h * MsPerHour, t)
<1> DEFINE q == h * MsPerHour
           d == t - last
           e == t - (last + q)
<1>1. MsPerHour \in Nat \ {0}
  BY Positive
<1>2. q \in Nat /\ q \div MsPerHour = h /\ (q = 0 => h = 0)
  BY <1>1, MulNatural, DivExact
<1>3. \A x \in Nat : (h * MsPerHour + x) \div MsPerHour = h + x \div MsPerHour
  BY <1>1
<1>4. 0 \div MsPerHour = 0
  BY <1>1
<1> HIDE DEF q
<1>5. e \in Nat /\ d = q + e
  BY <1>2 DEF q
<1>6. \A s, r \in Nat : s <= r => dt_hours(s, r) = (r - s) \div MsPerHour
  <2> SUFFICES ASSUME NEW s \in Nat, NEW r \in Nat, s <= r
               PROVE  dt_hours(s, r) = (r - s) \div MsPerHour
    OBVIOUS
  <2>1. CASE s = r
    <3>1. r - s = 0 /\ ~(r > s)
      BY <2>1
    <3>2. QED
      BY <1>4, <3>1 DEF dt_hours
  <2>2. CASE s # r
    BY <2>2 DEF dt_hours
  <2>3. QED
    BY <2>1, <2>2
<1>7. dt_hours(last, last + q) = q \div MsPerHour
  <2>1. last + q \in Nat /\ last <= last + q /\ (last + q) - last = q
    BY <1>2
  <2>2. QED
    BY <1>6, <2>1
<1>8. dt_hours(last, t) = (q + e) \div MsPerHour
  <2>1. last <= t /\ t - last = q + e
    BY <1>2, <1>5 DEF q
  <2>2. QED
    BY <1>6, <2>1
<1>9. dt_hours(last + q, t) = e \div MsPerHour
  <2>1. last + q \in Nat /\ last + q <= t
    BY <1>2 DEF q
  <2>2. QED
    BY <1>6, <2>1
<1>10. (q + e) \div MsPerHour = h + e \div MsPerHour
  BY <1>3, <1>5 DEF q
<1>11. QED
  BY <1>2, <1>7, <1>8, <1>9, <1>10 DEF q

\* h hours were charged at no less than the rates of a market that was read, and
\* the pool accrues: the hours add up, and so do the floors
LEMMA AccruedAtLeast ==
  ASSUME NEW p \in Pools, NEW t \in Nat, p.last <= t, p.curve # NoCurve,
         NEW debt \in Nat \ {0}, debt <= p.debt,
         NEW index \in Nat, NEW rate \in Nat, NEW h \in Nat
  PROVE  LET q == Accrued(p, t)
             curve == Ratios(p.curve)
             u == Utilization(debt, p.cash)
             lent == Factor(compute_borrow_rate(curve, u))
             earned == Factor(SupplyRate(curve, u))
             hours == h + dt_hours(p.last, t)
         IN  /\ AtLeast(p.index, index, lent, h) => AtLeast(q.index, index, lent, hours)
             /\ AtLeast(p.rate, rate, earned, h) => AtLeast(q.rate, rate, earned, hours)
<1> DEFINE q == Accrued(p, t)
           curve == Ratios(p.curve)
           u == Utilization(debt, p.cash)
           v == Utilization(p.debt, p.cash)
           n == dt_hours(p.last, t)
           low == compute_borrow_rate(curve, u)
           high == compute_borrow_rate(curve, v)
           less == SupplyRate(curve, u)
           more == SupplyRate(curve, v)
<1>1. /\ p.debt \in Nat \ {0} /\ p.cash \in Nat /\ p.last \in Nat
      /\ p.index \in Nat /\ p.rate \in Nat /\ Scale <= p.index /\ Scale <= p.rate
      /\ p.curve \in Curves
  BY PoolFields
<1>2. n \in Nat
  <2>1. p.last \in Int /\ t \in Int
    BY <1>1
  <2>2. QED
    BY <2>1, HoursFacts
<1>3. q.index = Grown(p.index, high, p.debt, n) /\ q.rate = Grown(p.rate, more, p.debt, n)
  BY <1>1, AccruedParts DEF Rate
<1>4. curve \in Curve
  BY <1>1, CurvesAreCurves
<1> HIDE DEF q, curve, n
<1>5. u \in Ratio /\ v \in Ratio /\ u <= v
  BY <1>1, UtilizationIsARatio, UtilizationMonotone
<1> HIDE DEF u, v
<1>6. /\ low \in Nat /\ high \in Nat /\ low <= high
      /\ less \in Nat /\ more \in Nat /\ less <= more
  BY <1>4, <1>5, RateNatural, BorrowRateMonotone, SupplyRateNatural, SupplyRateMonotone
<1> HIDE DEF low, high, less, more
<1>7. AtLeast(p.index, index, Factor(low), h) => AtLeast(q.index, index, Factor(low), h + n)
  <2>1. p.index \in Nat /\ Scale <= p.index /\ p.debt \in Nat \ {0}
    BY <1>1
  <2>2. low \in Nat /\ high \in Nat /\ low <= high
    BY <1>6
  <2>3. AtLeast(p.index, index, Factor(low), h)
          => AtLeast(Grown(p.index, high, p.debt, n), index, Factor(low), h + n)
    BY <1>2, <2>1, <2>2, AtLeastGrows
  <2>4. QED
    BY <1>3, <2>3
<1>8. AtLeast(p.rate, rate, Factor(less), h) => AtLeast(q.rate, rate, Factor(less), h + n)
  <2>1. p.rate \in Nat /\ Scale <= p.rate /\ p.debt \in Nat \ {0}
    BY <1>1
  <2>2. less \in Nat /\ more \in Nat /\ less <= more
    BY <1>6
  <2>3. AtLeast(p.rate, rate, Factor(less), h)
          => AtLeast(Grown(p.rate, more, p.debt, n), rate, Factor(less), h + n)
    BY <1>2, <2>1, <2>2, AtLeastGrows
  <2>4. QED
    BY <1>3, <2>3
<1>9. QED
  BY <1>7, <1>8 DEF q, curve, u, n, low, less

\* nothing is charged at first
LEMMA AtLeastAtFirst ==
  ASSUME NEW x \in Nat, NEW y \in Nat, y <= x, NEW f \in Nat
  PROVE  AtLeast(x, y, f, 0)
<1>1. Power(f, 0) = 1 /\ Power(Scale, 0) = 1 /\ Scale \in Nat /\ Scale - 0 = Scale
  BY PowerFacts, Positive
<1>2. x * 1 = x /\ y * 1 = y
  OBVIOUS
<1>3. Scale * y <= Scale * x
  BY <1>1, MulMonotone
<1>4. QED
  BY <1>1, <1>2, <1>3 DEF AtLeast

\* What one computation makes of y, and what is owed of it in the end.
LEMMA NoMoreOwed ==
  ASSUME NEW y \in Nat, NEW annual \in Nat, NEW debt \in Nat, NEW hours \in Nat,
         NEW owed \in Nat, AtLeast(owed, y, Factor(annual), hours)
  PROVE  (Scale - hours) * Grown(y, annual, debt, hours) <= Scale * owed
<1> DEFINE x == Grown(y, annual, debt, hours)
           S == Power(Scale, hours)
           F == Power(Factor(annual), hours)
           c == Scale - hours
<1>1. x \in Nat /\ x * S <= y * F
  BY GrownFacts, GrownAtMost
<1>2. Scale \in Nat \ {0} /\ S \in Nat \ {0} /\ F \in Nat
  <2>1. Scale \in Nat \ {0} /\ Factor(annual) \in Nat
    BY Positive, FactorFacts
  <2>2. S \in Nat \ {0} /\ F \in Nat
    BY <2>1, PowerFacts, PowerPositive
  <2>3. QED
    BY <2>1, <2>2
<1>3. c * (y * F) <= Scale * (owed * S)
  BY DEF AtLeast
<1> HIDE DEF x, S, F
<1>4. CASE c <= 0
  <2>1. 0 <= (hours - Scale) * x
    <3>1. hours - Scale \in Nat
      BY <1>2, <1>4
    <3>2. QED
      BY <1>1, <3>1, MulNatural
  <2>2. c * x = -((hours - Scale) * x) /\ (hours - Scale) * x \in Int
    BY <1>1, <1>2
  <2>3. Scale * owed \in Nat
    BY <1>2, MulNatural
  <2>4. c * x <= Scale * owed
    BY <2>1, <2>2, <2>3
  <2>5. QED
    BY <2>4 DEF x
<1>5. CASE ~(c <= 0)
  <2>1. c \in Nat
    BY <1>2, <1>5
  <2> HIDE DEF c
  <2>2. x * S \in Nat /\ y * F \in Nat /\ c * x \in Nat /\ Scale * owed \in Nat
    BY <1>1, <1>2, <2>1, MulNatural
  <2>3. c * (x * S) <= c * (y * F)
    BY <1>1, <2>1, <2>2, MulMonotone
  <2>4. c * (x * S) = S * (c * x) /\ Scale * (owed * S) = S * (Scale * owed)
    <3>1. (c * x) * S = S * (c * x) /\ (c * x) * S = c * (x * S)
      BY <1>1, <1>2, <2>1, <2>2, MulTwice
    <3>2. (Scale * owed) * S = S * (Scale * owed) /\ (Scale * owed) * S = Scale * (owed * S)
      BY <1>2, <2>2, MulTwice
    <3>3. QED
      BY <3>1, <3>2
  <2>5. S * (c * x) <= S * (Scale * owed)
    <3>1. S * (c * x) \in Nat /\ S * (Scale * owed) \in Nat /\ c * (y * F) \in Nat
      BY <1>2, <2>1, <2>2, MulNatural
    <3>2. QED
      BY <1>3, <2>3, <2>4, <3>1
  <2>6. c * x <= Scale * owed
    BY <1>2, <2>2, <2>5, Cancel
  <2>7. QED
    BY <2>6 DEF c, x
<1>6. QED
  BY <1>4, <1>5

\* A share of it is rounded down, by less than a unit.
LEMMA NoMoreOfAShare ==
  ASSUME NEW k \in Nat, NEW x \in Nat, NEW owed \in Nat, NEW hours \in Nat,
         (Scale - hours) * x <= Scale * owed
  PROVE  (Scale - hours) * Times(k, x) <= Scale * (Times(k, owed) + 1)
<1> DEFINE c == Scale - hours
           a == Times(k, x)
           b == Times(k, owed)
<1>1. Scale \in Nat \ {0} /\ k * x \in Nat /\ k * owed \in Nat
  BY Positive, MulNatural
<1>2. a \in Nat /\ Scale * a <= k * x
  BY <1>1, DivNatural, DivFacts DEF Times
<1>3. b \in Nat /\ k * owed < Scale * b + Scale
  BY <1>1, DivNatural, DivFacts DEF Times
<1>4. c * x <= Scale * owed
  OBVIOUS
<1>5. c \in Int /\ (c > 0 => c \in Nat) /\ (~(c > 0) => hours - Scale \in Nat)
  BY <1>1
<1> HIDE DEF a, b
<1>6. CASE c > 0
  <2>1. c * (Scale * a) <= c * (k * x)
    BY <1>1, <1>2, <1>5, <1>6, MulNatural, MulMonotone
  <2> HIDE DEF c
  <2>2. k * (c * x) <= k * (Scale * owed)
    BY <1>1, <1>4, <1>5, <1>6, MulNatural, MulMonotone
  <2>3. c * (Scale * a) = Scale * (c * a) /\ c * (k * x) = k * (c * x)
        /\ k * (Scale * owed) = Scale * (k * owed)
    <3>1. c * (Scale * a) = Scale * (c * a)
      BY <1>1, <1>2, <1>5
    <3>2. c * (k * x) = k * (c * x)
      BY <1>5
    <3>3. k * (Scale * owed) = Scale * (k * owed)
      BY <1>1
    <3>4. QED
      BY <3>1, <3>2, <3>3
  <2>4. Scale * (c * a) <= Scale * (k * owed)
    <3>1. c * (k * x) \in Int /\ Scale * (c * a) \in Int /\ Scale * (k * owed) \in Int
      BY <1>1, <1>2, <1>5
    <3>2. QED
      BY <2>1, <2>2, <2>3, <3>1
  <2>5. c * a \in Int /\ Scale * b \in Int
    BY <1>1, <1>2, <1>3, <1>5
  <2>6. c * a <= k * owed
    BY <1>1, <2>4, <2>5, Cancel
  <2>7. Scale * (b + 1) = Scale * b + Scale
    BY <1>1, <1>3
  <2>8. c * a <= Scale * (b + 1)
    BY <1>1, <1>3, <2>5, <2>6, <2>7
  <2>9. QED
    BY <2>8 DEF c, a, b
<1>7. CASE ~(c > 0)
  <2>1. 0 <= (hours - Scale) * a
    BY <1>2, <1>5, <1>7, MulNatural
  <2>2. c * a = -((hours - Scale) * a) /\ (hours - Scale) * a \in Int
    BY <1>1, <1>2
  <2>3. Scale * (b + 1) \in Nat
    BY <1>1, <1>3, MulNatural
  <2>4. c * a <= Scale * (b + 1)
    BY <2>1, <2>2, <2>3
  <2>5. QED
    BY <2>4 DEF a, b
<1>8. QED
  BY <1>6, <1>7

----------------------------------------------------------------------------
(* What a projection shows.                                                *)

MarketRead == [supplied : Nat, rate : Grows, debt : Nat, reserve : Int, last : Nat]

LEMMA ZeroRates ==
  ASSUME NEW u \in Ratio
  PROVE  compute_borrow_rate(ZeroCurve, u) = 0 /\ SupplyRate(ZeroCurve, u) = 0
<1>1. \A x \in Int : Times(0, x) = 0
  <2>1. 0 \div Scale = 0 /\ \A x \in Int : 0 * x = 0
    BY Positive
  <2>2. QED
    BY <2>1 DEF Times
<1>2. u \in Nat /\ Scale \in Nat \ {0}
  BY Positive DEF Ratio
<1>3. compute_borrow_rate(ZeroCurve, u) = 0
  <2>1. CASE u = 0
    BY <2>1 DEF compute_borrow_rate, ZeroCurve
  <2>2. CASE u > 0
    <3> DEFINE part == ((u - 0) * Scale) \div (Scale - 0)
    <3>1. part \in Int
      <4>1. (u - 0) * Scale \in Int /\ Scale - 0 \in Nat \ {0}
        BY <1>2
      <4>2. QED
        BY <4>1, DivFacts
    <3>2. compute_borrow_rate(ZeroCurve, u) = 0 + 0 + Times(0, part)
      BY <1>2, <2>2 DEF compute_borrow_rate, ZeroCurve
    <3> HIDE DEF part
    <3>3. QED
      BY <1>1, <3>1, <3>2
  <2>3. QED
    BY <1>2, <2>1, <2>2
<1>4. Times(0, u) = 0 /\ Times(0, Scale - 0) = 0
  BY <1>1, <1>2
<1>5. ZeroCurve.reserve = 0
  BY DEF ZeroCurve
<1>6. QED
  BY <1>3, <1>4, <1>5 DEF SupplyRate

LEMMA CashNatural ==
  ASSUME NEW m \in MarketRead
  PROVE  (IF m.debt > 0 THEN derive_cash(m.supplied, m.rate, m.debt, m.reserve) ELSE 0) \in Nat
<1>1. m.supplied \in Nat /\ m.rate \in Nat /\ m.debt \in Nat /\ m.reserve \in Int
  BY DEF MarketRead, Grows
<1>2. Times(m.supplied, m.rate) \in Nat
  BY <1>1, TimesFacts
<1>3. QED
  BY <1>1, <1>2 DEF derive_cash

\* A projection always has a rate, counts whole hours, and never shows less
\* than what it was given.
\* the two computations behind what is shown
LEMMA ProjectedForm ==
  ASSUME NEW known, NEW clock \in Int, command \in Commands,
         known.market \in MarketRead, known.params \in Curves \union {NoCurve}
  PROVE  LET m == known.market
             curve == IF known.params = NoCurve THEN ZeroCurve ELSE Ratios(known.params)
             cash == IF m.debt > 0 THEN derive_cash(m.supplied, m.rate, m.debt, m.reserve) ELSE 0
             u == Utilization(m.debt, cash)
             hours == dt_hours(LastUpdate(known), clock)
         IN  /\ Projected(known, clock).hours = hours
             /\ command = "user-debt-details" =>
                  Projected(known, clock).debt
                     = Times(known.position,
                             Grown(known.index, compute_borrow_rate(curve, u), m.debt, hours))
             /\ command # "user-debt-details" =>
                  Projected(known, clock).rate
                     = Grown(m.rate, SupplyRate(curve, u), m.debt, hours)
<1> DEFINE m == known.market
           curve == IF known.params = NoCurve THEN ZeroCurve ELSE Ratios(known.params)
           cash == IF m.debt > 0 THEN derive_cash(m.supplied, m.rate, m.debt, m.reserve) ELSE 0
           u == Utilization(m.debt, cash)
           hours == dt_hours(LastUpdate(known), clock)
           rate == project_exchange_rate(m.rate, m.debt, cash, curve, LastUpdate(known), clock)
           owes == project_debt(known.position, known.index, m.debt, cash, curve,
                                LastUpdate(known), clock)
<1>1. Projected(known, clock) =
        CASE compute_borrow_rate(curve, u) = NoRate -> Nothing
          [] command = "user-debt-details" -> owes
          [] command = "exchange-rate" -> rate
          [] command = "market-state" -> WithFace(rate, m.supplied)
  BY DEF Projected
<1>2. /\ rate.hours = hours
      /\ rate.rate = Grown(m.rate, SupplyRate(curve, u), m.debt, hours)
      /\ WithFace(rate, m.supplied).hours = hours
      /\ WithFace(rate, m.supplied).rate = rate.rate
  BY DEF project_exchange_rate, WithFace
<1>3. /\ owes.hours = hours
      /\ owes.debt = Times(known.position,
                           Grown(known.index, compute_borrow_rate(curve, u), m.debt, hours))
  BY DEF project_debt
<1>4. compute_borrow_rate(curve, u) # NoRate
  <2>1. cash \in Nat /\ m.debt \in Nat
    BY CashNatural DEF MarketRead
  <2>2. curve \in Curve
    BY CurvesAreCurves
  <2> HIDE DEF cash, curve
  <2>3. u \in Ratio
    BY <2>1, UtilizationIsARatio
  <2>4. QED
    BY <2>2, <2>3, RateNatural
<1> HIDE DEF m, curve, cash, u, hours, rate, owes
<1>5. command = "user-debt-details" => Projected(known, clock) = owes
  BY <1>1, <1>4
<1>6. command = "exchange-rate" => Projected(known, clock) = rate
  BY <1>1, <1>4
<1>7. command = "market-state" => Projected(known, clock) = WithFace(rate, m.supplied)
  BY <1>1, <1>4
<1>8. QED
  BY <1>2, <1>3, <1>5, <1>6, <1>7 DEF Commands, m, curve, cash, u, hours

LEMMA ProjectedFacts ==
  ASSUME NEW known, NEW clock \in Int, command \in Commands,
         known.market \in MarketRead, known.params \in Curves \union {NoCurve},
         known.times \in Nat
  PROVE  /\ Projected(known, clock).hours = dt_hours(LastUpdate(known), clock)
         /\ Projected(known, clock).hours \in Nat
         /\ command = "user-debt-details" /\ known.position \in Nat /\ known.index \in Nat =>
               /\ Projected(known, clock).debt \in Nat
               /\ Times(known.position, known.index) <= Projected(known, clock).debt
         /\ command # "user-debt-details" =>
               /\ Projected(known, clock).rate \in Nat
               /\ known.market.rate <= Projected(known, clock).rate
<1> DEFINE m == known.market
           curve == IF known.params = NoCurve THEN ZeroCurve ELSE Ratios(known.params)
           cash == IF m.debt > 0 THEN derive_cash(m.supplied, m.rate, m.debt, m.reserve) ELSE 0
           u == Utilization(m.debt, cash)
           hours == dt_hours(LastUpdate(known), clock)
           grown == Grown(known.index, compute_borrow_rate(curve, u), m.debt, hours)
<1>1. /\ Projected(known, clock).hours = hours
      /\ command = "user-debt-details" =>
            Projected(known, clock).debt = Times(known.position, grown)
      /\ command # "user-debt-details" =>
            Projected(known, clock).rate = Grown(m.rate, SupplyRate(curve, u), m.debt, hours)
  BY ProjectedForm
<1>2. m.debt \in Nat /\ m.last \in Nat /\ m.rate \in Nat
  BY DEF MarketRead, Grows
<1>3. curve \in Curve /\ cash \in Nat
  BY CurvesAreCurves, CashNatural
<1>4. hours \in Nat
  <2>1. LastUpdate(known) \in Int
    BY <1>2 DEF LastUpdate
  <2>2. QED
    BY <2>1, HoursFacts
<1> HIDE DEF curve, cash, hours, m
<1>5. u \in Ratio
  BY <1>2, <1>3, UtilizationIsARatio
<1> HIDE DEF u
<1>6. compute_borrow_rate(curve, u) \in Nat /\ SupplyRate(curve, u) \in Nat
  BY <1>3, <1>5, RateNatural, SupplyRateNatural
<1>7. /\ Grown(m.rate, SupplyRate(curve, u), m.debt, hours) \in Nat
      /\ m.rate <= Grown(m.rate, SupplyRate(curve, u), m.debt, hours)
  BY <1>2, <1>4, <1>6, GrownFacts
<1>8. ASSUME known.position \in Nat, known.index \in Nat
      PROVE  /\ Times(known.position, grown) \in Nat
             /\ Times(known.position, known.index) <= Times(known.position, grown)
  <2>1. grown \in Nat /\ known.index <= grown
    BY <1>2, <1>4, <1>6, <1>8, GrownFacts
  <2> HIDE DEF grown
  <2>2. /\ Times(known.position, grown) \in Nat /\ Times(known.position, known.index) \in Nat
        /\ Times(known.position, known.index) <= Times(known.position, grown)
    BY <1>8, <2>1, TimesFacts
  <2>3. QED
    BY <2>2
<1> HIDE DEF grown
<1>9. QED
  BY <1>1, <1>4, <1>7, <1>8 DEF hours, m

MarketOf(p) == [supplied |-> p.supplied, rate |-> p.rate, debt |-> p.debt,
                reserve |-> p.reserve, last |-> p.last]

\* What is projected of a pool as it is, is what an accrual makes of it.
LEMMA ProjectedIsAccrued ==
  ASSUME NEW p \in Pools, Balanced(p), NEW known, NEW clock \in Nat, command \in Commands,
         known.market = MarketOf(p), known.params = p.curve, known.times = p.last
  PROVE  /\ command = "user-debt-details" /\ known.position = p.scaled /\ known.index = p.index =>
               Projected(known, clock).debt = DebtOf(Accrued(p, clock))
         /\ command # "user-debt-details" =>
               Projected(known, clock).rate = Accrued(p, clock).rate
         /\ command = "market-state" =>
               Projected(known, clock).face
                  = Times(Accrued(p, clock).supplied, Accrued(p, clock).rate)
         /\ LastUpdate(known) = p.last
<1> DEFINE curve == IF p.curve = NoCurve THEN ZeroCurve ELSE Ratios(p.curve)
           cash == IF p.debt > 0 THEN derive_cash(p.supplied, p.rate, p.debt, p.reserve) ELSE 0
           u == Utilization(p.debt, p.cash)
           hours == dt_hours(p.last, clock)
           lent == compute_borrow_rate(curve, u)
           earned == SupplyRate(curve, u)
           index == Grown(p.index, lent, p.debt, hours)
           rate == Grown(p.rate, earned, p.debt, hours)
<1>1. /\ p.scaled \in Int /\ p.debt \in Nat /\ p.supplied \in Nat /\ p.cash \in Nat
      /\ p.reserve \in Int /\ p.last \in Nat /\ p.index \in Nat /\ p.rate \in Nat
      /\ p.curve \in Curves \union {NoCurve}
  BY PoolFields
<1>2. curve \in Curve
  BY <1>1, CurvesAreCurves
<1>3. u \in Ratio
  BY <1>1, UtilizationIsARatio
<1>4. hours \in Nat
  <2>1. p.last \in Int /\ clock \in Int
    BY <1>1
  <2>2. QED
    BY <2>1, HoursFacts
<1>5. Utilization(p.debt, cash) = u
  <2>1. CASE p.debt > 0
    <3>1. Times(p.supplied, p.rate) \in Nat
      BY <1>1, TimesFacts
    <3>2. p.cash = Times(p.supplied, p.rate) - p.debt + p.reserve
      BY DEF Balanced
    <3>3. derive_cash(p.supplied, p.rate, p.debt, p.reserve) = p.cash
      BY <1>1, <3>1, <3>2 DEF derive_cash
    <3>4. QED
      BY <2>1, <3>3
  <2>2. CASE ~(p.debt > 0)
    BY <2>2 DEF Utilization
  <2>3. QED
    BY <2>1, <2>2
<1>6. LastUpdate(known) = p.last
  BY <1>1 DEF LastUpdate, MarketOf
<1> DEFINE shows == project_exchange_rate(p.rate, p.debt, cash, curve, p.last, clock)
           owes == project_debt(known.position, known.index, p.debt, cash, curve, p.last, clock)
<1>7. Projected(known, clock) =
        CASE compute_borrow_rate(curve, Utilization(p.debt, cash)) = NoRate -> Nothing
          [] command = "user-debt-details" -> owes
          [] command = "exchange-rate" -> shows
          [] command = "market-state" -> WithFace(shows, p.supplied)
  <2>1. /\ known.market.supplied = p.supplied /\ known.market.rate = p.rate
        /\ known.market.debt = p.debt /\ known.market.reserve = p.reserve
    BY DEF MarketOf
  <2>2. QED
    BY <1>6, <2>1 DEF Projected
<1>8. /\ shows.rate = rate
      /\ known.index = p.index => owes.debt = Times(known.position, index)
  BY <1>5 DEF project_exchange_rate, project_debt
<1>9. WithFace(shows, p.supplied).rate = shows.rate
      /\ WithFace(shows, p.supplied).face = Times(p.supplied, shows.rate)
  BY DEF WithFace, face_from_ltao
<1>10. lent \in Nat /\ lent # NoRate
  BY <1>2, <1>3, RateNatural
<1>11. /\ Accrued(p, clock).index = index /\ Accrued(p, clock).rate = rate
       /\ Accrued(p, clock).scaled = p.scaled /\ Accrued(p, clock).supplied = p.supplied
  <2>1. CASE p.debt = 0
    <3>1. index = p.index /\ rate = p.rate
      BY <2>1 DEF Grown
    <3>2. Accrued(p, clock) = [p EXCEPT !.last = clock]
      BY <2>1 DEF Accrued
    <3> HIDE DEF index, rate
    <3>3. QED
      BY <3>1, <3>2 DEF Pools
  <2>2. CASE p.debt # 0 /\ p.curve = NoCurve
    <3>1. lent = 0 /\ earned = 0
      BY <1>3, <2>2, ZeroRates
    <3> HIDE DEF lent, earned
    <3>2. index = p.index /\ rate = p.rate
      BY <1>1, <1>4, <3>1, GrownAtZero
    <3>3. Accrued(p, clock) = p
      BY <2>2 DEF Accrued
    <3> HIDE DEF index, rate
    <3>4. QED
      BY <3>2, <3>3
  <2>3. CASE p.debt # 0 /\ p.curve # NoCurve /\ hours = 0
    <3>1. index = p.index /\ rate = p.rate
      BY <2>3 DEF Grown
    <3>2. Accrued(p, clock) = p
      BY <2>3 DEF Accrued
    <3> HIDE DEF index, rate
    <3>3. QED
      BY <3>1, <3>2
  <2>4. CASE p.debt # 0 /\ p.curve # NoCurve /\ hours # 0
    <3>1. Rate(p) = lent /\ SupplyRate(Ratios(p.curve), Utilization(p.debt, p.cash)) = earned
      BY <2>4 DEF Rate
    <3> DEFINE debt == Grown(p.debt, Rate(p), p.debt, hours)
               charged == [p EXCEPT !.index = index, !.debt = debt, !.rate = rate,
                                    !.reserve = p.cash + debt - Times(p.supplied, rate),
                                    !.last = p.last + hours * MsPerHour]
    <3>2. Rate(p) # NoRate
      BY <1>10, <3>1
    <3>3. Accrued(p, clock) = charged
      BY <2>4, <3>1, <3>2 DEF Accrued
    <3> HIDE DEF index, rate, debt, hours
    <3>4. QED
      BY <3>3 DEF Pools
  <2>5. QED
    BY <2>1, <2>2, <2>3, <2>4
<1> HIDE DEF index, rate, owes, shows, curve, cash, u, hours
<1>12. DebtOf(Accrued(p, clock)) = Times(p.scaled, index)
  BY <1>11 DEF DebtOf
<1>13. compute_borrow_rate(curve, Utilization(p.debt, cash)) # NoRate
  BY <1>5, <1>10
<1>14. command = "user-debt-details" => Projected(known, clock) = owes
  BY <1>7, <1>13
<1>15. command = "exchange-rate" => Projected(known, clock) = shows
  BY <1>7, <1>13
<1>16. command = "market-state" => Projected(known, clock) = WithFace(shows, p.supplied)
  BY <1>7, <1>13
<1>17. QED
  BY <1>6, <1>8, <1>9, <1>11, <1>12, <1>14, <1>15, <1>16 DEF Commands

----------------------------------------------------------------------------
(* The inductive invariant.                                                *)

ReadNames == {"position", "index", "rate", "market", "params", "times"}

Contents(what) ==
    CASE what = "position" -> Nat \union {Missing}
      [] what \in {"index", "rate"} -> Grows
      [] what = "market" -> MarketRead
      [] what = "params" -> Curves \union {NoCurve}
      [] what = "times" -> Nat

\* the i-th read is next: those before it are done, and a position that is
\* missing has ended the projection of a debt at the fourth
At(i) ==
    /\ left = SubSeq(Reads(command), i, Len(Reads(command)))
    /\ DOMAIN got = {Reads(command)[j] : j \in 1 .. i - 1}
    /\ command = "user-debt-details" /\ i > 4 => got["position"] # Missing

Idle == command = "none" => left = <<>> /\ got = <<>> /\ shown = Nothing
Progress ==
    left # <<>> => /\ command \in Commands /\ shown = Nothing
                   /\ \E i \in 1 .. Len(Reads(command)) : At(i)
ReadTyped == \A w \in ReadNames \intersect DOMAIN got : got[w] \in Contents(w)

\* what was read of a pool that nothing happened to is what it holds
Fresh ==
    command # "none" /\ changed = {} =>
        \A w \in ReadNames \intersect DOMAIN got : got[w] = Value(w)

CashOf(m) == Times(m.supplied, m.rate) - m.debt + m.reserve

\* accruals since the first read leave the shares alone and lower nothing
Since ==
    command # "none" /\ changed \subseteq {"accrual"} =>
        /\ pool.scaled = first.scaled /\ first.index <= pool.index /\ first.rate <= pool.rate
        /\ "position" \in DOMAIN got => got["position"] = first.scaled
        /\ "index" \in DOMAIN got => first.index <= got["index"]
        /\ "market" \in DOMAIN got => first.rate <= got["market"].rate

\* nor has anything that was read been more than the pool has: the books are as
\* they were, on the same curve
Behind ==
    command # "none" /\ changed \subseteq {"accrual"} =>
        /\ "index" \in DOMAIN got => got["index"] <= pool.index
        /\ "market" \in DOMAIN got =>
            LET m == got["market"] IN
            /\ m.rate <= pool.rate /\ m.debt <= pool.debt /\ (m.debt = 0 => pool.debt = 0)
            /\ CashOf(m) = pool.cash
            /\ m.last <= pool.last /\ ("times" \in DOMAIN got => m.last <= got["times"])
        /\ "params" \in DOMAIN got => got["params"] = pool.curve
        /\ "times" \in DOMAIN got => got["times"] <= pool.last

\* since the time of the last accrual was read, whole hours were charged, for no
\* less than what was read gives for them
Charged ==
    command # "none" /\ changed \subseteq {"accrual"} /\ "times" \in DOMAIN got =>
        LET m == got["market"]
            curve == Ratios(got["params"])
            u == Utilization(m.debt, pool.cash)
            hours == dt_hours(got["times"], pool.last)
        IN  m.debt > 0 /\ got["params"] # NoCurve =>
            /\ pool.last = got["times"] + hours * MsPerHour
            /\ AtLeast(pool.rate, m.rate, Factor(SupplyRate(curve, u)), hours)
            /\ command = "user-debt-details" =>
                AtLeast(pool.index, got["index"], Factor(compute_borrow_rate(curve, u)), hours)

Reader == Idle /\ Progress /\ ReadTyped
Shown == ExactWhenUndisturbed /\ NeverBelowStored /\ NoInterestTwice /\ LocalClockCostsAnHour
Inv == TypeOK /\ first \in Pools /\ Reader /\ Fresh /\ Since /\ Behind /\ Charged /\ Shown

LEMMA ReadsFacts ==
  /\ \A c \in Commands : /\ Reads(c) \in Seq(ReadNames \union {"clock"})
                         /\ Reads(c) # <<>> /\ Len(Reads(c)) \in 1 .. 6
                         /\ \A i \in 1 .. Len(Reads(c)) - 1 : Reads(c)[i] \in ReadNames
                         /\ Reads(c)[Len(Reads(c))] = "clock"
                         /\ \A i \in 1 .. Len(Reads(c)) - 2 : Reads(c)[i] # "times"
  /\ Len(Reads("user-debt-details")) = 6
  /\ Reads("user-debt-details")[1] = "position" /\ Reads("user-debt-details")[2] = "index"
  /\ Reads("user-debt-details")[3] = "market" /\ Reads("user-debt-details")[4] = "params"
  /\ Reads("user-debt-details")[5] = "times" /\ Reads("user-debt-details")[6] = "clock"
  /\ Len(Reads("exchange-rate")) = 5
  /\ Reads("exchange-rate")[2] = "market" /\ Reads("exchange-rate")[3] = "params"
  /\ Reads("exchange-rate")[4] = "times"
  /\ Len(Reads("market-state")) = 4
  /\ Reads("market-state")[1] = "market" /\ Reads("market-state")[2] = "params"
  /\ Reads("market-state")[3] = "times"
<1>1. /\ Reads("user-debt-details") =
            <<"position", "index", "market", "params", "times", "clock">>
      /\ Reads("exchange-rate") = <<"rate", "market", "params", "times", "clock">>
      /\ Reads("market-state") = <<"market", "params", "times", "clock">>
  BY DEF Reads
<1> DEFINE Fine(r) == /\ r \in Seq(ReadNames \union {"clock"}) /\ r # <<>> /\ Len(r) \in 1 .. 6
                      /\ \A i \in 1 .. Len(r) - 1 : r[i] \in ReadNames
                      /\ r[Len(r)] = "clock" /\ \A i \in 1 .. Len(r) - 2 : r[i] # "times"
<1>2. Fine(<<"position", "index", "market", "params", "times", "clock">>)
  <2>1. <<"position", "index", "market", "params", "times", "clock">> \in Seq(ReadNames \union {"clock"})
    BY DEF ReadNames
  <2>2. <<"position", "index", "market", "params", "times", "clock">> # <<>> /\ Len(<<"position", "index", "market", "params", "times", "clock">>) \in 1 .. 6
    OBVIOUS
  <2> DEFINE r == <<"position", "index", "market", "params", "times", "clock">>
  <2>3. \A i \in 1 .. Len(r) - 1 : r[i] \in ReadNames
    BY DEF ReadNames
  <2>4. r[Len(r)] = "clock" /\ \A i \in 1 .. Len(r) - 2 : r[i] # "times"
    OBVIOUS
  <2>5. QED
    BY <2>1, <2>2, <2>3, <2>4
<1>3. Fine(<<"rate", "market", "params", "times", "clock">>)
  <2>1. <<"rate", "market", "params", "times", "clock">> \in Seq(ReadNames \union {"clock"})
    BY DEF ReadNames
  <2>2. <<"rate", "market", "params", "times", "clock">> # <<>> /\ Len(<<"rate", "market", "params", "times", "clock">>) \in 1 .. 6
    OBVIOUS
  <2> DEFINE r == <<"rate", "market", "params", "times", "clock">>
  <2>3. \A i \in 1 .. Len(r) - 1 : r[i] \in ReadNames
    BY DEF ReadNames
  <2>4. r[Len(r)] = "clock" /\ \A i \in 1 .. Len(r) - 2 : r[i] # "times"
    OBVIOUS
  <2>5. QED
    BY <2>1, <2>2, <2>3, <2>4
<1>4. Fine(<<"market", "params", "times", "clock">>)
  <2>1. <<"market", "params", "times", "clock">> \in Seq(ReadNames \union {"clock"})
    BY DEF ReadNames
  <2>2. <<"market", "params", "times", "clock">> # <<>> /\ Len(<<"market", "params", "times", "clock">>) \in 1 .. 6
    OBVIOUS
  <2> DEFINE r == <<"market", "params", "times", "clock">>
  <2>3. \A i \in 1 .. Len(r) - 1 : r[i] \in ReadNames
    BY DEF ReadNames
  <2>4. r[Len(r)] = "clock" /\ \A i \in 1 .. Len(r) - 2 : r[i] # "times"
    OBVIOUS
  <2>5. QED
    BY <2>1, <2>2, <2>3, <2>4
<1> HIDE DEF Fine
<1>5. \A c \in Commands : Fine(Reads(c))
  BY <1>1, <1>2, <1>3, <1>4 DEF Commands
<1>6. QED
  BY <1>1, <1>5 DEF Fine

LEMMA RestFacts ==
  ASSUME NEW c \in Commands, NEW i \in 1 .. Len(Reads(c))
  PROVE  LET r == Reads(c)
             rest == SubSeq(r, i, Len(r))
         IN  /\ Head(rest) = r[i] /\ Tail(rest) = SubSeq(r, i + 1, Len(r))
             /\ Len(rest) = Len(r) - i + 1 /\ rest # <<>>
<1> DEFINE r == Reads(c)
           rest == SubSeq(r, i, Len(r))
<1>1. r \in Seq(ReadNames \union {"clock"}) /\ Len(r) \in Nat
  BY ReadsFacts
<1> HIDE DEF r
<1>2. i \in 1 .. Len(r) /\ Len(r) \in i .. Len(r)
  BY <1>1 DEF r
<1>3. Head(rest) = r[i] /\ Tail(rest) = SubSeq(r, i + 1, Len(r))
  BY <1>1, <1>2, HeadTailOfSubSeq
<1>4. Len(rest) = Len(r) - i + 1
  BY <1>1, <1>2
<1>5. rest # <<>>
  <2>1. Len(rest) # 0 /\ Len(<<>>) = 0
    BY <1>1, <1>2, <1>4
  <2>2. QED
    BY <2>1
<1>6. QED
  BY <1>3, <1>4, <1>5 DEF r

\* Nothing is shown before the reads are done.
LEMMA NothingShown ==
  ASSUME \A c \in Commands : ~Shows(c)
  PROVE  Shown
  BY DEF Shown, ExactWhenUndisturbed, NeverBelowStored, NoInterestTwice, LocalClockCostsAnHour,
         Commands

\* The chain leaves the command alone, and stops with it.
LEMMA ChainLeavesReader ==
  ASSUME Inv, Followed, UNCHANGED cli
  PROVE  Reader' /\ Shown' /\ (first \in Pools)'
<1>1. UNCHANGED <<command, left, got, shown, first>>
  BY DEF cli
<1>2. Reader'
  BY <1>1 DEF Inv, Reader, Idle, Progress, ReadTyped, At
<1>3. \A c \in Commands : ~Shows(c)'
  BY <1>1 DEF Followed, Shows, Commands
<1>4. Shown'
  BY <1>1, <1>3 DEF Shown, ExactWhenUndisturbed, NeverBelowStored, NoInterestTwice,
                    LocalClockCostsAnHour, Commands
<1>5. QED
  BY <1>1, <1>2, <1>4 DEF Inv

LEMMA InitInv == Init => Inv
<1> SUFFICES ASSUME Init PROVE Inv
  OBVIOUS
<1>1. pool \in Pools /\ Balanced(pool) /\ pool.last <= MaxTime /\ pool.last \in Nat
  BY PoolsAssumption DEF Init, Pools
<1>2. DOMAIN got = {}
  BY DEF Init
<1>3. TypeOK
  <2>1. now \in 0 .. MaxTime /\ 0 \in 0 .. MaxMoves /\ pool.last <= now
    BY <1>1, BoundsAssumption DEF Init
  <2>2. QED
    BY <1>1, <2>1 DEF Init, TypeOK
<1>4. Reader
  BY <1>2 DEF Init, Reader, Idle, Progress, ReadTyped
<1>5. Fresh /\ Since /\ Behind /\ Charged
  BY DEF Init, Fresh, Since, Behind, Charged
<1>6. Shown
  BY DEF Init, Shown, ExactWhenUndisturbed, NeverBelowStored, NoInterestTwice,
         LocalClockCostsAnHour, Commands, Shows
<1>7. QED
  BY <1>1, <1>3, <1>4, <1>5, <1>6 DEF Inv, Init

LEMMA TickInv == ASSUME Inv, Tick PROVE Inv'
<1>1. Followed /\ UNCHANGED <<pool, moves, cli, changed>> /\ now' = now + 1 /\ now < MaxTime
  BY DEF Tick
<1>2. UNCHANGED <<command, left, got, shown, first, localClock>>
  BY <1>1 DEF cli
<1>3. pool.last \in Nat /\ pool.last <= now /\ now \in 0 .. MaxTime
  BY PoolFields DEF Inv, TypeOK
<1>4. TypeOK'
  BY <1>1, <1>2, <1>3, BoundsAssumption DEF Inv, TypeOK
<1>5. Fresh' /\ Since' /\ Behind' /\ Charged'
  BY <1>1, <1>2 DEF Inv, Fresh, Since, Behind, Charged, Value
<1>6. QED
  BY <1>1, <1>4, <1>5, ChainLeavesReader DEF Inv

\* The time of the accrual is read when everything is that its hours are charged
\* on, and but the clock after it.
LEMMA BeforeTimes ==
  ASSUME NEW c \in Commands, NEW i \in 1 .. Len(Reads(c)),
         Reads(c)[i] = "times" \/ "times" \in {Reads(c)[j] : j \in 1 .. i - 1}
  PROVE  /\ {"market", "params"} \subseteq {Reads(c)[j] : j \in 1 .. i - 1}
         /\ c = "user-debt-details" => "index" \in {Reads(c)[j] : j \in 1 .. i - 1}
         /\ "times" \in {Reads(c)[j] : j \in 1 .. i - 1} => Reads(c)[i] = "clock"
<1>1. /\ Len(Reads(c)) \in Nat /\ Reads(c)[Len(Reads(c))] = "clock"
      /\ \A j \in 1 .. Len(Reads(c)) - 2 : Reads(c)[j] # "times"
  BY ReadsFacts
<1>2. /\ i = Len(Reads(c)) - 1 \/ i = Len(Reads(c))
      /\ "times" \in {Reads(c)[j] : j \in 1 .. i - 1} => i = Len(Reads(c))
  <2>1. PICK j \in 1 .. i : Reads(c)[j] = "times" /\ (Reads(c)[i] = "times" \/ j <= i - 1)
    BY <1>1
  <2>2. ~(j <= Len(Reads(c)) - 2)
    BY <1>1, <2>1
  <2>3. "times" \in {Reads(c)[k] : k \in 1 .. i - 1} => i = Len(Reads(c))
    BY <1>1
  <2>4. QED
    BY <1>1, <2>1, <2>2, <2>3
<1>3. "times" \in {Reads(c)[j] : j \in 1 .. i - 1} => Reads(c)[i] = "clock"
  BY <1>1, <1>2
<1>4. CASE c = "user-debt-details"
  <2>1. i = 5 \/ i = 6
    BY <1>2, <1>4, ReadsFacts
  <2>2. 2 \in 1 .. i - 1 /\ 3 \in 1 .. i - 1 /\ 4 \in 1 .. i - 1
    BY <2>1
  <2>3. QED
    BY <1>3, <1>4, <2>2, ReadsFacts
<1>5. CASE c = "exchange-rate"
  <2>1. i = 4 \/ i = 5
    BY <1>2, <1>5, ReadsFacts
  <2>2. 2 \in 1 .. i - 1 /\ 3 \in 1 .. i - 1
    BY <2>1
  <2>3. QED
    BY <1>3, <1>5, <2>2, ReadsFacts
<1>6. CASE c = "market-state"
  <2>1. i = 3 \/ i = 4
    BY <1>2, <1>6, ReadsFacts
  <2>2. 1 \in 1 .. i - 1 /\ 2 \in 1 .. i - 1
    BY <2>1
  <2>3. QED
    BY <1>3, <1>6, <2>2, ReadsFacts
<1>7. QED
  BY <1>4, <1>5, <1>6 DEF Commands

LEMMA ReadBeforeTimes ==
  ASSUME Inv, left # <<>>, "times" \in DOMAIN got \/ Head(left) = "times"
  PROVE  /\ {"market", "params"} \subseteq DOMAIN got
         /\ command = "user-debt-details" => "index" \in DOMAIN got
         /\ "times" \in DOMAIN got => Head(left) = "clock"
<1>1. command \in Commands
  BY DEF Inv, Reader, Progress
<1>2. PICK i \in 1 .. Len(Reads(command)) : At(i)
  BY DEF Inv, Reader, Progress
<1>3. DOMAIN got = {Reads(command)[j] : j \in 1 .. i - 1}
  BY <1>2 DEF At
<1>4. Head(left) = Reads(command)[i]
  BY <1>1, <1>2, RestFacts DEF At
<1>5. QED
  BY <1>1, <1>3, <1>4, BeforeTimes

LEMMA AccrueCharged ==
  ASSUME Inv, Accrue
  PROVE  Charged'
<1>1. /\ Followed /\ UNCHANGED <<command, left, got>>
      /\ pool' = Accrued(pool, now) /\ changed' = changed \union {"accrual"}
  BY DEF Accrue, cli
<1> SUFFICES ASSUME command # "none", changed \subseteq {"accrual"}, "times" \in DOMAIN got,
                    got["market"].debt > 0, got["params"] # NoCurve
             PROVE  Charged'
  BY <1>1 DEF Charged
<1> DEFINE m == got["market"]
           curve == Ratios(got["params"])
           u == Utilization(m.debt, pool.cash)
           lent == Factor(compute_borrow_rate(curve, u))
           earned == Factor(SupplyRate(curve, u))
           h == dt_hours(got["times"], pool.last)
           n == dt_hours(pool.last, now)
<1>2. pool \in Pools /\ now \in Nat /\ pool.last <= now /\ pool.last \in Nat
  BY BoundsAssumption, PoolFields DEF Inv, TypeOK
<1>3. /\ {"market", "params"} \subseteq DOMAIN got
      /\ command = "user-debt-details" => "index" \in DOMAIN got
  BY <1>1, ReadBeforeTimes DEF Followed
<1>4. /\ got["times"] \in Nat /\ m.debt \in Nat \ {0} /\ m.rate \in Nat
      /\ command = "user-debt-details" => got["index"] \in Nat
  BY <1>3 DEF Inv, Reader, ReadTyped, ReadNames, Contents, MarketRead, Grows
<1>5. m.debt <= pool.debt /\ pool.debt \in Nat /\ got["params"] = pool.curve
      /\ got["times"] <= pool.last
  BY <1>2, <1>3, PoolFields DEF Inv, Behind
<1>6. /\ pool.last = got["times"] + h * MsPerHour
      /\ AtLeast(pool.rate, m.rate, earned, h)
      /\ command = "user-debt-details" => AtLeast(pool.index, got["index"], lent, h)
  BY DEF Inv, Charged
<1>7. h \in Nat /\ n \in Nat
  <2>1. got["times"] \in Int /\ pool.last \in Int /\ now \in Int
    BY <1>2, <1>4
  <2>2. QED
    BY <2>1, HoursFacts
<1>8. pool'.last = pool.last + n * MsPerHour /\ pool'.cash = pool.cash /\ pool'.last <= now
  <2>1. pool.debt # 0 /\ pool.curve # NoCurve
    BY <1>4, <1>5
  <2>2. pool'.last = pool.last + n * MsPerHour /\ pool'.cash = pool.cash
    BY <1>1, <1>2, <2>1, AccruedParts
  <2>3. pool'.last <= now
    BY <1>1, <1>2, AccruedFacts DEF Inv, TypeOK
  <2>4. QED
    BY <2>2, <2>3
<1>9. /\ command = "user-debt-details" => AtLeast(pool'.index, got["index"], lent, h + n)
      /\ AtLeast(pool'.rate, m.rate, earned, h + n)
  <2>1. /\ \A y \in Nat : AtLeast(pool.index, y, lent, h) => AtLeast(pool'.index, y, lent, h + n)
        /\ \A y \in Nat : AtLeast(pool.rate, y, earned, h) => AtLeast(pool'.rate, y, earned, h + n)
    <3>1. pool.curve # NoCurve
      BY <1>5
    <3>2. QED
      BY <1>1, <1>2, <1>4, <1>5, <1>7, <3>1, AccruedAtLeast
  <2> HIDE DEF lent, earned, h, n
  <2>2. QED
    BY <1>4, <1>6, <2>1
<1> HIDE DEF h, n
<1>10. /\ pool'.last = got["times"] + (h + n) * MsPerHour
       /\ dt_hours(got["times"], pool'.last) = h + n
  <2>1. (h + n) * MsPerHour = h * MsPerHour + n * MsPerHour
    BY <1>7, Positive
  <2>2. h * MsPerHour \in Nat /\ n * MsPerHour \in Nat
    BY <1>7, MulNatural, Positive
  <2>3. pool'.last = got["times"] + (h + n) * MsPerHour
    BY <1>4, <1>6, <1>8, <2>1, <2>2
  <2>4. h + n \in Nat
    BY <1>7
  <2>5. dt_hours(got["times"], got["times"] + (h + n) * MsPerHour) = h + n
    <3>1. got["times"] + (h + n) * MsPerHour \in Nat
      BY <1>4, <2>1, <2>2
    <3>2. QED
      BY <1>4, <2>4, <3>1, HoursAdd
  <2>6. QED
    BY <2>3, <2>5
<1>11. QED
  BY <1>1, <1>8, <1>9, <1>10 DEF Charged

LEMMA AccrueInv == ASSUME Inv, Accrue PROVE Inv'
<1>1. /\ Followed /\ UNCHANGED <<now, moves, cli>>
      /\ pool' = Accrued(pool, now) /\ changed' = changed \union {"accrual"}
  BY DEF Accrue
<1>2. UNCHANGED <<command, left, got, shown, first, localClock>>
  BY <1>1 DEF cli
<1>3. pool \in Pools /\ Balanced(pool) /\ now \in Nat /\ pool.last <= now /\ first \in Pools
  BY BoundsAssumption DEF Inv, TypeOK
<1>4. /\ pool' \in Pools /\ Balanced(pool') /\ pool'.last <= now
      /\ pool'.scaled = pool.scaled /\ pool.index <= pool'.index /\ pool.rate <= pool'.rate
  BY <1>1, <1>3, AccruedFacts
<1>5. TypeOK'
  BY <1>1, <1>2, <1>4 DEF Inv, TypeOK, Balanced
<1>6. Fresh'
  BY <1>1 DEF Fresh
<1>7. Since'
  <2>1. /\ first.index \in Nat /\ first.rate \in Nat /\ pool.index \in Nat /\ pool.rate \in Nat
        /\ pool'.index \in Nat /\ pool'.rate \in Nat
    BY <1>3, <1>4, PoolFields
  <2>2. QED
    BY <1>1, <1>2, <1>4, <2>1 DEF Inv, Since
<1>8. Behind'
  <2> SUFFICES ASSUME command # "none", changed \subseteq {"accrual"} PROVE Behind'
    BY <1>1, <1>2 DEF Behind
  <2>1. Behind
    BY DEF Inv
  <2>2. /\ pool'.cash = pool.cash /\ pool'.curve = pool.curve /\ pool.last <= pool'.last
        /\ pool'.debt \in Nat /\ pool.debt <= pool'.debt /\ (pool.debt = 0 => pool'.debt = 0)
    BY <1>1, <1>3, AccruedParts
  <2>3. /\ pool.index \in Nat /\ pool.rate \in Nat /\ pool.debt \in Nat /\ pool.last \in Nat
        /\ pool'.index \in Nat /\ pool'.rate \in Nat /\ pool'.last \in Nat
    BY <1>3, <1>4, PoolFields
  <2>4. "index" \in DOMAIN got => got["index"] \in Nat
    BY DEF Inv, Reader, ReadTyped, ReadNames, Contents, Grows
  <2>5. "market" \in DOMAIN got =>
            got["market"].rate \in Nat /\ got["market"].debt \in Nat /\ got["market"].last \in Nat
    BY DEF Inv, Reader, ReadTyped, ReadNames, Contents, MarketRead, Grows
  <2>6. "times" \in DOMAIN got => got["times"] \in Nat
    BY DEF Inv, Reader, ReadTyped, ReadNames, Contents
  <2>7. "index" \in DOMAIN got => got["index"] <= pool'.index
    BY <1>4, <2>1, <2>3, <2>4 DEF Behind
  <2>8. "market" \in DOMAIN got =>
          LET m == got["market"] IN
            /\ m.rate <= pool'.rate /\ m.debt <= pool'.debt /\ (m.debt = 0 => pool'.debt = 0)
            /\ CashOf(m) = pool'.cash /\ m.last <= pool'.last
    BY <1>4, <2>1, <2>2, <2>3, <2>5 DEF Behind
  <2>9. "times" \in DOMAIN got => got["times"] <= pool'.last
    BY <2>1, <2>2, <2>3, <2>6 DEF Behind
  <2>10. QED
    BY <1>2, <2>1, <2>2, <2>7, <2>8, <2>9 DEF Behind, CashOf
<1>9. Charged'
  BY <1>1, <1>2, AccrueCharged
<1>10. QED
  BY <1>1, <1>5, <1>6, <1>7, <1>8, <1>9, ChainLeavesReader DEF Inv

LEMMA BorrowInv == ASSUME Inv, Borrow PROVE Inv'
<1>1. Followed /\ moves < MaxMoves /\ moves' = moves + 1 /\ UNCHANGED <<now, cli>>
      /\ changed' = changed \union {"accrual", "loan"}
  BY DEF Borrow, Moves
<1>2. UNCHANGED <<command, left, got, shown, first, localClock>>
  BY <1>1 DEF cli
<1> DEFINE p == Accrued(pool, now)
<1>3. PICK amount \in Amounts, own \in BOOLEAN :
        /\ p.debt + amount >= 0 /\ p.cash >= amount
        /\ own => p.scaled # Missing /\ p.scaled + amount >= 0
        /\ pool' = [p EXCEPT !.debt = @ + amount, !.cash = @ - amount,
                             !.scaled = IF own THEN @ + amount ELSE @]
  BY DEF Borrow
<1>4. amount \in Int
  BY BoundsAssumption
<1>5. pool \in Pools /\ Balanced(pool) /\ now \in Nat /\ pool.last <= now
  BY BoundsAssumption DEF Inv, TypeOK
<1>6. p \in Pools /\ Balanced(p) /\ p.last <= now
  BY <1>5, AccruedFacts
<1> HIDE DEF p
<1>7. /\ p.scaled \in Nat \union {Missing} /\ p.debt \in Nat /\ p.cash \in Nat
      /\ p.supplied \in Nat /\ p.rate \in Nat /\ p.reserve \in Int
  BY <1>6 DEF Pools, Grows
<1>8. /\ p.debt + amount \in Nat /\ p.cash - amount \in Nat
      /\ (IF own THEN p.scaled + amount ELSE p.scaled) \in Nat \union {Missing}
  BY <1>3, <1>4, <1>7 DEF Missing
<1>9. /\ pool' \in Pools /\ pool'.last = p.last /\ pool'.supplied = p.supplied
      /\ pool'.rate = p.rate /\ pool'.reserve = p.reserve
      /\ pool'.debt = p.debt + amount /\ pool'.cash = p.cash - amount
  BY <1>3, <1>6, <1>8 DEF Pools
<1>10. Balanced(pool')
  <2>1. Times(p.supplied, p.rate) \in Nat
    BY <1>7, TimesFacts
  <2>2. p.cash = Times(p.supplied, p.rate) - p.debt + p.reserve
    BY <1>6 DEF Balanced
  <2>3. p.cash - amount = Times(p.supplied, p.rate) - (p.debt + amount) + p.reserve
    BY <1>4, <1>7, <2>1, <2>2
  <2>4. QED
    BY <1>9, <2>3 DEF Balanced
<1>11. TypeOK'
  BY <1>1, <1>2, <1>6, <1>9, <1>10, BoundsAssumption DEF Inv, TypeOK, Balanced
<1>12. Fresh' /\ Since' /\ Behind' /\ Charged'
  BY <1>1 DEF Fresh, Since, Behind, Charged
<1>13. QED
  BY <1>1, <1>11, <1>12, ChainLeavesReader DEF Inv

LEMMA SetCurveInv == ASSUME Inv, SetCurve PROVE Inv'
<1>1. Followed /\ moves < MaxMoves /\ moves' = moves + 1 /\ UNCHANGED <<now, cli>>
      /\ changed' = changed \union {"curve"}
  BY DEF SetCurve, Moves
<1>2. UNCHANGED <<command, left, got, shown, first, localClock>>
  BY <1>1 DEF cli
<1>3. PICK curve \in Curves : pool' = [pool EXCEPT !.curve = curve]
  BY DEF SetCurve
<1>4. /\ pool' \in Pools /\ Balanced(pool)
      /\ pool'.last = pool.last /\ pool'.supplied = pool.supplied /\ pool'.rate = pool.rate
      /\ pool'.reserve = pool.reserve /\ pool'.debt = pool.debt /\ pool'.cash = pool.cash
  BY <1>3 DEF Inv, TypeOK, Pools
<1>5. TypeOK'
  BY <1>1, <1>2, <1>4, BoundsAssumption DEF Inv, TypeOK, Balanced
<1>6. Fresh' /\ Since' /\ Behind' /\ Charged'
  BY <1>1 DEF Fresh, Since, Behind, Charged
<1>7. QED
  BY <1>1, <1>5, <1>6, ChainLeavesReader DEF Inv

LEMMA BeginInv == ASSUME Inv, NEW c \in Commands, Begin(c) PROVE Inv'
<1>1. /\ command = "none" /\ command' = c /\ left' = Reads(c) /\ first' = pool /\ changed' = {}
      /\ UNCHANGED <<pool, now, moves, got, shown, localClock>>
  BY DEF Begin
<1>2. got = <<>> /\ DOMAIN got = {} /\ c # "none"
  BY <1>1 DEF Inv, Reader, Idle, Commands
<1>3. pool \in Pools /\ pool.index \in Nat /\ pool.rate \in Nat
  BY PoolFields DEF Inv, TypeOK
<1>4. TypeOK'
  BY <1>1 DEF Inv, TypeOK
<1>5. left' # <<>>
  BY <1>1, ReadsFacts
<1>6. Progress' /\ Idle' /\ ReadTyped'
  <2>1. Len(Reads(c)) \in 1 .. 6 /\ SubSeq(Reads(c), 1, Len(Reads(c))) = Reads(c)
    BY ReadsFacts, SubSeqFull
  <2>2. At(1)'
    <3>1. 1 .. 1 - 1 = {}
      OBVIOUS
    <3>2. DOMAIN got' = {Reads(c)[j] : j \in 1 .. 1 - 1}
      BY <1>1, <1>2, <3>1
    <3>3. QED
      BY <1>1, <2>1, <3>2 DEF At
  <2>3. 1 \in 1 .. Len(Reads(command'))
    BY <1>1, <2>1
  <2>4. shown' = Nothing
    BY <1>1, <1>5 DEF Inv, Reader, Idle
  <2>5. QED
    BY <1>1, <1>2, <2>2, <2>3, <2>4 DEF Progress, Idle, ReadTyped
<1>7. Fresh' /\ Since' /\ Behind' /\ Charged'
  BY <1>1, <1>2, <1>3 DEF Fresh, Since, Behind, Charged
<1>8. Shown'
  <2>1. \A d \in Commands : ~Shows(d)'
    BY <1>5 DEF Shows
  <2>2. QED
    BY <2>1 DEF Shown, ExactWhenUndisturbed, NeverBelowStored, NoInterestTwice,
                LocalClockCostsAnHour, Commands
<1>9. QED
  BY <1>1, <1>3, <1>4, <1>6, <1>7, <1>8 DEF Inv, Reader

LEMMA ReadFailsInv == ASSUME Inv, ReadFails PROVE Inv'
<1>1. /\ left # <<>> /\ command' = "failed" /\ left' = <<>>
      /\ UNCHANGED <<pool, now, moves, got, shown, first, changed, localClock>>
  BY DEF ReadFails
<1>2. command # "none"
  BY <1>1 DEF Inv, Reader, Idle
<1>3. TypeOK' /\ (first \in Pools)'
  BY <1>1 DEF Inv, TypeOK
<1>4. Reader'
  BY <1>1 DEF Inv, Reader, Idle, Progress, ReadTyped
<1>5. Fresh' /\ Since' /\ Behind' /\ Charged'
  BY <1>1, <1>2 DEF Inv, Fresh, Since, Behind, Charged, Value
<1>6. Shown'
  <2>1. \A d \in Commands : ~Shows(d)'
    BY <1>1 DEF Shows, Commands
  <2>2. QED
    BY <2>1 DEF Shown, ExactWhenUndisturbed, NeverBelowStored, NoInterestTwice,
                LocalClockCostsAnHour, Commands
<1>7. QED
  BY <1>3, <1>4, <1>5, <1>6 DEF Inv

LEMMA ValueTyped ==
  ASSUME pool \in Pools, NEW what \in ReadNames
  PROVE  Value(what) \in Contents(what)
<1>1. /\ pool.scaled \in Nat \union {Missing} /\ pool.index \in Grows /\ pool.rate \in Grows
      /\ pool.debt \in Nat /\ pool.supplied \in Nat /\ pool.reserve \in Int /\ pool.last \in Nat
      /\ pool.curve \in Curves \union {NoCurve}
  BY DEF Pools
<1>2. QED
  BY <1>1 DEF ReadNames, Value, Contents, MarketRead

LEMMA ReadBehind ==
  ASSUME Inv, NEW what \in ReadNames, Read(what)
  PROVE  Behind'
<1>1. /\ left # <<>> /\ Head(left) = what /\ what # "clock" /\ got' = With(what, Value(what))
      /\ UNCHANGED <<pool, command, changed>>
  BY DEF Read
<1>2. DOMAIN got' = DOMAIN got \union {what} /\ got'[what] = Value(what)
      /\ \A w \in DOMAIN got \ {what} : got'[w] = got[w]
  BY <1>1 DEF With
<1>3. "times" \notin DOMAIN got
  BY <1>1, ReadBeforeTimes
<1> SUFFICES ASSUME command # "none", changed \subseteq {"accrual"} PROVE Behind'
  BY <1>1 DEF Behind
<1>4. Behind
  BY DEF Inv
<1>5. /\ pool.index \in Nat /\ pool.rate \in Nat /\ pool.debt \in Nat /\ pool.last \in Nat
      /\ Balanced(pool)
  BY PoolFields DEF Inv, TypeOK
<1>6. /\ Value("index") = pool.index /\ Value("market") = MarketOf(pool)
      /\ Value("params") = pool.curve /\ Value("times") = pool.last
  BY DEF Value, MarketOf
<1>7. CashOf(MarketOf(pool)) = pool.cash
  BY <1>5 DEF Balanced, CashOf, MarketOf
<1>8. /\ MarketOf(pool).rate = pool.rate /\ MarketOf(pool).debt = pool.debt
      /\ MarketOf(pool).last = pool.last
  BY DEF MarketOf
<1>9. "index" \in DOMAIN got' => got'["index"] <= pool.index
  BY <1>2, <1>4, <1>5, <1>6 DEF Behind
<1>10. ASSUME "market" \in DOMAIN got'
       PROVE  LET m == got'["market"] IN
                /\ m.rate <= pool.rate /\ m.debt <= pool.debt /\ (m.debt = 0 => pool.debt = 0)
                /\ CashOf(m) = pool.cash /\ m.last <= pool.last
                /\ "times" \in DOMAIN got' => m.last <= got'["times"]
  <2>1. CASE what = "market"
    <3>1. got'["market"] = MarketOf(pool) /\ "times" \notin DOMAIN got'
      BY <1>2, <1>3, <1>6, <2>1
    <3>2. QED
      BY <1>5, <1>7, <1>8, <3>1
  <2>2. CASE what # "market"
    <3>1. got'["market"] = got["market"] /\ "market" \in DOMAIN got
      BY <1>2, <1>10, <2>2
    <3>2. "times" \in DOMAIN got' => got'["times"] = pool.last
      BY <1>2, <1>3, <1>6
    <3>3. QED
      BY <1>4, <3>1, <3>2 DEF Behind
  <2>3. QED
    BY <2>1, <2>2
<1>11. "params" \in DOMAIN got' => got'["params"] = pool.curve
  BY <1>2, <1>4, <1>6 DEF Behind
<1>12. "times" \in DOMAIN got' => got'["times"] <= pool.last
  BY <1>2, <1>3, <1>5, <1>6
<1>13. QED
  BY <1>1, <1>9, <1>10, <1>11, <1>12 DEF Behind, CashOf

LEMMA ReadCharged ==
  ASSUME Inv, NEW what \in ReadNames, Read(what)
  PROVE  Charged'
<1>1. /\ left # <<>> /\ Head(left) = what /\ what # "clock" /\ got' = With(what, Value(what))
      /\ UNCHANGED <<pool, command, changed>>
  BY DEF Read
<1>2. DOMAIN got' = DOMAIN got \union {what} /\ got'[what] = Value(what)
      /\ \A w \in DOMAIN got \ {what} : got'[w] = got[w]
  BY <1>1 DEF With
<1>3. "times" \notin DOMAIN got
  BY <1>1, ReadBeforeTimes
<1> SUFFICES ASSUME command # "none", changed \subseteq {"accrual"}, what = "times",
                    got'["params"] # NoCurve
             PROVE  Charged'
  BY <1>1, <1>2, <1>3 DEF Charged
<1>4. /\ {"market", "params"} \subseteq DOMAIN got
      /\ command = "user-debt-details" => "index" \in DOMAIN got
  BY <1>1, ReadBeforeTimes
<1>5. /\ got'["market"] = got["market"] /\ got'["params"] = got["params"]
      /\ "index" \in DOMAIN got => got'["index"] = got["index"]
  BY <1>2, <1>4
<1>6. got'["times"] = pool.last
  BY <1>2 DEF Value
<1>7. /\ got["market"] \in MarketRead /\ got["params"] \in Curves \union {NoCurve}
      /\ command = "user-debt-details" => got["index"] \in Nat
  BY <1>4 DEF Inv, Reader, ReadTyped, ReadNames, Contents, Grows
<1>8. /\ pool.index \in Nat /\ pool.rate \in Nat /\ pool.last \in Nat /\ pool.cash \in Nat
  BY PoolFields DEF Inv, TypeOK
<1> DEFINE m == got["market"]
           curve == Ratios(got["params"])
           u == Utilization(m.debt, pool.cash)
<1>9. /\ m.rate \in Nat /\ m.debt \in Nat /\ m.rate <= pool.rate
      /\ command = "user-debt-details" => got["index"] <= pool.index
  BY <1>4, <1>7 DEF Inv, Behind, MarketRead, Grows
<1>10. curve \in Curve
  BY <1>5, <1>7, CurvesAreCurves
<1> HIDE DEF m, curve
<1>11. u \in Ratio
  BY <1>8, <1>9, UtilizationIsARatio
<1> HIDE DEF u
<1>12. Factor(SupplyRate(curve, u)) \in Nat /\ Factor(compute_borrow_rate(curve, u)) \in Nat
  BY <1>10, <1>11, RateNatural, SupplyRateNatural, FactorFacts
<1>13. /\ AtLeast(pool.rate, m.rate, Factor(SupplyRate(curve, u)), 0)
       /\ command = "user-debt-details" =>
            AtLeast(pool.index, got["index"], Factor(compute_borrow_rate(curve, u)), 0)
  <2>1. \A f \in Nat : /\ AtLeast(pool.rate, m.rate, f, 0)
                       /\ command = "user-debt-details" =>
                            AtLeast(pool.index, got["index"], f, 0)
    BY <1>7, <1>8, <1>9, AtLeastAtFirst
  <2>2. QED
    BY <1>12, <2>1
<1>14. dt_hours(pool.last, pool.last) = 0 /\ pool.last = pool.last + 0 * MsPerHour
  <2>1. ~(pool.last > pool.last)
    BY <1>8
  <2>2. QED
    BY <1>8, <2>1, Positive DEF dt_hours
<1>15. QED
  BY <1>1, <1>4, <1>5, <1>6, <1>13, <1>14 DEF Charged, m, curve, u

LEMMA ReadInv == ASSUME Inv, NEW what \in ReadNames, Read(what) PROVE Inv'
<1>1. /\ left # <<>> /\ Head(left) = what /\ got' = With(what, Value(what))
      /\ left' = IF NoProjection(command, what, got') THEN <<>> ELSE Tail(left)
      /\ UNCHANGED <<pool, now, moves, command, shown, first, changed, localClock>>
  BY DEF Read
<1>2. DOMAIN got' = DOMAIN got \union {what} /\ got'[what] = Value(what)
      /\ \A w \in DOMAIN got \ {what} : got'[w] = got[w]
  BY <1>1 DEF With
<1>3. command \in Commands /\ shown = Nothing
  BY <1>1 DEF Inv, Reader, Progress
<1>4. PICK i \in 1 .. Len(Reads(command)) : At(i)
  BY <1>1 DEF Inv, Reader, Progress
<1>5. Reads(command)[i] = what /\ Tail(left) = SubSeq(Reads(command), i + 1, Len(Reads(command)))
  BY <1>1, <1>3, <1>4, RestFacts DEF At
<1>6. pool \in Pools /\ first \in Pools
  BY DEF Inv, TypeOK
<1>7. TypeOK'
  BY <1>1 DEF Inv, TypeOK
<1>8. Idle'
  BY <1>1, <1>3 DEF Idle, Commands
<1>9. ReadTyped'
  BY <1>2, <1>6, ValueTyped DEF Inv, Reader, ReadTyped
<1>10. Progress'
  <2> SUFFICES ASSUME left' # <<>> PROVE Progress'
    BY DEF Progress
  <2>1. left' = Tail(left) /\ ~NoProjection(command, what, got')
    BY <1>1
  <2>2. Len(Reads(command)) \in Nat
    BY <1>3, ReadsFacts
  <2>3. i + 1 \in 1 .. Len(Reads(command))
    <3>1. CASE i = Len(Reads(command))
      <4>1. SubSeq(Reads(command), i + 1, Len(Reads(command))) = <<>>
        BY <2>2, <3>1, SubSeqEmpty
      <4>2. QED
        BY <1>5, <2>1, <4>1
    <3>2. QED
      BY <2>2, <3>1
  <2>4. DOMAIN got' = {Reads(command)[j] : j \in 1 .. (i + 1) - 1}
    <3>1. 1 .. (i + 1) - 1 = (1 .. i - 1) \union {i}
      BY <2>2
    <3>2. DOMAIN got = {Reads(command)[j] : j \in 1 .. i - 1}
      BY <1>4 DEF At
    <3>3. QED
      BY <1>2, <1>5, <3>1, <3>2
  <2>5. ASSUME command = "user-debt-details", i + 1 > 4 PROVE got'["position"] # Missing
    <3>1. CASE i = 4
      <4>1. what = "params"
        BY <1>5, <2>5, <3>1, ReadsFacts
      <4>2. QED
        BY <2>1, <2>5, <4>1 DEF NoProjection
    <3>2. CASE i > 4
      <4>1. "position" \in DOMAIN got
        <5>1. 1 \in 1 .. i - 1 /\ Reads(command)[1] = "position"
          BY <2>5, <3>2, ReadsFacts
        <5>2. QED
          BY <1>4, <5>1 DEF At
      <4>2. what # "position"
        <5>1. Len(Reads(command)) = 6 /\ i \in 1 .. Len(Reads(command))
          BY <2>5, ReadsFacts
        <5>2. i = 5 \/ i = 6
          BY <3>2, <5>1
        <5>3. QED
          BY <1>5, <2>5, <5>2, ReadsFacts
      <4>3. got["position"] # Missing
        BY <1>4, <2>5, <3>2 DEF At
      <4>4. QED
        BY <1>2, <4>1, <4>2, <4>3
    <3>3. QED
      BY <2>2, <2>5, <3>1, <3>2
  <2>6. At(i + 1)'
    BY <1>1, <1>5, <2>1, <2>4, <2>5 DEF At
  <2>7. QED
    BY <1>1, <1>3, <2>3, <2>6 DEF Progress
<1>11. Fresh'
  <2> SUFFICES ASSUME changed = {}, NEW w \in ReadNames, w \in DOMAIN got'
               PROVE  got'[w] = Value(w)
    BY <1>1 DEF Fresh, Value
  <2>1. command # "none"
    BY <1>3 DEF Commands
  <2>2. QED
    BY <1>2, <2>1 DEF Inv, Fresh
<1>12. Since'
  <2> SUFFICES ASSUME command # "none", changed \subseteq {"accrual"} PROVE Since'
    BY <1>1 DEF Since
  <2>1. /\ pool.scaled = first.scaled /\ first.index <= pool.index /\ first.rate <= pool.rate
        /\ "position" \in DOMAIN got => got["position"] = first.scaled
        /\ "index" \in DOMAIN got => first.index <= got["index"]
        /\ "market" \in DOMAIN got => first.rate <= got["market"].rate
    BY DEF Inv, Since
  <2>2. Value("position") = pool.scaled /\ Value("index") = pool.index
        /\ Value("market").rate = pool.rate
    BY DEF Value
  <2>3. /\ "position" \in DOMAIN got' => got'["position"] = first.scaled
        /\ "index" \in DOMAIN got' => first.index <= got'["index"]
        /\ "market" \in DOMAIN got' => first.rate <= got'["market"].rate
    BY <1>2, <2>1, <2>2
  <2>4. QED
    BY <1>1, <2>1, <2>3 DEF Since
<1>13. Behind' /\ Charged'
  BY ReadBehind, ReadCharged
<1>14. Shown'
  <2>1. \A d \in Commands : ~Shows(d)'
    BY <1>1, <1>3 DEF Shows
  <2>2. QED
    BY <2>1 DEF Shown, ExactWhenUndisturbed, NeverBelowStored, NoInterestTwice,
                LocalClockCostsAnHour, Commands
<1>15. QED
  BY <1>1, <1>6, <1>7, <1>8, <1>9, <1>10, <1>11, <1>12, <1>13, <1>14 DEF Inv, Reader

\* With the clock alone left, everything that is projected was read.
LEMMA AllRead ==
  ASSUME Inv, left = <<"clock">>
  PROVE  /\ command \in Commands
         /\ got["market"] \in MarketRead /\ got["params"] \in Curves \union {NoCurve}
         /\ got["times"] \in Nat
         /\ {"market", "params", "times"} \subseteq DOMAIN got
         /\ command = "user-debt-details" =>
               /\ {"position", "index"} \subseteq DOMAIN got
               /\ got["position"] \in Nat /\ got["index"] \in Grows
<1>1. left # <<>> /\ Len(left) = 1
  OBVIOUS
<1>2. command \in Commands
  BY <1>1 DEF Inv, Reader, Progress
<1>3. PICK i \in 1 .. Len(Reads(command)) : At(i)
  BY <1>1 DEF Inv, Reader, Progress
<1>4. i = Len(Reads(command))
  <2>1. Len(left) = Len(Reads(command)) - i + 1 /\ Len(Reads(command)) \in Nat
    <3>1. left = SubSeq(Reads(command), i, Len(Reads(command)))
      BY <1>3 DEF At
    <3>2. Len(Reads(command)) \in Nat
      BY <1>2, ReadsFacts
    <3>3. QED
      BY <1>2, <3>1, <3>2, RestFacts
  <2>2. QED
    BY <1>1, <2>1
<1>5. \A j \in 1 .. i - 1 : Reads(command)[j] \in DOMAIN got
  BY <1>3 DEF At
<1>6. /\ {"market", "params", "times"} \subseteq DOMAIN got
      /\ command = "user-debt-details" =>
            {"position", "index"} \subseteq DOMAIN got /\ got["position"] # Missing
  <2>1. CASE command = "user-debt-details"
    <3>1. i = 6
      BY <1>4, <2>1, ReadsFacts
    <3>2. QED
      BY <1>3, <1>5, <2>1, <3>1, ReadsFacts DEF At
  <2>2. CASE command = "exchange-rate"
    <3>1. i = 5
      BY <1>4, <2>2, ReadsFacts
    <3>2. QED
      BY <1>5, <2>2, <3>1, ReadsFacts
  <2>3. CASE command = "market-state"
    <3>1. i = 4
      BY <1>4, <2>3, ReadsFacts
    <3>2. QED
      BY <1>5, <2>3, <3>1, ReadsFacts
  <2>4. QED
    BY <1>2, <2>1, <2>2, <2>3 DEF Commands
<1>7. \A w \in ReadNames \intersect DOMAIN got : got[w] \in Contents(w)
  BY DEF Inv, Reader, ReadTyped
<1>8. QED
  BY <1>2, <1>6, <1>7 DEF ReadNames, Contents

LEMMA NoMoreAtOnce ==
  ASSUME NEW x \in Nat, NEW owed \in Nat, x <= owed, NEW hours \in Nat
  PROVE  (Scale - hours) * x <= Scale * owed
<1>1. Scale \in Nat
  BY Positive
<1>2. Scale * x <= Scale * owed /\ hours * x \in Nat /\ Scale * x \in Nat /\ Scale * owed \in Nat
  BY <1>1, MulMonotone, MulNatural
<1>3. (Scale - hours) * x = Scale * x - hours * x
  BY <1>1, MulTwice
<1>4. QED
  BY <1>2, <1>3

\* What is shown in the end against what is owed in the end.
LEMMA ProjectedNoMore ==
  ASSUME Inv, left = <<"clock">>, changed \subseteq {"accrual"}
  PROVE  LET p == Projected(got, now)
             then == Accrued(pool, now)
         IN  /\ command = "user-debt-details" =>
                    (Scale - p.hours) * p.debt <= Scale * (DebtOf(then) + 1)
             /\ command # "user-debt-details" =>
                    (Scale - p.hours) * p.rate <= Scale * then.rate
<1>1. /\ command \in Commands /\ command # "none"
      /\ got["market"] \in MarketRead /\ got["params"] \in Curves \union {NoCurve}
      /\ got["times"] \in Nat
      /\ {"market", "params", "times"} \subseteq DOMAIN got
      /\ command = "user-debt-details" =>
            /\ {"position", "index"} \subseteq DOMAIN got
            /\ got["position"] \in Nat /\ got["index"] \in Nat
  BY AllRead DEF Commands, Grows
<1>2. /\ pool \in Pools /\ Balanced(pool) /\ now \in Nat /\ pool.last <= now
      /\ pool.debt \in Nat /\ pool.cash \in Nat /\ pool.last \in Nat
      /\ pool.index \in Nat /\ pool.rate \in Nat
  BY BoundsAssumption, PoolFields DEF Inv, TypeOK
<1> DEFINE m == got["market"]
           then == Accrued(pool, now)
           read == IF got["params"] = NoCurve THEN ZeroCurve ELSE Ratios(got["params"])
           cash == IF m.debt > 0 THEN derive_cash(m.supplied, m.rate, m.debt, m.reserve) ELSE 0
           u == Utilization(m.debt, pool.cash)
           lent == compute_borrow_rate(read, u)
           earned == SupplyRate(read, u)
           hours == dt_hours(got["times"], now)
<1>3. /\ m.rate <= pool.rate /\ m.debt <= pool.debt /\ (m.debt = 0 => pool.debt = 0)
      /\ CashOf(m) = pool.cash /\ m.last <= got["times"] /\ got["params"] = pool.curve
      /\ command = "user-debt-details" =>
            got["index"] <= pool.index /\ got["position"] = pool.scaled
  BY <1>1 DEF Inv, Behind, Since
<1>4. m.debt \in Nat /\ m.rate \in Nat /\ m.last \in Nat /\ m.supplied \in Nat /\ m.reserve \in Int
  BY <1>1 DEF MarketRead, Grows
<1>5. LastUpdate(got) = got["times"]
  BY <1>1, <1>3, <1>4 DEF LastUpdate
<1>6. Utilization(m.debt, cash) = u
  <2>1. CASE m.debt > 0
    <3>1. derive_cash(m.supplied, m.rate, m.debt, m.reserve) = pool.cash
      BY <1>2, <1>3 DEF derive_cash, CashOf
    <3>2. QED
      BY <2>1, <3>1
  <2>2. CASE ~(m.debt > 0)
    BY <2>2 DEF Utilization
  <2>3. QED
    BY <2>1, <2>2
<1>7. hours \in Nat /\ read \in Curve
  <2>1. got["times"] \in Int /\ now \in Int
    BY <1>1, <1>2
  <2>2. QED
    BY <1>1, <2>1, HoursFacts, CurvesAreCurves
<1>8. u \in Ratio
  BY <1>2, <1>4, UtilizationIsARatio
<1> DEFINE p == Projected(got, now)
           grown == Grown(got["index"], lent, m.debt, hours)
           rate == Grown(m.rate, earned, m.debt, hours)
<1>9. /\ p.hours = hours
      /\ command = "user-debt-details" => p.debt = Times(got["position"], grown)
      /\ command # "user-debt-details" => p.rate = rate
  <2>1. now \in Int
    BY <1>2
  <2>2. QED
    BY <1>1, <1>5, <1>6, <2>1, ProjectedForm
<1>10. /\ then.index \in Nat /\ then.rate \in Nat /\ then.scaled = pool.scaled
       /\ pool.index <= then.index /\ pool.rate <= then.rate
  BY <1>2, AccruedFacts, PoolFields
<1> HIDE DEF p
<1>11. lent \in Nat /\ earned \in Nat
  BY <1>7, <1>8, RateNatural, SupplyRateNatural
<1>12. rate \in Nat /\ (command = "user-debt-details" => grown \in Nat)
  BY <1>1, <1>4, <1>7, <1>11, GrownFacts
<1>13. /\ command = "user-debt-details" => (Scale - hours) * grown <= Scale * then.index
       /\ (Scale - hours) * rate <= Scale * then.rate
  <2>1. CASE m.debt = 0 \/ got["params"] = NoCurve
    <3>1. rate = m.rate /\ (command = "user-debt-details" => grown = got["index"])
      <4>1. CASE m.debt = 0
        BY <4>1 DEF Grown
      <4>2. CASE got["params"] = NoCurve
        <5>1. lent = 0 /\ earned = 0
          BY <1>8, <4>2, ZeroRates
        <5> HIDE DEF lent, earned
        <5>2. QED
          BY <1>1, <1>4, <1>7, <5>1, GrownAtZero
      <4>3. QED
        BY <2>1, <4>1, <4>2
    <3> HIDE DEF rate, grown, hours, then, m
    <3>2. rate <= then.rate /\ (command = "user-debt-details" => grown <= then.index)
      BY <1>1, <1>2, <1>3, <1>4, <1>10, <3>1
    <3>3. QED
      BY <1>7, <1>10, <1>12, <3>2, NoMoreAtOnce
  <2>2. CASE ~(m.debt = 0 \/ got["params"] = NoCurve)
    <3> DEFINE h == dt_hours(got["times"], pool.last)
               n == dt_hours(pool.last, now)
    <3>1. m.debt \in Nat \ {0} /\ m.debt > 0 /\ pool.curve # NoCurve
          /\ read = Ratios(got["params"]) /\ read = Ratios(pool.curve)
      BY <1>3, <1>4, <2>2
    <3>2. /\ pool.last = got["times"] + h * MsPerHour
          /\ AtLeast(pool.rate, m.rate, Factor(earned), h)
          /\ command = "user-debt-details" => AtLeast(pool.index, got["index"], Factor(lent), h)
      BY <1>1, <2>2, <3>1 DEF Inv, Charged
    <3>3. h \in Nat
      <4>1. got["times"] \in Int /\ pool.last \in Int
        BY <1>1, <1>2
      <4>2. QED
        BY <4>1, HoursFacts
    <3>4. hours = h + n
      <4> HIDE DEF h
      <4>1. got["times"] + h * MsPerHour <= now
        BY <1>2, <3>2
      <4>2. dt_hours(got["times"], now) = h + dt_hours(got["times"] + h * MsPerHour, now)
        BY <1>1, <1>2, <3>3, <4>1, HoursAdd
      <4>3. QED
        BY <3>2, <4>2
    <3> HIDE DEF h
    <3>5. /\ AtLeast(then.rate, m.rate, Factor(earned), h + n)
          /\ command = "user-debt-details" =>
                AtLeast(then.index, got["index"], Factor(lent), h + n)
      <4>1. /\ \A y \in Nat : AtLeast(pool.index, y, Factor(lent), h)
                                => AtLeast(then.index, y, Factor(lent), h + n)
            /\ \A y \in Nat : AtLeast(pool.rate, y, Factor(earned), h)
                                => AtLeast(then.rate, y, Factor(earned), h + n)
        BY <1>2, <1>3, <3>1, <3>3, AccruedAtLeast
      <4> HIDE DEF lent, earned, then, n
      <4>2. QED
        BY <1>1, <1>4, <3>2, <4>1
    <3> HIDE DEF lent, earned, hours, then, n, m
    <3>6. QED
      BY <1>1, <1>4, <1>7, <1>10, <1>11, <3>1, <3>4, <3>5, NoMoreOwed
  <2>3. QED
    BY <2>1, <2>2
<1> HIDE DEF grown, rate, hours, then
<1>14. command = "user-debt-details" => (Scale - p.hours) * p.debt <= Scale * (DebtOf(then) + 1)
  <2> SUFFICES ASSUME command = "user-debt-details"
               PROVE  (Scale - p.hours) * p.debt <= Scale * (DebtOf(then) + 1)
    OBVIOUS
  <2>1. DebtOf(then) = Times(got["position"], then.index)
    BY <1>3, <1>10 DEF DebtOf
  <2>2. (Scale - hours) * Times(got["position"], grown)
            <= Scale * (Times(got["position"], then.index) + 1)
    BY <1>1, <1>7, <1>10, <1>12, <1>13, NoMoreOfAShare
  <2>3. QED
    BY <1>9, <2>1, <2>2
<1>15. command # "user-debt-details" => (Scale - p.hours) * p.rate <= Scale * then.rate
  BY <1>9, <1>13
<1>16. QED
  BY <1>14, <1>15 DEF p, then

LEMMA ReadClockInv == ASSUME Inv, ReadClock PROVE Inv'
<1>1. /\ left = <<"clock">> /\ left' = <<>> /\ got' = With("clock", now)
      /\ UNCHANGED <<pool, now, moves, command, first, changed>>
  BY DEF ReadClock
<1>2. PICK skew \in Skews \union {0} :
        /\ shown' = Projected(got, now + skew)
        /\ localClock' \in BOOLEAN
        /\ ~localClock' => skew = 0
  <2>1. now + 0 = now
    BY BoundsAssumption DEF Inv, TypeOK
  <2>2. CASE shown' = Projected(got, now) /\ localClock' = FALSE
    BY <2>1, <2>2
  <2>3. CASE \E skew \in Skews : shown' = Projected(got, LocalClock(skew)) /\ localClock' = TRUE
    BY <2>3 DEF LocalClock
  <2>4. QED
    BY <2>2, <2>3 DEF ReadClock
<1>3. DOMAIN got' = DOMAIN got \union {"clock"} /\ got'["clock"] = now
      /\ \A w \in DOMAIN got : w # "clock" => got'[w] = got[w]
  BY <1>1 DEF With
<1>4. /\ pool \in Pools /\ Balanced(pool) /\ first \in Pools /\ now \in Nat
      /\ pool.last \in Nat /\ pool.last <= now
  BY BoundsAssumption, PoolFields DEF Inv, TypeOK
<1>5. skew \in Int /\ now + skew \in Int /\ skew < MsPerHour /\ -skew < MsPerHour
  BY <1>4, SkewsAssumption, Positive
<1>6. /\ command \in Commands /\ command # "none"
      /\ got["market"] \in MarketRead /\ got["params"] \in Curves \union {NoCurve}
      /\ got["times"] \in Nat
      /\ {"market", "params", "times"} \subseteq DOMAIN got
      /\ command = "user-debt-details" =>
            /\ {"position", "index"} \subseteq DOMAIN got
            /\ got["position"] \in Nat /\ got["index"] \in Nat
  BY <1>1, AllRead DEF Commands, Grows
<1>7. /\ shown'.hours = dt_hours(LastUpdate(got), now + skew) /\ shown'.hours \in Nat
      /\ command = "user-debt-details" =>
            shown'.debt \in Nat /\ Times(got["position"], got["index"]) <= shown'.debt
      /\ command # "user-debt-details" =>
            shown'.rate \in Nat /\ got["market"].rate <= shown'.rate
  BY <1>2, <1>5, <1>6, ProjectedFacts
<1>8. ASSUME changed = {}
      PROVE  /\ got["market"] = MarketOf(pool) /\ got["params"] = pool.curve
             /\ got["times"] = pool.last /\ LastUpdate(got) = pool.last
             /\ command = "user-debt-details" =>
                   got["position"] = pool.scaled /\ got["index"] = pool.index
  <2>1. \A w \in ReadNames \intersect DOMAIN got : got[w] = Value(w)
    BY <1>6, <1>8 DEF Inv, Fresh
  <2>2. /\ Value("market") = MarketOf(pool) /\ Value("params") = pool.curve
        /\ Value("times") = pool.last /\ Value("position") = pool.scaled
        /\ Value("index") = pool.index
    BY DEF Value, MarketOf
  <2>3. got["market"] = MarketOf(pool) /\ got["params"] = pool.curve /\ got["times"] = pool.last
    BY <1>6, <2>1, <2>2 DEF ReadNames
  <2>4. LastUpdate(got) = pool.last
    BY <1>4, <1>6, <2>3 DEF LastUpdate, MarketOf
  <2>5. command = "user-debt-details" =>
            got["position"] = pool.scaled /\ got["index"] = pool.index
    BY <1>6, <2>1, <2>2 DEF ReadNames
  <2>6. QED
    BY <2>3, <2>4, <2>5
<1>9. TypeOK'
  <2>1. shown'.hours \in Nat
    BY <1>7
  <2>2. localClock' \in BOOLEAN
    BY <1>2
  <2>3. TypeOK
    BY DEF Inv
  <2>4. QED
    BY <1>1, <2>1, <2>2, <2>3 DEF TypeOK
<1>10. Reader'
  BY <1>1, <1>3, <1>6 DEF Inv, Reader, Idle, Progress, ReadTyped, ReadNames
<1>11. Fresh'
  BY <1>1, <1>3 DEF Inv, Fresh, Value, ReadNames
<1>12. Since' /\ Behind' /\ Charged'
  <2>1. Since'
    BY <1>1, <1>3 DEF Inv, Since
  <2>2. /\ got'["market"] = got["market"] /\ got'["params"] = got["params"]
        /\ got'["times"] = got["times"] /\ "times" \in DOMAIN got
        /\ command = "user-debt-details" => got'["index"] = got["index"]
    BY <1>3, <1>6
  <2>3. Behind'
    BY <1>1, <1>3, <2>2 DEF Inv, Behind, CashOf
  <2>4. Charged'
    <3>1. Charged
      BY DEF Inv
    <3>2. QED
      BY <1>1, <2>2, <3>1 DEF Charged
  <2>5. QED
    BY <2>1, <2>3, <2>4
<1>13. ExactWhenUndisturbed'
  <2> SUFFICES ASSUME changed = {}, ~localClock' PROVE ExactWhenUndisturbed'
    BY <1>1 DEF ExactWhenUndisturbed
  <2>0. shown' = Projected(got, now)
    <3>1. skew = 0
      BY <1>2
    <3>2. now + skew = now
      BY <1>4, <3>1
    <3>3. QED
      BY <1>2, <3>2
  <2> DEFINE then == Accrued(pool, now)
  <2>1. /\ command = "user-debt-details" => shown'.debt = DebtOf(then)
        /\ command # "user-debt-details" => shown'.rate = then.rate
        /\ command = "market-state" => shown'.face = Times(then.supplied, then.rate)
    BY <1>4, <1>6, <1>8, <2>0, ProjectedIsAccrued
  <2>2. pool' = pool /\ got'["clock"] = now /\ command' = command
    BY <1>1, <1>3
  <2>3. QED
    BY <2>1, <2>2 DEF ExactWhenUndisturbed, Shows
<1>14. NeverBelowStored'
  <2> SUFFICES ASSUME changed \subseteq {"accrual"} PROVE NeverBelowStored'
    BY <1>1 DEF NeverBelowStored
  <2>1. /\ command = "user-debt-details" =>
              got["position"] = first.scaled /\ first.index <= got["index"]
        /\ first.rate <= got["market"].rate
    BY <1>6 DEF Inv, Since
  <2>2. /\ first.index \in Nat /\ first.rate \in Nat /\ got["market"].rate \in Nat
    BY <1>4, <1>6, PoolFields DEF MarketRead, Grows
  <2>3. command = "user-debt-details" => shown'.debt >= DebtOf(first)
    <3> SUFFICES ASSUME command = "user-debt-details" PROVE shown'.debt >= DebtOf(first)
      OBVIOUS
    <3>1. /\ Times(got["position"], first.index) <= Times(got["position"], got["index"])
          /\ Times(got["position"], first.index) \in Nat
          /\ Times(got["position"], got["index"]) \in Nat
      BY <1>6, <2>1, <2>2, TimesFacts
    <3>2. DebtOf(first) = Times(got["position"], first.index)
      BY <2>1 DEF DebtOf
    <3>3. shown'.debt \in Nat /\ Times(got["position"], got["index"]) <= shown'.debt
      BY <1>6, <1>7
    <3>4. QED
      BY <3>1, <3>2, <3>3
  <2>4. command # "user-debt-details" => shown'.rate >= first.rate
    BY <1>7, <2>1, <2>2
  <2>5. QED
    BY <1>1, <2>3, <2>4 DEF NeverBelowStored, Shows, DebtOf
<1>15. LocalClockCostsAnHour'
  <2> SUFFICES ASSUME changed = {} PROVE LocalClockCostsAnHour'
    BY <1>1 DEF LocalClockCostsAnHour
  <2>1. now < (now + skew) + MsPerHour /\ now + skew < now + MsPerHour
    BY <1>4, <1>5, Positive
  <2>2. dt_hours(pool.last, now) \in dt_hours(pool.last, now + skew) - 1
                                     .. dt_hours(pool.last, now + skew) + 1
    <3>1. pool.last \in Int /\ now \in Int /\ now + skew \in Int
      BY <1>4, <1>5
    <3>2. QED
      BY <2>1, <3>1, SkewCostsAnHour
  <2>3. shown'.hours = dt_hours(pool.last, now + skew)
    BY <1>7, <1>8
  <2>4. QED
    BY <1>1, <1>3, <2>2, <2>3 DEF LocalClockCostsAnHour
<1>16. NoInterestTwice'
  <2> SUFFICES ASSUME changed \subseteq {"accrual"}, ~localClock' PROVE NoInterestTwice'
    BY <1>1 DEF NoInterestTwice
  <2>1. shown' = Projected(got, now)
    <3>1. now + skew = now
      BY <1>2, <1>4
    <3>2. QED
      BY <1>2, <3>1
  <2> DEFINE then == Accrued(pool, now)
  <2>2. /\ command = "user-debt-details" =>
              (Scale - shown'.hours) * shown'.debt <= Scale * (DebtOf(then) + 1)
        /\ command # "user-debt-details" =>
              (Scale - shown'.hours) * shown'.rate <= Scale * then.rate
    BY <1>1, <2>1, ProjectedNoMore
  <2>3. pool' = pool /\ got'["clock"] = now /\ command' = command
    BY <1>1, <1>3
  <2>4. QED
    BY <2>2, <2>3 DEF NoInterestTwice, Shows
<1>17. QED
  BY <1>1, <1>4, <1>9, <1>10, <1>11, <1>12, <1>13, <1>14, <1>15, <1>16 DEF Inv, Shown

LEMMA StutterInv == ASSUME Inv, UNCHANGED vars PROVE Inv'
<1>1. UNCHANGED <<pool, now, moves, command, left, got, shown, first, changed, localClock>>
  BY DEF vars
<1>2. TypeOK' /\ (first \in Pools)'
  BY <1>1 DEF Inv, TypeOK
<1>3. Reader'
  BY <1>1 DEF Inv, Reader, Idle, Progress, ReadTyped, At
<1>4. Fresh' /\ Since' /\ Behind' /\ Charged'
  BY <1>1 DEF Inv, Fresh, Since, Behind, Charged, Value
<1>5. Shown'
  BY <1>1 DEF Inv, Shown, ExactWhenUndisturbed, NeverBelowStored, NoInterestTwice,
              LocalClockCostsAnHour, Shows
<1>6. QED
  BY <1>2, <1>3, <1>4, <1>5 DEF Inv

\* At every scale, for all curves, pools, amounts and clocks: the invariant the
\* theorems below rest on.
THEOREM Invariance == Spec => []Inv
<1>1. Init => Inv
  BY InitInv
<1>2. Inv /\ [Next]_vars => Inv'
  <2> SUFFICES ASSUME Inv, [Next]_vars PROVE Inv'
    OBVIOUS
  <2>1. CASE Tick
    BY <2>1, TickInv
  <2>2. CASE Accrue
    BY <2>2, AccrueInv
  <2>3. CASE Borrow
    BY <2>3, BorrowInv
  <2>4. CASE SetCurve
    BY <2>4, SetCurveInv
  <2>5. CASE \E c \in Commands : Begin(c)
    BY <2>5, BeginInv
  <2>6. CASE \E what \in ReadNames : Read(what)
    BY <2>6, ReadInv
  <2>7. CASE ReadFails
    BY <2>7, ReadFailsInv
  <2>8. CASE ReadClock
    BY <2>8, ReadClockInv
  <2>9. CASE UNCHANGED vars
    BY <2>9, StutterInv
  <2>10. QED
    BY <2>1, <2>2, <2>3, <2>4, <2>5, <2>6, <2>7, <2>8, <2>9 DEF Next, ReadNames
<1>3. QED
  BY <1>1, <1>2, PTL DEF Spec

\* The books balance whatever is charged, lent and repaid, the times of accrual
\* stay behind the clock, and a projection counts whole hours.
THEOREM ProjectionTyped == Spec => []TypeOK
<1>1. Inv => TypeOK
  BY DEF Inv
<1>2. QED
  BY <1>1, Invariance, PTL

\* What user-debt-details, exchange-rate and market-state show of a pool that
\* nothing happens to is exactly what the next accrual makes of it.
THEOREM ProjectionExact == Spec => []ExactWhenUndisturbed
<1>1. Inv => ExactWhenUndisturbed
  BY DEF Inv, Shown
<1>2. QED
  BY <1>1, Invariance, PTL

\* However the accruals of others fall between the reads, no less is shown than
\* what was stored at the first read.
THEOREM NeverTooLittle == Spec => []NeverBelowStored
<1>1. Inv => NeverBelowStored
  BY DEF Inv, Shown
<1>2. QED
  BY <1>1, Invariance, PTL

\* No interest is counted twice, however many accruals fall between the reads
\* and after them: what is shown exceeds what is owed in the end by no more than a
\* share of 1 in Scale for every hour.
THEOREM NothingTwice == Spec => []NoInterestTwice
<1>1. Inv => NoInterestTwice
  BY DEF Inv, Shown
<1>2. QED
  BY <1>1, Invariance, PTL

\* A local clock that is off by less than an hour costs an hour at the most.
THEOREM LocalClockBounded == Spec => []LocalClockCostsAnHour
<1>1. Inv => LocalClockCostsAnHour
  BY DEF Inv, Shown
<1>2. QED
  BY <1>1, Invariance, PTL
=============================================================================
