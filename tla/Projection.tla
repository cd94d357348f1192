----------------------------- MODULE Projection -----------------------------
(***************************************************************************)
(* The projections of commands/lending.py: user-debt-details,              *)
(* exchange-rate and market-state read the pool in several reads, each at  *)
(* a block of its own, and project what an accrual would make of it.       *)
(* Meanwhile the chain goes on: time passes, the pool accrues interest,    *)
(* somebody borrows or repays, governance sets another curve.              *)
(*                                                                         *)
(* The pool is external.  Its books balance as derive_cash() says they do: *)
(* an accrual gives to the reserve what suppliers do not get.  MaxTime     *)
(* bounds the clock, Curves are the curves that governance may set (in     *)
(* basis points, NoCurve for none), Skews how far the local clock may be   *)
(* off, Amounts what may be borrowed or repaid at once, MaxMoves how often *)
(* somebody does or a curve is set.  The chain is followed until the       *)
(* command ends.                                                           *)
(***************************************************************************)
EXTENDS Interest, Sequences

CONSTANTS Curves, NoCurve, Skews, Amounts, MaxTime, MaxMoves, InitialPools

ASSUME CurvesAssumption ==
    /\ Curves \subseteq [base : Nat, slope1 : Nat, slope2 : Nat,
                        optimal : 0 .. BpsScale, reserve : 0 .. BpsScale]
    /\ NoCurve \notin Curves

\* The local clock is off by less than an hour.
ASSUME SkewsAssumption == Skews \subseteq 1 - MsPerHour .. MsPerHour - 1

ASSUME BoundsAssumption == Amounts \subseteq Int /\ MaxTime \in Nat /\ MaxMoves \in Nat

VARIABLES
    pool,       \* the market on chain, with the user's scaled debt in it
    now,        \* the clock of the chain, in milliseconds
    moves,      \* how often somebody borrowed or repaid, or a curve was set
    command,    \* what is running
    left,       \* the reads it has still to do, in order
    got,        \* what it has read
    shown,      \* the projection it shows, or Nothing
    first,      \* history: the pool at the command's first read
    changed,    \* history: what happened to the pool since then
    localClock  \* history: the clock could not be read

vars == <<pool, now, moves, command, left, got, shown, first, changed, localClock>>

Nothing == [hours |-> -1]
Missing == -1       \* the user has no position

\* An index and a rate begin at 1 and never fall.
Grows == {n \in Nat : n >= Scale}
Pools == [scaled : Nat \union {Missing}, index : Grows, debt : Nat, supplied : Nat, rate : Grows,
          cash : Nat, reserve : Int, last : Nat, curve : Curves \union {NoCurve}]

\* What suppliers and the reserve own is lent or there.  (Floors may take a unit
\* from the reserve.)
Balanced(p) == p.cash = Times(p.supplied, p.rate) - p.debt + p.reserve

ASSUME PoolsAssumption ==
    \A p \in InitialPools : p \in Pools /\ Balanced(p) /\ p.last <= MaxTime

\* get_market_params as ratios
Ratios(curve) == [f \in DOMAIN curve |-> bps_to_ratio_inner(curve[f])]
ZeroCurve == [base |-> 0, slope1 |-> 0, slope2 |-> 0, optimal |-> 0, reserve |-> 0]

Commands == {"user-debt-details", "exchange-rate", "market-state"}

\* Mutant: the time of the last accrual is read before the index
ReadsTimesFirst(c) ==
    IF c = "user-debt-details"
    THEN <<"position", "market", "params", "times", "index", "clock">>
    ELSE <<"rate", "market", "params", "times", "clock">>

\* _project_user_debt and _project_exchange_rate, with the reads of their callers
Reads(c) ==
    CASE c = "user-debt-details" -> <<"position", "index", "market", "params", "times", "clock">>
      [] c = "exchange-rate" -> <<"rate", "market", "params", "times", "clock">>
      [] c = "market-state" -> <<"market", "params", "times", "clock">>

Init ==
    /\ pool \in InitialPools
    /\ now = pool.last
    /\ moves = 0
    /\ command = "none"
    /\ left = <<>>
    /\ got = <<>>
    /\ shown = Nothing
    /\ first = pool
    /\ changed = {}
    /\ localClock = FALSE

----------------------------------------------------------------------------
(* The chain. *)

Rate(p) == compute_borrow_rate(Ratios(p.curve), Utilization(p.debt, p.cash))

\* The pool after accrue_interest at some time: whole hours are charged, the
\* rest of the time is kept; without debt the clock is stamped alone.
Accrued(p, t) ==
    LET hours == dt_hours(p.last, t)
        debt == Grown(p.debt, Rate(p), p.debt, hours)
        rate == Grown(p.rate, SupplyRate(Ratios(p.curve), Utilization(p.debt, p.cash)),
                      p.debt, hours)
    IN  IF p.debt = 0 THEN [p EXCEPT !.last = t]
        ELSE IF p.curve = NoCurve \/ hours = 0 \/ Rate(p) = NoRate THEN p
        ELSE [p EXCEPT !.index = Grown(p.index, Rate(p), p.debt, hours),
                       !.debt = debt, !.rate = rate,
                       !.reserve = p.cash + debt - Times(p.supplied, rate),
                       !.last = p.last + hours * MsPerHour]

DebtOf(p) == Times(p.scaled, p.index)

cli == <<command, left, got, shown, first, localClock>>

Followed == command = "none" \/ left # <<>>

Tick ==
    /\ Followed /\ now < MaxTime
    /\ now' = now + 1
    /\ UNCHANGED <<pool, moves, cli, changed>>

Accrue ==
    /\ Followed
    /\ pool' = Accrued(pool, now) /\ pool' # pool
    /\ changed' = changed \union {"accrual"}
    /\ UNCHANGED <<now, moves, cli>>

Moves ==
    /\ Followed /\ moves < MaxMoves
    /\ moves' = moves + 1
    /\ UNCHANGED <<now, cli>>

\* somebody else, or the user, borrows or repays after an accrual
Borrow ==
    /\ Moves
    /\ \E amount \in Amounts, own \in BOOLEAN :
        LET p == Accrued(pool, now) IN
        /\ p.debt + amount >= 0 /\ p.cash >= amount /\ p.curve # NoCurve
        /\ own => p.scaled # Missing /\ p.scaled + amount >= 0
        /\ pool' = [p EXCEPT !.debt = @ + amount, !.cash = @ - amount,
                             !.scaled = IF own THEN @ + amount ELSE @]
    /\ changed' = changed \union {"accrual", "loan"}

SetCurve ==
    /\ Moves
    /\ \E curve \in Curves \ {pool.curve} : pool' = [pool EXCEPT !.curve = curve]
    /\ changed' = changed \union {"curve"}

----------------------------------------------------------------------------
(* The command. *)

Begin(c) ==
    /\ command = "none"
    /\ command' = c
    /\ left' = Reads(c)
    /\ first' = pool
    /\ changed' = {}
    /\ UNCHANGED <<pool, now, moves, got, shown, localClock>>

\* what a read finds; the position alone carries the scaled debt
Value(what) ==
    CASE what = "position" -> pool.scaled
      [] what = "index" -> pool.index
      [] what = "rate" -> pool.rate
      [] what = "market" -> [supplied |-> pool.supplied, rate |-> pool.rate, debt |-> pool.debt,
                             reserve |-> pool.reserve, last |-> pool.last]
      [] what = "params" -> pool.curve
      [] what = "times" -> pool.last

With(what, value) == [w \in DOMAIN got \union {what} |-> IF w = what THEN value ELSE got[w]]

\* the time of the accrual, or what the market says of it
LastUpdate(known) == IF known.times # 0 THEN known.times ELSE known.market.last

\* the early returns without a projection, after the read that decides them
NoProjection(c, what, known) ==
    IF c = "user-debt-details"
    THEN \/ what = "params" /\ known.position = Missing
         \/ what = "times" /\ LastUpdate(known) = 0 /\ known.position # 0
    ELSE \/ what = "market" /\ known.market.debt <= 0
         \/ what = "params" /\ known.params = NoCurve
         \/ what = "times" /\ LastUpdate(known) = 0

Read(what) ==
    /\ left # <<>> /\ Head(left) = what /\ what # "clock"
    /\ got' = With(what, Value(what))
    /\ left' = IF NoProjection(command, what, got') THEN <<>> ELSE Tail(left)
    /\ UNCHANGED <<pool, now, moves, command, shown, first, changed, localClock>>

\* run_read ends the process with SystemExit, which the projection's except
\* Exception lets through: the command shows nothing.  The clock's
\* reader connects inside its own try, and never fails.
ReadFails ==
    /\ left # <<>> /\ Head(left) # "clock"
    /\ command' = "failed"
    /\ left' = <<>>
    /\ UNCHANGED <<pool, now, moves, got, shown, first, changed, localClock>>

\* _market_state_details: the face value of the supply at the projected rate
WithFace(projection, supplied) ==
    [rate |-> projection.rate, hours |-> projection.hours,
     face |-> face_from_ltao(supplied, projection.rate)]

\* the projection of what was read; a missing curve is one of zeros for a debt,
\* and a rate that cannot be computed raises, which the except clause catches
Projected(known, clock) ==
    LET m == known.market
        curve == IF known.params = NoCurve THEN ZeroCurve ELSE Ratios(known.params)
        cash == IF m.debt > 0 THEN derive_cash(m.supplied, m.rate, m.debt, m.reserve) ELSE 0
        rate == project_exchange_rate(m.rate, m.debt, cash, curve, LastUpdate(known), clock)
    IN  CASE compute_borrow_rate(curve, Utilization(m.debt, cash)) = NoRate -> Nothing
          [] command = "user-debt-details" ->
                project_debt(known.position, known.index, m.debt, cash, curve,
                             LastUpdate(known), clock)
          [] command = "exchange-rate" -> rate
          [] command = "market-state" -> WithFace(rate, m.supplied)

\* Mutant: time.time() is taken for milliseconds
LocalClockInSeconds(skew) == (now + skew) \div 2

\* int(time.time() * 1000)
LocalClock(skew) == now + skew

\* the last read, and what is shown; without the chain's clock the local one
ReadClock ==
    /\ left = <<"clock">>
    /\ \/ /\ shown' = Projected(got, now)
          /\ localClock' = FALSE
          /\ got' = With("clock", now)
       \/ \E skew \in Skews :
          /\ shown' = Projected(got, LocalClock(skew))
          /\ localClock' = TRUE
          /\ got' = With("clock", now)
    /\ left' = <<>>
    /\ UNCHANGED <<pool, now, moves, command, first, changed>>

Next ==
    \/ Tick \/ Accrue \/ Borrow \/ SetCurve
    \/ \E c \in Commands : Begin(c)
    \/ \E what \in {"position", "index", "rate", "market", "params", "times"} : Read(what)
    \/ ReadFails \/ ReadClock

Spec == Init /\ [][Next]_vars

----------------------------------------------------------------------------
(* Properties. *)

TypeOK ==
    /\ now \in 0 .. MaxTime /\ moves \in 0 .. MaxMoves
    /\ pool \in Pools /\ Balanced(pool)
    /\ pool.last <= now
    /\ command \in Commands \union {"none", "failed"}
    /\ shown # Nothing => shown.hours \in Nat
    /\ changed \subseteq {"accrual", "loan", "curve"}
    /\ localClock \in BOOLEAN

Shows(c) == command = c /\ left = <<>> /\ shown # Nothing

\* "i.e. the rate the next supply/withdraw transaction actually applies", and
\* likewise the debt: while nothing happens to the pool during the reads, what
\* is shown is what an accrual at the time of the last read makes of it, though
\* cash is derived from the books and every floor counts.
ExactWhenUndisturbed ==
    changed = {} /\ ~localClock =>
        LET then == Accrued(pool, got.clock) IN
        /\ Shows("user-debt-details") => shown.debt = DebtOf(then)
        /\ Shows("exchange-rate") => shown.rate = then.rate
        /\ Shows("market-state") => shown.rate = then.rate /\ shown.face = Times(then.supplied, then.rate)

\* The reads are at several blocks, and an accrual in between mixes an old index
\* with a new time of accrual.  What is shown is then too little, but never less
\* than what was stored at the first read.
NeverBelowStored ==
    changed \subseteq {"accrual"} /\ ~localClock =>
        /\ Shows("user-debt-details") => shown.debt >= DebtOf(first)
        /\ Shows("exchange-rate") => shown.rate >= first.rate
        /\ Shows("market-state") => shown.rate >= first.rate

\* As the time is read after everything it belongs to, no interest is ever
\* counted twice: however the accruals fall between the reads and after them,
\* what is shown is no more than what is owed in the end, up to what the floors
\* of an accrual in many steps lose, a share of 1 in Scale (of 10^18) for every
\* hour, and a unit of the debt.
NoInterestTwice ==
    changed \subseteq {"accrual"} /\ ~localClock =>
        LET then == Accrued(pool, got.clock)
            NoMore(projected, owed) == (Scale - shown.hours) * projected <= Scale * owed
        IN
        /\ Shows("user-debt-details") => NoMore(shown.debt, DebtOf(then) + 1)
        /\ Shows("exchange-rate") => NoMore(shown.rate, then.rate)
        /\ Shows("market-state") => NoMore(shown.rate, then.rate)

\* lending.py:1345, a skewed local clock "shifts dt_hours by a whole hour at
\* boundaries", and by no more while it is off by less than an hour.
LocalClockCostsAnHour ==
    \A c \in Commands :
        changed = {} /\ localClock /\ Shows(c) =>
            dt_hours(pool.last, got.clock) \in shown.hours - 1 .. shown.hours + 1
=============================================================================
