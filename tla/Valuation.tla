----------------------------- MODULE Valuation -----------------------------
(***************************************************************************)
(* Products and their numbers (src/apps/evaluation): what the product form *)
(* stores, what metrics.py makes of it, and the stress scenarios.          *)
(*                                                                         *)
(* Floating point numbers are exact fractions: module Fractions.  A rate   *)
(* is an integer number of parts of RateBase, a volatility is counted in a *)
(* unit that halves, a maturity in half years; VaR leaves out the factor   *)
(* of the confidence and the holding period, which is the same for all.    *)
(***************************************************************************)
EXTENDS Fractions, Sequences, FiniteSets

CONSTANTS
  RateBase,        \* the rate that doubles: 1.0
  max_iter,        \* bound of the bisection
  Default          \* what is substituted for a value that is missing, by name

ASSUME RateAssumption == RateBase \in Nat \ {0, 1} /\ max_iter \in Nat

ASSUME DefaultAssumption ==
  Default \in [{"stock_volatility", "deriv_volatility", "discount_rate", "coupon_rate", "ytm",
               "maturity_years", "par", "base_price"} -> Nat \ {0}]

Kind == {"STOCK", "BOND", "DERIV", "PROJECT"}

\* m.get(k, default)
Get(m, k, default) == IF k \in DOMAIN m THEN m[k] ELSE default

Set(name, value) == [x \in {name} |-> value]
Merge(f, g) == [x \in DOMAIN f \cup DOMAIN g |-> IF x \in DOMAIN f THEN f[x] ELSE g[x]]
Keep(f, names) == Restrict(f, names \cap DOMAIN f)

\* x or default, for a number
Or(x, default) == IF x = 0 THEN default ELSE x

----------------------------------------------------------------------------
(* The product form: a product has a kind, a notional, a book value (<<>>  *)
(* for NULL) and metrics_json, a function on the names it holds.           *)

mapping == {"current_price", "shares", "volatility", "par", "coupon_rate", "ytm",
            "maturity_years", "leverage", "base_price", "discount_rate"}
BondFields == {"par", "coupon_rate", "ytm", "maturity_years"}

\* For Shown: one field is forgotten.
FaultyShown(m) == [x \in (DOMAIN m) \ {"leverage"} |-> m[x]]

\* The fields the form fills in from what is stored.
Shown(m) == Keep(m, mapping \cup {"cashflows"})

Accepted(kind, f) ==
  /\ kind = "BOND" => BondFields \subseteq DOMAIN f
  /\ kind = "PROJECT" => Len(Get(f, "cashflows", <<>>)) >= 2

\* For clean: what was stored and has no field of this kind is not dropped.
FaultyClean(kind, f) ==
  IF kind = "STOCK" THEN f
  ELSE Keep(f, BondFields \cup {"volatility", "leverage", "base_price", "discount_rate", "cashflows"})

\* The metrics_json that clean assembles; a zero counts as missing where there is a default.
clean(kind, f) ==
  CASE kind = "STOCK"   -> Merge(Set("volatility", Or(Get(f, "volatility", 0), Default.stock_volatility)),
                                 Keep(f, {"current_price", "shares"}))
    [] kind = "BOND"    -> Keep(f, BondFields)
    [] kind = "DERIV"   -> Merge(Set("volatility", Or(Get(f, "volatility", 0), Default.deriv_volatility)),
                           Merge(Set("leverage", Or(Get(f, "leverage", 0), 1)),
                                 Keep(f, {"base_price"})))
    [] kind = "PROJECT" -> Merge(Set("discount_rate", Or(Get(f, "discount_rate", 0), Default.discount_rate)),
                                 Keep(f, {"cashflows"}))

----------------------------------------------------------------------------
(* metrics.py                                                              *)

\* The flow at index t comes after t - 1 years.
npv(cashflows, rate) ==
  LET N == Len(cashflows) IN
  Frac(Sigma(1, N, LAMBDA t : cashflows[t] * Power(RateBase, t - 1) * Power(RateBase + rate, N - t)),
       Power(RateBase + rate, N - 1))

\* The ends of the bracket, -0.999 and 10.0.
Lo == 1 - RateBase
Hi == 10 * RateBase

\* A step of the bisection, down to neighbouring rates: the half in which v changes sign.
Halve(v, b) ==
  LET mid == (b[1] + b[2]) \div 2 IN
  IF b[2] - b[1] <= 1 THEN b
  ELSE IF v[mid] = 0 THEN <<mid, mid>>
  ELSE IF v[b[1]] * v[mid] < 0 THEN <<b[1], mid>>
  ELSE <<mid, b[2]>>

\* The bracket it ends with, <<>> for None.
irr(cashflows) ==
  LET v == [rate \in Lo..Hi |-> npv(cashflows, rate).n]
      bracket[k \in Nat] == IF k = 0 THEN <<Lo, Hi>> ELSE Halve(v, bracket[k - 1])
  IN IF (\A t \in DOMAIN cashflows : cashflows[t] >= 0) \/ (\A t \in DOMAIN cashflows : cashflows[t] <= 0)
     THEN <<>> ELSE bracket[max_iter]

\* int(maturity_years * freq) for freq = 1
Years(halves) == halves \div 2

\* Counted in parts of RateBase, as the flows of bond_cashflows are.
Coupon(par, coupon_rate) == par * coupon_rate

\* [0.0] + [coupon] * (n - 1) + [coupon + par], which has two flows also for n = 0
bond_cashflows(par, coupon_rate, maturity) ==
  LET n == Years(maturity)
      last == (IF n = 0 THEN 1 ELSE n) + 1
  IN [t \in 1..last |-> IF t = last THEN Coupon(par, coupon_rate) + par * RateBase
                        ELSE IF t = 1 THEN 0 ELSE Coupon(par, coupon_rate)]

\* The sum of a weight for the year times the present value of the flow.
PresentValue(par, coupon_rate, ytm, n, weight) ==
  Frac(Sigma(1, n, LAMBDA t : weight[t] * (Coupon(par, coupon_rate) * Power(RateBase, t - 1)
                                             * Power(RateBase + ytm, n - t)))
         + weight[n] * (par * Power(RateBase, n)),
       Power(RateBase + ytm, n))

bond_price(par, coupon_rate, ytm, maturity) ==
  PresentValue(par, coupon_rate, ytm, Years(maturity), [t \in 0..Years(maturity) |-> 1])

\* 0 when the price is.
macaulay_duration(par, coupon_rate, ytm, maturity) ==
  Ratio(PresentValue(par, coupon_rate, ytm, Years(maturity), [t \in 0..Years(maturity) |-> t]),
       bond_price(par, coupon_rate, ytm, maturity))

convexity(par, coupon_rate, ytm, maturity) ==
  Ratio(Times(PresentValue(par, coupon_rate, ytm, Years(maturity), [t \in 0..Years(maturity) |-> t * (t + 1)]),
             Frac(RateBase * RateBase, (RateBase + ytm) * (RateBase + ytm))),
       bond_price(par, coupon_rate, ytm, maturity))

\* What the position is worth, its VaR, duration and internal rate of return, <<>> for none.
Measures(worth, var, duration, rate) ==
  [current_value |-> worth, var |-> var, duration |-> duration, irr |-> rate]

\* compute(product): one case for each kind; a key that is missing gets the default.
Position(worth, exposure, sigma) == Measures(Frac(worth, 1), <<exposure * sigma>>, <<>>, <<>>)

ComputeStock(p) ==
  LET m == p.metrics_json
      worth == IF {"current_price", "shares"} \subseteq DOMAIN m THEN m.current_price * m.shares
               ELSE p.notional
  IN Position(worth, worth, Get(m, "volatility", Default.stock_volatility))

ComputeBond(p) ==
  LET m == p.metrics_json
      c == Get(m, "coupon_rate", Default.coupon_rate)
      y == Get(m, "ytm", Default.ytm)
      maturity == Get(m, "maturity_years", Default.maturity_years)
      par == Get(m, "par", Default.par)
      scale == IF par = 0 THEN Frac(1, 1) ELSE Frac(p.notional, par)
  IN Measures(Times(bond_price(par, c, y, maturity), scale), <<>>,
              <<macaulay_duration(par, c, y, maturity)>>, <<>>)

ComputeDeriv(p) ==
  LET m == p.metrics_json IN
  Position(p.notional, p.notional * Get(m, "leverage", 3), Get(m, "volatility", Default.deriv_volatility))

\* No flows, or none stored, count as -100, 30, 40 and 50 per cent of the notional.
Flows(p) ==
  LET raw == Get(p.metrics_json, "cashflows", <<>>) IN
  IF raw = <<>> THEN [t \in 1..4 |-> (<<-10, 3, 4, 5>>[t] * p.notional) \div 10] ELSE raw

\* The value is that of the flows still to come.
ComputeProject(p) ==
  Measures(npv([Flows(p) EXCEPT ![1] = 0], Get(p.metrics_json, "discount_rate", Default.discount_rate)),
           <<>>, <<>>, irr(Flows(p)))

compute(p) ==
  CASE p.kind = "STOCK"   -> ComputeStock(p)
    [] p.kind = "BOND"    -> ComputeBond(p)
    [] p.kind = "DERIV"   -> ComputeDeriv(p)
    [] p.kind = "PROJECT" -> ComputeProject(p)

\* What one unit of the price history stands for in the position.
_product_position_factor(p) ==
  LET m == p.metrics_json
      price == Or(Get(m, "base_price", 0), Or(Get(m, "current_price", 0), 1))
  IN CASE p.kind = "STOCK"   -> IF Get(m, "shares", 0) # 0 THEN Frac(m.shares, 1) ELSE Frac(p.notional, price)
       [] p.kind = "BOND"    -> Frac(p.notional, Or(Get(m, "par", 0), Default.par))
       [] p.kind = "DERIV"   -> Frac(p.notional, Or(Get(m, "base_price", 0), Default.base_price))
       [] p.kind = "PROJECT" -> Frac(1, 1)

----------------------------------------------------------------------------
(* Portfolios: ps is a function from the keys of the products to them.     *)

\* weight > limit per cent; the weight is 0 when the total is.
OverLimit(worth, total, limit) ==
  CASE total.n > 0 -> 100 * worth.n * total.d > limit * total.n * worth.d
    [] total.n < 0 -> 100 * worth.n * total.d < limit * total.n * worth.d
    [] OTHER       -> 0 > limit

\* For Weights: taken of the notional instead of the current value.
FaultyWeights(ps, c, limit) ==
  LET total == Frac(SumFunction([k \in DOMAIN ps |-> ps[k].notional]), 1) IN
  {k \in DOMAIN ps : OverLimit(c[k].current_value, total, limit)}

\* The products over the limit, given what compute made of each.
Weights(ps, c, limit) ==
  LET total == SumFrac([k \in DOMAIN ps |-> c[k].current_value]) IN
  {k \in DOMAIN ps : OverLimit(c[k].current_value, total, limit)}

Average(durations) == Ratio(SumFrac(durations), Frac(Cardinality(DOMAIN durations), 1))

VaR(c) == SumFunction([k \in DOMAIN c |-> IF c[k].var = <<>> THEN 0 ELSE c[k].var[1]])

\* The totals over the products, given what compute made of each.
Totals(ps, c, limit) ==
  LET bonds == {k \in DOMAIN ps : c[k].duration # <<>>}
      valued == {k \in DOMAIN ps : ps[k].book_value # <<>>}
  IN [total_var    |-> VaR(c),
      total_pnl    |-> SumFrac([k \in valued |-> Plus(c[k].current_value, Frac(-ps[k].book_value[1], 1))]),
      avg_duration |-> IF bonds = {} THEN <<>> ELSE <<Average([k \in bonds |-> c[k].duration[1]])>>,
      over_limit   |-> Weights(ps, c, limit)]

aggregate(ps, limit) == Totals(ps, [k \in DOMAIN ps |-> compute(ps[k])], limit)

----------------------------------------------------------------------------
(* stress.py.  Rates move by parts of 50 basis points, prices by tenths,   *)
(* volatilities are multiplied by halves; 0 is a shock that is not there.  *)

Shock(interest_rate, equity, volatility) ==
  [interest_rate |-> interest_rate, equity |-> equity, volatility |-> volatility]

SCENARIOS ==
  [IR_UP_100 |-> Shock(2, 0, 0), IR_DOWN_50 |-> Shock(-1, 0, 0),
   EQUITY_DOWN_20 |-> Shock(0, -2, 0), EQUITY_DOWN_10 |-> Shock(0, -1, 0),
   VOL_UP_50 |-> Shock(0, 0, 3), VOL_UP_100 |-> Shock(0, 0, 4),
   CRISIS |-> Shock(2, -2, 3)]

Scenario == DOMAIN SCENARIOS

RateShock(p, s) ==
  IF s.interest_rate = 0 THEN <<>>
  ELSE CASE p.kind = "BOND"    -> Set("ytm", Get(p.metrics_json, "ytm", Default.ytm) + s.interest_rate)
         [] p.kind = "PROJECT" -> Set("discount_rate", Get(p.metrics_json, "discount_rate", Default.discount_rate)
                                                         + s.interest_rate)
         [] OTHER -> <<>>

\* For PriceShock: the price moves only in a scenario that leaves the rates alone.
FaultyPriceShock(p, s) ==
  LET price == Get(p.metrics_json, "current_price", 0) IN
  IF p.kind = "STOCK" /\ s.interest_rate = 0 /\ s.equity # 0 /\ price # 0
    THEN Set("current_price", (price * (10 + s.equity)) \div 10) ELSE <<>>

PriceShock(p, s) ==
  LET price == Get(p.metrics_json, "current_price", 0) IN
  IF p.kind = "STOCK" /\ s.equity # 0 /\ price # 0
    THEN Set("current_price", (price * (10 + s.equity)) \div 10) ELSE <<>>

VolatilityShock(p, s) ==
  IF s.volatility # 0 /\ "volatility" \in DOMAIN p.metrics_json
    THEN Set("volatility", (p.metrics_json.volatility * s.volatility) \div 2) ELSE <<>>

_apply_shocks(p, s) ==
  [p EXCEPT !.metrics_json =
     Merge(RateShock(p, s), Merge(PriceShock(p, s), Merge(VolatilityShock(p, s), @)))]

\* A scenario over all products: each value and the VaR, before and after.
Compared(before, after) ==
  [base |-> [k \in DOMAIN before |-> before[k].current_value], base_var |-> VaR(before),
   stressed |-> [k \in DOMAIN after |-> after[k].current_value], stressed_var |-> VaR(after)]

run_scenario(ps, scenario) ==
  Compared([k \in DOMAIN ps |-> compute(ps[k])],
           [k \in DOMAIN ps |-> compute(_apply_shocks(ps[k], SCENARIOS[scenario]))])

run_all(ps) == [scenario \in Scenario |-> run_scenario(ps, scenario)]

=============================================================================
