---------------------------- MODULE MCMarketData ----------------------------
(* Inputs for model checking MarketData. *)
EXTENDS MarketData, TLC

CONSTANTS pf1, pf2, prod1, prod2

Symmetry == Permutations(Worker)

\* A rate of 4 parts is 1.0; the defaults of metrics.py and forms.py keep their order only.
MCDefault ==
  [stock_volatility |-> 2, deriv_volatility |-> 4, discount_rate |-> 1, coupon_rate |-> 1, ytm |-> 2,
   maturity_years |-> 4, par |-> 4, base_price |-> 2]

In(kind, notional, book, fields) ==
  [kind |-> kind, notional |-> notional, book_value |-> book, fields |-> fields]

Bond(par, coupon, y, halves) ==
  [par |-> par, coupon_rate |-> coupon, ytm |-> y, maturity_years |-> halves]

\* Submitted: a field of another kind, and what the form refuses.
MCForms ==
  {In("STOCK", 10, <<8>>, [current_price |-> 10, shares |-> 2, volatility |-> 4, leverage |-> 2]),
   In("BOND", 4, <<>>, [par |-> 4])}
MCAdmin == {In("DERIV", 4, <<>>, <<>>)}

Row(i, byForm) == [st |-> "there", portfolio |-> pf1, kind |-> i.kind, notional |-> i.notional,
                   book_value |-> i.book_value, metrics_json |-> i.fields, by_form |-> byForm]

\* Products as the form has stored them.
Stored ==
  {In("STOCK", 10, <<8>>, [current_price |-> 10, shares |-> 2, volatility |-> 4]),
   In("STOCK", 10, <<>>, [shares |-> 0, volatility |-> 2]),
   In("BOND", 8, <<8>>, Bond(4, 1, 1, 4)),
   In("BOND", 8, <<>>, Bond(4, 2, 1, 3)),
   In("BOND", 8, <<>>, Bond(4, 2, 1, 4)),
   In("DERIV", 4, <<5>>, [leverage |-> 2, base_price |-> 2, volatility |-> 4]),
   In("PROJECT", 10, <<>>, [cashflows |-> <<-4, 3, 4>>, discount_rate |-> 1])}

\* Products as the admin page has stored them.
ByHand ==
  {In("STOCK", 10, <<>>, [current_price |-> 10, shares |-> 1]),
   In("BOND", 4, <<>>, [par |-> 0, coupon_rate |-> 1, ytm |-> 2, maturity_years |-> 1]),
   In("DERIV", 4, <<>>, <<>>),
   In("PROJECT", 10, <<>>, [discount_rate |-> 2]),
   In("PROJECT", 10, <<>>, [cashflows |-> <<-1, 5, -6>>])}

Rows == {Row(i, TRUE) : i \in Stored} \cup {Row(i, FALSE) : i \in ByHand}

\* What a product shares its portfolio with.
Beside == {Row(In("STOCK", 10, <<8>>, [current_price |-> 10, shares |-> 2, volatility |-> 4]), TRUE),
           Row(In("BOND", 8, <<>>, Bond(4, 2, 1, 4)), TRUE),
           Row(In("PROJECT", 10, <<>>, [cashflows |-> <<-1, 5, -6>>]), FALSE),
           New}

\* For the figures, one or two products in a portfolio, the refreshes over.  For the refreshes, two
\* products that have a price each, or one.
MCStart ==
  LET pf == pf1 :> [st |-> "there", weight_limit_pct |-> 40] @@ pf2 :> New
      at(r, s, ps, n) == [portfolio |-> pf, product |-> prod1 :> r @@ prod2 :> s, prices |-> ps,
                          refreshes |-> n]
      deriv == Row(In("DERIV", 4, <<>>, <<>>), FALSE)
  IN {at(r, s, {}, MaxRefreshes) : r \in Rows, s \in Beside}
     \cup {at(deriv, deriv, {<<prod1, 1>>, <<prod2, 1>>}, 0), at(deriv, New, {<<prod1, 1>>}, 0)}
=============================================================================
