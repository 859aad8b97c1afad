----------------------------- MODULE MarketData -----------------------------
(***************************************************************************)
(* Portfolios, their financial products and the daily price snapshot       *)
(* (src/apps/evaluation: views.py, forms.py, admin.py, tasks.py): the      *)
(* screens that create, edit and delete, and refresh_market_data, which a  *)
(* Celery process runs once a day or whenever it is sent, one product      *)
(* after the other and in no transaction, while the screens go on.  An     *)
(* edit reads its row and saves it whole in a later statement, inserting   *)
(* it again when it is gone; the other requests are one step.  What the    *)
(* pages make of the products is the module Valuation.                     *)
(***************************************************************************)
EXTENDS Valuation

CONSTANTS
  Portfolio, Product,   \* primary keys
  Worker,               \* Celery processes
  Web,                  \* web workers that edit a portfolio or product
  Days,                 \* bound: days 1..Days are looked at
  Limits,               \* values of weight_limit_pct
  Start,                \* contents of the tables at first, and the refreshes of day 1 that are over
  FormInput,            \* submitted products: kind, notional, book_value and the other fields
  AdminInput,           \* products as the admin writes them, metrics_json as typed
  MaxEdits,             \* bound on the edits by screens
  MaxRefreshes          \* bound on the refreshes started, of all days

VARIABLES
  portfolio,       \* Portfolio rows
  product,         \* FinancialProduct rows
  prices,          \* PriceHistory rows, their product and date
  form,            \* the row each web worker has read for an edit
  today,
  job,             \* what each Celery process is at
  refreshes,       \* the refreshes started, by day
  finished,        \* days of which a refresh came to its end
  spoiled,         \* days one of whose refreshes died or met a deleted product or a row of the admin
  completed,       \* <<product, day>>: a refresh of that day that had the product to advance came to its
                   \* end, and no price of the product was taken away since
  edits

tables == <<portfolio, product, prices>>
ghosts == <<refreshes, finished, spoiled, completed>>
web == <<form, edits>>
vars == <<tables, web, today, job, ghosts>>

----------------------------------------------------------------------------
(* Types.                                                                  *)

Day == 1..Days
New == [st |-> "new"]
Gone == [st |-> "gone"]
There(x) == x.st = "there"

PortfolioRow == [st: {"there"}, weight_limit_pct: Limits]

\* A product remembers whether the form or the admin wrote it last.
ProductRow(r) ==
  /\ DOMAIN r = {"st", "portfolio", "kind", "notional", "book_value", "metrics_json", "by_form"}
  /\ r.st = "there" /\ r.portfolio \in Portfolio /\ r.kind \in Kind /\ r.notional \in Int
  /\ r.by_form \in BOOLEAN
  /\ DOMAIN r.metrics_json \subseteq mapping \cup {"cashflows"}
  /\ r.by_form => DOMAIN r.metrics_json \subseteq
       CASE r.kind = "STOCK"   -> {"volatility", "current_price", "shares"}
         [] r.kind = "BOND"    -> BondFields
         [] r.kind = "DERIV"   -> {"volatility", "leverage", "base_price"}
         [] r.kind = "PROJECT" -> {"discount_rate", "cashflows"}

\* save() of the form: the fields of the model, and metrics_json assembled anew.
FormRow(f, input) ==
  [st |-> "there", portfolio |-> f, kind |-> input.kind, notional |-> input.notional,
   book_value |-> input.book_value, metrics_json |-> clean(input.kind, input.fields), by_form |-> TRUE]

\* FinancialProductAdmin: metrics_json is a field like any other.
AdminRow(f, input) ==
  [st |-> "there", portfolio |-> f, kind |-> input.kind, notional |-> input.notional,
   book_value |-> input.book_value, metrics_json |-> input.fields, by_form |-> FALSE]

\* The form would accept what it finds in r, and save r again.
Rewritten(r) ==
  /\ Accepted(r.kind, r.metrics_json)
  /\ r = FormRow(r.portfolio, [kind |-> r.kind, notional |-> r.notional, book_value |-> r.book_value,
                               fields |-> r.metrics_json])

\* What is submitted is of the fields of the form; what is stored at first is as its tables are, and
\* what the form wrote of it is of its making.
ASSUME MarketAssumption ==
  /\ Days \in Nat \ {0} /\ MaxEdits \in Nat /\ MaxRefreshes \in Nat
  /\ IsFiniteSet(Product) /\ Limits \subseteq Int
  /\ \A i \in FormInput \cup AdminInput :
       /\ i.kind \in Kind /\ i.notional \in Int
       /\ DOMAIN i.fields \subseteq mapping \cup {"cashflows"}
  /\ \A s \in Start :
       /\ s.portfolio \in [Portfolio -> {New} \cup PortfolioRow]
       /\ DOMAIN s.product = Product
       /\ \A p \in Product : \/ s.product[p] = New
                             \/ ProductRow(s.product[p]) /\ There(s.portfolio[s.product[p].portfolio])
       /\ \A p \in Product : There(s.product[p]) /\ s.product[p].by_form => Rewritten(s.product[p])
       /\ s.prices \subseteq Product \X {1}
       /\ \A x \in s.prices : There(s.product[x[1]])
       /\ s.refreshes \in Nat

Idle == [at |-> "idle"]
\* A refresh: its date, the products still to visit, those it had to advance, and the product
\* whose latest price it has read.
Refresh ==
  [at: {"visit"}, date: Day, todo: SUBSET Product, due: SUBSET Product]
  \cup [at: {"create"}, date: Day, todo: SUBSET Product, due: SUBSET Product, p: Product]

\* A web worker in the middle of an edit: all it keeps of the row it has read is the key.
Editing == [at: {"portfolio"}, f: Portfolio] \cup [at: {"product"}, p: Product]

\* Type correctness, and the form's part of it: a product the form wrote last has no name in
\* metrics_json but those of its kind, whatever its kind was before (forms.py 133-188).
TypeOK ==
  /\ portfolio \in [Portfolio -> {New, Gone} \cup PortfolioRow]
  /\ DOMAIN product = Product
  /\ \A p \in Product : product[p] \in {New, Gone} \/ ProductRow(product[p])
  /\ \A p \in Product : There(product[p]) => There(portfolio[product[p].portfolio])
  /\ prices \subseteq Product \X Day
  /\ \A x \in prices : There(product[x[1]])
  /\ form \in [Web -> {Idle} \cup Editing]
  /\ today \in Day
  /\ job \in [Worker -> {Idle} \cup Refresh]
  /\ refreshes \in [Day -> Nat]
  /\ finished \subseteq Day /\ spoiled \subseteq Day
  /\ completed \subseteq Product \X Day
  /\ edits \in 0..MaxEdits

Init ==
  /\ \E s \in Start :
       /\ portfolio = s.portfolio /\ product = s.product /\ prices = s.prices
       /\ refreshes = [d \in Day |-> IF d = 1 THEN s.refreshes ELSE 0]
  /\ form = [w \in Web |-> Idle]
  /\ today = 1
  /\ job = [w \in Worker |-> Idle]
  /\ finished = {d \in Day : refreshes[d] > 0} /\ spoiled = {} /\ completed = {}
  /\ edits = 0

----------------------------------------------------------------------------
(* Screens: an edit is two steps, any other request one.                   *)

Edit == edits < MaxEdits /\ edits' = edits + 1

\* get_object_or_404, or the admin's get_object: the row is there.
Load(w, row) ==
  /\ form[w] = Idle
  /\ form' = [form EXCEPT ![w] = row]
  /\ UNCHANGED <<tables, edits, today, job, ghosts>>

\* save() of the row read: an UPDATE by its key, or an INSERT when that finds none.
Save(w) == form' = [form EXCEPT ![w] = Idle] /\ Edit /\ UNCHANGED <<today, job, ghosts>>

\* The form refuses, the row's portfolio is gone (IntegrityError), or the worker dies.
AbandonEdit(w) ==
  /\ form[w] # Idle
  /\ form' = [form EXCEPT ![w] = Idle]
  /\ UNCHANGED <<tables, edits, today, job, ghosts>>

PortfolioOf(limit) == [st |-> "there", weight_limit_pct |-> limit]

portfolio_create(f, limit) ==
  /\ portfolio[f] = New /\ Edit
  /\ portfolio' = [portfolio EXCEPT ![f] = PortfolioOf(limit)]
  /\ UNCHANGED <<product, prices, form, today, job, ghosts>>

LoadPortfolio(w, f) == There(portfolio[f]) /\ Load(w, [at |-> "portfolio", f |-> f])

portfolio_update(w, limit) ==
  /\ form[w].at = "portfolio"
  /\ portfolio' = [portfolio EXCEPT ![form[w].f] = PortfolioOf(limit)]
  /\ Save(w)
  /\ UNCHANGED <<product, prices>>

\* What is expected of the refreshes no longer includes these products.
Forget(ps) ==
  /\ completed' = {x \in completed : x[1] \notin ps}
  /\ job' = [w \in Worker |-> IF job[w] = Idle THEN Idle ELSE [job[w] EXCEPT !.due = @ \ ps]]

\* The rows that ON DELETE CASCADE takes with products.
Cascade(ps) ==
  /\ product' = [p \in Product |-> IF p \in ps THEN Gone ELSE product[p]]
  /\ prices' = {x \in prices : x[1] \notin ps}
  /\ Forget(ps)
  /\ UNCHANGED <<form, today, refreshes, finished, spoiled>>

portfolio_delete(f) ==
  /\ There(portfolio[f]) /\ Edit
  /\ portfolio' = [portfolio EXCEPT ![f] = Gone]
  /\ Cascade({p \in Product : There(product[p]) /\ product[p].portfolio = f})

product_create(p, f, input) ==
  /\ product[p] = New /\ There(portfolio[f]) /\ Accepted(input.kind, input.fields) /\ Edit
  /\ product' = [product EXCEPT ![p] = FormRow(f, input)]
  /\ UNCHANGED <<portfolio, prices, form, today, job, ghosts>>

LoadProduct(w, p) == There(product[p]) /\ Load(w, [at |-> "product", p |-> p])

product_update(w, f, input) ==
  /\ form[w].at = "product" /\ There(portfolio[f]) /\ Accepted(input.kind, input.fields)
  /\ product' = [product EXCEPT ![form[w].p] = FormRow(f, input)]
  /\ Save(w)
  /\ UNCHANGED <<portfolio, prices>>

product_delete(p) ==
  /\ There(product[p]) /\ Edit
  /\ Cascade({p})
  /\ UNCHANGED portfolio

AdminProduct(p, f, input) ==
  /\ product[p] = New /\ There(portfolio[f]) /\ Edit
  /\ product' = [product EXCEPT ![p] = AdminRow(f, input)]
  /\ UNCHANGED <<portfolio, prices, form, today, job, ghosts>>

AdminProductEdit(w, f, input) ==
  /\ form[w].at = "product" /\ There(portfolio[f])
  /\ product' = [product EXCEPT ![form[w].p] = AdminRow(f, input)]
  /\ Save(w)
  /\ UNCHANGED <<portfolio, prices>>

\* PriceHistoryAdmin: a row of any date is added, edited to be any other that there is not yet, or
\* deleted.  An edit of a row that is gone meanwhile is an addition.
Meddled(d) ==
  spoiled' = IF \E w \in Worker : job[w] # Idle /\ job[w].date = d THEN spoiled \cup {d} ELSE spoiled

AdminPrice(p, d) ==
  /\ There(product[p]) /\ <<p, d>> \notin prices /\ Edit
  /\ prices' = prices \cup {<<p, d>>}
  /\ Meddled(d)
  /\ UNCHANGED <<portfolio, product, form, today, job, refreshes, finished, completed>>

AdminPriceEdit(p, d, q, e) ==
  /\ <<p, d>> \in prices /\ There(product[q]) /\ <<q, e>> \notin prices /\ Edit
  /\ prices' = (prices \ {<<p, d>>}) \cup {<<q, e>>}
  /\ Meddled(e)
  /\ Forget({p})
  /\ UNCHANGED <<portfolio, product, form, today, refreshes, finished>>

AdminPriceDelete(p, d) ==
  /\ <<p, d>> \in prices /\ Edit
  /\ prices' = prices \ {<<p, d>>}
  /\ Forget({p})
  /\ UNCHANGED <<portfolio, product, form, today, refreshes, finished, spoiled>>

NextDay ==
  /\ today < Days
  /\ today' = today + 1
  /\ UNCHANGED <<tables, web, job, ghosts>>

----------------------------------------------------------------------------
(* refresh_market_data                                                     *)

Listed == {p \in Product : There(product[p])}
Latest(p) == {x[2] : x \in {y \in prices : y[1] = p}}

\* localdate() and objects.all(): the date and the products of the whole refresh.
StartRefresh(w) ==
  /\ job[w] = Idle /\ SumFunction(refreshes) < MaxRefreshes
  /\ job' = [job EXCEPT ![w] = [at |-> "visit", date |-> today, todo |-> Listed,
                                due |-> {p \in Listed : Latest(p) # {}}]]
  /\ refreshes' = [refreshes EXCEPT ![today] = @ + 1]
  /\ UNCHANGED <<tables, today, finished, spoiled, completed, web>>

\* For SkipsProduct: a price of the day before is taken for one of today.
FaultySkips(p, date) == \A d \in Latest(p) : \E e \in Latest(p) : e + 1 >= date

\* No price at all, or one that is not older than the refresh.
SkipsProduct(p, date) == Latest(p) = {} \/ \E d \in Latest(p) : d >= date

\* For Visit: what there is to do for the last product is known from the start.
FaultyVisit(w, p) ==
  LET j == job[w]
      rest == j.todo \ {p}
  IN job' = [job EXCEPT ![w] =
       IF p \in j.due
         THEN [at |-> "create", date |-> j.date, todo |-> rest, due |-> j.due, p |-> p]
         ELSE [at |-> "visit", date |-> j.date, todo |-> rest, due |-> j.due]]

Visit(w, p) ==
  LET j == job[w]
      rest == j.todo \ {p}
  IN job' = [job EXCEPT ![w] =
       IF SkipsProduct(p, j.date)
         THEN [at |-> "visit", date |-> j.date, todo |-> rest, due |-> j.due]
         ELSE [at |-> "create", date |-> j.date, todo |-> rest, due |-> j.due, p |-> p]]

\* The latest price of the next product; the query has no ORDER BY.
VisitProduct(w, p) ==
  /\ job[w].at = "visit" /\ p \in job[w].todo
  /\ Visit(w, p)
  /\ UNCHANGED <<tables, today, ghosts, web>>

Exists(p, date) == <<p, date>> \in prices

\* objects.create: a product that is gone, or a row of the same product and date, makes it raise,
\* and nothing catches that.
CreatePrice(w) ==
  LET j == job[w] IN
  /\ j.at = "create"
  /\ IF There(product[j.p]) /\ ~Exists(j.p, j.date)
       THEN /\ prices' = prices \cup {<<j.p, j.date>>}
            /\ job' = [job EXCEPT ![w] = [at |-> "visit", date |-> j.date, todo |-> j.todo, due |-> j.due]]
            /\ UNCHANGED spoiled
       ELSE /\ job' = [job EXCEPT ![w] = Idle]
            /\ spoiled' = IF There(product[j.p]) THEN spoiled ELSE spoiled \cup {j.date}
            /\ UNCHANGED prices
  /\ UNCHANGED <<portfolio, product, today, refreshes, finished, completed, web>>

EndRefresh(w) ==
  LET j == job[w] IN
  /\ j.at = "visit" /\ j.todo = {}
  /\ job' = [job EXCEPT ![w] = Idle]
  /\ finished' = finished \cup {j.date}
  /\ completed' = completed \cup {<<p, j.date>> : p \in j.due}
  /\ UNCHANGED <<tables, today, refreshes, spoiled, web>>

\* The process is killed, or a time limit of settings.py ends the task.
WorkerDies(w) ==
  /\ job[w] # Idle
  /\ job' = [job EXCEPT ![w] = Idle]
  /\ spoiled' = spoiled \cup {job[w].date}
  /\ UNCHANGED <<tables, today, refreshes, finished, completed, web>>

----------------------------------------------------------------------------
Screens ==
  \/ \E f \in Portfolio : (\E l \in Limits : portfolio_create(f, l)) \/ portfolio_delete(f)
  \/ \E p \in Product :
       \/ \E f \in Portfolio :
            \/ \E i \in FormInput : product_create(p, f, i)
            \/ \E i \in AdminInput : AdminProduct(p, f, i)
       \/ product_delete(p)

Edits(w) ==
  \/ \E f \in Portfolio :
       \/ LoadPortfolio(w, f)
       \/ \E i \in FormInput : product_update(w, f, i)
       \/ \E i \in AdminInput : AdminProductEdit(w, f, i)
  \/ \E l \in Limits : portfolio_update(w, l)
  \/ \E p \in Product : LoadProduct(w, p)
  \/ AbandonEdit(w)

AdminPrices ==
  \E p \in Product, d \in Day :
    \/ AdminPrice(p, d) \/ AdminPriceDelete(p, d)
    \/ \E q \in Product, e \in Day : AdminPriceEdit(p, d, q, e)

Task(w) ==
  StartRefresh(w) \/ (\E p \in Product : VisitProduct(w, p)) \/ CreatePrice(w) \/ EndRefresh(w) \/ WorkerDies(w)

Next ==
  \/ Screens \/ (\E w \in Web : Edits(w)) \/ AdminPrices \/ NextDay
  \/ \E w \in Worker : Task(w)

Spec == Init /\ [][Next]_vars
----------------------------------------------------------------------------
(* Properties.                                                             *)

\* What the form shows of a product and assembles again (forms.py 114-131, 133-181) is the product:
\* one the form wrote is accepted and stored unchanged when its edit screen is submitted as it is;
\* one of the admin, when it is accepted, keeps its worth, except that a discount rate of zero is
\* replaced.
FormKeepsProduct ==
  \A p \in Listed :
    LET r == product[p]
        f == Shown(r.metrics_json)
        again == [r EXCEPT !.metrics_json = clean(r.kind, f)]
    IN /\ r.by_form => Accepted(r.kind, f) /\ again = r
       /\ Accepted(r.kind, f) /\ Get(f, "discount_rate", 1) # 0
            => compute(again).current_value = compute(r).current_value

\* A refresh that comes to its end has advanced all it had to: each product that was listed with a
\* price when it started, and that no deletion has taken prices from since, has a price of its date
\* or a later one (tasks.py 46-66), whatever other refreshes, edits and deletions came between.  A
\* product that was deleted and that a late edit inserts again is not among them: it comes without
\* prices, and no refresh advances it.
DayCompleted ==
  \A c \in completed : \E d \in Latest(c[1]) : d >= c[2]

\* Refreshes of one day that overlap collide on the unique product and date, and the one that is
\* late stops there, but they never all stop: when every refresh of a day is over, and none died or
\* met a deletion or a row of the admin, one of them came to its end (tasks.py 47-66).
OneFinishes ==
  \A d \in Day :
    refreshes[d] > 0 /\ d \notin spoiled /\ (\A w \in Worker : job[w] # Idle => job[w].date # d)
      => d \in finished

Held(f) == Restrict(product, {p \in Listed : product[p].portfolio = f})

\* A product with figures as they are meant to be: nothing is negative but flows and rates, and the
\* rates are above -100 per cent even after the fall of a scenario.
Ordinary(r) ==
  LET m == r.metrics_json
      rates == {"ytm", "discount_rate"}
  IN /\ r.notional \in Nat
     /\ \A x \in (DOMAIN m) \ (rates \cup {"cashflows"}) : m[x] \in Nat
     /\ \A x \in rates \cap DOMAIN m : m[x] \in Int /\ m[x] > Lo
     /\ "cashflows" \in DOMAIN m => m.cashflows \in Seq(Int)

Falls(r) == r.kind = "PROJECT" /\ \E t \in 2..Len(Flows(r)) : Flows(r)[t] < 0

\* The worth of each product in a scenario is that of the one shock that touches its kind.
OwnShock(ps, all) ==
  \A p \in DOMAIN ps :
    LET own == IF ps[p].kind = "STOCK" THEN "EQUITY_DOWN_20" ELSE "IR_UP_100" IN
    /\ all.CRISIS.stressed[p] = all[own].stressed[p]
    /\ all.VOL_UP_50.stressed[p] = all.VOL_UP_50.base[p]

SameStart(all) == \A s \in Scenario : all[s].base_var = all.CRISIS.base_var

Ordered(ps, all) ==
  \A p \in DOMAIN ps :
    LET Worth(s) == all[s].stressed[p]
        base == all.VOL_UP_50.base[p]
    IN Ordinary(ps[p]) =>
         /\ Leq(Worth("EQUITY_DOWN_20"), Worth("EQUITY_DOWN_10"))
         /\ \/ Falls(ps[p])
            \/ Leq(Worth("IR_UP_100"), base) /\ Leq(base, Worth("IR_DOWN_50"))

\* The volatility that VaR goes by is stored, and a whole number of units also when it is halved.
Halves(r) ==
  r.kind \in {"STOCK", "DERIV"} => "volatility" \in DOMAIN r.metrics_json /\ r.metrics_json.volatility % 2 = 0

Multiplied(ps, all) ==
  (\A p \in DOMAIN ps : Ordinary(ps[p])) =>
    /\ all.CRISIS.base_var <= all.VOL_UP_50.stressed_var
    /\ (\A p \in DOMAIN ps : Halves(ps[p])) =>
         /\ 2 * all.VOL_UP_50.stressed_var = 3 * all.CRISIS.base_var
         /\ all.VOL_UP_100.stressed_var = 2 * all.CRISIS.base_var

\* What the scenarios, all, make of the products ps.
ScenariosAgree(ps, all) ==
  OwnShock(ps, all) /\ SameStart(all) /\ Ordered(ps, all) /\ Multiplied(ps, all)

\* The stress scenarios (stress.py 15-170): the crisis moves a product exactly as the one of its
\* shocks does that touches the kind; of ordinary products, a rate rise never raises a bond, or a
\* project without negative flows, and a fall never lowers it; a volatility shock moves no value, and
\* multiplies the VaR of a portfolio unless a volatility is a default; every scenario starts from the
\* same figures.
StressAddsUp == \A f \in Portfolio : ScenariosAgree(Held(f), run_all(Held(f)))

MaturityOf(r) == Years(Get(r.metrics_json, "maturity_years", Default.maturity_years))

\* What aggregate returns, a, for the products ps.
TotalsFit(ps, a, limit) ==
  /\ (\A p \in DOMAIN ps : ~Falls(ps[p])) /\ a.over_limit # {}
       => limit * Cardinality(a.over_limit) < 100
  /\ a.avg_duration # <<>>
       => \E p \in DOMAIN ps : ps[p].kind = "BOND" /\ Leq(a.avg_duration[1], Frac(MaturityOf(ps[p]), 1))

\* The totals of a portfolio's page (metrics.py 253-309): with no negative value, the products over
\* the limit are fewer than fit in a hundred per cent, and the average duration is at most the longest
\* maturity of a bond.
TotalsSound ==
  \A f \in Portfolio :
    There(portfolio[f]) /\ (\A p \in DOMAIN Held(f) : Ordinary(Held(f)[p])) =>
      TotalsFit(Held(f), aggregate(Held(f), portfolio[f].weight_limit_pct), portfolio[f].weight_limit_pct)

BondAgrees(r, m, price, value) ==
  /\ MaturityOf(r) > 0 =>
       /\ m.par > 0 => (Same(price, Frac(m.par, 1)) <=> m.coupon_rate = m.ytm)
       /\ Same(npv(bond_cashflows(m.par, m.coupon_rate, m.maturity_years), m.ytm),
               Times(price, Frac(RateBase, 1)))
  /\ Same(Times(price, _product_position_factor(r)), value)
  /\ LET d == macaulay_duration(m.par, m.coupon_rate, m.ytm, m.maturity_years) IN
     Leq(Times(d, Plus(d, Frac(1, 1))),
         Times(convexity(m.par, m.coupon_rate, m.ytm, m.maturity_years),
               Frac((RateBase + m.ytm) * (RateBase + m.ytm), RateBase * RateBase)))

\* What compute returns, c, for the product r.
MeasuresAgree(r, m, c) ==
  /\ r.kind = "BOND" /\ BondFields \subseteq DOMAIN m
       => BondAgrees(r, m, bond_price(m.par, m.coupon_rate, m.ytm, m.maturity_years), c.current_value)
  /\ r.kind = "STOCK" /\ "current_price" \in DOMAIN m /\ Get(m, "shares", 0) > 0
       => Same(Times(Frac(m.current_price, 1), _product_position_factor(r)), c.current_value)

\* The figures of a product's page (metrics.py 29-182, views.py 119-132): a bond of at least a year is
\* worth the npv of the flows its page lists, and stands at par exactly when its coupon is its yield; a
\* bond is at least as convex as its duration makes it; and the position of the price history is the
\* value of the page, for a product with all the fields of its kind.
FiguresSound ==
  \A p \in Listed :
    Ordinary(product[p]) => MeasuresAgree(product[p], product[p].metrics_json, compute(product[p]))

Brackets(v, b) ==
  /\ Lo <= b[1] /\ b[1] <= b[2] /\ b[2] <= Hi
  /\ (b[2] - b[1] - 1) * Power(2, max_iter) <= Hi - Lo
  /\ v[Lo] * v[Hi] < 0 => v[b[1]] * v[b[2]] <= 0

\* What irr ends with is as narrow as its iterations can make it, and when the npv of the flows changes
\* sign over the whole bracket it still does over that one (metrics.py 13-26).
IrrBrackets ==
  \A p \in Listed :
    LET flows == Flows(product[p]) IN
    product[p].kind = "PROJECT" /\ Ordinary(product[p]) /\ irr(flows) # <<>>
      => Brackets([rate \in Lo..Hi |-> npv(flows, rate).n], irr(flows))

\* What metrics.py makes of products fits together: the figures of a page and the ends of a bisection
\* of each product, and the totals of each portfolio, as the three parts above have it.
MeasuresSound == FiguresSound /\ IrrBrackets /\ TotalsSound
=============================================================================
