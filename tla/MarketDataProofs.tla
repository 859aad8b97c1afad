-------------------------- MODULE MarketDataProofs --------------------------
(***************************************************************************)
(* Proofs about MarketData, for any set of portfolios, products and Celery *)
(* processes, any inputs and any number of days, edits and refreshes: its  *)
(* types, what overlapping refreshes of a day come to, what the form makes *)
(* of what it stored, and what every page shows of it: the figures of a    *)
(* bond and of a project, the totals of a portfolio and the seven stress   *)
(* scenarios.  The figures are functions of a product's row, so of the     *)
(* states those theorems need no more than TypeOK; the rest is arithmetic  *)
(* on fractions, from the lemmas of NumberLemmas.                          *)
(***************************************************************************)
EXTENDS MarketData, NumberLemmas, TLAPS

(***************************************************************************)
(* The rows of products.                                                   *)
(***************************************************************************)

\* What a product of a kind has in metrics_json, when the form wrote it.
NamesOf(kind) ==
  CASE kind = "STOCK"   -> {"volatility", "current_price", "shares"}
    [] kind = "BOND"    -> BondFields
    [] kind = "DERIV"   -> {"volatility", "leverage", "base_price"}
    [] kind = "PROJECT" -> {"discount_rate", "cashflows"}

\* Which names the form stores depends on the kind that is submitted alone.
LEMMA CleanDomain ==
  ASSUME NEW kind \in Kind, NEW f
  PROVE  DOMAIN clean(kind, f) \subseteq NamesOf(kind)
<1>1. \A g, N : DOMAIN Keep(g, N) \subseteq N
  BY DEF Keep, Restrict
<1>2. \A x, v : DOMAIN Set(x, v) = {x}
  BY DEF Set
<1>3. \A g, h : DOMAIN Merge(g, h) = DOMAIN g \cup DOMAIN h
  BY DEF Merge
<1>4. CASE kind = "STOCK"
  <2>1. PICK v : clean(kind, f) = Merge(Set("volatility", v), Keep(f, {"current_price", "shares"}))
    BY <1>4 DEF clean
  <2>2. NamesOf(kind) = {"volatility", "current_price", "shares"}
    BY <1>4 DEF NamesOf
  <2> QED
    <3> DEFINE kept == Keep(f, {"current_price", "shares"})
    <3>1. DOMAIN Set("volatility", v) = {"volatility"}
      BY <1>2
    <3>2. DOMAIN kept \subseteq {"current_price", "shares"}
      BY <1>1
    <3>3. DOMAIN Merge(Set("volatility", v), kept) = DOMAIN Set("volatility", v) \cup DOMAIN kept
      BY <1>3
    <3> QED
      BY <2>1, <2>2, <3>1, <3>2, <3>3
<1>5. CASE kind = "BOND"
  <2>1. clean(kind, f) = Keep(f, BondFields)
    BY <1>5 DEF clean
  <2>2. NamesOf(kind) = BondFields
    BY <1>5 DEF NamesOf
  <2> QED
    BY <1>1, <2>1, <2>2
<1>6. CASE kind = "DERIV"
  <2>1. PICK v, u : clean(kind, f) = Merge(Set("volatility", v),
                                      Merge(Set("leverage", u), Keep(f, {"base_price"})))
    BY <1>6 DEF clean
  <2>2. NamesOf(kind) = {"volatility", "leverage", "base_price"}
    BY <1>6 DEF NamesOf
  <2> QED
    <3> DEFINE kept == Keep(f, {"base_price"})
               rest == Merge(Set("leverage", u), kept)
    <3>1. DOMAIN Set("volatility", v) = {"volatility"} /\ DOMAIN Set("leverage", u) = {"leverage"}
      BY <1>2
    <3>2. DOMAIN kept \subseteq {"base_price"}
      BY <1>1
    <3>3. DOMAIN rest = DOMAIN Set("leverage", u) \cup DOMAIN kept
      BY <1>3
    <3>4. DOMAIN Merge(Set("volatility", v), rest) = DOMAIN Set("volatility", v) \cup DOMAIN rest
      BY <1>3
    <3> QED
      BY <2>1, <2>2, <3>1, <3>2, <3>3, <3>4
<1>7. CASE kind = "PROJECT"
  <2>1. PICK v : clean(kind, f) = Merge(Set("discount_rate", v), Keep(f, {"cashflows"}))
    BY <1>7 DEF clean
  <2>2. NamesOf(kind) = {"discount_rate", "cashflows"}
    BY <1>7 DEF NamesOf
  <2> QED
    <3> DEFINE kept == Keep(f, {"cashflows"})
    <3>1. DOMAIN Set("discount_rate", v) = {"discount_rate"}
      BY <1>2
    <3>2. DOMAIN kept \subseteq {"cashflows"}
      BY <1>1
    <3>3. DOMAIN Merge(Set("discount_rate", v), kept) = DOMAIN Set("discount_rate", v) \cup DOMAIN kept
      BY <1>3
    <3> QED
      BY <2>1, <2>2, <3>1, <3>2, <3>3
<1> QED
  BY <1>4, <1>5, <1>6, <1>7 DEF Kind

\* What the form saves is a row of a product.
LEMMA FormRowTyped ==
  ASSUME NEW f \in Portfolio, NEW i \in FormInput
  PROVE  ProductRow(FormRow(f, i)) /\ FormRow(f, i).portfolio = f
<1> DEFINE r == FormRow(f, i)
<1>1. i.kind \in Kind /\ i.notional \in Int
  BY MarketAssumption
<1>2. /\ r.kind = i.kind /\ r.metrics_json = clean(i.kind, i.fields) /\ r.by_form = TRUE
      /\ r.st = "there" /\ r.portfolio = f /\ r.notional = i.notional
      /\ DOMAIN r = {"st", "portfolio", "kind", "notional", "book_value", "metrics_json", "by_form"}
  BY DEF FormRow
<1> HIDE DEF r
<1>3. DOMAIN r.metrics_json \subseteq NamesOf(r.kind)
  BY <1>1, <1>2, CleanDomain
<1>4. NamesOf(r.kind) \subseteq mapping \cup {"cashflows"}
  BY <1>1, <1>2 DEF Kind, NamesOf, mapping, BondFields
<1>5. ProductRow(r)
  BY <1>1, <1>2, <1>3, <1>4 DEF ProductRow, NamesOf
<1> QED
  BY <1>2, <1>5 DEF r

\* So is what the admin writes.
LEMMA AdminRowTyped ==
  ASSUME NEW f \in Portfolio, NEW i \in AdminInput, NEW r, r = AdminRow(f, i)
  PROVE  ProductRow(r) /\ r.portfolio = f /\ r.by_form = FALSE
<1>1. r = [st |-> "there", portfolio |-> f, kind |-> i.kind, notional |-> i.notional,
           book_value |-> i.book_value, metrics_json |-> i.fields, by_form |-> FALSE]
  BY DEF AdminRow
<1> QED
  BY <1>1, MarketAssumption DEF ProductRow

(***************************************************************************)
(* Type correctness, in three parts.                                       *)
(***************************************************************************)

ProductsOK ==
  /\ portfolio \in [Portfolio -> {New, Gone} \cup PortfolioRow]
  /\ DOMAIN product = Product
  /\ \A p \in Product : product[p] \in {New, Gone} \/ ProductRow(product[p])
  /\ \A p \in Product : There(product[p]) => There(portfolio[product[p].portfolio])

PricesOK ==
  /\ prices \subseteq Product \X Day
  /\ \A x \in prices : There(product[x[1]])

JobsOK ==
  /\ form \in [Web -> {Idle} \cup Editing]
  /\ today \in Day
  /\ job \in [Worker -> {Idle} \cup Refresh]
  /\ refreshes \in [Day -> Nat]
  /\ finished \subseteq Day /\ spoiled \subseteq Day
  /\ completed \subseteq Product \X Day
  /\ edits \in 0..MaxEdits

LEMMA TypeParts == TypeOK <=> ProductsOK /\ PricesOK /\ JobsOK
  BY DEF TypeOK, ProductsOK, PricesOK, JobsOK

LEMMA TypePartsAfter == ProductsOK' /\ PricesOK' /\ JobsOK' => TypeOK'
  BY DEF TypeOK, ProductsOK, PricesOK, JobsOK

LEMMA InitTypes == Init => TypeOK
<1> SUFFICES ASSUME Init
             PROVE  TypeOK
  OBVIOUS
<1>1. PICK s \in Start : portfolio = s.portfolio /\ product = s.product /\ prices = s.prices
  BY DEF Init
<1>2. /\ s.portfolio \in [Portfolio -> {New} \cup PortfolioRow]
      /\ DOMAIN s.product = Product
      /\ \A p \in Product : \/ s.product[p] = New
                            \/ ProductRow(s.product[p]) /\ There(s.portfolio[s.product[p].portfolio])
      /\ s.prices \subseteq Product \X {1}
      /\ \A x \in s.prices : There(s.product[x[1]])
      /\ 1 \in Day
  BY MarketAssumption DEF Day
<1>3. ProductsOK
  <2>1. portfolio \in [Portfolio -> {New, Gone} \cup PortfolioRow]
    BY <1>1, <1>2
  <2>2. ~ There(New)
    BY DEF There, New
  <2> QED
    BY <1>1, <1>2, <2>1, <2>2 DEF ProductsOK
<1>4. PricesOK
  BY <1>1, <1>2 DEF PricesOK
<1>n. \A t \in Start : t.refreshes \in Nat
  BY MarketAssumption
<1>r. refreshes \in [Day -> Nat] /\ finished \subseteq Day /\ spoiled = {}
  BY <1>n DEF Init
<1>5. JobsOK
  BY <1>2, <1>r, MarketAssumption DEF Init, JobsOK
<1> QED
  BY <1>3, <1>4, <1>5, TypeParts

\* A deletion takes products and their prices, and with a portfolio all products of it.
LEMMA CascadeTypes ==
  ASSUME ProductsOK, PricesOK, NEW ps \in SUBSET Product, Cascade(ps),
         portfolio' \in [Portfolio -> {New, Gone} \cup PortfolioRow],
         \A p \in Product \ ps : There(product[p]) => portfolio'[product[p].portfolio] =
                                                       portfolio[product[p].portfolio]
  PROVE  ProductsOK' /\ PricesOK'
<1>1. /\ DOMAIN product' = Product
      /\ \A p \in ps : product'[p] = Gone
      /\ \A p \in Product \ ps : product'[p] = product[p]
      /\ prices' = {x \in prices : x[1] \notin ps}
  BY DEF Cascade
<1>2. ~ There(Gone)
  BY DEF There, Gone
<1>3. ProductsOK'
  BY <1>1, <1>2 DEF ProductsOK
<1>4. PricesOK'
  BY <1>1 DEF PricesOK
<1> QED
  BY <1>3, <1>4

\* A row written by the form or the admin takes the place of the one before.
LEMMA SavedTypes ==
  ASSUME ProductsOK, PricesOK, NEW p \in Product, NEW f \in Portfolio, NEW r,
         There(portfolio[f]), ProductRow(r), r.portfolio = f,
         product' = [product EXCEPT ![p] = r], UNCHANGED <<portfolio, prices>>
  PROVE  ProductsOK' /\ PricesOK'
<1>1. /\ DOMAIN product' = Product /\ product'[p] = r
      /\ \A q \in Product \ {p} : product'[q] = product[q]
  BY DEF ProductsOK
<1>2. There(r)
  BY DEF ProductRow, There
<1>3. ProductsOK'
  BY <1>1 DEF ProductsOK
<1>4. PricesOK'
  BY <1>1, <1>2 DEF PricesOK
<1> QED
  BY <1>3, <1>4

\* So does that of a portfolio, which takes no product with it.
LEMMA PortfolioTypes ==
  ASSUME ProductsOK, PricesOK, NEW f \in Portfolio, NEW l \in Limits,
         portfolio' = [portfolio EXCEPT ![f] = PortfolioOf(l)], UNCHANGED <<product, prices>>
  PROVE  ProductsOK' /\ PricesOK'
<1>1. PortfolioOf(l) \in PortfolioRow /\ There(PortfolioOf(l))
  BY DEF PortfolioOf, PortfolioRow, There
<1>2. \A g \in Portfolio : There(portfolio[g]) => There(portfolio'[g])
  BY <1>1 DEF ProductsOK
<1>3. portfolio' \in [Portfolio -> {New, Gone} \cup PortfolioRow]
  BY <1>1 DEF ProductsOK
<1>4. \A p \in Product : There(product[p]) => product[p].portfolio \in Portfolio
  BY DEF ProductsOK, ProductRow, There, New, Gone
<1>5. ProductsOK'
  BY <1>2, <1>3, <1>4 DEF ProductsOK
<1>6. PricesOK'
  BY DEF PricesOK
<1> QED
  BY <1>5, <1>6

\* An edit is counted, and of what web workers and tasks keep touches what its row was part of.
LEMMA EditTypes ==
  ASSUME JobsOK, Edit, UNCHANGED <<form, today, job, ghosts>>
  PROVE  JobsOK'
  BY MarketAssumption DEF JobsOK, Edit, ghosts

LEMMA FormTypes ==
  ASSUME JobsOK, NEW w \in Web, NEW row \in {Idle} \cup Editing, form' = [form EXCEPT ![w] = row],
         UNCHANGED <<today, job, ghosts>>, edits' = edits \/ Edit
  PROVE  JobsOK'
<1>1. form' \in [Web -> {Idle} \cup Editing]
  BY DEF JobsOK
<1>2. edits' \in 0..MaxEdits
  BY MarketAssumption DEF JobsOK, Edit
<1> QED
  BY <1>1, <1>2 DEF JobsOK, ghosts

LEMMA ForgetTypes ==
  ASSUME JobsOK, Edit, NEW ps, Forget(ps), spoiled' \subseteq Day,
         UNCHANGED <<form, today, refreshes, finished>>
  PROVE  JobsOK'
<1>1. /\ completed' \subseteq completed
      /\ job' = [w \in Worker |-> IF job[w] = Idle THEN Idle ELSE [job[w] EXCEPT !.due = @ \ ps]]
  BY DEF Forget
<1>2. ASSUME NEW j \in Refresh
      PROVE  [j EXCEPT !.due = @ \ ps] \in Refresh
  BY DEF Refresh
<1>3. job \in [Worker -> {Idle} \cup Refresh]
  BY DEF JobsOK
<1>4. job' \in [Worker -> {Idle} \cup Refresh]
  BY <1>1, <1>2, <1>3
<1>5. edits' \in 0..MaxEdits
  BY MarketAssumption DEF JobsOK, Edit
<1> QED
  BY <1>1, <1>4, <1>5 DEF JobsOK

LEMMA ScreensTypes == TypeOK /\ Screens => TypeOK'
<1> SUFFICES ASSUME TypeOK, Screens
             PROVE  TypeOK'
  OBVIOUS
<1>t. ProductsOK /\ PricesOK /\ JobsOK
  BY TypeParts
<1>f. ASSUME NEW ps, Cascade(ps), Edit
      PROVE  JobsOK'
  <2>1. spoiled' \subseteq Day
    BY <1>t, <1>f DEF Cascade, JobsOK
  <2> QED
    BY <1>t, <1>f, <2>1, ForgetTypes DEF Cascade
<1>1. CASE \E f \in Portfolio, l \in Limits : portfolio_create(f, l)
  <2>1. PICK f \in Portfolio, l \in Limits : portfolio_create(f, l)
    BY <1>1
  <2>2. /\ UNCHANGED <<product, prices>> /\ UNCHANGED <<form, today, job, ghosts>> /\ Edit
        /\ portfolio' = [portfolio EXCEPT ![f] = PortfolioOf(l)]
    BY <2>1 DEF portfolio_create
  <2>3. ProductsOK' /\ PricesOK'
    BY <1>t, <2>2, PortfolioTypes
  <2>4. JobsOK'
    BY <1>t, <2>2, EditTypes
  <2> QED
    BY <2>3, <2>4, TypePartsAfter
<1>2. CASE \E f \in Portfolio : portfolio_delete(f)
  <2>1. PICK f \in Portfolio : portfolio_delete(f)
    BY <1>2
  <2> DEFINE ps == {p \in Product : There(product[p]) /\ product[p].portfolio = f}
  <2>2. portfolio' = [portfolio EXCEPT ![f] = Gone] /\ Cascade(ps) /\ Edit
    BY <2>1 DEF portfolio_delete
  <2>3. portfolio' \in [Portfolio -> {New, Gone} \cup PortfolioRow]
    BY <1>t, <2>2 DEF ProductsOK
  <2>4. \A p \in Product \ ps : There(product[p]) => portfolio'[product[p].portfolio] =
                                                      portfolio[product[p].portfolio]
    BY <2>2
  <2>5. ps \in SUBSET Product
    OBVIOUS
  <2> HIDE DEF ps
  <2>6. ProductsOK' /\ PricesOK'
    BY <1>t, <2>2, <2>3, <2>4, <2>5, CascadeTypes
  <2>7. JobsOK'
    BY <1>f, <2>2
  <2> QED
    BY <2>6, <2>7, TypePartsAfter
<1>3. CASE \E p \in Product, f \in Portfolio, i \in FormInput : product_create(p, f, i)
  <2>1. PICK p \in Product, f \in Portfolio, i \in FormInput : product_create(p, f, i)
    BY <1>3
  <2>2. /\ There(portfolio[f]) /\ product' = [product EXCEPT ![p] = FormRow(f, i)] /\ Edit
        /\ UNCHANGED <<portfolio, prices>> /\ UNCHANGED <<form, today, job, ghosts>>
    BY <2>1 DEF product_create
  <2>3. ProductsOK' /\ PricesOK'
    BY <1>t, <2>2, FormRowTyped, SavedTypes
  <2>4. JobsOK'
    BY <1>t, <2>2, EditTypes
  <2> QED
    BY <2>3, <2>4, TypePartsAfter
<1>4. CASE \E p \in Product, f \in Portfolio, i \in AdminInput : AdminProduct(p, f, i)
  <2>1. PICK p \in Product, f \in Portfolio, i \in AdminInput : AdminProduct(p, f, i)
    BY <1>4
  <2>2. /\ There(portfolio[f]) /\ product' = [product EXCEPT ![p] = AdminRow(f, i)] /\ Edit
        /\ UNCHANGED <<portfolio, prices>> /\ UNCHANGED <<form, today, job, ghosts>>
    BY <2>1 DEF AdminProduct
  <2>3. ProductsOK' /\ PricesOK'
    BY <1>t, <2>2, AdminRowTyped, SavedTypes
  <2>4. JobsOK'
    BY <1>t, <2>2, EditTypes
  <2> QED
    BY <2>3, <2>4, TypePartsAfter
<1>5. CASE \E p \in Product : product_delete(p)
  <2>1. PICK p \in Product : product_delete(p)
    BY <1>5
  <2>2. UNCHANGED portfolio /\ Cascade({p}) /\ Edit
    BY <2>1 DEF product_delete
  <2>3. portfolio' \in [Portfolio -> {New, Gone} \cup PortfolioRow]
    BY <1>t, <2>2 DEF ProductsOK
  <2>4. ProductsOK' /\ PricesOK'
    BY <1>t, <2>2, <2>3, CascadeTypes
  <2>5. JobsOK'
    BY <1>f, <2>2
  <2> QED
    BY <2>4, <2>5, TypePartsAfter
<1> QED
  BY <1>1, <1>2, <1>3, <1>4, <1>5 DEF Screens

LEMMA EditsTypes ==
  ASSUME TypeOK, NEW w \in Web, Edits(w)
  PROVE  TypeOK'
<1>t. ProductsOK /\ PricesOK /\ JobsOK
  BY TypeParts
<1>e. /\ form[w].at = "product" => form[w].p \in Product
      /\ form[w].at = "portfolio" => form[w].f \in Portfolio
  BY <1>t DEF JobsOK, Editing, Idle
<1>s. ASSUME Save(w)
      PROVE  JobsOK'
  BY <1>t, <1>s, FormTypes DEF Save
<1>u. ASSUME UNCHANGED tables
      PROVE  ProductsOK' /\ PricesOK'
  BY <1>t, <1>u DEF tables, ProductsOK, PricesOK
<1>1. ASSUME NEW row \in {Idle} \cup Editing, form' = [form EXCEPT ![w] = row],
             UNCHANGED <<tables, edits, today, job, ghosts>>
      PROVE  TypeOK'
  <2>1. JobsOK'
    BY <1>t, <1>1, FormTypes
  <2> QED
    BY <1>u, <1>1, <2>1, TypePartsAfter
<1>2. ASSUME NEW f \in Portfolio, LoadPortfolio(w, f)
      PROVE  TypeOK'
  <2>1. [at |-> "portfolio", f |-> f] \in Editing
    BY DEF Editing
  <2> QED
    BY <1>1, <1>2, <2>1 DEF LoadPortfolio, Load
<1>3. ASSUME NEW p \in Product, LoadProduct(w, p)
      PROVE  TypeOK'
  <2>1. [at |-> "product", p |-> p] \in Editing
    BY DEF Editing
  <2> QED
    BY <1>1, <1>3, <2>1 DEF LoadProduct, Load
<1>4. CASE AbandonEdit(w)
  BY <1>1, <1>4 DEF AbandonEdit
<1>5. ASSUME NEW l \in Limits, portfolio_update(w, l)
      PROVE  TypeOK'
  <2>1. /\ form[w].f \in Portfolio /\ UNCHANGED <<product, prices>> /\ Save(w)
        /\ portfolio' = [portfolio EXCEPT ![form[w].f] = PortfolioOf(l)]
    BY <1>e, <1>5 DEF portfolio_update
  <2>2. ProductsOK' /\ PricesOK'
    BY <1>t, <2>1, PortfolioTypes
  <2> QED
    BY <1>s, <2>1, <2>2, TypePartsAfter
<1>6. ASSUME NEW f \in Portfolio, NEW i \in FormInput, product_update(w, f, i)
      PROVE  TypeOK'
  <2>1. /\ form[w].p \in Product /\ There(portfolio[f]) /\ Save(w)
        /\ product' = [product EXCEPT ![form[w].p] = FormRow(f, i)]
        /\ UNCHANGED <<portfolio, prices>>
    BY <1>e, <1>6 DEF product_update
  <2>2. ProductsOK' /\ PricesOK'
    BY <1>t, <2>1, FormRowTyped, SavedTypes
  <2> QED
    BY <1>s, <2>1, <2>2, TypePartsAfter
<1>7. ASSUME NEW f \in Portfolio, NEW i \in AdminInput, AdminProductEdit(w, f, i)
      PROVE  TypeOK'
  <2>1. /\ form[w].p \in Product /\ There(portfolio[f]) /\ Save(w)
        /\ product' = [product EXCEPT ![form[w].p] = AdminRow(f, i)]
        /\ UNCHANGED <<portfolio, prices>>
    BY <1>e, <1>7 DEF AdminProductEdit
  <2>2. ProductsOK' /\ PricesOK'
    BY <1>t, <2>1, AdminRowTyped, SavedTypes
  <2> QED
    BY <1>s, <2>1, <2>2, TypePartsAfter
<1> QED
  BY <1>2, <1>3, <1>4, <1>5, <1>6, <1>7 DEF Edits

LEMMA AdminPricesTypes == TypeOK /\ AdminPrices => TypeOK'
<1> SUFFICES ASSUME TypeOK, AdminPrices
             PROVE  TypeOK'
  OBVIOUS
<1>t. ProductsOK /\ PricesOK /\ JobsOK
  BY TypeParts
<1>m. ASSUME NEW d \in Day, Meddled(d)
      PROVE  spoiled' \subseteq Day
  BY <1>t, <1>m DEF Meddled, JobsOK
<1>1. ASSUME NEW p \in Product, NEW d \in Day, AdminPrice(p, d)
      PROVE  TypeOK'
  <2>1. /\ There(product[p]) /\ prices' = prices \cup {<<p, d>>} /\ Edit /\ Meddled(d)
        /\ UNCHANGED <<portfolio, product>>
        /\ UNCHANGED <<form, today, job, refreshes, finished, completed>>
    BY <1>1 DEF AdminPrice
  <2>2. ProductsOK' /\ PricesOK'
    BY <1>t, <2>1 DEF ProductsOK, PricesOK
  <2>3. spoiled' \subseteq Day
    BY <1>m, <2>1
  <2>4. JobsOK'
    BY <1>t, <2>1, <2>3, MarketAssumption DEF JobsOK, Edit
  <2> QED
    BY <2>2, <2>4, TypePartsAfter
<1>2. ASSUME NEW p \in Product, NEW d \in Day, AdminPriceDelete(p, d)
      PROVE  TypeOK'
  <2>1. /\ prices' \subseteq prices /\ Edit /\ Forget({p}) /\ UNCHANGED <<portfolio, product>>
        /\ UNCHANGED <<form, today, refreshes, finished>> /\ spoiled' = spoiled
    BY <1>2 DEF AdminPriceDelete
  <2>2. ProductsOK' /\ PricesOK'
    BY <1>t, <2>1 DEF ProductsOK, PricesOK
  <2>3. spoiled' \subseteq Day
    BY <1>t, <2>1 DEF JobsOK
  <2>4. JobsOK'
    BY <1>t, <2>1, <2>3, ForgetTypes
  <2> QED
    BY <2>2, <2>4, TypePartsAfter
<1>3. ASSUME NEW p \in Product, NEW d \in Day, NEW q \in Product, NEW e \in Day,
             AdminPriceEdit(p, d, q, e)
      PROVE  TypeOK'
  <2>1. /\ There(product[q]) /\ prices' = (prices \ {<<p, d>>}) \cup {<<q, e>>} /\ Edit
        /\ Meddled(e) /\ Forget({p}) /\ UNCHANGED <<portfolio, product>>
        /\ UNCHANGED <<form, today, refreshes, finished>>
    BY <1>3 DEF AdminPriceEdit
  <2>2. ProductsOK' /\ PricesOK'
    BY <1>t, <2>1 DEF ProductsOK, PricesOK
  <2>3. spoiled' \subseteq Day
    BY <1>m, <2>1
  <2>4. JobsOK'
    BY <1>t, <2>1, <2>3, ForgetTypes
  <2> QED
    BY <2>2, <2>4, TypePartsAfter
<1> QED
  BY <1>1, <1>2, <1>3 DEF AdminPrices

LEMMA TaskTypes ==
  ASSUME TypeOK, NEW w \in Worker, Task(w)
  PROVE  TypeOK'
<1>t. ProductsOK /\ PricesOK /\ JobsOK
  BY TypeParts
<1>j. /\ job \in [Worker -> {Idle} \cup Refresh] /\ today \in Day
      /\ \A j \in Refresh : j.date \in Day /\ j.todo \subseteq Product /\ j.due \subseteq Product
  BY <1>t DEF JobsOK, Refresh
<1>b. job[w].at \in {"visit", "create"} => job[w] \in Refresh
  BY <1>j DEF Idle
<1>v. ASSUME NEW date \in Day, NEW todo \in SUBSET Product, NEW due \in SUBSET Product, NEW p \in Product
      PROVE  /\ [at |-> "visit", date |-> date, todo |-> todo, due |-> due] \in Refresh
             /\ [at |-> "create", date |-> date, todo |-> todo, due |-> due, p |-> p] \in Refresh
  BY DEF Refresh
<1>1. CASE StartRefresh(w)
  <2>1. /\ UNCHANGED tables /\ UNCHANGED <<today, finished, spoiled, completed, web>>
        /\ refreshes' = [refreshes EXCEPT ![today] = @ + 1]
        /\ job' = [job EXCEPT ![w] = [at |-> "visit", date |-> today, todo |-> Listed,
                                      due |-> {p \in Listed : Latest(p) # {}}]]
    BY <1>1 DEF StartRefresh
  <2>2. job' \in [Worker -> {Idle} \cup Refresh]
    <3>1. Listed \in SUBSET Product /\ {p \in Listed : Latest(p) # {}} \in SUBSET Product
      BY DEF Listed
    <3>2. [at |-> "visit", date |-> today, todo |-> Listed, due |-> {p \in Listed : Latest(p) # {}}]
            \in Refresh
      BY <1>j, <3>1 DEF Refresh
    <3> QED
      BY <1>j, <2>1, <3>2
  <2>3. refreshes' \in [Day -> Nat]
    BY <1>t, <1>j, <2>1 DEF JobsOK
  <2>4. JobsOK'
    BY <1>t, <2>1, <2>2, <2>3 DEF JobsOK, web
  <2>5. ProductsOK' /\ PricesOK'
    BY <1>t, <2>1 DEF ProductsOK, PricesOK, tables
  <2> QED
    BY <2>4, <2>5, TypePartsAfter
<1>2. CASE \E p \in Product : VisitProduct(w, p)
  <2>1. PICK p \in Product : VisitProduct(w, p)
    BY <1>2
  <2>2. /\ UNCHANGED tables /\ UNCHANGED <<today, ghosts, web>>
        /\ \/ job' = [job EXCEPT ![w] = [at |-> "visit", date |-> job[w].date,
                                         todo |-> job[w].todo \ {p}, due |-> job[w].due]]
           \/ job' = [job EXCEPT ![w] = [at |-> "create", date |-> job[w].date,
                                         todo |-> job[w].todo \ {p}, due |-> job[w].due, p |-> p]]
        /\ job[w].at = "visit"
    BY <2>1 DEF VisitProduct, Visit
  <2>3. job[w].date \in Day /\ job[w].todo \ {p} \in SUBSET Product /\ job[w].due \in SUBSET Product
    BY <1>j, <1>b, <2>2
  <2>4. job' \in [Worker -> {Idle} \cup Refresh]
    <3> DEFINE done == [at |-> "visit", date |-> job[w].date, todo |-> job[w].todo \ {p},
                        due |-> job[w].due]
               late == [at |-> "create", date |-> job[w].date, todo |-> job[w].todo \ {p},
                        due |-> job[w].due, p |-> p]
    <3>1. done \in Refresh /\ late \in Refresh
      BY <1>v, <2>3
    <3>2. job' = [job EXCEPT ![w] = done] \/ job' = [job EXCEPT ![w] = late]
      BY <2>2
    <3> HIDE DEF done, late
    <3> QED
      BY <1>j, <3>1, <3>2
  <2>5. JobsOK'
    BY <1>t, <2>2, <2>4 DEF JobsOK, ghosts, web
  <2>6. ProductsOK' /\ PricesOK'
    BY <1>t, <2>2 DEF ProductsOK, PricesOK, tables
  <2> QED
    BY <2>5, <2>6, TypePartsAfter
<1>3. CASE CreatePrice(w)
  <2>1. job[w] \in Refresh /\ job[w].at = "create" /\ job[w].p \in Product
    BY <1>3, <1>b DEF CreatePrice, Refresh
  <2>2. UNCHANGED <<portfolio, product>> /\ UNCHANGED <<today, refreshes, finished, completed, web>>
    BY <1>3 DEF CreatePrice
  <2>3. /\ prices' \subseteq Product \X Day
        /\ \A x \in prices' : There(product[x[1]])
        /\ spoiled' \subseteq Day
    <3>1. CASE There(product[job[w].p]) /\ ~ Exists(job[w].p, job[w].date)
      <4>1. prices' = prices \cup {<<job[w].p, job[w].date>>} /\ spoiled' = spoiled
        BY <1>3, <3>1 DEF CreatePrice
      <4> QED
        BY <1>t, <1>j, <2>1, <3>1, <4>1 DEF PricesOK, JobsOK
    <3>2. CASE ~ (There(product[job[w].p]) /\ ~ Exists(job[w].p, job[w].date))
      <4>1. prices' = prices /\ spoiled' \subseteq spoiled \cup {job[w].date}
        BY <1>3, <3>2 DEF CreatePrice
      <4> QED
        BY <1>t, <1>j, <2>1, <4>1 DEF PricesOK, JobsOK
    <3> QED
      BY <3>1, <3>2
  <2>4. job' \in [Worker -> {Idle} \cup Refresh]
    <3> DEFINE done == [at |-> "visit", date |-> job[w].date, todo |-> job[w].todo,
                        due |-> job[w].due]
    <3>1. done \in Refresh
      BY <1>j, <1>v, <2>1
    <3>2. job' = [job EXCEPT ![w] = done] \/ job' = [job EXCEPT ![w] = Idle]
      BY <1>3 DEF CreatePrice
    <3> HIDE DEF done
    <3> QED
      BY <1>j, <3>1, <3>2
  <2>5. JobsOK'
    BY <1>t, <2>2, <2>3, <2>4 DEF JobsOK, web
  <2>6. ProductsOK' /\ PricesOK'
    BY <1>t, <2>2, <2>3 DEF ProductsOK, PricesOK
  <2> QED
    BY <2>5, <2>6, TypePartsAfter
<1>4. CASE EndRefresh(w)
  <2>1. job[w] \in Refresh
    BY <1>4, <1>b DEF EndRefresh
  <2>2. /\ UNCHANGED tables /\ UNCHANGED <<today, refreshes, spoiled, web>>
        /\ job' = [job EXCEPT ![w] = Idle] /\ finished' = finished \cup {job[w].date}
        /\ completed' = completed \cup {<<p, job[w].date>> : p \in job[w].due}
    BY <1>4 DEF EndRefresh
  <2>3. completed' \subseteq Product \X Day /\ finished' \subseteq Day
    BY <1>t, <1>j, <2>1, <2>2 DEF JobsOK
  <2>4. job' \in [Worker -> {Idle} \cup Refresh]
    BY <1>j, <2>2
  <2>5. JobsOK'
    BY <1>t, <2>2, <2>3, <2>4 DEF JobsOK, web
  <2>6. ProductsOK' /\ PricesOK'
    BY <1>t, <2>2 DEF ProductsOK, PricesOK, tables
  <2> QED
    BY <2>5, <2>6, TypePartsAfter
<1>5. CASE WorkerDies(w)
  <2>1. /\ UNCHANGED tables /\ UNCHANGED <<today, refreshes, finished, completed, web>>
        /\ job' = [job EXCEPT ![w] = Idle] /\ spoiled' = spoiled \cup {job[w].date}
        /\ job[w] \in Refresh
    BY <1>5, <1>j DEF WorkerDies
  <2>2. job' \in [Worker -> {Idle} \cup Refresh] /\ spoiled' \subseteq Day
    BY <1>t, <1>j, <2>1 DEF JobsOK
  <2>3. JobsOK'
    BY <1>t, <2>1, <2>2 DEF JobsOK, web
  <2>4. ProductsOK' /\ PricesOK'
    BY <1>t, <2>1 DEF ProductsOK, PricesOK, tables
  <2> QED
    BY <2>3, <2>4, TypePartsAfter
<1> QED
  BY <1>1, <1>2, <1>3, <1>4, <1>5 DEF Task

LEMMA StepTypes == TypeOK /\ [Next]_vars => TypeOK'
<1> SUFFICES ASSUME TypeOK, [Next]_vars
             PROVE  TypeOK'
  OBVIOUS
<1>1. CASE Screens
  BY <1>1, ScreensTypes
<1>e. CASE \E w \in Web : Edits(w)
  BY <1>e, EditsTypes
<1>p. CASE AdminPrices
  BY <1>p, AdminPricesTypes
<1>2. CASE NextDay
  BY <1>2, MarketAssumption DEF TypeOK, NextDay, tables, ghosts, web, Day
<1>3. CASE \E w \in Worker : Task(w)
  BY <1>3, TaskTypes
<1>4. CASE UNCHANGED vars
  BY <1>4 DEF TypeOK, vars, tables, ghosts, web
<1> QED
  BY <1>1, <1>e, <1>p, <1>2, <1>3, <1>4 DEF Next

\* The types, and of metrics_json that a product the form wrote last holds the names of its kind.
THEOREM TypeCorrect == Spec => []TypeOK
  BY InitTypes, StepTypes, PTL DEF Spec

(***************************************************************************)
(* What steps do to the prices a refresh has seen.                         *)
(***************************************************************************)

LEMMA LatestIs ==
  ASSUME TypeOK
  PROVE  \A p \in Product : /\ Latest(p) \subseteq Day
                            /\ \A d \in Day : d \in Latest(p) <=> <<p, d>> \in prices
<1>1. prices \subseteq Product \X Day
  BY DEF TypeOK
<1> QED
  BY <1>1 DEF Latest

LEMMA LatestIsAfter ==
  ASSUME TypeOK'
  PROVE  \A p \in Product : /\ Latest(p)' \subseteq Day
                            /\ \A d \in Day : d \in Latest(p)' <=> <<p, d>> \in prices'
<1>1. prices' \subseteq Product \X Day
  BY DEF TypeOK
<1> QED
  BY <1>1 DEF Latest

\* p has all the prices it had.
Kept(p) == Latest(p) \subseteq Latest(p)'

LEMMA PricesKept ==
  ASSUME TypeOK, TypeOK', NEW p \in Product, \A x \in prices : x[1] = p => x \in prices'
  PROVE  Kept(p)
<1>1. Latest(p) \subseteq Latest(p)'
  BY LatestIs, LatestIsAfter
<1> QED
  BY <1>1 DEF Kept

\* The screens leave the prices and the refreshes alone, or take products with their prices out of
\* both.
LEMMA ScreensEffects ==
  ASSUME Screens \/ \E w \in Web : Edits(w)
  PROVE  \/ UNCHANGED <<prices, job, ghosts>>
         \/ \E ps \in SUBSET Product :
              /\ prices' = {x \in prices : x[1] \notin ps} /\ Forget(ps)
              /\ UNCHANGED <<refreshes, finished, spoiled>>
<1>1. CASE \E f \in Portfolio, l \in Limits : portfolio_create(f, l)
  BY <1>1 DEF portfolio_create
<1>2. CASE \E f \in Portfolio : portfolio_delete(f)
  <2>1. PICK f \in Portfolio : portfolio_delete(f)
    BY <1>2
  <2>2. PICK ps \in SUBSET Product : Cascade(ps)
    BY <2>1 DEF portfolio_delete
  <2> QED
    BY <2>2 DEF Cascade
<1>3. CASE \E p \in Product, f \in Portfolio :
             \/ \E i \in FormInput : product_create(p, f, i)
             \/ \E i \in AdminInput : AdminProduct(p, f, i)
  BY <1>3 DEF product_create, AdminProduct
<1>4. CASE \E p \in Product : product_delete(p)
  <2>1. PICK p \in Product : Cascade({p})
    BY <1>4 DEF product_delete
  <2> QED
    BY <2>1 DEF Cascade
<1>5. ASSUME NEW w \in Web, Edits(w)
      PROVE  UNCHANGED <<prices, job, ghosts>>
  BY <1>5 DEF Edits, LoadPortfolio, LoadProduct, Load, AbandonEdit, portfolio_update,
              product_update, AdminProductEdit, Save, tables
<1> QED
  BY <1>1, <1>2, <1>3, <1>4, <1>5 DEF Screens

(***************************************************************************)
(* A refresh that ends has advanced what it had to.                        *)
(***************************************************************************)

Advanced(p, date) == \E d \in Latest(p) : d >= date

\* What refresh j has yet to do about product p, or has done.
Owed(j, p) ==
  /\ Latest(p) # {}
  /\ p \in j.todo \/ (j.at = "create" /\ p = j.p) \/ Advanced(p, j.date)

Settled(c) == Advanced(c[1], c[2])

DayInv ==
  /\ \A w \in Worker : job[w] # Idle => \A p \in job[w].due : Owed(job[w], p)
  /\ \A c \in completed : Settled(c)

\* The same of the state after a step.
AdvancedAfter(p, date) == \E d \in Latest(p)' : d >= date

OwedAfter(j, p) ==
  /\ Latest(p)' # {}
  /\ p \in j.todo \/ (j.at = "create" /\ p = j.p) \/ AdvancedAfter(p, j.date)

SettledAfter(c) == AdvancedAfter(c[1], c[2])

\* While its prices are kept, nothing that was done about a product is undone.
LEMMA KeptOwed ==
  ASSUME NEW p \in Product, Kept(p), NEW j, Owed(j, p)
  PROVE  OwedAfter(j, p)
  BY DEF Kept, Owed, Advanced, OwedAfter, AdvancedAfter

LEMMA KeptSettled ==
  ASSUME NEW p \in Product, NEW d \in Day, Kept(p), Settled(<<p, d>>)
  PROVE  SettledAfter(<<p, d>>)
  BY DEF Kept, Settled, Advanced, SettledAfter, AdvancedAfter

LEMMA DayInvAfter ==
  ASSUME \A w \in Worker : job'[w] # Idle => \A p \in job'[w].due : OwedAfter(job'[w], p),
         \A c \in completed' : SettledAfter(c)
  PROVE  DayInv'
  BY DEF DayInv, Owed, Settled, Advanced, OwedAfter, SettledAfter, AdvancedAfter

\* A step that touches one refresh at most, and keeps all prices.
LEMMA DayKept ==
  ASSUME TypeOK, DayInv, \A p \in Product : Kept(p), NEW w \in Worker,
         \A v \in Worker \ {w} : job'[v] = job[v],
         job'[w] = Idle \/ \A p \in job'[w].due : OwedAfter(job'[w], p),
         \A c \in completed' \ completed : SettledAfter(c)
  PROVE  DayInv'
<1>1. ASSUME NEW v \in Worker, job'[v] # Idle, NEW p \in job'[v].due
      PROVE  OwedAfter(job'[v], p)
  <2>1. CASE v = w
    BY <1>1, <2>1
  <2>2. CASE v # w
    <3>1. job'[v] = job[v] /\ job[v] # Idle /\ p \in job[v].due
      BY <1>1, <2>2
    <3>2. job[v] \in Refresh /\ p \in Product
      BY <3>1 DEF TypeOK, Refresh
    <3>3. Owed(job[v], p)
      BY <3>1 DEF DayInv
    <3> QED
      BY <3>1, <3>2, <3>3, KeptOwed
  <2> QED
    BY <2>1, <2>2
<1>2. ASSUME NEW c \in completed'
      PROVE  SettledAfter(c)
  <2>1. CASE c \in completed
    <3>1. PICK p \in Product, d \in Day : c = <<p, d>>
      BY <2>1 DEF TypeOK
    <3> QED
      BY <2>1, <3>1, KeptSettled DEF DayInv
  <2>2. CASE c \notin completed
    BY <1>2, <2>2
  <2> QED
    BY <2>1, <2>2
<1> QED
  BY <1>1, <1>2, DayInvAfter

\* A visit: the price the refresh has read is not older, or it goes on to insert one.
LEMMA VisitDay ==
  ASSUME TypeOK, DayInv, NEW w \in Worker, NEW p \in Product, VisitProduct(w, p)
  PROVE  DayInv'
<1>1. /\ UNCHANGED tables /\ UNCHANGED completed
      /\ job[w].at = "visit" /\ p \in job[w].todo /\ Visit(w, p)
  BY DEF VisitProduct, ghosts
<1>2. job[w] \in Refresh /\ job[w] # Idle /\ job \in [Worker -> {Idle} \cup Refresh]
  BY <1>1 DEF TypeOK, Idle
<1>3. \A q \in Product : Kept(q) /\ Latest(q)' = Latest(q)
  BY <1>1 DEF Kept, tables, Latest
<1>4. ASSUME NEW q \in job[w].due
      PROVE  q \in Product /\ Owed(job[w], q) /\ Latest(q)' = Latest(q)
  <2>1. q \in Product
    BY <1>2 DEF Refresh
  <2> QED
    BY <1>2, <1>3, <1>4, <2>1 DEF DayInv
<1>5. \A q \in job'[w].due : OwedAfter(job'[w], q)
  <2>1. CASE SkipsProduct(p, job[w].date)
    <3> DEFINE j == [at |-> "visit", date |-> job[w].date, todo |-> job[w].todo \ {p},
                     due |-> job[w].due]
    <3>1. job'[w] = j
      BY <1>1, <1>2, <2>1 DEF Visit
    <3>2. j.at = "visit" /\ j.date = job[w].date /\ j.todo = job[w].todo \ {p} /\ j.due = job[w].due
      OBVIOUS
    <3> HIDE DEF j
    <3>3. ASSUME NEW q \in job[w].due
          PROVE  OwedAfter(j, q)
      <4>1. CASE q = p
        BY <1>4, <2>1, <3>2, <3>3, <4>1
           DEF Owed, OwedAfter, Advanced, AdvancedAfter, SkipsProduct
      <4>2. CASE q # p
        BY <1>1, <1>4, <3>2, <3>3, <4>2 DEF Owed, OwedAfter, Advanced, AdvancedAfter
      <4> QED
        BY <4>1, <4>2
    <3> QED
      BY <3>1, <3>2, <3>3
  <2>2. CASE ~ SkipsProduct(p, job[w].date)
    <3> DEFINE j == [at |-> "create", date |-> job[w].date, todo |-> job[w].todo \ {p},
                     due |-> job[w].due, p |-> p]
    <3>1. job'[w] = j
      BY <1>1, <1>2, <2>2 DEF Visit
    <3>2. /\ j.at = "create" /\ j.date = job[w].date /\ j.todo = job[w].todo \ {p}
          /\ j.due = job[w].due /\ j.p = p
      OBVIOUS
    <3> HIDE DEF j
    <3>3. ASSUME NEW q \in job[w].due
          PROVE  OwedAfter(j, q)
      BY <1>1, <1>4, <3>2, <3>3 DEF Owed, OwedAfter, Advanced, AdvancedAfter
    <3> QED
      BY <3>1, <3>2, <3>3
  <2> QED
    BY <2>1, <2>2
<1>6. \A v \in Worker \ {w} : job'[v] = job[v]
  BY <1>1, <1>2 DEF Visit
<1> QED
  BY <1>1, <1>3, <1>5, <1>6, DayKept

LEMMA StartDay ==
  ASSUME TypeOK, DayInv, NEW w \in Worker, StartRefresh(w)
  PROVE  DayInv'
<1> DEFINE j == [at |-> "visit", date |-> today, todo |-> Listed,
                 due |-> {p \in Listed : Latest(p) # {}}]
<1>1. UNCHANGED tables /\ UNCHANGED completed /\ job' = [job EXCEPT ![w] = j]
  BY DEF StartRefresh
<1>2. job'[w] = j /\ \A v \in Worker \ {w} : job'[v] = job[v]
  BY <1>1 DEF TypeOK
<1>3. \A q \in Product : Kept(q) /\ Latest(q)' = Latest(q)
  BY <1>1 DEF Kept, tables, Latest
<1>4. ASSUME NEW q \in j.due
      PROVE  OwedAfter(j, q)
  <2>1. q \in Product /\ Latest(q) # {} /\ q \in j.todo
    BY <1>4 DEF Listed
  <2> QED
    BY <1>3, <2>1 DEF OwedAfter
<1> HIDE DEF j
<1> QED
  BY <1>1, <1>2, <1>3, <1>4, DayKept

\* The insertion of a price advances its product; one that fails ends the refresh.
LEMMA CreateDay ==
  ASSUME TypeOK, TypeOK', DayInv, NEW w \in Worker, CreatePrice(w)
  PROVE  DayInv'
<1>1. /\ job[w] \in Refresh /\ job[w] # Idle /\ job[w].at = "create" /\ job[w].p \in Product
      /\ job \in [Worker -> {Idle} \cup Refresh] /\ job[w].due \subseteq Product
      /\ job[w].date \in Day
  BY DEF TypeOK, CreatePrice, Idle, Refresh
<1>2. UNCHANGED completed /\ prices \subseteq prices'
  BY DEF CreatePrice
<1>3. \A q \in Product : Kept(q)
  BY <1>2, PricesKept
<1>4. CASE There(product[job[w].p]) /\ ~ Exists(job[w].p, job[w].date)
  <2> DEFINE j == [at |-> "visit", date |-> job[w].date, todo |-> job[w].todo, due |-> job[w].due]
  <2>1. /\ job' = [job EXCEPT ![w] = j] /\ <<job[w].p, job[w].date>> \in prices'
    BY <1>4 DEF CreatePrice
  <2>2. job'[w] = j /\ \A v \in Worker \ {w} : job'[v] = job[v]
    BY <1>1, <2>1
  <2>3. j.at = "visit" /\ j.date = job[w].date /\ j.todo = job[w].todo /\ j.due = job[w].due
    OBVIOUS
  <2> HIDE DEF j
  <2>4. PICK p \in Product, d \in Day : p = job[w].p /\ d = job[w].date
    BY <1>1
  <2>5. d \in Latest(p)'
    BY <2>1, <2>4, LatestIsAfter
  <2>6. ASSUME NEW q \in job[w].due
        PROVE  OwedAfter(j, q)
    <3>1. Owed(job[w], q) /\ q \in Product
      BY <1>1, <2>6 DEF DayInv
    <3>2. OwedAfter(job[w], q)
      BY <1>3, <3>1, KeptOwed
    <3>3. CASE q = p
      <4>1. AdvancedAfter(q, job[w].date)
        <5>1. d >= d
          BY DEF Day
        <5> QED
          BY <2>4, <2>5, <3>3, <5>1 DEF AdvancedAfter
      <4> QED
        BY <2>3, <3>2, <4>1 DEF OwedAfter
    <3>4. CASE q # p
      BY <2>3, <2>4, <3>2, <3>4 DEF OwedAfter
    <3> QED
      BY <3>3, <3>4
  <2> QED
    BY <1>2, <1>3, <2>2, <2>3, <2>6, DayKept
<1>5. CASE ~ (There(product[job[w].p]) /\ ~ Exists(job[w].p, job[w].date))
  <2>1. job' = [job EXCEPT ![w] = Idle]
    BY <1>5 DEF CreatePrice
  <2> QED
    BY <1>1, <1>2, <1>3, <2>1, DayKept
<1> QED
  BY <1>4, <1>5

\* At its end nothing is left to do, so that what it owes is done.
LEMMA EndDay ==
  ASSUME TypeOK, DayInv, NEW w \in Worker, EndRefresh(w)
  PROVE  DayInv'
<1>1. /\ job[w] \in Refresh /\ job[w] # Idle /\ job[w].at = "visit" /\ job[w].todo = {}
      /\ job \in [Worker -> {Idle} \cup Refresh] /\ job[w].due \subseteq Product
  BY DEF TypeOK, EndRefresh, Idle, Refresh
<1>2. /\ UNCHANGED tables /\ job' = [job EXCEPT ![w] = Idle]
      /\ completed' = completed \cup {<<p, job[w].date>> : p \in job[w].due}
  BY DEF EndRefresh
<1>3. \A q \in Product : Kept(q) /\ Latest(q)' = Latest(q)
  BY <1>2 DEF Kept, tables, Latest
<1>4. ASSUME NEW c \in completed' \ completed
      PROVE  SettledAfter(c)
  <2>1. PICK q \in job[w].due : c = <<q, job[w].date>>
    BY <1>2, <1>4
  <2>2. Owed(job[w], q) /\ q \in Product
    BY <1>1, <2>1 DEF DayInv
  <2>3. OwedAfter(job[w], q)
    BY <1>3, <2>2, KeptOwed
  <2> QED
    BY <1>1, <2>1, <2>3 DEF OwedAfter, SettledAfter
<1> QED
  BY <1>1, <1>2, <1>3, <1>4, DayKept

\* A deletion takes the products that lose prices out of what is expected.
LEMMA ForgetDay ==
  ASSUME TypeOK, DayInv, NEW ps, Forget(ps), \A q \in Product \ ps : Kept(q)
  PROVE  DayInv'
<1>1. /\ completed' = {x \in completed : x[1] \notin ps}
      /\ job' = [w \in Worker |-> IF job[w] = Idle THEN Idle ELSE [job[w] EXCEPT !.due = @ \ ps]]
  BY DEF Forget
<1>2. ASSUME NEW w \in Worker, job'[w] # Idle, NEW q \in job'[w].due
      PROVE  OwedAfter(job'[w], q)
  <2>1. job[w] # Idle /\ job[w] \in Refresh
    BY <1>1, <1>2 DEF TypeOK
  <2>2. job'[w] = [job[w] EXCEPT !.due = @ \ ps]
    BY <1>1, <2>1
  <2>3. /\ job'[w].at = job[w].at /\ job'[w].todo = job[w].todo /\ job'[w].date = job[w].date
        /\ job'[w].due = job[w].due \ ps /\ job[w].due \subseteq Product
        /\ job[w].at = "create" => job'[w].p = job[w].p
    BY <2>1, <2>2 DEF Refresh
  <2>4. q \in Product \ ps /\ Owed(job[w], q)
    BY <1>2, <2>1, <2>3 DEF DayInv
  <2>5. OwedAfter(job[w], q)
    BY <2>4, KeptOwed
  <2> QED
    BY <2>3, <2>5 DEF OwedAfter
<1>3. ASSUME NEW c \in completed'
      PROVE  SettledAfter(c)
  <2>1. PICK q \in Product, e \in Day : c = <<q, e>>
    BY <1>1, <1>3 DEF TypeOK
  <2>2. q \notin ps /\ Settled(c)
    BY <1>1, <1>3, <2>1 DEF DayInv
  <2> QED
    BY <2>1, <2>2, KeptSettled
<1> QED
  BY <1>2, <1>3, DayInvAfter

\* A step of the screens, or none, that leaves the refreshes alone.
LEMMA AsideDay ==
  ASSUME TypeOK, DayInv, \A p \in Product : Kept(p), UNCHANGED <<job, completed>>
  PROVE  DayInv'
<1>1. ASSUME NEW w \in Worker, job'[w] # Idle, NEW p \in job'[w].due
      PROVE  OwedAfter(job'[w], p)
  <2>1. job[w] \in Refresh /\ p \in Product
    BY <1>1 DEF TypeOK, Refresh
  <2> QED
    BY <1>1, <2>1, KeptOwed DEF DayInv
<1>2. ASSUME NEW c \in completed'
      PROVE  SettledAfter(c)
  <2>1. PICK p \in Product, d \in Day : c = <<p, d>>
    BY <1>2 DEF TypeOK
  <2> QED
    BY <1>2, <2>1, KeptSettled DEF DayInv
<1> QED
  BY <1>1, <1>2, DayInvAfter

LEMMA InitDay == Init => DayInv
<1> SUFFICES ASSUME Init
             PROVE  DayInv
  OBVIOUS
<1>1. job = [w \in Worker |-> Idle] /\ completed = {}
  BY DEF Init
<1> QED
  BY <1>1 DEF DayInv

LEMMA StepDay == TypeOK /\ TypeOK' /\ DayInv /\ [Next]_vars => DayInv'
<1> SUFFICES ASSUME TypeOK, TypeOK', DayInv, [Next]_vars
             PROVE  DayInv'
  OBVIOUS
<1>s. ASSUME UNCHANGED prices
      PROVE  \A p \in Product : Kept(p)
  BY <1>s, PricesKept
<1>1. CASE Screens \/ \E w \in Web : Edits(w)
  <2>1. CASE UNCHANGED <<prices, job, ghosts>>
    BY <1>s, <2>1, AsideDay DEF ghosts
  <2>2. ASSUME NEW ps \in SUBSET Product, prices' = {x \in prices : x[1] \notin ps}, Forget(ps)
        PROVE  DayInv'
    <3>1. \A q \in Product \ ps : Kept(q)
      BY <2>2, PricesKept
    <3> QED
      BY <2>2, <3>1, ForgetDay
  <2> QED
    BY <1>1, <2>1, <2>2, ScreensEffects
<1>2. CASE AdminPrices
  <2>1. ASSUME NEW p \in Product, NEW d \in Day, AdminPrice(p, d)
        PROVE  DayInv'
    <3>1. UNCHANGED <<job, completed>> /\ prices \subseteq prices'
      BY <2>1 DEF AdminPrice
    <3>2. \A q \in Product : Kept(q)
      BY <3>1, PricesKept
    <3> QED
      BY <3>1, <3>2, AsideDay
  <2>2. ASSUME NEW p \in Product, NEW d \in Day,
               prices \ {<<p, d>>} \subseteq prices', Forget({p})
        PROVE  DayInv'
    <3>1. \A q \in Product \ {p} : Kept(q)
      BY <2>2, PricesKept
    <3> QED
      BY <2>2, <3>1, ForgetDay
  <2>3. ASSUME NEW p \in Product, NEW d \in Day, AdminPriceDelete(p, d)
        PROVE  DayInv'
    BY <2>2, <2>3 DEF AdminPriceDelete
  <2>4. ASSUME NEW p \in Product, NEW d \in Day, NEW q \in Product, NEW e \in Day,
               AdminPriceEdit(p, d, q, e)
        PROVE  DayInv'
    BY <2>2, <2>4 DEF AdminPriceEdit
  <2> QED
    BY <1>2, <2>1, <2>3, <2>4 DEF AdminPrices
<1>3. CASE NextDay
  <2>1. UNCHANGED prices /\ UNCHANGED <<job, completed>>
    BY <1>3 DEF NextDay, tables, ghosts
  <2> QED
    BY <1>s, <2>1, AsideDay
<1>4. ASSUME NEW w \in Worker, Task(w)
      PROVE  DayInv'
  <2>1. CASE WorkerDies(w)
    <3>1. /\ UNCHANGED prices /\ UNCHANGED completed
          /\ job' = [job EXCEPT ![w] = Idle]
      BY <2>1 DEF WorkerDies, tables
    <3>2. job'[w] = Idle /\ \A v \in Worker \ {w} : job'[v] = job[v]
      BY <3>1 DEF TypeOK
    <3> QED
      BY <1>s, <3>1, <3>2, DayKept
  <2> QED
    BY <1>4, <2>1, StartDay, VisitDay, CreateDay, EndDay DEF Task
<1>5. CASE UNCHANGED vars
  <2>1. UNCHANGED prices /\ UNCHANGED <<job, completed>>
    BY <1>5 DEF vars, tables, ghosts
  <2> QED
    BY <1>s, <2>1, AsideDay
<1> QED
  BY <1>1, <1>2, <1>3, <1>4, <1>5 DEF Next

\* A refresh that comes to its end has advanced every product it had to, whatever overlapped.
THEOREM RefreshAdvances == Spec => []DayCompleted
<1>1. TypeOK /\ DayInv => DayCompleted
  BY DEF TypeOK, DayInv, Settled, Advanced, DayCompleted
<1>2. TypeOK /\ DayInv /\ [Next]_vars => TypeOK' /\ DayInv'
  BY StepTypes, StepDay
<1> QED
  BY InitTypes, InitDay, <1>1, <1>2, PTL DEF Spec

(***************************************************************************)
(* Of the refreshes of a day one comes to its end.                         *)
(***************************************************************************)

\* Refresh j, of day d, is about to look at a product, or to insert a price that is not there.
Leads(j, d) == j # Idle /\ j.date = d /\ (j.at = "create" => <<j.p, d>> \notin prices)
LeadsAfter(j, d) == j # Idle /\ j.date = d /\ (j.at = "create" => <<j.p, d>> \notin prices')

\* Of the refreshes of a day there is always one that leads, until one has ended: the one that
\* inserted the last price of the day, or any if there is none yet.
OneInv ==
  \A d \in Day : refreshes[d] > 0 /\ d \notin spoiled /\ d \notin finished =>
    \E w \in Worker : Leads(job[w], d)

LEMMA OneKept ==
  ASSUME OneInv, UNCHANGED refreshes, spoiled \subseteq spoiled', finished \subseteq finished',
         \A d \in Day, w \in Worker :
           d \notin spoiled' /\ d \notin finished' /\ Leads(job[w], d)
             => \E v \in Worker : LeadsAfter(job'[v], d)
  PROVE  OneInv'
<1>1. ASSUME NEW d \in Day, refreshes'[d] > 0, d \notin spoiled', d \notin finished'
      PROVE  \E v \in Worker : LeadsAfter(job'[v], d)
  <2>1. PICK w \in Worker : Leads(job[w], d)
    BY <1>1 DEF OneInv
  <2> QED
    BY <1>1, <2>1
<1> QED
  BY <1>1 DEF OneInv, Leads, LeadsAfter

LEMMA AsideOne ==
  ASSUME OneInv, UNCHANGED <<job, refreshes, finished, spoiled>>, prices' \subseteq prices
  PROVE  OneInv'
<1>1. \A d \in Day, w \in Worker : Leads(job[w], d) => LeadsAfter(job'[w], d)
  BY DEF Leads, LeadsAfter
<1> QED
  BY <1>1, OneKept

\* A price of the admin is of a day without refreshes, or spoils the day.
LEMMA MeddledOne ==
  ASSUME NEW e \in Day, Meddled(e)
  PROVE  /\ spoiled \subseteq spoiled'
         /\ \A w \in Worker : job[w] # Idle /\ job[w].date = e => e \in spoiled'
  BY DEF Meddled

LEMMA PriceOne ==
  ASSUME OneInv, NEW p \in Product, NEW e \in Day, AdminPrice(p, e)
  PROVE  OneInv'
<1>1. prices' = prices \cup {<<p, e>>} /\ UNCHANGED <<job, refreshes, finished>> /\ Meddled(e)
  BY DEF AdminPrice
<1>2. ASSUME NEW d \in Day, NEW w \in Worker, d \notin spoiled', Leads(job[w], d)
      PROVE  LeadsAfter(job'[w], d)
  <2>1. d # e
    BY <1>1, <1>2, MeddledOne DEF Leads
  <2> QED
    BY <1>1, <1>2, <2>1 DEF Leads, LeadsAfter
<1> QED
  BY <1>1, <1>2, OneKept, MeddledOne

\* What is forgotten of a refresh does not matter here.
LEMMA ForgetOne ==
  ASSUME TypeOK, OneInv, NEW ps, Forget(ps), UNCHANGED <<refreshes, finished>>,
         spoiled \subseteq spoiled',
         \A w \in Worker : job[w] # Idle /\ job[w].date \notin spoiled' =>
           \A x \in prices' : x[2] = job[w].date => x \in prices
  PROVE  OneInv'
<1>1. job' = [w \in Worker |-> IF job[w] = Idle THEN Idle ELSE [job[w] EXCEPT !.due = @ \ ps]]
  BY DEF Forget
<1>2. ASSUME NEW d \in Day, NEW w \in Worker, d \notin spoiled', Leads(job[w], d)
      PROVE  LeadsAfter(job'[w], d)
  <2>1. job[w] # Idle /\ job[w] \in Refresh /\ job[w].date = d
    BY <1>2 DEF Leads, TypeOK
  <2>2. job'[w] = [job[w] EXCEPT !.due = @ \ ps]
    BY <1>1, <2>1
  <2>3. /\ job'[w].at = job[w].at /\ job'[w].date = job[w].date /\ job'[w] # Idle
        /\ job[w].at = "create" => job'[w].p = job[w].p
    BY <2>1, <2>2 DEF Refresh, Idle
  <2>4. job[w].at = "create" => <<job[w].p, d>> \notin prices'
    BY <1>2, <2>1 DEF Leads
  <2> QED
    BY <2>1, <2>3, <2>4 DEF LeadsAfter
<1> QED
  BY <1>2, OneKept

LEMMA AdminPricesOne == TypeOK /\ OneInv /\ AdminPrices => OneInv'
<1> SUFFICES ASSUME TypeOK, OneInv, AdminPrices
             PROVE  OneInv'
  OBVIOUS
<1>1. ASSUME NEW p \in Product, NEW d \in Day, AdminPriceDelete(p, d)
      PROVE  OneInv'
  <2>1. /\ Forget({p}) /\ UNCHANGED <<refreshes, finished, spoiled>> /\ prices' \subseteq prices
    BY <1>1 DEF AdminPriceDelete
  <2> QED
    BY <2>1, ForgetOne
<1>2. ASSUME NEW p \in Product, NEW d \in Day, NEW q \in Product, NEW e \in Day,
             AdminPriceEdit(p, d, q, e)
      PROVE  OneInv'
  <2>1. /\ Forget({p}) /\ UNCHANGED <<refreshes, finished>> /\ Meddled(e)
        /\ prices' \subseteq prices \cup {<<q, e>>}
    BY <1>2 DEF AdminPriceEdit
  <2>2. ASSUME NEW w \in Worker, job[w] # Idle, job[w].date \notin spoiled',
               NEW x \in prices', x[2] = job[w].date
        PROVE  x \in prices
    <3>1. job[w].date # e
      BY <2>1, <2>2, MeddledOne
    <3> QED
      BY <2>1, <2>2, <3>1
  <2>3. spoiled \subseteq spoiled'
    BY <2>1, MeddledOne
  <2> QED
    BY <2>1, <2>2, <2>3, ForgetOne
<1> QED
  BY <1>1, <1>2, PriceOne DEF AdminPrices

LEMMA StartOne ==
  ASSUME TypeOK, OneInv, NEW w \in Worker, StartRefresh(w)
  PROVE  OneInv'
<1> DEFINE j == [at |-> "visit", date |-> today, todo |-> Listed,
                 due |-> {p \in Listed : Latest(p) # {}}]
<1>1. /\ job[w] = Idle /\ UNCHANGED <<prices, finished, spoiled>> /\ job' = [job EXCEPT ![w] = j]
      /\ refreshes' = [refreshes EXCEPT ![today] = @ + 1]
  BY DEF StartRefresh, tables
<1>2. job'[w] = j /\ \A v \in Worker \ {w} : job'[v] = job[v]
  BY <1>1 DEF TypeOK
<1>3. LeadsAfter(j, today)
  BY DEF LeadsAfter, Idle
<1> HIDE DEF j
<1>4. ASSUME NEW d \in Day, refreshes'[d] > 0, d \notin spoiled', d \notin finished'
      PROVE  \E v \in Worker : LeadsAfter(job'[v], d)
  <2>1. CASE d = today
    BY <1>2, <1>3, <2>1
  <2>2. CASE d # today
    <3>1. refreshes'[d] = refreshes[d]
      BY <1>1, <2>2 DEF TypeOK
    <3>2. PICK v \in Worker : Leads(job[v], d)
      BY <1>1, <1>4, <3>1 DEF OneInv
    <3>3. job'[v] = job[v]
      BY <1>1, <1>2, <3>2 DEF Leads
    <3>4. LeadsAfter(job[v], d)
      BY <1>1, <3>2 DEF Leads, LeadsAfter
    <3> QED
      BY <3>3, <3>4
  <2> QED
    BY <2>1, <2>2
<1> QED
  BY <1>4 DEF OneInv, Leads, LeadsAfter

LEMMA VisitOne ==
  ASSUME TypeOK, OneInv, NEW w \in Worker, NEW p \in Product, VisitProduct(w, p)
  PROVE  OneInv'
<1>1. /\ UNCHANGED <<prices, refreshes, finished, spoiled>> /\ job[w].at = "visit" /\ Visit(w, p)
  BY DEF VisitProduct, tables, ghosts
<1>2. job[w] \in Refresh /\ job[w].date \in Day /\ job \in [Worker -> {Idle} \cup Refresh]
  BY <1>1 DEF TypeOK, Idle, Refresh
<1>3. \A v \in Worker \ {w} : job'[v] = job[v]
  BY <1>1, <1>2 DEF Visit
<1>4. LeadsAfter(job'[w], job[w].date)
  <2>1. CASE SkipsProduct(p, job[w].date)
    <3>1. job'[w] = [at |-> "visit", date |-> job[w].date, todo |-> job[w].todo \ {p},
                     due |-> job[w].due]
      BY <1>1, <1>2, <2>1 DEF Visit
    <3> QED
      BY <3>1 DEF LeadsAfter, Idle
  <2>2. CASE ~ SkipsProduct(p, job[w].date)
    <3>1. job'[w] = [at |-> "create", date |-> job[w].date, todo |-> job[w].todo \ {p},
                     due |-> job[w].due, p |-> p]
      BY <1>1, <1>2, <2>2 DEF Visit
    <3>2. job[w].date >= job[w].date
      BY <1>2 DEF Day
    <3>3. <<p, job[w].date>> \notin prices
      BY <1>2, <2>2, <3>2, LatestIs DEF SkipsProduct
    <3> QED
      BY <1>1, <3>1, <3>3 DEF LeadsAfter, Idle
  <2> QED
    BY <2>1, <2>2
<1>5. \A d \in Day, v \in Worker : Leads(job[v], d) => \E u \in Worker : LeadsAfter(job'[u], d)
  BY <1>1, <1>3, <1>4 DEF Leads, LeadsAfter
<1> QED
  BY <1>1, <1>5, OneKept

\* Who inserts a price leads from then on; who meets one has not led, or its product is gone.
LEMMA CreateOne ==
  ASSUME TypeOK, OneInv, NEW w \in Worker, CreatePrice(w)
  PROVE  OneInv'
<1>1. /\ job[w] \in Refresh /\ job[w].at = "create" /\ job \in [Worker -> {Idle} \cup Refresh]
      /\ UNCHANGED <<refreshes, finished>>
  BY DEF TypeOK, CreatePrice, Idle, Refresh
<1>2. CASE There(product[job[w].p]) /\ ~ Exists(job[w].p, job[w].date)
  <2> DEFINE j == [at |-> "visit", date |-> job[w].date, todo |-> job[w].todo, due |-> job[w].due]
  <2>1. /\ prices' = prices \cup {<<job[w].p, job[w].date>>} /\ UNCHANGED spoiled
        /\ job' = [job EXCEPT ![w] = j]
    BY <1>2 DEF CreatePrice
  <2>2. job'[w] = j /\ \A v \in Worker \ {w} : job'[v] = job[v]
    BY <1>1, <2>1
  <2>3. LeadsAfter(j, job[w].date)
    BY DEF LeadsAfter, Idle
  <2> HIDE DEF j
  <2>4. ASSUME NEW d \in Day, NEW v \in Worker, Leads(job[v], d)
        PROVE  \E u \in Worker : LeadsAfter(job'[u], d)
    <3>1. CASE d = job[w].date
      BY <2>2, <2>3, <3>1
    <3>2. CASE d # job[w].date
      <4>1. job'[v] = job[v]
        BY <2>2, <2>4, <3>2 DEF Leads
      <4> QED
        BY <2>1, <2>4, <3>2, <4>1 DEF Leads, LeadsAfter
    <3> QED
      BY <3>1, <3>2
  <2> QED
    BY <1>1, <2>1, <2>4, OneKept
<1>3. CASE ~ (There(product[job[w].p]) /\ ~ Exists(job[w].p, job[w].date))
  <2>1. /\ job' = [job EXCEPT ![w] = Idle] /\ UNCHANGED prices /\ spoiled \subseteq spoiled'
        /\ ~ There(product[job[w].p]) => job[w].date \in spoiled'
    BY <1>3 DEF CreatePrice
  <2>2. \A v \in Worker \ {w} : job'[v] = job[v]
    BY <1>1, <2>1
  <2>3. ASSUME NEW d \in Day, NEW v \in Worker, d \notin spoiled', Leads(job[v], d)
        PROVE  LeadsAfter(job'[v], d)
    <3>1. v # w
      BY <1>1, <1>3, <2>1, <2>3 DEF Leads, Exists
    <3> QED
      BY <2>1, <2>2, <2>3, <3>1 DEF Leads, LeadsAfter
  <2> QED
    BY <1>1, <2>1, <2>3, OneKept
<1> QED
  BY <1>2, <1>3

\* A refresh that is over was of a day that has one finished, or one that died.
LEMMA OverOne ==
  ASSUME TypeOK, OneInv, NEW w \in Worker, EndRefresh(w) \/ WorkerDies(w)
  PROVE  OneInv'
<1>1. /\ UNCHANGED <<prices, refreshes>> /\ job' = [job EXCEPT ![w] = Idle]
      /\ spoiled \subseteq spoiled' /\ finished \subseteq finished'
      /\ job[w].date \in spoiled' \cup finished'
  BY DEF EndRefresh, WorkerDies, tables
<1>2. \A v \in Worker \ {w} : job'[v] = job[v]
  BY <1>1 DEF TypeOK
<1>3. ASSUME NEW d \in Day, NEW v \in Worker, d \notin spoiled', d \notin finished', Leads(job[v], d)
      PROVE  LeadsAfter(job'[v], d)
  BY <1>1, <1>2, <1>3 DEF Leads, LeadsAfter
<1> QED
  BY <1>1, <1>3, OneKept

LEMMA StepOne == TypeOK /\ TypeOK' /\ OneInv /\ [Next]_vars => OneInv'
<1> SUFFICES ASSUME TypeOK, TypeOK', OneInv, [Next]_vars
             PROVE  OneInv'
  OBVIOUS
<1>1. CASE Screens \/ \E w \in Web : Edits(w)
  <2>1. CASE UNCHANGED <<prices, job, ghosts>>
    BY <2>1, AsideOne DEF ghosts
  <2>2. ASSUME NEW ps \in SUBSET Product, prices' = {x \in prices : x[1] \notin ps}, Forget(ps),
               UNCHANGED <<refreshes, finished, spoiled>>
        PROVE  OneInv'
    BY <2>2, ForgetOne
  <2> QED
    BY <1>1, <2>1, <2>2, ScreensEffects
<1>p. CASE AdminPrices
  BY <1>p, AdminPricesOne
<1>2. CASE NextDay
  BY <1>2, AsideOne DEF NextDay, tables, ghosts
<1>3. ASSUME NEW w \in Worker, Task(w)
      PROVE  OneInv'
  BY <1>3, StartOne, VisitOne, CreateOne, OverOne DEF Task
<1>4. CASE UNCHANGED vars
  BY <1>4, AsideOne DEF vars, tables, ghosts
<1> QED
  BY <1>1, <1>p, <1>2, <1>3, <1>4 DEF Next

\* Refreshes of a day that collide never all stop: when all are over, and nothing else had come
\* between, one of them came to its end.
THEOREM OneRefreshFinishes == Spec => []OneFinishes
<1>1. Init => OneInv
  BY DEF Init, OneInv
<1>2. OneInv => OneFinishes
  BY DEF OneInv, OneFinishes, Leads
<1>3. TypeOK /\ OneInv /\ [Next]_vars => TypeOK' /\ OneInv'
  BY StepTypes, StepOne
<1> QED
  BY InitTypes, <1>1, <1>2, <1>3, PTL DEF Spec

(***************************************************************************)
(* What the form stores is stored again as it is.                          *)
(***************************************************************************)

\* What Get, Keep, Merge and Set make of each other.
LEMMA GetKept ==
  ASSUME NEW f, NEW N, NEW k \in N, NEW d
  PROVE  Get(Keep(f, N), k, d) = Get(f, k, d)
  BY DEF Get, Keep, Restrict

LEMMA KeptTwice ==
  ASSUME NEW f, NEW M, NEW N, N \subseteq M
  PROVE  Keep(Keep(f, M), N) = Keep(f, N)
  BY DEF Keep, Restrict

LEMMA GetSet ==
  ASSUME NEW k, NEW v, NEW g, NEW d
  PROVE  Get(Merge(Set(k, v), g), k, d) = v
  BY DEF Get, Merge, Set

LEMMA GetBeside ==
  ASSUME NEW f, NEW g, NEW k, k \notin DOMAIN f, NEW d
  PROVE  Get(Merge(f, g), k, d) = Get(g, k, d)
  BY DEF Get, Merge

LEMMA KeepBeside ==
  ASSUME NEW k, NEW v, NEW g, NEW N, k \notin N
  PROVE  Keep(Merge(Set(k, v), g), N) = Keep(g, N)
  BY DEF Keep, Restrict, Merge, Set

\* The fields the form fills in are all it looks at.
LEMMA ShownSuffices ==
  ASSUME NEW kind \in Kind, NEW m
  PROVE  clean(kind, Shown(m)) = clean(kind, m) /\ (Accepted(kind, Shown(m)) <=> Accepted(kind, m))
<1> DEFINE All == mapping \cup {"cashflows"}
           f == Keep(m, All)
<1>1. /\ {"volatility", "leverage", "discount_rate", "cashflows"} \subseteq All
      /\ {"current_price", "shares"} \subseteq All /\ BondFields \subseteq All
      /\ {"base_price"} \subseteq All /\ {"cashflows"} \subseteq All
  BY DEF mapping, BondFields
<1>2. Shown(m) = f
  BY DEF Shown
<1>3. \A k \in All : \A d : Get(f, k, d) = Get(m, k, d)
  BY GetKept
<1>4. \A N : N \subseteq All => Keep(f, N) = Keep(m, N)
  BY KeptTwice
<1>5. BondFields \subseteq DOMAIN f <=> BondFields \subseteq DOMAIN m
  BY <1>1 DEF Keep, Restrict
<1> HIDE DEF f, All
<1>6. Get(f, "cashflows", <<>>) = Get(m, "cashflows", <<>>)
  BY <1>1, <1>3
<1>7. Accepted(kind, f) <=> Accepted(kind, m)
  BY <1>5, <1>6 DEF Accepted
<1>8. /\ Get(f, "volatility", 0) = Get(m, "volatility", 0)
      /\ Get(f, "leverage", 0) = Get(m, "leverage", 0)
      /\ Get(f, "discount_rate", 0) = Get(m, "discount_rate", 0)
  BY <1>1, <1>3
<1>9. /\ Keep(f, {"current_price", "shares"}) = Keep(m, {"current_price", "shares"})
      /\ Keep(f, BondFields) = Keep(m, BondFields)
      /\ Keep(f, {"base_price"}) = Keep(m, {"base_price"})
      /\ Keep(f, {"cashflows"}) = Keep(m, {"cashflows"})
  BY <1>1, <1>4
<1>10. clean(kind, f) = clean(kind, m)
  BY <1>8, <1>9 DEF clean
<1> QED
  BY <1>2, <1>7, <1>10

\* A default takes the place of a zero once: what it put there stands.
LEMMA DefaultStands ==
  ASSUME NEW x, NEW d
  PROVE  Or(Or(x, d), d) = Or(x, d)
  BY DEF Or

\* The form takes what it has stored, and stores it again.
LEMMA CleanStands ==
  ASSUME NEW kind \in Kind, NEW f, Accepted(kind, f)
  PROVE  Accepted(kind, clean(kind, f)) /\ clean(kind, clean(kind, f)) = clean(kind, f)
<1> DEFINE c == clean(kind, f)
<1>1. CASE kind = "STOCK"
  <2> DEFINE v == Or(Get(f, "volatility", 0), Default.stock_volatility)
             k == Keep(f, {"current_price", "shares"})
  <2>1. c = Merge(Set("volatility", v), k)
    BY <1>1 DEF clean
  <2>2. clean(kind, c) = Merge(Set("volatility", Or(Get(c, "volatility", 0), Default.stock_volatility)),
                               Keep(c, {"current_price", "shares"}))
    BY <1>1 DEF clean
  <2>3. Or(v, Default.stock_volatility) = v
    BY DefaultStands
  <2>4. Keep(k, {"current_price", "shares"}) = k
    BY KeptTwice
  <2>5. Accepted(kind, c)
    BY <1>1 DEF Accepted
  <2> HIDE DEF v, k, c
  <2>6. Get(c, "volatility", 0) = v
    BY <2>1, GetSet
  <2>7. Keep(c, {"current_price", "shares"}) = k
    BY <2>1, <2>4, KeepBeside
  <2> QED
    BY <2>1, <2>2, <2>3, <2>5, <2>6, <2>7 DEF c
<1>2. CASE kind = "BOND"
  <2>1. c = Keep(f, BondFields) /\ clean(kind, c) = Keep(c, BondFields)
    BY <1>2 DEF clean
  <2>2. BondFields \subseteq DOMAIN f
    BY <1>2 DEF Accepted
  <2>3. DOMAIN Keep(f, BondFields) = BondFields
    BY <2>2 DEF Keep, Restrict
  <2> HIDE DEF c
  <2>4. Accepted(kind, c)
    BY <1>2, <2>1, <2>3 DEF Accepted
  <2>5. Keep(c, BondFields) = c
    BY <2>1, KeptTwice
  <2> QED
    BY <2>1, <2>4, <2>5 DEF c
<1>3. CASE kind = "DERIV"
  <2> DEFINE v == Or(Get(f, "volatility", 0), Default.deriv_volatility)
             l == Or(Get(f, "leverage", 0), 1)
             k == Keep(f, {"base_price"})
             rest == Merge(Set("leverage", l), k)
  <2>1. c = Merge(Set("volatility", v), rest)
    BY <1>3 DEF clean
  <2>2. clean(kind, c) = Merge(Set("volatility", Or(Get(c, "volatility", 0), Default.deriv_volatility)),
                         Merge(Set("leverage", Or(Get(c, "leverage", 0), 1)), Keep(c, {"base_price"})))
    BY <1>3 DEF clean
  <2>3. Or(v, Default.deriv_volatility) = v /\ Or(l, 1) = l
    BY DefaultStands
  <2>4. Keep(k, {"base_price"}) = k
    BY KeptTwice
  <2>5. Accepted(kind, c)
    BY <1>3 DEF Accepted
  <2> HIDE DEF v, l, k, c
  <2>6. Get(c, "volatility", 0) = v
    BY <2>1, GetSet
  <2>7. "leverage" \notin DOMAIN Set("volatility", v)
    BY DEF Set
  <2>8. Get(c, "leverage", 0) = Get(rest, "leverage", 0)
    <3> HIDE DEF rest
    <3> QED
      BY <2>1, <2>7, GetBeside
  <2>9. Get(rest, "leverage", 0) = l
    BY GetSet
  <2>10. Keep(c, {"base_price"}) = Keep(rest, {"base_price"})
    <3> HIDE DEF rest
    <3> QED
      BY <2>1, KeepBeside
  <2>11. Keep(rest, {"base_price"}) = k
    BY <2>4, KeepBeside
  <2> QED
    BY <2>1, <2>2, <2>3, <2>5, <2>6, <2>8, <2>9, <2>10, <2>11 DEF c
<1>4. CASE kind = "PROJECT"
  <2> DEFINE v == Or(Get(f, "discount_rate", 0), Default.discount_rate)
             k == Keep(f, {"cashflows"})
  <2>1. c = Merge(Set("discount_rate", v), k)
    BY <1>4 DEF clean
  <2>2. clean(kind, c) = Merge(Set("discount_rate", Or(Get(c, "discount_rate", 0), Default.discount_rate)),
                               Keep(c, {"cashflows"}))
    BY <1>4 DEF clean
  <2>3. Or(v, Default.discount_rate) = v
    BY DefaultStands
  <2>4. Keep(k, {"cashflows"}) = k
    BY KeptTwice
  <2>5. Get(k, "cashflows", <<>>) = Get(f, "cashflows", <<>>)
    BY GetKept
  <2> HIDE DEF v, k, c
  <2>6. Get(c, "discount_rate", 0) = v
    BY <2>1, GetSet
  <2>7. Keep(c, {"cashflows"}) = k
    BY <2>1, <2>4, KeepBeside
  <2>8. "cashflows" \notin DOMAIN Set("discount_rate", v)
    BY DEF Set
  <2>9. Get(c, "cashflows", <<>>) = Get(f, "cashflows", <<>>)
    BY <2>1, <2>5, <2>8, GetBeside
  <2>10. Accepted(kind, c)
    BY <1>4, <2>9 DEF Accepted
  <2> QED
    BY <2>1, <2>2, <2>3, <2>6, <2>7, <2>10 DEF c
<1> QED
  BY <1>1, <1>2, <1>3, <1>4 DEF Kind

\* What the form writes it would write again.
LEMMA FormRowRewritten ==
  ASSUME NEW f \in Portfolio, NEW i \in FormInput, Accepted(i.kind, i.fields)
  PROVE  Rewritten(FormRow(f, i))
<1>1. i.kind \in Kind
  BY MarketAssumption
<1> DEFINE c == clean(i.kind, i.fields)
<1>2. Accepted(i.kind, c) /\ clean(i.kind, c) = c
  BY <1>1, CleanStands
<1>3. FormRow(f, i) = [st |-> "there", portfolio |-> f, kind |-> i.kind, notional |-> i.notional,
                       book_value |-> i.book_value, metrics_json |-> c, by_form |-> TRUE]
  BY DEF FormRow
<1> HIDE DEF c
<1> QED
  BY <1>2, <1>3 DEF Rewritten, FormRow

\* A product the form wrote last is as the form would write it.
FormInv == \A p \in Product : There(product[p]) /\ product[p].by_form => Rewritten(product[p])

LEMMA InitForm == Init => FormInv
<1> SUFFICES ASSUME Init
             PROVE  FormInv
  OBVIOUS
<1>1. PICK s \in Start : product = s.product
  BY DEF Init
<1>2. \A p \in Product : There(s.product[p]) /\ s.product[p].by_form => Rewritten(s.product[p])
  BY MarketAssumption
<1> QED
  BY <1>1, <1>2 DEF FormInv

LEMMA SavedForm ==
  ASSUME TypeOK, FormInv, NEW p \in Product, NEW r, product' = [product EXCEPT ![p] = r],
         There(r) /\ r.by_form => Rewritten(r)
  PROVE  FormInv'
<1>1. product'[p] = r /\ \A q \in Product \ {p} : product'[q] = product[q]
  BY DEF TypeOK
<1>2. ASSUME NEW q \in Product, There(product'[q]), product'[q].by_form
      PROVE  Rewritten(product'[q])
  BY <1>1, <1>2 DEF FormInv
<1> QED
  BY <1>2 DEF FormInv

LEMMA TakenForm ==
  ASSUME FormInv, NEW ps, Cascade(ps)
  PROVE  FormInv'
<1>1. \A q \in Product : product'[q] \in {Gone, product[q]}
  BY DEF Cascade
<1>2. ASSUME NEW q \in Product, There(product'[q]), product'[q].by_form
      PROVE  Rewritten(product'[q])
  <2>1. product'[q] = product[q]
    BY <1>1, <1>2 DEF There, Gone
  <2> QED
    BY <1>2, <2>1 DEF FormInv
<1> QED
  BY <1>2 DEF FormInv

LEMMA StepForm == TypeOK /\ FormInv /\ [Next]_vars => FormInv'
<1> SUFFICES ASSUME TypeOK, FormInv, [Next]_vars
             PROVE  FormInv'
  OBVIOUS
<1>u. ASSUME UNCHANGED product
      PROVE  FormInv'
  BY <1>u DEF FormInv
<1>1. ASSUME NEW p \in Product, NEW f \in Portfolio, NEW i \in FormInput,
             Accepted(i.kind, i.fields), product' = [product EXCEPT ![p] = FormRow(f, i)]
      PROVE  FormInv'
  BY <1>1, FormRowRewritten, SavedForm
<1>2. ASSUME NEW p \in Product, NEW f \in Portfolio, NEW i \in AdminInput,
             product' = [product EXCEPT ![p] = AdminRow(f, i)]
      PROVE  FormInv'
  <2>1. AdminRow(f, i).by_form = FALSE
    BY AdminRowTyped
  <2> QED
    BY <1>2, <2>1, SavedForm
<1>3. ASSUME NEW f \in Portfolio, portfolio_delete(f)
      PROVE  FormInv'
  <2>1. Cascade({p \in Product : There(product[p]) /\ product[p].portfolio = f})
    BY <1>3 DEF portfolio_delete
  <2> QED
    BY <2>1, TakenForm
<1>4. ASSUME NEW p \in Product, product_delete(p)
      PROVE  FormInv'
  <2>1. Cascade({p})
    BY <1>4 DEF product_delete
  <2> QED
    BY <2>1, TakenForm
<1>5. CASE Screens
  BY <1>1, <1>2, <1>3, <1>4, <1>5, <1>u
     DEF Screens, portfolio_create, product_create, AdminProduct
<1>6. ASSUME NEW w \in Web, Edits(w)
      PROVE  FormInv'
  <2>1. form[w].at = "product" => form[w].p \in Product
    BY DEF TypeOK, Editing, Idle
  <2>2. ASSUME NEW f \in Portfolio, NEW i \in FormInput, product_update(w, f, i)
        PROVE  FormInv'
    BY <1>1, <2>1, <2>2 DEF product_update
  <2>3. ASSUME NEW f \in Portfolio, NEW i \in AdminInput, AdminProductEdit(w, f, i)
        PROVE  FormInv'
    BY <1>2, <2>1, <2>3 DEF AdminProductEdit
  <2>4. CASE UNCHANGED product
    BY <1>u, <2>4
  <2> QED
    BY <1>6, <2>2, <2>3, <2>4
       DEF Edits, LoadPortfolio, LoadProduct, Load, AbandonEdit, portfolio_update, tables
<1>7. CASE AdminPrices
  BY <1>u, <1>7 DEF AdminPrices, AdminPrice, AdminPriceDelete, AdminPriceEdit
<1>8. CASE NextDay
  BY <1>u, <1>8 DEF NextDay, tables
<1>9. ASSUME NEW w \in Worker, Task(w)
      PROVE  FormInv'
  BY <1>u, <1>9 DEF Task, StartRefresh, VisitProduct, CreatePrice, EndRefresh, WorkerDies, tables
<1>10. CASE UNCHANGED vars
  BY <1>u, <1>10 DEF vars, tables
<1> QED
  BY <1>5, <1>6, <1>7, <1>8, <1>9, <1>10 DEF Next

(***************************************************************************)
(* What the worth of a product depends on.                                 *)
(***************************************************************************)

\* m and g have the same under k, or both nothing.
SameAt(m, g, k) == (k \in DOMAIN m <=> k \in DOMAIN g) /\ (k \in DOMAIN m => m[k] = g[k])

LEMMA SameGet ==
  ASSUME NEW m, NEW g, NEW k, SameAt(m, g, k), NEW d
  PROVE  Get(m, k, d) = Get(g, k, d)
  BY DEF SameAt, Get

LEMMA StockWorth ==
  ASSUME NEW r, NEW q, r.kind = "STOCK", q.kind = "STOCK", r.notional = q.notional,
         SameAt(r.metrics_json, q.metrics_json, "current_price"),
         SameAt(r.metrics_json, q.metrics_json, "shares")
  PROVE  compute(r).current_value = compute(q).current_value
<1> DEFINE Worth(p) == IF {"current_price", "shares"} \subseteq DOMAIN p.metrics_json
                         THEN p.metrics_json.current_price * p.metrics_json.shares ELSE p.notional
<1>1. /\ compute(r).current_value = Frac(Worth(r), 1)
      /\ compute(q).current_value = Frac(Worth(q), 1)
  BY DEF compute, ComputeStock, Position, Measures
<1>2. Worth(r) = Worth(q)
  BY DEF SameAt
<1> QED
  BY <1>1, <1>2

LEMMA BondWorth ==
  ASSUME NEW r, NEW q, r.kind = "BOND", q.kind = "BOND", r.notional = q.notional,
         \A k \in BondFields : SameAt(r.metrics_json, q.metrics_json, k)
  PROVE  compute(r).current_value = compute(q).current_value
<1>1. /\ Get(r.metrics_json, "coupon_rate", Default.coupon_rate)
           = Get(q.metrics_json, "coupon_rate", Default.coupon_rate)
      /\ Get(r.metrics_json, "ytm", Default.ytm) = Get(q.metrics_json, "ytm", Default.ytm)
      /\ Get(r.metrics_json, "maturity_years", Default.maturity_years)
           = Get(q.metrics_json, "maturity_years", Default.maturity_years)
      /\ Get(r.metrics_json, "par", Default.par) = Get(q.metrics_json, "par", Default.par)
  BY SameGet DEF BondFields
<1> QED
  BY <1>1 DEF compute, ComputeBond, Measures

LEMMA DerivWorth ==
  ASSUME NEW r, NEW q, r.kind = "DERIV", q.kind = "DERIV", r.notional = q.notional
  PROVE  compute(r).current_value = compute(q).current_value
  BY DEF compute, ComputeDeriv, Position, Measures

LEMMA ProjectWorth ==
  ASSUME NEW r, NEW q, r.kind = "PROJECT", q.kind = "PROJECT", r.notional = q.notional,
         Get(r.metrics_json, "discount_rate", Default.discount_rate)
           = Get(q.metrics_json, "discount_rate", Default.discount_rate),
         Get(r.metrics_json, "cashflows", <<>>) = Get(q.metrics_json, "cashflows", <<>>)
  PROVE  compute(r).current_value = compute(q).current_value
<1>1. Flows(r) = Flows(q)
  BY DEF Flows
<1> QED
  BY <1>1 DEF compute, ComputeProject, Measures

\* The form leaves a product of the admin its worth, but for a discount rate of zero.
LEMMA CleanKeepsWorth ==
  ASSUME NEW r, NEW q, NEW m, r.kind \in Kind, q.kind = r.kind, q.notional = r.notional,
         r.metrics_json = m, q.metrics_json = clean(r.kind, m),
         Accepted(r.kind, m), Get(m, "discount_rate", 1) # 0
  PROVE  compute(q).current_value = compute(r).current_value
<1> DEFINE c == clean(r.kind, m)
<1>1. CASE r.kind = "STOCK"
  <2>1. PICK v : c = Merge(Set("volatility", v), Keep(m, {"current_price", "shares"}))
    BY <1>1 DEF clean
  <2> HIDE DEF c
  <2>2. SameAt(m, c, "current_price") /\ SameAt(m, c, "shares")
    BY <2>1 DEF SameAt, Merge, Set, Keep, Restrict
  <2>3. q.metrics_json = c
    BY DEF c
  <2> QED
    BY <1>1, <2>2, <2>3, StockWorth
<1>2. CASE r.kind = "BOND"
  <2>1. c = Keep(m, BondFields)
    BY <1>2 DEF clean
  <2> HIDE DEF c
  <2>2. \A k \in BondFields : SameAt(m, c, k)
    BY <2>1 DEF SameAt, Keep, Restrict
  <2>3. q.metrics_json = c
    BY DEF c
  <2> QED
    BY <1>2, <2>2, <2>3, BondWorth
<1>3. CASE r.kind = "DERIV"
  BY <1>3, DerivWorth
<1>4. CASE r.kind = "PROJECT"
  <2> DEFINE v == Or(Get(m, "discount_rate", 0), Default.discount_rate)
             k == Keep(m, {"cashflows"})
  <2>1. c = Merge(Set("discount_rate", v), k)
    BY <1>4 DEF clean
  <2>2. v = Get(m, "discount_rate", Default.discount_rate)
    BY DEF Or, Get
  <2>3. Get(k, "cashflows", <<>>) = Get(m, "cashflows", <<>>)
    BY DEF Get, Keep, Restrict
  <2> HIDE DEF c, v, k
  <2>4. Get(c, "discount_rate", Default.discount_rate) = v
    BY <2>1, GetSet
  <2>5. "cashflows" \notin DOMAIN Set("discount_rate", v)
    BY DEF Set
  <2>6. Get(c, "cashflows", <<>>) = Get(m, "cashflows", <<>>)
    BY <2>1, <2>3, <2>5, GetBeside
  <2>7. q.metrics_json = c
    BY DEF c
  <2> QED
    BY <1>4, <2>2, <2>4, <2>6, <2>7, ProjectWorth
<1> QED
  BY <1>1, <1>2, <1>3, <1>4 DEF Kind

LEMMA FormKeeps ==
  ASSUME TypeOK, FormInv
  PROVE  FormKeepsProduct
<1> SUFFICES ASSUME NEW p \in Listed
             PROVE  LET r == product[p]
                        f == Shown(r.metrics_json)
                        again == [r EXCEPT !.metrics_json = clean(r.kind, f)]
                    IN /\ r.by_form => Accepted(r.kind, f) /\ again = r
                       /\ Accepted(r.kind, f) /\ Get(f, "discount_rate", 1) # 0
                            => compute(again).current_value = compute(r).current_value
  BY DEF FormKeepsProduct
<1> DEFINE r == product[p]
           m == r.metrics_json
           f == Shown(m)
           again == [r EXCEPT !.metrics_json = clean(r.kind, f)]
<1>1. p \in Product /\ There(r) /\ ProductRow(r)
  BY DEF Listed, TypeOK, There, New, Gone
<1>2. r.kind \in Kind
  BY <1>1 DEF ProductRow
<1>3. clean(r.kind, f) = clean(r.kind, m) /\ (Accepted(r.kind, f) <=> Accepted(r.kind, m))
  BY <1>2, ShownSuffices
<1>4. Get(f, "discount_rate", 1) = Get(m, "discount_rate", 1)
  <2>1. "discount_rate" \in mapping \cup {"cashflows"}
    BY DEF mapping
  <2> QED
    BY <2>1, GetKept DEF Shown
<1>5. /\ again.kind = r.kind /\ again.notional = r.notional
      /\ again.metrics_json = clean(r.kind, m)
  BY <1>1, <1>3 DEF ProductRow
<1>6. ASSUME r.by_form
      PROVE  Accepted(r.kind, f) /\ again = r
  <2>1. Rewritten(r)
    BY <1>1, <1>6 DEF FormInv
  <2>2. Accepted(r.kind, m)
    BY <2>1 DEF Rewritten
  <2>3. r = [st |-> "there", portfolio |-> r.portfolio, kind |-> r.kind, notional |-> r.notional,
             book_value |-> r.book_value, metrics_json |-> clean(r.kind, m), by_form |-> TRUE]
    BY <2>1 DEF Rewritten, FormRow
  <2>4. again = [r EXCEPT !.metrics_json = clean(r.kind, m)]
    BY <1>3
  <2>5. m = clean(r.kind, m)
    <3> DEFINE c == clean(r.kind, m)
    <3> HIDE DEF c
    <3>1. r = [st |-> "there", portfolio |-> r.portfolio, kind |-> r.kind, notional |-> r.notional,
               book_value |-> r.book_value, metrics_json |-> c, by_form |-> TRUE]
      BY <2>3 DEF c
    <3>2. r.metrics_json = c
      BY <3>1
    <3> QED
      BY <3>2 DEF c
  <2>6. [r EXCEPT !.metrics_json = m] = r
    <3>1. PICK a, b, c, d : r = [st |-> "there", portfolio |-> a, kind |-> b, notional |-> c,
                                 book_value |-> d, metrics_json |-> m, by_form |-> TRUE]
      BY <2>3, <2>5
    <3> QED
      BY <3>1
  <2> QED
    BY <1>3, <2>2, <2>4, <2>5, <2>6
<1>7. ASSUME Accepted(r.kind, f), Get(f, "discount_rate", 1) # 0
      PROVE  compute(again).current_value = compute(r).current_value
  <2> HIDE DEF again, f
  <2>1. Accepted(r.kind, m) /\ Get(m, "discount_rate", 1) # 0
    BY <1>3, <1>4, <1>7
  <2> HIDE DEF r, m
  <2>2. r.metrics_json = m
    BY DEF m
  <2> QED
    BY <1>2, <1>5, <2>1, <2>2, CleanKeepsWorth
<1> QED
  BY <1>6, <1>7

\* A product the form wrote is accepted and stored unchanged when its edit screen is submitted as it
\* is; one of the admin keeps its worth, but for a discount rate of zero (forms.py 114-181).
THEOREM FormKeeping == Spec => []FormKeepsProduct
<1>1. TypeOK /\ FormInv /\ [Next]_vars => TypeOK' /\ FormInv'
  BY StepTypes, StepForm
<1> QED
  BY InitTypes, InitForm, FormKeeps, <1>1, PTL DEF Spec

(***************************************************************************)
(* The scenarios: which shock touches which product.                       *)
(***************************************************************************)

\* A shock is put before what is stored, and what it does not touch stays.
LEMMA Shocked ==
  ASSUME NEW p, DOMAIN p = {"st", "portfolio", "kind", "notional", "book_value", "metrics_json", "by_form"},
         NEW s
  PROVE  /\ _apply_shocks(p, s).kind = p.kind /\ _apply_shocks(p, s).notional = p.notional
         /\ _apply_shocks(p, s).metrics_json =
              Merge(RateShock(p, s), Merge(PriceShock(p, s), Merge(VolatilityShock(p, s), p.metrics_json)))
  BY DEF _apply_shocks

\* Two rows that a merge with the same f, or with names other than k, leaves alike under k.
LEMMA SameMerged ==
  ASSUME NEW f, NEW g, NEW h, NEW k, SameAt(g, h, k)
  PROVE  SameAt(Merge(f, g), Merge(f, h), k)
  BY DEF SameAt, Merge

LEMMA SameBeside ==
  ASSUME NEW f, NEW g, NEW h, NEW k, k \notin DOMAIN f, SameAt(g, h, k)
  PROVE  SameAt(Merge(f, g), h, k) /\ SameAt(g, Merge(f, h), k)
  BY DEF SameAt, Merge

LEMMA ShockDomains ==
  ASSUME NEW p, NEW s
  PROVE  /\ DOMAIN VolatilityShock(p, s) \subseteq {"volatility"}
         /\ DOMAIN PriceShock(p, s) \subseteq {"current_price"}
  BY DEF VolatilityShock, PriceShock, Set

\* Shocks that agree on rates, and on prices, make the same of a product but for its volatility.
LEMMA SameShock ==
  ASSUME NEW p, NEW s, NEW t, NEW k, k # "volatility",
         DOMAIN p = {"st", "portfolio", "kind", "notional", "book_value", "metrics_json", "by_form"},
         RateShock(p, s) = RateShock(p, t), PriceShock(p, s) = PriceShock(p, t)
  PROVE  SameAt(_apply_shocks(p, s).metrics_json, _apply_shocks(p, t).metrics_json, k)
<1> DEFINE R == RateShock(p, s)
           P == PriceShock(p, s)
           V == VolatilityShock(p, s)
           W == VolatilityShock(p, t)
           m == p.metrics_json
<1>1. /\ _apply_shocks(p, s).metrics_json = Merge(R, Merge(P, Merge(V, m)))
      /\ _apply_shocks(p, t).metrics_json = Merge(R, Merge(P, Merge(W, m)))
  BY Shocked
<1>2. k \notin DOMAIN V /\ k \notin DOMAIN W
  BY ShockDomains
<1> HIDE DEF R, P, V, W, m
<1>3. SameAt(m, m, k)
  BY DEF SameAt
<1>4. SameAt(Merge(V, m), m, k)
  BY <1>2, <1>3, SameBeside
<1>5. SameAt(Merge(V, m), Merge(W, m), k)
  BY <1>2, <1>4, SameBeside
<1>6. SameAt(Merge(R, Merge(P, Merge(V, m))), Merge(R, Merge(P, Merge(W, m))), k)
  BY <1>5, SameMerged
<1> QED
  BY <1>1, <1>6

\* Rows that agree but for a volatility are worth the same.
LEMMA SameWorth ==
  ASSUME NEW r, NEW q, r.kind \in Kind, q.kind = r.kind, q.notional = r.notional,
         \A k : k # "volatility" => SameAt(r.metrics_json, q.metrics_json, k)
  PROVE  compute(r).current_value = compute(q).current_value
<1>1. CASE r.kind = "STOCK"
  BY <1>1, StockWorth
<1>2. CASE r.kind = "BOND"
  <2>1. \A k \in BondFields : k # "volatility"
    BY DEF BondFields
  <2> QED
    BY <1>2, <2>1, BondWorth
<1>3. CASE r.kind = "DERIV"
  BY <1>3, DerivWorth
<1>4. CASE r.kind = "PROJECT"
  <2>0. /\ SameAt(r.metrics_json, q.metrics_json, "discount_rate")
        /\ SameAt(r.metrics_json, q.metrics_json, "cashflows")
    OBVIOUS
  <2>1. /\ Get(r.metrics_json, "discount_rate", Default.discount_rate)
             = Get(q.metrics_json, "discount_rate", Default.discount_rate)
        /\ Get(r.metrics_json, "cashflows", <<>>) = Get(q.metrics_json, "cashflows", <<>>)
    BY <2>0, SameGet
  <2> QED
    BY <1>4, <2>1, ProjectWorth
<1> QED
  BY <1>1, <1>2, <1>3, <1>4 DEF Kind

\* A row, p, in a scenario whose shocks are those of another as far as they touch it.
LEMMA SameScenario ==
  ASSUME NEW p, ProductRow(p), NEW s, NEW t,
         RateShock(p, s) = RateShock(p, t), PriceShock(p, s) = PriceShock(p, t)
  PROVE  compute(_apply_shocks(p, s)).current_value = compute(_apply_shocks(p, t)).current_value
<1> DEFINE r == _apply_shocks(p, s)
           q == _apply_shocks(p, t)
<1>1. /\ DOMAIN p = {"st", "portfolio", "kind", "notional", "book_value", "metrics_json", "by_form"}
      /\ p.kind \in Kind
  BY DEF ProductRow
<1>2. r.kind = p.kind /\ q.kind = p.kind /\ r.notional = p.notional /\ q.notional = p.notional
  BY <1>1, Shocked
<1>3. \A k : k # "volatility" => SameAt(r.metrics_json, q.metrics_json, k)
  BY <1>1, SameShock
<1> HIDE DEF r, q
<1>4. compute(r).current_value = compute(q).current_value
  BY <1>1, <1>2, <1>3, SameWorth
<1> QED
  BY <1>4 DEF r, q

\* A scenario that moves neither rates nor prices leaves every product its worth.
LEMMA NoShock ==
  ASSUME NEW p, ProductRow(p), NEW s, RateShock(p, s) = <<>>, PriceShock(p, s) = <<>>
  PROVE  compute(_apply_shocks(p, s)).current_value = compute(p).current_value
<1> DEFINE r == _apply_shocks(p, s)
           V == VolatilityShock(p, s)
           m == p.metrics_json
<1>1. /\ DOMAIN p = {"st", "portfolio", "kind", "notional", "book_value", "metrics_json", "by_form"}
      /\ p.kind \in Kind
  BY DEF ProductRow
<1>2. r.kind = p.kind /\ r.notional = p.notional
  BY <1>1, Shocked
<1>3. r.metrics_json = Merge(<<>>, Merge(<<>>, Merge(V, m)))
  BY <1>1, Shocked
<1>4. ASSUME NEW k, k # "volatility"
      PROVE  SameAt(r.metrics_json, m, k)
  <2>1. k \notin DOMAIN V
    BY <1>4, ShockDomains
  <2> HIDE DEF V, m, r
  <2>2. SameAt(m, m, k)
    BY DEF SameAt
  <2>3. SameAt(Merge(V, m), m, k)
    BY <2>1, <2>2, SameBeside
  <2>4. k \notin DOMAIN <<>>
    OBVIOUS
  <2>5. SameAt(Merge(<<>>, Merge(V, m)), m, k)
    BY <2>3, <2>4, SameBeside
  <2>6. SameAt(Merge(<<>>, Merge(<<>>, Merge(V, m))), m, k)
    BY <2>4, <2>5, SameBeside
  <2> QED
    BY <1>3, <2>6
<1> HIDE DEF r
<1>5. compute(r).current_value = compute(p).current_value
  BY <1>1, <1>2, <1>4, SameWorth
<1> QED
  BY <1>5 DEF r

\* The shocks of the scenarios.
LEMMA TheScenarios ==
  /\ Scenario = {"IR_UP_100", "IR_DOWN_50", "EQUITY_DOWN_20", "EQUITY_DOWN_10", "VOL_UP_50", "VOL_UP_100", "CRISIS"}
  /\ SCENARIOS["IR_UP_100"] = Shock(2, 0, 0) /\ SCENARIOS["IR_DOWN_50"] = Shock(-1, 0, 0)
  /\ SCENARIOS["EQUITY_DOWN_20"] = Shock(0, -2, 0) /\ SCENARIOS["EQUITY_DOWN_10"] = Shock(0, -1, 0)
  /\ SCENARIOS["VOL_UP_50"] = Shock(0, 0, 3) /\ SCENARIOS["VOL_UP_100"] = Shock(0, 0, 4)
  /\ SCENARIOS["CRISIS"] = Shock(2, -2, 3)
  BY DEF Scenario, SCENARIOS

LEMMA Runs ==
  ASSUME NEW ps, NEW s \in Scenario
  PROVE  /\ run_all(ps)[s].base_var = VaR([k \in DOMAIN ps |-> compute(ps[k])])
         /\ \A p \in DOMAIN ps :
              /\ run_all(ps)[s].base[p] = compute(ps[p]).current_value
              /\ run_all(ps)[s].stressed[p] = compute(_apply_shocks(ps[p], SCENARIOS[s])).current_value
  BY DEF run_all, run_scenario, Compared

LEMMA OneShock ==
  ASSUME NEW ps, \A p \in DOMAIN ps : ProductRow(ps[p])
  PROVE  OwnShock(ps, run_all(ps)) /\ SameStart(run_all(ps))
<1> DEFINE all == run_all(ps)
<1>1. ASSUME NEW p \in DOMAIN ps
      PROVE  /\ all["CRISIS"].stressed[p]
                  = all[IF ps[p].kind = "STOCK" THEN "EQUITY_DOWN_20" ELSE "IR_UP_100"].stressed[p]
             /\ all["VOL_UP_50"].stressed[p] = all["VOL_UP_50"].base[p]
  <2> DEFINE r == ps[p]
             Under(s) == compute(_apply_shocks(r, SCENARIOS[s])).current_value
  <2>1. ProductRow(r)
    OBVIOUS
  <2>2. \A s \in Scenario : all[s].stressed[p] = Under(s) /\ all[s].base[p] = compute(r).current_value
    BY Runs
  <2> HIDE DEF all, r
  <2>3. ASSUME r.kind = "STOCK"
        PROVE  all["CRISIS"].stressed[p] = all["EQUITY_DOWN_20"].stressed[p]
    <3>1. /\ RateShock(r, Shock(2, -2, 3)) = RateShock(r, Shock(0, -2, 0))
          /\ PriceShock(r, Shock(2, -2, 3)) = PriceShock(r, Shock(0, -2, 0))
      BY <2>3 DEF RateShock, PriceShock, Shock
    <3>2. Under("CRISIS") = Under("EQUITY_DOWN_20")
      BY <2>1, <3>1, SameScenario, TheScenarios
    <3> QED
      BY <2>2, <3>2, TheScenarios
  <2>4. ASSUME r.kind # "STOCK"
        PROVE  all["CRISIS"].stressed[p] = all["IR_UP_100"].stressed[p]
    <3>1. /\ RateShock(r, Shock(2, -2, 3)) = RateShock(r, Shock(2, 0, 0))
          /\ PriceShock(r, Shock(2, -2, 3)) = PriceShock(r, Shock(2, 0, 0))
      BY <2>4 DEF RateShock, PriceShock, Shock
    <3>2. Under("CRISIS") = Under("IR_UP_100")
      BY <2>1, <3>1, SameScenario, TheScenarios
    <3> QED
      BY <2>2, <3>2, TheScenarios
  <2>5. all["VOL_UP_50"].stressed[p] = all["VOL_UP_50"].base[p]
    <3>1. RateShock(r, Shock(0, 0, 3)) = <<>> /\ PriceShock(r, Shock(0, 0, 3)) = <<>>
      BY DEF RateShock, PriceShock, Shock
    <3>2. Under("VOL_UP_50") = compute(r).current_value
      BY <2>1, <3>1, NoShock, TheScenarios
    <3> QED
      BY <2>2, <3>2, TheScenarios
  <2> QED
    BY <2>3, <2>4, <2>5 DEF r
<1>2. \A s \in Scenario : all[s].base_var = all["CRISIS"].base_var
  <2>1. ASSUME NEW s \in Scenario
        PROVE  all[s].base_var = VaR([k \in DOMAIN ps |-> compute(ps[k])])
    BY Runs
  <2>2. "CRISIS" \in Scenario
    BY TheScenarios
  <2> HIDE DEF all
  <2> QED
    BY <2>1, <2>2
<1> QED
  BY <1>1, <1>2 DEF OwnShock, SameStart

----------------------------------------------------------------------------
(* Bonds: the present value of the flows, weighted.                        *)

\* What each year adds to the price of a bond, over u^n: coupons, and in the last one the par.
Flow(par, c, u, n) ==
  [t \in 0..n |-> (IF t = 0 THEN 0 ELSE Coupon(par, c) * (Power(RateBase, t - 1) * Power(u, n - t)))
                    + (IF t = n THEN par * Power(RateBase, n) ELSE 0)]

\* The flows of a bond are not negative.
LEMMA FlowType ==
  ASSUME NEW par \in Nat, NEW c \in Nat, NEW u \in Nat \ {0}, NEW n \in Nat
  PROVE  Flow(par, c, u, n) \in [0..n -> Nat]
<1> DEFINE K == Coupon(par, c)
           P == par * Power(RateBase, n)
<1>0. RateBase \in Nat \ {0}
  BY RateAssumption
<1>1. \A x, y \in Nat : x * y \in Nat
  OBVIOUS
<1>2. K \in Nat /\ P \in Nat
  <2>1. Power(RateBase, n) \in Nat
    BY <1>0, PowerPositive
  <2>. QED
    BY <1>1, <2>1 DEF Coupon
<1> HIDE DEF K, P
<1>3. ASSUME NEW t \in 0..n, t # 0
      PROVE  K * (Power(RateBase, t - 1) * Power(u, n - t)) \in Nat
  <2>1. t \in 1..n
    BY <1>3
  <2>2. Power(RateBase, t - 1) * Power(u, n - t) \in Nat
    BY <1>0, <2>1, GeometricTerm
  <2>. QED
    BY <1>1, <1>2, <2>2
<1>4. Flow(par, c, u, n) = [t \in 0..n |-> (IF t = 0 THEN 0 ELSE K * (Power(RateBase, t - 1) * Power(u, n - t)))
                                             + (IF t = n THEN P ELSE 0)]
  BY DEF Flow, K, P
<1>5. ASSUME NEW t \in 0..n
      PROVE  (IF t = 0 THEN 0 ELSE K * (Power(RateBase, t - 1) * Power(u, n - t)))
                                             + (IF t = n THEN P ELSE 0) \in Nat
  BY <1>2, <1>3
<1>. QED
  BY <1>4, <1>5

\* x is W with the weights w.
Weighted(x, w, W, S) == \A t \in S : x[t] = w[t] * W[t]

\* u is what one grows to in a year at the rate y, in parts of RateBase, and is positive.
Grows(u, y) == u = RateBase + y /\ u > 0

\* PresentValue is the sum of the flows of the years, each times its weight.
LEMMA PresentValueIs ==
  ASSUME NEW par \in Nat, NEW c \in Nat, NEW y \in Int, NEW u, Grows(u, y), NEW n \in Nat,
         NEW w \in [0..n -> Int], NEW x, Weighted(x, w, Flow(par, c, u, n), 0..n)
  PROVE  /\ PresentValue(par, c, y, n, w) \in Fraction
         /\ IntOn(x, 0..n)
         /\ Is(PresentValue(par, c, y, n, w), SumFunctionOnSet(x, 0..n), Power(u, n))
<1> DEFINE K == Coupon(par, c)
           P == par * Power(RateBase, n)
           F(t) == K * (Power(RateBase, t - 1) * Power(u, n - t))
           g == [t \in 1..n |-> w[t] * F(t)]
           a == [t \in 0..n |-> IF t = 0 THEN 0 ELSE w[t] * F(t)]
           b == [t \in 0..n |-> IF t = n THEN w[n] * P ELSE 0]
           S == 0..n
<1>0. RateBase \in Nat \ {0} /\ u \in Nat \ {0} /\ u = RateBase + y
  BY RateAssumption DEF Grows
<1>1. PresentValue(par, c, y, n, w) = Frac(SumFunction(g) + w[n] * P, Power(u, n))
  <2>1. g = [t \in 1..n |-> w[t] * (K * Power(RateBase, t - 1) * Power(u, n - t))]
    <3>1. K \in Int
      BY <1>0 DEF Coupon
    <3>2. ASSUME NEW t \in 1..n
          PROVE  F(t) = K * Power(RateBase, t - 1) * Power(u, n - t)
      <4> DEFINE p == Power(RateBase, t - 1)
                 q == Power(u, n - t)
      <4>1. p \in Int /\ q \in Int
        <5> DEFINE i == t - 1
                   j == n - t
        <5>1. i \in Nat /\ j \in Nat
          OBVIOUS
        <5> HIDE DEF i, j
        <5>2. Power(RateBase, i) \in Int
          BY <1>0, <5>1, PowerPositive
        <5>3. Power(u, j) \in Int
          BY <1>0, <5>1, PowerPositive
        <5>. QED
          BY <5>2, <5>3 DEF i, j
      <4>2. \A i, j, k \in Int : i * (j * k) = i * j * k
        OBVIOUS
      <4> HIDE DEF K, p, q
      <4>3. K * (p * q) = K * p * q
        BY <3>1, <4>1, <4>2
      <4>. QED
        BY <4>3 DEF p, q
    <3>. QED
      BY <3>2
  <2>. QED
    BY <1>0, <2>1 DEF PresentValue, Sigma
<1>2. /\ K \in Int /\ P \in Int /\ n \in S /\ w[n] \in Int /\ 1..n \subseteq S
      /\ S \ (1..n) = {0} /\ IsFiniteSet(S) /\ IsFiniteSet(1..n)
  <2>1. Power(RateBase, n) \in Int
    BY <1>0, PowerPositive
  <2>. QED
    BY <2>1, IntervalFinite DEF Coupon
<1>3. Flow(par, c, u, n) = [t \in S |-> (IF t = 0 THEN 0 ELSE F(t)) + (IF t = n THEN P ELSE 0)]
  BY DEF Flow
<1>4. ASSUME NEW t \in S, t # 0
      PROVE  F(t) \in Int
  <2>1. t \in 1..n
    BY <1>4
  <2>2. Power(RateBase, t - 1) * Power(u, n - t) \in Nat \ {0}
    BY <1>0, <2>1, GeometricTerm
  <2> HIDE DEF K
  <2>. QED
    BY <1>2, <2>2
<1> HIDE DEF K, P, F
<1>5. IntOn(a, S) /\ IntOn(b, S) /\ IntOn(g, 1..n)
  BY <1>2, <1>4 DEF IntOn
<1>6. \A t \in S : x[t] = a[t] + b[t]
  <2>1. ASSUME NEW t \in S
        PROVE  w[t] * ((IF t = 0 THEN 0 ELSE F(t)) + (IF t = n THEN P ELSE 0)) = a[t] + b[t]
    <3>1. w[t] \in Int
      OBVIOUS
    <3>2. \A i, j, k \in Int : i * (j + k) = i * j + i * k
      OBVIOUS
    <3>. QED
      BY <1>2, <1>4, <3>1, <3>2
  <2>2. \A t \in S : x[t] = w[t] * Flow(par, c, u, n)[t]
    BY DEF Weighted
  <2>. QED
    BY <1>3, <2>1, <2>2
<1>7. SumFunctionOnSet(x, S) = SumFunctionOnSet(a, S) + SumFunctionOnSet(b, S)
  <2> HIDE DEF a, b, S
  <2>. QED
    BY <1>2, <1>5, <1>6, SumPlus
<1>8. SumFunctionOnSet(a, S) = SumFunction(g)
  <2>1. \A t \in S \ (1..n) : a[t] = 0
    BY <1>2
  <2>2. \A t \in 1..n : g[t] = a[t]
    OBVIOUS
  <2>3. SumFunction(g) = SumFunctionOnSet(g, 1..n)
    BY SigmaSum
  <2> HIDE DEF a, g, S
  <2>4. SumFunctionOnSet(a, S) = SumFunctionOnSet(a, 1..n)
    BY <1>2, <1>5, <2>1, SumNonzero
  <2>5. SumFunctionOnSet(g, 1..n) = SumFunctionOnSet(a, 1..n)
    BY <1>2, <1>5, <2>2, SumEqual
  <2>. QED
    BY <2>3, <2>4, <2>5
<1>9. SumFunctionOnSet(b, S) = w[n] * P
  <2>1. \A t \in S \ {n} : b[t] = 0
    OBVIOUS
  <2>2. b[n] = w[n] * P /\ b[n] \in Int /\ {n} \in SUBSET S
    BY <1>2
  <2> HIDE DEF b, S
  <2>3. SumFunctionOnSet(b, S) = SumFunctionOnSet(b, {n})
    BY <1>2, <1>5, <2>1, <2>2, SumNonzero
  <2>4. SumFunctionOnSet(b, {n}) = b[n]
    BY <2>2, SumSingle
  <2>. QED
    BY <2>2, <2>3, <2>4
<1>10. IntOn(x, S)
  <2>1. \A t \in S : a[t] \in Int /\ b[t] \in Int
    BY <1>5 DEF IntOn
  <2> HIDE DEF a, b, S
  <2>. QED
    BY <1>6, <2>1 DEF IntOn
<1>11. SumFunctionOnSet(x, S) \in Int
  <2> HIDE DEF S
  <2>. QED
    BY <1>2, <1>10, SumType
<1>12. Power(u, n) \in Nat \ {0}
  BY <1>0, PowerPositive
<1>13. PresentValue(par, c, y, n, w) = Frac(SumFunctionOnSet(x, S), Power(u, n))
  BY <1>1, <1>7, <1>8, <1>9
<1>14. PresentValue(par, c, y, n, w) \in Fraction
       /\ Is(PresentValue(par, c, y, n, w), SumFunctionOnSet(x, S), Power(u, n))
  <2> HIDE DEF S
  <2>. QED
    BY <1>11, <1>12, <1>13, FracIs
<1>. QED
  BY <1>10, <1>14

\* What the flows come to, and what they do weighted with t and with t * (t + 1), over u^n.
Worth(par, c, u, n) == SumFunctionOnSet(Flow(par, c, u, n), 0..n)
Moment(par, c, u, n) == SumFunctionOnSet([t \in 0..n |-> t * Flow(par, c, u, n)[t]], 0..n)
Second(par, c, u, n) == SumFunctionOnSet([t \in 0..n |-> (t * (t + 1)) * Flow(par, c, u, n)[t]], 0..n)

\* The present values with those three weights.
PV0(par, c, y, n) == PresentValue(par, c, y, n, [t \in 0..n |-> 1])
PV1(par, c, y, n) == PresentValue(par, c, y, n, [t \in 0..n |-> t])
PV2(par, c, y, n) == PresentValue(par, c, y, n, [t \in 0..n |-> t * (t + 1)])

\* The present values are those sums, over u^n.
LEMMA BondSums ==
  ASSUME NEW par \in Nat, NEW c \in Nat, NEW y \in Int, NEW u, Grows(u, y), NEW n \in Nat
  PROVE  /\ PV0(par, c, y, n) \in Fraction /\ Is(PV0(par, c, y, n), Worth(par, c, u, n), Power(u, n))
         /\ PV1(par, c, y, n) \in Fraction /\ Is(PV1(par, c, y, n), Moment(par, c, u, n), Power(u, n))
         /\ PV2(par, c, y, n) \in Fraction /\ Is(PV2(par, c, y, n), Second(par, c, u, n), Power(u, n))
         /\ u \in Nat \ {0} /\ Power(u, n) \in Nat \ {0}
         /\ Worth(par, c, u, n) \in Nat /\ Moment(par, c, u, n) \in Nat /\ Second(par, c, u, n) \in Nat
<1> DEFINE S == 0..n
           W == Flow(par, c, u, n)
           w0 == [t \in S |-> 1]
           w1 == [t \in S |-> t]
           w2 == [t \in S |-> t * (t + 1)]
           x1 == [t \in S |-> t * W[t]]
           x2 == [t \in S |-> (t * (t + 1)) * W[t]]
<1>0. u \in Nat \ {0} /\ IsFiniteSet(S) /\ Power(u, n) \in Nat \ {0}
  <2>1. u \in Nat \ {0}
    BY RateAssumption DEF Grows
  <2>. QED
    BY <2>1, IntervalFinite, PowerPositive
<1>1. W \in [S -> Nat]
  BY <1>0, FlowType
<1> HIDE DEF W
<1>2. w0 \in [S -> Int] /\ w1 \in [S -> Int] /\ w2 \in [S -> Int]
  OBVIOUS
<1>3. ASSUME NEW w \in [S -> Int], NEW x, \A t \in S : x[t] = w[t] * W[t]
      PROVE  /\ PresentValue(par, c, y, n, w) \in Fraction /\ IntOn(x, S)
             /\ Is(PresentValue(par, c, y, n, w), SumFunctionOnSet(x, S), Power(u, n))
  <2>1. Weighted(x, w, Flow(par, c, u, n), 0..n)
    BY <1>3 DEF W, Weighted
  <2>2. w \in [0..n -> Int]
    BY <1>3
  <2>3. /\ PresentValue(par, c, y, n, w) \in Fraction /\ IntOn(x, 0..n)
        /\ Is(PresentValue(par, c, y, n, w), SumFunctionOnSet(x, 0..n), Power(u, n))
    BY <2>1, <2>2, PresentValueIs
  <2>. QED
    BY <2>3
<1>4. ASSUME NEW x, IntOn(x, S), \A t \in S : x[t] >= 0
      PROVE  SumFunctionOnSet(x, S) \in Nat
  <2>1. SumFunctionOnSet(x, S) \in Int /\ SumFunctionOnSet(x, S) >= 0
    <3> HIDE DEF S
    <3>. QED
      BY <1>0, <1>4, SumType, SumNonnegative
  <2>. QED
    BY <2>1
<1>5. /\ \A t \in S : W[t] = w0[t] * W[t] /\ W[t] >= 0
      /\ \A t \in S : x1[t] = w1[t] * W[t] /\ x1[t] >= 0
      /\ \A t \in S : x2[t] = w2[t] * W[t] /\ x2[t] >= 0
  <2>1. \A i, j \in Nat : i * j >= 0 /\ i * (i + 1) \in Nat
    OBVIOUS
  <2>2. SUFFICES ASSUME NEW t \in S
                 PROVE  /\ W[t] = 1 * W[t] /\ W[t] >= 0
                        /\ t * W[t] >= 0 /\ (t * (t + 1)) * W[t] >= 0
    OBVIOUS
  <2>3. W[t] \in Nat /\ t \in Nat
    BY <1>1
  <2>. QED
    BY <2>1, <2>3
<1>6. Worth(par, c, u, n) = SumFunctionOnSet(W, S)
  BY DEF Worth, W
<1>7. Moment(par, c, u, n) = SumFunctionOnSet(x1, S)
  BY DEF Moment, W
<1>8. Second(par, c, u, n) = SumFunctionOnSet(x2, S)
  BY DEF Second, W
<1> DEFINE v0 == PresentValue(par, c, y, n, w0)
           v1 == PresentValue(par, c, y, n, w1)
           v2 == PresentValue(par, c, y, n, w2)
           p == Power(u, n)
<1> HIDE DEF w0, w1, w2, x1, x2
<1>9. IntOn(W, S) /\ v0 \in Fraction /\ Is(v0, SumFunctionOnSet(W, S), p)
  BY <1>2, <1>3, <1>5
<1>10. IntOn(x1, S) /\ v1 \in Fraction /\ Is(v1, SumFunctionOnSet(x1, S), p)
  BY <1>2, <1>3, <1>5
<1>11. IntOn(x2, S) /\ v2 \in Fraction /\ Is(v2, SumFunctionOnSet(x2, S), p)
  BY <1>2, <1>3, <1>5
<1>12. SumFunctionOnSet(W, S) \in Nat /\ SumFunctionOnSet(x1, S) \in Nat /\ SumFunctionOnSet(x2, S) \in Nat
  <2> HIDE DEF S
  <2>. QED
    BY <1>4, <1>5, <1>9, <1>10, <1>11
<1>. QED
  BY <1>0, <1>6, <1>7, <1>8, <1>9, <1>10, <1>11, <1>12 DEF PV0, PV1, PV2, w0, w1, w2

\* The average year is not after the last, and the square of the average not above that of the squares.
LEMMA MomentsFit ==
  ASSUME NEW par \in Nat, NEW c \in Nat, NEW u \in Nat \ {0}, NEW n \in Nat
  PROVE  /\ Moment(par, c, u, n) <= n * Worth(par, c, u, n)
         /\ Moment(par, c, u, n) * (Moment(par, c, u, n) + Worth(par, c, u, n))
              <= Second(par, c, u, n) * Worth(par, c, u, n)
<1> DEFINE S == 0..n
           W == Flow(par, c, u, n)
           i == [t \in S |-> t]
           m == [t \in S |-> t * W[t]]
           q == [t \in S |-> t * t * W[t]]
           s == [t \in S |-> (t * (t + 1)) * W[t]]
           l == [t \in S |-> n * W[t]]
<1>0. IsFiniteSet(S)
  BY IntervalFinite
<1>1. W \in [S -> Nat]
  BY FlowType
<1> HIDE DEF W
<1>2. /\ Worth(par, c, u, n) = SumFunctionOnSet(W, S)
      /\ Moment(par, c, u, n) = SumFunctionOnSet(m, S)
      /\ Second(par, c, u, n) = SumFunctionOnSet(s, S)
  BY DEF Worth, Moment, Second, W
<1>3. ASSUME NEW t \in S
      PROVE  /\ W[t] \in Int /\ W[t] >= 0 /\ i[t] \in Int
             /\ m[t] = i[t] * W[t] /\ q[t] = i[t] * i[t] * W[t]
             /\ m[t] \in Int /\ q[t] \in Int /\ s[t] = q[t] + m[t] /\ l[t] = n * W[t]
             /\ m[t] <= l[t] /\ l[t] \in Int
  <2>1. W[t] \in Nat /\ t \in Nat /\ t <= n
    BY <1>1
  <2>2. \A j, k \in Int : j * k \in Int /\ j * j * k \in Int /\ (j * (j + 1)) * k = j * j * k + j * k
    OBVIOUS
  <2>3. \A j, k, h \in Nat : j <= h => j * k <= h * k
    OBVIOUS
  <2>. QED
    BY <2>1, <2>2, <2>3
<1>4. IntOn(W, S) /\ IntOn(i, S) /\ IntOn(m, S) /\ IntOn(q, S) /\ IntOn(l, S)
  BY <1>3 DEF IntOn
<1> HIDE DEF S, i, m, q, s, l
<1>5. SumFunctionOnSet(m, S) <= SumFunctionOnSet(l, S) /\ SumFunctionOnSet(l, S) = n * SumFunctionOnSet(W, S)
  BY <1>0, <1>3, <1>4, SumLeq, SumScaled
<1>6. SumFunctionOnSet(s, S) = SumFunctionOnSet(q, S) + SumFunctionOnSet(m, S)
  BY <1>0, <1>3, <1>4, SumPlus
<1> DEFINE M == SumFunctionOnSet(m, S)
           Q == SumFunctionOnSet(q, S)
           V == SumFunctionOnSet(W, S)
<1>7. M * M <= V * Q
  BY <1>0, <1>3, <1>4, CauchySchwarz
<1>8. M \in Int /\ Q \in Int /\ V \in Int
  BY <1>0, <1>4, SumType
<1> HIDE DEF M, Q, V
<1>9. M * (M + V) <= (Q + M) * V
  <2>1. M * (M + V) = M * M + M * V /\ (Q + M) * V = V * Q + M * V
    BY <1>8
  <2>2. M * M \in Int /\ M * V \in Int /\ V * Q \in Int
    BY <1>8
  <2>. QED
    BY <1>7, <2>1, <2>2
<1>. QED
  BY <1>2, <1>5, <1>6, <1>9 DEF M, Q, V

\* The duration is the average year of the flows.
LEMMA DurationIs ==
  ASSUME NEW par \in Nat, NEW c \in Nat, NEW y \in Int, NEW u, Grows(u, y),
         NEW maturity, NEW n \in Nat, n = Years(maturity)
  PROVE  /\ macaulay_duration(par, c, y, maturity) \in Fraction
         /\ Worth(par, c, u, n) > 0
              => Is(macaulay_duration(par, c, y, maturity), Moment(par, c, u, n), Worth(par, c, u, n))
         /\ Worth(par, c, u, n) = 0 => Is(macaulay_duration(par, c, y, maturity), 0, 1)
<1> DEFINE x == PV1(par, c, y, n)
           v == PV0(par, c, y, n)
           W == Worth(par, c, u, n)
           M == Moment(par, c, u, n)
           p == Power(u, n)
<1>1. macaulay_duration(par, c, y, maturity) = Ratio(x, v)
  BY DEF macaulay_duration, bond_price, PV0, PV1
<1>2. /\ x \in Fraction /\ Is(x, M, p)
      /\ v \in Fraction /\ Is(v, W, p)
      /\ p \in Nat \ {0} /\ W \in Nat /\ M \in Int
  <2>1. x \in Fraction /\ Is(x, M, p)
    BY BondSums
  <2>2. v \in Fraction /\ Is(v, W, p)
    BY BondSums
  <2>3. p \in Nat \ {0} /\ W \in Nat
    BY BondSums
  <2>4. M \in Nat
    BY BondSums
  <2>. QED
    BY <2>1, <2>2, <2>3, <2>4
<1> HIDE DEF x, v, W, M, p
<1>3. /\ Ratio(x, v) \in Fraction
      /\ W > 0 => Is(Ratio(x, v), M, W)
      /\ W = 0 => Is(Ratio(x, v), 0, 1)
  BY <1>2, RatioOver
<1>. QED
  BY <1>1, <1>3 DEF W, M

\* The convexity, in the terms of the duration.
LEMMA ConvexityIs ==
  ASSUME NEW par \in Nat, NEW c \in Nat, NEW y \in Int, NEW u, Grows(u, y),
         NEW maturity, NEW n \in Nat, n = Years(maturity)
  PROVE  /\ convexity(par, c, y, maturity) \in Fraction
         /\ Worth(par, c, u, n) > 0
              => Is(convexity(par, c, y, maturity), Second(par, c, u, n) * (RateBase * RateBase),
                    Worth(par, c, u, n) * (u * u))
         /\ Worth(par, c, u, n) = 0 => Is(convexity(par, c, y, maturity), 0, 1)
<1> DEFINE x == PV2(par, c, y, n)
           v == PV0(par, c, y, n)
           B == RateBase * RateBase
           U == u * u
           f == Frac(B, U)
           z == Times(x, f)
           W == Worth(par, c, u, n)
           M == Second(par, c, u, n)
           p == Power(u, n)
           r == Ratio(z, v)
<1>1. convexity(par, c, y, maturity) = Ratio(z, v)
  <2>1. U = (RateBase + y) * (RateBase + y)
    BY DEF Grows
  <2>2. convexity(par, c, y, maturity)
          = Ratio(Times(x, Frac(B, (RateBase + y) * (RateBase + y))), v)
    BY DEF convexity, bond_price, PV0, PV2
  <2>. QED
    BY <2>1, <2>2
<1>2. /\ x \in Fraction /\ Is(x, M, p)
      /\ v \in Fraction /\ Is(v, W, p)
      /\ p \in Nat \ {0} /\ W \in Nat /\ M \in Int
  <2>1. x \in Fraction /\ Is(x, M, p)
    BY BondSums
  <2>2. v \in Fraction /\ Is(v, W, p)
    BY BondSums
  <2>3. p \in Nat \ {0} /\ W \in Nat
    BY BondSums
  <2>4. M \in Nat
    BY BondSums
  <2>. QED
    BY <2>1, <2>2, <2>3, <2>4
<1>3. B \in Nat \ {0} /\ U \in Nat \ {0}
  <2>1. u \in Nat \ {0} /\ RateBase \in Nat \ {0}
    BY RateAssumption DEF Grows
  <2>. QED
    BY <2>1, NatProducts
<1> HIDE DEF x, v, W, M, p, B, U
<1>4. f \in Fraction /\ Is(f, B, U)
  BY <1>3, FracIs
<1> HIDE DEF f
<1>5. z \in Fraction /\ Is(z, M * B, p * U)
  BY <1>2, <1>3, <1>4, TimesIs
<1> HIDE DEF z
<1>6. M * B \in Int /\ p * U \in Nat \ {0}
  BY <1>2, <1>3, NatProducts
<1>7. /\ r \in Fraction
      /\ W > 0 => Is(r, (M * B) * p, (p * U) * W)
      /\ W = 0 => Is(r, 0, 1)
  <2> DEFINE a == M * B
             b == p * U
  <2>1. a \in Int /\ b \in Nat \ {0} /\ Is(z, a, b)
    BY <1>5, <1>6
  <2> HIDE DEF a, b
  <2>2. r \in Fraction /\ (W > 0 => Is(r, a * p, b * W)) /\ (W = 0 => Is(r, 0, 1))
    BY <1>2, <1>5, <2>1, RatioIs
  <2>. QED
    BY <2>2 DEF a, b
<1> HIDE DEF r
<1>8. ASSUME W > 0
      PROVE  Is(r, M * B, W * U)
  <2> DEFINE a == M * B
             b == W * U
  <2>1. a \in Int /\ b \in Nat \ {0}
    BY <1>2, <1>3, <1>6, <1>8, NatProducts
  <2>2. (p * U) * W = b * p
    BY <1>2, <1>3
  <2>3. Is(r, a * p, b * p)
    BY <1>7, <1>8, <2>2
  <2> HIDE DEF a, b
  <2>4. Is(r, a, b)
    BY <1>2, <1>7, <2>1, <2>3, IsScaled
  <2>. QED
    BY <2>4 DEF a, b
<1>. QED
  BY <1>1, <1>7, <1>8 DEF r, W, M, B, U

\* A bond is at least as convex as its duration makes it.
LEMMA ConvexEnough ==
  ASSUME NEW par \in Nat, NEW c \in Nat, NEW y \in Int, NEW u, Grows(u, y),
         NEW maturity, Years(maturity) \in Nat,
         NEW d, d = macaulay_duration(par, c, y, maturity)
  PROVE  Leq(Times(d, Plus(d, Frac(1, 1))),
             Times(convexity(par, c, y, maturity), Frac(u * u, RateBase * RateBase)))
<1> DEFINE n == Years(maturity)
           W == Worth(par, c, u, n)
           M == Moment(par, c, u, n)
           Q == Second(par, c, u, n)
           B == RateBase * RateBase
           U == u * u
           k == convexity(par, c, y, maturity)
           one == Frac(1, 1)
           f == Frac(U, B)
           e == Plus(d, one)
           l == Times(d, e)
           r == Times(k, f)
<1>1. n \in Nat /\ u \in Nat \ {0} /\ B \in Nat \ {0} /\ U \in Nat \ {0}
  <2>1. u \in Nat \ {0} /\ RateBase \in Nat \ {0}
    BY RateAssumption DEF Grows
  <2>. QED
    BY <2>1, NatProducts
<1>2. n = Years(maturity)
  OBVIOUS
<1> HIDE DEF n
<1>3. W \in Nat /\ M \in Nat /\ Q \in Nat /\ M * (M + W) <= Q * W
  BY <1>1, BondSums, MomentsFit
<1>4. d \in Fraction /\ (W > 0 => Is(d, M, W)) /\ (W = 0 => Is(d, 0, 1))
  BY <1>1, <1>2, DurationIs
<1>5. k \in Fraction /\ (W > 0 => Is(k, Q * B, W * U)) /\ (W = 0 => Is(k, 0, 1))
  BY <1>1, <1>2, ConvexityIs
<1> HIDE DEF W, M, Q, B, U, k, one, f, e, l, r
<1>6. one \in Fraction /\ Is(one, 1, 1) /\ f \in Fraction /\ Is(f, U, B)
  BY <1>1, FracIs DEF one, f
<1>7. CASE W > 0
  <2>1. W \in Nat \ {0}
    BY <1>3, <1>7
  <2>2. e \in Fraction /\ Is(e, M * 1 + 1 * W, W * 1)
    BY <1>3, <1>4, <1>6, <1>7, <2>1, PlusIs DEF e
  <2>3. M * 1 + 1 * W = M + W /\ W * 1 = W /\ M + W \in Int
    BY <1>3
  <2>4. Is(e, M + W, W)
    BY <2>2, <2>3
  <2>5. l \in Fraction /\ Is(l, M * (M + W), W * W)
    BY <1>3, <1>4, <1>7, <2>1, <2>2, <2>3, <2>4, TimesIs DEF l
  <2> DEFINE a == Q * B
             b == W * U
  <2>6. a \in Int /\ b \in Nat \ {0} /\ Is(k, a, b)
    BY <1>1, <1>3, <1>5, <1>7, <2>1, NatProducts
  <2> HIDE DEF a, b
  <2>7. r \in Fraction /\ Is(r, a * U, b * B)
    BY <1>1, <1>5, <1>6, <2>6, TimesIs DEF r
  <2> DEFINE g == M * (M + W)
             h == W * W
             i == a * U
             j == b * B
  <2>8. g \in Int /\ h \in Nat \ {0} /\ i \in Int /\ j \in Nat \ {0}
    BY <1>1, <1>3, <2>1, <2>6, NatProducts
  <2>9. g * j <= i * h
    <3>1. j = W * (U * B) /\ U * B \in Nat
      BY <1>1, <1>3, NatProducts DEF b
    <3>2. i = Q * (U * B)
      BY <1>1, <1>3 DEF a
    <3> DEFINE s == U * B
               t == Q * W
    <3> HIDE DEF g, h, i, j, s
    <3>3. g * j = (W * s) * g /\ i * h = (W * s) * t
      <4>1. g * (W * s) = (W * s) * g
        BY <1>3, <2>8, <3>1 DEF s
      <4>2. (Q * s) * (W * W) = (W * s) * (Q * W)
        BY <1>3, <3>1 DEF s
      <4>. QED
        BY <3>1, <3>2, <4>1, <4>2 DEF s, h
    <3>4. g <= t /\ t \in Nat /\ W * s \in Nat /\ g \in Nat
      <4>1. M + W \in Nat
        BY <1>3
      <4>. QED
        BY <1>3, <3>1, <4>1, NatProducts DEF g, s
    <3> HIDE DEF t
    <3>5. (W * s) * g <= (W * s) * t
      BY <3>4, NatProducts
    <3>. QED
      BY <3>3, <3>5
  <2>10. Is(l, g, h) /\ Is(r, i, j)
    BY <2>5, <2>7
  <2> HIDE DEF g, h, i, j
  <2>11. Leq(l, r)
    BY <2>5, <2>7, <2>8, <2>9, <2>10, CompareIs
  <2>. QED
    BY <2>11 DEF l, e, one, r, k, f, U, B
<1>8. CASE W = 0
  <2>1. e \in Fraction /\ Is(e, 0 * 1 + 1 * 1, 1 * 1)
    BY <1>4, <1>6, <1>8, PlusIs DEF e
  <2>2. Is(e, 1, 1)
    BY <2>1
  <2>3. l \in Fraction /\ Is(l, 0 * 1, 1 * 1)
    BY <1>4, <1>8, <2>1, <2>2, TimesIs DEF l
  <2>4. r \in Fraction /\ Is(r, 0 * U, 1 * B)
    BY <1>1, <1>5, <1>6, <1>8, TimesIs DEF r
  <2>5. Is(l, 0, 1) /\ Is(r, 0, B)
    BY <1>1, <2>3, <2>4
  <2>6. 0 * B <= 0 * 1
    BY <1>1
  <2>7. Leq(l, r)
    BY <1>1, <2>3, <2>4, <2>5, <2>6, CompareIs
  <2>. QED
    BY <2>7 DEF l, e, one, r, k, f, U, B
<1>. QED
  BY <1>3, <1>7, <1>8

----------------------------------------------------------------------------
(* Discounting faster.                                                     *)

\* What discounting with u makes of k, over u^n: k[t] times u^e[t].
Discounts(f, k, e, u, S) == \A t \in S : f[t] = k[t] * Power(u, e[t])

\* The faster growth leaves less, when nothing is negative.
LEMMA FasterLeavesLess ==
  ASSUME NEW S, IsFiniteSet(S), NEW n \in Nat, NEW k \in [S -> Nat], NEW e \in [S -> 0..n],
         NEW u \in Nat \ {0}, NEW v \in Nat \ {0}, u <= v,
         NEW f, NEW g, Discounts(f, k, e, u, S), Discounts(g, k, e, v, S)
  PROVE  /\ SumFunctionOnSet(f, S) \in Int /\ SumFunctionOnSet(g, S) \in Int
         /\ SumFunctionOnSet(g, S) * Power(u, n) <= SumFunctionOnSet(f, S) * Power(v, n)
<1> DEFINE p == Power(u, n)
           q == Power(v, n)
           a == [t \in S |-> q * f[t]]
           b == [t \in S |-> p * g[t]]
<1>1. p \in Nat \ {0} /\ q \in Nat \ {0}
  BY PowerPositive
<1>2. ASSUME NEW t \in S
      PROVE  f[t] \in Nat /\ g[t] \in Nat /\ b[t] <= a[t] /\ a[t] \in Int /\ b[t] \in Int
  <2> DEFINE i == e[t]
             x == Power(u, i)
             y == Power(v, i)
             j == k[t]
  <2>1. i \in 0..n /\ i \in Nat /\ j \in Nat
    OBVIOUS
  <2>2. f[t] = j * x /\ g[t] = j * y
    BY DEF Discounts
  <2> HIDE DEF i, j
  <2>3. x \in Nat \ {0} /\ y \in Nat \ {0}
    BY <2>1, PowerPositive
  <2>4. y * p <= x * q
    BY <2>1, PowerCrossed
  <2> HIDE DEF x, y, p, q
  <2>5. f[t] \in Nat /\ g[t] \in Nat
    BY <2>1, <2>2, <2>3, NatProducts
  <2>6. y * p \in Nat /\ x * q \in Nat
    BY <1>1, <2>3, NatProducts
  <2>7. j * (y * p) <= j * (x * q)
    BY <2>1, <2>4, <2>6, NatProducts
  <2>8. p * (j * y) = j * (y * p) /\ q * (j * x) = j * (x * q)
    BY <1>1, <2>1, <2>3
  <2>9. a[t] = q * f[t] /\ b[t] = p * g[t]
    OBVIOUS
  <2>10. a[t] \in Nat /\ b[t] \in Nat
    BY <1>1, <2>5, <2>9, NatProducts
  <2>. QED
    BY <2>2, <2>5, <2>7, <2>8, <2>9, <2>10
<1>3. IntOn(f, S) /\ IntOn(g, S) /\ IntOn(a, S) /\ IntOn(b, S)
  BY <1>2 DEF IntOn
<1>4. (\A t \in S : a[t] = q * f[t]) /\ (\A t \in S : b[t] = p * g[t])
  OBVIOUS
<1> HIDE DEF p, q, a, b
<1>5. SumFunctionOnSet(b, S) <= SumFunctionOnSet(a, S)
  BY <1>2, <1>3, SumLeq
<1>6. SumFunctionOnSet(a, S) = q * SumFunctionOnSet(f, S)
  BY <1>1, <1>3, <1>4, SumScaled
<1>7. SumFunctionOnSet(b, S) = p * SumFunctionOnSet(g, S)
  BY <1>1, <1>3, <1>4, SumScaled
<1>8. SumFunctionOnSet(f, S) \in Int /\ SumFunctionOnSet(g, S) \in Int
  BY <1>3, SumType
<1>9. /\ p * SumFunctionOnSet(g, S) = SumFunctionOnSet(g, S) * p
      /\ q * SumFunctionOnSet(f, S) = SumFunctionOnSet(f, S) * q
  BY <1>1, <1>8
<1>. QED
  BY <1>5, <1>6, <1>7, <1>8, <1>9 DEF p, q

\* The flows of a bond, taken apart.
Due(par, c, n) ==
  [t \in 0..n |-> (IF t = 0 THEN 0 ELSE Coupon(par, c) * Power(RateBase, t - 1))
                    + (IF t = n THEN par * Power(RateBase, n) ELSE 0)]
\* The years from each flow to the last.
YearsLeft(n) == [t \in 0..n |-> n - t]

\* The flows of a bond are discounted so.
LEMMA FlowIs ==
  ASSUME NEW par \in Nat, NEW c \in Nat, NEW n \in Nat, NEW u \in Nat \ {0}
  PROVE  /\ Due(par, c, n) \in [0..n -> Nat] /\ YearsLeft(n) \in [0..n -> 0..n]
         /\ Discounts(Flow(par, c, u, n), Due(par, c, n), YearsLeft(n), u, 0..n)
<1> DEFINE k == Due(par, c, n)
           e == YearsLeft(n)
           K == Coupon(par, c)
           P == par * Power(RateBase, n)
           p(t) == Power(RateBase, t - 1)
           q(t) == Power(u, n - t)
<1>1. K \in Nat /\ P \in Nat
  <2>1. Power(RateBase, n) \in Nat \ {0}
    BY RateAssumption, PowerPositive
  <2>. QED
    BY <2>1, NatProducts DEF Coupon
<1>2. ASSUME NEW t \in 0..n, t # 0
      PROVE  p(t) \in Nat
  <2> DEFINE i == t - 1
  <2>1. i \in Nat
    BY <1>2
  <2> HIDE DEF i
  <2>2. Power(RateBase, i) \in Nat \ {0}
    BY <2>1, RateAssumption, PowerPositive
  <2>. QED
    BY <2>2 DEF i
<1>3. ASSUME NEW t \in 0..n
      PROVE  q(t) \in Nat /\ (t = n => q(t) = 1)
  <2> DEFINE i == n - t
  <2>1. i \in Nat /\ (t = n => i = 0)
    OBVIOUS
  <2> HIDE DEF i
  <2>2. Power(u, i) \in Nat \ {0} /\ Power(u, 0) = 1
    BY <2>1, PowerPositive, PowerType
  <2>. QED
    BY <2>1, <2>2 DEF i
<1>4. k = [t \in 0..n |-> (IF t = 0 THEN 0 ELSE K * p(t)) + (IF t = n THEN P ELSE 0)]
  BY DEF Due
<1>5. Flow(par, c, u, n) = [t \in 0..n |-> (IF t = 0 THEN 0 ELSE K * (p(t) * q(t))) + (IF t = n THEN P ELSE 0)]
  BY DEF Flow
<1> HIDE DEF K, P, p, q
<1>6. ASSUME NEW t \in 0..n
      PROVE  k[t] \in Nat
  <2>1. t # 0 => K * p(t) \in Nat
    BY <1>1, <1>2, NatProducts
  <2>. QED
    BY <1>1, <1>4, <2>1
<1>7. ASSUME NEW t \in 0..n
      PROVE  Flow(par, c, u, n)[t] = k[t] * q(t)
  <2> DEFINE x == IF t = 0 THEN 0 ELSE K * p(t)
             y == IF t = n THEN P ELSE 0
  <2>1. x \in Nat /\ y \in Nat /\ k[t] = x + y
    <3>1. t # 0 => K * p(t) \in Nat
      BY <1>1, <1>2, NatProducts
    <3>. QED
      BY <1>1, <1>4, <3>1
  <2>2. (IF t = 0 THEN 0 ELSE K * (p(t) * q(t))) = x * q(t)
    <3>1. CASE t = 0
      BY <1>3, <3>1
    <3>2. CASE t # 0
      <4>1. K * (p(t) * q(t)) = (K * p(t)) * q(t)
        BY <1>1, <1>2, <1>3, <3>2
      <4>. QED
        BY <3>2, <4>1
    <3>. QED
      BY <3>1, <3>2
  <2>3. y = y * q(t)
    BY <1>3, <2>1
  <2>4. \A i, j, h \in Nat : (i + j) * h = i * h + j * h
    OBVIOUS
  <2>5. Flow(par, c, u, n)[t] = (IF t = 0 THEN 0 ELSE K * (p(t) * q(t))) + (IF t = n THEN P ELSE 0)
    BY <1>5
  <2>6. Flow(par, c, u, n)[t] = x * q(t) + y
    BY <2>2, <2>5
  <2> HIDE DEF x, y
  <2>. QED
    BY <1>3, <2>1, <2>3, <2>4, <2>6
<1>8. k \in [0..n -> Nat]
  BY <1>4, <1>6
<1>9. e \in [0..n -> 0..n] /\ \A t \in 0..n : q(t) = Power(u, e[t])
  BY DEF q, YearsLeft
<1>. QED
  BY <1>7, <1>8, <1>9 DEF Discounts

\* At a higher yield a bond costs no more.
LEMMA CheaperBond ==
  ASSUME NEW par \in Nat, NEW c \in Nat, NEW y \in Int, NEW z \in Int, NEW u, Grows(u, y), NEW v, Grows(v, z),
         y <= z, NEW n \in Nat
  PROVE  Leq(PV0(par, c, z, n), PV0(par, c, y, n))
<1>1. u \in Nat \ {0} /\ v \in Nat \ {0} /\ u <= v
  BY RateAssumption DEF Grows
<1> DEFINE k == Due(par, c, n)
           e == YearsLeft(n)
           S == 0..n
           f == Flow(par, c, u, n)
           g == Flow(par, c, v, n)
<1>2. k \in [S -> Nat] /\ e \in [S -> 0..n] /\ Discounts(f, k, e, u, S) /\ Discounts(g, k, e, v, S)
  BY <1>1, FlowIs
<1>3. IsFiniteSet(S)
  BY IntervalFinite
<1>4. Worth(par, c, u, n) = SumFunctionOnSet(f, S) /\ Worth(par, c, v, n) = SumFunctionOnSet(g, S)
  BY DEF Worth
<1> HIDE DEF k, e, S, f, g
<1>5. SumFunctionOnSet(g, S) * Power(u, n) <= SumFunctionOnSet(f, S) * Power(v, n)
  BY <1>1, <1>2, <1>3, FasterLeavesLess
<1>6. PV0(par, c, y, n) \in Fraction /\ Is(PV0(par, c, y, n), Worth(par, c, u, n), Power(u, n))
  BY BondSums
<1>7. PV0(par, c, z, n) \in Fraction /\ Is(PV0(par, c, z, n), Worth(par, c, v, n), Power(v, n))
  BY BondSums
<1>8. Worth(par, c, u, n) \in Nat /\ Power(u, n) \in Nat \ {0}
  BY BondSums
<1>9. Worth(par, c, v, n) \in Nat /\ Power(v, n) \in Nat \ {0}
  BY BondSums
<1> DEFINE a == PV0(par, c, y, n)
           b == PV0(par, c, z, n)
           i == Worth(par, c, u, n)
           j == Worth(par, c, v, n)
           p == Power(u, n)
           q == Power(v, n)
<1>10. i \in Int /\ j \in Int /\ j * p <= i * q
  BY <1>4, <1>5, <1>8, <1>9
<1> HIDE DEF a, b, i, j, p, q
<1>11. a \in Fraction /\ b \in Fraction /\ Is(a, i, p) /\ Is(b, j, q) /\ p \in Nat \ {0} /\ q \in Nat \ {0}
  BY <1>6, <1>7, <1>8, <1>9 DEF a, b, i, j, p, q
<1>12. Leq(b, a)
  BY <1>10, <1>11, CompareIs
<1>. QED
  BY <1>12 DEF a, b

----------------------------------------------------------------------------
(* The price of a bond, and the npv of its flows.                          *)

\* The worth of a bond: the coupons on a geometric progression, and the par.
LEMMA WorthIs ==
  ASSUME NEW par \in Nat, NEW c \in Nat, NEW n \in Nat, NEW u \in Nat \ {0}
  PROVE  Worth(par, c, u, n) = Coupon(par, c) * Geometric(RateBase, u, n) + par * Power(RateBase, n)
<1> DEFINE S == 0..n
           K == Coupon(par, c)
           P == par * Power(RateBase, n)
           G(t) == Power(RateBase, t - 1) * Power(u, n - t)
           W == Flow(par, c, u, n)
           g == [t \in 1..n |-> G(t)]
           a == [t \in S |-> IF t = 0 THEN 0 ELSE K * G(t)]
           b == [t \in S |-> IF t = n THEN P ELSE 0]
<1>1. K \in Nat /\ P \in Nat
  <2>1. Power(RateBase, n) \in Nat \ {0}
    BY RateAssumption, PowerPositive
  <2>. QED
    BY <2>1, NatProducts DEF Coupon
<1>2. /\ n \in S /\ {n} \in SUBSET S /\ 1..n \in SUBSET S /\ S \ (1..n) = {0}
      /\ IsFiniteSet(S) /\ IsFiniteSet(1..n)
  BY IntervalFinite
<1>3. \A t \in 1..n : G(t) \in Nat \ {0}
  BY RateAssumption, GeometricTerm
<1>4. W = [t \in S |-> a[t] + b[t]]
  BY DEF Flow
<1>5. Geometric(RateBase, u, n) = SumFunctionOnSet(g, 1..n)
  BY DEF Geometric
<1>6. Worth(par, c, u, n) = SumFunctionOnSet(W, S)
  BY DEF Worth
<1> HIDE DEF K, P, G, W
<1>7. \A t \in S \ {0} : t \in 1..n
  OBVIOUS
<1>8. \A t \in S : a[t] \in Nat /\ b[t] \in Nat
  BY <1>1, <1>3, <1>7, NatProducts
<1>9. IntOn(a, S) /\ IntOn(b, S) /\ IntOn(g, 1..n) /\ IntOn(a, 1..n)
  BY <1>2, <1>3, <1>8 DEF IntOn
<1>10. (\A t \in S \ (1..n) : a[t] = 0) /\ (\A t \in 1..n : a[t] = K * g[t])
  BY <1>2
<1>11. (\A t \in S \ {n} : b[t] = 0) /\ b[n] = P
  BY <1>2
<1>12. \A t \in S : W[t] = a[t] + b[t]
  BY <1>4
<1> HIDE DEF S, a, b, g
<1>13. SumFunctionOnSet(W, S) = SumFunctionOnSet(a, S) + SumFunctionOnSet(b, S)
  BY <1>2, <1>9, <1>12, SumPlus
<1>14. SumFunctionOnSet(a, S) = SumFunctionOnSet(a, 1..n)
  BY <1>2, <1>9, <1>10, SumNonzero
<1>15. SumFunctionOnSet(a, 1..n) = K * SumFunctionOnSet(g, 1..n)
  <2> DEFINE R == 1..n
  <2>1. IsFiniteSet(R) /\ IntOn(g, R) /\ K \in Int
    BY <1>1, <1>2, <1>9
  <2>2. \A t \in R : a[t] = K * g[t]
    BY <1>10
  <2> HIDE DEF R
  <2>3. SumFunctionOnSet(a, R) = K * SumFunctionOnSet(g, R)
    BY <2>1, <2>2, SumScaled
  <2>. QED
    BY <2>3 DEF R
<1>16. SumFunctionOnSet(b, S) = SumFunctionOnSet(b, {n})
  BY <1>2, <1>9, <1>11, SumNonzero
<1>17. SumFunctionOnSet(b, {n}) = P
  BY <1>1, <1>11, SumSingle
<1>. QED
  BY <1>5, <1>6, <1>13, <1>14, <1>15, <1>16, <1>17 DEF K, P

\* A bond of at least a year stands at par exactly when its coupon is its yield.
LEMMA AtPar ==
  ASSUME NEW par \in Nat \ {0}, NEW c \in Nat, NEW y \in Int, NEW u, Grows(u, y), NEW n \in Nat \ {0}
  PROVE  Same(PV0(par, c, y, n), Frac(par, 1)) <=> c = y
<1> DEFINE v == PV0(par, c, y, n)
           W == Worth(par, c, u, n)
           p == Power(u, n)
           q == Power(RateBase, n)
           G == Geometric(RateBase, u, n)
           f == Frac(par, 1)
<1>1. u \in Nat \ {0} /\ u - RateBase = y
  BY RateAssumption DEF Grows
<1>2. v \in Fraction /\ Is(v, W, p)
  BY BondSums
<1>3. p \in Nat \ {0} /\ W \in Nat
  BY BondSums
<1>4. f \in Fraction /\ Is(f, par, 1)
  BY FracIs
<1>5. W = (par * c) * G + par * q
  BY <1>1, WorthIs DEF Coupon
<1>6. G \in Int /\ G > 0 /\ y * G = p - q
  <2>1. G \in Int /\ (n > 0 => G > 0) /\ (u - RateBase) * G = p - q
    BY <1>1, RateAssumption, GeometricIs
  <2>. QED
    BY <1>1, <2>1
<1>7. q \in Nat \ {0}
  BY RateAssumption, PowerPositive
<1> HIDE DEF v, W, p, q, G, f
<1>8. Same(v, f) <=> W * 1 = par * p
  BY <1>2, <1>3, <1>4, CompareIs
<1>9. W * 1 = (c * G + q) * par /\ par * p = (y * G + q) * par
  <2>1. W * 1 = (c * G + q) * par
    BY <1>5, <1>6, <1>7
  <2>2. p = y * G + q
    BY <1>3, <1>6, <1>7
  <2>3. par * (y * G + q) = (y * G + q) * par
    BY <1>6, <1>7
  <2>. QED
    BY <2>1, <2>2, <2>3
<1>10. (c * G + q) * par = (y * G + q) * par <=> c * G + q = y * G + q
  <2> DEFINE i == c * G + q
             j == y * G + q
  <2>1. i \in Int /\ j \in Int
    BY <1>6, <1>7
  <2> HIDE DEF i, j
  <2>2. i * par = j * par <=> i = j
    BY <2>1, CancelFactor
  <2>. QED
    BY <2>2 DEF i, j
<1>11. c * G + q = y * G + q <=> c * G = y * G
  <2>1. c * G \in Int /\ y * G \in Int
    BY <1>6
  <2>. QED
    BY <1>7, <2>1
<1>12. c * G = y * G <=> c = y
  BY <1>6, CancelFactor
<1>. QED
  BY <1>8, <1>9, <1>10, <1>11, <1>12 DEF v, f

----------------------------------------------------------------------------
(* Net present values.                                                     *)

\* The flows of a project, discounted, over u^(Len(cashflows) - 1).
Discounted(cashflows, u) ==
  [t \in 1..Len(cashflows) |-> cashflows[t] * (Power(RateBase, t - 1) * Power(u, Len(cashflows) - t))]

\* They are integers.
LEMMA DiscountedType ==
  ASSUME NEW cashflows \in Seq(Int), NEW u \in Nat \ {0}
  PROVE  IntOn(Discounted(cashflows, u), 1..Len(cashflows)) /\ IsFiniteSet(1..Len(cashflows))
<1> DEFINE N == Len(cashflows)
<1>1. N \in Nat /\ \A t \in 1..N : cashflows[t] \in Int
  OBVIOUS
<1> HIDE DEF N
<1>2. ASSUME NEW t \in 1..N
      PROVE  cashflows[t] * (Power(RateBase, t - 1) * Power(u, N - t)) \in Int
  <2> DEFINE p == Power(RateBase, t - 1) * Power(u, N - t)
             x == cashflows[t]
  <2>1. p \in Nat \ {0}
    BY <1>1, RateAssumption, GeometricTerm
  <2>2. x \in Int
    BY <1>1
  <2> HIDE DEF p, x
  <2>3. x * p \in Int
    BY <2>1, <2>2
  <2>. QED
    BY <2>3 DEF x, p
<1>3. IsFiniteSet(1..N)
  BY <1>1, IntervalFinite
<1>. QED
  BY <1>2, <1>3 DEF Discounted, IntOn, N

\* npv is their sum.
LEMMA NpvIs ==
  ASSUME NEW cashflows \in Seq(Int), cashflows # <<>>, NEW rate \in Int, NEW u, Grows(u, rate)
  PROVE  /\ npv(cashflows, rate) \in Fraction
         /\ Is(npv(cashflows, rate), SumFunctionOnSet(Discounted(cashflows, u), 1..Len(cashflows)),
               Power(u, Len(cashflows) - 1))
         /\ SumFunctionOnSet(Discounted(cashflows, u), 1..Len(cashflows)) \in Int
         /\ Power(u, Len(cashflows) - 1) \in Nat \ {0} /\ u \in Nat \ {0}
<1> DEFINE N == Len(cashflows)
           s == SumFunctionOnSet(Discounted(cashflows, u), 1..N)
           p == Power(u, N - 1)
           g == [t \in 1..N |-> cashflows[t] * Power(RateBase, t - 1) * Power(u, N - t)]
<1>1. u \in Nat \ {0} /\ u = RateBase + rate
  BY RateAssumption DEF Grows
<1>2. N \in Nat /\ N - 1 \in Nat /\ \A t \in 1..N : cashflows[t] \in Int
  OBVIOUS
<1>3. npv(cashflows, rate) = Frac(SumFunction(g), p)
  BY <1>1 DEF npv, Sigma
<1>4. p \in Nat \ {0}
  <2> DEFINE i == N - 1
  <2>1. i \in Nat
    BY <1>2
  <2> HIDE DEF i
  <2>2. Power(u, i) \in Nat \ {0}
    BY <1>1, <2>1, PowerPositive
  <2>. QED
    BY <2>2 DEF i
<1>5. g = Discounted(cashflows, u)
  <2>1. ASSUME NEW t \in 1..N
        PROVE  cashflows[t] * Power(RateBase, t - 1) * Power(u, N - t)
                 = cashflows[t] * (Power(RateBase, t - 1) * Power(u, N - t))
    <3> HIDE DEF N
    <3> DEFINE x == cashflows[t]
               i == Power(RateBase, t - 1)
               j == Power(u, N - t)
    <3>1. i \in Nat \ {0} /\ j \in Nat \ {0} /\ i * j \in Nat \ {0}
      BY <1>1, <1>2, RateAssumption, GeometricTerm
    <3>2. x \in Int
      BY <1>2
    <3> HIDE DEF x, i, j
    <3>3. x * i * j = x * (i * j)
      BY <3>1, <3>2
    <3>. QED
      BY <3>3 DEF x, i, j
  <2>. QED
    BY <2>1 DEF Discounted
<1>6. SumFunction(g) = s
  <2>1. SumFunction(g) = SumFunctionOnSet(g, 1..N)
    BY SigmaSum
  <2>. QED
    BY <1>5, <2>1
<1>7. s \in Int
  BY <1>1, DiscountedType, SumType
<1> HIDE DEF s, p, N, g
<1>8. Frac(s, p) \in Fraction /\ Is(Frac(s, p), s, p)
  BY <1>4, <1>7, FracIs
<1>. QED
  BY <1>1, <1>3, <1>4, <1>6, <1>7, <1>8 DEF s, p, N

\* The page of a bond lists what its price is the present value of, in parts of RateBase.
LEMMA ListedFlow ==
  ASSUME NEW par \in Nat, NEW c \in Nat, NEW u \in Nat \ {0}, NEW maturity,
         NEW n \in Nat \ {0}, n = Years(maturity), NEW t \in 0..n
  PROVE  /\ bond_cashflows(par, c, maturity) \in Seq(Int) /\ Len(bond_cashflows(par, c, maturity)) = n + 1
         /\ Discounted(bond_cashflows(par, c, maturity), u)[t + 1] = RateBase * Flow(par, c, u, n)[t]
<1> DEFINE flows == bond_cashflows(par, c, maturity)
           K == Coupon(par, c)
           P == par * RateBase
           p == Power(RateBase, t)
           q == Power(u, n - t)
           Q == Power(RateBase, n)
<1>0. RateBase \in Nat \ {0}
  BY RateAssumption
<1>1. K \in Nat /\ P \in Nat
  BY <1>0, NatProducts DEF Coupon
<1>2. flows = [s \in 1..(n + 1) |-> IF s = n + 1 THEN K + P ELSE IF s = 1 THEN 0 ELSE K]
  BY DEF bond_cashflows
<1> HIDE DEF K, P, flows
<1>3. flows \in Seq(Int) /\ Len(flows) = n + 1
  BY <1>1, <1>2
<1>4. t + 1 \in 1..(n + 1) /\ (t + 1) - 1 = t /\ (n + 1) - (t + 1) = n - t
  OBVIOUS
<1>5. Discounted(flows, u)[t + 1] = flows[t + 1] * (p * q)
  BY <1>3, <1>4 DEF Discounted
<1>6. Flow(par, c, u, n)[t] = (IF t = 0 THEN 0 ELSE K * (Power(RateBase, t - 1) * q)) + (IF t = n THEN par * Q ELSE 0)
  BY DEF Flow, K
<1>7. /\ p \in Nat \ {0}
      /\ Q \in Nat \ {0}
      /\ t # 0 => Power(RateBase, t - 1) \in Nat \ {0} /\ p = RateBase * Power(RateBase, t - 1)
  <2>1. p \in Nat \ {0} /\ Q \in Nat \ {0}
    BY <1>0, PowerPositive
  <2>2. ASSUME t # 0
        PROVE  Power(RateBase, t - 1) \in Nat \ {0} /\ p = RateBase * Power(RateBase, t - 1)
    <3> DEFINE s == t - 1
    <3>1. s \in Nat /\ s + 1 = t
      BY <2>2
    <3> HIDE DEF s
    <3>2. Power(RateBase, s) \in Nat \ {0}
      BY <1>0, <3>1, PowerPositive
    <3>3. Power(RateBase, s + 1) = RateBase * Power(RateBase, s)
      BY <1>0, <3>1, PowerType
    <3>. QED
      BY <3>1, <3>2, <3>3 DEF s
  <2>. QED
    BY <2>1, <2>2
<1>8. q \in Nat \ {0} /\ (t = n => q = 1)
  <2> DEFINE s == n - t
  <2>1. s \in Nat /\ (t = n => s = 0)
    OBVIOUS
  <2> HIDE DEF s
  <2>2. Power(u, s) \in Nat \ {0}
    BY <2>1, PowerPositive
  <2>3. Power(u, 0) = 1
    BY <2>1, PowerType
  <2>. QED
    BY <2>1, <2>2, <2>3 DEF s
<1> DEFINE o == Power(RateBase, t - 1)
<1>9. flows[t + 1] * (p * q) = RateBase * Flow(par, c, u, n)[t]
  <2>1. CASE t = 0
    <3>1. flows[t + 1] = 0 /\ Flow(par, c, u, n)[t] = 0
      BY <1>2, <1>4, <1>6, <2>1
    <3>. QED
      BY <1>0, <1>7, <1>8, <3>1, NatProducts
  <2>2. CASE t # 0 /\ t # n
    <3>1. flows[t + 1] = K /\ Flow(par, c, u, n)[t] = K * (o * q) + 0
      BY <1>2, <1>4, <1>6, <2>2
    <3>2. o \in Nat /\ p = RateBase * o
      BY <1>7, <2>2
    <3> HIDE DEF o, q, p
    <3>3. K * ((RateBase * o) * q) = RateBase * (K * (o * q))
      BY <1>0, <1>1, <1>8, <3>2
    <3>4. K * (o * q) \in Nat
      BY <1>1, <1>8, <3>2, NatProducts
    <3>. QED
      BY <3>1, <3>2, <3>3, <3>4
  <2>3. CASE t = n
    <3>1. flows[t + 1] = K + P /\ Flow(par, c, u, n)[t] = K * (o * q) + par * Q /\ Q = p
      BY <1>2, <1>4, <1>6, <2>3
    <3>2. o \in Nat /\ p = RateBase * o /\ q = 1
      BY <1>7, <1>8, <2>3
    <3> HIDE DEF o, q, p, Q
    <3>3. (K + par * RateBase) * ((RateBase * o) * 1) = RateBase * (K * (o * 1) + par * (RateBase * o))
      BY <1>0, <1>1, <3>2
    <3>. QED
      BY <3>1, <3>2, <3>3 DEF P
  <2>. QED
    BY <2>1, <2>2, <2>3
<1>. QED
  BY <1>3, <1>5, <1>9 DEF flows

\* So the price of a bond of at least a year is the npv of what its page lists.
LEMMA ListedFlows ==
  ASSUME NEW par \in Nat, NEW c \in Nat, NEW y \in Int, NEW u, Grows(u, y), NEW maturity,
         NEW n \in Nat \ {0}, n = Years(maturity)
  PROVE  Same(npv(bond_cashflows(par, c, maturity), y), Times(PV0(par, c, y, n), Frac(RateBase, 1)))
<1> DEFINE flows == bond_cashflows(par, c, maturity)
           S == 0..n
           R == 1..(n + 1)
           h == [t \in S |-> t + 1]
           W == Flow(par, c, u, n)
           f == [t \in S |-> RateBase * W[t]]
           g == Discounted(flows, u)
           v == npv(flows, y)
           x == PV0(par, c, y, n)
           s == SumFunctionOnSet(g, R)
           i == Worth(par, c, u, n)
           p == Power(u, n)
<1>0. RateBase \in Nat \ {0} /\ u \in Nat \ {0} /\ IsFiniteSet(S)
  BY RateAssumption, IntervalFinite DEF Grows
<1>1. flows \in Seq(Int) /\ Len(flows) = n + 1
  <2>1. 0 \in 0..n
    OBVIOUS
  <2>. QED
    BY <1>0, <2>1, ListedFlow
<1>2. \A t \in S : g[t + 1] = RateBase * W[t]
  BY <1>0, ListedFlow
<1>3. W \in [S -> Nat]
  BY <1>0, FlowType
<1>4. i = SumFunctionOnSet(W, S)
  BY DEF Worth
<1>5. v \in Fraction /\ Is(v, SumFunctionOnSet(g, 1..Len(flows)), Power(u, Len(flows) - 1))
        /\ SumFunctionOnSet(g, 1..Len(flows)) \in Int
  <2>1. flows # <<>>
    BY <1>1
  <2> HIDE DEF flows
  <2>. QED
    BY <1>1, <2>1, NpvIs
<1>6. Is(v, s, p) /\ s \in Int
  <2>1. (n + 1) - 1 = n
    OBVIOUS
  <2>. QED
    BY <1>1, <1>5, <2>1
<1>7. \A t \in S : h[t] \in R /\ h[t] = t + 1
  OBVIOUS
<1>8. \A k \in R : \E t \in S : k = h[t]
  <2>1. ASSUME NEW k \in R
        PROVE  \E t \in S : k = h[t]
    <3>1. k - 1 \in S /\ k = (k - 1) + 1
      OBVIOUS
    <3>. QED
      BY <3>1
  <2>. QED
    BY <2>1
<1>9. \A k, t \in S : h[k] = h[t] => k = t
  OBVIOUS
<1>10. \A t \in S : f[t] \in Int /\ f[t] = RateBase * W[t] /\ W[t] \in Int
  <2> HIDE DEF W
  <2>. QED
    BY <1>0, <1>3
<1> HIDE DEF W, flows, g, S, R, h, f
<1>11. IntOn(f, S) /\ IntOn(W, S) /\ RateBase \in Int
  BY <1>0, <1>10 DEF IntOn
<1>12. \A t \in S : g[h[t]] = f[t]
  BY <1>2, <1>7, <1>10
<1>13. \A t \in S : h[t] \in R
  BY <1>7
<1>14. SumFunctionOnSet(g, R) = SumFunctionOnSet(f, S)
  BY <1>0, <1>8, <1>9, <1>11, <1>12, <1>13, SumImage
<1>15. \A t \in S : f[t] = RateBase * W[t]
  BY <1>10
<1>16. SumFunctionOnSet(f, S) = RateBase * SumFunctionOnSet(W, S)
  BY <1>0, <1>11, <1>15, SumScaled
<1>17. x \in Fraction /\ Is(x, i, p) /\ p \in Nat \ {0} /\ i \in Nat
  BY BondSums
<1>18. Frac(RateBase, 1) \in Fraction /\ Is(Frac(RateBase, 1), RateBase, 1)
  BY <1>0, FracIs
<1> DEFINE z == Times(x, Frac(RateBase, 1))
           j == i * RateBase
           k == p * 1
<1>19. s = RateBase * i
  BY <1>4, <1>14, <1>16
<1> HIDE DEF x, i, p, v, s
<1>20. z \in Fraction /\ Is(z, j, k)
  BY <1>0, <1>17, <1>18, TimesIs
<1>21. j \in Int /\ k \in Nat \ {0} /\ s * k = j * p
  <2>1. j = s
    BY <1>0, <1>17, <1>19
  <2>. QED
    BY <1>6, <1>17, <2>1
<1> HIDE DEF z, j, k
<1>22. Same(v, z)
  BY <1>5, <1>6, <1>17, <1>20, <1>21, CompareIs
<1>. QED
  BY <1>22 DEF v, z, flows, x

----------------------------------------------------------------------------
(* The figures of a page.                                                  *)

\* A maturity in half years has whole years.
LEMMA HalfYears ==
  ASSUME NEW maturity \in Nat
  PROVE  Years(maturity) \in Nat
  BY DEF Years

\* The price is the present value that is not weighted.
LEMMA PriceIs ==
  ASSUME NEW par, NEW c, NEW y, NEW maturity, NEW n, n = Years(maturity)
  PROVE  bond_price(par, c, y, maturity) = PV0(par, c, y, n)
  BY DEF bond_price, PV0

\* Without a par there are no flows, and no price.
LEMMA NoPar ==
  ASSUME NEW c \in Nat, NEW y \in Int, NEW u, Grows(u, y), NEW n \in Nat
  PROVE  PV0(0, c, y, n) \in Fraction /\ Is(PV0(0, c, y, n), 0, Power(u, n)) /\ Power(u, n) \in Nat \ {0}
<1>1. PV0(0, c, y, n) \in Fraction /\ Is(PV0(0, c, y, n), Worth(0, c, u, n), Power(u, n))
  BY BondSums
<1>2. u \in Nat \ {0} /\ Power(u, n) \in Nat \ {0}
  BY BondSums
<1>3. Worth(0, c, u, n) = Coupon(0, c) * Geometric(RateBase, u, n) + 0 * Power(RateBase, n)
  BY <1>2, WorthIs
<1>4. Coupon(0, c) = 0 /\ Geometric(RateBase, u, n) \in Int /\ Power(RateBase, n) \in Int
  <2>1. Geometric(RateBase, u, n) \in Int
    BY <1>2, RateAssumption, GeometricIs
  <2>2. Power(RateBase, n) \in Int
    BY RateAssumption, PowerPositive
  <2>. QED
    BY <2>1, <2>2 DEF Coupon
<1>5. Worth(0, c, u, n) = 0
  BY <1>3, <1>4
<1>. QED
  BY <1>1, <1>2, <1>5

\* The numbers of a bond as they are meant to be.
BondNumbers(m) ==
  m.par \in Nat /\ m.coupon_rate \in Nat /\ m.maturity_years \in Nat /\ m.ytm \in Int /\ m.ytm > Lo

\* Above the least rate, money grows to something positive.
LEMMA GrowsFrom ==
  ASSUME NEW y \in Int, y > Lo
  PROVE  Grows(RateBase + y, y) /\ RateBase + y \in Nat \ {0} /\ RateBase + y > 1
  BY RateAssumption DEF Grows, Lo

\* An ordinary bond has such numbers.
LEMMA OrdinaryBond ==
  ASSUME NEW r, Ordinary(r), BondFields \subseteq DOMAIN r.metrics_json
  PROVE  BondNumbers(r.metrics_json) /\ r.notional \in Nat
  BY DEF Ordinary, BondFields, BondNumbers

\* The value of a bond that has all fields.
LEMMA ValueOfBond ==
  ASSUME NEW r, r.kind = "BOND", NEW m, m = r.metrics_json, BondFields \subseteq DOMAIN m
  PROVE  compute(r).current_value =
           Times(bond_price(m.par, m.coupon_rate, m.ytm, m.maturity_years),
                 IF m.par = 0 THEN Frac(1, 1) ELSE Frac(r.notional, m.par))
  BY DEF compute, ComputeBond, Measures, Get, BondFields

\* The price times what one unit of it stands for is the value of the position.
LEMMA BondPosition ==
  ASSUME NEW r, r.kind = "BOND", Ordinary(r), NEW m, m = r.metrics_json, BondFields \subseteq DOMAIN m
  PROVE  Same(Times(bond_price(m.par, m.coupon_rate, m.ytm, m.maturity_years), _product_position_factor(r)),
              compute(r).current_value)
<1> DEFINE n == Years(m.maturity_years)
           x == PV0(m.par, m.coupon_rate, m.ytm, n)
           u == RateBase + m.ytm
           a == Frac(r.notional, Or(m.par, Default.par))
           b == IF m.par = 0 THEN Frac(1, 1) ELSE Frac(r.notional, m.par)
<1>1. BondNumbers(m) /\ r.notional \in Nat
  BY OrdinaryBond
<1>2. n \in Nat /\ Grows(u, m.ytm)
  BY <1>1, HalfYears, GrowsFrom DEF BondNumbers
<1>3. bond_price(m.par, m.coupon_rate, m.ytm, m.maturity_years) = x
  BY PriceIs
<1>4. _product_position_factor(r) = a
  BY DEF _product_position_factor, Get, BondFields
<1>5. compute(r).current_value = Times(x, b)
  BY <1>3, ValueOfBond
<1>6. Default.par \in Nat \ {0}
  BY DefaultAssumption
<1> HIDE DEF n, u
<1>7. Same(Times(x, a), Times(x, b))
  <2>1. CASE m.par # 0
    <3>1. a = b
      BY <2>1 DEF Or
    <3>2. x \in Fraction
      BY <1>1, <1>2, BondSums DEF BondNumbers
    <3>3. m.par \in Nat \ {0} /\ b = Frac(r.notional, m.par)
      BY <1>1, <2>1 DEF BondNumbers
    <3>4. b \in Fraction
      BY <1>1, <3>3, FracIs
    <3>. QED
      BY <3>1 DEF Same
  <2>2. CASE m.par = 0
    <3>1. x \in Fraction /\ Is(x, 0, Power(u, n)) /\ Power(u, n) \in Nat \ {0}
      BY <1>1, <1>2, <2>2, NoPar DEF BondNumbers
    <3>2. a \in Fraction /\ Is(a, r.notional, Default.par)
      BY <1>1, <1>6, <2>2, FracIs DEF Or
    <3>3. b \in Fraction /\ Is(b, 1, 1)
      BY <2>2, FracIs
    <3> DEFINE i == Times(x, a)
               j == Times(x, b)
               p == Power(u, n)
               d == p * Default.par
               e == p * 1
               k == 0 * r.notional
    <3> HIDE DEF x, a, b, p
    <3>4. i \in Fraction /\ Is(i, k, d)
      BY <1>1, <1>6, <3>1, <3>2, TimesIs DEF p
    <3>5. j \in Fraction /\ Is(j, 0 * 1, e)
      BY <3>1, <3>3, TimesIs DEF p
    <3>6. p \in Nat \ {0}
      BY <3>1 DEF p
    <3>7. d \in Nat \ {0} /\ e \in Nat \ {0} /\ k = 0 /\ 0 * 1 = 0
      BY <1>1, <1>6, <3>6, NatProducts
    <3> HIDE DEF i, j, d, e, k
    <3>8. Is(i, 0, d) /\ Is(j, 0, e)
      BY <3>4, <3>5, <3>7
    <3>9. Same(i, j) <=> 0 * e = 0 * d
      BY <3>4, <3>5, <3>7, <3>8, CompareIs
    <3>. QED
      BY <3>7, <3>9 DEF i, j
  <2>. QED
    BY <2>1, <2>2
<1>. QED
  BY <1>3, <1>4, <1>5, <1>7

\* All that MeasuresSound says of a bond.
LEMMA BondFigures ==
  ASSUME NEW r, r.kind = "BOND", Ordinary(r), NEW m, m = r.metrics_json, BondFields \subseteq DOMAIN m
  PROVE  BondAgrees(r, m, bond_price(m.par, m.coupon_rate, m.ytm, m.maturity_years), compute(r).current_value)
<1> DEFINE n == Years(m.maturity_years)
           x == PV0(m.par, m.coupon_rate, m.ytm, n)
           u == RateBase + m.ytm
           d == macaulay_duration(m.par, m.coupon_rate, m.ytm, m.maturity_years)
<1>1. BondNumbers(m)
  BY OrdinaryBond
<1>2. n \in Nat /\ Grows(u, m.ytm)
  BY <1>1, HalfYears, GrowsFrom DEF BondNumbers
<1>3. bond_price(m.par, m.coupon_rate, m.ytm, m.maturity_years) = x
  BY PriceIs
<1>4. MaturityOf(r) = n
  BY DEF MaturityOf, Get, BondFields
<1>5. Leq(Times(d, Plus(d, Frac(1, 1))),
          Times(convexity(m.par, m.coupon_rate, m.ytm, m.maturity_years), Frac(u * u, RateBase * RateBase)))
  <2> HIDE DEF d, u
  <2>. QED
    BY <1>1, <1>2, ConvexEnough DEF BondNumbers, d
<1>6. ASSUME n > 0
      PROVE  /\ m.par > 0 => (Same(x, Frac(m.par, 1)) <=> m.coupon_rate = m.ytm)
             /\ Same(npv(bond_cashflows(m.par, m.coupon_rate, m.maturity_years), m.ytm), Times(x, Frac(RateBase, 1)))
  <2>1. n \in Nat \ {0}
    BY <1>2, <1>6
  <2> HIDE DEF n, u
  <2>2. ASSUME m.par > 0
        PROVE  Same(x, Frac(m.par, 1)) <=> m.coupon_rate = m.ytm
    <3>1. m.par \in Nat \ {0}
      BY <1>1, <2>2 DEF BondNumbers
    <3>. QED
      BY <1>1, <1>2, <2>1, <3>1, AtPar DEF BondNumbers
  <2>3. Same(npv(bond_cashflows(m.par, m.coupon_rate, m.maturity_years), m.ytm), Times(x, Frac(RateBase, 1)))
    BY <1>1, <1>2, <2>1, ListedFlows DEF BondNumbers, n
  <2>. QED
    BY <2>2, <2>3
<1>7. Same(Times(x, _product_position_factor(r)), compute(r).current_value)
  BY <1>3, BondPosition
<1> HIDE DEF x, n
<1>. QED
  BY <1>3, <1>4, <1>5, <1>6, <1>7 DEF BondAgrees

\* The position of a stock is its price times its shares.
LEMMA StockPosition ==
  ASSUME NEW r, r.kind = "STOCK", Ordinary(r), NEW m, m = r.metrics_json,
         "current_price" \in DOMAIN m, Get(m, "shares", 0) > 0
  PROVE  Same(Times(Frac(m.current_price, 1), _product_position_factor(r)), compute(r).current_value)
<1>1. "shares" \in DOMAIN m
  BY DEF Get
<1>2. m.current_price \in Nat /\ m.shares \in Nat \ {0} /\ Get(m, "shares", 0) # 0
  BY <1>1 DEF Ordinary, Get
<1> DEFINE a == Frac(m.current_price, 1)
           b == Frac(m.shares, 1)
           k == m.current_price * m.shares
           c == Frac(k, 1)
<1>3. _product_position_factor(r) = b
  BY <1>1, <1>2 DEF _product_position_factor, Get
<1>4. compute(r).current_value = c
  BY <1>1 DEF compute, ComputeStock, Position, Measures
<1>5. a \in Fraction /\ Is(a, m.current_price, 1)
  BY <1>2, FracIs
<1>6. b \in Fraction /\ Is(b, m.shares, 1)
  BY <1>2, FracIs
<1>7. k \in Nat
  BY <1>2, NatProducts
<1> DEFINE t == Times(a, b)
<1>8. t \in Fraction /\ Is(t, k, 1 * 1)
  <2> HIDE DEF a, b
  <2>. QED
    BY <1>2, <1>5, <1>6, TimesIs
<1>9. Is(t, k, 1)
  BY <1>8
<1> HIDE DEF k, t
<1>10. c \in Fraction /\ Is(c, k, 1)
  BY <1>7, FracIs
<1> HIDE DEF c
<1>11. Same(t, c) <=> k * 1 = k * 1
  BY <1>7, <1>8, <1>9, <1>10, CompareIs
<1>. QED
  BY <1>3, <1>4, <1>11 DEF t

\* All that it says of a product.
LEMMA FiguresAgree ==
  ASSUME NEW r, Ordinary(r)
  PROVE  MeasuresAgree(r, r.metrics_json, compute(r))
  BY BondFigures, StockPosition DEF MeasuresAgree

\* Every ordinary bond is worth the npv of the flows its page lists, stands at par exactly when its
\* coupon is its yield and is as convex as its duration makes it, and the position of the price history
\* is the value of the page (metrics.py 29-182, views.py 119-132).
THEOREM FiguresHold == Spec => []FiguresSound
<1>1. FiguresSound
  BY FiguresAgree DEF FiguresSound
<1>. QED
  BY <1>1, PTL

----------------------------------------------------------------------------
(* Projects.                                                               *)

\* The years from each of N flows to the last.
LeftAfter(N) == [t \in 1..N |-> N - t]
\* The flows, grown with the base.
Growing(cashflows) == [t \in 1..Len(cashflows) |-> cashflows[t] * Power(RateBase, t - 1)]

\* The flows of a project are discounted as those of a bond are.
LEMMA DiscountedIs ==
  ASSUME NEW cashflows \in Seq(Nat), NEW N, N = Len(cashflows), N # 0, NEW u \in Nat \ {0}
  PROVE  /\ Growing(cashflows) \in [1..N -> Nat] /\ LeftAfter(N) \in [1..N -> 0..(N - 1)]
         /\ Discounts(Discounted(cashflows, u), Growing(cashflows), LeftAfter(N), u, 1..N)
<1>1. N \in Nat \ {0} /\ \A t \in 1..N : cashflows[t] \in Nat
  OBVIOUS
<1>2. ASSUME NEW t \in 1..N
      PROVE  /\ cashflows[t] * Power(RateBase, t - 1) \in Nat
             /\ cashflows[t] * (Power(RateBase, t - 1) * Power(u, N - t))
                  = (cashflows[t] * Power(RateBase, t - 1)) * Power(u, N - t)
  <2> DEFINE x == cashflows[t]
             p == Power(RateBase, t - 1)
             q == Power(u, N - t)
  <2>1. p \in Nat \ {0} /\ q \in Nat \ {0}
    BY <1>1, RateAssumption, GeometricTerm
  <2>2. x \in Nat
    BY <1>1
  <2> HIDE DEF x, p, q
  <2>3. x * p \in Nat
    BY <2>1, <2>2, NatProducts
  <2>4. x * (p * q) = (x * p) * q
    BY <2>1, <2>2
  <2>. QED
    BY <2>3, <2>4 DEF x, p, q
<1>3. LeftAfter(N) \in [1..N -> 0..(N - 1)] /\ \A t \in 1..N : LeftAfter(N)[t] = N - t
  BY <1>1 DEF LeftAfter
<1>4. Growing(cashflows) \in [1..N -> Nat]
  BY <1>2 DEF Growing
<1>. QED
  BY <1>2, <1>3, <1>4 DEF Discounts, Discounted, Growing

\* At a higher rate, flows none of which is negative are worth no more.
LEMMA CheaperFlows ==
  ASSUME NEW cashflows \in Seq(Nat), cashflows # <<>>, NEW y \in Int, NEW z \in Int,
         NEW u, Grows(u, y), NEW v, Grows(v, z), y <= z
  PROVE  Leq(npv(cashflows, z), npv(cashflows, y))
<1> DEFINE N == Len(cashflows)
           n == N - 1
           S == 1..N
           k == Growing(cashflows)
           e == LeftAfter(N)
           f == Discounted(cashflows, u)
           g == Discounted(cashflows, v)
           i == SumFunctionOnSet(f, S)
           j == SumFunctionOnSet(g, S)
           p == Power(u, n)
           q == Power(v, n)
           a == npv(cashflows, y)
           b == npv(cashflows, z)
<1>1. u \in Nat \ {0} /\ v \in Nat \ {0} /\ u <= v
  BY RateAssumption DEF Grows
<1>2. N # 0 /\ n \in Nat /\ cashflows \in Seq(Int) /\ IsFiniteSet(S)
  <2>1. N \in Nat \ {0}
    OBVIOUS
  <2>. QED
    BY <2>1, IntervalFinite
<1>3. k \in [S -> Nat] /\ e \in [S -> 0..n] /\ Discounts(f, k, e, u, S)
  BY <1>1, <1>2, DiscountedIs
<1>4. Discounts(g, k, e, v, S)
  BY <1>1, <1>2, DiscountedIs
<1>5. a \in Fraction /\ Is(a, i, p) /\ i \in Int /\ p \in Nat \ {0}
  BY <1>2, NpvIs
<1>6. b \in Fraction /\ Is(b, j, q) /\ j \in Int /\ q \in Nat \ {0}
  BY <1>2, NpvIs
<1> HIDE DEF k, e, f, g, S, n, a, b
<1>7. j * p <= i * q
  BY <1>1, <1>2, <1>3, <1>4, FasterLeavesLess
<1> HIDE DEF i, j, p, q
<1>8. Leq(b, a)
  BY <1>5, <1>6, <1>7, CompareIs
<1>. QED
  BY <1>8 DEF a, b

\* Such flows are worth nothing negative.
LEMMA FlowsWorth ==
  ASSUME NEW cashflows \in Seq(Nat), cashflows # <<>>, NEW y \in Int, NEW u, Grows(u, y)
  PROVE  npv(cashflows, y).n >= 0
<1> DEFINE N == Len(cashflows)
           S == 1..N
           f == Discounted(cashflows, u)
           i == SumFunctionOnSet(f, S)
           p == Power(u, N - 1)
           a == npv(cashflows, y)
<1>1. u \in Nat \ {0} /\ cashflows \in Seq(Int)
  BY RateAssumption DEF Grows
<1>2. N # 0 /\ N \in Nat
  OBVIOUS
<1>3. a \in Fraction /\ Is(a, i, p) /\ i \in Int /\ p \in Nat \ {0}
  BY <1>1, NpvIs
<1>4. IntOn(f, S) /\ IsFiniteSet(S)
  BY <1>1, DiscountedType
<1>5. \A t \in S : f[t] >= 0
  <2> DEFINE k == Growing(cashflows)
             e == LeftAfter(N)
  <2>1. k \in [S -> Nat] /\ e \in [S -> 0..(N - 1)] /\ Discounts(f, k, e, u, S)
    BY <1>1, <1>2, DiscountedIs
  <2> HIDE DEF k, e, f, S, N
  <2>2. ASSUME NEW t \in S
        PROVE  f[t] >= 0
    <3> DEFINE h == e[t]
               w == Power(u, h)
    <3>1. k[t] \in Nat /\ h \in Nat
      BY <1>2, <2>1
    <3>2. f[t] = k[t] * w
      BY <2>1 DEF Discounts
    <3> HIDE DEF h
    <3>3. w \in Nat \ {0}
      BY <1>1, <3>1, PowerPositive
    <3> HIDE DEF w
    <3>4. k[t] * w \in Nat
      BY <3>1, <3>3, NatProducts
    <3>. QED
      BY <3>2, <3>4
  <2>. QED
    BY <2>2
<1> HIDE DEF f, S, p, a
<1>6. i >= 0
  BY <1>4, <1>5, SumNonnegative
<1> HIDE DEF i
<1>7. a.n >= 0
  BY <1>3, <1>6, Sign
<1>. QED
  BY <1>7 DEF a

\* What an ordinary project counts with.
LEMMA FlowsTyped ==
  ASSUME NEW r, Ordinary(r)
  PROVE  /\ Flows(r) \in Seq(Int) /\ Flows(r) # <<>>
         /\ [Flows(r) EXCEPT ![1] = 0] \in Seq(Int) /\ [Flows(r) EXCEPT ![1] = 0] # <<>>
         /\ r.kind = "PROJECT" /\ ~Falls(r) => [Flows(r) EXCEPT ![1] = 0] \in Seq(Nat)
<1> DEFINE raw == Get(r.metrics_json, "cashflows", <<>>)
           f == Flows(r)
           g == [f EXCEPT ![1] = 0]
<1>1. raw \in Seq(Int) /\ r.notional \in Nat
  <2>1. <<>> \in Seq(Int)
    OBVIOUS
  <2>. QED
    BY <2>1 DEF Ordinary, Get
<1>2. f \in Seq(Int) /\ f # <<>>
  <2>1. CASE raw # <<>>
    BY <1>1, <2>1 DEF Flows
  <2>2. CASE raw = <<>>
    <3> DEFINE d == [t \in 1..4 |-> (<<-10, 3, 4, 5>>[t] * r.notional) \div 10]
    <3>1. f = d
      BY <2>2 DEF Flows
    <3>2. ASSUME NEW t \in 1..4
          PROVE  (<<-10, 3, 4, 5>>[t] * r.notional) \div 10 \in Int
      <4>1. <<-10, 3, 4, 5>>[t] \in Int
        OBVIOUS
      <4>2. <<-10, 3, 4, 5>>[t] * r.notional \in Int
        BY <1>1, <4>1
      <4>. QED
        BY <4>2
    <3>3. d \in Seq(Int) /\ Len(d) = 4
      BY <3>2
    <3> HIDE DEF d
    <3>4. Len(<<>>) # 4
      OBVIOUS
    <3>5. d # <<>>
      BY <3>3, <3>4, Zenon
    <3>. QED
      BY <3>1, <3>3, <3>5
  <2>. QED
    BY <2>1, <2>2
<1> HIDE DEF f
<1>3. Len(f) \in Nat \ {0} /\ DOMAIN f = 1..Len(f)
  BY <1>2
<1>4. g \in Seq(Int) /\ Len(g) = Len(f) /\ \A t \in 1..Len(f) : g[t] = IF t = 1 THEN 0 ELSE f[t]
  BY <1>2, <1>3
<1>5. ASSUME r.kind = "PROJECT", ~Falls(r)
      PROVE  g \in Seq(Nat)
  <2>1. \A t \in 2..Len(f) : f[t] >= 0
    <3>1. \A t \in 2..Len(f) : ~(f[t] < 0)
      BY <1>5 DEF Falls, f
    <3>2. \A t \in 2..Len(f) : f[t] \in Int
      BY <1>2
    <3>. QED
      BY <3>1, <3>2
  <2>2. \A t \in 1..Len(f) : g[t] \in Nat
    BY <1>2, <1>4, <2>1
  <2> HIDE DEF g
  <2>. QED
    BY <1>4, <2>2
<1>6. g # <<>>
  BY <1>3, <1>4
<1>. QED
  BY <1>2, <1>4, <1>5, <1>6 DEF f

----------------------------------------------------------------------------
(* What a product is worth, and what a shock makes of it.                  *)

\* The numbers compute goes by, defaults filled in.
ParOf(r) == Get(r.metrics_json, "par", Default.par)
CouponOf(r) == Get(r.metrics_json, "coupon_rate", Default.coupon_rate)
YieldOf(r) == Get(r.metrics_json, "ytm", Default.ytm)
TermOf(r) == Get(r.metrics_json, "maturity_years", Default.maturity_years)
RateOf(r) == Get(r.metrics_json, "discount_rate", Default.discount_rate)
Scale(r) == IF ParOf(r) = 0 THEN Frac(1, 1) ELSE Frac(r.notional, ParOf(r))
StillToCome(r) == [Flows(r) EXCEPT ![1] = 0]

\* A bond that is ordinary, but for its yield.
BondBut(r) ==
  r.kind = "BOND" /\ ParOf(r) \in Nat /\ CouponOf(r) \in Nat /\ TermOf(r) \in Nat /\ r.notional \in Nat

\* Those of an ordinary product.
LEMMA OrdinaryRates ==
  ASSUME NEW r, Ordinary(r)
  PROVE  /\ YieldOf(r) \in Int /\ YieldOf(r) > Lo
         /\ RateOf(r) \in Int /\ RateOf(r) > Lo
         /\ r.kind = "BOND" => BondBut(r)
<1>1. /\ Default.ytm \in Nat \ {0} /\ Default.discount_rate \in Nat \ {0} /\ Default.par \in Nat \ {0}
      /\ Default.coupon_rate \in Nat \ {0} /\ Default.maturity_years \in Nat \ {0}
  BY DefaultAssumption
<1>2. Lo \in Int /\ Lo < 0
  BY RateAssumption DEF Lo
<1>3. Default.ytm > Lo /\ Default.discount_rate > Lo
  BY <1>1, <1>2
<1>4. YieldOf(r) \in Int /\ YieldOf(r) > Lo
  BY <1>1, <1>3 DEF YieldOf, Get, Ordinary
<1>5. RateOf(r) \in Int /\ RateOf(r) > Lo
  BY <1>1, <1>3 DEF RateOf, Get, Ordinary
<1>6. ParOf(r) \in Nat /\ CouponOf(r) \in Nat /\ TermOf(r) \in Nat /\ r.notional \in Nat
  <2>1. ParOf(r) \in Nat
    BY <1>1 DEF ParOf, Get, Ordinary
  <2>2. CouponOf(r) \in Nat
    BY <1>1 DEF CouponOf, Get, Ordinary
  <2>3. TermOf(r) \in Nat
    BY <1>1 DEF TermOf, Get, Ordinary
  <2>. QED
    BY <2>1, <2>2, <2>3 DEF Ordinary
<1>. QED
  BY <1>4, <1>5, <1>6 DEF BondBut

\* The value of a bond is the price on a scale.
LEMMA BondValue ==
  ASSUME NEW r, r.kind = "BOND"
  PROVE  compute(r).current_value = Times(PV0(ParOf(r), CouponOf(r), YieldOf(r), Years(TermOf(r))), Scale(r))
<1>1. compute(r).current_value = Times(bond_price(ParOf(r), CouponOf(r), YieldOf(r), TermOf(r)), Scale(r))
  BY DEF compute, ComputeBond, Measures, ParOf, CouponOf, YieldOf, TermOf, Scale
<1>2. bond_price(ParOf(r), CouponOf(r), YieldOf(r), TermOf(r))
        = PV0(ParOf(r), CouponOf(r), YieldOf(r), Years(TermOf(r)))
  BY PriceIs
<1>. QED
  BY <1>1, <1>2

\* The scale is not negative.
LEMMA ScaleIs ==
  ASSUME NEW r, BondBut(r)
  PROVE  Scale(r) \in Fraction /\ Scale(r).n >= 0
<1>1. CASE ParOf(r) = 0
  <2> DEFINE x == Frac(1, 1)
  <2>1. x \in Fraction /\ Is(x, 1, 1)
    BY FracIs
  <2> HIDE DEF x
  <2>2. x.n >= 0
    BY <2>1, Sign
  <2>. QED
    BY <1>1, <2>1, <2>2 DEF x, Scale
<1>2. CASE ParOf(r) # 0
  <2> DEFINE a == r.notional
             b == ParOf(r)
             x == Frac(a, b)
  <2>1. a \in Nat /\ b \in Nat \ {0} /\ Scale(r) = x
    BY <1>2 DEF BondBut, Scale
  <2> HIDE DEF a, b
  <2>2. x \in Fraction /\ Is(x, a, b)
    BY <2>1, FracIs
  <2> HIDE DEF x
  <2>3. x.n >= 0
    BY <2>1, <2>2, Sign
  <2>. QED
    BY <2>1, <2>2, <2>3
<1>. QED
  BY <1>1, <1>2

\* The value of a bond is not negative.
LEMMA BondWorthIs ==
  ASSUME NEW r, BondBut(r), YieldOf(r) \in Int, YieldOf(r) > Lo
  PROVE  compute(r).current_value \in Fraction /\ compute(r).current_value.n >= 0
<1> DEFINE par == ParOf(r)
           c == CouponOf(r)
           y == YieldOf(r)
           n == Years(TermOf(r))
           u == RateBase + y
           x == PV0(par, c, y, n)
           i == Worth(par, c, u, n)
           p == Power(u, n)
           s == Scale(r)
           v == Times(x, s)
<1>1. par \in Nat /\ c \in Nat /\ n \in Nat /\ y \in Int /\ r.kind = "BOND"
  BY HalfYears DEF BondBut
<1>2. Grows(u, y)
  BY GrowsFrom
<1>3. s \in Fraction /\ s.n >= 0
  BY ScaleIs
<1>4. compute(r).current_value = v
  BY <1>1, BondValue
<1> HIDE DEF par, c, y, n, u, s
<1>5. x \in Fraction /\ Is(x, i, p) /\ p \in Nat \ {0} /\ i \in Nat
  BY <1>1, <1>2, BondSums
<1> HIDE DEF x, i, p
<1>6. s.n \in Int /\ s.d \in Nat \ {0} /\ Is(s, s.n, s.d)
  BY <1>3, IsItself
<1> DEFINE a == i * s.n
           b == p * s.d
<1>7. v \in Fraction /\ Is(v, a, b)
  BY <1>3, <1>5, <1>6, TimesIs
<1>8. a \in Nat /\ b \in Nat \ {0}
  <2>1. s.n \in Nat
    BY <1>3, <1>6
  <2>. QED
    BY <1>5, <1>6, <2>1, NatProducts
<1> HIDE DEF v, a, b
<1>9. v.n >= 0
  BY <1>7, <1>8, Sign
<1>. QED
  BY <1>4, <1>7, <1>9

\* A bond with a higher yield is worth no more.
LEMMA HigherYield ==
  ASSUME NEW r, NEW q, BondBut(r), BondBut(q), ParOf(q) = ParOf(r), CouponOf(q) = CouponOf(r),
         TermOf(q) = TermOf(r), q.notional = r.notional,
         YieldOf(r) \in Int, YieldOf(q) \in Int, YieldOf(r) <= YieldOf(q), RateBase + YieldOf(r) > 0
  PROVE  Leq(compute(q).current_value, compute(r).current_value)
<1> DEFINE par == ParOf(r)
           c == CouponOf(r)
           y == YieldOf(r)
           z == YieldOf(q)
           n == Years(TermOf(r))
           u == RateBase + y
           w == RateBase + z
           a == PV0(par, c, y, n)
           b == PV0(par, c, z, n)
           s == Scale(r)
<1>1. par \in Nat /\ c \in Nat /\ n \in Nat /\ y \in Int /\ z \in Int /\ y <= z
  BY HalfYears DEF BondBut
<1>2. Grows(u, y) /\ Grows(w, z)
  BY RateAssumption DEF Grows
<1>3. s \in Fraction /\ s.n >= 0 /\ Scale(q) = s
  BY ScaleIs DEF Scale
<1>4. compute(r).current_value = Times(a, s)
  BY BondValue DEF BondBut
<1>5. compute(q).current_value = Times(b, s)
  <2>1. compute(q).current_value = Times(PV0(ParOf(q), CouponOf(q), YieldOf(q), Years(TermOf(q))), Scale(q))
    BY BondValue DEF BondBut
  <2>. QED
    BY <1>3, <2>1
<1> HIDE DEF par, c, y, z, n, u, w, s
<1>6. a \in Fraction
  BY <1>1, <1>2, BondSums
<1>7. b \in Fraction
  BY <1>1, <1>2, BondSums
<1>8. Leq(b, a)
  BY <1>1, <1>2, CheaperBond
<1> HIDE DEF a, b
<1>9. Leq(Times(b, s), Times(a, s))
  BY <1>3, <1>6, <1>7, <1>8, TimesMonotone
<1>. QED
  BY <1>4, <1>5, <1>9

\* The value of a project is the npv of what is still to come.
LEMMA ProjectValue ==
  ASSUME NEW r, r.kind = "PROJECT"
  PROVE  compute(r).current_value = npv(StillToCome(r), RateOf(r))
  BY DEF compute, ComputeProject, Measures, StillToCome, RateOf

\* It is not negative unless a flow is.
LEMMA ProjectWorthIs ==
  ASSUME NEW r, r.kind = "PROJECT", Ordinary(r)
  PROVE  compute(r).current_value \in Fraction /\ (~Falls(r) => compute(r).current_value.n >= 0)
<1> DEFINE f == StillToCome(r)
           y == RateOf(r)
           u == RateBase + y
<1>1. f \in Seq(Int) /\ f # <<>> /\ (~Falls(r) => f \in Seq(Nat))
  BY FlowsTyped DEF StillToCome
<1>2. y \in Int /\ y > Lo
  BY OrdinaryRates
<1>3. Grows(u, y)
  BY <1>2, GrowsFrom
<1>4. compute(r).current_value = npv(f, y)
  BY ProjectValue
<1> HIDE DEF f, y, u
<1>5. npv(f, y) \in Fraction
  BY <1>1, <1>2, <1>3, NpvIs
<1>6. ~Falls(r) => npv(f, y).n >= 0
  BY <1>1, <1>2, <1>3, FlowsWorth
<1>. QED
  BY <1>4, <1>5, <1>6

\* A project at a higher rate is worth no more.
LEMMA HigherRate ==
  ASSUME NEW r, NEW q, r.kind = "PROJECT", q.kind = "PROJECT", StillToCome(q) = StillToCome(r),
         StillToCome(r) \in Seq(Nat), StillToCome(r) # <<>>,
         RateOf(r) \in Int, RateOf(q) \in Int, RateOf(r) <= RateOf(q), RateBase + RateOf(r) > 0
  PROVE  Leq(compute(q).current_value, compute(r).current_value)
<1> DEFINE f == StillToCome(r)
           y == RateOf(r)
           z == RateOf(q)
           u == RateBase + y
           w == RateBase + z
<1>1. Grows(u, y) /\ Grows(w, z) /\ y \in Int /\ z \in Int /\ y <= z /\ f \in Seq(Nat) /\ f # <<>>
  BY RateAssumption DEF Grows
<1>2. compute(r).current_value = npv(f, y) /\ compute(q).current_value = npv(f, z)
  BY ProjectValue
<1> HIDE DEF f, y, z, u, w
<1>3. Leq(npv(f, z), npv(f, y))
  BY <1>1, CheaperFlows
<1>. QED
  BY <1>2, <1>3

\* The value of a stock or derivative is not negative.
LEMMA PositionWorth ==
  ASSUME NEW r, Ordinary(r), r.kind \in {"STOCK", "DERIV"}
  PROVE  compute(r).current_value \in Fraction /\ compute(r).current_value.n >= 0
<1>1. PICK i \in Nat : compute(r).current_value = Frac(i, 1)
  <2>1. CASE r.kind = "DERIV"
    BY <2>1 DEF compute, ComputeDeriv, Position, Measures, Ordinary
  <2>2. CASE r.kind = "STOCK" /\ {"current_price", "shares"} \subseteq DOMAIN r.metrics_json
    <3>1. r.metrics_json.current_price \in Nat /\ r.metrics_json.shares \in Nat
      BY <2>2 DEF Ordinary
    <3>2. r.metrics_json.current_price * r.metrics_json.shares \in Nat
      BY <3>1, NatProducts
    <3>. QED
      BY <2>2, <3>2 DEF compute, ComputeStock, Position, Measures
  <2>3. CASE r.kind = "STOCK" /\ ~({"current_price", "shares"} \subseteq DOMAIN r.metrics_json)
    BY <2>3 DEF compute, ComputeStock, Position, Measures, Ordinary
  <2>. QED
    BY <2>1, <2>2, <2>3
<1> DEFINE x == Frac(i, 1)
<1>2. x \in Fraction /\ Is(x, i, 1)
  BY FracIs
<1> HIDE DEF x
<1>3. x.n >= 0
  BY <1>2, Sign
<1>. QED
  BY <1>1, <1>2, <1>3 DEF x

\* The worth of an ordinary product, which is not negative unless a flow is.
LEMMA WorthOf ==
  ASSUME NEW r, Ordinary(r), r.kind \in Kind
  PROVE  compute(r).current_value \in Fraction /\ (~Falls(r) => compute(r).current_value.n >= 0)
<1>1. CASE r.kind \in {"STOCK", "DERIV"}
  BY <1>1, PositionWorth
<1>2. CASE r.kind = "BOND"
  BY <1>2, OrdinaryRates, BondWorthIs
<1>3. CASE r.kind = "PROJECT"
  BY <1>3, ProjectWorthIs
<1>. QED
  BY <1>1, <1>2, <1>3 DEF Kind

----------------------------------------------------------------------------
(* The order of the scenarios.                                             *)

\* What a scenario does not touch.
LEMMA ShockedGet ==
  ASSUME NEW p, ProductRow(p), NEW s, NEW k, k \notin {"volatility", "current_price"},
         k \notin DOMAIN RateShock(p, s), NEW d
  PROVE  Get(_apply_shocks(p, s).metrics_json, k, d) = Get(p.metrics_json, k, d)
<1> DEFINE R == RateShock(p, s)
           P == PriceShock(p, s)
           V == VolatilityShock(p, s)
           m == p.metrics_json
<1>1. _apply_shocks(p, s).metrics_json = Merge(R, Merge(P, Merge(V, m)))
  BY Shocked DEF ProductRow
<1>2. k \notin DOMAIN R /\ k \notin DOMAIN P /\ k \notin DOMAIN V
  BY ShockDomains
<1> HIDE DEF R, P, V, m
<1>3. Get(Merge(V, m), k, d) = Get(m, k, d)
  BY <1>2, GetBeside
<1>4. Get(Merge(P, Merge(V, m)), k, d) = Get(Merge(V, m), k, d)
  BY <1>2, GetBeside
<1>5. Get(Merge(R, Merge(P, Merge(V, m))), k, d) = Get(Merge(P, Merge(V, m)), k, d)
  BY <1>2, GetBeside
<1>. QED
  BY <1>1, <1>3, <1>4, <1>5 DEF m

\* What a shock of the rates makes of a bond.
LEMMA YieldMoves ==
  ASSUME NEW p, ProductRow(p), p.kind = "BOND", NEW s, s.interest_rate # 0,
         NEW q, q = _apply_shocks(p, s)
  PROVE  /\ q.kind = "BOND" /\ q.notional = p.notional
         /\ YieldOf(q) = YieldOf(p) + s.interest_rate
         /\ ParOf(q) = ParOf(p) /\ CouponOf(q) = CouponOf(p) /\ TermOf(q) = TermOf(p)
<1> DEFINE y == YieldOf(p) + s.interest_rate
           g == Merge(PriceShock(p, s), Merge(VolatilityShock(p, s), p.metrics_json))
<1>1. RateShock(p, s) = Set("ytm", y)
  BY DEF RateShock, YieldOf
<1>2. q.kind = "BOND" /\ q.notional = p.notional /\ q.metrics_json = Merge(RateShock(p, s), g)
  BY Shocked DEF ProductRow
<1> HIDE DEF y, g
<1>3. YieldOf(q) = y
  BY <1>1, <1>2, GetSet DEF YieldOf
<1>4. DOMAIN RateShock(p, s) = {"ytm"}
  BY <1>1 DEF Set
<1>5. ParOf(q) = ParOf(p)
  <2>1. "par" \notin {"volatility", "current_price"} /\ "par" \notin DOMAIN RateShock(p, s)
    BY <1>4
  <2>. QED
    BY <2>1, ShockedGet DEF ParOf
<1>6. CouponOf(q) = CouponOf(p)
  <2>1. "coupon_rate" \notin {"volatility", "current_price"} /\ "coupon_rate" \notin DOMAIN RateShock(p, s)
    BY <1>4
  <2>. QED
    BY <2>1, ShockedGet DEF CouponOf
<1>7. TermOf(q) = TermOf(p)
  <2>1. "maturity_years" \notin {"volatility", "current_price"} /\ "maturity_years" \notin DOMAIN RateShock(p, s)
    BY <1>4
  <2>. QED
    BY <2>1, ShockedGet DEF TermOf
<1>. QED
  BY <1>2, <1>3, <1>5, <1>6, <1>7 DEF y

\* What a shock of the rates makes of a project.
LEMMA RateMoves ==
  ASSUME NEW p, ProductRow(p), p.kind = "PROJECT", NEW s, s.interest_rate # 0,
         NEW q, q = _apply_shocks(p, s)
  PROVE  /\ q.kind = "PROJECT"
         /\ RateOf(q) = RateOf(p) + s.interest_rate
         /\ StillToCome(q) = StillToCome(p)
<1> DEFINE y == RateOf(p) + s.interest_rate
           g == Merge(PriceShock(p, s), Merge(VolatilityShock(p, s), p.metrics_json))
<1>1. RateShock(p, s) = Set("discount_rate", y)
  BY DEF RateShock, RateOf
<1>2. q.kind = "PROJECT" /\ q.notional = p.notional /\ q.metrics_json = Merge(RateShock(p, s), g)
  BY Shocked DEF ProductRow
<1> HIDE DEF y, g
<1>3. RateOf(q) = y
  BY <1>1, <1>2, GetSet DEF RateOf
<1>4. DOMAIN RateShock(p, s) = {"discount_rate"}
  BY <1>1 DEF Set
<1>5. Get(q.metrics_json, "cashflows", <<>>) = Get(p.metrics_json, "cashflows", <<>>)
  <2>1. "cashflows" \notin {"volatility", "current_price"} /\ "cashflows" \notin DOMAIN RateShock(p, s)
    BY <1>4
  <2>. QED
    BY <2>1, ShockedGet
<1>6. Flows(q) = Flows(p)
  BY <1>2, <1>5 DEF Flows
<1>. QED
  BY <1>2, <1>3, <1>6 DEF y, StillToCome

\* A product in a scenario that moves the rates up, or down by less than the least there is.
LEMMA RatesMoved ==
  ASSUME NEW p, ProductRow(p), Ordinary(p), ~Falls(p), p.kind \in {"BOND", "PROJECT"},
         NEW s, s.interest_rate \in Int, s.interest_rate # 0,
         NEW v, v = compute(p).current_value, NEW w, w = compute(_apply_shocks(p, s)).current_value
  PROVE  /\ s.interest_rate > 0 => Leq(w, v)
         /\ s.interest_rate = -1 => Leq(v, w)
<1> DEFINE q == _apply_shocks(p, s)
           i == s.interest_rate
<1>1. Lo \in Int /\ RateBase \in Nat /\ Lo = 1 - RateBase
  BY RateAssumption DEF Lo
<1>2. CASE p.kind = "BOND"
  <2>1. YieldOf(p) \in Int /\ YieldOf(p) > Lo /\ BondBut(p)
    BY <1>2, OrdinaryRates
  <2>2. /\ q.kind = "BOND" /\ q.notional = p.notional
        /\ YieldOf(q) = YieldOf(p) + i
        /\ ParOf(q) = ParOf(p) /\ CouponOf(q) = CouponOf(p) /\ TermOf(q) = TermOf(p)
    BY <1>2, YieldMoves
  <2> HIDE DEF q, i
  <2>3. BondBut(q) /\ YieldOf(q) \in Int
    BY <2>1, <2>2 DEF BondBut, i
  <2>4. ASSUME i > 0
        PROVE  Leq(compute(q).current_value, compute(p).current_value)
    <3>1. YieldOf(p) <= YieldOf(q) /\ RateBase + YieldOf(p) > 0
      BY <1>1, <2>1, <2>2, <2>3, <2>4 DEF i
    <3>. QED
      BY <2>1, <2>2, <2>3, <3>1, HigherYield
  <2>5. ASSUME i = -1
        PROVE  Leq(compute(p).current_value, compute(q).current_value)
    <3>1. YieldOf(q) <= YieldOf(p) /\ RateBase + YieldOf(q) > 0
      BY <1>1, <2>1, <2>2, <2>3, <2>5 DEF i
    <3>. QED
      BY <2>1, <2>2, <2>3, <3>1, HigherYield
  <2>. QED
    BY <2>4, <2>5 DEF i, q
<1>3. CASE p.kind = "PROJECT"
  <2>1. RateOf(p) \in Int /\ RateOf(p) > Lo
    BY OrdinaryRates
  <2>2. q.kind = "PROJECT" /\ RateOf(q) = RateOf(p) + i /\ StillToCome(q) = StillToCome(p)
    BY <1>3, RateMoves
  <2>3. StillToCome(p) \in Seq(Nat) /\ StillToCome(p) # <<>>
    BY <1>3, FlowsTyped DEF StillToCome
  <2> HIDE DEF q, i
  <2>4. RateOf(q) \in Int
    BY <2>1, <2>2 DEF i
  <2>5. ASSUME i > 0
        PROVE  Leq(compute(q).current_value, compute(p).current_value)
    <3>1. RateOf(p) <= RateOf(q) /\ RateBase + RateOf(p) > 0
      BY <1>1, <2>1, <2>2, <2>4, <2>5 DEF i
    <3>. QED
      BY <1>3, <2>1, <2>2, <2>3, <2>4, <3>1, HigherRate
  <2>6. ASSUME i = -1
        PROVE  Leq(compute(p).current_value, compute(q).current_value)
    <3>1. RateOf(q) <= RateOf(p) /\ RateBase + RateOf(q) > 0
      BY <1>1, <2>1, <2>2, <2>4, <2>6 DEF i
    <3>. QED
      BY <1>3, <2>1, <2>2, <2>3, <2>4, <3>1, HigherRate
  <2>. QED
    BY <2>5, <2>6 DEF i, q
<1>. QED
  BY <1>2, <1>3

\* What a fall of the prices leaves of a stock.
LEMMA PriceMoves ==
  ASSUME NEW p, ProductRow(p), p.kind = "STOCK", NEW s, s.interest_rate = 0, s.equity # 0,
         NEW price, price = Get(p.metrics_json, "current_price", 0), price # 0
  PROVE  compute(_apply_shocks(p, s)).current_value
           = Frac(IF "shares" \in DOMAIN p.metrics_json
                    THEN ((price * (10 + s.equity)) \div 10) * p.metrics_json.shares ELSE p.notional, 1)
<1> DEFINE q == _apply_shocks(p, s)
           m == p.metrics_json
           V == VolatilityShock(p, s)
           x == (price * (10 + s.equity)) \div 10
           n == q.metrics_json
<1>1. q.kind = "STOCK" /\ q.notional = p.notional
      /\ n = Merge(RateShock(p, s), Merge(PriceShock(p, s), Merge(V, m)))
  BY Shocked DEF ProductRow
<1>2. RateShock(p, s) = <<>>
  BY DEF RateShock
<1>3. PriceShock(p, s) = Set("current_price", x)
  BY DEF PriceShock
<1>4. DOMAIN V \subseteq {"volatility"}
  BY ShockDomains
<1> HIDE DEF x, m, V, n, q
<1>5. DOMAIN <<>> = {}
  OBVIOUS
<1>6. n = Merge(<<>>, Merge(Set("current_price", x), Merge(V, m)))
  BY <1>1, <1>2, <1>3
<1>7. /\ "current_price" \in DOMAIN n /\ n["current_price"] = x
      /\ "shares" \in DOMAIN n <=> "shares" \in DOMAIN m
      /\ "shares" \in DOMAIN m => n["shares"] = m["shares"]
  BY <1>4, <1>5, <1>6 DEF Merge, Set
<1>8. compute(q).current_value
        = Frac(IF {"current_price", "shares"} \subseteq DOMAIN n THEN n["current_price"] * n["shares"]
               ELSE q.notional, 1)
  BY <1>1 DEF compute, ComputeStock, Position, Measures, n
<1>. QED
  BY <1>1, <1>7, <1>8 DEF q, m, x

\* The deeper fall leaves a stock less.
LEMMA PricesFallen ==
  ASSUME NEW p, ProductRow(p), Ordinary(p), p.kind = "STOCK"
  PROVE  Leq(compute(_apply_shocks(p, Shock(0, -2, 0))).current_value,
             compute(_apply_shocks(p, Shock(0, -1, 0))).current_value)
<1> DEFINE price == Get(p.metrics_json, "current_price", 0)
           s == Shock(0, -2, 0)
           t == Shock(0, -1, 0)
           v == compute(_apply_shocks(p, s)).current_value
           w == compute(_apply_shocks(p, t)).current_value
<1>1. price \in Nat /\ p.notional \in Nat
  BY DEF Ordinary, Get
<1>2. s.interest_rate = 0 /\ s.equity = -2 /\ t.interest_rate = 0 /\ t.equity = -1
  BY DEF Shock
<1>3. CASE price # 0
  <2> DEFINE m == p.metrics_json
             i == (price * (10 + -2)) \div 10
             j == (price * (10 + -1)) \div 10
             a == IF "shares" \in DOMAIN m THEN i * m.shares ELSE p.notional
             b == IF "shares" \in DOMAIN m THEN j * m.shares ELSE p.notional
  <2> HIDE DEF price, s, t
  <2>1. v = Frac(a, 1)
    BY <1>2, <1>3, PriceMoves DEF price
  <2>2. w = Frac(b, 1)
    BY <1>2, <1>3, PriceMoves DEF price
  <2>3. i \in Nat /\ j \in Nat /\ i <= j
    BY <1>1
  <2>4. "shares" \in DOMAIN m => m.shares \in Nat
    BY DEF Ordinary
  <2> HIDE DEF v, w, i, j, m
  <2>5. "shares" \in DOMAIN m => i * m.shares \in Nat /\ j * m.shares \in Nat /\ i * m.shares <= j * m.shares
    BY <2>3, <2>4
  <2>6. a \in Int /\ b \in Int /\ a <= b
    BY <1>1, <2>5
  <2> HIDE DEF a, b
  <2>. QED
    BY <2>1, <2>2, <2>6, WholeLeq DEF v, w, s, t
<1>4. CASE price = 0
  <2>1. RateShock(p, s) = <<>> /\ PriceShock(p, s) = <<>> /\ RateShock(p, t) = <<>> /\ PriceShock(p, t) = <<>>
    BY <1>2, <1>4 DEF RateShock, PriceShock
  <2> HIDE DEF s, t
  <2>2. v = compute(p).current_value /\ w = compute(p).current_value
    BY <2>1, NoShock
  <2>3. p.kind \in Kind
    BY DEF Kind
  <2>4. compute(p).current_value \in Fraction
    BY <2>3, WorthOf
  <2>. QED
    BY <2>2, <2>4, LeqItself DEF v, w, s, t
<1>. QED
  BY <1>3, <1>4

\* The scenarios are in the order of their shocks.
LEMMA StressOrdered ==
  ASSUME NEW ps, \A p \in DOMAIN ps : ProductRow(ps[p])
  PROVE  Ordered(ps, run_all(ps))
<1> DEFINE all == run_all(ps)
<1>1. ASSUME NEW p \in DOMAIN ps, Ordinary(ps[p])
      PROVE  /\ Leq(all["EQUITY_DOWN_20"].stressed[p], all["EQUITY_DOWN_10"].stressed[p])
             /\ \/ Falls(ps[p])
                \/ /\ Leq(all["IR_UP_100"].stressed[p], all["VOL_UP_50"].base[p])
                   /\ Leq(all["VOL_UP_50"].base[p], all["IR_DOWN_50"].stressed[p])
  <2> DEFINE r == ps[p]
             Under(s) == compute(_apply_shocks(r, SCENARIOS[s])).current_value
             v == compute(r).current_value
  <2>1. ProductRow(r) /\ Ordinary(r) /\ r.kind \in Kind
    BY <1>1 DEF ProductRow
  <2>2. \A s \in Scenario : all[s].stressed[p] = Under(s) /\ all[s].base[p] = v
    BY Runs
  <2> HIDE DEF all, r
  <2>3. v \in Fraction /\ Leq(v, v)
    BY <2>1, WorthOf, LeqItself
  <2>4. Leq(Under("EQUITY_DOWN_20"), Under("EQUITY_DOWN_10"))
    <3>1. CASE r.kind = "STOCK"
      BY <2>1, <3>1, PricesFallen, TheScenarios
    <3>2. CASE r.kind # "STOCK"
      <4>1. /\ RateShock(r, Shock(0, -2, 0)) = <<>> /\ PriceShock(r, Shock(0, -2, 0)) = <<>>
            /\ RateShock(r, Shock(0, -1, 0)) = <<>> /\ PriceShock(r, Shock(0, -1, 0)) = <<>>
        BY <3>2 DEF RateShock, PriceShock, Shock
      <4>2. Under("EQUITY_DOWN_20") = v /\ Under("EQUITY_DOWN_10") = v
        BY <2>1, <4>1, NoShock, TheScenarios
      <4>. QED
        BY <2>3, <4>2
    <3>. QED
      BY <3>1, <3>2
  <2>5. ASSUME ~Falls(r)
        PROVE  Leq(Under("IR_UP_100"), v) /\ Leq(v, Under("IR_DOWN_50"))
    <3>1. CASE r.kind \in {"BOND", "PROJECT"}
      <4> DEFINE s == Shock(2, 0, 0)
                 t == Shock(-1, 0, 0)
      <4>1. s.interest_rate = 2 /\ t.interest_rate = -1
        BY DEF Shock
      <4>2. Under("IR_UP_100") = compute(_apply_shocks(r, s)).current_value
            /\ Under("IR_DOWN_50") = compute(_apply_shocks(r, t)).current_value
        BY TheScenarios
      <4> HIDE DEF s, t
      <4>3. Leq(compute(_apply_shocks(r, s)).current_value, v)
        BY <2>1, <2>5, <3>1, <4>1, RatesMoved
      <4>4. Leq(v, compute(_apply_shocks(r, t)).current_value)
        BY <2>1, <2>5, <3>1, <4>1, RatesMoved
      <4>. QED
        BY <4>2, <4>3, <4>4
    <3>2. CASE r.kind \notin {"BOND", "PROJECT"}
      <4>1. /\ RateShock(r, Shock(2, 0, 0)) = <<>> /\ PriceShock(r, Shock(2, 0, 0)) = <<>>
            /\ RateShock(r, Shock(-1, 0, 0)) = <<>> /\ PriceShock(r, Shock(-1, 0, 0)) = <<>>
        BY <3>2 DEF RateShock, PriceShock, Shock
      <4>2. Under("IR_UP_100") = v /\ Under("IR_DOWN_50") = v
        BY <2>1, <4>1, NoShock, TheScenarios
      <4>. QED
        BY <2>3, <4>2
    <3>. QED
      BY <3>1, <3>2
  <2>. QED
    BY <2>2, <2>4, <2>5, TheScenarios DEF r
<1>. QED
  BY <1>1 DEF Ordered

----------------------------------------------------------------------------
(* The VaR of a portfolio, and what a shock of the volatilities makes of it. *)

\* What VaR is taken of.
Exposure(r) ==
  CASE r.kind = "STOCK" -> IF {"current_price", "shares"} \subseteq DOMAIN r.metrics_json
                             THEN r.metrics_json.current_price * r.metrics_json.shares ELSE r.notional
    [] r.kind = "DERIV" -> r.notional * Get(r.metrics_json, "leverage", 3)

\* The volatility VaR goes by, or its default.
UsualVolatility(kind) == IF kind = "STOCK" THEN Default.stock_volatility ELSE Default.deriv_volatility
Volatility(r) == Get(r.metrics_json, "volatility", UsualVolatility(r.kind))
Risk(r) == IF r.kind \in {"STOCK", "DERIV"} THEN Exposure(r) * Volatility(r) ELSE 0

\* The VaR of a product, 0 where it has none.
LEMMA RiskIs ==
  ASSUME NEW r, r.kind \in Kind
  PROVE  (IF compute(r).var = <<>> THEN 0 ELSE compute(r).var[1]) = Risk(r)
<1>1. CASE r.kind = "STOCK"
  <2>1. compute(r).var = <<Exposure(r) * Volatility(r)>>
    BY <1>1 DEF compute, ComputeStock, Position, Measures, Exposure, Volatility, UsualVolatility
  <2>. QED
    BY <1>1, <2>1 DEF Risk
<1>2. CASE r.kind = "DERIV"
  <2>1. compute(r).var = <<Exposure(r) * Volatility(r)>>
    BY <1>2 DEF compute, ComputeDeriv, Position, Measures, Exposure, Volatility, UsualVolatility
  <2>. QED
    BY <1>2, <2>1 DEF Risk
<1>3. CASE r.kind = "BOND"
  <2>1. compute(r).var = <<>>
    BY <1>3 DEF compute, ComputeBond, Measures
  <2>. QED
    BY <1>3, <2>1 DEF Risk
<1>4. CASE r.kind = "PROJECT"
  <2>1. compute(r).var = <<>>
    BY <1>4 DEF compute, ComputeProject, Measures
  <2>. QED
    BY <1>4, <2>1 DEF Risk
<1>. QED
  BY <1>1, <1>2, <1>3, <1>4 DEF Kind

\* For an ordinary product it is not negative.
LEMMA OrdinaryRisk ==
  ASSUME NEW r, Ordinary(r), r.kind \in Kind
  PROVE  /\ r.kind \in {"STOCK", "DERIV"} => Exposure(r) \in Nat /\ Volatility(r) \in Nat
         /\ Risk(r) \in Nat
<1> DEFINE m == r.metrics_json
<1>1. ASSUME r.kind \in {"STOCK", "DERIV"}
      PROVE  Exposure(r) \in Nat
  <2>1. CASE r.kind = "DERIV"
    <3> DEFINE k == Get(m, "leverage", 3)
    <3>1. k \in Nat /\ r.notional \in Nat
      BY DEF Ordinary, Get
    <3>2. Exposure(r) = r.notional * k
      BY <2>1 DEF Exposure
    <3> HIDE DEF k
    <3>. QED
      BY <3>1, <3>2, NatProducts
  <2>2. CASE r.kind = "STOCK"
    <3>1. CASE {"current_price", "shares"} \subseteq DOMAIN m
      <4>1. m.current_price \in Nat /\ m.shares \in Nat
        BY <3>1 DEF Ordinary
      <4>2. Exposure(r) = m.current_price * m.shares
        BY <2>2, <3>1 DEF Exposure
      <4>. QED
        BY <4>1, <4>2, NatProducts
    <3>2. CASE ~({"current_price", "shares"} \subseteq DOMAIN m)
      BY <2>2, <3>2 DEF Exposure, Ordinary
    <3>. QED
      BY <3>1, <3>2
  <2>. QED
    BY <1>1, <2>1, <2>2
<1>2. Volatility(r) \in Nat
  <2>1. UsualVolatility(r.kind) \in Nat
    BY DefaultAssumption DEF UsualVolatility
  <2>. QED
    BY <2>1 DEF Volatility, Get, Ordinary
<1>3. Risk(r) \in Nat
  BY <1>1, <1>2, NatProducts DEF Risk
<1>. QED
  BY <1>1, <1>2, <1>3

\* What a shock of the volatilities makes of a product.
LEMMA VolatilityMoves ==
  ASSUME NEW p, ProductRow(p), NEW k, k # 0, NEW q, q = _apply_shocks(p, Shock(0, 0, k))
  PROVE  /\ q.kind = p.kind
         /\ p.kind \in {"STOCK", "DERIV"} => Exposure(q) = Exposure(p)
         /\ Volatility(q) = IF "volatility" \in DOMAIN p.metrics_json
                              THEN (p.metrics_json.volatility * k) \div 2 ELSE Volatility(p)
<1> DEFINE m == p.metrics_json
           n == q.metrics_json
           s == Shock(0, 0, k)
           V == VolatilityShock(p, s)
           x == (m.volatility * k) \div 2
<1>1. s.interest_rate = 0 /\ s.equity = 0 /\ s.volatility = k
  BY DEF Shock
<1>2. RateShock(p, s) = <<>> /\ PriceShock(p, s) = <<>>
  BY <1>1 DEF RateShock, PriceShock
<1>3. q.kind = p.kind /\ q.notional = p.notional
      /\ n = Merge(RateShock(p, s), Merge(PriceShock(p, s), Merge(V, m)))
  BY Shocked DEF ProductRow
<1>4. V = IF "volatility" \in DOMAIN m THEN Set("volatility", x) ELSE <<>>
  BY <1>1 DEF VolatilityShock
<1> HIDE DEF x, V, s, n, m
<1>5. DOMAIN <<>> = {}
  OBVIOUS
<1>6. n = Merge(<<>>, Merge(<<>>, Merge(V, m)))
  BY <1>2, <1>3
<1>7. \A i : i # "volatility" => SameAt(n, m, i)
  BY <1>4, <1>5, <1>6 DEF SameAt, Merge, Set
<1>8. /\ "volatility" \in DOMAIN n <=> "volatility" \in DOMAIN m
      /\ "volatility" \in DOMAIN m => n["volatility"] = x
  BY <1>4, <1>5, <1>6 DEF Merge, Set
<1>9. ASSUME p.kind = "STOCK"
      PROVE  Exposure(q) = Exposure(p)
  <2>1. SameAt(n, m, "current_price") /\ SameAt(n, m, "shares")
    BY <1>7
  <2>. QED
    BY <1>3, <1>9, <2>1 DEF SameAt, Exposure, m, n
<1>10. ASSUME p.kind = "DERIV"
       PROVE  Exposure(q) = Exposure(p)
  <2>1. SameAt(n, m, "leverage")
    BY <1>7
  <2>2. Get(n, "leverage", 3) = Get(m, "leverage", 3)
    BY <2>1, SameGet
  <2>. QED
    BY <1>3, <1>10, <2>2 DEF Exposure, m, n
<1>11. Volatility(q) = IF "volatility" \in DOMAIN m THEN x ELSE Volatility(p)
  BY <1>3, <1>8 DEF Volatility, Get, m, n
<1>. QED
  BY <1>3, <1>9, <1>10, <1>11 DEF m, x

\* The VaR of a product under such a shock.
LEMMA RiskMoves ==
  ASSUME NEW p, ProductRow(p), Ordinary(p)
  PROVE  /\ Risk(p) <= Risk(_apply_shocks(p, Shock(0, 0, 3)))
         /\ Risk(p) \in Int /\ Risk(_apply_shocks(p, Shock(0, 0, 3))) \in Int
         /\ Risk(_apply_shocks(p, Shock(0, 0, 4))) \in Int
         /\ Halves(p) => /\ 2 * Risk(_apply_shocks(p, Shock(0, 0, 3))) = 3 * Risk(p)
                         /\ Risk(_apply_shocks(p, Shock(0, 0, 4))) = 2 * Risk(p)
<1> DEFINE q == _apply_shocks(p, Shock(0, 0, 3))
           r == _apply_shocks(p, Shock(0, 0, 4))
           Stored == "volatility" \in DOMAIN p.metrics_json
           v == p.metrics_json.volatility
<1>1. p.kind \in Kind
  BY DEF ProductRow
<1>2. /\ q.kind = p.kind /\ (p.kind \in {"STOCK", "DERIV"} => Exposure(q) = Exposure(p))
      /\ Volatility(q) = IF Stored THEN (v * 3) \div 2 ELSE Volatility(p)
  BY VolatilityMoves
<1>3. /\ r.kind = p.kind /\ (p.kind \in {"STOCK", "DERIV"} => Exposure(r) = Exposure(p))
      /\ Volatility(r) = IF Stored THEN (v * 4) \div 2 ELSE Volatility(p)
  BY VolatilityMoves
<1>4. Stored => Volatility(p) = v
  BY DEF Volatility, Get
<1>5. Halves(p) /\ p.kind \in {"STOCK", "DERIV"} => Stored /\ v % 2 = 0
  BY DEF Halves
<1> HIDE DEF q, r, Stored, v
<1>6. CASE p.kind \in {"STOCK", "DERIV"}
  <2> DEFINE e == Exposure(p)
             w == Volatility(p)
             x == Volatility(q)
             y == Volatility(r)
  <2>1. e \in Nat /\ w \in Nat
    BY <1>1, <1>6, OrdinaryRisk
  <2>2. Risk(p) = e * w /\ Risk(q) = e * x /\ Risk(r) = e * y
    BY <1>2, <1>3, <1>6 DEF Risk
  <2>3. /\ x = IF Stored THEN (v * 3) \div 2 ELSE w
        /\ y = IF Stored THEN (v * 4) \div 2 ELSE w
        /\ Stored => w = v
        /\ Halves(p) => Stored /\ v % 2 = 0
    BY <1>2, <1>3, <1>4, <1>5, <1>6
  <2> HIDE DEF e, w, x, y
  <2>4. x \in Nat /\ w <= x /\ y \in Nat /\ (Halves(p) => 2 * x = 3 * w /\ y = 2 * w)
    <3>1. ASSUME NEW i \in Nat
          PROVE  /\ (i * 3) \div 2 \in Nat /\ i <= (i * 3) \div 2 /\ (i * 4) \div 2 \in Nat /\ (i * 4) \div 2 = 2 * i
                 /\ i % 2 = 0 => 2 * ((i * 3) \div 2) = 3 * i
      OBVIOUS
    <3>2. CASE Stored
      BY <2>1, <2>3, <3>1, <3>2
    <3>3. CASE ~Stored
      BY <2>1, <2>3, <3>3
    <3>. QED
      BY <3>2, <3>3
  <2>5. e * w \in Nat /\ e * x \in Nat /\ e * y \in Nat /\ e * w <= e * x
    BY <2>1, <2>4, NatProducts
  <2>6. ASSUME Halves(p)
        PROVE  2 * (e * x) = 3 * (e * w) /\ e * y = 2 * (e * w)
    <3>1. 2 * (e * x) = e * (2 * x) /\ 3 * (e * w) = e * (3 * w) /\ 2 * (e * w) = e * (2 * w)
      BY <2>1, <2>4
    <3>. QED
      BY <2>4, <2>6, <3>1
  <2>. QED
    BY <2>2, <2>5, <2>6 DEF q, r
<1>7. CASE p.kind \notin {"STOCK", "DERIV"}
  <2>1. Risk(p) = 0 /\ Risk(q) = 0 /\ Risk(r) = 0
    BY <1>2, <1>3, <1>7 DEF Risk
  <2>. QED
    BY <2>1 DEF q, r
<1>. QED
  BY <1>6, <1>7

\* The risks of the products ps, before and under a shock.
Risks(ps) == [k \in DOMAIN ps |-> Risk(ps[k])]
RisksUnder(ps, s) == [k \in DOMAIN ps |-> Risk(_apply_shocks(ps[k], s))]

\* The VaR of a portfolio is the sum of those of its products.
LEMMA VaRs ==
  ASSUME NEW ps, \A p \in DOMAIN ps : ProductRow(ps[p]), NEW s \in Scenario
  PROVE  /\ run_all(ps)[s].base_var = SumFunctionOnSet(Risks(ps), DOMAIN ps)
         /\ run_all(ps)[s].stressed_var = SumFunctionOnSet(RisksUnder(ps, SCENARIOS[s]), DOMAIN ps)
<1> DEFINE before == [k \in DOMAIN ps |-> compute(ps[k])]
           after == [k \in DOMAIN ps |-> compute(_apply_shocks(ps[k], SCENARIOS[s]))]
<1>1. run_all(ps)[s].base_var = VaR(before) /\ run_all(ps)[s].stressed_var = VaR(after)
  BY DEF run_all, run_scenario, Compared
<1>2. VaR(before) = SumFunction(Risks(ps))
  <2>1. \A k \in DOMAIN ps : (IF compute(ps[k]).var = <<>> THEN 0 ELSE compute(ps[k]).var[1]) = Risk(ps[k])
    BY RiskIs DEF ProductRow
  <2>. QED
    BY <2>1 DEF VaR, Risks
<1>3. VaR(after) = SumFunction(RisksUnder(ps, SCENARIOS[s]))
  <2> DEFINE q(k) == _apply_shocks(ps[k], SCENARIOS[s])
  <2>1. \A k \in DOMAIN ps : q(k).kind \in Kind
    BY Shocked DEF ProductRow
  <2>2. \A k \in DOMAIN ps : (IF compute(q(k)).var = <<>> THEN 0 ELSE compute(q(k)).var[1]) = Risk(q(k))
    BY <2>1, RiskIs
  <2>. QED
    BY <2>2 DEF VaR, RisksUnder
<1>4. DOMAIN Risks(ps) = DOMAIN ps /\ DOMAIN RisksUnder(ps, SCENARIOS[s]) = DOMAIN ps
  BY DEF Risks, RisksUnder
<1>5. SumFunction(Risks(ps)) = SumFunctionOnSet(Risks(ps), DOMAIN ps)
  BY <1>4, SigmaSum
<1>6. SumFunction(RisksUnder(ps, SCENARIOS[s])) = SumFunctionOnSet(RisksUnder(ps, SCENARIOS[s]), DOMAIN ps)
  BY <1>4, SigmaSum
<1>. QED
  BY <1>1, <1>2, <1>3, <1>5, <1>6

\* A shock of the volatilities multiplies the VaR.
LEMMA StressMultiplied ==
  ASSUME NEW ps, \A p \in DOMAIN ps : ProductRow(ps[p]), IsFiniteSet(DOMAIN ps)
  PROVE  Multiplied(ps, run_all(ps))
<1> DEFINE all == run_all(ps)
           S == DOMAIN ps
           b == Risks(ps)
           f == RisksUnder(ps, Shock(0, 0, 3))
           g == RisksUnder(ps, Shock(0, 0, 4))
<1>1. SUFFICES ASSUME \A p \in S : Ordinary(ps[p])
      PROVE  /\ all["CRISIS"].base_var <= all["VOL_UP_50"].stressed_var
             /\ (\A p \in S : Halves(ps[p])) =>
                  /\ 2 * all["VOL_UP_50"].stressed_var = 3 * all["CRISIS"].base_var
                  /\ all["VOL_UP_100"].stressed_var = 2 * all["CRISIS"].base_var
  BY DEF Multiplied
<1>2. /\ all["CRISIS"].base_var = SumFunctionOnSet(b, S)
      /\ all["VOL_UP_50"].stressed_var = SumFunctionOnSet(f, S)
      /\ all["VOL_UP_100"].stressed_var = SumFunctionOnSet(g, S)
  BY VaRs, TheScenarios
<1>3. \A p \in S : /\ b[p] = Risk(ps[p]) /\ f[p] = Risk(_apply_shocks(ps[p], Shock(0, 0, 3)))
                   /\ g[p] = Risk(_apply_shocks(ps[p], Shock(0, 0, 4)))
  BY DEF Risks, RisksUnder
<1>4. \A p \in S : /\ b[p] \in Int /\ f[p] \in Int /\ g[p] \in Int /\ b[p] <= f[p]
                   /\ Halves(ps[p]) => 2 * f[p] = 3 * b[p] /\ g[p] = 2 * b[p]
  BY <1>1, <1>3, RiskMoves
<1>5. IntOn(b, S) /\ IntOn(f, S) /\ IntOn(g, S)
  BY <1>4 DEF IntOn
<1> HIDE DEF all, S, b, f, g
<1>6. IsFiniteSet(S)
  BY DEF S
<1>7. SumFunctionOnSet(b, S) <= SumFunctionOnSet(f, S)
  BY <1>4, <1>5, <1>6, SumLeq
<1>8. ASSUME \A p \in S : Halves(ps[p])
      PROVE  /\ 2 * SumFunctionOnSet(f, S) = 3 * SumFunctionOnSet(b, S)
             /\ SumFunctionOnSet(g, S) = 2 * SumFunctionOnSet(b, S)
  <2> DEFINE h == [p \in S |-> 2 * f[p]]
  <2>1. (\A p \in S : h[p] = 2 * f[p]) /\ (\A p \in S : h[p] = 3 * b[p]) /\ (\A p \in S : g[p] = 2 * b[p])
    BY <1>4, <1>8
  <2> HIDE DEF h
  <2>2. SumFunctionOnSet(h, S) = 2 * SumFunctionOnSet(f, S)
    BY <1>5, <1>6, <2>1, SumScaled
  <2>3. SumFunctionOnSet(h, S) = 3 * SumFunctionOnSet(b, S)
    BY <1>5, <1>6, <2>1, SumScaled
  <2>4. SumFunctionOnSet(g, S) = 2 * SumFunctionOnSet(b, S)
    BY <1>5, <1>6, <2>1, SumScaled
  <2>. QED
    BY <2>2, <2>3, <2>4
<1>. QED
  BY <1>2, <1>7, <1>8 DEF all, S

\* The products of a portfolio are finitely many rows.
LEMMA HeldRows ==
  ASSUME TypeOK, NEW f \in Portfolio
  PROVE  (\A p \in DOMAIN Held(f) : ProductRow(Held(f)[p])) /\ IsFiniteSet(DOMAIN Held(f))
<1>1. \A p \in DOMAIN Held(f) : ProductRow(Held(f)[p])
  BY DEF Held, Listed, Restrict, TypeOK, There, New, Gone
<1>2. DOMAIN Held(f) \subseteq Product
  BY DEF Held, Listed, Restrict, TypeOK
<1>3. IsFiniteSet(DOMAIN Held(f))
  BY <1>2, MarketAssumption, FS_Subset
<1>. QED
  BY <1>1, <1>3

\* Of every portfolio, the crisis moves each product exactly as the one of its shocks does that is meant
\* for the kind; a rise of the rates never raises an ordinary bond, or project without negative flows,
\* a fall never lowers it, and the deeper fall of the prices never leaves a stock more; a shock of the volatilities moves no
\* value and multiplies the VaR; all scenarios start from the same figures (stress.py 87-163).
THEOREM StressHolds == Spec => []StressAddsUp
<1>1. ASSUME TypeOK
      PROVE  StressAddsUp
  <2>1. ASSUME NEW f \in Portfolio
        PROVE  ScenariosAgree(Held(f), run_all(Held(f)))
    <3> DEFINE ps == Held(f)
    <3>1. (\A p \in DOMAIN ps : ProductRow(ps[p])) /\ IsFiniteSet(DOMAIN ps)
      BY <1>1, HeldRows
    <3> HIDE DEF ps
    <3>2. OwnShock(ps, run_all(ps)) /\ SameStart(run_all(ps))
      BY <3>1, OneShock
    <3>3. Ordered(ps, run_all(ps))
      BY <3>1, StressOrdered
    <3>4. Multiplied(ps, run_all(ps))
      BY <3>1, StressMultiplied
    <3>. QED
      BY <3>2, <3>3, <3>4 DEF ScenariosAgree, ps
  <2>. QED
    BY <2>1 DEF StressAddsUp
<1>. QED
  BY <1>1, TypeCorrect, PTL

----------------------------------------------------------------------------
(* The totals of a portfolio.                                              *)

\* Over a limit, of a total that is the sum A of parts a, all in the denominator D.
LEMMA OverLimitIs ==
  ASSUME NEW w \in Fraction, NEW total \in Fraction, NEW a \in Nat, NEW A \in Nat, NEW D \in Nat \ {0},
         Is(w, a, D), Is(total, A, D), NEW limit \in Int, OverLimit(w, total, limit)
  PROVE  /\ A > 0 => limit * A + 1 <= 100 * a
         /\ A = 0 => limit < 0
<1> DEFINE i == w.n
           j == w.d
           k == total.n
           l == total.d
<1>1. i \in Int /\ j \in Nat \ {0} /\ i * D = a * j
  BY DEF Fraction, Is
<1>2. k \in Int /\ l \in Nat \ {0} /\ k * D = A * l
  BY DEF Fraction, Is
<1>3. /\ k > 0 => 100 * i * l > limit * k * j
      /\ k = 0 => 0 > limit
  <2>1. OverLimit(w, total, limit) = CASE k > 0 -> 100 * i * l > limit * k * j
                                      [] k < 0 -> 100 * i * l < limit * k * j
                                      [] OTHER -> 0 > limit
    BY DEF OverLimit
  <2> HIDE DEF i, j, k, l
  <2> DEFINE x == 100 * i * l > limit * k * j
  <2>2. ~(k > 0 /\ k < 0) /\ (k = 0 => ~(k > 0) /\ ~(k < 0))
    BY <1>2
  <2>3. k > 0 => x
    BY <2>1, <2>2
  <2>4. k = 0 => 0 > limit
    BY <2>1, <2>2
  <2>. QED
    BY <2>3, <2>4
<1> HIDE DEF i, j, k, l
<1>4. \A x \in Int, y \in Nat \ {0} : (x * y > 0 <=> x > 0) /\ (x * y = 0 <=> x = 0)
  OBVIOUS
<1>5. (k * D > 0 <=> k > 0) /\ (k * D = 0 <=> k = 0) /\ (A * l > 0 <=> A > 0) /\ (A * l = 0 <=> A = 0)
  BY <1>2, <1>4
<1>6. (A > 0 <=> k > 0) /\ (A = 0 <=> k = 0)
  BY <1>2, <1>5
<1>7. ASSUME A > 0
      PROVE  limit * A + 1 <= 100 * a
  <2> DEFINE x == 100 * i * l
             y == limit * k * j
             z == j * l
             b == 100 * a
             c == limit * A
  <2>1. x * D = b * z /\ y * D = c * z
    <3>1. x * D = 100 * (i * D) * l /\ y * D = limit * (k * D) * j
      BY <1>1, <1>2
    <3>2. 100 * (a * j) * l = b * z /\ limit * (A * l) * j = c * z
      BY <1>1, <1>2
    <3>. QED
      BY <1>1, <1>2, <3>1, <3>2
  <2>2. x \in Int /\ y \in Int /\ z \in Nat \ {0} /\ b \in Int /\ c \in Int /\ x > y
    BY <1>1, <1>2, <1>3, <1>6, <1>7, NatProducts
  <2> HIDE DEF x, y, z, b, c
  <2>3. \A e, f \in Int, g \in Nat \ {0} : e * g <= f * g <=> e <= f
    BY CancelFactor
  <2>4. ~(b <= c)
    <3>1. (x * D <= y * D <=> x <= y) /\ (b * z <= c * z <=> b <= c)
      BY <2>2, <2>3
    <3>. QED
      BY <2>1, <2>2, <3>1
  <2>. QED
    BY <2>2, <2>4 DEF b, c
<1>. QED
  BY <1>3, <1>6, <1>7

\* No more products are over a limit than fit in a hundred per cent.
LEMMA WeightsFit ==
  ASSUME NEW S, IsFiniteSet(S), NEW w, FracOn(w, S), \A k \in S : w[k].n >= 0, NEW limit \in Int,
         NEW total, total = FracsOnSet(w, S), NEW O, O = {k \in S : OverLimit(w[k], total, limit)}, O # {}
  PROVE  limit * Cardinality(O) < 100
<1>1. PICK D \in Nat \ {0} : \E a \in [S -> Int] : Terms(w, a, D, S)
  BY CommonDenominator
<1>2. PICK a \in [S -> Int] : Terms(w, a, D, S)
  BY <1>1
<1> DEFINE A == SumFunctionOnSet(a, S)
           n == Cardinality(O)
<1>3. \A k \in S : a[k] \in Int /\ w[k] \in Fraction /\ Is(w[k], a[k], D)
  BY <1>2 DEF Terms, FracOn
<1>4. \A k \in S : a[k] \in Nat
  <2>1. ASSUME NEW k \in S
        PROVE  a[k] \in Nat
    <3>1. w[k].n >= 0 <=> a[k] >= 0
      BY <1>3, Sign
    <3>. QED
      BY <1>3, <3>1
  <2>. QED
    BY <2>1
<1>5. IntOn(a, S)
  BY <1>3 DEF IntOn
<1>6. total \in Fraction /\ Is(total, A, D)
  BY <1>2, <1>5, FracSumIs
<1>7. A \in Nat
  <2>1. A \in Int /\ A >= 0
    BY <1>4, <1>5, SumType, SumNonnegative
  <2> HIDE DEF A
  <2>. QED
    BY <2>1
<1>8. O \in SUBSET S /\ IsFiniteSet(O)
  BY FS_Subset
<1>9. n \in Nat \ {0}
  BY <1>8, FS_CardinalityType, FS_EmptySet
<1>10. \A k \in O : (A > 0 => limit * A + 1 <= 100 * a[k]) /\ (A = 0 => limit < 0)
  <2> HIDE DEF A
  <2>. QED
    BY <1>3, <1>4, <1>6, <1>7, OverLimitIs
<1>11. CASE A = 0
  <2>1. limit < 0
    BY <1>10, <1>11
  <2> HIDE DEF n
  <2>2. limit * n <= 0
    BY <1>9, <2>1
  <2>. QED
    BY <1>9, <2>2 DEF n
<1>12. CASE A > 0
  <2> DEFINE c == -(limit * A + 1)
             z == [k \in O |-> 0]
             h == [k \in O |-> 100 * a[k]]
             B == SumFunctionOnSet(a, O)
  <2>1. c \in Int
    <3> HIDE DEF A
    <3>. QED
      BY <1>7
  <2>2. \A k \in O : a[k] \in Int /\ h[k] \in Int /\ h[k] = 100 * a[k] /\ z[k] = 0
    BY <1>3, <1>8
  <2>3. \A k \in O : z[k] <= h[k] + c
    <3> HIDE DEF A, z, h
    <3>1. ASSUME NEW k \in O
          PROVE  z[k] <= h[k] + c
      <4> DEFINE x == limit * A
      <4>1. x + 1 <= 100 * a[k]
        BY <1>10, <1>12
      <4>2. x \in Int
        BY <1>7
      <4> HIDE DEF x
      <4>3. 0 <= 100 * a[k] + (-(x + 1))
        BY <2>2, <4>1, <4>2
      <4>. QED
        BY <2>2, <4>3 DEF x
    <3>. QED
      BY <3>1
  <2>4. IntOn(a, O) /\ IntOn(z, O) /\ IntOn(h, O)
    BY <2>2 DEF IntOn
  <2> HIDE DEF c, z, h
  <2>5. SumFunctionOnSet(z, O) <= SumFunctionOnSet(h, O) + c * Cardinality(O)
    BY <1>8, <2>1, <2>3, <2>4, SumAtMost
  <2>6. SumFunctionOnSet(z, O) = 0
    <3>1. \A k \in O \ {} : z[k] = 0
      BY <2>2
    <3>2. {} \in SUBSET O
      OBVIOUS
    <3>3. SumFunctionOnSet(z, O) = SumFunctionOnSet(z, {})
      BY <1>8, <2>4, <3>1, <3>2, SumNonzero
    <3>. QED
      BY <3>3, SumEmpty
  <2>7. SumFunctionOnSet(h, O) = 100 * B
    <3>1. \A k \in O : h[k] = 100 * a[k]
      BY <2>2
    <3>. QED
      BY <1>8, <2>4, <3>1, SumScaled
  <2>8. B <= A /\ B \in Int
    <3>1. \A k \in S : a[k] >= 0
      BY <1>4
    <3>2. B <= A
      BY <1>5, <1>8, <3>1, SumPart
    <3>3. B \in Int
      BY <1>8, <2>4, SumType
    <3>. QED
      BY <3>2, <3>3
  <2> HIDE DEF A, B, n
  <2>9. 0 <= 100 * B + c * n
    BY <2>5, <2>6, <2>7 DEF n
  <2>10. c * n = -((limit * n) * A + n)
    BY <1>7, <1>9 DEF c
  <2>11. (limit * n) * A + n <= 100 * A
    <3> DEFINE x == (limit * n) * A + n
               y == c * n
    <3>1. x \in Int /\ y = -x
      BY <1>7, <1>9, <2>10
    <3> HIDE DEF x, y
    <3>2. 0 <= 100 * B + y
      BY <2>9 DEF y
    <3>3. x <= 100 * A
      BY <1>7, <2>8, <3>1, <3>2
    <3>. QED
      BY <3>3 DEF x
  <2>12. ~(100 <= limit * n)
    <3> DEFINE x == limit * n
    <3>1. x \in Int /\ x * A + n <= 100 * A
      BY <1>9, <2>11
    <3> HIDE DEF x
    <3>2. 100 <= x => 100 * A <= x * A
      BY <1>7, <3>1
    <3>3. x * A \in Int
      BY <1>7, <3>1
    <3>4. ~(100 <= x)
      BY <1>7, <1>9, <3>1, <3>2, <3>3
    <3>. QED
      BY <3>4 DEF x
  <2>13. limit * n \in Int
    BY <1>9
  <2>. QED
    BY <2>12, <2>13 DEF n
<1>. QED
  BY <1>7, <1>11, <1>12

----------------------------------------------------------------------------
(* An average is at most one of the bounds of what it is the average of.   *)

\* An average is at most one of the bounds of what it is the average of.
LEMMA AverageFits ==
  ASSUME NEW S, IsFiniteSet(S), S # {}, NEW f, FracOn(f, S), DOMAIN f = S, NEW b \in [S -> Nat],
         \A k \in S : Leq(f[k], Frac(b[k], 1))
  PROVE  \E k \in S : Leq(Average(f), Frac(b[k], 1))
<1>1. PICK D \in Nat \ {0} : \E a \in [S -> Int] : Terms(f, a, D, S)
  BY CommonDenominator
<1>2. PICK a \in [S -> Int] : Terms(f, a, D, S)
  BY <1>1
<1> DEFINE T == SumFunctionOnSet(a, S)
           n == Cardinality(S)
           sum == SumFrac(f)
           m == Frac(n, 1)
           x == Average(f)
<1>3. n \in Nat \ {0}
  BY FS_CardinalityType, FS_EmptySet
<1>4. \A k \in S : f[k] \in Fraction /\ Is(f[k], a[k], D) /\ a[k] \in Int /\ b[k] \in Nat
  BY <1>2 DEF FracOn, Terms
<1>5. IntOn(a, S)
  BY <1>4 DEF IntOn
<1>6. T \in Int
  BY <1>5, SumType
<1>7. sum \in Fraction /\ Is(sum, T, D)
  <2>1. sum = FracsOnSet(f, S)
    BY SumFracIs
  <2>. QED
    BY <1>2, <1>5, <2>1, FracSumIs
<1>8. m \in Fraction /\ Is(m, n, 1)
  <2> HIDE DEF n
  <2>. QED
    BY <1>3, FracIs
<1>9. x = Ratio(sum, m)
  BY DEF Average
<1> DEFINE i == T * 1
           j == D * n
<1> HIDE DEF T, n, sum, m, x
<1>10. x \in Fraction /\ Is(x, i, j)
  <2>1. n > 0
    BY <1>3
  <2>2. Ratio(sum, m) \in Fraction
    BY <1>3, <1>6, <1>7, <1>8, RatioIs
  <2>3. Is(Ratio(sum, m), i, j)
    BY <1>3, <1>6, <1>7, <1>8, <2>1, RatioIs
  <2>. QED
    BY <1>9, <2>2, <2>3
<1>11. i = T /\ j \in Nat \ {0}
  BY <1>3, <1>6, NatProducts
<1>12. \A k \in S : a[k] <= b[k] * D
  <2>1. ASSUME NEW k \in S
        PROVE  a[k] <= b[k] * D
    <3> DEFINE c == b[k]
               y == Frac(c, 1)
               z == f[k]
               d == a[k]
    <3>1. c \in Nat /\ z \in Fraction /\ Is(z, d, D) /\ d \in Int /\ Leq(z, y)
      BY <1>4
    <3> HIDE DEF c, z, d
    <3>2. y \in Fraction /\ Is(y, c, 1)
      BY <3>1, FracIs
    <3> HIDE DEF y
    <3>3. Leq(z, y) <=> d * 1 <= c * D
      BY <3>1, <3>2, CompareIs
    <3>. QED
      BY <3>1, <3>3 DEF c, d
  <2>. QED
    BY <2>1
<1>13. ASSUME NEW k \in S
       PROVE  Leq(x, Frac(b[k], 1)) <=> T <= b[k] * (D * n)
  <2> DEFINE c == b[k]
             y == Frac(c, 1)
  <2>1. c \in Nat
    BY <1>4
  <2> HIDE DEF c
  <2>2. y \in Fraction /\ Is(y, c, 1)
    BY <2>1, FracIs
  <2> HIDE DEF y, i, j
  <2>3. Leq(x, y) <=> i * 1 <= c * j
    BY <1>6, <1>10, <1>11, <2>1, <2>2, CompareIs
  <2>. QED
    BY <1>6, <1>11, <2>3 DEF y, c, j
<1>14. SUFFICES ASSUME \A k \in S : ~Leq(x, Frac(b[k], 1))
       PROVE  FALSE
  BY DEF x
<1> DEFINE g == [k \in S |-> n * a[k]]
           z == [k \in S |-> 0]
<1>15. \A k \in S : g[k] \in Int /\ g[k] = n * a[k] /\ z[k] = 0 /\ g[k] <= z[k] + (T - 1)
  <2>1. ASSUME NEW k \in S
        PROVE  n * a[k] \in Int /\ n * a[k] <= T - 1
    <3> DEFINE c == b[k] * D
               d == a[k]
    <3>1. c \in Nat /\ d \in Int /\ d <= c
      BY <1>4, <1>12, NatProducts
    <3>2. ~(T <= c * n)
      <4>1. b[k] * (D * n) = c * n
        BY <1>3, <1>4
      <4>. QED
        BY <1>13, <1>14, <4>1
    <3> HIDE DEF c, d
    <3>3. n * d <= c * n /\ n * d \in Int /\ c * n \in Int
      BY <1>3, <3>1
    <3>4. n * d <= T - 1
      BY <1>6, <3>2, <3>3
    <3>. QED
      BY <3>3, <3>4 DEF d
  <2>2. \A k \in S : g[k] = n * a[k] /\ z[k] = 0
    OBVIOUS
  <2> HIDE DEF g, z
  <2>. QED
    BY <1>6, <2>1, <2>2
<1>16. IntOn(g, S) /\ IntOn(z, S)
  BY <1>15 DEF IntOn
<1> HIDE DEF g, z
<1> DEFINE e == T - 1
<1>17. e \in Int
  BY <1>6
<1>18. \A k \in S : g[k] <= z[k] + e
  BY <1>15
<1> HIDE DEF e
<1>19. SumFunctionOnSet(g, S) <= SumFunctionOnSet(z, S) + e * Cardinality(S)
  BY <1>16, <1>17, <1>18, SumAtMost
<1>20. SumFunctionOnSet(z, S) = 0
  <2>1. \A k \in S \ {} : z[k] = 0
    BY <1>15
  <2>2. {} \in SUBSET S
    OBVIOUS
  <2>3. SumFunctionOnSet(z, S) = SumFunctionOnSet(z, {})
    BY <1>16, <2>1, <2>2, SumNonzero
  <2>. QED
    BY <2>3, SumEmpty
<1>21. SumFunctionOnSet(g, S) = n * T
  <2>1. \A k \in S : g[k] = n * a[k]
    BY <1>15
  <2>2. n \in Int
    BY <1>3
  <2>3. SumFunctionOnSet(g, S) = n * SumFunctionOnSet(a, S)
    BY <1>5, <2>1, <2>2, SumScaled
  <2>. QED
    BY <2>3 DEF T
<1>22. n * T <= e * n
  BY <1>3, <1>17, <1>19, <1>20, <1>21 DEF n
<1>23. e * n = n * T - n
  BY <1>3, <1>6 DEF e
<1>24. n * T \in Int
  BY <1>3, <1>6
<1>. QED
  BY <1>3, <1>22, <1>23, <1>24

----------------------------------------------------------------------------
(* The totals of a page.                                                   *)

\* The duration is at most the maturity.
LEMMA DurationFits ==
  ASSUME NEW par \in Nat, NEW c \in Nat, NEW y \in Int, NEW u, Grows(u, y), NEW maturity,
         NEW n \in Nat, n = Years(maturity)
  PROVE  /\ macaulay_duration(par, c, y, maturity) \in Fraction
         /\ Leq(macaulay_duration(par, c, y, maturity), Frac(n, 1))
<1> DEFINE d == macaulay_duration(par, c, y, maturity)
           i == Moment(par, c, u, n)
           j == Worth(par, c, u, n)
           x == Frac(n, 1)
<1>1. /\ d \in Fraction
      /\ j > 0 => Is(d, i, j)
      /\ j = 0 => Is(d, 0, 1)
  BY DurationIs
<1>2. i \in Nat /\ j \in Nat /\ u \in Nat \ {0}
  BY BondSums
<1>3. i <= n * j
  BY <1>2, MomentsFit
<1>4. x \in Fraction /\ Is(x, n, 1)
  BY FracIs
<1> HIDE DEF d, i, j, x
<1>5. CASE j > 0
  <2>1. j \in Nat \ {0} /\ Is(d, i, j)
    BY <1>1, <1>2, <1>5
  <2>2. Leq(d, x) <=> i * 1 <= n * j
    BY <1>1, <1>2, <1>4, <2>1, CompareIs
  <2>. QED
    BY <1>1, <1>2, <1>3, <2>2 DEF d, x
<1>6. CASE j = 0
  <2>1. Is(d, 0, 1)
    BY <1>1, <1>6
  <2>2. Leq(d, x) <=> 0 * 1 <= n * 1
    BY <1>1, <1>4, <2>1, CompareIs
  <2>. QED
    BY <1>1, <2>2 DEF d, x
<1>. QED
  BY <1>2, <1>5, <1>6

\* Bonds, and only they, have a duration.
LEMMA DurationOf ==
  ASSUME NEW r, Ordinary(r), r.kind \in Kind
  PROVE  /\ compute(r).duration # <<>> <=> r.kind = "BOND"
         /\ r.kind = "BOND" => /\ compute(r).duration[1] \in Fraction
                               /\ MaturityOf(r) \in Nat
                               /\ Leq(compute(r).duration[1], Frac(MaturityOf(r), 1))
<1>1. CASE r.kind = "BOND"
  <2> DEFINE par == ParOf(r)
             c == CouponOf(r)
             y == YieldOf(r)
             t == TermOf(r)
             n == Years(t)
             u == RateBase + y
             d == macaulay_duration(par, c, y, t)
  <2>1. compute(r).duration = <<d>>
    BY <1>1 DEF compute, ComputeBond, Measures, ParOf, CouponOf, YieldOf, TermOf
  <2>2. y \in Int /\ y > Lo /\ par \in Nat /\ c \in Nat /\ t \in Nat
    BY <1>1, OrdinaryRates DEF BondBut
  <2>3. MaturityOf(r) = n
    BY DEF MaturityOf, TermOf
  <2> HIDE DEF par, c, y, t
  <2>4. n \in Nat
    BY <2>2, HalfYears
  <2>5. Grows(u, y)
    BY <2>2, GrowsFrom
  <2> HIDE DEF n, u
  <2>6. d \in Fraction /\ Leq(d, Frac(n, 1))
    BY <2>2, <2>4, <2>5, DurationFits DEF n
  <2>7. <<d>> # <<>> /\ <<d>>[1] = d
    OBVIOUS
  <2> HIDE DEF d
  <2>. QED
    BY <1>1, <2>1, <2>3, <2>4, <2>6, <2>7
<1>2. CASE r.kind \in {"STOCK", "DERIV"}
  BY <1>2 DEF compute, ComputeStock, ComputeDeriv, Position, Measures
<1>3. CASE r.kind = "PROJECT"
  BY <1>3 DEF compute, ComputeProject, Measures
<1>. QED
  BY <1>1, <1>2, <1>3 DEF Kind

\* All that TotalsSound says of a portfolio.
LEMMA AggregateFits ==
  ASSUME NEW ps, IsFiniteSet(DOMAIN ps), \A p \in DOMAIN ps : ProductRow(ps[p]) /\ Ordinary(ps[p]),
         NEW limit \in Int
  PROVE  TotalsFit(ps, aggregate(ps, limit), limit)
<1> DEFINE S == DOMAIN ps
           c == [k \in S |-> compute(ps[k])]
           w == [k \in S |-> c[k].current_value]
           total == SumFrac(w)
           O == {k \in S : OverLimit(c[k].current_value, total, limit)}
           bonds == {k \in S : c[k].duration # <<>>}
           f == [k \in bonds |-> c[k].duration[1]]
           a == aggregate(ps, limit)
<1>1. a.over_limit = O /\ a.avg_duration = IF bonds = {} THEN <<>> ELSE <<Average(f)>>
  BY DEF aggregate, Totals, Weights
<1>2. \A k \in S : Ordinary(ps[k]) /\ ps[k].kind \in Kind /\ c[k] = compute(ps[k])
  BY DEF ProductRow
<1>3. \A k \in S : w[k] \in Fraction /\ (~Falls(ps[k]) => w[k].n >= 0)
  BY <1>2, WorthOf
<1>4. O = {k \in S : OverLimit(w[k], total, limit)} /\ total = FracsOnSet(w, S)
  <2>1. DOMAIN w = S
    OBVIOUS
  <2>2. total = FracsOnSet(w, S)
    BY <2>1, SumFracIs
  <2>3. \A k \in S : w[k] = c[k].current_value
    OBVIOUS
  <2> HIDE DEF w, total, c
  <2>. QED
    BY <2>2, <2>3
<1>5. ASSUME \A p \in S : ~Falls(ps[p]), O # {}
      PROVE  limit * Cardinality(O) < 100
  <2>1. FracOn(w, S) /\ \A k \in S : w[k].n >= 0
    BY <1>3, <1>5 DEF FracOn
  <2> HIDE DEF O, total, w
  <2>. QED
    BY <1>4, <1>5, <2>1, WeightsFit
<1>6. ASSUME bonds # {}
      PROVE  \E p \in S : ps[p].kind = "BOND" /\ Leq(Average(f), Frac(MaturityOf(ps[p]), 1))
  <2> DEFINE b == [k \in bonds |-> MaturityOf(ps[k])]
  <2>1. \A k \in bonds : /\ k \in S /\ ps[k].kind = "BOND" /\ f[k] \in Fraction /\ b[k] \in Nat
                         /\ b[k] = MaturityOf(ps[k]) /\ Leq(f[k], Frac(b[k], 1))
    BY <1>2, DurationOf
  <2>2. IsFiniteSet(bonds) /\ DOMAIN f = bonds /\ b \in [bonds -> Nat]
    BY <2>1, FS_Subset
  <2>3. FracOn(f, bonds)
    BY <2>1 DEF FracOn
  <2> HIDE DEF f, b, bonds
  <2>4. \E k \in bonds : Leq(Average(f), Frac(b[k], 1))
    BY <1>6, <2>1, <2>2, <2>3, AverageFits
  <2>. QED
    BY <2>1, <2>4
<1> HIDE DEF S, a, O, bonds, f
<1>7. (\A p \in S : ~Falls(ps[p])) /\ a.over_limit # {} => limit * Cardinality(a.over_limit) < 100
  BY <1>1, <1>5
<1>8. ASSUME a.avg_duration # <<>>
      PROVE  \E p \in S : ps[p].kind = "BOND" /\ Leq(a.avg_duration[1], Frac(MaturityOf(ps[p]), 1))
  <2>1. bonds # {} /\ a.avg_duration[1] = Average(f)
    BY <1>1, <1>8
  <2>. QED
    BY <1>6, <2>1
<1>. QED
  BY <1>7, <1>8 DEF TotalsFit, S, a

\* Of every portfolio of ordinary products, those over the limit are fewer than fit in a hundred per
\* cent, and the average duration is at most the longest maturity of a bond (metrics.py 253-309).
THEOREM TotalsHold == Spec => []TotalsSound
<1>1. ASSUME TypeOK
      PROVE  TotalsSound
  <2>1. ASSUME NEW f \in Portfolio, There(portfolio[f]), \A p \in DOMAIN Held(f) : Ordinary(Held(f)[p])
        PROVE  TotalsFit(Held(f), aggregate(Held(f), portfolio[f].weight_limit_pct),
                         portfolio[f].weight_limit_pct)
    <3>1. portfolio[f].weight_limit_pct \in Limits
      BY <1>1, <2>1 DEF TypeOK, There, New, Gone, PortfolioRow
    <3>2. portfolio[f].weight_limit_pct \in Int
      BY <3>1, MarketAssumption
    <3>3. (\A p \in DOMAIN Held(f) : ProductRow(Held(f)[p])) /\ IsFiniteSet(DOMAIN Held(f))
      BY <1>1, HeldRows
    <3>. QED
      BY <2>1, <3>2, <3>3, AggregateFits
  <2>. QED
    BY <2>1 DEF TotalsSound
<1>. QED
  BY <1>1, TypeCorrect, PTL

----------------------------------------------------------------------------
(* The bracket of the internal rate of return.                             *)

\* Two rates, in their order.
Bracket == {b \in (Lo..Hi) \X (Lo..Hi) : b[1] <= b[2]}

\* The values at both ends have different signs, or the ends are one root.
Straddles(v, b) == v[b[1]] * v[b[2]] < 0 \/ (b[1] = b[2] /\ v[b[1]] = 0)

\* The bracket it starts with.
LEMMA LoHi == Lo \in Int /\ Hi \in Int /\ Lo < Hi /\ <<Lo, Hi>> \in Bracket
<1>1. Lo \in Int /\ Hi \in Int /\ Lo < Hi
  BY RateAssumption DEF Lo, Hi
<1>. QED
  BY <1>1 DEF Bracket

\* A step halves a bracket that is wider than neighbouring rates, and keeps the sign change.
LEMMA HalveIs ==
  ASSUME NEW v \in [Lo..Hi -> Int], NEW b \in Bracket, NEW c, c = Halve(v, b)
  PROVE  /\ c \in Bracket
         /\ \/ b[2] - b[1] <= 1 /\ c = b
            \/ b[2] - b[1] > 1 /\ 2 * (c[2] - c[1] - 1) <= b[2] - b[1] - 1
         /\ Straddles(v, b) => Straddles(v, c)
<1> DEFINE i == b[1]
           j == b[2]
           m == (i + j) \div 2
<1>1. i \in Lo..Hi /\ j \in Lo..Hi /\ i <= j /\ Lo \in Int /\ Hi \in Int
  BY LoHi DEF Bracket
<1>2. i \in Int /\ j \in Int /\ m \in Int /\ i <= m /\ m <= j /\ 2 * m <= i + j /\ i + j <= 2 * m + 1
  BY <1>1
<1>3. m \in Lo..Hi
  BY <1>1, <1>2
<1>4. CASE j - i <= 1
  <2>1. c = b
    BY <1>4 DEF Halve
  <2>. QED
    BY <1>4, <2>1
<1>5. CASE ~(j - i <= 1)
  <2> DEFINE x == v[i]
             y == v[j]
             z == v[m]
  <2>1. x \in Int /\ y \in Int /\ z \in Int
    BY <1>1, <1>3
  <2>2. c = IF z = 0 THEN <<m, m>> ELSE IF x * z < 0 THEN <<i, m>> ELSE <<m, j>>
    BY <1>5 DEF Halve
  <2>3. Straddles(v, b) => x * y < 0
    BY <1>1, <1>5 DEF Straddles
  <2>4. b[2] - b[1] > 1
    BY <1>1, <1>5
  <2> HIDE DEF m
  <2>5. CASE z = 0
    <3>1. c = <<m, m>>
      BY <2>2, <2>5
    <3>2. c \in Bracket
      BY <1>2, <1>3, <3>1 DEF Bracket
    <3>3. Straddles(v, c)
      BY <2>5, <3>1 DEF Straddles
    <3>4. 2 * (m - m - 1) <= j - i - 1
      BY <1>2
    <3>. QED
      BY <2>4, <3>1, <3>2, <3>3, <3>4
  <2>6. CASE z # 0 /\ x * z < 0
    <3>1. c = <<i, m>>
      BY <2>2, <2>6
    <3>2. c \in Bracket
      BY <1>1, <1>2, <1>3, <3>1 DEF Bracket
    <3>3. Straddles(v, c)
      BY <2>6, <3>1 DEF Straddles
    <3>4. 2 * (m - i - 1) <= j - i - 1
      BY <1>2
    <3>. QED
      BY <2>4, <3>1, <3>2, <3>3, <3>4
  <2>7. CASE z # 0 /\ ~(x * z < 0)
    <3>1. c = <<m, j>>
      BY <2>2, <2>7
    <3>2. c \in Bracket
      BY <1>1, <1>2, <1>3, <3>1 DEF Bracket
    <3>3. x * y < 0 => z * y < 0
      <4> HIDE DEF x, y, z
      <4>1. \A p, q \in Int : p * q < 0 <=> (p < 0 /\ q > 0) \/ (p > 0 /\ q < 0)
        OBVIOUS
      <4>2. (x * y < 0 <=> (x < 0 /\ y > 0) \/ (x > 0 /\ y < 0))
            /\ (x * z < 0 <=> (x < 0 /\ z > 0) \/ (x > 0 /\ z < 0))
            /\ (z * y < 0 <=> (z < 0 /\ y > 0) \/ (z > 0 /\ y < 0))
        BY <2>1, <4>1
      <4>. QED
        BY <2>1, <2>7, <4>2
    <3>4. Straddles(v, b) => Straddles(v, c)
      BY <2>3, <3>1, <3>3 DEF Straddles
    <3>5. 2 * (j - m - 1) <= j - i - 1
      BY <1>2
    <3>. QED
      BY <2>4, <3>1, <3>2, <3>4, <3>5
  <2>. QED
    BY <2>5, <2>6, <2>7
<1>. QED
  BY <1>4, <1>5

\* Halving the width makes up for a power of 2 more.
LEMMA WidthHalves ==
  ASSUME NEW w \in Int, NEW x \in Int, NEW p \in Nat \ {0}, NEW W \in Nat, w * p <= W,
         x <= 0 \/ 2 * x <= w
  PROVE  x * (2 * p) <= W
<1>1. CASE x <= 0
  <2> DEFINE q == 2 * p
  <2>1. q \in Nat
    OBVIOUS
  <2> HIDE DEF q
  <2>2. x * q <= 0
    BY <1>1, <2>1
  <2>3. x * q \in Int
    BY <2>1
  <2>. QED
    BY <2>2, <2>3 DEF q
<1>2. CASE 2 * x <= w
  <2>1. (2 * x) * p <= w * p
    BY <1>2
  <2>2. x * (2 * p) = (2 * x) * p
    OBVIOUS
  <2> DEFINE a == (2 * x) * p
             b == w * p
  <2>3. a \in Int /\ b \in Int
    OBVIOUS
  <2> HIDE DEF a, b
  <2>4. a <= W
    BY <2>1, <2>3 DEF a, b
  <2>. QED
    BY <2>2, <2>4 DEF a
<1>. QED
  BY <1>1, <1>2

\* A function is the brackets of a bisection.
Bisects(f, v) == f = [k \in Nat |-> IF k = 0 THEN <<Lo, Hi>> ELSE Halve(v, f[k - 1])]

\* The recursion has a solution.
LEMMA BisectionExists ==
  ASSUME NEW v \in [Lo..Hi -> Int]
  PROVE  \E f : Bisects(f, v) /\ \A k \in Nat : f[k] \in Bracket
<1> DEFINE step == [b \in Bracket |-> Halve(v, b)]
           s == <<Lo, Hi>>
<1>1. s \in Bracket
  BY LoHi
<1>2. step \in [Bracket -> Bracket] /\ \A b \in Bracket : step[b] = Halve(v, b)
  BY HalveIs
<1> HIDE DEF step, s
<1>3. PICK f : Iterates(f, Bracket, s, step)
  BY <1>1, <1>2, Recursion
<1>4. f \in [Nat -> Bracket] /\ f[0] = s /\ \A k \in Nat : f[k + 1] = step[f[k]]
  BY <1>3 DEF Iterates
<1>5. ASSUME NEW k \in Nat
      PROVE  f[k] = IF k = 0 THEN s ELSE Halve(v, f[k - 1])
  <2>1. CASE k = 0
    BY <1>4, <2>1
  <2>2. CASE k # 0
    <3> DEFINE i == k - 1
    <3>1. i \in Nat /\ k = i + 1
      BY <2>2
    <3> HIDE DEF i
    <3>2. f[k] = step[f[i]] /\ f[i] \in Bracket
      BY <1>4, <3>1
    <3>. QED
      BY <1>2, <2>2, <3>2 DEF i
  <2>. QED
    BY <2>1, <2>2
<1>6. Bisects(f, v)
  BY <1>4, <1>5 DEF Bisects, s
<1>. QED
  BY <1>4, <1>6

\* What a bisection keeps, however many steps it takes.
LEMMA BisectionKeeps ==
  ASSUME NEW v \in [Lo..Hi -> Int], NEW f, Bisects(f, v), NEW n \in Nat
  PROVE  /\ f[n] \in Bracket
         /\ (f[n][2] - f[n][1] - 1) * Power(2, n) <= Hi - Lo
         /\ v[Lo] * v[Hi] < 0 => Straddles(v, f[n])
<1> DEFINE Good == {k \in Nat : /\ f[k] \in Bracket
                                /\ (f[k][2] - f[k][1] - 1) * Power(2, k) <= Hi - Lo
                                /\ v[Lo] * v[Hi] < 0 => Straddles(v, f[k])}
<1>1. 0 \in Good
  <2>1. f[0] = <<Lo, Hi>>
    BY DEF Bisects
  <2>2. Power(2, 0) = 1
    BY PowerType
  <2>3. (Hi - Lo - 1) * 1 <= Hi - Lo
    BY LoHi
  <2>4. f[0][1] = Lo /\ f[0][2] = Hi /\ f[0] \in Bracket
    BY <2>1, LoHi
  <2>5. v[Lo] * v[Hi] < 0 => Straddles(v, f[0])
    BY <2>4 DEF Straddles
  <2>6. (f[0][2] - f[0][1] - 1) * Power(2, 0) <= Hi - Lo
    BY <2>2, <2>3, <2>4
  <2>. QED
    BY <2>4, <2>5, <2>6
<1>2. ASSUME NEW k \in Nat, k \in Good
      PROVE  k + 1 \in Good
  <2> DEFINE b == f[k]
             c == f[k + 1]
             w == b[2] - b[1] - 1
             x == c[2] - c[1] - 1
             p == Power(2, k)
             W == Hi - Lo
  <2>1. b \in Bracket /\ w * p <= W /\ (v[Lo] * v[Hi] < 0 => Straddles(v, b))
    BY <1>2
  <2>2. c = Halve(v, b)
    <3>1. k + 1 \in Nat /\ k + 1 # 0 /\ (k + 1) - 1 = k
      OBVIOUS
    <3>. QED
      BY <3>1 DEF Bisects
  <2>3. /\ c \in Bracket
        /\ \/ b[2] - b[1] <= 1 /\ c = b
           \/ b[2] - b[1] > 1 /\ 2 * (c[2] - c[1] - 1) <= b[2] - b[1] - 1
        /\ Straddles(v, b) => Straddles(v, c)
    <3> HIDE DEF b, c
    <3>. QED
      BY <2>1, <2>2, HalveIs
  <2>4. Power(2, k + 1) = 2 * p
    BY PowerType
  <2>5. p \in Nat \ {0}
    BY PowerPositive
  <2>6. b[1] \in Int /\ b[2] \in Int /\ c[1] \in Int /\ c[2] \in Int
    BY <2>1, <2>3, LoHi DEF Bracket
  <2>7. w \in Int /\ x \in Int /\ W \in Nat /\ (x <= 0 \/ 2 * x <= w)
    <3> HIDE DEF b, c
    <3>1. w \in Int /\ x \in Int /\ W \in Nat
      BY <2>6, LoHi
    <3>2. CASE b[2] - b[1] <= 1 /\ c = b
      BY <2>6, <3>1, <3>2
    <3>3. CASE 2 * (c[2] - c[1] - 1) <= b[2] - b[1] - 1
      BY <3>1, <3>3
    <3>. QED
      BY <2>3, <3>1, <3>2, <3>3
  <2> HIDE DEF b, c, w, x, p, W
  <2>8. x * (2 * p) <= W
    BY <2>1, <2>5, <2>7, WidthHalves
  <2>9. k + 1 \in Nat /\ x * Power(2, k + 1) <= W
    BY <2>4, <2>8
  <2>. QED
    BY <2>1, <2>3, <2>9 DEF c, x, W
<1> HIDE DEF Good
<1>3. \A k \in Nat : k \in Good
  BY <1>1, <1>2, NatSetInduction
<1>. QED
  BY <1>3 DEF Good

\* The values irr goes by, at the whole rates.
Signs(cashflows) == [rate \in Lo..Hi |-> npv(cashflows, rate).n]

\* They are integers.
LEMMA SignsType ==
  ASSUME NEW cashflows \in Seq(Int), cashflows # <<>>
  PROVE  Signs(cashflows) \in [Lo..Hi -> Int]
<1>1. ASSUME NEW rate \in Lo..Hi
      PROVE  npv(cashflows, rate).n \in Int
  <2> DEFINE u == RateBase + rate
             x == npv(cashflows, rate)
  <2>1. rate \in Int /\ u > 0
    BY LoHi, RateAssumption DEF Lo
  <2>2. Grows(u, rate)
    BY <2>1 DEF Grows
  <2> HIDE DEF u
  <2>3. x \in Fraction
    BY <2>1, <2>2, NpvIs
  <2>. QED
    BY <2>3 DEF Fraction
<1>. QED
  BY <1>1 DEF Signs

\* irr, when it is not None, is where that recursion ends.
LEMMA IrrIs ==
  ASSUME NEW cashflows, irr(cashflows) # <<>>
  PROVE  irr(cashflows) = (CHOOSE f : Bisects(f, Signs(cashflows)))[max_iter]
  BY DEF irr, Bisects, Signs

\* All that IrrBrackets says of flows.
LEMMA IrrKeeps ==
  ASSUME NEW cashflows \in Seq(Int), cashflows # <<>>, irr(cashflows) # <<>>
  PROVE  Brackets(Signs(cashflows), irr(cashflows))
<1> DEFINE v == Signs(cashflows)
           g == CHOOSE f : Bisects(f, v)
           b == irr(cashflows)
<1>1. v \in [Lo..Hi -> Int]
  BY SignsType
<1>2. Bisects(g, v)
  <2> HIDE DEF v
  <2>1. \E f : Bisects(f, v)
    BY <1>1, BisectionExists
  <2>. QED
    BY <2>1
<1>3. b = g[max_iter] /\ max_iter \in Nat
  BY IrrIs, RateAssumption DEF g
<1> HIDE DEF v, b
<1>4. /\ b \in Bracket
      /\ (b[2] - b[1] - 1) * Power(2, max_iter) <= Hi - Lo
      /\ v[Lo] * v[Hi] < 0 => Straddles(v, b)
  BY <1>1, <1>2, <1>3, BisectionKeeps
<1>5. ASSUME v[Lo] * v[Hi] < 0
       PROVE  v[b[1]] * v[b[2]] <= 0
  <2>1. Straddles(v, b)
    BY <1>4, <1>5
  <2>2. v[b[1]] \in Int /\ v[b[2]] \in Int
    BY <1>1, <1>4 DEF Bracket
  <2> DEFINE x == v[b[1]]
             y == v[b[2]]
             z == x * y
  <2>3. z \in Int
    BY <2>2
  <2>4. z < 0 \/ (x = y /\ x = 0)
    BY <2>1 DEF Straddles
  <2>5. x = 0 => z = 0
    BY <2>2
  <2> HIDE DEF x, y, z
  <2>6. z <= 0
    BY <2>3, <2>4, <2>5
  <2>. QED
    BY <2>6 DEF x, y, z
<1>6. b[1] \in Int /\ b[2] \in Int /\ Lo <= b[1] /\ b[1] <= b[2] /\ b[2] <= Hi
  BY <1>4, LoHi DEF Bracket
<1>. QED
  BY <1>4, <1>5, <1>6 DEF Brackets, v, b

\* The bisection of every ordinary project ends with a bracket as narrow as its iterations can make it,
\* over which the npv changes sign when it does over the whole (metrics.py 13-26).
THEOREM IrrHolds == Spec => []IrrBrackets
<1>1. ASSUME NEW p \in Listed, product[p].kind = "PROJECT", Ordinary(product[p]),
             irr(Flows(product[p])) # <<>>
      PROVE  Brackets([rate \in Lo..Hi |-> npv(Flows(product[p]), rate).n], irr(Flows(product[p])))
  <2> DEFINE f == Flows(product[p])
  <2>1. f \in Seq(Int) /\ f # <<>>
    BY <1>1, FlowsTyped
  <2>2. irr(f) # <<>>
    BY <1>1
  <2> HIDE DEF f
  <2>3. Brackets(Signs(f), irr(f))
    BY <2>1, <2>2, IrrKeeps
  <2>. QED
    BY <2>3 DEF Signs, f
<1>2. IrrBrackets
  BY <1>1 DEF IrrBrackets
<1>. QED
  BY <1>2, PTL

\* The figures, the totals and the ends of the bisections of ordinary products fit together, in every
\* state (metrics.py 13-309).
THEOREM MeasuresHold == Spec => []MeasuresSound
<1>1. FiguresSound /\ IrrBrackets /\ TotalsSound => MeasuresSound
  BY DEF MeasuresSound
<1>. QED
  BY <1>1, FiguresHold, IrrHolds, TotalsHold, PTL

=============================================================================
