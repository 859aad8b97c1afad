-------------------------- MODULE MCCostAllocation --------------------------
(* Inputs for model checking CostAllocation. *)
EXTENDS CostAllocation, TLC

CONSTANTS d1, d2, a, b, e1, e2, p1, p2, k1

\* Two divisions of a department each: one with an employee, a project and cost of 7, the
\* other empty.  The rule takes every form that is submitted.
MCRules ==
  {[st |-> "there", source_department |-> s, is_active |-> TRUE, driver_type |-> x[1],
    target_dimension |-> x[2]] :
     s \in {a, None},
     x \in {<<"HEADCOUNT", "PROJECT">>, <<"MANHOUR", "PROJECT">>, <<"REVENUE", "PROJECT">>,
            <<"MANUAL", "DEPARTMENT">>, <<"REVENUE", "DEPARTMENT">>, <<"EQUAL", "EMPLOYEE">>}}

Base(r) ==
  [division   |-> [v \in Division |-> [st |-> "there"]],
   department |-> (a :> [st |-> "there", division |-> d1] @@ b :> [st |-> "there", division |-> d2]),
   employee   |-> (e1 :> [st |-> "there", department |-> a, is_active |-> TRUE] @@ e2 :> New),
   project    |-> (p1 :> [st |-> "there", division |-> d2, department |-> b, open |-> TRUE] @@ p2 :> New),
   budgets    |-> {},
   assignment |-> [k \in Project \X Employee |-> IF k = <<p1, e1>> THEN 2 ELSE None],
   rule       |-> (k1 :> r),
   drivers    |-> [k \in Rule \X Target |-> IF k[2] \in {a, b} THEN 2 ELSE 0],
   cost       |-> [d \in Department \cup {None} |-> IF d = a THEN 7 ELSE 0],
   revenue    |-> [t \in Department \cup Project |-> IF t \in {p1, b} THEN 5 ELSE 0]]

\* The second division and the rule not yet entered; or nobody in the first.
Empty(start) ==
  [start EXCEPT !.project = [p \in Project |-> New], !.employee = [e \in Employee |-> New],
                !.assignment = [k \in DOMAIN @ |-> None], !.revenue = [t \in DOMAIN @ |-> 0]]
MCStart ==
  {Base(r) : r \in MCRules}
  \cup {[Empty(Base(New)) EXCEPT !.division[d2] = New, !.department[b] = New],
        Empty(Base([st |-> "there", source_department |-> a, is_active |-> TRUE,
                    driver_type |-> "EQUAL", target_dimension |-> "DEPARTMENT"]))}

MCAmounts == {-3, 4}

P(v, d, cs, dates, twice) ==
  [division |-> v, department |-> d, open |-> TRUE, budgets |-> cs, dates_in_order |-> dates,
   category_twice |-> twice]

\* Two projects that are accepted, and three that are not.
MCForms ==
  {P(d1, a, Category, TRUE, FALSE), P(d2, None, Category, TRUE, FALSE), P(d1, b, {}, TRUE, FALSE),
   P(d1, a, {}, FALSE, FALSE), P(d1, a, Category, TRUE, TRUE)}
=============================================================================
