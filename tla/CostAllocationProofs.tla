------------------------ MODULE CostAllocationProofs ------------------------
(***************************************************************************)
(* Proofs about CostAllocation: types, references, the budgets of a        *)
(* project, and what the runs of an allocation post.  First every action   *)
(* is shown to keep the types; then the arithmetic of a simulation, the    *)
(* references, the invariant of runs and entries, and the budgets.         *)
(***************************************************************************)
EXTENDS CostAllocation, NumberLemmas

----------------------------------------------------------------------------
(* Types.                                                                  *)

LEMMA TypeFrom ==
  ASSUME division' \in [Division -> DivisionRow \cup Deleted],
         department' \in [Department -> DepartmentRow \cup Deleted],
         employee' \in [Employee -> EmployeeRow \cup Deleted],
         project' \in [Project -> ProjectRow \cup Deleted],
         budgets' \subseteq Project \X Category,
         assignment' \in [Project \X Employee -> Int \cup {None}],
         rule' \in [Rule -> RuleRow \cup Deleted],
         drivers' \in [Rule \X Target -> Int],
         cost' \in [Department \cup {None} -> Int],
         revenue' \in [Department \cup Project -> Int],
         DOMAIN run' = Run, \A r \in Run : run'[r] \in Deleted \/ RunRow(run'[r]),
         posted' \subseteq Posting, req' \in Request,
         submitted' \in [Project -> SUBSET Category],
         interrupted' \subseteq Project, rewritten' \subseteq Run, edits' \in 0..MaxEdits
  PROVE  TypeOK'
BY DEF TypeOK, Tables, tables

LEMMA Typed ==
  ASSUME TypeOK
  PROVE  /\ division \in [Division -> DivisionRow \cup Deleted]
         /\ department \in [Department -> DepartmentRow \cup Deleted]
         /\ employee \in [Employee -> EmployeeRow \cup Deleted]
         /\ project \in [Project -> ProjectRow \cup Deleted]
         /\ budgets \subseteq Project \X Category
         /\ assignment \in [Project \X Employee -> Int \cup {None}]
         /\ rule \in [Rule -> RuleRow \cup Deleted]
         /\ drivers \in [Rule \X Target -> Int]
         /\ cost \in [Department \cup {None} -> Int]
         /\ revenue \in [Department \cup Project -> Int]
         /\ DOMAIN run = Run /\ \A r \in Run : run[r] \in Deleted \/ RunRow(run[r])
         /\ posted \subseteq Posting /\ req \in Request
         /\ submitted \in [Project -> SUBSET Category]
         /\ interrupted \subseteq Project /\ rewritten \subseteq Run /\ edits \in 0..MaxEdits
BY DEF TypeOK, Tables, tables

LEMMA InitTypes ==
  ASSUME Init
  PROVE  TypeOK
<1>1. PICK s \in Start :
        /\ division = s.division /\ department = s.department /\ employee = s.employee
        /\ project = s.project /\ budgets = s.budgets /\ assignment = s.assignment
        /\ rule = s.rule /\ drivers = s.drivers /\ cost = s.cost /\ revenue = s.revenue
  BY DEF Init
<1>2. s \in Tables
  BY InputAssumption
<1>3. tables \in Tables
  BY <1>1, <1>2 DEF Tables, tables
<1>4. /\ DOMAIN run = Run /\ \A r \in Run : run[r] \in Deleted
      /\ posted \subseteq Posting /\ req \in Request
      /\ submitted \in [Project -> SUBSET Category]
      /\ interrupted \subseteq Project /\ rewritten \subseteq Run /\ edits \in 0..MaxEdits
  BY CostAssumption DEF Init, Deleted, Request, BudgetsOf
<1>. QED
  BY <1>3, <1>4 DEF TypeOK

LEMMA EditTyped ==
  ASSUME TypeOK, Edit
  PROVE  edits' \in 0..MaxEdits
BY Typed, CostAssumption DEF Edit

LEMMA DivisionCreateTypes ==
  ASSUME TypeOK, costing_division_create
  PROVE  TypeOK'
<1>1. PICK v \in Division : division' = [division EXCEPT ![v] = [st |-> "there"]]
  BY DEF costing_division_create
<1>2. division' \in [Division -> DivisionRow \cup Deleted]
  BY <1>1, Typed DEF DivisionRow
<1>. QED
  BY <1>2, Typed, TypeFrom, EditTyped DEF costing_division_create, org, staff, allocation, screen

LEMMA DepartmentCreateTypes ==
  ASSUME TypeOK, costing_department_create
  PROVE  TypeOK'
<1>1. PICK d \in Department, v \in Division :
        department' = [department EXCEPT ![d] = [st |-> "there", division |-> v]]
  BY DEF costing_department_create
<1>2. department' \in [Department -> DepartmentRow \cup Deleted]
  BY <1>1, Typed DEF DepartmentRow
<1>. QED
  BY <1>2, Typed, TypeFrom, EditTyped DEF costing_department_create, org, staff, allocation, screen

LEMMA EmployeeTypes ==
  ASSUME TypeOK, AdminEmployee
  PROVE  TypeOK'
<1>1. PICK e \in Employee, d \in Department, a \in BOOLEAN :
        employee' = [employee EXCEPT ![e] = [st |-> "there", department |-> d, is_active |-> a]]
  BY DEF AdminEmployee
<1>2. employee' \in [Employee -> EmployeeRow \cup Deleted]
  BY <1>1, Typed DEF EmployeeRow
<1>. QED
  BY <1>2, Typed, TypeFrom, EditTyped DEF AdminEmployee, org, staff, allocation, screen

LEMMA EmployeeDeleteTypes ==
  ASSUME TypeOK, AdminEmployeeDelete
  PROVE  TypeOK'
<1>1. PICK e \in Employee :
        /\ employee' = [employee EXCEPT ![e] = Gone]
        /\ assignment' = [k \in DOMAIN assignment |-> IF k[2] = e THEN None ELSE assignment[k]]
  BY DEF AdminEmployeeDelete
<1>2. employee' \in [Employee -> EmployeeRow \cup Deleted]
  BY <1>1, Typed DEF Deleted
<1>3. assignment' \in [Project \X Employee -> Int \cup {None}]
  BY <1>1, Typed
<1>. QED
  BY <1>2, <1>3, Typed, TypeFrom, EditTyped DEF AdminEmployeeDelete, org, staff, allocation, screen

LEMMA AssignmentTypes ==
  ASSUME TypeOK, AdminAssignment
  PROVE  TypeOK'
<1>1. PICK p \in Project, e \in Employee, n \in Percent \cup {None} :
        assignment' = [assignment EXCEPT ![<<p, e>>] = n]
  BY DEF AdminAssignment
<1>2. assignment' \in [Project \X Employee -> Int \cup {None}]
  BY <1>1, Typed, CostAssumption
<1>. QED
  BY <1>2, Typed, TypeFrom, EditTyped DEF AdminAssignment, org, staff, allocation, screen

LEMMA ProjectCreateTypes ==
  ASSUME TypeOK, costing_project_create
  PROVE  TypeOK'
<1>1. PICK f \in FormInput, p \in Project :
        /\ req' = [pc |-> "validated", key |-> p, todo |-> f.budgets,
                   new |-> [st |-> "there", division |-> f.division, department |-> f.department,
                            open |-> f.open]]
        /\ submitted' = [submitted EXCEPT ![p] = f.budgets]
  BY DEF costing_project_create
<1>2. f \in ProjectInput
  BY InputAssumption
<1>3. req' \in Request /\ submitted' \in [Project -> SUBSET Category]
  BY <1>1, <1>2, Typed DEF Request, ProjectRow, ProjectInput
<1>. QED
  BY <1>3, Typed, TypeFrom, EditTyped DEF costing_project_create, org, staff, allocation, screen

LEMMA SaveProjectTypes ==
  ASSUME TypeOK, SaveProject
  PROVE  TypeOK'
<1>1. req.pc = "validated" /\ req \in Request
  BY Typed DEF SaveProject
<1>2. req.key \in Project /\ req.new \in ProjectRow
  BY <1>1 DEF Request
<1>3. project' = [project EXCEPT ![req.key] = req.new] \/ project' = project
  BY DEF SaveProject
<1>4. project' \in [Project -> ProjectRow \cup Deleted]
  BY <1>2, <1>3, Typed
<1>5. req' = [req EXCEPT !.pc = "saved"] \/ req' = [pc |-> "idle"]
  BY DEF SaveProject
<1>6. req' \in Request
  BY <1>1, <1>5 DEF Request
<1>. QED
  BY <1>4, <1>6, Typed, TypeFrom DEF SaveProject, org, staff, allocation, screen

LEMMA SaveBudgetsTypes ==
  ASSUME TypeOK, SaveBudgets
  PROVE  TypeOK'
<1>1. req.pc = "saved" /\ req \in Request
  BY Typed DEF SaveBudgets
<1>2. req.key \in Project /\ req.todo \subseteq Category
  BY <1>1 DEF Request
<1>3. CASE req' = [pc |-> "idle"] /\ budgets' = budgets
  <2>1. req' \in Request
    BY <1>3 DEF Request
  <2>. QED
    BY <1>3, <2>1, Typed, TypeFrom DEF SaveBudgets, org, staff, allocation, screen
<1>4. CASE \E c \in req.todo : /\ budgets' = budgets \cup {<<req.key, c>>}
                              /\ req' = [req EXCEPT !.todo = @ \ {c}]
  <2>1. PICK c \in req.todo : /\ budgets' = budgets \cup {<<req.key, c>>}
                             /\ req' = [req EXCEPT !.todo = @ \ {c}]
    BY <1>4
  <2>2. req' \in Request
    BY <1>1, <1>2, <2>1 DEF Request
  <2>3. budgets' \subseteq Project \X Category
    BY <1>2, <2>1, Typed
  <2>. QED
    BY <2>2, <2>3, Typed, TypeFrom DEF SaveBudgets, org, staff, allocation, screen
<1>. QED
  BY <1>3, <1>4 DEF SaveBudgets

LEMMA RequestEndsTypes ==
  ASSUME TypeOK, RequestEnds
  PROVE  TypeOK'
<1>1. req.key \in Project /\ req' \in Request
  BY Typed DEF RequestEnds, Request
<1>. QED
  BY <1>1, Typed, TypeFrom DEF RequestEnds, org, staff, allocation, screen

LEMMA ProjectDeleteTypes ==
  ASSUME TypeOK, costing_project_delete
  PROVE  TypeOK'
<1>1. PICK p \in Project :
        /\ project' = [project EXCEPT ![p] = Gone]
        /\ budgets' = {b \in budgets : b[1] # p}
        /\ assignment' = [k \in DOMAIN assignment |-> IF k[1] = p THEN None ELSE assignment[k]]
        /\ revenue' = [revenue EXCEPT ![p] = 0]
  BY DEF costing_project_delete
<1>2. /\ project' \in [Project -> ProjectRow \cup Deleted] /\ budgets' \subseteq Project \X Category
      /\ assignment' \in [Project \X Employee -> Int \cup {None}]
      /\ revenue' \in [Department \cup Project -> Int]
  BY <1>1, Typed DEF Deleted
<1>. QED
  BY <1>2, Typed, TypeFrom, EditTyped DEF costing_project_delete, org, staff, allocation, screen

LEMMA LedgerCreateTypes ==
  ASSUME TypeOK, costing_ledger_create
  PROVE  TypeOK'
<1>1. PICK d \in Department \cup {None}, n \in Amounts : cost' = [cost EXCEPT ![d] = @ + n]
  BY DEF costing_ledger_create
<1>2. cost' \in [Department \cup {None} -> Int]
  BY <1>1, Typed, CostAssumption
<1>. QED
  BY <1>2, Typed, TypeFrom, EditTyped DEF costing_ledger_create, org, staff, allocation, screen

LEMMA RevenueCreateTypes ==
  ASSUME TypeOK, costing_revenue_create
  PROVE  TypeOK'
<1>1. PICK d \in Department \cup {None}, p \in Project \cup {None}, n \in Amounts :
        revenue' = [t \in DOMAIN revenue |-> IF t \in {d, p} THEN revenue[t] + n ELSE revenue[t]]
  BY DEF costing_revenue_create
<1>2. revenue' \in [Department \cup Project -> Int]
  BY <1>1, Typed, CostAssumption
<1>. QED
  BY <1>2, Typed, TypeFrom, EditTyped DEF costing_revenue_create, org, staff, allocation, screen

LEMMA RuleCreateTypes ==
  ASSUME TypeOK, allocation_rule_create
  PROVE  TypeOK'
<1>1. PICK k \in Rule, r \in RuleInput : rule' = [rule EXCEPT ![k] = r]
  BY DEF allocation_rule_create
<1>2. rule' \in [Rule -> RuleRow \cup Deleted]
  BY <1>1, Typed, InputAssumption
<1>. QED
  BY <1>2, Typed, TypeFrom, EditTyped DEF allocation_rule_create, org, staff, allocation, screen

LEMMA RunsOfTyped ==
  ASSUME NEW k
  PROVE  RunsOf(k) \subseteq Run
BY DEF RunsOf

LEMMA AdminRuleTypes ==
  ASSUME TypeOK, AdminRule
  PROVE  TypeOK'
<1>1. PICK k \in Rule, d \in Department \cup {None}, a \in BOOLEAN :
        /\ There(rule[k])
        /\ rule' = [rule EXCEPT ![k].source_department = d, ![k].is_active = a]
        /\ rewritten' = rewritten \cup (IF d # rule[k].source_department THEN RunsOf(k) ELSE {})
  BY DEF AdminRule
<1>2. rule[k] \in RuleRow
  BY <1>1, Typed DEF Deleted, New, Gone, There
<1>3. rule' \in [Rule -> RuleRow \cup Deleted]
  <2>1. rule' = [rule EXCEPT ![k] = [rule[k] EXCEPT !.source_department = d, !.is_active = a]]
    BY <1>1, <1>2, Typed DEF RuleRow
  <2>2. [rule[k] EXCEPT !.source_department = d, !.is_active = a] \in RuleRow
    BY <1>2 DEF RuleRow
  <2>. QED
    BY <2>1, <2>2, Typed
<1>4. rewritten' \subseteq Run
  BY <1>1, Typed, RunsOfTyped
<1>. QED
  BY <1>3, <1>4, Typed, TypeFrom, EditTyped DEF AdminRule, org, staff, allocation, screen

LEMMA AdminDriverTypes ==
  ASSUME TypeOK, AdminDriver
  PROVE  TypeOK'
<1>1. PICK k \in Rule, t \in Target, n \in Amounts : drivers' = [drivers EXCEPT ![<<k, t>>] = n]
  BY DEF AdminDriver
<1>2. drivers' \in [Rule \X Target -> Int]
  BY <1>1, Typed, CostAssumption
<1>. QED
  BY <1>2, Typed, TypeFrom, EditTyped DEF AdminDriver, org, staff, allocation, screen

LEMMA DeleteDepartmentsTypes ==
  ASSUME TypeOK, NEW D \in SUBSET Department, DeleteDepartments(D),
         division' \in [Division -> DivisionRow \cup Deleted], edits' \in 0..MaxEdits
  PROVE  TypeOK'
<1>1. department' \in [Department -> DepartmentRow \cup Deleted]
  BY Typed DEF DeleteDepartments, Deleted
<1>2. \A d \in Department \cup {None} : Unset(d, D) \in Department \cup {None}
  BY DEF Unset
<1>3. project' \in [Project -> ProjectRow \cup Deleted]
  <2>1. ASSUME NEW p \in Project, There(project[p])
        PROVE  [project[p] EXCEPT !.department = Unset(@, D)] \in ProjectRow
    <3>1. project[p] \in ProjectRow
      BY <2>1, Typed DEF Deleted, New, Gone, There
    <3>. QED
      BY <3>1, <1>2 DEF ProjectRow
  <2>. QED
    BY <2>1, Typed DEF DeleteDepartments
<1>4. rule' \in [Rule -> RuleRow \cup Deleted]
  <2>1. ASSUME NEW k \in Rule, There(rule[k])
        PROVE  [rule[k] EXCEPT !.source_department = Unset(@, D)] \in RuleRow
    <3>1. rule[k] \in RuleRow
      BY <2>1, Typed DEF Deleted, New, Gone, There
    <3>. QED
      BY <3>1, <1>2 DEF RuleRow
  <2>. QED
    BY <2>1, Typed DEF DeleteDepartments
<1>5. cost' \in [Department \cup {None} -> Int]
  <2>1. IsFiniteSet(D) /\ IntOn(cost, D)
    BY Typed, InputAssumption, FS_Subset DEF IntOn
  <2>2. SumFunctionOnSet(cost, D) \in Int
    BY <2>1, SumType
  <2>. QED
    BY <2>2, Typed DEF DeleteDepartments
<1>6. revenue' \in [Department \cup Project -> Int]
  BY Typed DEF DeleteDepartments
<1>7. posted' \subseteq Posting
  <2>1. ASSUME NEW x \in posted
        PROVE  [x EXCEPT !.department = Unset(@, D)] \in Posting
    BY <1>2, Typed DEF Posting
  <2>. QED
    BY <2>1 DEF DeleteDepartments
<1>8. rewritten' \subseteq Run
  <2> DEFINE K == {x \in Rule : rule'[x] # rule[x]}
  <2>1. UNION {RunsOf(k) : k \in K} \subseteq Run
    BY RunsOfTyped
  <2>. QED
    BY <2>1, Typed DEF DeleteDepartments
<1>. QED
  BY <1>1, <1>3, <1>4, <1>5, <1>6, <1>7, <1>8, Typed, TypeFrom DEF DeleteDepartments, staff, screen

LEMMA DivisionDeleteTypes ==
  ASSUME TypeOK, costing_division_delete
  PROVE  TypeOK'
<1>1. PICK v \in Division :
        /\ division' = [division EXCEPT ![v] = Gone]
        /\ DeleteDepartments({d \in Department : There(department[d]) /\ department[d].division = v})
  BY DEF costing_division_delete
<1>2. division' \in [Division -> DivisionRow \cup Deleted]
  BY <1>1, Typed DEF Deleted
<1>. QED
  BY <1>1, <1>2, EditTyped, DeleteDepartmentsTypes DEF costing_division_delete

LEMMA DepartmentDeleteTypes ==
  ASSUME TypeOK, costing_department_delete
  PROVE  TypeOK'
<1>1. PICK d \in Department : DeleteDepartments({d})
  BY DEF costing_department_delete
<1>. QED
  BY <1>1, Typed, EditTyped, DeleteDepartmentsTypes DEF costing_department_delete

LEMMA RuleDeleteTypes ==
  ASSUME TypeOK, allocation_rule_delete
  PROVE  TypeOK'
<1>1. PICK k \in Rule :
        /\ rule' = [rule EXCEPT ![k] = Gone]
        /\ drivers' = [x \in DOMAIN drivers |-> IF x[1] = k THEN 0 ELSE drivers[x]]
        /\ run' = [r \in Run |-> IF r \in RunsOf(k)
                                 THEN [run[r] EXCEPT !.results = NoResults] ELSE run[r]]
  BY DEF allocation_rule_delete
<1>2. rule' \in [Rule -> RuleRow \cup Deleted] /\ drivers' \in [Rule \X Target -> Int]
  BY <1>1, Typed DEF Deleted
<1>3. ASSUME NEW r \in Run
      PROVE  run'[r] \in Deleted \/ RunRow(run'[r])
  <2>1. CASE r \in RunsOf(k)
    <3>1. RunRow(run[r])
      BY <2>1, Typed DEF RunsOf, Exists, Deleted, New, Gone
    <3>2. run'[r] = [run[r] EXCEPT !.results = NoResults]
      BY <1>1, <2>1
    <3>3. DOMAIN NoResults = {}
      BY DEF NoResults
    <3>. QED
      BY <3>1, <3>2, <3>3 DEF RunRow
  <2>2. CASE r \notin RunsOf(k)
    BY <1>1, <2>2, Typed
  <2>. QED
    BY <2>1, <2>2
<1>. QED
  BY <1>1, <1>2, <1>3, Typed, TypeFrom, EditTyped DEF allocation_rule_delete, org, staff, screen

----------------------------------------------------------------------------
(* The arithmetic of a simulation.                                         *)

LEMMA QuantizeBounds ==
  ASSUME NEW a \in Nat, NEW b \in Nat, b > 0
  PROVE  /\ quantize(a, b) \in Nat
         /\ 2 * (b * quantize(a, b)) <= 2 * a + b
         /\ 2 * a <= 2 * (b * quantize(a, b)) + b
<1> DEFINE q == a \div b
           r == a % b
<1>1. q \in Int /\ r \in 0..b - 1 /\ q >= 0
  OBVIOUS
<1>2. a = (b * q) + r
  OBVIOUS
<1>3. quantize(a, b) = IF 2 * r > b \/ (2 * r = b /\ q % 2 = 1) THEN q + 1 ELSE q
  BY DEF quantize
<1> HIDE DEF q, r
<1>4. b * (q + 1) = (b * q) + b /\ b * q \in Int
  BY <1>1
<1>. QED
  BY <1>1, <1>2, <1>3, <1>4

LEMMA ShareTyped ==
  ASSUME NEW v \in Nat, NEW T \in Nat \ {0}
  PROVE  Share(v, T) \in Nat
<1>1. v * ShareUnit \in Nat /\ T > 0
  BY ShareUnitAssumption
<1>. QED
  BY <1>1, QuantizeBounds DEF Share

LEMMA AmountTyped ==
  ASSUME NEW source \in Nat, NEW s \in Nat
  PROVE  Amount(source, s) \in Nat
<1>1. source * s \in Nat /\ ShareUnit \in Nat /\ ShareUnit > 0
  BY ShareUnitAssumption
<1>. QED
  BY <1>1, QuantizeBounds DEF Amount

\* What Allocate returns: the positive driver values of total T, with their shares and amounts.
RowsOf(res, source, driver, T) ==
  \A t \in DOMAIN res :
    /\ driver[t] \in Nat /\ Share(driver[t], T) \in Nat /\ Amount(source, Share(driver[t], T)) \in Nat
    /\ res[t] = [value |-> driver[t], share |-> Share(driver[t], T),
                 amount |-> Amount(source, Share(driver[t], T))]

LEMMA AllocateRows ==
  ASSUME NEW source \in Int, NEW driver, IsFiniteSet(DOMAIN driver), IntOn(driver, DOMAIN driver),
         NEW res, res = Allocate(source, driver), NEW T, T = Total(driver)
  PROVE  /\ DOMAIN res \subseteq DOMAIN driver /\ IsFiniteSet(DOMAIN res)
         /\ RowsOf(res, source, driver, T)
         /\ DOMAIN res # {} =>
              /\ T \in Nat \ {0} /\ source \in Nat \ {0}
              /\ DOMAIN res = {x \in DOMAIN driver : driver[x] > 0}
<1> DEFINE P   == {x \in DOMAIN driver : driver[x] > 0}
           row(t) == [value |-> driver[t], share |-> Share(driver[t], T),
                      amount |-> Amount(source, Share(driver[t], T))]
<1>1. T \in Int
  BY SumType DEF Total, SumFunction
<1>2. CASE T <= 0 \/ source <= 0
  <2>1. res = NoResults
    BY <1>2 DEF Allocate
  <2>2. DOMAIN res = {}
    BY <2>1 DEF NoResults
  <2>. QED
    BY <2>2, FS_EmptySet DEF RowsOf
<1>3. CASE ~ (T <= 0 \/ source <= 0)
  <2>1. T \in Nat \ {0} /\ source \in Nat \ {0}
    BY <1>1, <1>3
  <2>2. res = [t \in P |-> row(t)]
    BY <1>3 DEF Allocate
  <2>3. ASSUME NEW t \in P
        PROVE  /\ driver[t] \in Nat /\ Share(driver[t], T) \in Nat
               /\ Amount(source, Share(driver[t], T)) \in Nat
               /\ res[t] = row(t)
    <3>1. driver[t] \in Nat
      BY DEF IntOn
    <3>2. Share(driver[t], T) \in Nat
      BY <2>1, <3>1, ShareTyped
    <3>3. Amount(source, Share(driver[t], T)) \in Nat
      BY <2>1, <3>2, AmountTyped
    <3>. QED
      BY <2>2, <3>1, <3>2, <3>3
  <2>4. DOMAIN res = P /\ IsFiniteSet(P)
    BY <2>2, FS_Subset
  <2>5. DOMAIN res \subseteq DOMAIN driver
    BY <2>4
  <2>6. RowsOf(res, source, driver, T)
    BY <2>3, <2>4 DEF RowsOf
  <2>. QED
    BY <2>1, <2>4, <2>5, <2>6
<1>. QED
  BY <1>2, <1>3

LEMMA Cancel ==
  ASSUME NEW T \in Nat \ {0}, NEW x \in Int, NEW y \in Int, T * x <= T * y
  PROVE  x <= y
<1>1. SUFFICES ASSUME x > y PROVE T * x > T * y
  OBVIOUS
<1>2. PICK d \in Nat \ {0} : x = y + d
  <2>1. x - y \in Nat \ {0} /\ x = y + (x - y)
    BY <1>1
  <2>. QED
    BY <2>1
<1>3. T * (y + d) = (T * y) + (T * d) /\ T * d > 0 /\ T * y \in Int /\ T * d \in Int
  OBVIOUS
<1>. QED
  BY <1>2, <1>3

LEMMA AllocatedIsSum ==
  ASSUME NEW res
  PROVE  Allocated(res) = SumFunctionOnSet([t \in DOMAIN res |-> res[t].amount], DOMAIN res)
BY DEF Allocated, SumFunction

\* The rounding of shares and amounts, at worst a half each, adds up to no more than Slack.
LEMMA AllocateAddsUp ==
  ASSUME NEW source \in Int, NEW driver, IsFiniteSet(DOMAIN driver), IntOn(driver, DOMAIN driver),
         \A t \in DOMAIN driver : driver[t] >= 0,
         NEW res, res = Allocate(source, driver), DOMAIN res # {}
  PROVE  LET off  == Allocated(res) - source
             most == Slack(source, Cardinality(DOMAIN res))
         IN /\ 2 * ShareUnit * off <= most /\ - 2 * ShareUnit * off <= most
            /\ \A t \in DOMAIN res : res[t].share <= ShareUnit
<1> DEFINE T   == Total(driver)
           P   == DOMAIN res
           n   == Cardinality(P)
           fs  == [t \in P |-> res[t].share]
           fa  == [t \in P |-> res[t].amount]
           S   == SumFunctionOnSet(fs, P)
           A   == SumFunctionOnSet(fa, P)
<1>1. /\ T \in Nat \ {0} /\ source \in Nat \ {0} /\ ShareUnit \in Nat \ {0}
      /\ P = {x \in DOMAIN driver : driver[x] > 0} /\ IsFiniteSet(P)
  <2>1. T = Total(driver)
    OBVIOUS
  <2> HIDE DEF T
  <2>. QED
    BY <2>1, AllocateRows, ShareUnitAssumption
<1>2. \A t \in P : /\ res[t].share = Share(driver[t], T) /\ res[t].amount = Amount(source, res[t].share)
                   /\ res[t].share \in Nat /\ res[t].amount \in Nat /\ driver[t] \in Nat
  <2>1. SUFFICES ASSUME NEW t \in DOMAIN res
                 PROVE  /\ res[t].share = Share(driver[t], T)
                        /\ res[t].amount = Amount(source, res[t].share)
                        /\ res[t].share \in Nat /\ res[t].amount \in Nat /\ driver[t] \in Nat
    OBVIOUS
  <2>2. T = Total(driver)
    OBVIOUS
  <2> HIDE DEF T, P, n, fs, fa
  <2>3. RowsOf(res, source, driver, T)
    BY <2>2, AllocateRows
  <2>. QED
    BY <2>3 DEF RowsOf
<1>3. n \in Nat /\ IntOn(fs, P) /\ IntOn(fa, P) /\ IntOn(driver, P)
  BY <1>1, <1>2, FS_CardinalityType DEF IntOn
<1>4. S \in Int /\ A \in Int
  BY <1>1, <1>3, SumType
<1>5. SumFunctionOnSet(driver, P) = T
  <2>1. T = SumFunctionOnSet(driver, DOMAIN driver)
    BY DEF Total, SumFunction
  <2>2. \A x \in (DOMAIN driver) \ P : driver[x] = 0
    BY <1>1 DEF IntOn
  <2>3. P \in SUBSET DOMAIN driver
    BY <1>1
  <2> HIDE DEF P
  <2>. QED
    BY <2>1, <2>2, <2>3, SumNonzero
<1>6. ASSUME NEW t \in P
      PROVE  /\ (2 * T) * fs[t] <= (2 * ShareUnit) * driver[t] + T
             /\ (2 * ShareUnit) * driver[t] <= (2 * T) * fs[t] + T
             /\ (2 * ShareUnit) * fa[t] <= (2 * source) * fs[t] + ShareUnit
             /\ (2 * source) * fs[t] <= (2 * ShareUnit) * fa[t] + ShareUnit
  <2> DEFINE s == res[t].share
             a == res[t].amount
             v == driver[t]
  <2>1. s \in Nat /\ a \in Nat /\ v \in Nat /\ fs[t] = s /\ fa[t] = a
    BY <1>2
  <2>2. /\ 2 * (T * s) <= 2 * (v * ShareUnit) + T
        /\ 2 * (v * ShareUnit) <= 2 * (T * s) + T
    <3>1. s = quantize(v * ShareUnit, T) /\ v * ShareUnit \in Nat
      BY <1>1, <1>2, <2>1 DEF Share
    <3>2. T \in Nat /\ T > 0
      BY <1>1
    <3> HIDE DEF T, P, s, v
    <3>3. /\ 2 * (T * quantize(v * ShareUnit, T)) <= 2 * (v * ShareUnit) + T
          /\ 2 * (v * ShareUnit) <= 2 * (T * quantize(v * ShareUnit, T)) + T
      BY <3>1, <3>2, QuantizeBounds
    <3>. QED
      BY <3>1, <3>3
  <2>3. /\ 2 * (ShareUnit * a) <= 2 * (source * s) + ShareUnit
        /\ 2 * (source * s) <= 2 * (ShareUnit * a) + ShareUnit
    <3>1. a = quantize(source * s, ShareUnit) /\ source * s \in Nat
      BY <1>1, <1>2, <2>1 DEF Amount
    <3>2. ShareUnit \in Nat /\ ShareUnit > 0
      BY <1>1
    <3> HIDE DEF T, P, s, a
    <3>3. /\ 2 * (ShareUnit * quantize(source * s, ShareUnit)) <= 2 * (source * s) + ShareUnit
          /\ 2 * (source * s) <= 2 * (ShareUnit * quantize(source * s, ShareUnit)) + ShareUnit
      BY <3>1, <3>2, QuantizeBounds
    <3>. QED
      BY <3>1, <3>3
  <2>4. /\ (2 * T) * s = 2 * (T * s) /\ (2 * ShareUnit) * v = 2 * (v * ShareUnit)
        /\ (2 * ShareUnit) * a = 2 * (ShareUnit * a) /\ (2 * source) * s = 2 * (source * s)
    BY <1>1, <2>1
  <2> HIDE DEF s, a, v
  <2>. QED
    BY <2>1, <2>2, <2>3, <2>4 DEF v
<1> HIDE DEF T, P, n, fs, fa
<1>7. /\ (2 * T) * S <= (2 * ShareUnit) * T + T * n
      /\ (2 * ShareUnit) * T <= (2 * T) * S + T * n
  <2> DEFINE f == [t \in P |-> (2 * T) * fs[t]]
             g == [t \in P |-> (2 * ShareUnit) * driver[t]]
  <2>1. IntOn(f, P) /\ IntOn(g, P) /\ 2 * T \in Int /\ 2 * ShareUnit \in Int
    BY <1>1, <1>3 DEF IntOn
  <2>2. \A t \in P : f[t] <= g[t] + T /\ g[t] <= f[t] + T
    BY <1>6
  <2>3. SumFunctionOnSet(f, P) = (2 * T) * S
    <3>1. \A t \in P : f[t] = (2 * T) * fs[t]
      OBVIOUS
    <3> HIDE DEF f
    <3>. QED
      BY <1>1, <1>3, <2>1, <3>1, SumScaled
  <2>4. SumFunctionOnSet(g, P) = (2 * ShareUnit) * T
    <3>1. \A t \in P : g[t] = (2 * ShareUnit) * driver[t]
      OBVIOUS
    <3> HIDE DEF g
    <3>2. SumFunctionOnSet(g, P) = (2 * ShareUnit) * SumFunctionOnSet(driver, P)
      BY <1>1, <1>3, <2>1, <3>1, SumScaled
    <3>. QED
      BY <1>5, <3>2
  <2> HIDE DEF f, g
  <2>5. /\ SumFunctionOnSet(f, P) <= SumFunctionOnSet(g, P) + T * n
        /\ SumFunctionOnSet(g, P) <= SumFunctionOnSet(f, P) + T * n
    BY <1>1, <2>1, <2>2, SumAtMost DEF n
  <2>. QED
    BY <2>3, <2>4, <2>5
<1>8. /\ (2 * ShareUnit) * A <= (2 * source) * S + ShareUnit * n
      /\ (2 * source) * S <= (2 * ShareUnit) * A + ShareUnit * n
  <2> DEFINE f == [t \in P |-> (2 * ShareUnit) * fa[t]]
             g == [t \in P |-> (2 * source) * fs[t]]
  <2>1. IntOn(f, P) /\ IntOn(g, P) /\ 2 * source \in Int /\ 2 * ShareUnit \in Int
    BY <1>1, <1>3 DEF IntOn
  <2>2. \A t \in P : f[t] <= g[t] + ShareUnit /\ g[t] <= f[t] + ShareUnit
    BY <1>6
  <2>3. SumFunctionOnSet(f, P) = (2 * ShareUnit) * A
    <3>1. \A t \in P : f[t] = (2 * ShareUnit) * fa[t]
      OBVIOUS
    <3> HIDE DEF f
    <3>. QED
      BY <1>1, <1>3, <2>1, <3>1, SumScaled
  <2>4. SumFunctionOnSet(g, P) = (2 * source) * S
    <3>1. \A t \in P : g[t] = (2 * source) * fs[t]
      OBVIOUS
    <3> HIDE DEF g
    <3>. QED
      BY <1>1, <1>3, <2>1, <3>1, SumScaled
  <2> HIDE DEF f, g
  <2>5. /\ SumFunctionOnSet(f, P) <= SumFunctionOnSet(g, P) + ShareUnit * n
        /\ SumFunctionOnSet(g, P) <= SumFunctionOnSet(f, P) + ShareUnit * n
    BY <1>1, <2>1, <2>2, SumAtMost DEF n
  <2>. QED
    BY <2>3, <2>4, <2>5
<1> HIDE DEF S, A
<1>9. 2 * S <= 2 * ShareUnit + n /\ 2 * ShareUnit <= 2 * S + n
  <2>1. /\ T * (2 * S) = (2 * T) * S /\ T * (2 * ShareUnit) = (2 * ShareUnit) * T
        /\ T * (2 * ShareUnit + n) = T * (2 * ShareUnit) + T * n
        /\ T * (2 * S + n) = T * (2 * S) + T * n
    BY <1>1, <1>3, <1>4
  <2>2. /\ T * (2 * S) <= T * (2 * ShareUnit + n)
        /\ T * (2 * ShareUnit) <= T * (2 * S + n)
    BY <1>7, <2>1
  <2>3. 2 * S \in Int /\ 2 * ShareUnit + n \in Int /\ 2 * ShareUnit \in Int /\ 2 * S + n \in Int
    BY <1>1, <1>3, <1>4
  <2>. QED
    BY <1>1, <2>2, <2>3, Cancel
<1>10. /\ (2 * source) * S <= (2 * source) * ShareUnit + source * n
       /\ (2 * source) * ShareUnit <= (2 * source) * S + source * n
  <2>1. /\ source * (2 * S) <= source * (2 * ShareUnit + n)
        /\ source * (2 * ShareUnit) <= source * (2 * S + n)
    BY <1>1, <1>3, <1>4, <1>9
  <2>2. /\ source * (2 * S) = (2 * source) * S /\ source * (2 * ShareUnit) = (2 * source) * ShareUnit
        /\ source * (2 * ShareUnit + n) = source * (2 * ShareUnit) + source * n
        /\ source * (2 * S + n) = source * (2 * S) + source * n
    BY <1>1, <1>3, <1>4
  <2>. QED
    BY <2>1, <2>2
<1>11. /\ 2 * ShareUnit * (A - source) <= n * (source + ShareUnit)
       /\ - 2 * ShareUnit * (A - source) <= n * (source + ShareUnit)
  <2>1. /\ 2 * ShareUnit * (A - source) = (2 * ShareUnit) * A - (2 * source) * ShareUnit
        /\ - 2 * ShareUnit * (A - source) = (2 * source) * ShareUnit - (2 * ShareUnit) * A
        /\ n * (source + ShareUnit) = source * n + ShareUnit * n
    BY <1>1, <1>3, <1>4
  <2>2. /\ (2 * ShareUnit) * A \in Int /\ (2 * source) * ShareUnit \in Int /\ (2 * source) * S \in Int
        /\ source * n \in Int /\ ShareUnit * n \in Int
    BY <1>1, <1>3, <1>4
  <2>. QED
    BY <1>8, <1>10, <2>1, <2>2
<1>12. Allocated(res) = A
  BY AllocatedIsSum DEF A, fa, P
<1>13. ASSUME NEW t \in P
       PROVE  res[t].share <= ShareUnit
  <2>1. /\ fs[t] = res[t].share /\ res[t].share \in Nat /\ driver[t] \in Nat
    BY <1>2 DEF fs
  <2>2. driver[t] <= T
    <3>1. IsFiniteSet(P \ {t}) /\ IntOn(driver, P \ {t}) /\ \A x \in P \ {t} : driver[x] >= 0
      BY <1>1, <1>2, <1>3, FS_Subset DEF IntOn
    <3>2. SumFunctionOnSet(driver, P \ {t}) >= 0 /\ SumFunctionOnSet(driver, P \ {t}) \in Int
      BY <3>1, SumNonnegative, SumType
    <3>3. T = driver[t] + SumFunctionOnSet(driver, P \ {t})
      BY <1>1, <1>3, <1>5, SumRemove
    <3>. QED
      BY <2>1, <3>2, <3>3, <1>1
  <2>3. (2 * ShareUnit) * driver[t] <= (2 * ShareUnit) * T
    BY <1>1, <2>1, <2>2
  <2>4. (2 * T) * res[t].share <= (2 * ShareUnit) * T + T
    <3>1. /\ (2 * T) * res[t].share \in Int /\ (2 * ShareUnit) * driver[t] \in Int
          /\ (2 * ShareUnit) * T \in Int
      BY <1>1, <2>1
    <3>. QED
      BY <1>1, <1>6, <2>1, <2>3, <3>1
  <2>5. T * (2 * res[t].share) <= T * (2 * ShareUnit + 1)
    <3>1. /\ T * (2 * res[t].share) = (2 * T) * res[t].share
          /\ T * (2 * ShareUnit + 1) = (2 * ShareUnit) * T + T
      BY <1>1, <2>1
    <3>. QED
      BY <2>4, <3>1
  <2>6. 2 * res[t].share <= 2 * ShareUnit + 1
    BY <1>1, <2>1, <2>5, Cancel
  <2>. QED
    BY <1>1, <2>1, <2>6
<1>. QED
  BY <1>11, <1>12, <1>13 DEF Slack, P, n

----------------------------------------------------------------------------
(* What a simulation reads and leaves, what a commit posts.                *)

LEMMA RuleThere ==
  ASSUME TypeOK, NEW k \in Rule, There(rule[k])
  PROVE  rule[k] \in RuleRow
BY Typed DEF There, Deleted, New, Gone

LEMMA ManhourTyped ==
  ASSUME TypeOK, NEW P \in SUBSET Project, NEW E \in SUBSET Employee
  PROVE  Manhour(P, E) \in Int
<1> DEFINE K == {k \in P \X E : assignment[k] # None}
<1>1. IsFiniteSet(Project) /\ IsFiniteSet(Employee)
  BY InputAssumption
<1>2. IsFiniteSet(P) /\ IsFiniteSet(E)
  BY <1>1, FS_Subset
<1>3. IsFiniteSet(K)
  <2>1. IsFiniteSet(P \X E) /\ K \subseteq P \X E
    BY <1>2, FS_Product
  <2>. QED
    BY <2>1, FS_Subset
<1>4. IntOn(assignment, K)
  BY Typed DEF IntOn
<1>5. SumFunctionOnSet(assignment, K) \in Int
  <2> HIDE DEF K
  <2>. QED
    BY <1>3, <1>4, SumType
<1>. QED
  BY <1>5 DEF Manhour

LEMMA CountTyped ==
  ASSUME NEW S \in SUBSET Employee
  PROVE  Cardinality(S) \in Int
BY InputAssumption, FS_Subset, FS_CardinalityType

LEMMA TargetsTyped ==
  ASSUME NEW r \in RuleRow
  PROVE  /\ IsFiniteSet(_targets(r)) /\ _targets(r) \subseteq Target
         /\ r.target_dimension = "PROJECT" => _targets(r) \subseteq Project
         /\ r.target_dimension = "DEPARTMENT" => _targets(r) \subseteq Department
         /\ r.target_dimension = "EMPLOYEE" => _targets(r) \subseteq Employee
<1>1. r.target_dimension \in {"PROJECT", "DEPARTMENT", "EMPLOYEE"}
  BY DEF RuleRow, Dimension
<1>2. /\ r.target_dimension = "PROJECT" => _targets(r) \subseteq Project
      /\ r.target_dimension = "DEPARTMENT" => _targets(r) \subseteq Department
      /\ r.target_dimension = "EMPLOYEE" => _targets(r) \subseteq Employee
  BY DEF _targets
<1>3. IsFiniteSet(Project) /\ IsFiniteSet(Employee) /\ IsFiniteSet(Department)
  BY InputAssumption
<1>4. IsFiniteSet(_targets(r))
  BY <1>1, <1>2, <1>3, FS_Subset
<1>. QED
  BY <1>1, <1>2, <1>4 DEF Target

LEMMA DriverTyped ==
  ASSUME TypeOK, NEW k \in Rule, There(rule[k]), NEW t \in _targets(rule[k])
  PROVE  DriverValue(k, t) \in Int
<1> DEFINE dim  == rule[k].target_dimension
           kind == rule[k].driver_type
<1>1. dim \in {"PROJECT", "DEPARTMENT", "EMPLOYEE"} /\ rule[k] \in RuleRow
      /\ kind \in {"HEADCOUNT", "MANHOUR", "REVENUE", "EQUAL", "MANUAL"}
  BY RuleThere DEF RuleRow, Dimension, DriverType
<1>2. /\ t \in Target
      /\ dim = "PROJECT" => t \in Project
      /\ dim = "DEPARTMENT" => t \in Department
  BY <1>1, TargetsTyped
<1>3. CASE kind = "EQUAL"
  BY <1>3 DEF DriverValue
<1>4. CASE kind = "MANUAL"
  <2>1. drivers[<<k, t>>] \in Int
    BY <1>2, Typed
  <2>. QED
    BY <1>4, <2>1 DEF DriverValue
<1>5. CASE kind = "HEADCOUNT"
  <2>1. Cardinality(AssignedTo(t)) \in Int
    BY CountTyped DEF AssignedTo
  <2>2. Cardinality({e \in StaffOf(t) : employee[e].is_active}) \in Int
    BY CountTyped DEF StaffOf
  <2>. QED
    BY <1>1, <1>5, <2>1, <2>2 DEF DriverValue
<1>6. CASE kind = "MANHOUR"
  <2>1. StaffOf(t) \subseteq Employee
    BY DEF StaffOf
  <2>2. dim = "PROJECT" => Manhour({t}, Employee) \in Int
    BY <1>2, ManhourTyped
  <2>3. dim = "DEPARTMENT" => Manhour(Project, StaffOf(t)) \in Int
    BY <2>1, ManhourTyped
  <2>4. dim = "EMPLOYEE" => Manhour(Project, {t}) \in Int
    BY <1>1, TargetsTyped, ManhourTyped
  <2>. QED
    BY <1>1, <1>6, <2>2, <2>3, <2>4 DEF DriverValue
<1>7. CASE kind = "REVENUE"
  <2>1. dim # "EMPLOYEE" => revenue[t] \in Int
    BY <1>1, <1>2, Typed
  <2>. QED
    BY <1>7, <2>1 DEF DriverValue
<1>. QED
  BY <1>1, <1>3, <1>4, <1>5, <1>6, <1>7

LEMMA SourceTyped ==
  ASSUME TypeOK, NEW r \in RuleRow
  PROVE  _source_amount(r) \in Int /\ cost[r.source_department] \in Int
<1> DEFINE D == Department \cup {None}
<1>1. r.source_department \in D
  BY DEF RuleRow
<1>2. IsFiniteSet(D)
  BY InputAssumption, FS_AddElement
<1>3. IntOn(cost, D) /\ cost[r.source_department] \in Int
  BY <1>1, Typed DEF IntOn
<1>4. SumFunctionOnSet(cost, D) \in Int
  <2> HIDE DEF D
  <2>. QED
    BY <1>2, <1>3, SumType
<1>. QED
  BY <1>3, <1>4 DEF _source_amount

LEMMA DriverValuesTyped ==
  ASSUME TypeOK, NEW k \in Rule, There(rule[k]), NEW driver, driver = _driver_values(k)
  PROVE  /\ DOMAIN driver = _targets(rule[k]) /\ IsFiniteSet(DOMAIN driver)
         /\ DOMAIN driver \subseteq Target /\ IntOn(driver, DOMAIN driver)
<1>1. driver = [t \in _targets(rule[k]) |-> DriverValue(k, t)]
  BY DEF _driver_values
<1>2. DOMAIN driver = _targets(rule[k]) /\ \A t \in DOMAIN driver : driver[t] = DriverValue(k, t)
  BY <1>1
<1>3. IsFiniteSet(DOMAIN driver) /\ DOMAIN driver \subseteq Target
  BY <1>2, RuleThere, TargetsTyped
<1>4. \A t \in _targets(rule[k]) : DriverValue(k, t) \in Int
  BY DriverTyped
<1>. QED
  BY <1>2, <1>3, <1>4 DEF IntOn

\* What a simulation leaves.
SimulatedRun(k, x, driver, res) ==
  /\ x = [st |-> "SIMULATED", rule |-> k, source |-> rule[k].source_department,
          then |-> cost[rule[k].source_department],
          negative |-> \E t \in DOMAIN driver : driver[t] < 0,
          total_amount |-> _source_amount(rule[k]), results |-> res]
  /\ driver = _driver_values(k)
  /\ res = Allocate(_source_amount(rule[k]), driver)

LEMMA SimulateEffects ==
  ASSUME NEW r \in Run, simulate_allocation(r)
  PROVE  /\ run[r] = New
         /\ \E k, x, driver, res : /\ k \in Rule /\ There(rule[k]) /\ SimulatedRun(k, x, driver, res)
                                    /\ run' = [run EXCEPT ![r] = x]
         /\ UNCHANGED <<org, staff, rule, drivers, cost, revenue, posted, screen, rewritten, edits>>
BY DEF simulate_allocation, SimulatedRun

LEMMA SimulatedRunTyped ==
  ASSUME TypeOK, NEW k \in Rule, There(rule[k]), NEW x, NEW driver, NEW res,
         SimulatedRun(k, x, driver, res)
  PROVE  RunRow(x)
<1>1. rule[k] \in RuleRow
  BY RuleThere
<1>2. _source_amount(rule[k]) \in Int /\ cost[rule[k].source_department] \in Int
  BY <1>1, SourceTyped
<1>3. IsFiniteSet(DOMAIN driver) /\ IntOn(driver, DOMAIN driver) /\ DOMAIN driver \subseteq Target
  BY DriverValuesTyped DEF SimulatedRun
<1>4. /\ DOMAIN res \subseteq Target
      /\ \A t \in DOMAIN res : res[t] \in [value: Nat, share: Nat, amount: Nat]
  <2>1. PICK source \in Int : source = _source_amount(rule[k])
    BY <1>2
  <2>2. PICK T : T = Total(driver)
    OBVIOUS
  <2>3. res = Allocate(source, driver)
    BY <2>1 DEF SimulatedRun
  <2>4. DOMAIN res \subseteq DOMAIN driver /\ RowsOf(res, source, driver, T)
    BY <1>3, <2>2, <2>3, AllocateRows
  <2>. QED
    BY <1>3, <2>4 DEF RowsOf
<1>5. PICK no \in BOOLEAN : no = (\E t \in DOMAIN driver : driver[t] < 0)
  OBVIOUS
<1>6. x = [st |-> "SIMULATED", rule |-> k, source |-> rule[k].source_department,
           then |-> cost[rule[k].source_department], negative |-> no,
           total_amount |-> _source_amount(rule[k]), results |-> res]
  BY <1>5 DEF SimulatedRun
<1>7. rule[k].source_department \in Department \cup {None}
  BY <1>1 DEF RuleRow
<1>. QED
  BY <1>2, <1>4, <1>6, <1>7 DEF RunRow

LEMMA SimulateTypes ==
  ASSUME TypeOK, NEW r \in Run, simulate_allocation(r)
  PROVE  TypeOK'
<1>1. PICK k, x, driver, res :
        k \in Rule /\ There(rule[k]) /\ SimulatedRun(k, x, driver, res) /\ run' = [run EXCEPT ![r] = x]
  BY SimulateEffects
<1>2. RunRow(x)
  BY <1>1, SimulatedRunTyped
<1>3. DOMAIN run' = Run /\ \A i \in Run : run'[i] \in Deleted \/ RunRow(run'[i])
  BY <1>1, <1>2, Typed
<1>. QED
  BY <1>3, Typed, TypeFrom DEF simulate_allocation, org, staff, screen

LEMMA StatusTyped ==
  ASSUME NEW x, RunRow(x), NEW s \in {"SIMULATED", "COMMITTED", "REVERSED"}
  PROVE  RunRow([x EXCEPT !.st = s])
BY DEF RunRow

LEMMA ExistsRow ==
  ASSUME TypeOK, NEW r \in Run, run[r].st \notin {"new", "gone"}
  PROVE  RunRow(run[r])
BY Typed DEF Deleted, New, Gone

LEMMA AllocatedTyped ==
  ASSUME NEW x, RunRow(x)
  PROVE  /\ IsFiniteSet(DOMAIN x.results)
         /\ IntOn([t \in DOMAIN x.results |-> x.results[t].amount], DOMAIN x.results)
         /\ Allocated(x.results) \in Nat
<1> DEFINE P == DOMAIN x.results
           f == [t \in P |-> x.results[t].amount]
<1>1. IsFiniteSet(Project) /\ IsFiniteSet(Employee) /\ IsFiniteSet(Department)
  BY InputAssumption
<1>2. IsFiniteSet(Target)
  BY <1>1, FS_Union DEF Target
<1>3. IsFiniteSet(P)
  BY <1>2, FS_Subset DEF RunRow
<1>4. IntOn(f, P) /\ \A t \in P : f[t] >= 0
  BY DEF IntOn, RunRow
<1>5. SumFunctionOnSet(f, P) \in Int /\ SumFunctionOnSet(f, P) >= 0
  <2> HIDE DEF f, P
  <2>. QED
    BY <1>3, <1>4, SumType, SumNonnegative
<1>6. Allocated(x.results) = SumFunctionOnSet(f, P)
  BY AllocatedIsSum
<1>7. Allocated(x.results) \in Nat
  <2> HIDE DEF f, P
  <2>. QED
    BY <1>5, <1>6
<1>. QED
  BY <1>3, <1>4, <1>7

LEMMA PostedToTyped ==
  ASSUME TypeOK, NEW t \in Target
  PROVE  PostedTo(t) \in Department \cup {None}
<1>1. CASE t \in Project
  <2>1. There(project[t]) => project[t] \in ProjectRow
    BY <1>1, Typed DEF There, Deleted, New, Gone
  <2>2. PostedTo(t) = IF There(project[t]) THEN project[t].department ELSE None
    BY <1>1, CostAssumption DEF PostedTo
  <2>. QED
    BY <2>1, <2>2 DEF ProjectRow
<1>2. CASE t \in Department /\ t \notin Project
  BY <1>2, CostAssumption DEF PostedTo
<1>3. CASE t \in Employee /\ t \notin Project /\ t \notin Department
  <2>1. There(employee[t]) => employee[t] \in EmployeeRow
    BY <1>3, Typed DEF There, Deleted, New, Gone
  <2>2. PostedTo(t) = IF There(employee[t]) THEN employee[t].department ELSE None
    BY <1>3 DEF PostedTo
  <2>. QED
    BY <2>1, <2>2 DEF EmployeeRow
<1>. QED
  BY <1>1, <1>2, <1>3 DEF Target

\* What a commit posts, and what a run becomes when its status changes.
Entries(r, res) ==
  {[run |-> r, of |-> t, department |-> PostedTo(t), amount |-> res[t].amount] : t \in DOMAIN res}
Offset(r, total) ==
  [run |-> r, of |-> None, amount |-> - total,
   department |-> rule[run[r].rule].source_department]
BecomesStatus(r, s) ==
  /\ RunRow(run[r]) /\ RunRow(run'[r])
  /\ run'[r] = [run[r] EXCEPT !.st = s]
  /\ run'[r].st = s /\ run'[r].rule = run[r].rule /\ run'[r].source = run[r].source
  /\ run'[r].then = run[r].then /\ run'[r].negative = run[r].negative
  /\ run'[r].total_amount = run[r].total_amount /\ run'[r].results = run[r].results
  /\ DOMAIN run' = Run
  /\ \A i \in Run : i # r => run'[i] = run[i]

LEMMA CommitEffects ==
  ASSUME TypeOK, NEW r \in Run, commit_allocation(r), NEW res, res = run[r].results,
         NEW total, total = Allocated(res)
  PROVE  /\ run[r].st = "SIMULATED" /\ BecomesStatus(r, "COMMITTED")
         /\ posted' = (posted \cup Entries(r, res))
                        \cup (IF total > 0 THEN {Offset(r, total)} ELSE {})
         /\ UNCHANGED <<org, staff, rule, drivers, cost, revenue, screen, rewritten, edits>>
<1>1. run[r].st = "SIMULATED" /\ run' = [run EXCEPT ![r].st = "COMMITTED"]
  BY DEF commit_allocation
<1>2. RunRow(run[r]) /\ RunRow([run[r] EXCEPT !.st = "COMMITTED"])
  BY <1>1, ExistsRow, StatusTyped
<1>3. BecomesStatus(r, "COMMITTED")
  BY <1>1, <1>2, Typed DEF BecomesStatus, RunRow
<1>4. posted' = (posted \cup Entries(r, res)) \cup (IF total > 0 THEN {Offset(r, total)} ELSE {})
  BY DEF commit_allocation, Entries, Offset
<1>. QED
  BY <1>1, <1>3, <1>4 DEF commit_allocation

LEMMA ReverseEffects ==
  ASSUME TypeOK, NEW r \in Run, reverse_allocation(r)
  PROVE  /\ run[r].st = "COMMITTED" /\ BecomesStatus(r, "REVERSED")
         /\ posted' = {x \in posted : x.run # r \/ x.of \notin DOMAIN run[r].results \cup {None}}
         /\ UNCHANGED <<org, staff, rule, drivers, cost, revenue, screen, rewritten, edits>>
<1>1. run[r].st = "COMMITTED" /\ run' = [run EXCEPT ![r].st = "REVERSED"]
  BY DEF reverse_allocation
<1>2. RunRow(run[r]) /\ RunRow([run[r] EXCEPT !.st = "REVERSED"])
  BY <1>1, ExistsRow, StatusTyped
<1>3. BecomesStatus(r, "REVERSED")
  BY <1>1, <1>2, Typed DEF BecomesStatus, RunRow
<1>. QED
  BY <1>1, <1>3 DEF reverse_allocation

\* The rule of a run was there when it was simulated; when it goes, so do the results.
RulesOfRuns ==
  \A r \in Run : Exists(r) =>
    rule[run[r].rule] # New /\ (rule[run[r].rule] = Gone => DOMAIN run[r].results = {})

LEMMA CommitTypes ==
  ASSUME TypeOK, RulesOfRuns, NEW r \in Run, commit_allocation(r)
  PROVE  TypeOK'
<1>1. PICK res : res = run[r].results
  OBVIOUS
<1>2. PICK total : total = Allocated(res)
  OBVIOUS
<1>3. /\ run[r].st = "SIMULATED" /\ BecomesStatus(r, "COMMITTED")
      /\ posted' = (posted \cup Entries(r, res)) \cup (IF total > 0 THEN {Offset(r, total)} ELSE {})
      /\ UNCHANGED <<org, staff, rule, drivers, cost, revenue, screen, rewritten, edits>>
  BY <1>1, <1>2, CommitEffects
<1>4. RunRow(run[r])
  BY <1>3 DEF BecomesStatus
<1>5. DOMAIN run' = Run /\ \A i \in Run : run'[i] \in Deleted \/ RunRow(run'[i])
  BY <1>3, Typed DEF BecomesStatus
<1>6. Entries(r, res) \subseteq Posting
  <2>1. ASSUME NEW t \in DOMAIN res
        PROVE  [run |-> r, of |-> t, department |-> PostedTo(t), amount |-> res[t].amount] \in Posting
    <3>1. t \in Target /\ res[t].amount \in Nat
      BY <1>1, <1>4 DEF RunRow
    <3>2. PostedTo(t) \in Department \cup {None}
      BY <3>1, PostedToTyped
    <3>. QED
      BY <3>1, <3>2 DEF Posting
  <2>. QED
    BY <2>1 DEF Entries
<1>7. total \in Nat /\ (DOMAIN res = {} => total = 0)
  <2>1. total \in Nat
    BY <1>1, <1>2, <1>4, AllocatedTyped
  <2>2. DOMAIN res = {} => total = 0
    BY <1>2, AllocatedIsSum, SumEmpty
  <2>. QED
    BY <2>1, <2>2
<1>8. ASSUME total > 0
      PROVE  Offset(r, total) \in Posting
  <2>1. run[r].rule \in Rule /\ rule[run[r].rule] # New /\ rule[run[r].rule] # Gone
    BY <1>1, <1>3, <1>4, <1>7, <1>8 DEF RulesOfRuns, Exists, RunRow
  <2>2. rule[run[r].rule] \in RuleRow
    BY <2>1, Typed DEF Deleted
  <2>. QED
    BY <1>7, <2>2 DEF Offset, Posting, RuleRow
<1>9. posted' \subseteq Posting
  BY <1>3, <1>6, <1>8, Typed
<1>. QED
  BY <1>3, <1>5, <1>9, Typed, TypeFrom DEF org, staff, screen

LEMMA ReverseTypes ==
  ASSUME TypeOK, NEW r \in Run, reverse_allocation(r)
  PROVE  TypeOK'
<1>1. DOMAIN run' = Run /\ \A i \in Run : run'[i] \in Deleted \/ RunRow(run'[i])
  BY ReverseEffects, Typed DEF BecomesStatus
<1>2. posted' \subseteq Posting
  BY ReverseEffects, Typed
<1>. QED
  BY <1>1, <1>2, Typed, TypeFrom DEF reverse_allocation, org, staff, screen

LEMMA RunDeleteTypes ==
  ASSUME TypeOK, NEW r \in Run, allocation_run_delete(r)
  PROVE  TypeOK'
<1>1. DOMAIN run' = Run /\ \A i \in Run : run'[i] \in Deleted \/ RunRow(run'[i])
  BY Typed DEF allocation_run_delete, Deleted
<1>. QED
  BY <1>1, Typed, TypeFrom DEF allocation_run_delete, org, staff, screen

\* Every other action leaves the runs, what they posted and what these depend on alone.
Aside ==
  /\ costing_division_create \/ AdminEmployee \/ AdminEmployeeDelete \/ AdminAssignment
     \/ costing_project_create \/ SaveProject \/ SaveBudgets \/ RequestEnds \/ costing_project_delete
     \/ costing_ledger_create \/ costing_revenue_create \/ AdminDriver

LEMMA AsideTypes ==
  ASSUME TypeOK, Aside
  PROVE  TypeOK'
BY DivisionCreateTypes, EmployeeTypes, EmployeeDeleteTypes, AssignmentTypes, ProjectCreateTypes,
   SaveProjectTypes, SaveBudgetsTypes, RequestEndsTypes, ProjectDeleteTypes, LedgerCreateTypes,
   RevenueCreateTypes, AdminDriverTypes DEF Aside

LEMMA AsideEffects ==
  ASSUME Aside
  PROVE  UNCHANGED <<department, rule, allocation, rewritten>>
BY DEF Aside, costing_division_create, AdminEmployee, AdminEmployeeDelete, AdminAssignment,
       costing_project_create, SaveProject, SaveBudgets, RequestEnds, costing_project_delete,
       costing_ledger_create, costing_revenue_create, AdminDriver, org, staff, allocation, screen

LEMMA NextCases ==
  ASSUME Next
  PROVE  \/ Aside \/ costing_division_delete \/ costing_department_create
         \/ costing_department_delete \/ allocation_rule_create \/ AdminRule
         \/ allocation_rule_delete
         \/ \E r \in Run : \/ simulate_allocation(r) \/ commit_allocation(r)
                           \/ reverse_allocation(r) \/ allocation_run_delete(r)
BY DEF Next, Aside

LEMMA DepartmentsGo ==
  ASSUME costing_division_delete \/ costing_department_delete
  PROVE  \E D \in SUBSET Department : DeleteDepartments(D)
<1>1. CASE costing_division_delete
  <2>1. PICK v \in Division :
          DeleteDepartments({d \in Department : There(department[d]) /\ department[d].division = v})
    BY <1>1 DEF costing_division_delete
  <2>. QED
    BY <2>1
<1>2. CASE costing_department_delete
  <2>1. PICK d \in Department : DeleteDepartments({d})
    BY <1>2 DEF costing_department_delete
  <2>. QED
    BY <2>1
<1>. QED
  BY <1>1, <1>2

\* A step that makes no rule new again, deletes none and restores none.
KeepsRules ==
  \A k \in Rule : (rule[k] # New => rule'[k] # New) /\ (rule'[k] = Gone <=> rule[k] = Gone)

LEMMA KeepsRulesOfRuns ==
  ASSUME TypeOK, RulesOfRuns, KeepsRules, run' = run
  PROVE  RulesOfRuns'
<1>1. SUFFICES ASSUME NEW r \in Run, Exists(r)'
               PROVE  /\ rule'[run'[r].rule] # New
                      /\ rule'[run'[r].rule] = Gone => DOMAIN run'[r].results = {}
  BY DEF RulesOfRuns
<1>2. Exists(r) /\ RunRow(run[r])
  BY <1>1, ExistsRow DEF Exists
<1>3. run[r].rule \in Rule
  BY <1>2 DEF RunRow
<1>. QED
  BY <1>2, <1>3 DEF RulesOfRuns, KeepsRules

LEMMA DeleteDepartmentsRules ==
  ASSUME TypeOK, NEW D \in SUBSET Department, DeleteDepartments(D)
  PROVE  /\ KeepsRules /\ run' = run
         /\ \A k \in Rule : There(rule'[k]) => There(rule[k]) /\ rule[k] \in RuleRow
<1>1. ASSUME NEW k \in Rule
      PROVE  /\ rule[k] # New => rule'[k] # New
             /\ rule'[k] = Gone <=> rule[k] = Gone
             /\ There(rule'[k]) => There(rule[k]) /\ rule[k] \in RuleRow
  <2>1. CASE There(rule[k])
    <3>1. rule[k] \in RuleRow
      BY <2>1, RuleThere
    <3>2. rule'[k] = [rule[k] EXCEPT !.source_department = Unset(@, D)]
      BY <2>1 DEF DeleteDepartments
    <3>. QED
      BY <2>1, <3>1, <3>2 DEF RuleRow, New, Gone
  <2>2. CASE ~ There(rule[k])
    BY <2>2 DEF DeleteDepartments
  <2>. QED
    BY <2>1, <2>2
<1>. QED
  BY <1>1 DEF KeepsRules, DeleteDepartments

LEMMA RuleCreateRules ==
  ASSUME TypeOK, allocation_rule_create
  PROVE  KeepsRules /\ allocation' = allocation
<1>1. PICK k \in Rule, r \in RuleInput : rule[k] = New /\ rule' = [rule EXCEPT ![k] = r]
  BY DEF allocation_rule_create
<1>2. r # New /\ r # Gone /\ New # Gone
  BY InputAssumption DEF RuleRow, New, Gone
<1>3. rule'[k] = r /\ \A i \in Rule : i # k => rule'[i] = rule[i]
  BY <1>1, Typed
<1>4. KeepsRules
  BY <1>1, <1>2, <1>3 DEF KeepsRules
<1>. QED
  BY <1>4 DEF allocation_rule_create

LEMMA AdminRuleEffects ==
  ASSUME TypeOK, AdminRule
  PROVE  \E k \in Rule, d \in Department \cup {None}, a \in BOOLEAN :
           /\ There(rule[k]) /\ rule[k] \in RuleRow
           /\ d # None => There(department[d])
           /\ rule'[k] \in RuleRow
           /\ rule'[k] = [rule[k] EXCEPT !.source_department = d, !.is_active = a]
           /\ \A i \in Rule : i # k => rule'[i] = rule[i]
           /\ rewritten' = rewritten \cup (IF d # rule[k].source_department THEN RunsOf(k) ELSE {})
           /\ UNCHANGED <<org, staff, drivers, cost, revenue, allocation, screen>>
<1>1. PICK k \in Rule, d \in Department \cup {None}, a \in BOOLEAN :
        /\ There(rule[k])
        /\ d # None => There(department[d])
        /\ rule' = [rule EXCEPT ![k].source_department = d, ![k].is_active = a]
        /\ rewritten' = rewritten \cup (IF d # rule[k].source_department THEN RunsOf(k) ELSE {})
        /\ UNCHANGED <<org, staff, drivers, cost, revenue, allocation, screen>>
  BY DEF AdminRule
<1>2. rule[k] \in RuleRow
  BY <1>1, RuleThere
<1>3. /\ rule'[k] = [rule[k] EXCEPT !.source_department = d, !.is_active = a]
      /\ \A i \in Rule : i # k => rule'[i] = rule[i]
  BY <1>1, <1>2, Typed DEF RuleRow
<1>4. rule'[k] \in RuleRow
  BY <1>2, <1>3 DEF RuleRow
<1>. QED
  BY <1>1, <1>2, <1>3, <1>4

LEMMA AdminRuleRules ==
  ASSUME TypeOK, AdminRule
  PROVE  KeepsRules /\ allocation' = allocation
<1>1. PICK k \in Rule : /\ rule'[k] \in RuleRow /\ rule[k] \in RuleRow
                        /\ \A i \in Rule : i # k => rule'[i] = rule[i]
                        /\ allocation' = allocation
  BY AdminRuleEffects
<1>2. rule'[k] # New /\ rule'[k] # Gone /\ rule[k] # Gone
  BY <1>1 DEF RuleRow, New, Gone
<1>3. KeepsRules
  BY <1>1, <1>2 DEF KeepsRules
<1>. QED
  BY <1>1, <1>3

\* What a deleted rule leaves of run r.
LEMMA RuleDeleteEffects ==
  ASSUME TypeOK, allocation_rule_delete
  PROVE  \E k \in Rule :
           /\ There(rule[k]) /\ rule[k] # New /\ rule[k] # Gone /\ rule'[k] = Gone
           /\ \A i \in Rule : i # k => rule'[i] = rule[i]
           /\ DOMAIN run' = Run
           /\ \A r \in Run \ RunsOf(k) : run'[r] = run[r]
           /\ \A r \in RunsOf(k) :
                /\ RunRow(run[r]) /\ run'[r] = [run[r] EXCEPT !.results = NoResults]
                /\ run'[r].st = run[r].st /\ run'[r].rule = k /\ run'[r].source = run[r].source
                /\ run'[r].total_amount = run[r].total_amount /\ run'[r].then = run[r].then
                /\ run'[r].negative = run[r].negative /\ DOMAIN run'[r].results = {}
           /\ UNCHANGED <<org, staff, cost, revenue, posted, screen, rewritten>>
<1>1. PICK k \in Rule :
        /\ There(rule[k])
        /\ rule' = [rule EXCEPT ![k] = Gone]
        /\ run' = [r \in Run |-> IF r \in RunsOf(k)
                                 THEN [run[r] EXCEPT !.results = NoResults] ELSE run[r]]
        /\ UNCHANGED <<org, staff, cost, revenue, posted, screen, rewritten>>
  BY DEF allocation_rule_delete
<1>2. rule[k] # New /\ rule[k] # Gone /\ rule'[k] = Gone /\ \A i \in Rule : i # k => rule'[i] = rule[i]
  BY <1>1, Typed DEF There, New, Gone
<1>3. DOMAIN run' = Run /\ \A r \in Run \ RunsOf(k) : run'[r] = run[r]
  BY <1>1
<1>4. ASSUME NEW r \in RunsOf(k)
      PROVE  /\ RunRow(run[r]) /\ run'[r] = [run[r] EXCEPT !.results = NoResults]
             /\ run'[r].st = run[r].st /\ run'[r].rule = k /\ run'[r].source = run[r].source
             /\ run'[r].total_amount = run[r].total_amount /\ run'[r].then = run[r].then
             /\ run'[r].negative = run[r].negative /\ DOMAIN run'[r].results = {}
  <2>1. r \in Run /\ RunRow(run[r]) /\ run[r].rule = k
    BY ExistsRow DEF RunsOf, Exists
  <2>2. run'[r] = [run[r] EXCEPT !.results = NoResults]
    BY <1>1, <2>1
  <2>3. DOMAIN NoResults = {}
    BY DEF NoResults
  <2>. QED
    BY <2>1, <2>2, <2>3 DEF RunRow
<1>. QED
  BY <1>1, <1>2, <1>3, <1>4

LEMMA RulesStep ==
  ASSUME TypeOK, RulesOfRuns, [Next]_vars
  PROVE  RulesOfRuns'
<1>1. CASE UNCHANGED vars
  <2>1. run' = run /\ KeepsRules
    BY <1>1 DEF vars, allocation, KeepsRules
  <2>. QED
    BY <2>1, KeepsRulesOfRuns
<1>2. CASE Aside
  <2>1. run' = run /\ KeepsRules
    BY <1>2, AsideEffects DEF allocation, KeepsRules
  <2>. QED
    BY <2>1, KeepsRulesOfRuns
<1>3. CASE costing_division_delete \/ costing_department_delete
  BY <1>3, DepartmentsGo, DeleteDepartmentsRules, KeepsRulesOfRuns
<1>4. CASE costing_department_create
  <2>1. run' = run /\ KeepsRules
    BY <1>4 DEF costing_department_create, allocation, KeepsRules
  <2>. QED
    BY <2>1, KeepsRulesOfRuns
<1>5. CASE allocation_rule_create
  BY <1>5, RuleCreateRules, KeepsRulesOfRuns DEF allocation
<1>6. CASE AdminRule
  BY <1>6, AdminRuleRules, KeepsRulesOfRuns DEF allocation
<1>7. CASE allocation_rule_delete
  <2>1. PICK k \in Rule :
          /\ rule'[k] = Gone /\ \A i \in Rule : i # k => rule'[i] = rule[i]
          /\ \A r \in Run \ RunsOf(k) : run'[r] = run[r]
          /\ \A r \in RunsOf(k) : run'[r].rule = k /\ DOMAIN run'[r].results = {}
    BY <1>7, RuleDeleteEffects
  <2>2. SUFFICES ASSUME NEW r \in Run, Exists(r)'
                 PROVE  /\ rule'[run'[r].rule] # New
                        /\ rule'[run'[r].rule] = Gone => DOMAIN run'[r].results = {}
    BY DEF RulesOfRuns
  <2>3. CASE r \in RunsOf(k)
    BY <2>1, <2>3 DEF New, Gone
  <2>4. CASE r \notin RunsOf(k)
    <3>1. run'[r] = run[r] /\ Exists(r)
      BY <2>1, <2>2, <2>4 DEF Exists
    <3>2. run[r].rule # k /\ run[r].rule \in Rule
      BY <2>4, <3>1, ExistsRow DEF RunsOf, Exists, RunRow
    <3>. QED
      BY <2>1, <3>1, <3>2 DEF RulesOfRuns
  <2>. QED
    BY <2>3, <2>4
<1>8. ASSUME NEW r \in Run, simulate_allocation(r)
      PROVE  RulesOfRuns'
  <2>1. PICK k, x, driver, res :
          k \in Rule /\ There(rule[k]) /\ SimulatedRun(k, x, driver, res) /\ run' = [run EXCEPT ![r] = x]
    BY <1>8, SimulateEffects
  <2>2. x.rule = k /\ rule[k] # New /\ rule[k] # Gone /\ rule' = rule
    BY <1>8, <2>1 DEF SimulatedRun, There, New, Gone, simulate_allocation
  <2>. QED
    BY <2>1, <2>2, Typed DEF RulesOfRuns, Exists
<1>9. ASSUME NEW r \in Run, BecomesStatus(r, "COMMITTED") \/ BecomesStatus(r, "REVERSED"),
             Exists(r), rule' = rule
      PROVE  RulesOfRuns'
  BY <1>9 DEF RulesOfRuns, Exists, BecomesStatus
<1>10. ASSUME NEW r \in Run, commit_allocation(r) \/ reverse_allocation(r)
       PROVE  RulesOfRuns'
  <2>1. CASE commit_allocation(r)
    <3>1. PICK res : res = run[r].results
      OBVIOUS
    <3>2. PICK total : total = Allocated(res)
      OBVIOUS
    <3>3. run[r].st = "SIMULATED" /\ BecomesStatus(r, "COMMITTED") /\ rule' = rule
      BY <2>1, <3>1, <3>2, CommitEffects
    <3>. QED
      BY <1>9, <3>3 DEF Exists
  <2>2. CASE reverse_allocation(r)
    <3>1. run[r].st = "COMMITTED" /\ BecomesStatus(r, "REVERSED") /\ rule' = rule
      BY <2>2, ReverseEffects
    <3>. QED
      BY <1>9, <3>1 DEF Exists
  <2>. QED
    BY <1>10, <2>1, <2>2
<1>11. ASSUME NEW r \in Run, allocation_run_delete(r)
       PROVE  RulesOfRuns'
  BY <1>11, Typed DEF allocation_run_delete, RulesOfRuns, Exists, Gone
<1>. QED
  BY <1>1, <1>2, <1>3, <1>4, <1>5, <1>6, <1>7, <1>8, <1>10, <1>11, NextCases

LEMMA TypesStep ==
  ASSUME TypeOK, RulesOfRuns, [Next]_vars
  PROVE  TypeOK'
<1>1. CASE UNCHANGED vars
  BY <1>1, Typed, TypeFrom DEF vars, org, staff, allocation, screen
<1>2. CASE Next
  BY <1>2, NextCases, AsideTypes, DivisionDeleteTypes, DepartmentCreateTypes, DepartmentDeleteTypes,
     RuleCreateTypes, AdminRuleTypes, RuleDeleteTypes, SimulateTypes, CommitTypes, ReverseTypes,
     RunDeleteTypes
<1>. QED
  BY <1>1, <1>2

\* Type correctness, of every row of every table at all times.
THEOREM TypeCorrect == Spec => []TypeOK
<1>1. Init => TypeOK /\ RulesOfRuns
  <2>1. Init => \A r \in Run : ~ Exists(r)
    BY DEF Init, Exists, New
  <2>. QED
    BY <2>1, InitTypes DEF RulesOfRuns
<1>2. (TypeOK /\ RulesOfRuns) /\ [Next]_vars => (TypeOK /\ RulesOfRuns)'
  BY RulesStep, TypesStep
<1>. QED
  BY <1>1, <1>2, PTL DEF Spec

----------------------------------------------------------------------------
(* The references.                                                         *)

LEMMA RowsThere ==
  ASSUME TypeOK
  PROVE  /\ \A d \in Department : There(department[d]) => department[d] \in DepartmentRow
         /\ \A e \in Employee : There(employee[e]) => employee[e] \in EmployeeRow
         /\ \A p \in Project : There(project[p]) => project[p] \in ProjectRow
         /\ \A k \in Rule : There(rule[k]) => rule[k] \in RuleRow
<1>1. \A x \in Deleted : ~ There(x)
  BY DEF There, Deleted, New, Gone
<1>. QED
  BY <1>1, Typed

\* The references that the foreign keys keep, and those the screens check: what follows about
\* budgets and entries rests on them.
ReferencesSound ==
  /\ Consistent(tables)
  /\ \A x \in posted : x.department # None => There(department[x.department])

LEMMA Refs ==
  ASSUME TypeOK, ReferencesSound
  PROVE  /\ \A d \in Department : There(department[d]) => There(division[department[d].division])
         /\ \A e \in Employee : There(employee[e]) => There(department[employee[e].department])
         /\ \A p \in Project : There(project[p]) => There(division[project[p].division])
         /\ \A p \in Project : There(project[p]) =>
              (project[p].department # None => There(department[project[p].department]))
         /\ \A b \in budgets : There(project[b[1]])
         /\ \A k \in Project \X Employee :
              assignment[k] # None => There(project[k[1]]) /\ There(employee[k[2]])
         /\ \A k \in Rule : There(rule[k]) =>
              (rule[k].source_department # None => There(department[rule[k].source_department]))
         /\ \A x \in posted : x.department # None => There(department[x.department])
BY Typed DEF ReferencesSound, Consistent, tables

LEMMA RefsFrom ==
  ASSUME TypeOK',
         \A d \in Department : There(department'[d]) => There(division'[department'[d].division]),
         \A e \in Employee : There(employee'[e]) => There(department'[employee'[e].department]),
         \A p \in Project : There(project'[p]) => There(division'[project'[p].division]),
         \A p \in Project : There(project'[p]) =>
           (project'[p].department # None => There(department'[project'[p].department])),
         \A b \in budgets' : There(project'[b[1]]),
         \A k \in Project \X Employee :
           assignment'[k] # None => There(project'[k[1]]) /\ There(employee'[k[2]]),
         \A k \in Rule : There(rule'[k]) =>
           (rule'[k].source_department # None => There(department'[rule'[k].source_department])),
         \A x \in posted' : x.department # None => There(department'[x.department])
  PROVE  ReferencesSound'
<1>1. assignment' \in [Project \X Employee -> Int \cup {None}]
  BY DEF TypeOK, Tables, tables
<1>. QED
  BY <1>1 DEF ReferencesSound, Consistent, tables

\* A step that deletes nothing others refer to, and refers to nothing that is not there.
LEMMA RefsKept ==
  ASSUME TypeOK, TypeOK', ReferencesSound,
         \A v \in Division : There(division[v]) => There(division'[v]),
         \A d \in Department : There(department[d]) => There(department'[d]),
         \A e \in Employee : There(employee[e]) => There(employee'[e]),
         \A p \in Project : There(project[p]) => There(project'[p]),
         \A d \in Department :
           department'[d] = department[d]
             \/ (There(department'[d]) => There(division'[department'[d].division])),
         \A e \in Employee :
           employee'[e] = employee[e] \/ There(department'[employee'[e].department]),
         \A p \in Project :
           \/ project'[p] = project[p]
           \/ /\ There(division'[project'[p].division])
              /\ project'[p].department # None => There(department'[project'[p].department]),
         \A b \in budgets' : b \in budgets \/ There(project'[b[1]]),
         \A k \in Project \X Employee :
           assignment'[k] = assignment[k] \/ (There(project'[k[1]]) /\ There(employee'[k[2]])),
         \A k \in Rule : There(rule'[k]) =>
           \/ rule'[k] = rule[k]
           \/ rule'[k].source_department # None => There(department'[rule'[k].source_department]),
         \A x \in posted' :
           x \in posted \/ (x.department # None => There(department'[x.department]))
  PROVE  ReferencesSound'
<1>1. ASSUME NEW d \in Department, There(department'[d])
      PROVE  There(division'[department'[d].division])
  BY <1>1, Refs, RowsThere DEF DepartmentRow
<1>2. ASSUME NEW e \in Employee, There(employee'[e])
      PROVE  There(department'[employee'[e].department])
  BY <1>2, Refs, RowsThere DEF EmployeeRow
<1>3. ASSUME NEW p \in Project, There(project'[p])
      PROVE  /\ There(division'[project'[p].division])
             /\ project'[p].department # None => There(department'[project'[p].department])
  BY <1>3, Refs, RowsThere DEF ProjectRow
<1>4. \A b \in budgets' : There(project'[b[1]])
  <2>1. \A b \in budgets : b[1] \in Project
    BY Typed
  <2>. QED
    BY <2>1, Refs
<1>5. ASSUME NEW k \in Project \X Employee, assignment'[k] # None
      PROVE  There(project'[k[1]]) /\ There(employee'[k[2]])
  <2>1. k[1] \in Project /\ k[2] \in Employee
    OBVIOUS
  <2>. QED
    BY <1>5, <2>1, Refs
<1>6. ASSUME NEW k \in Rule, There(rule'[k]), rule'[k].source_department # None
      PROVE  There(department'[rule'[k].source_department])
  BY <1>6, Refs, RowsThere DEF RuleRow
<1>7. ASSUME NEW x \in posted', x.department # None
      PROVE  There(department'[x.department])
  BY <1>7, Refs, Typed DEF Posting
<1>. QED
  BY <1>1, <1>2, <1>3, <1>4, <1>5, <1>6, <1>7, RefsFrom

LEMMA DeleteDepartmentsRefs ==
  ASSUME TypeOK, TypeOK', ReferencesSound, NEW D \in SUBSET Department, DeleteDepartments(D),
         \A v \in Division : There(division[v]) =>
           \/ There(division'[v])
           \/ /\ \A d \in Department : There(department[d]) /\ department[d].division = v => d \in D
              /\ \A p \in Project : There(project[p]) => project[p].division # v
  PROVE  ReferencesSound'
<1>1. /\ \A d \in Department \ D : department'[d] = department[d]
      /\ \A d \in Department : There(department'[d]) => d \notin D /\ There(department[d])
  BY DEF DeleteDepartments, There, Gone
<1>2. ASSUME NEW d \in Department, There(department[d]), d \notin D
      PROVE  There(department'[d])
  <2>1. department'[d] = department[d]
    BY <1>1, <1>2
  <2>. QED
    BY <1>2, <2>1
<1>3. \A d \in Department \cup {None} :
        Unset(d, D) # None => Unset(d, D) = d /\ d # None /\ d \notin D
  BY CostAssumption DEF Unset
<1>4. ASSUME NEW d \in Department, There(department'[d])
      PROVE  There(division'[department'[d].division])
  <2>1. department'[d] = department[d] /\ d \notin D /\ There(department[d])
    BY <1>1, <1>4
  <2>2. department[d].division \in Division /\ There(division[department[d].division])
    BY <2>1, Refs, RowsThere DEF DepartmentRow
  <2>. QED
    BY <2>1, <2>2
<1>5. ASSUME NEW e \in Employee, There(employee'[e])
      PROVE  There(department'[employee'[e].department])
  <2>1. There(employee[e]) /\ employee'[e] = employee[e] /\ \A d \in D : StaffOf(d) = {}
    BY <1>5 DEF DeleteDepartments
  <2>2. employee[e].department \in Department \ D /\ There(department[employee[e].department])
    BY <2>1, Refs, RowsThere DEF StaffOf, EmployeeRow
  <2>. QED
    BY <1>2, <2>1, <2>2
<1>6. ASSUME NEW p \in Project, There(project'[p])
      PROVE  /\ There(project[p]) /\ There(division'[project'[p].division])
             /\ project'[p].department # None => There(department'[project'[p].department])
  <2>1. There(project[p])
    BY <1>6 DEF DeleteDepartments
  <2>2. project'[p] = [project[p] EXCEPT !.department = Unset(@, D)]
    BY <2>1 DEF DeleteDepartments
  <2>3. project[p] \in ProjectRow
    BY <2>1, RowsThere
  <2>4. /\ project'[p].division = project[p].division
        /\ project'[p].department = Unset(project[p].department, D)
        /\ project[p].division \in Division /\ project[p].department \in Department \cup {None}
    BY <2>2, <2>3 DEF ProjectRow
  <2>5. There(division'[project'[p].division])
    BY <2>1, <2>4, Refs
  <2>6. ASSUME project'[p].department # None
        PROVE  There(department'[project'[p].department])
    BY <1>2, <1>3, <2>1, <2>4, <2>6, Refs
  <2>. QED
    BY <2>1, <2>5, <2>6
<1>7. \A p \in Project : There(project[p]) => There(project'[p])
  <2>1. ASSUME NEW p \in Project, There(project[p])
        PROVE  There(project'[p])
    <3>1. project[p] \in ProjectRow
      BY <2>1, RowsThere
    <3>2. project'[p] = [project[p] EXCEPT !.department = Unset(@, D)]
      BY <2>1 DEF DeleteDepartments
    <3>. QED
      BY <2>1, <3>1, <3>2 DEF There, ProjectRow
  <2>. QED
    BY <2>1
<1>8. \A b \in budgets' : There(project'[b[1]])
  <2>1. budgets' = budgets /\ \A b \in budgets : b[1] \in Project
    BY Typed DEF DeleteDepartments, staff
  <2>. QED
    BY <1>7, <2>1, Refs
<1>9. ASSUME NEW k \in Project \X Employee, assignment'[k] # None
      PROVE  There(project'[k[1]]) /\ There(employee'[k[2]])
  <2>1. k[1] \in Project /\ k[2] \in Employee /\ assignment' = assignment /\ employee' = employee
    BY DEF DeleteDepartments, staff
  <2>. QED
    BY <1>7, <1>9, <2>1, Refs
<1>10. ASSUME NEW k \in Rule, There(rule'[k]), rule'[k].source_department # None
       PROVE  There(department'[rule'[k].source_department])
  <2>1. There(rule[k]) /\ rule[k] \in RuleRow
    BY <1>10, DeleteDepartmentsRules
  <2>2. rule'[k] = [rule[k] EXCEPT !.source_department = Unset(@, D)]
    BY <2>1 DEF DeleteDepartments
  <2>3. /\ rule'[k].source_department = Unset(rule[k].source_department, D)
        /\ rule[k].source_department \in Department \cup {None}
    BY <2>1, <2>2 DEF RuleRow
  <2>. QED
    BY <1>2, <1>3, <1>10, <2>1, <2>3, Refs
<1>11. ASSUME NEW x \in posted', x.department # None
       PROVE  There(department'[x.department])
  <2>1. PICK y \in posted : x = [y EXCEPT !.department = Unset(@, D)]
    BY <1>11 DEF DeleteDepartments
  <2>2. y \in Posting
    BY Typed
  <2>3. x.department = Unset(y.department, D) /\ y.department \in Department \cup {None}
    BY <2>1, <2>2 DEF Posting
  <2>. QED
    BY <1>2, <1>3, <1>11, <2>3, Refs
<1>. QED
  BY <1>4, <1>5, <1>6, <1>8, <1>9, <1>10, <1>11, RefsFrom

LEMMA DivisionDeleteRefs ==
  ASSUME TypeOK, TypeOK', ReferencesSound, costing_division_delete
  PROVE  ReferencesSound'
<1>1. PICK v \in Division :
        /\ \A p \in Project : There(project[p]) => project[p].division # v
        /\ division' = [division EXCEPT ![v] = Gone]
        /\ DeleteDepartments({d \in Department : There(department[d]) /\ department[d].division = v})
  BY DEF costing_division_delete
<1> DEFINE D == {d \in Department : There(department[d]) /\ department[d].division = v}
<1>2. ASSUME NEW w \in Division, There(division[w])
      PROVE  \/ There(division'[w])
             \/ /\ \A d \in Department : There(department[d]) /\ department[d].division = w => d \in D
                /\ \A p \in Project : There(project[p]) => project[p].division # w
  <2>1. CASE w = v
    BY <1>1, <2>1
  <2>2. CASE w # v
    BY <1>1, <1>2, <2>2, Typed
  <2>. QED
    BY <2>1, <2>2
<1>3. D \in SUBSET Department /\ DeleteDepartments(D)
  BY <1>1
<1> HIDE DEF D
<1>. QED
  BY <1>2, <1>3, DeleteDepartmentsRefs

LEMMA DepartmentDeleteRefs ==
  ASSUME TypeOK, TypeOK', ReferencesSound, costing_department_delete
  PROVE  ReferencesSound'
<1>1. PICK d \in Department : DeleteDepartments({d})
  BY DEF costing_department_delete
<1>2. division' = division
  BY DEF costing_department_delete
<1>. QED
  BY <1>1, <1>2, DeleteDepartmentsRefs

LEMMA InitRefs ==
  ASSUME Init
  PROVE  ReferencesSound
<1>1. PICK s \in Start :
        /\ division = s.division /\ department = s.department /\ employee = s.employee
        /\ project = s.project /\ budgets = s.budgets /\ assignment = s.assignment
        /\ rule = s.rule /\ drivers = s.drivers /\ cost = s.cost /\ revenue = s.revenue
  BY DEF Init
<1>2. Consistent(s)
  BY InputAssumption
<1>3. Consistent(tables)
  BY <1>1, <1>2 DEF Consistent, tables
<1>. QED
  BY <1>3 DEF ReferencesSound, Init

LEMMA UnchangedRefs ==
  ASSUME ReferencesSound, UNCHANGED <<tables, posted>>, department' = department
  PROVE  ReferencesSound'
BY DEF ReferencesSound

LEMMA DivisionCreateRefs ==
  ASSUME TypeOK, TypeOK', ReferencesSound, costing_division_create
  PROVE  ReferencesSound'
<1>1. /\ \A v \in Division : There(division[v]) => There(division'[v])
      /\ UNCHANGED <<department, employee, project, budgets, assignment, rule, posted>>
  <2>1. There([st |-> "there"])
    BY DEF There
  <2>. QED
    BY <2>1, Typed DEF costing_division_create, staff, allocation
<1>. QED
  BY <1>1, RefsKept

LEMMA DepartmentCreateRefs ==
  ASSUME TypeOK, TypeOK', ReferencesSound, costing_department_create
  PROVE  ReferencesSound'
<1>1. PICK d \in Department, v \in Division :
        /\ department[d] = New /\ There(division[v])
        /\ department' = [department EXCEPT ![d] = [st |-> "there", division |-> v]]
        /\ UNCHANGED <<division, employee, project, budgets, assignment, rule, posted>>
  BY DEF costing_department_create, staff, allocation
<1>2. /\ department'[d] = [st |-> "there", division |-> v]
      /\ \A i \in Department : i # d => department'[i] = department[i]
  BY <1>1, Typed
<1>3. There(department'[d]) /\ There(division'[department'[d].division])
  BY <1>1, <1>2 DEF There
<1>. QED
  BY <1>1, <1>2, <1>3, RefsKept

LEMMA EmployeeRefs ==
  ASSUME TypeOK, TypeOK', ReferencesSound, AdminEmployee
  PROVE  ReferencesSound'
<1>1. PICK e \in Employee, d \in Department, a \in BOOLEAN :
        /\ There(department[d])
        /\ employee' = [employee EXCEPT ![e] = [st |-> "there", department |-> d, is_active |-> a]]
        /\ UNCHANGED <<division, department, project, budgets, assignment, rule, posted>>
  BY DEF AdminEmployee, staff, allocation
<1>2. /\ employee'[e] = [st |-> "there", department |-> d, is_active |-> a]
      /\ \A i \in Employee : i # e => employee'[i] = employee[i]
  BY <1>1, Typed
<1>3. There(employee'[e]) /\ There(department'[employee'[e].department])
  BY <1>1, <1>2 DEF There
<1>. QED
  BY <1>1, <1>2, <1>3, RefsKept

LEMMA EmployeeDeleteRefs ==
  ASSUME TypeOK, TypeOK', ReferencesSound, AdminEmployeeDelete
  PROVE  ReferencesSound'
<1>1. PICK e \in Employee :
        /\ employee' = [employee EXCEPT ![e] = Gone]
        /\ assignment' = [k \in DOMAIN assignment |-> IF k[2] = e THEN None ELSE assignment[k]]
        /\ UNCHANGED <<division, department, project, budgets, rule, posted>>
  BY DEF AdminEmployeeDelete, allocation
<1>2. ASSUME NEW i \in Employee, There(employee'[i])
      PROVE  i # e /\ employee'[i] = employee[i]
  BY <1>1, <1>2, Typed DEF There, Gone
<1>3. ASSUME NEW k \in Project \X Employee, assignment'[k] # None
      PROVE  assignment[k] # None /\ k[2] # e /\ employee'[k[2]] = employee[k[2]]
  BY <1>1, <1>3, Typed
<1>. QED
  BY <1>1, <1>2, <1>3, Refs, RefsFrom

LEMMA AssignmentRefs ==
  ASSUME TypeOK, TypeOK', ReferencesSound, AdminAssignment
  PROVE  ReferencesSound'
<1>1. PICK p \in Project, e \in Employee, n \in Percent \cup {None} :
        /\ There(project[p]) /\ There(employee[e])
        /\ assignment' = [assignment EXCEPT ![<<p, e>>] = n]
        /\ UNCHANGED <<division, department, employee, project, budgets, rule, posted>>
  BY DEF AdminAssignment, org, allocation
<1>2. ASSUME NEW k \in Project \X Employee
      PROVE  assignment'[k] = assignment[k] \/ (There(project'[k[1]]) /\ There(employee'[k[2]]))
  <2>1. CASE k = <<p, e>>
    BY <1>1, <2>1
  <2>2. CASE k # <<p, e>>
    BY <1>1, <2>2, Typed
  <2>. QED
    BY <2>1, <2>2
<1>. QED
  BY <1>1, <1>2, RefsKept

LEMMA SaveProjectRefs ==
  ASSUME TypeOK, TypeOK', ReferencesSound, SaveProject
  PROVE  ReferencesSound'
<1>1. UNCHANGED <<division, department, employee, budgets, assignment, rule, posted>>
  BY DEF SaveProject, staff, allocation
<1>2. CASE project' = project
  BY <1>1, <1>2, RefsKept
<1>3. CASE project' # project
  <2>1. /\ There(division[req.new.division])
        /\ req.new.department # None => There(department[req.new.department])
        /\ project' = [project EXCEPT ![req.key] = req.new]
    BY <1>3 DEF SaveProject
  <2>2. req.key \in Project /\ req.new \in ProjectRow
    BY Typed DEF SaveProject, Request
  <2>3. There(req.new)
    BY <2>2 DEF ProjectRow, There
  <2>4. project'[req.key] = req.new /\ \A p \in Project : p # req.key => project'[p] = project[p]
    BY <2>1, <2>2, Typed
  <2>. QED
    BY <1>1, <2>1, <2>2, <2>3, <2>4, RefsKept
<1>. QED
  BY <1>2, <1>3

LEMMA SaveBudgetsRefs ==
  ASSUME TypeOK, TypeOK', ReferencesSound, SaveBudgets
  PROVE  ReferencesSound'
<1>1. UNCHANGED <<division, department, employee, project, assignment, rule, posted>>
  BY DEF SaveBudgets, org, allocation
<1>2. ASSUME NEW b \in budgets'
      PROVE  b \in budgets \/ There(project'[b[1]])
  <2>1. CASE budgets' = budgets
    BY <2>1
  <2>2. CASE There(project[req.key]) /\ \E c \in req.todo : budgets' = budgets \cup {<<req.key, c>>}
    BY <1>1, <2>2
  <2>. QED
    BY <2>1, <2>2 DEF SaveBudgets
<1>. QED
  BY <1>1, <1>2, RefsKept

LEMMA ProjectDeleteRefs ==
  ASSUME TypeOK, TypeOK', ReferencesSound, costing_project_delete
  PROVE  ReferencesSound'
<1>1. PICK p \in Project :
        /\ project' = [project EXCEPT ![p] = Gone]
        /\ budgets' = {b \in budgets : b[1] # p}
        /\ assignment' = [k \in DOMAIN assignment |-> IF k[1] = p THEN None ELSE assignment[k]]
        /\ UNCHANGED <<division, department, employee, rule, posted>>
  BY DEF costing_project_delete, allocation
<1>2. ASSUME NEW i \in Project, There(project'[i])
      PROVE  i # p /\ project'[i] = project[i]
  BY <1>1, <1>2, Typed DEF There, Gone
<1>3. ASSUME NEW k \in Project \X Employee, assignment'[k] # None
      PROVE  /\ assignment[k] # None /\ k[1] \in Project /\ project'[k[1]] = project[k[1]]
  BY <1>1, <1>3, Typed
<1>4. ASSUME NEW b \in budgets'
      PROVE  b \in budgets /\ b[1] \in Project /\ project'[b[1]] = project[b[1]]
  BY <1>1, Typed
<1>. QED
  BY <1>1, <1>2, <1>3, <1>4, Refs, RefsFrom

LEMMA RuleCreateRefs ==
  ASSUME TypeOK, TypeOK', ReferencesSound, allocation_rule_create
  PROVE  ReferencesSound'
<1>1. PICK k \in Rule, r \in RuleInput :
        /\ r.source_department # None => There(department[r.source_department])
        /\ rule' = [rule EXCEPT ![k] = r]
        /\ UNCHANGED <<division, department, employee, project, budgets, assignment, posted>>
  BY DEF allocation_rule_create, org, staff, allocation
<1>2. rule'[k] = r /\ \A i \in Rule : i # k => rule'[i] = rule[i]
  BY <1>1, Typed
<1>. QED
  BY <1>1, <1>2, RefsKept

LEMMA AdminRuleRefs ==
  ASSUME TypeOK, TypeOK', ReferencesSound, AdminRule
  PROVE  ReferencesSound'
<1>1. PICK k \in Rule, d \in Department \cup {None}, a \in BOOLEAN :
        /\ rule[k] \in RuleRow
        /\ d # None => There(department[d])
        /\ rule'[k] = [rule[k] EXCEPT !.source_department = d, !.is_active = a]
        /\ \A i \in Rule : i # k => rule'[i] = rule[i]
        /\ UNCHANGED <<division, department, employee, project, budgets, assignment, posted>>
  BY AdminRuleEffects DEF org, staff, allocation
<1>2. rule'[k].source_department = d
  BY <1>1 DEF RuleRow
<1>. QED
  BY <1>1, <1>2, RefsKept

LEMMA RuleDeleteRefs ==
  ASSUME TypeOK, TypeOK', ReferencesSound, allocation_rule_delete
  PROVE  ReferencesSound'
<1>1. PICK k \in Rule :
        /\ rule'[k] = Gone /\ \A i \in Rule : i # k => rule'[i] = rule[i]
        /\ UNCHANGED <<division, department, employee, project, budgets, assignment, posted>>
  BY RuleDeleteEffects DEF org, staff
<1>2. ~ There(rule'[k])
  BY <1>1 DEF There, Gone
<1>. QED
  BY <1>1, <1>2, RefsKept

LEMMA PostedToThere ==
  ASSUME TypeOK, ReferencesSound, NEW t \in Target, PostedTo(t) # None
  PROVE  There(department[PostedTo(t)])
<1>1. CASE t \in Project
  BY <1>1, Refs, CostAssumption DEF PostedTo
<1>2. CASE t \in Department /\ t \notin Project
  BY <1>2, CostAssumption DEF PostedTo
<1>3. CASE t \in Employee /\ t \notin Project /\ t \notin Department
  BY <1>3, Refs, CostAssumption DEF PostedTo
<1>. QED
  BY <1>1, <1>2, <1>3 DEF Target

LEMMA CommitRefs ==
  ASSUME TypeOK, TypeOK', RulesOfRuns, ReferencesSound, NEW r \in Run, commit_allocation(r)
  PROVE  ReferencesSound'
<1>1. PICK res : res = run[r].results
  OBVIOUS
<1>2. PICK total : total = Allocated(res)
  OBVIOUS
<1>3. /\ run[r].st = "SIMULATED" /\ BecomesStatus(r, "COMMITTED")
      /\ posted' = (posted \cup Entries(r, res)) \cup (IF total > 0 THEN {Offset(r, total)} ELSE {})
      /\ UNCHANGED <<org, staff, rule, drivers, cost, revenue, screen, rewritten, edits>>
  BY <1>1, <1>2, CommitEffects
<1>4. RunRow(run[r])
  BY <1>3 DEF BecomesStatus
<1>5. ASSUME NEW x \in Entries(r, res), x.department # None
      PROVE  There(department[x.department])
  <2>1. PICK t \in DOMAIN res :
          x = [run |-> r, of |-> t, department |-> PostedTo(t), amount |-> res[t].amount]
    BY DEF Entries
  <2>2. t \in Target /\ x.department = PostedTo(t)
    BY <1>1, <1>4, <2>1 DEF RunRow
  <2>. QED
    BY <1>5, <2>2, PostedToThere
<1>6. ASSUME total > 0, Offset(r, total).department # None
      PROVE  There(department[Offset(r, total).department])
  <2>1. DOMAIN res = {} => total = 0
    BY <1>2, AllocatedIsSum, SumEmpty
  <2>2. run[r].rule \in Rule /\ rule[run[r].rule] # New /\ rule[run[r].rule] # Gone
    BY <1>1, <1>3, <1>4, <1>6, <2>1 DEF RulesOfRuns, Exists, RunRow
  <2>3. rule[run[r].rule] \in RuleRow
    BY <2>2, Typed DEF Deleted
  <2>4. There(rule[run[r].rule])
    BY <2>3 DEF RuleRow, There
  <2>. QED
    BY <1>6, <2>2, <2>4, Refs DEF Offset
<1>7. UNCHANGED <<division, department, employee, project, budgets, assignment, rule>>
  BY <1>3 DEF org, staff
<1>. QED
  BY <1>3, <1>5, <1>6, <1>7, RefsKept

LEMMA RefsStep ==
  ASSUME TypeOK, TypeOK', RulesOfRuns, ReferencesSound, [Next]_vars
  PROVE  ReferencesSound'
<1>1. ASSUME UNCHANGED <<org, staff, rule, posted>>
      PROVE  ReferencesSound'
  BY <1>1, RefsKept DEF org, staff
<1>2. CASE UNCHANGED vars
  BY <1>1, <1>2 DEF vars, allocation
<1>3. CASE costing_project_create \/ RequestEnds \/ costing_ledger_create \/ costing_revenue_create
           \/ AdminDriver
  BY <1>1, <1>3 DEF costing_project_create, RequestEnds, costing_ledger_create,
                    costing_revenue_create, AdminDriver, allocation
<1>4. ASSUME NEW r \in Run, simulate_allocation(r) \/ allocation_run_delete(r)
      PROVE  ReferencesSound'
  BY <1>1, <1>4 DEF simulate_allocation, allocation_run_delete
<1>5. ASSUME NEW r \in Run, reverse_allocation(r)
      PROVE  ReferencesSound'
  <2>1. posted' \subseteq posted /\ UNCHANGED <<org, staff, rule>>
    BY <1>5, ReverseEffects
  <2>. QED
    BY <2>1, RefsKept DEF org, staff
<1>. QED
  BY <1>2, <1>3, <1>4, <1>5, DivisionCreateRefs, DivisionDeleteRefs, DepartmentCreateRefs,
     DepartmentDeleteRefs, EmployeeRefs, EmployeeDeleteRefs, AssignmentRefs, SaveProjectRefs,
     SaveBudgetsRefs, ProjectDeleteRefs, RuleCreateRefs, AdminRuleRefs, RuleDeleteRefs, CommitRefs
     DEF Next

LEMMA ReferencesHold == Spec => []ReferencesSound
<1> DEFINE Inv == TypeOK /\ RulesOfRuns /\ ReferencesSound
<1>1. Init => Inv
  <2>1. Init => \A r \in Run : ~ Exists(r)
    BY DEF Init, Exists, New
  <2>. QED
    BY <2>1, InitTypes, InitRefs DEF RulesOfRuns
<1>2. Inv /\ [Next]_vars => Inv'
  BY RulesStep, TypesStep, RefsStep
<1>. QED
  BY <1>1, <1>2, PTL DEF Spec

----------------------------------------------------------------------------
(* The runs and what they posted.                                          *)

\* An entry is known by its run and the result it is linked to; only an offset is negative.
OneEntryEach == \A x, y \in posted : x.run = y.run /\ x.of = y.of => x = y
EntrySigns == \A x \in posted : IF x.of = None THEN x.amount < 0 ELSE x.amount >= 0

NotYetPosted == \A r \in Run : run[r] = New \/ run[r].st = "SIMULATED" => PostedFor(r) = {}

\* A reversal finds the entries by the results, which go only with the rule.
LinkedToResults ==
  \A x \in posted :
    run[x.run].st = "COMMITTED" /\ rule[run[x.run].rule] # Gone /\ x.of # None =>
      x.of \in DOMAIN run[x.run].results

\* A run remembers the department of its rule, and the cost that stood there, until one of them
\* is given up.
SourceKept ==
  \A r \in Run : Exists(r) =>
    /\ There(rule[run[r].rule]) /\ r \notin rewritten =>
         rule[run[r].rule].source_department = run[r].source
    /\ run[r].source # None => run[r].total_amount = run[r].then

\* Where the offset x of a run with row q may stand.
StandsFor(x, q) ==
  \/ x.run \in rewritten
  \/ x.department = q.source
  \/ q.source # None /\ x.department = None /\ department[q.source] = Gone

OffsetsStand ==
  \A x \in posted : x.of = None =>
    /\ run[x.run].st = "COMMITTED"
    /\ rule[run[x.run].rule] # Gone => x.amount = - Allocated(run[x.run].results)
    /\ StandsFor(x, run[x.run])

Balanced ==
  \A r \in Run :
    /\ run[r].st = "COMMITTED" => Sum(PostedFor(r)) = 0
    /\ run[r].st = "REVERSED" => PostedFor(r) = {} \/ rule[run[r].rule] = Gone

AllocationInv ==
  /\ IsFiniteSet(posted) /\ OneEntryEach /\ EntrySigns /\ NotYetPosted /\ LinkedToResults
  /\ SourceKept /\ OffsetsStand /\ Balanced /\ SharesAddUp

LEMMA PostedTyped ==
  ASSUME TypeOK, NEW x \in posted
  PROVE  /\ x \in Posting /\ x.run \in Run /\ x.amount \in Int
         /\ x.of \in Target \cup {None} /\ x.department \in Department \cup {None}
BY Typed DEF Posting

LEMMA RunTyped ==
  ASSUME TypeOK, NEW r \in Run, Exists(r)
  PROVE  /\ RunRow(run[r]) /\ run[r].rule \in Rule /\ run[r].source \in Department \cup {None}
         /\ run[r].st \in {"SIMULATED", "COMMITTED", "REVERSED"} /\ run[r] # New
BY ExistsRow DEF Exists, RunRow, New

LEMMA SumIs ==
  ASSUME NEW P
  PROVE  Sum(P) = SumFunctionOnSet([x \in P |-> x.amount], P)
BY DEF Sum, SumFunction

LEMMA AmountsInt ==
  ASSUME NEW P, P \subseteq Posting
  PROVE  IntOn([x \in P |-> x.amount], P)
BY DEF IntOn, Posting

\* A step on departments and rules that leaves runs as they are, and marks those whose rule
\* gets another department.
Marks ==
  /\ KeepsRules /\ run' = run /\ rewritten \subseteq rewritten'
  /\ \A d \in Department : department[d] = Gone => department'[d] = Gone
  /\ \A k \in Rule, r \in Run :
       There(rule'[k]) /\ Exists(r) /\ run[r].rule = k /\ r \notin rewritten' =>
         There(rule[k]) /\ rule'[k].source_department = rule[k].source_department

LEMMA MarksKeep ==
  ASSUME TypeOK, AllocationInv, Marks
  PROVE  SourceKept' /\ SharesAddUp'
<1>1. SourceKept'
  <2>1. SUFFICES ASSUME NEW r \in Run, Exists(r)'
                 PROVE  /\ There(rule'[run'[r].rule]) /\ r \notin rewritten' =>
                             rule'[run'[r].rule].source_department = run'[r].source
                        /\ run'[r].source # None => run'[r].total_amount = run'[r].then
    BY DEF SourceKept
  <2>2. Exists(r) /\ run' = run /\ run[r].rule \in Rule
    BY <2>1, RunTyped DEF Exists, Marks
  <2>3. r \notin rewritten' => r \notin rewritten
    BY DEF Marks
  <2>. QED
    BY <2>2, <2>3 DEF AllocationInv, SourceKept, Marks
<1>2. SharesAddUp'
  <2>1. run' = run /\ SharesAddUp
    BY DEF Marks, AllocationInv
  <2>. QED
    BY <2>1 DEF SharesAddUp, Exists
<1>. QED
  BY <1>1, <1>2

LEMMA RuleOfCommitted ==
  ASSUME TypeOK, NEW r \in Run, run[r].st \in {"COMMITTED", "REVERSED"}
  PROVE  Exists(r) /\ run[r].rule \in Rule /\ RunRow(run[r])
<1>1. Exists(r)
  BY DEF Exists
<1>. QED
  BY <1>1, RunTyped

LEMMA KeptAllocation ==
  ASSUME TypeOK, AllocationInv, Marks, posted' = posted
  PROVE  AllocationInv'
<1>1. IsFiniteSet(posted') /\ OneEntryEach' /\ EntrySigns' /\ NotYetPosted'
  BY DEF AllocationInv, OneEntryEach, EntrySigns, NotYetPosted, PostedFor, Marks
<1>2. LinkedToResults'
  <2>1. ASSUME NEW x \in posted, run[x.run].st = "COMMITTED", rule'[run[x.run].rule] # Gone,
               x.of # None
        PROVE  x.of \in DOMAIN run[x.run].results
    <3>1. x.run \in Run /\ run[x.run].rule \in Rule
      BY <2>1, PostedTyped, RuleOfCommitted
    <3>2. rule[run[x.run].rule] # Gone
      BY <2>1, <3>1 DEF Marks, KeepsRules
    <3>. QED
      BY <2>1, <3>2 DEF AllocationInv, LinkedToResults
  <2>. QED
    BY <2>1 DEF LinkedToResults, Marks
<1>3. OffsetsStand'
  <2>1. ASSUME NEW x \in posted, x.of = None
        PROVE  /\ run[x.run].st = "COMMITTED"
               /\ rule'[run[x.run].rule] # Gone => x.amount = - Allocated(run[x.run].results)
               /\ \/ x.run \in rewritten'
                  \/ x.department = run[x.run].source
                  \/ /\ run[x.run].source # None /\ x.department = None
                     /\ department'[run[x.run].source] = Gone
    <3>1. /\ run[x.run].st = "COMMITTED"
          /\ rule[run[x.run].rule] # Gone => x.amount = - Allocated(run[x.run].results)
          /\ \/ x.run \in rewritten
             \/ x.department = run[x.run].source
             \/ run[x.run].source # None /\ x.department = None /\ department[run[x.run].source] = Gone
      BY <2>1 DEF AllocationInv, OffsetsStand, StandsFor
    <3>2. x.run \in Run /\ run[x.run].rule \in Rule /\ run[x.run].source \in Department \cup {None}
      BY <3>1, PostedTyped, RuleOfCommitted, RunTyped
    <3>3. rule'[run[x.run].rule] # Gone => rule[run[x.run].rule] # Gone
      BY <3>2 DEF Marks, KeepsRules
    <3>. QED
      BY <3>1, <3>2, <3>3 DEF Marks
  <2>. QED
    BY <2>1 DEF OffsetsStand, StandsFor, Marks
<1>4. Balanced'
  <2>1. ASSUME NEW r \in Run
        PROVE  /\ run[r].st = "COMMITTED" => Sum({x \in posted : x.run = r}) = 0
               /\ run[r].st = "REVERSED" =>
                    {x \in posted : x.run = r} = {} \/ rule'[run[r].rule] = Gone
    <3>1. /\ run[r].st = "COMMITTED" => Sum({x \in posted : x.run = r}) = 0
          /\ run[r].st = "REVERSED" =>
               {x \in posted : x.run = r} = {} \/ rule[run[r].rule] = Gone
      BY DEF AllocationInv, Balanced, PostedFor
    <3>2. run[r].st = "REVERSED" => run[r].rule \in Rule
      BY RuleOfCommitted
    <3>. QED
      BY <3>1, <3>2 DEF Marks, KeepsRules
  <2>2. run' = run
    BY DEF Marks
  <2>. QED
    BY <2>1, <2>2 DEF Balanced, PostedFor
<1>. QED
  BY <1>1, <1>2, <1>3, <1>4, MarksKeep DEF AllocationInv

LEMMA AsideAllocation ==
  ASSUME TypeOK, AllocationInv, UNCHANGED <<department, rule, allocation, rewritten>>
  PROVE  AllocationInv'
<1>1. Marks /\ posted' = posted
  BY DEF Marks, KeepsRules, allocation
<1>. QED
  BY <1>1, KeptAllocation

LEMMA DepartmentCreateAllocation ==
  ASSUME TypeOK, AllocationInv, costing_department_create
  PROVE  AllocationInv'
<1>1. PICK d \in Department, v \in Division :
        /\ department[d] = New
        /\ department' = [department EXCEPT ![d] = [st |-> "there", division |-> v]]
        /\ UNCHANGED <<rule, run, posted, rewritten>>
  BY DEF costing_department_create, allocation
<1>2. \A i \in Department : department[i] = Gone => department'[i] = Gone
  BY <1>1, Typed DEF New, Gone
<1>3. Marks
  BY <1>1, <1>2 DEF Marks, KeepsRules
<1>. QED
  BY <1>1, <1>3, KeptAllocation

LEMMA RuleCreateAllocation ==
  ASSUME TypeOK, RulesOfRuns, AllocationInv, allocation_rule_create
  PROVE  AllocationInv'
<1>1. PICK k \in Rule, r \in RuleInput :
        /\ rule[k] = New /\ rule' = [rule EXCEPT ![k] = r]
        /\ UNCHANGED <<department, run, posted, rewritten>>
  BY DEF allocation_rule_create, org, allocation
<1>2. \A i \in Rule : i # k => rule'[i] = rule[i]
  BY <1>1, Typed
<1>3. \A i \in Run : Exists(i) => run[i].rule # k
  BY <1>1 DEF RulesOfRuns
<1>4. Marks
  BY <1>1, <1>2, <1>3, RuleCreateRules DEF Marks
<1>. QED
  BY <1>1, <1>4, KeptAllocation

LEMMA AdminRuleAllocation ==
  ASSUME TypeOK, AllocationInv, AdminRule
  PROVE  AllocationInv'
<1>1. PICK k \in Rule, d \in Department \cup {None}, a \in BOOLEAN :
        /\ There(rule[k]) /\ rule[k] \in RuleRow
        /\ rule'[k] = [rule[k] EXCEPT !.source_department = d, !.is_active = a]
        /\ \A i \in Rule : i # k => rule'[i] = rule[i]
        /\ rewritten' = rewritten \cup (IF d # rule[k].source_department THEN RunsOf(k) ELSE {})
        /\ UNCHANGED <<department, run, posted>>
  BY AdminRuleEffects DEF org, allocation
<1>2. rule'[k].source_department = d
  BY <1>1 DEF RuleRow
<1>3. ASSUME NEW i \in Rule, NEW r \in Run, There(rule'[i]), Exists(r), run[r].rule = i,
             r \notin rewritten'
      PROVE  There(rule[i]) /\ rule'[i].source_department = rule[i].source_department
  <2>1. CASE i = k
    <3>1. r \in RunsOf(k)
      BY <1>3, <2>1 DEF RunsOf
    <3>. QED
      BY <1>1, <1>2, <1>3, <2>1, <3>1
  <2>2. CASE i # k
    BY <1>1, <1>3, <2>2
  <2>. QED
    BY <2>1, <2>2
<1>4. Marks
  BY <1>1, <1>3, AdminRuleRules DEF Marks
<1>. QED
  BY <1>1, <1>4, KeptAllocation

\* Departments are taken from entries, which stay what they are otherwise.
Unsets(P, D) == {[x EXCEPT !.department = Unset(@, D)] : x \in P}

LEMMA SumUnset ==
  ASSUME NEW D, NEW P, IsFiniteSet(P), P \subseteq Posting,
         \A x, y \in P : x.run = y.run /\ x.of = y.of => x = y,
         NEW Q, Q = Unsets(P, D)
  PROVE  IsFiniteSet(Q) /\ Sum(Q) = Sum(P)
<1> DEFINE h == [x \in P |-> [x EXCEPT !.department = Unset(@, D)]]
           f == [x \in P |-> x.amount]
           g == [x \in Q |-> x.amount]
<1>1. \A x \in P : h[x].run = x.run /\ h[x].of = x.of /\ h[x].amount = x.amount /\ h[x] \in Q
  BY DEF Posting, Unsets
<1>2. ASSUME NEW x \in P, NEW y \in P, h[x] = h[y]
      PROVE  x = y
  <2>1. h[x].run = h[y].run /\ h[x].of = h[y].of
    BY <1>2
  <2>2. x.run = y.run /\ x.of = y.of
    BY <1>1, <2>1
  <2>. QED
    BY <2>2
<1>3. \A x \in P : g[h[x]] = f[x]
  BY <1>1
<1>4. IntOn(f, P)
  BY AmountsInt
<1>5. \A y \in Q : \E x \in P : y = h[x]
  BY DEF Unsets
<1>6. Sum(Q) = SumFunctionOnSet(g, Q) /\ Sum(P) = SumFunctionOnSet(f, P)
  BY SumIs
<1> HIDE DEF h, f, g
<1>7. IsFiniteSet(Q) /\ SumFunctionOnSet(g, Q) = SumFunctionOnSet(f, P)
  BY <1>1, <1>2, <1>3, <1>4, <1>5, SumImage
<1>. QED
  BY <1>6, <1>7

LEMMA DeleteDepartmentsMarks ==
  ASSUME TypeOK, NEW D \in SUBSET Department, DeleteDepartments(D)
  PROVE  Marks
<1>1. ASSUME NEW k \in Rule, NEW r \in Run, There(rule'[k]), Exists(r), run[r].rule = k,
             r \notin rewritten'
      PROVE  There(rule[k]) /\ rule'[k].source_department = rule[k].source_department
  <2> DEFINE K == {x \in Rule : rule'[x] # rule[x]}
  <2>1. r \in RunsOf(k)
    BY <1>1 DEF RunsOf
  <2>2. rewritten' = rewritten \cup (UNION {RunsOf(i) : i \in K})
    BY DEF DeleteDepartments
  <2>3. k \notin K
    BY <1>1, <2>1, <2>2
  <2>. QED
    BY <1>1, <2>3
<1>2. rewritten \subseteq rewritten'
  BY DEF DeleteDepartments
<1>3. \A d \in Department : department[d] = Gone => department'[d] = Gone
  BY DEF DeleteDepartments
<1>. QED
  BY <1>1, <1>2, <1>3, DeleteDepartmentsRules DEF Marks

LEMMA DeleteDepartmentsAllocation ==
  ASSUME TypeOK, AllocationInv, NEW D \in SUBSET Department, DeleteDepartments(D)
  PROVE  AllocationInv'
<1>1. Marks /\ run' = run
  BY DeleteDepartmentsMarks DEF Marks
<1>2. posted' = {[x EXCEPT !.department = Unset(@, D)] : x \in posted}
  BY DEF DeleteDepartments
<1>3. ASSUME NEW y \in posted'
      PROVE  \E x \in posted : /\ y = [x EXCEPT !.department = Unset(@, D)]
                               /\ y.run = x.run /\ y.of = x.of /\ y.amount = x.amount
                               /\ y.department = Unset(x.department, D)
  <2>1. PICK x \in posted : y = [x EXCEPT !.department = Unset(@, D)]
    BY <1>2
  <2>. QED
    BY <2>1, PostedTyped DEF Posting
<1>4. IsFiniteSet(posted')
  <2>1. posted' = Unsets(posted, D)
    BY <1>2 DEF Unsets
  <2>. QED
    BY <2>1, Typed, SumUnset DEF AllocationInv, OneEntryEach
<1>5. OneEntryEach' /\ EntrySigns'
  BY <1>3 DEF AllocationInv, OneEntryEach, EntrySigns
<1>6. NotYetPosted'
  BY <1>1, <1>3 DEF AllocationInv, NotYetPosted, PostedFor
<1>7. LinkedToResults'
  <2>1. ASSUME NEW y \in posted', run[y.run].st = "COMMITTED", rule'[run[y.run].rule] # Gone,
               y.of # None
        PROVE  y.of \in DOMAIN run[y.run].results
    <3>1. PICK x \in posted : y.run = x.run /\ y.of = x.of
      BY <1>3
    <3>2. x.run \in Run /\ run[x.run].rule \in Rule
      BY <2>1, <3>1, PostedTyped, RuleOfCommitted
    <3>3. rule[run[x.run].rule] # Gone
      BY <1>1, <2>1, <3>1, <3>2 DEF Marks, KeepsRules
    <3>. QED
      BY <2>1, <3>1, <3>3 DEF AllocationInv, LinkedToResults
  <2>. QED
    BY <1>1, <2>1 DEF LinkedToResults
<1>8. OffsetsStand'
  <2>1. ASSUME NEW y \in posted', y.of = None
        PROVE  /\ run[y.run].st = "COMMITTED"
               /\ rule'[run[y.run].rule] # Gone => y.amount = - Allocated(run[y.run].results)
               /\ \/ y.run \in rewritten'
                  \/ y.department = run[y.run].source
                  \/ /\ run[y.run].source # None /\ y.department = None
                     /\ department'[run[y.run].source] = Gone
    <3>1. PICK x \in posted : /\ y.run = x.run /\ y.of = x.of /\ y.amount = x.amount
                              /\ y.department = Unset(x.department, D)
      BY <1>3
    <3> DEFINE q == run[x.run]
    <3>2. /\ q.st = "COMMITTED"
          /\ rule[q.rule] # Gone => x.amount = - Allocated(q.results)
          /\ \/ x.run \in rewritten
             \/ x.department = q.source
             \/ q.source # None /\ x.department = None /\ department[q.source] = Gone
      BY <2>1, <3>1 DEF AllocationInv, OffsetsStand, StandsFor
    <3>3. x.run \in Run /\ q.rule \in Rule /\ q.source \in Department \cup {None}
      BY <3>2, PostedTyped, RuleOfCommitted, RunTyped
    <3>4. rule'[q.rule] # Gone => rule[q.rule] # Gone
      BY <1>1, <3>3 DEF Marks, KeepsRules
    <3>5. \/ y.run \in rewritten'
          \/ y.department = q.source
          \/ q.source # None /\ y.department = None /\ department'[q.source] = Gone
      <4>1. CASE x.run \in rewritten
        BY <1>1, <3>1, <4>1 DEF Marks
      <4>2. CASE x.department = q.source /\ q.source \in D
        <5>1. q.source # None /\ y.department = None /\ department'[q.source] = Gone
          BY <3>1, <4>2, CostAssumption DEF Unset, DeleteDepartments
        <5>. QED
          BY <5>1
      <4>3. CASE x.department = q.source /\ q.source \notin D
        BY <3>1, <4>3 DEF Unset
      <4>4. CASE q.source # None /\ x.department = None /\ department[q.source] = Gone
        <5>1. y.department = None
          BY <3>1, <4>4 DEF Unset
        <5>2. department'[q.source] = Gone
          BY <3>3, <4>4 DEF DeleteDepartments
        <5>. QED
          BY <4>4, <5>1, <5>2
      <4>. QED
        BY <3>2, <4>1, <4>2, <4>3, <4>4
    <3>. QED
      BY <3>1, <3>2, <3>4, <3>5
  <2>. QED
    BY <1>1, <2>1 DEF OffsetsStand, StandsFor
<1>9. Balanced'
  <2>1. ASSUME NEW r \in Run
        PROVE  /\ run[r].st = "COMMITTED" => Sum({y \in posted' : y.run = r}) = 0
               /\ run[r].st = "REVERSED" =>
                    {y \in posted' : y.run = r} = {} \/ rule'[run[r].rule] = Gone
    <3> DEFINE P == {x \in posted : x.run = r}
               Q == {y \in posted' : y.run = r}
    <3>1. /\ run[r].st = "COMMITTED" => Sum(P) = 0
          /\ run[r].st = "REVERSED" => P = {} \/ rule[run[r].rule] = Gone
      BY DEF AllocationInv, Balanced, PostedFor
    <3>2. Q = Unsets(P, D)
      <4>1. Q \subseteq {[x EXCEPT !.department = Unset(@, D)] : x \in P}
        BY <1>3
      <4>2. ASSUME NEW x \in P
            PROVE  [x EXCEPT !.department = Unset(@, D)] \in Q
        BY <1>2, PostedTyped DEF Posting
      <4>. QED
        BY <4>1, <4>2 DEF Unsets
    <3>3. IsFiniteSet(P) /\ P \subseteq Posting /\ \A x, y \in P : x.run = y.run /\ x.of = y.of => x = y
      BY Typed, FS_Subset DEF AllocationInv, OneEntryEach
    <3> HIDE DEF P, Q
    <3>4. Sum(Q) = Sum(P)
      BY <3>2, <3>3, SumUnset
    <3>5. run[r].st = "REVERSED" => run[r].rule \in Rule
      BY RuleOfCommitted
    <3>6. run[r].st = "REVERSED" => Q = {} \/ rule'[run[r].rule] = Gone
      BY <1>1, <3>1, <3>2, <3>5 DEF Marks, KeepsRules, Unsets
    <3>. QED
      BY <3>1, <3>4, <3>6 DEF P, Q
  <2>. QED
    BY <1>1, <2>1 DEF Balanced, PostedFor
<1>. QED
  BY <1>1, <1>4, <1>5, <1>6, <1>7, <1>8, <1>9, MarksKeep DEF AllocationInv

LEMMA RuleDeleteAllocation ==
  ASSUME TypeOK, AllocationInv, allocation_rule_delete
  PROVE  AllocationInv'
<1>1. PICK k \in Rule :
        /\ There(rule[k]) /\ rule[k] # New /\ rule[k] # Gone /\ rule'[k] = Gone
        /\ \A i \in Rule : i # k => rule'[i] = rule[i]
        /\ DOMAIN run' = Run
        /\ \A r \in Run \ RunsOf(k) : run'[r] = run[r]
        /\ \A r \in RunsOf(k) :
             /\ RunRow(run[r]) /\ run'[r] = [run[r] EXCEPT !.results = NoResults]
             /\ run'[r].st = run[r].st /\ run'[r].rule = k /\ run'[r].source = run[r].source
             /\ run'[r].total_amount = run[r].total_amount /\ run'[r].then = run[r].then
             /\ run'[r].negative = run[r].negative /\ DOMAIN run'[r].results = {}
        /\ UNCHANGED <<department, posted, rewritten>>
  BY RuleDeleteEffects DEF org
<1>2. ASSUME NEW r \in Run \ RunsOf(k), Exists(r)
      PROVE  run[r].rule # k /\ run[r].rule \in Rule /\ rule'[run[r].rule] = rule[run[r].rule]
  BY <1>1, <1>2, RunTyped DEF RunsOf
<1>3. \A r \in Run : run'[r].st = run[r].st /\ (Exists(r)' <=> Exists(r))
  BY <1>1 DEF Exists
<1>4. ~ There(Gone)
  BY DEF There, Gone
<1>5. IsFiniteSet(posted') /\ OneEntryEach' /\ EntrySigns'
  BY <1>1 DEF AllocationInv, OneEntryEach, EntrySigns
<1>6. NotYetPosted'
  <2>1. ASSUME NEW r \in Run, run'[r] = New \/ run'[r].st = "SIMULATED"
        PROVE  {x \in posted : x.run = r} = {}
    <3>1. run[r] = New \/ run[r].st = "SIMULATED"
      <4>1. CASE r \in RunsOf(k)
        BY <1>1, <2>1, <4>1, RunTyped DEF RunsOf, Exists, New
      <4>2. CASE r \notin RunsOf(k)
        BY <1>1, <2>1, <4>2
      <4>. QED
        BY <4>1, <4>2
    <3>. QED
      BY <3>1 DEF AllocationInv, NotYetPosted, PostedFor
  <2>. QED
    BY <1>1, <2>1 DEF NotYetPosted, PostedFor
<1>7. ASSUME NEW x \in posted, run'[x.run].st = "COMMITTED", rule'[run'[x.run].rule] # Gone
      PROVE  /\ run'[x.run] = run[x.run] /\ rule[run[x.run].rule] # Gone
             /\ run[x.run].st = "COMMITTED"
  <2>1. x.run \in Run
    BY PostedTyped
  <2>2. x.run \notin RunsOf(k)
    BY <1>1, <1>7
  <2>3. Exists(x.run)
    BY <1>3, <1>7, <2>1 DEF Exists
  <2>. QED
    BY <1>1, <1>2, <1>7, <2>1, <2>2, <2>3
<1>8. LinkedToResults'
  BY <1>1, <1>7 DEF AllocationInv, LinkedToResults
<1>9. SourceKept'
  <2>1. ASSUME NEW r \in Run, Exists(r)
        PROVE  /\ There(rule'[run'[r].rule]) /\ r \notin rewritten =>
                    rule'[run'[r].rule].source_department = run'[r].source
               /\ run'[r].source # None => run'[r].total_amount = run'[r].then
    <3>1. CASE r \in RunsOf(k)
      BY <1>1, <1>4, <2>1, <3>1 DEF AllocationInv, SourceKept
    <3>2. CASE r \notin RunsOf(k)
      BY <1>1, <1>2, <2>1, <3>2 DEF AllocationInv, SourceKept
    <3>. QED
      BY <3>1, <3>2
  <2>. QED
    BY <1>1, <1>3, <2>1 DEF SourceKept
<1>10. OffsetsStand'
  <2>1. ASSUME NEW x \in posted, x.of = None
        PROVE  /\ run'[x.run].st = "COMMITTED"
               /\ rule'[run'[x.run].rule] # Gone => x.amount = - Allocated(run'[x.run].results)
               /\ \/ x.run \in rewritten
                  \/ x.department = run'[x.run].source
                  \/ /\ run'[x.run].source # None /\ x.department = None
                     /\ department[run'[x.run].source] = Gone
    <3>1. /\ run[x.run].st = "COMMITTED"
          /\ rule[run[x.run].rule] # Gone => x.amount = - Allocated(run[x.run].results)
          /\ \/ x.run \in rewritten
             \/ x.department = run[x.run].source
             \/ run[x.run].source # None /\ x.department = None /\ department[run[x.run].source] = Gone
      BY <2>1 DEF AllocationInv, OffsetsStand, StandsFor
    <3>2. x.run \in Run
      BY PostedTyped
    <3>3. run'[x.run].source = run[x.run].source /\ run'[x.run].st = "COMMITTED"
      BY <1>1, <1>3, <3>1, <3>2
    <3>4. rule'[run'[x.run].rule] # Gone => x.amount = - Allocated(run'[x.run].results)
      BY <1>7, <3>1, <3>3
    <3>. QED
      BY <3>1, <3>3, <3>4
  <2>. QED
    BY <1>1, <2>1 DEF OffsetsStand, StandsFor
<1>11. Balanced'
  <2>1. ASSUME NEW r \in Run
        PROVE  /\ run'[r].st = "COMMITTED" => Sum({x \in posted : x.run = r}) = 0
               /\ run'[r].st = "REVERSED" =>
                    {x \in posted : x.run = r} = {} \/ rule'[run'[r].rule] = Gone
    <3>1. /\ run[r].st = "COMMITTED" => Sum({x \in posted : x.run = r}) = 0
          /\ run[r].st = "REVERSED" =>
               {x \in posted : x.run = r} = {} \/ rule[run[r].rule] = Gone
      BY DEF AllocationInv, Balanced, PostedFor
    <3>2. CASE r \in RunsOf(k)
      BY <1>1, <3>1, <3>2
    <3>3. CASE r \notin RunsOf(k)
      BY <1>1, <1>2, <3>1, <3>3 DEF Exists
    <3>. QED
      BY <3>2, <3>3
  <2>. QED
    BY <1>1, <2>1 DEF Balanced, PostedFor
<1>12. SharesAddUp'
  <2>1. ASSUME NEW r \in Run, Exists(r), DOMAIN run'[r].results # {}
        PROVE  run'[r] = run[r]
    BY <1>1, <2>1
  <2>2. SharesAddUp
    BY DEF AllocationInv
  <2>. QED
    BY <1>3, <2>1, <2>2 DEF SharesAddUp
<1>. QED
  BY <1>5, <1>6, <1>8, <1>9, <1>10, <1>11, <1>12 DEF AllocationInv

\* The results of a simulation add up to its source, unless a driver value was negative.
LEMMA SimulatedAddsUp ==
  ASSUME TypeOK, NEW k \in Rule, There(rule[k]), NEW x, NEW driver, NEW res,
         SimulatedRun(k, x, driver, res)
  PROVE  LET off  == Allocated(x.results) - x.total_amount
             most == Slack(x.total_amount, Cardinality(DOMAIN x.results))
         IN ~ x.negative /\ DOMAIN x.results # {} =>
              /\ 2 * ShareUnit * off <= most /\ - 2 * ShareUnit * off <= most
              /\ \A t \in DOMAIN x.results : x.results[t].share <= ShareUnit
<1>1. PICK source \in Int : source = _source_amount(rule[k])
  BY RuleThere, SourceTyped
<1>2. /\ x.results = res /\ x.total_amount = source
      /\ x.negative = (\E t \in DOMAIN driver : driver[t] < 0)
  BY <1>1 DEF SimulatedRun
<1>3. res = Allocate(source, driver)
  BY <1>1 DEF SimulatedRun
<1>4. IsFiniteSet(DOMAIN driver) /\ IntOn(driver, DOMAIN driver)
  BY DriverValuesTyped DEF SimulatedRun
<1>5. SUFFICES ASSUME ~ x.negative, DOMAIN res # {}
               PROVE  LET off  == Allocated(res) - source
                          most == Slack(source, Cardinality(DOMAIN res))
                      IN /\ 2 * ShareUnit * off <= most /\ - 2 * ShareUnit * off <= most
                         /\ \A t \in DOMAIN res : res[t].share <= ShareUnit
  BY <1>2
<1>6. \A t \in DOMAIN driver : driver[t] >= 0
  BY <1>2, <1>4, <1>5 DEF IntOn
<1>. QED
  BY <1>3, <1>4, <1>5, <1>6, AllocateAddsUp

LEMMA SimulateAllocation ==
  ASSUME TypeOK, AllocationInv, NEW r \in Run, simulate_allocation(r)
  PROVE  AllocationInv'
<1>1. PICK k, x, driver, res :
        k \in Rule /\ There(rule[k]) /\ SimulatedRun(k, x, driver, res) /\ run' = [run EXCEPT ![r] = x]
  BY SimulateEffects
<1>2. /\ run[r] = New /\ run[r].st = "new" /\ run'[r] = x
      /\ \A i \in Run : i # r => run'[i] = run[i]
  BY <1>1, SimulateEffects, Typed DEF New
<1>3. UNCHANGED <<department, rule, posted, rewritten>>
  BY SimulateEffects DEF org
<1>4. x.st = "SIMULATED" /\ x.rule = k /\ x.source = rule[k].source_department
      /\ x.then = cost[rule[k].source_department] /\ x.total_amount = _source_amount(rule[k])
  BY <1>1 DEF SimulatedRun
<1>5. \A y \in posted : y.run \in Run /\ y.run # r
  BY <1>2, PostedTyped DEF AllocationInv, NotYetPosted, PostedFor
<1>6. IsFiniteSet(posted') /\ OneEntryEach' /\ EntrySigns'
  BY <1>3 DEF AllocationInv, OneEntryEach, EntrySigns
<1>7. NotYetPosted'
  BY <1>2, <1>3, <1>5 DEF AllocationInv, NotYetPosted, PostedFor
<1>8. LinkedToResults' /\ OffsetsStand'
  BY <1>2, <1>3, <1>5 DEF AllocationInv, LinkedToResults, OffsetsStand, StandsFor
<1>9. SourceKept'
  <2>1. x.source # None => x.total_amount = x.then
    BY <1>4 DEF _source_amount
  <2>. QED
    BY <1>2, <1>3, <1>4, <2>1 DEF AllocationInv, SourceKept, Exists
<1>10. Balanced'
  BY <1>2, <1>3, <1>4 DEF AllocationInv, Balanced, PostedFor
<1>11. SharesAddUp'
  <2>1. LET off  == Allocated(x.results) - x.total_amount
            most == Slack(x.total_amount, Cardinality(DOMAIN x.results))
        IN ~ x.negative /\ DOMAIN x.results # {} =>
             /\ 2 * ShareUnit * off <= most /\ - 2 * ShareUnit * off <= most
             /\ \A t \in DOMAIN x.results : x.results[t].share <= ShareUnit
    BY <1>1, SimulatedAddsUp
  <2>2. SharesAddUp
    BY DEF AllocationInv
  <2>. QED
    BY <1>2, <2>1, <2>2 DEF SharesAddUp, Exists
<1>. QED
  BY <1>6, <1>7, <1>8, <1>9, <1>10, <1>11 DEF AllocationInv

\* The entries of a commit add up to what was allocated, and the offset takes it back.
LEMMA EntriesSum ==
  ASSUME TypeOK, NEW r \in Run, RunRow(run[r]), NEW res, res = run[r].results
  PROVE  /\ IsFiniteSet(Entries(r, res)) /\ Sum(Entries(r, res)) = Allocated(res)
         /\ \A x \in Entries(r, res) :
              x \in Posting /\ x.run = r /\ x.of \in DOMAIN res /\ x.of # None /\ x.amount \in Nat
         /\ \A x, y \in Entries(r, res) : x.of = y.of => x = y
<1> DEFINE P == DOMAIN res
           E == Entries(r, res)
           h == [t \in P |-> [run |-> r, of |-> t, department |-> PostedTo(t), amount |-> res[t].amount]]
           f == [t \in P |-> res[t].amount]
           g == [x \in E |-> x.amount]
<1>1. \A t \in P : t \in Target /\ t # None /\ res[t].amount \in Nat
                   /\ PostedTo(t) \in Department \cup {None}
  BY PostedToTyped, CostAssumption DEF RunRow, Target
<1>2. \A t \in P : h[t] \in E /\ h[t].run = r /\ h[t].of = t /\ h[t].amount = res[t].amount
                   /\ h[t] \in Posting
  BY <1>1 DEF Entries, Posting
<1>3. \A x \in E : \E t \in P : x = h[t]
  BY DEF Entries
<1>4. IsFiniteSet(P) /\ IntOn(f, P)
  BY AllocatedTyped
<1>5. \A t \in P : g[h[t]] = f[t]
  BY <1>2
<1>6. \A t, u \in P : h[t] = h[u] => t = u
  <2>1. ASSUME NEW t \in P, NEW u \in P, h[t] = h[u]
        PROVE  t = u
    <3>1. h[t].of = h[u].of
      BY <2>1
    <3>. QED
      BY <1>2, <3>1
  <2>. QED
    BY <2>1
<1>7. Sum(E) = SumFunctionOnSet(g, E) /\ Allocated(res) = SumFunctionOnSet(f, P)
  BY SumIs, AllocatedIsSum
<1> HIDE DEF P, E, h, f, g
<1>8. IsFiniteSet(E) /\ SumFunctionOnSet(g, E) = SumFunctionOnSet(f, P)
  BY <1>2, <1>3, <1>4, <1>5, <1>6, SumImage
<1>9. \A x \in E : x \in Posting /\ x.run = r /\ x.of \in P /\ x.of # None /\ x.amount \in Nat
  BY <1>1, <1>2, <1>3
<1>10. \A x, y \in E : x.of = y.of => x = y
  BY <1>2, <1>3
<1>. QED
  BY <1>7, <1>8, <1>9, <1>10 DEF E, P

LEMMA OffsetSum ==
  ASSUME NEW E, IsFiniteSet(E), E \subseteq Posting, NEW x, x \notin E, x.amount \in Int
  PROVE  Sum(E \cup {x}) = x.amount + Sum(E)
<1> DEFINE Q == E \cup {x}
           f == [y \in Q |-> y.amount]
           g == [y \in E |-> y.amount]
<1>1. IntOn(f, E) /\ IntOn(g, E) /\ \A y \in E : f[y] = g[y]
  BY DEF IntOn, Posting
<1>2. f[x] = x.amount
  OBVIOUS
<1>3. Sum(Q) = SumFunctionOnSet(f, Q) /\ Sum(E) = SumFunctionOnSet(g, E)
  BY SumIs
<1> HIDE DEF f, g
<1>4. SumFunctionOnSet(f, E) = SumFunctionOnSet(g, E)
  BY <1>1, SumEqual
<1>5. SumFunctionOnSet(f, E \cup {x}) = f[x] + SumFunctionOnSet(f, E)
  BY <1>1, <1>2, SumAdd
<1>. QED
  BY <1>2, <1>3, <1>4, <1>5

LEMMA SumNone == Sum({}) = 0
BY SumIs, SumEmpty

\* A step that changes the status of run r only leaves the shares of all as they were.
LEMMA StatusKeepsShares ==
  ASSUME TypeOK, SharesAddUp, NEW r \in Run, NEW s, BecomesStatus(r, s), Exists(r)
  PROVE  SharesAddUp'
<1>1. ASSUME NEW i \in Run, Exists(i)'
      PROVE  /\ Exists(i) /\ run'[i].results = run[i].results
             /\ run'[i].total_amount = run[i].total_amount /\ run'[i].negative = run[i].negative
  BY <1>1 DEF BecomesStatus, Exists
<1>. QED
  BY <1>1 DEF SharesAddUp

LEMMA StatusKeepsSource ==
  ASSUME TypeOK, SourceKept, NEW r \in Run, NEW s, BecomesStatus(r, s), Exists(r),
         UNCHANGED <<rule, rewritten>>
  PROVE  SourceKept'
<1>1. ASSUME NEW i \in Run, Exists(i)'
      PROVE  /\ Exists(i) /\ run'[i].rule = run[i].rule /\ run'[i].source = run[i].source
             /\ run'[i].total_amount = run[i].total_amount /\ run'[i].then = run[i].then
  BY <1>1 DEF BecomesStatus, Exists
<1>. QED
  BY <1>1 DEF SourceKept

LEMMA CommitAllocation ==
  ASSUME TypeOK, RulesOfRuns, AllocationInv, NEW r \in Run, commit_allocation(r)
  PROVE  AllocationInv'
<1>1. PICK res : res = run[r].results
  OBVIOUS
<1>2. PICK total : total = Allocated(res)
  OBVIOUS
<1> DEFINE E == Entries(r, res)
           o == Offset(r, total)
           O == IF total > 0 THEN {o} ELSE {}
<1>3. /\ run[r].st = "SIMULATED" /\ BecomesStatus(r, "COMMITTED")
      /\ posted' = (posted \cup E) \cup O
      /\ UNCHANGED <<department, rule, rewritten>>
  BY <1>1, <1>2, CommitEffects DEF org
<1>4. RunRow(run[r]) /\ Exists(r) /\ run[r].rule \in Rule
  BY <1>3, RunTyped DEF BecomesStatus, Exists
<1>5. /\ IsFiniteSet(E) /\ Sum(E) = total
      /\ \A x \in E :
           x \in Posting /\ x.run = r /\ x.of \in DOMAIN res /\ x.of # None /\ x.amount \in Nat
      /\ \A x, y \in E : x.of = y.of => x = y
  BY <1>1, <1>2, <1>4, EntriesSum
<1>6. total \in Nat /\ (DOMAIN res = {} => total = 0)
  <2>1. DOMAIN res = {} => total = 0
    BY <1>2, AllocatedIsSum, SumEmpty
  <2>. QED
    BY <1>1, <1>2, <1>4, <2>1, AllocatedTyped
<1>7. /\ o.run = r /\ o.of = None /\ o.amount = - total
      /\ o.department = rule[run[r].rule].source_department
  BY DEF Offset
<1>8. \A x \in posted : x.run \in Run /\ x.run # r
  BY <1>3, PostedTyped DEF AllocationInv, NotYetPosted, PostedFor
<1>9. /\ run'[r].st = "COMMITTED" /\ run'[r].rule = run[r].rule /\ run'[r].results = res
      /\ run'[r].source = run[r].source
      /\ \A i \in Run : i # r => run'[i] = run[i]
  BY <1>1, <1>3 DEF BecomesStatus
<1>10. total > 0 => rule[run[r].rule] # New /\ rule[run[r].rule] # Gone /\ There(rule[run[r].rule])
  <2>1. total > 0 => rule[run[r].rule] # New /\ rule[run[r].rule] # Gone
    BY <1>1, <1>4, <1>6 DEF RulesOfRuns
  <2>2. rule[run[r].rule] \in RuleRow => There(rule[run[r].rule])
    BY DEF RuleRow, There
  <2>. QED
    BY <1>4, <2>1, <2>2, Typed DEF Deleted
<1> HIDE DEF E, o
<1>11. IsFiniteSet(posted')
  <2>1. IsFiniteSet(posted \cup E)
    BY <1>5, FS_Union DEF AllocationInv
  <2>2. IsFiniteSet((posted \cup E) \cup {o})
    BY <2>1, FS_AddElement
  <2>. QED
    BY <1>3, <2>1, <2>2
<1>12. OneEntryEach'
  BY <1>3, <1>5, <1>7, <1>8 DEF AllocationInv, OneEntryEach
<1>13. EntrySigns'
  BY <1>3, <1>5, <1>6, <1>7 DEF AllocationInv, EntrySigns
<1>14. NotYetPosted'
  <2>1. ASSUME NEW i \in Run, run'[i] = New \/ run'[i].st = "SIMULATED"
        PROVE  i # r /\ \A x \in posted' : x.run # i
    <3>1. i # r
      BY <1>9, <2>1 DEF New
    <3>2. run[i] = New \/ run[i].st = "SIMULATED"
      BY <1>9, <2>1, <3>1
    <3>3. \A x \in posted : x.run # i
      BY <3>2 DEF AllocationInv, NotYetPosted, PostedFor
    <3>. QED
      BY <1>3, <1>5, <1>7, <3>1, <3>3
  <2>. QED
    BY <2>1 DEF NotYetPosted, PostedFor
<1>15. LinkedToResults'
  <2>1. ASSUME NEW x \in posted', run'[x.run].st = "COMMITTED", rule'[run'[x.run].rule] # Gone,
               x.of # None
        PROVE  x.of \in DOMAIN run'[x.run].results
    <3>1. CASE x \in posted
      BY <1>3, <1>8, <1>9, <2>1, <3>1 DEF AllocationInv, LinkedToResults
    <3>2. CASE x \in E
      BY <1>5, <1>9, <3>2
    <3>3. CASE x = o
      BY <1>7, <2>1, <3>3
    <3>. QED
      BY <1>3, <3>1, <3>2, <3>3
  <2>. QED
    BY <2>1 DEF LinkedToResults
<1>16. OffsetsStand'
  <2>1. ASSUME NEW x \in posted', x.of = None
        PROVE  /\ run'[x.run].st = "COMMITTED"
               /\ rule[run'[x.run].rule] # Gone => x.amount = - Allocated(run'[x.run].results)
               /\ \/ x.run \in rewritten
                  \/ x.department = run'[x.run].source
                  \/ /\ run'[x.run].source # None /\ x.department = None
                     /\ department[run'[x.run].source] = Gone
    <3>1. CASE x \in posted
      BY <1>8, <1>9, <2>1, <3>1 DEF AllocationInv, OffsetsStand, StandsFor
    <3>2. CASE x = o /\ total > 0
      <4>1. r \notin rewritten => rule[run[r].rule].source_department = run[r].source
        BY <1>4, <1>10, <3>2 DEF AllocationInv, SourceKept
      <4>. QED
        BY <1>2, <1>7, <1>9, <3>2, <4>1
    <3>. QED
      BY <1>3, <1>5, <2>1, <3>1, <3>2
  <2>. QED
    BY <1>3, <2>1 DEF OffsetsStand, StandsFor
<1>17. Balanced'
  <2>1. {x \in posted' : x.run = r} = E \cup O
    BY <1>3, <1>5, <1>7, <1>8
  <2>2. Sum(E \cup O) = 0
    <3>1. CASE total > 0
      <4>1. o \notin E /\ o.amount \in Int /\ E \subseteq Posting
        BY <1>5, <1>6, <1>7
      <4>2. Sum(E \cup {o}) = o.amount + Sum(E)
        BY <1>5, <4>1, OffsetSum
      <4>. QED
        BY <1>5, <1>6, <1>7, <3>1, <4>2
    <3>2. CASE ~ (total > 0)
      <4>1. E \cup O = E
        BY <3>2
      <4>. QED
        BY <1>5, <1>6, <3>2, <4>1
    <3>. QED
      BY <3>1, <3>2
  <2>3. ASSUME NEW i \in Run, i # r
        PROVE  {x \in posted' : x.run = i} = {x \in posted : x.run = i}
    BY <1>3, <1>5, <1>7, <2>3
  <2>4. ASSUME NEW i \in Run
        PROVE  /\ run'[i].st = "COMMITTED" => Sum({x \in posted' : x.run = i}) = 0
               /\ run'[i].st = "REVERSED" =>
                    {x \in posted' : x.run = i} = {} \/ rule[run'[i].rule] = Gone
    <3>1. CASE i = r
      BY <1>9, <2>1, <2>2, <3>1
    <3>2. CASE i # r
      BY <1>9, <2>3, <3>2 DEF AllocationInv, Balanced, PostedFor
    <3>. QED
      BY <3>1, <3>2
  <2>. QED
    BY <1>3, <2>4 DEF Balanced, PostedFor
<1>18. SourceKept' /\ SharesAddUp'
  BY <1>3, <1>4, StatusKeepsShares, StatusKeepsSource DEF AllocationInv
<1>. QED
  BY <1>11, <1>12, <1>13, <1>14, <1>15, <1>16, <1>17, <1>18 DEF AllocationInv

LEMMA ReverseAllocation ==
  ASSUME TypeOK, AllocationInv, NEW r \in Run, reverse_allocation(r)
  PROVE  AllocationInv'
<1>1. /\ run[r].st = "COMMITTED" /\ BecomesStatus(r, "REVERSED")
      /\ posted' = {x \in posted : x.run # r \/ x.of \notin DOMAIN run[r].results \cup {None}}
      /\ UNCHANGED <<department, rule, rewritten>>
  BY ReverseEffects DEF org
<1>2. Exists(r) /\ run[r].rule \in Rule
  BY <1>1, RuleOfCommitted
<1>3. /\ run'[r].st = "REVERSED" /\ run'[r].rule = run[r].rule
      /\ \A i \in Run : i # r => run'[i] = run[i]
  BY <1>1 DEF BecomesStatus
<1>4. posted' \subseteq posted /\ \A x \in posted' : x.run \in Run
  BY <1>1, PostedTyped
<1>5. ASSUME NEW x \in posted', x.run = r
      PROVE  x.of # None /\ rule[run[r].rule] = Gone
  BY <1>1, <1>5 DEF AllocationInv, LinkedToResults
<1>6. IsFiniteSet(posted') /\ OneEntryEach' /\ EntrySigns'
  BY <1>4, FS_Subset DEF AllocationInv, OneEntryEach, EntrySigns
<1>7. NotYetPosted'
  <2>1. ASSUME NEW i \in Run, run'[i] = New \/ run'[i].st = "SIMULATED"
        PROVE  \A x \in posted' : x.run # i
    <3>1. i # r
      BY <1>3, <2>1 DEF New
    <3>2. run[i] = New \/ run[i].st = "SIMULATED"
      BY <1>3, <2>1, <3>1
    <3>. QED
      BY <1>4, <3>2 DEF AllocationInv, NotYetPosted, PostedFor
  <2>. QED
    BY <2>1 DEF NotYetPosted, PostedFor
<1>8. LinkedToResults' /\ OffsetsStand'
  <2>1. ASSUME NEW x \in posted'
        PROVE  x.run = r \/ run'[x.run] = run[x.run]
    BY <1>3, <1>4
  <2>. QED
    BY <1>1, <1>3, <1>4, <1>5, <2>1
       DEF AllocationInv, LinkedToResults, OffsetsStand, StandsFor
<1>9. Balanced'
  <2>1. ASSUME NEW i \in Run, i # r
        PROVE  {x \in posted' : x.run = i} = {x \in posted : x.run = i}
    BY <1>1, <2>1
  <2>2. {x \in posted' : x.run = r} = {} \/ rule[run[r].rule] = Gone
    BY <1>5
  <2>3. ASSUME NEW i \in Run
        PROVE  /\ run'[i].st = "COMMITTED" => Sum({x \in posted' : x.run = i}) = 0
               /\ run'[i].st = "REVERSED" =>
                    {x \in posted' : x.run = i} = {} \/ rule[run'[i].rule] = Gone
    <3>1. CASE i = r
      BY <1>3, <2>2, <3>1
    <3>2. CASE i # r
      BY <1>3, <2>1, <3>2 DEF AllocationInv, Balanced, PostedFor
    <3>. QED
      BY <3>1, <3>2
  <2>. QED
    BY <1>1, <2>3 DEF Balanced, PostedFor
<1>10. SourceKept' /\ SharesAddUp'
  BY <1>1, <1>2, StatusKeepsShares, StatusKeepsSource DEF AllocationInv
<1>. QED
  BY <1>6, <1>7, <1>8, <1>9, <1>10 DEF AllocationInv

LEMMA RunDeleteAllocation ==
  ASSUME TypeOK, AllocationInv, NEW r \in Run, allocation_run_delete(r)
  PROVE  AllocationInv'
<1>1. /\ run[r].st # "COMMITTED" /\ run'[r] = Gone /\ \A i \in Run : i # r => run'[i] = run[i]
      /\ UNCHANGED <<department, rule, posted, rewritten>>
  BY Typed DEF allocation_run_delete, org
<1>2. Gone.st = "gone" /\ Gone # New
  BY DEF Gone, New
<1>3. \A x \in posted : x.run \in Run
  BY PostedTyped
<1>4. IsFiniteSet(posted') /\ OneEntryEach' /\ EntrySigns'
  BY <1>1 DEF AllocationInv, OneEntryEach, EntrySigns
<1>5. NotYetPosted' /\ Balanced'
  BY <1>1, <1>2 DEF AllocationInv, NotYetPosted, Balanced, PostedFor
<1>6. LinkedToResults'
  BY <1>1, <1>2, <1>3 DEF AllocationInv, LinkedToResults
<1>7. OffsetsStand'
  BY <1>1, <1>3 DEF AllocationInv, OffsetsStand, StandsFor
<1>8. SourceKept'
  BY <1>1, <1>2 DEF AllocationInv, SourceKept, Exists
<1>9. SharesAddUp'
  <2>1. ASSUME NEW i \in Run, Exists(i)'
        PROVE  Exists(i) /\ run'[i] = run[i]
    BY <1>1, <1>2, <2>1 DEF Exists
  <2>2. SharesAddUp
    BY DEF AllocationInv
  <2>. QED
    BY <2>1, <2>2 DEF SharesAddUp
<1>. QED
  BY <1>4, <1>5, <1>6, <1>7, <1>8, <1>9 DEF AllocationInv

LEMMA InitAllocation ==
  ASSUME Init
  PROVE  RulesOfRuns /\ AllocationInv
<1>1. posted = {} /\ \A r \in Run : run[r] = New /\ run[r].st = "new" /\ ~ Exists(r)
  BY DEF Init, Exists, New
<1>. QED
  BY <1>1, FS_EmptySet DEF RulesOfRuns, AllocationInv, OneEntryEach, EntrySigns, NotYetPosted,
     LinkedToResults, SourceKept, OffsetsStand, Balanced, SharesAddUp, PostedFor

LEMMA AllocationStep ==
  ASSUME TypeOK, RulesOfRuns, AllocationInv, [Next]_vars
  PROVE  AllocationInv'
<1>1. CASE UNCHANGED vars
  BY <1>1, AsideAllocation DEF vars, org
<1>2. CASE Aside
  BY <1>2, AsideEffects, AsideAllocation
<1>3. CASE costing_division_delete \/ costing_department_delete
  BY <1>3, DepartmentsGo, DeleteDepartmentsAllocation
<1>. QED
  BY <1>1, <1>2, <1>3, NextCases, DepartmentCreateAllocation, RuleCreateAllocation,
     AdminRuleAllocation, RuleDeleteAllocation, SimulateAllocation, CommitAllocation,
     ReverseAllocation, RunDeleteAllocation

\* The inductive invariant of runs, their rules and what they posted.
THEOREM AllocationInvariant == Spec => [](TypeOK /\ RulesOfRuns /\ AllocationInv)
<1>1. Init => TypeOK /\ RulesOfRuns /\ AllocationInv
  BY InitTypes, InitAllocation
<1>2. (TypeOK /\ RulesOfRuns /\ AllocationInv) /\ [Next]_vars
        => (TypeOK /\ RulesOfRuns /\ AllocationInv)'
  BY TypesStep, RulesStep, AllocationStep
<1>. QED
  BY <1>1, <1>2, PTL DEF Spec

LEMMA TotalFromInv ==
  ASSUME TypeOK, AllocationInv
  PROVE  TotalKept
<1>1. ASSUME NEW r \in Run, Exists(r)
      PROVE  \/ Sum(PostedFor(r)) = 0 /\ (run[r].st = "REVERSED" => PostedFor(r) = {})
             \/ run[r].st = "REVERSED" /\ rule[run[r].rule] = Gone
  <2>1. run[r].st \in {"SIMULATED", "COMMITTED", "REVERSED"}
    BY <1>1, RunTyped
  <2>2. run[r].st = "SIMULATED" => PostedFor(r) = {}
    BY DEF AllocationInv, NotYetPosted
  <2>. QED
    BY <2>1, <2>2, SumNone DEF AllocationInv, Balanced
<1>. QED
  BY <1>1 DEF TotalKept

LEMMA RelievedFromInv ==
  ASSUME TypeOK, AllocationInv
  PROVE  RelievedWasSource
<1>1. ASSUME NEW x \in posted, x.amount < 0
      PROVE  x.of = None
  <2>1. x.amount \in Int
    BY PostedTyped
  <2>. QED
    BY <1>1, <2>1 DEF AllocationInv, EntrySigns
<1>2. ASSUME NEW x \in posted, x.amount < 0
      PROVE  /\ Exists(x.run) /\ run[x.run].st = "COMMITTED"
             /\ \/ x.run \in rewritten \/ x.department = run[x.run].source
                \/ x.department = None /\ department[run[x.run].source] = Gone
  <2>1. run[x.run].st = "COMMITTED" /\ StandsFor(x, run[x.run])
    BY <1>1, <1>2 DEF AllocationInv, OffsetsStand
  <2>. QED
    BY <2>1 DEF StandsFor, Exists
<1>. QED
  BY <1>2 DEF RelievedWasSource

LEMMA CoveredFromInv ==
  ASSUME TypeOK, AllocationInv
  PROVE  SourceCovered
<1> SUFFICES ASSUME NEW x \in posted, x.of = None, x.department # None,
                    ~ \E y \in posted : y # x /\ y.of = None /\ y.department = x.department,
                    ~ run[x.run].negative, cost[x.department] >= run[x.run].then,
                    x.run \notin rewritten, There(rule[run[x.run].rule])
             PROVE  2 * ShareUnit * (cost[x.department]
                                       + Sum({y \in posted : y.department = x.department}))
                      >= - Slack(run[x.run].total_amount, Cardinality(DOMAIN run[x.run].results))
  BY DEF SourceCovered
<1> DEFINE q == run[x.run]
           P == {y \in posted : y.department = x.department}
           R == P \ {x}
           f == [y \in P |-> y.amount]
           n == Cardinality(DOMAIN q.results)
           A == Allocated(q.results)
<1>1. x.run \in Run /\ x.amount \in Int /\ x.amount < 0
  BY PostedTyped DEF AllocationInv, EntrySigns
<1>2. q.st = "COMMITTED" /\ Exists(x.run) /\ RunRow(q)
  BY <1>1, RuleOfCommitted DEF AllocationInv, OffsetsStand
<1>3. x.amount = - A /\ x.department = q.source
  <2>1. ~ There(Gone)
    BY DEF There, Gone
  <2>. QED
    BY <2>1 DEF AllocationInv, OffsetsStand, StandsFor
<1>4. q.total_amount = q.then
  BY <1>1, <1>2, <1>3 DEF AllocationInv, SourceKept
<1>5. A \in Nat /\ q.total_amount \in Int /\ n \in Nat /\ cost[x.department] \in Int
  <2>1. A \in Nat /\ IsFiniteSet(DOMAIN q.results)
    BY <1>2, AllocatedTyped
  <2>. QED
    BY <1>2, <2>1, FS_CardinalityType, PostedTyped, Typed DEF RunRow
<1>6. DOMAIN q.results # {}
  <2>1. DOMAIN q.results = {} => A = 0
    BY AllocatedIsSum, SumEmpty
  <2>. QED
    BY <1>1, <1>3, <2>1
<1>7. 2 * ShareUnit * (A - q.total_amount) <= Slack(q.total_amount, n)
  BY <1>1, <1>2, <1>6 DEF AllocationInv, SharesAddUp
<1>8. Sum(P) >= - A /\ Sum(P) \in Int
  <2>1. IsFiniteSet(P) /\ P \subseteq Posting /\ x \in P
    BY Typed, FS_Subset DEF AllocationInv
  <2>2. IntOn(f, P) /\ f[x] = x.amount /\ Sum(P) = SumFunctionOnSet(f, P)
    BY <2>1, AmountsInt, SumIs
  <2>3. \A y \in R : f[y] >= 0
    BY DEF AllocationInv, EntrySigns
  <2>4. IsFiniteSet(R) /\ IntOn(f, R) /\ R = P \ {x}
    BY <2>1, <2>2, FS_Subset DEF IntOn
  <2> HIDE DEF P, R, f
  <2>5. SumFunctionOnSet(f, R) >= 0 /\ SumFunctionOnSet(f, R) \in Int
    BY <2>3, <2>4, SumNonnegative, SumType
  <2>6. SumFunctionOnSet(f, P) = f[x] + SumFunctionOnSet(f, R)
    BY <2>1, <2>2, <2>4, SumRemove
  <2>. QED
    BY <1>1, <1>3, <1>5, <2>2, <2>5, <2>6
<1> DEFINE c == cost[x.department]
           S == Sum(P)
           slack == Slack(q.total_amount, n)
<1>9. c + S \in Int /\ c + S >= - (A - q.total_amount) /\ slack \in Int
  <2>1. slack \in Int
    BY <1>5, ShareUnitAssumption DEF Slack
  <2>. QED
    BY <1>4, <1>5, <1>8, <2>1
<1>10. 2 * ShareUnit * (c + S) >= - slack
  <2> DEFINE off == A - q.total_amount
             U == 2 * ShareUnit
  <2>1. U \in Nat /\ off \in Int /\ c + S \in Int /\ c + S >= - off /\ U * off <= slack
    BY <1>5, <1>7, <1>9, ShareUnitAssumption
  <2> HIDE DEF off, U, S, c, slack
  <2>2. PICK z \in Nat : c + S = z - off
    <3>1. (c + S) + off \in Nat /\ c + S = ((c + S) + off) - off
      BY <2>1
    <3>. QED
      BY <3>1
  <2>3. U * (z - off) = (U * z) - (U * off) /\ U * z >= 0 /\ U * z \in Int /\ U * off \in Int
    BY <2>1
  <2>4. U * (c + S) >= - slack
    BY <1>9, <2>1, <2>2, <2>3
  <2>. QED
    BY <2>4 DEF U
<1>. QED
  BY <1>10

\* An allocation makes no cost: the entries of a committed run cancel out, whatever is deleted
\* before or after the commit (commit_allocation, reverse_allocation).
THEOREM TotalHolds == Spec => []TotalKept
BY AllocationInvariant, TotalFromInv, PTL

\* Rounding every share and amount by at most a half keeps a run within Slack of its source
\* (simulate_allocation).
THEOREM SharesHold == Spec => []SharesAddUp
<1>1. AllocationInv => SharesAddUp
  BY DEF AllocationInv
<1>. QED
  BY <1>1, AllocationInvariant, PTL

\* A department is never relieved of more than it has, but for the rounding.
THEOREM SourceHolds == Spec => []SourceCovered
BY AllocationInvariant, CoveredFromInv, PTL

\* Only the department a run was simulated for is relieved.
THEOREM RelievedHolds == Spec => []RelievedWasSource
BY AllocationInvariant, RelievedFromInv, PTL

----------------------------------------------------------------------------
(* The budgets of a project.                                               *)

\* What a request has saved of a project and what it has still to save are those of its form.
BeingSaved ==
  /\ req.pc = "validated" => project[req.key] = New /\ req.todo = submitted[req.key]
  /\ req.pc = "saved" =>
       /\ project[req.key] # New
       /\ There(project[req.key]) =>
            BudgetsOf(req.key, budgets) \cup req.todo = submitted[req.key]

BudgetsInv == TypeOK /\ RulesOfRuns /\ ReferencesSound /\ BeingSaved /\ BudgetsFollow

LEMMA RequestTyped ==
  ASSUME TypeOK
  PROVE  /\ req.pc \in {"idle", "validated", "saved"}
         /\ req.pc # "idle" => /\ req.key \in Project /\ req.new \in ProjectRow
                              /\ req.todo \subseteq Category
                              /\ req \in [pc: {"validated", "saved"}, key: Project,
                                          new: ProjectRow, todo: SUBSET Category]
BY Typed DEF Request

LEMMA NoBudgets ==
  ASSUME TypeOK, ReferencesSound, NEW p \in Project, ~ There(project[p])
  PROVE  BudgetsOf(p, budgets) = {}
BY Refs DEF BudgetsOf

LEMMA InitBudgets ==
  ASSUME Init
  PROVE  BeingSaved /\ BudgetsFollow
<1>1. req.pc = "idle" /\ submitted = [p \in Project |-> BudgetsOf(p, budgets)]
  BY DEF Init
<1>. QED
  BY <1>1 DEF BeingSaved, BudgetsFollow

\* A step that leaves requests and budgets alone.
LEMMA KeptBudgets ==
  ASSUME BudgetsInv, UNCHANGED <<budgets, req, submitted, interrupted>>,
         \A p \in Project : /\ (project'[p] = New <=> project[p] = New)
                            /\ (There(project'[p]) => There(project[p]))
  PROVE  BeingSaved' /\ BudgetsFollow'
<1>1. TypeOK /\ BeingSaved /\ BudgetsFollow
  BY DEF BudgetsInv
<1>2. BeingSaved'
  BY <1>1, RequestTyped DEF BeingSaved
<1>3. BudgetsFollow'
  BY <1>1 DEF BudgetsFollow
<1>. QED
  BY <1>2, <1>3

LEMMA SameProjects ==
  ASSUME BudgetsInv, UNCHANGED <<project, budgets, req, submitted, interrupted>>
  PROVE  BeingSaved' /\ BudgetsFollow'
BY KeptBudgets

LEMMA DepartmentsGoBudgets ==
  ASSUME BudgetsInv, NEW D \in SUBSET Department, DeleteDepartments(D)
  PROVE  BeingSaved' /\ BudgetsFollow'
<1>1. TypeOK /\ UNCHANGED <<budgets, req, submitted, interrupted>>
  BY DEF BudgetsInv, DeleteDepartments, staff, screen
<1>2. ASSUME NEW p \in Project
      PROVE  (project'[p] = New <=> project[p] = New) /\ (There(project'[p]) => There(project[p]))
  <2>1. CASE There(project[p])
    <3>1. project[p] \in ProjectRow
      BY <1>1, <2>1, RowsThere
    <3>2. project'[p] = [project[p] EXCEPT !.department = Unset(@, D)]
      BY <2>1 DEF DeleteDepartments
    <3>. QED
      BY <2>1, <3>1, <3>2 DEF ProjectRow, New
  <2>2. CASE ~ There(project[p])
    BY <2>2 DEF DeleteDepartments
  <2>. QED
    BY <2>1, <2>2
<1>. QED
  BY <1>1, <1>2, KeptBudgets

LEMMA ProjectCreateBudgets ==
  ASSUME BudgetsInv, costing_project_create
  PROVE  BeingSaved' /\ BudgetsFollow'
<1>1. PICK f \in FormInput, p \in Project :
        /\ project[p] = New
        /\ req' = [pc |-> "validated", key |-> p, todo |-> f.budgets,
                   new |-> [st |-> "there", division |-> f.division, department |-> f.department,
                            open |-> f.open]]
        /\ submitted' = [submitted EXCEPT ![p] = f.budgets]
  BY DEF costing_project_create
<1>2. req.pc = "idle" /\ UNCHANGED <<project, budgets, interrupted>>
  BY DEF costing_project_create, org, staff
<1>3. /\ req'.pc = "validated" /\ req'.key = p /\ req'.todo = f.budgets
      /\ submitted'[p] = f.budgets /\ ~ There(New)
      /\ \A i \in Project : i # p => submitted'[i] = submitted[i]
  BY <1>1, Typed DEF BudgetsInv, There, New
<1>4. BeingSaved'
  BY <1>1, <1>2, <1>3 DEF BeingSaved
<1>5. BudgetsFollow'
  BY <1>1, <1>2, <1>3 DEF BudgetsInv, BudgetsFollow
<1>. QED
  BY <1>4, <1>5

LEMMA SaveProjectBudgets ==
  ASSUME BudgetsInv, SaveProject
  PROVE  BeingSaved' /\ BudgetsFollow'
<1>1. /\ req.pc = "validated" /\ UNCHANGED <<budgets, submitted, interrupted>>
      /\ TypeOK /\ ReferencesSound /\ BeingSaved /\ BudgetsFollow
  BY DEF SaveProject, staff, BudgetsInv
<1>2. /\ project[req.key] = New /\ req.todo = submitted[req.key]
      /\ req.key \in Project /\ req.new \in ProjectRow
  BY <1>1, RequestTyped DEF BeingSaved
<1>3. CASE req' = [pc |-> "idle"] /\ project' = project
  BY <1>1, <1>3 DEF BeingSaved, BudgetsFollow
<1>4. CASE project' = [project EXCEPT ![req.key] = req.new] /\ req' = [req EXCEPT !.pc = "saved"]
  <2>1. req'.pc = "saved" /\ req'.key = req.key /\ req'.todo = req.todo
    BY <1>1, <1>4, RequestTyped
  <2>2. /\ project'[req.key] = req.new
        /\ \A p \in Project : p # req.key => project'[p] = project[p]
    BY <1>1, <1>2, <1>4, Typed
  <2>3. BudgetsOf(req.key, budgets) = {}
    BY <1>1, <1>2, NoBudgets DEF There, New
  <2>4. BudgetsOf(req.key, budgets) \cup req.todo = req.todo
    BY <2>3
  <2>5. BeingSaved'
    BY <1>1, <1>2, <2>1, <2>2, <2>4 DEF BeingSaved, BudgetsOf, ProjectRow, New
  <2>6. BudgetsFollow'
    BY <1>1, <2>1, <2>2, <2>3 DEF BudgetsFollow, BudgetsOf
  <2>. QED
    BY <2>5, <2>6
<1>. QED
  BY <1>3, <1>4 DEF SaveProject

LEMMA SaveBudgetsBudgets ==
  ASSUME BudgetsInv, SaveBudgets
  PROVE  BeingSaved' /\ BudgetsFollow'
<1>1. /\ req.pc = "saved" /\ UNCHANGED <<project, submitted, interrupted>>
      /\ TypeOK /\ BeingSaved /\ BudgetsFollow
  BY DEF SaveBudgets, org, BudgetsInv
<1>2. /\ req.key \in Project /\ req.todo \subseteq Category /\ project[req.key] # New
      /\ There(project[req.key]) =>
           BudgetsOf(req.key, budgets) \cup req.todo = submitted[req.key]
  BY <1>1, RequestTyped DEF BeingSaved
<1>3. CASE /\ There(project[req.key])
           /\ \E c \in req.todo : /\ budgets' = budgets \cup {<<req.key, c>>}
                                  /\ req' = [req EXCEPT !.todo = @ \ {c}]
  <2>1. PICK c \in req.todo : /\ budgets' = budgets \cup {<<req.key, c>>}
                             /\ req' = [req EXCEPT !.todo = @ \ {c}]
    BY <1>3
  <2>2. req'.pc = "saved" /\ req'.key = req.key /\ req'.todo = req.todo \ {c}
    BY <1>1, <2>1, RequestTyped
  <2>3. BudgetsOf(req.key, budgets') \cup (req.todo \ {c}) = BudgetsOf(req.key, budgets) \cup req.todo
    BY <1>2, <2>1 DEF BudgetsOf
  <2>4. ASSUME NEW p \in Project, p # req.key
        PROVE  BudgetsOf(p, budgets') = BudgetsOf(p, budgets)
    BY <2>1, <2>4 DEF BudgetsOf
  <2>5. BeingSaved'
    BY <1>1, <1>2, <1>3, <2>2, <2>3 DEF BeingSaved, BudgetsOf
  <2>6. BudgetsOf(req.key, budgets') \subseteq submitted[req.key]
    BY <1>2, <1>3, <2>3
  <2>7. BudgetsFollow'
    BY <1>1, <2>2, <2>4, <2>6 DEF BudgetsFollow, BudgetsOf
  <2>. QED
    BY <2>5, <2>7
<1>4. CASE /\ req.todo = {} \/ ~ There(project[req.key])
           /\ req' = [pc |-> "idle"] /\ UNCHANGED budgets
  <2>1. There(project[req.key]) => BudgetsOf(req.key, budgets) = submitted[req.key]
    <3>1. req.todo = {} => BudgetsOf(req.key, budgets) \cup req.todo = BudgetsOf(req.key, budgets)
      OBVIOUS
    <3>. QED
      BY <1>2, <1>4, <3>1
  <2>2. BudgetsFollow'
    BY <1>1, <1>2, <1>4, <2>1 DEF BudgetsFollow
  <2>. QED
    BY <1>4, <2>2 DEF BeingSaved
<1>. QED
  BY <1>3, <1>4 DEF SaveBudgets

LEMMA RequestEndsBudgets ==
  ASSUME BudgetsInv, RequestEnds
  PROVE  BeingSaved' /\ BudgetsFollow'
<1>1. /\ req' = [pc |-> "idle"] /\ interrupted \subseteq interrupted'
      /\ req.pc = "saved" /\ req.todo # {} => req.key \in interrupted'
      /\ UNCHANGED <<project, budgets, submitted>> /\ BudgetsFollow /\ BeingSaved
  BY DEF RequestEnds, org, staff, BudgetsInv
<1>2. req.pc = "saved" /\ req.todo = {} /\ There(project[req.key]) =>
        BudgetsOf(req.key, budgets) = submitted[req.key]
  BY <1>1 DEF BeingSaved
<1>3. BudgetsFollow'
  BY <1>1, <1>2 DEF BudgetsFollow
<1>. QED
  BY <1>1, <1>3 DEF BeingSaved

LEMMA ProjectDeleteBudgets ==
  ASSUME BudgetsInv, costing_project_delete
  PROVE  BeingSaved' /\ BudgetsFollow'
<1>1. PICK p \in Project :
        /\ There(project[p])
        /\ project' = [project EXCEPT ![p] = Gone] /\ budgets' = {b \in budgets : b[1] # p}
  BY DEF costing_project_delete
<1>2. /\ UNCHANGED <<req, submitted, interrupted>>
      /\ TypeOK /\ BeingSaved /\ BudgetsFollow
  BY DEF costing_project_delete, screen, BudgetsInv
<1>3. /\ project'[p] = Gone /\ ~ There(Gone) /\ Gone # New /\ project[p] # New
      /\ \A i \in Project : i # p => project'[i] = project[i]
  BY <1>1, <1>2, Typed DEF There, Gone, New
<1>4. ASSUME NEW i \in Project, i # p
      PROVE  BudgetsOf(i, budgets') = BudgetsOf(i, budgets)
  BY <1>1, <1>4 DEF BudgetsOf
<1>5. BeingSaved'
  BY <1>2, <1>3, <1>4, RequestTyped DEF BeingSaved, BudgetsOf
<1>6. BudgetsFollow'
  BY <1>2, <1>3, <1>4 DEF BudgetsFollow, BudgetsOf
<1>. QED
  BY <1>5, <1>6

LEMMA RequestStep ==
  ASSUME BudgetsInv, [Next]_vars
  PROVE  BeingSaved' /\ BudgetsFollow'
<1>1. CASE UNCHANGED vars
  BY <1>1, SameProjects DEF vars, org, staff, screen
<1>2. CASE \/ costing_division_create \/ costing_department_create \/ AdminEmployee
           \/ AdminEmployeeDelete \/ AdminAssignment \/ costing_ledger_create
           \/ costing_revenue_create \/ allocation_rule_create \/ AdminRule \/ AdminDriver
           \/ allocation_rule_delete
  <2>1. UNCHANGED <<project, budgets, req, submitted, interrupted>>
    BY <1>2 DEF costing_division_create, costing_department_create, AdminEmployee,
       AdminEmployeeDelete, AdminAssignment, costing_ledger_create, costing_revenue_create,
       allocation_rule_create, AdminRule, AdminDriver, allocation_rule_delete, org, staff, screen
  <2>. QED
    BY <2>1, SameProjects
<1>3. ASSUME NEW r \in Run, simulate_allocation(r) \/ commit_allocation(r)
                            \/ reverse_allocation(r) \/ allocation_run_delete(r)
      PROVE  BeingSaved' /\ BudgetsFollow'
  <2>1. UNCHANGED <<project, budgets, req, submitted, interrupted>>
    BY <1>3 DEF simulate_allocation, commit_allocation, reverse_allocation, allocation_run_delete,
       org, staff, screen
  <2>. QED
    BY <2>1, SameProjects
<1>4. CASE costing_division_delete \/ costing_department_delete
  BY <1>4, DepartmentsGo, DepartmentsGoBudgets
<1>. QED
  BY <1>1, <1>2, <1>3, <1>4, ProjectCreateBudgets, SaveProjectBudgets, SaveBudgetsBudgets,
     RequestEndsBudgets, ProjectDeleteBudgets DEF Next

LEMMA BudgetsStep ==
  ASSUME BudgetsInv, [Next]_vars
  PROVE  BudgetsInv'
<1>1. TypeOK' /\ RulesOfRuns' /\ ReferencesSound'
  BY TypesStep, RulesStep, RefsStep DEF BudgetsInv
<1>. QED
  BY <1>1, RequestStep DEF BudgetsInv

\* A project has the budgets its own form was submitted with, all of them unless it is still
\* getting them or its request was cut off after it had saved the project, and never others
\* (costing_project_create).
THEOREM BudgetsHold == Spec => []BudgetsFollow
<1>1. Init => BudgetsInv
  BY InitTypes, InitRefs, InitAllocation, InitBudgets DEF BudgetsInv
<1>2. BudgetsInv /\ [Next]_vars => BudgetsInv'
  BY BudgetsStep
<1>3. BudgetsInv => BudgetsFollow
  BY DEF BudgetsInv
<1>. QED
  BY <1>1, <1>2, <1>3, PTL DEF Spec
=============================================================================
