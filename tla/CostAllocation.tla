--------------------------- MODULE CostAllocation ---------------------------
(***************************************************************************)
(* The organisation (divisions, departments, employees, projects, their    *)
(* budgets and assignments) and the standard cost allocation that draws on *)
(* it (src/apps/evaluation): what a simulation computes, what a commit     *)
(* posts, and what becomes of both when master data is deleted, moved or   *)
(* retyped before, between and after.                                      *)
(*                                                                         *)
(* One accounting period, open throughout, and one cost category: closing  *)
(* is the module PeriodLedger, overlapping requests on a run are the       *)
(* module AllocationRuns.  Here simulations, commits and reversals are     *)
(* single steps; a project and its budgets are saved in several.           *)
(***************************************************************************)
EXTENDS AllocationMath, FiniteSets

CONSTANTS
  Division, Department, Employee, Project,     \* primary keys; no key is used twice
  Category,        \* budget categories
  Rule, Run,       \* primary keys of AllocationRule and AllocationRun
  Start,           \* contents of the tables at first
  FormInput,       \* projects as they are submitted
  RuleInput,       \* rules as they are submitted
  Amounts,         \* what an entry of cost or revenue, and a manual driver value, can come to
  Percent,         \* what the assignments of an employee to a project can come to
  MaxEdits,        \* bound on the edits of anything but runs
  None             \* NULL

ASSUME CostAssumption ==
  /\ Amounts \subseteq Int /\ Percent \subseteq Int /\ MaxEdits \in Nat
  /\ None \notin Division \cup Department \cup Employee \cup Project
  /\ Department \cap Employee = {} /\ Department \cap Project = {} /\ Employee \cap Project = {}

VARIABLES
  division, department, employee, project,    \* the tables
  budgets,         \* ProjectBudget rows
  assignment,      \* allocation_pct in the period, by project and employee, None for no row
  rule,
  drivers,         \* AllocationDriver rows: the value by rule and target, 0 for no row
  cost,            \* cost entries but those of source ALLOCATION, summed by department
  revenue,         \* revenue entries, summed by department and by project
  run,             \* AllocationRun with its AllocationResult rows
  posted,          \* cost entries of source ALLOCATION
  req,             \* the request that is creating a project
  submitted,       \* the budget lines of the form a project was last entered with
  interrupted,     \* projects whose request ended before it had saved their budgets
  rewritten,       \* runs whose rule got another source department after the simulation
  edits

org == <<division, department, employee, project>>
staff == <<budgets, assignment>>
allocation == <<run, posted>>
screen == <<req, submitted, interrupted>>
vars == <<org, staff, rule, drivers, cost, revenue, allocation, screen, rewritten, edits>>

----------------------------------------------------------------------------
(* Types.                                                                  *)

Target == Department \cup Employee \cup Project
Dimension == {"PROJECT", "DEPARTMENT", "EMPLOYEE"}
DriverType == {"HEADCOUNT", "MANHOUR", "REVENUE", "EQUAL", "MANUAL"}

New == [st |-> "new"]
Gone == [st |-> "gone"]
Deleted == {New, Gone}
There(x) == x.st = "there"

DivisionRow == [st: {"there"}]
DepartmentRow == [st: {"there"}, division: Division]
EmployeeRow == [st: {"there"}, department: Department, is_active: BOOLEAN]
\* open: planned or active, not over, is_allocatable.
ProjectRow ==
  [st: {"there"}, division: Division, department: Department \cup {None}, open: BOOLEAN]
RuleRow ==
  [st: {"there"}, source_department: Department \cup {None}, is_active: BOOLEAN,
   driver_type: DriverType, target_dimension: Dimension]

\* A run remembers beside its row the department its source was summed over, the cost that
\* stood there, and whether one of the driver values was negative.
RunRow(r) ==
  /\ DOMAIN r = {"st", "rule", "source", "then", "negative", "total_amount", "results"}
  /\ r.st \in {"SIMULATED", "COMMITTED", "REVERSED"}
  /\ r.rule \in Rule /\ r.source \in Department \cup {None} /\ r.negative \in BOOLEAN
  /\ r.total_amount \in Int /\ r.then \in Int
  /\ DOMAIN r.results \subseteq Target
  /\ \A t \in DOMAIN r.results : r.results[t] \in [value: Nat, share: Nat, amount: Nat]

\* of is the result an entry is linked to, None for the offset, which is found by its run.
Posting ==
  [run: Run, of: Target \cup {None}, department: Department \cup {None}, amount: Int]

Request ==
  {[pc |-> "idle"]}
  \cup [pc: {"validated", "saved"}, key: Project, new: ProjectRow, todo: SUBSET Category]

\* The tables of master data, ledgers and rules.
Tables ==
  [division   : [Division -> DivisionRow \cup Deleted],
   department : [Department -> DepartmentRow \cup Deleted],
   employee   : [Employee -> EmployeeRow \cup Deleted],
   project    : [Project -> ProjectRow \cup Deleted],
   budgets    : SUBSET (Project \X Category),
   assignment : [Project \X Employee -> Int \cup {None}],
   rule       : [Rule -> RuleRow \cup Deleted],
   drivers    : [Rule \X Target -> Int],
   cost       : [Department \cup {None} -> Int],
   revenue    : [Department \cup Project -> Int]]
tables ==
  [division |-> division, department |-> department, employee |-> employee, project |-> project,
   budgets |-> budgets, assignment |-> assignment, rule |-> rule, drivers |-> drivers,
   cost |-> cost, revenue |-> revenue]

\* The foreign keys that hold in tables t, those of the database and those the screens check.
Consistent(t) ==
  /\ \A d \in Department : There(t.department[d]) => There(t.division[t.department[d].division])
  /\ \A e \in Employee : There(t.employee[e]) => There(t.department[t.employee[e].department])
  /\ \A p \in Project : There(t.project[p]) =>
       /\ There(t.division[t.project[p].division])
       /\ t.project[p].department # None => There(t.department[t.project[p].department])
  /\ \A b \in t.budgets : There(t.project[b[1]])
  /\ \A k \in DOMAIN t.assignment :
       t.assignment[k] # None => There(t.project[k[1]]) /\ There(t.employee[k[2]])
  /\ \A k \in Rule : There(t.rule[k]) /\ t.rule[k].source_department # None =>
       There(t.department[t.rule[k].source_department])

ProjectInput ==
  [division: Division, department: Department \cup {None}, open: BOOLEAN,
   budgets: SUBSET Category, dates_in_order: BOOLEAN, category_twice: BOOLEAN]

BudgetsOf(p, bs) == {c \in Category : <<p, c>> \in bs}

ASSUME InputAssumption ==
  /\ \A S \in {Department, Employee, Project} : IsFiniteSet(S)
  /\ Start \subseteq Tables
  /\ \A s \in Start : Consistent(s)
  /\ FormInput \subseteq ProjectInput /\ RuleInput \subseteq RuleRow

\* Type correctness: every row has the columns of its table, and every result of a run a value
\* that is not negative (costing.py 284-330).
TypeOK ==
  /\ tables \in Tables
  /\ DOMAIN run = Run /\ \A r \in Run : run[r] \in Deleted \/ RunRow(run[r])
  /\ posted \subseteq Posting
  /\ req \in Request
  /\ submitted \in [Project -> SUBSET Category] /\ interrupted \subseteq Project
  /\ rewritten \subseteq Run
  /\ edits \in 0..MaxEdits

----------------------------------------------------------------------------
(* What a simulation reads.                                                *)

\* For _source_amount: the department of the rule is not looked at.
FaultySourceAmount(r) == SumFunctionOnSet(cost, Department \cup {None})

\* The cost of the source department, or of the whole company; what was allocated, and the
\* offsets for it, are not counted.
_source_amount(r) ==
  IF r.source_department # None THEN cost[r.source_department]
  ELSE SumFunctionOnSet(cost, Department \cup {None})

_targets(r) ==
  CASE r.target_dimension = "PROJECT"    -> {p \in Project : There(project[p]) /\ project[p].open}
    [] r.target_dimension = "DEPARTMENT" -> {d \in Department : There(department[d])}
                                              \ {r.source_department}
    [] r.target_dimension = "EMPLOYEE"   -> {e \in Employee : There(employee[e])
                                                             /\ employee[e].is_active}

StaffOf(d) == {e \in Employee : There(employee[e]) /\ employee[e].department = d}

\* Every row counts, also one of 0 %.
AssignedTo(p) == {e \in Employee : assignment[<<p, e>>] # None}
Manhour(P, E) == SumFunctionOnSet(assignment, {k \in P \X E : assignment[k] # None})

\* The driver value of a target t of rule k.
DriverValue(k, t) ==
  LET r   == rule[k]
      dim == r.target_dimension
  IN CASE r.driver_type = "EQUAL"     -> 1
       [] r.driver_type = "MANUAL"    -> drivers[<<k, t>>]
       [] r.driver_type = "HEADCOUNT" ->
            (CASE dim = "PROJECT"    -> Cardinality(AssignedTo(t))
               [] dim = "DEPARTMENT" -> Cardinality({e \in StaffOf(t) : employee[e].is_active})
               [] dim = "EMPLOYEE"   -> 1)
       [] r.driver_type = "MANHOUR"   ->
            (CASE dim = "PROJECT"    -> Manhour({t}, Employee)
               [] dim = "DEPARTMENT" -> Manhour(Project, StaffOf(t))
               [] dim = "EMPLOYEE"   -> Manhour(Project, {t}))
       [] r.driver_type = "REVENUE"   -> IF dim = "EMPLOYEE" THEN 0 ELSE revenue[t]

_driver_values(k) == [t \in _targets(rule[k]) |-> DriverValue(k, t)]

----------------------------------------------------------------------------
(* Helpers.                                                                *)

Init ==
  /\ \E s \in Start :
       /\ division = s.division /\ department = s.department /\ employee = s.employee
       /\ project = s.project /\ budgets = s.budgets /\ assignment = s.assignment
       /\ rule = s.rule /\ drivers = s.drivers /\ cost = s.cost /\ revenue = s.revenue
  /\ run = [r \in Run |-> New]
  /\ posted = {}
  /\ req = [pc |-> "idle"]
  /\ submitted = [p \in Project |-> BudgetsOf(p, budgets)]
  /\ interrupted = {} /\ rewritten = {}
  /\ edits = 0

Edit == edits < MaxEdits /\ edits' = edits + 1

\* on_delete=SET_NULL.
Unset(d, D) == IF d \in D THEN None ELSE d

Exists(r) == run[r].st \notin {"new", "gone"}
RunsOf(k) == {r \in Run : Exists(r) /\ run[r].rule = k}

\* Departments D go, and with SET_NULL every reference to them but those of their employees,
\* which forbid it.
DeleteDepartments(D) ==
  /\ \A d \in D : StaffOf(d) = {}
  /\ department' = [d \in Department |-> IF d \in D THEN Gone ELSE department[d]]
  /\ project' = [p \in Project |-> IF There(project[p])
                   THEN [project[p] EXCEPT !.department = Unset(@, D)] ELSE project[p]]
  /\ rule' = [k \in Rule |-> IF There(rule[k])
                THEN [rule[k] EXCEPT !.source_department = Unset(@, D)] ELSE rule[k]]
  /\ cost' = [d \in Department \cup {None} |->
                IF d \in D THEN 0
                ELSE IF d = None THEN cost[d] + SumFunctionOnSet(cost, D) ELSE cost[d]]
  /\ revenue' = [t \in DOMAIN revenue |-> IF t \in D THEN 0 ELSE revenue[t]]
  /\ posted' = {[x EXCEPT !.department = Unset(@, D)] : x \in posted}
  /\ rewritten' = rewritten \cup UNION {RunsOf(k) : k \in {x \in Rule : rule'[x] # rule[x]}}
  /\ UNCHANGED <<employee, staff, drivers, run, screen>>

----------------------------------------------------------------------------
(* The organisation: the screens, and the admin pages where there is none. *)

costing_division_create ==
  /\ Edit
  /\ \E v \in Division : division[v] = New /\ division' = [division EXCEPT ![v] = [st |-> "there"]]
  /\ UNCHANGED <<department, employee, project, staff, rule, drivers, cost, revenue, allocation,
                 screen, rewritten>>

\* Refused while a project is of the division, or an employee of one of its departments; the
\* departments themselves go with it.
costing_division_delete ==
  /\ Edit
  /\ \E v \in Division :
       /\ There(division[v])
       /\ \A p \in Project : There(project[p]) => project[p].division # v
       /\ division' = [division EXCEPT ![v] = Gone]
       /\ DeleteDepartments({d \in Department : There(department[d]) /\ department[d].division = v})

costing_department_create ==
  /\ Edit
  /\ \E d \in Department, v \in Division :
       /\ department[d] = New /\ There(division[v])
       /\ department' = [department EXCEPT ![d] = [st |-> "there", division |-> v]]
  /\ UNCHANGED <<division, employee, project, staff, rule, drivers, cost, revenue, allocation,
                 screen, rewritten>>

costing_department_delete ==
  /\ Edit
  /\ \E d \in Department : There(department[d]) /\ DeleteDepartments({d})
  /\ UNCHANGED division

\* An employee is entered, moved, or set inactive.
AdminEmployee ==
  /\ Edit
  /\ \E e \in Employee, d \in Department, a \in BOOLEAN :
       /\ employee[e] # Gone /\ There(department[d])
       /\ employee' = [employee EXCEPT ![e] = [st |-> "there", department |-> d, is_active |-> a]]
  /\ UNCHANGED <<division, department, project, staff, rule, drivers, cost, revenue, allocation,
                 screen, rewritten>>

\* An employee is deleted with all assignments.
AdminEmployeeDelete ==
  /\ Edit
  /\ \E e \in Employee :
       /\ There(employee[e])
       /\ employee' = [employee EXCEPT ![e] = Gone]
       /\ assignment' = [k \in DOMAIN assignment |-> IF k[2] = e THEN None ELSE assignment[k]]
  /\ UNCHANGED <<division, department, project, budgets, rule, drivers, cost, revenue, allocation,
                 screen, rewritten>>

\* An assignment is entered, edited, or deleted.
AdminAssignment ==
  /\ Edit
  /\ \E p \in Project, e \in Employee, n \in Percent \cup {None} :
       /\ There(project[p]) /\ There(employee[e])
       /\ assignment' = [assignment EXCEPT ![<<p, e>>] = n]
  /\ UNCHANGED <<org, budgets, rule, drivers, cost, revenue, allocation, screen, rewritten>>

----------------------------------------------------------------------------
(* Projects.                                                               *)

\* ProjectForm.clean and the formset: the dates are in order, the department is of the
\* division, no category is given twice.
ProjectFormValid(f) ==
  /\ There(division[f.division])
  /\ f.dates_in_order
  /\ f.department # None => /\ There(department[f.department])
                            /\ department[f.department].division = f.division
  /\ ~ f.category_twice

\* Stage confirm: the form is validated, ...
costing_project_create ==
  /\ Edit /\ req.pc = "idle"
  /\ \E f \in FormInput, p \in Project :
       /\ project[p] = New /\ ProjectFormValid(f)
       /\ req' = [pc |-> "validated", key |-> p, todo |-> f.budgets,
                  new |-> [st |-> "there", division |-> f.division, department |-> f.department,
                           open |-> f.open]]
       /\ submitted' = [submitted EXCEPT ![p] = f.budgets]
  /\ UNCHANGED <<org, staff, rule, drivers, cost, revenue, allocation, interrupted, rewritten>>

\* ... the project is saved, if what it refers to is still there, ...
SaveProject ==
  /\ req.pc = "validated"
  /\ IF /\ There(division[req.new.division])
        /\ req.new.department # None => There(department[req.new.department])
     THEN /\ project' = [project EXCEPT ![req.key] = req.new]
          /\ req' = [req EXCEPT !.pc = "saved"]
     ELSE req' = [pc |-> "idle"] /\ UNCHANGED project
  /\ UNCHANGED <<division, department, employee, staff, rule, drivers, cost, revenue, allocation,
                 submitted, interrupted, rewritten, edits>>

\* For SaveBudgets: the last line of the formset is left out.
FaultySaveBudgets ==
  /\ req.pc = "saved"
  /\ \/ /\ There(project[req.key])
        /\ \E c \in req.todo : /\ req.todo # {c}
                              /\ budgets' = budgets \cup {<<req.key, c>>}
                              /\ req' = [req EXCEPT !.todo = @ \ {c}]
     \/ /\ Cardinality(req.todo) <= 1 \/ ~ There(project[req.key])
        /\ req' = [pc |-> "idle"] /\ UNCHANGED budgets
  /\ UNCHANGED <<org, assignment, rule, drivers, cost, revenue, allocation, submitted, interrupted,
                 rewritten, edits>>

\* ... and its budgets, one by one; the project may be deleted meanwhile.
SaveBudgets ==
  /\ req.pc = "saved"
  /\ \/ /\ There(project[req.key])
        /\ \E c \in req.todo : /\ budgets' = budgets \cup {<<req.key, c>>}
                              /\ req' = [req EXCEPT !.todo = @ \ {c}]
     \/ /\ req.todo = {} \/ ~ There(project[req.key])
        /\ req' = [pc |-> "idle"] /\ UNCHANGED budgets
  /\ UNCHANGED <<org, assignment, rule, drivers, cost, revenue, allocation, submitted, interrupted,
                 rewritten, edits>>

\* The worker dies or the database fails; nothing is undone.
RequestEnds ==
  /\ req.pc # "idle"
  /\ req' = [pc |-> "idle"]
  /\ interrupted' = interrupted \cup (IF req.pc = "saved" /\ req.todo # {} THEN {req.key} ELSE {})
  /\ UNCHANGED <<org, staff, rule, drivers, cost, revenue, allocation, submitted, rewritten, edits>>

\* Budgets and assignments go with it; entries stay.
costing_project_delete ==
  /\ Edit
  /\ \E p \in Project :
       /\ There(project[p])
       /\ project' = [project EXCEPT ![p] = Gone]
       /\ budgets' = {b \in budgets : b[1] # p}
       /\ assignment' = [k \in DOMAIN assignment |-> IF k[1] = p THEN None ELSE assignment[k]]
       /\ revenue' = [revenue EXCEPT ![p] = 0]
  /\ UNCHANGED <<division, department, employee, rule, drivers, cost, allocation, screen, rewritten>>

----------------------------------------------------------------------------
(* The ledgers, rules and drivers.                                         *)

\* CostEntryForm: an entry of a department, or of a division, project or employee only.
costing_ledger_create ==
  /\ Edit
  /\ \E d \in Department \cup {None}, n \in Amounts :
       /\ d # None => There(department[d])
       /\ cost' = [cost EXCEPT ![d] = @ + n]
  /\ UNCHANGED <<org, staff, rule, drivers, revenue, allocation, screen, rewritten>>

\* RevenueEntryForm: revenue of a department, of a project, or of both.
costing_revenue_create ==
  /\ Edit
  /\ \E d \in Department \cup {None}, p \in Project \cup {None}, n \in Amounts :
       /\ d # None \/ p # None
       /\ d # None => There(department[d])
       /\ p # None => There(project[p])
       /\ revenue' = [t \in DOMAIN revenue |-> IF t \in {d, p} THEN revenue[t] + n ELSE revenue[t]]
  /\ UNCHANGED <<org, staff, rule, drivers, cost, allocation, screen, rewritten>>

allocation_rule_create ==
  /\ Edit
  /\ \E k \in Rule, r \in RuleInput :
       /\ rule[k] = New
       /\ r.source_department # None => There(department[r.source_department])
       /\ rule' = [rule EXCEPT ![k] = r]
  /\ UNCHANGED <<org, staff, drivers, cost, revenue, allocation, screen, rewritten>>

\* A rule is edited: here its department, and whether it is active.
AdminRule ==
  /\ Edit
  /\ \E k \in Rule, d \in Department \cup {None}, a \in BOOLEAN :
       /\ There(rule[k])
       /\ d # None => There(department[d])
       /\ rule' = [rule EXCEPT ![k].source_department = d, ![k].is_active = a]
       /\ rewritten' = rewritten \cup (IF d # rule[k].source_department THEN RunsOf(k) ELSE {})
  /\ UNCHANGED <<org, staff, drivers, cost, revenue, allocation, screen>>

\* A driver value is entered beside its rule; its target is a number and need not exist.
AdminDriver ==
  /\ Edit
  /\ \E k \in Rule, t \in Target, n \in Amounts :
       There(rule[k]) /\ drivers' = [drivers EXCEPT ![<<k, t>>] = n]
  /\ UNCHANGED <<org, staff, rule, cost, revenue, allocation, screen, rewritten>>

\* The drivers of a rule and all its results go with it.
allocation_rule_delete ==
  /\ Edit
  /\ \E k \in Rule :
       /\ There(rule[k])
       /\ rule' = [rule EXCEPT ![k] = Gone]
       /\ drivers' = [x \in DOMAIN drivers |-> IF x[1] = k THEN 0 ELSE drivers[x]]
       /\ run' = [r \in Run |-> IF r \in RunsOf(k)
                                 THEN [run[r] EXCEPT !.results = NoResults] ELSE run[r]]
  /\ UNCHANGED <<org, staff, cost, revenue, posted, screen, rewritten>>

----------------------------------------------------------------------------
(* Runs.                                                                   *)

simulate_allocation(r) ==
  /\ run[r] = New
  /\ \E k \in Rule :
       /\ There(rule[k]) /\ rule[k].is_active
       /\ LET driver == _driver_values(k)
              source == _source_amount(rule[k])
          IN run' = [run EXCEPT ![r] =
                [st |-> "SIMULATED", rule |-> k, source |-> rule[k].source_department,
                 then |-> cost[rule[k].source_department],
                 negative |-> \E t \in DOMAIN driver : driver[t] < 0,
                 total_amount |-> source, results |-> Allocate(source, driver)]]
  /\ UNCHANGED <<org, staff, rule, drivers, cost, revenue, posted, screen, rewritten, edits>>

\* What the results of a run come to.
Allocated(res) == SumFunction([t \in DOMAIN res |-> res[t].amount])

\* Where the entry for a target is posted, None if the target is gone.
PostedTo(t) ==
  CASE t \in Project    -> IF There(project[t]) THEN project[t].department ELSE None
    [] t \in Department -> IF There(department[t]) THEN t ELSE None
    [] t \in Employee   -> IF There(employee[t]) THEN employee[t].department ELSE None

\* For commit_allocation: the offset is what was to be allocated, not what was.
FaultyCommit(r) ==
  LET res    == run[r].results
      offset == [run |-> r, of |-> None, amount |-> - run[r].total_amount,
                 department |-> rule[run[r].rule].source_department]
  IN
  /\ run[r].st = "SIMULATED"
  /\ run' = [run EXCEPT ![r].st = "COMMITTED"]
  /\ posted' = posted
       \cup {[run |-> r, of |-> t, department |-> PostedTo(t), amount |-> res[t].amount] :
              t \in DOMAIN res}
       \cup (IF DOMAIN res # {} THEN {offset} ELSE {})
  /\ UNCHANGED <<org, staff, rule, drivers, cost, revenue, screen, rewritten, edits>>

\* An entry for each result, as it was simulated, and one that takes their total from the
\* department the rule has now.
commit_allocation(r) ==
  LET res   == run[r].results
      total == Allocated(res)
      offset == [run |-> r, of |-> None, amount |-> - total,
                 department |-> rule[run[r].rule].source_department]
  IN
  /\ run[r].st = "SIMULATED"
  /\ run' = [run EXCEPT ![r].st = "COMMITTED"]
  /\ posted' = posted
       \cup {[run |-> r, of |-> t, department |-> PostedTo(t), amount |-> res[t].amount] :
              t \in DOMAIN res}
       \cup (IF total > 0 THEN {offset} ELSE {})
  /\ UNCHANGED <<org, staff, rule, drivers, cost, revenue, screen, rewritten, edits>>

\* For reverse_allocation: the offset is forgotten.
FaultyReverse(r) ==
  /\ run[r].st = "COMMITTED"
  /\ run' = [run EXCEPT ![r].st = "REVERSED"]
  /\ posted' = {x \in posted : x.run # r \/ x.of \notin DOMAIN run[r].results}
  /\ UNCHANGED <<org, staff, rule, drivers, cost, revenue, screen, rewritten, edits>>

\* The entries of its results are deleted, and its offset.
reverse_allocation(r) ==
  /\ run[r].st = "COMMITTED"
  /\ run' = [run EXCEPT ![r].st = "REVERSED"]
  /\ posted' = {x \in posted : x.run # r \/ x.of \notin DOMAIN run[r].results \cup {None}}
  /\ UNCHANGED <<org, staff, rule, drivers, cost, revenue, screen, rewritten, edits>>

\* Refused for a run that is committed.
allocation_run_delete(r) ==
  /\ Exists(r) /\ run[r].st # "COMMITTED"
  /\ run' = [run EXCEPT ![r] = Gone]
  /\ UNCHANGED <<org, staff, rule, drivers, cost, revenue, posted, screen, rewritten, edits>>

----------------------------------------------------------------------------

Next ==
  \/ costing_division_create \/ costing_division_delete
  \/ costing_department_create \/ costing_department_delete
  \/ AdminEmployee \/ AdminEmployeeDelete \/ AdminAssignment
  \/ costing_project_create \/ SaveProject \/ SaveBudgets \/ RequestEnds \/ costing_project_delete
  \/ costing_ledger_create \/ costing_revenue_create
  \/ allocation_rule_create \/ AdminRule \/ AdminDriver \/ allocation_rule_delete
  \/ \E r \in Run : \/ simulate_allocation(r) \/ commit_allocation(r) \/ reverse_allocation(r)
                    \/ allocation_run_delete(r)

Spec == Init /\ [][Next]_vars

----------------------------------------------------------------------------
(* Properties.                                                             *)

\* A project has the budgets its own form was submitted with: all of them, unless it is still
\* getting them or its request was cut off after it had saved the project, and never others.
BudgetsFollow ==
  \A p \in Project : There(project[p]) =>
    /\ BudgetsOf(p, budgets) \subseteq submitted[p]
    /\ \/ p \in interrupted \/ (req.pc = "saved" /\ req.key = p)
       \/ BudgetsOf(p, budgets) = submitted[p]

Sum(P) == SumFunction([x \in P |-> x.amount])
PostedFor(r) == {x \in posted : x.run = r}

\* An allocation moves cost and makes none: what a committed run has posted comes to nothing in
\* all, also when shares were rounded and when targets or departments were deleted between
\* simulation and commit or since.  A reversal leaves nothing, unless the rule had been deleted.
TotalKept ==
  \A r \in Run : Exists(r) =>
    \/ Sum(PostedFor(r)) = 0 /\ (run[r].st = "REVERSED" => PostedFor(r) = {})
    \/ run[r].st = "REVERSED" /\ rule[run[r].rule] = Gone

\* The amounts of a run add up to its source but for the rounding, and no share is more than
\* the whole, provided that no driver value was negative.
SharesAddUp ==
  \A r \in Run : Exists(r) /\ ~ run[r].negative /\ DOMAIN run[r].results # {} =>
    LET res  == run[r].results
        off  == Allocated(res) - run[r].total_amount
        most == Slack(run[r].total_amount, Cardinality(DOMAIN res))
    IN /\ 2 * ShareUnit * off <= most /\ - 2 * ShareUnit * off <= most
       /\ \A t \in DOMAIN res : res[t].share <= ShareUnit

\* A department is not relieved of more cost than it has, but for the rounding, as long as its
\* cost is what it was at the simulation or more, no other run was committed against it, no
\* driver value was negative, and its rule kept it and still exists.
SourceCovered ==
  \A x \in posted :
    LET d == x.department
        r == run[x.run]
    IN /\ x.of = None /\ d # None
       /\ ~ \E y \in posted : y # x /\ y.of = None /\ y.department = d
       /\ ~ r.negative /\ cost[d] >= r.then
       /\ x.run \notin rewritten /\ There(rule[r.rule])
       => 2 * ShareUnit * (cost[d] + Sum({y \in posted : y.department = d}))
            >= - Slack(r.total_amount, Cardinality(DOMAIN r.results))

\* A department is relieved only of cost that was summed over it: an offset belongs to a run
\* that is committed, and it stands in the department the run was simulated for as long as
\* there is one, unless the rule was given another department at some time since the simulation.
RelievedWasSource ==
  \A x \in posted : x.amount < 0 =>
    LET r == x.run IN
    /\ Exists(r) /\ run[r].st = "COMMITTED"
    /\ \/ r \in rewritten \/ x.department = run[r].source
       \/ x.department = None /\ department[run[r].source] = Gone

=============================================================================
