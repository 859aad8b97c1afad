# Formal models of the financial IT portal

TLA+ specifications, TLC configurations and TLAPS proofs for the Django portal in
this repository (evaluation, costing, interfaces). Paths below are relative to
`src/`; `evaluation/` stands for `src/apps/evaluation/` and `interfaces/` for
`src/apps/interfaces/`.

The first part is the inventory of the system, the second the plan, the third
documents what is modelled, checked and proved now.

## 1. Inventory

### How the program runs

`docker-compose.yml` starts gunicorn with three worker processes, one Celery
worker with several processes, Celery beat, PostgreSQL 15 and Redis.
`portal/settings.py:121-138` sets neither `ATOMIC_REQUESTS` nor an isolation level:
each statement of a view commits at once, the services marked
`@transaction.atomic` are transactions under READ COMMITTED, and no code takes a
lock (`select_for_update` is used nowhere). So every *read, decide, write* of
this code can be interleaved with those of other processes. That is the theme of
these models.

### Components

| Component | State | Operations | Hard behaviour | Correct when |
|---|---|---|---|---|
| Ledgers and fiscal periods (`evaluation/models.py` 9-48, 275-398; `costing.py` 415-465; views, admin) | `FiscalPeriod`, `CostEntry`, `RevenueEntry` | create, edit, delete rows; bulk delete; close, reopen | guard and write are separate statements; objects held in memory grow stale; unguarded paths | what enters a period was cleared while it was open; requests in flight at the closing run out; flag and stamp agree |
| Allocation runs (`costing.py` 279-412; `views.py` 955-1076) | `AllocationRule`, `AllocationRun`, `AllocationResult`, the ALLOCATION rows of the ledger | simulate, commit, reverse, delete a run, delete a rule | status checked on a stale object; CASCADE and SET_NULL; two transactions on one run | the ledger shows a committed run once, and nothing of any other; no cost is lost |
| Allocation amounts (`costing.py` 138-276, 302-315) | none (pure) | source total, targets, drivers, shares | negative drivers, rounding, the same source allocated by two runs | shares within 0..1, the total preserved |
| Salary allocation (`costing.py` 66-133; `tasks.py` 17-35) | SALARY rows of the ledger, assignments | monthly run from screen, beat task, command line; reset | two runs at once; the skip test's key | one row per assignment and month |
| Organisation master (`models.py` 51-272; `views.py` 460-760; `forms.py`; admin) | divisions, departments, employees, projects, budgets, assignments | create, edit, delete | CASCADE where a refusal is expected; a save in several statements | what a division holds goes only when it is meant to; a project gets its budgets |
| Portfolios and products (`views.py` 30-250, `forms.py` 1-210, admin) | `Portfolio`, `FinancialProduct`, its `metrics_json` | create, edit, delete | the form takes `metrics_json` apart and assembles it again; the admin writes anything; a late edit inserts a deleted row again | an edit changes what was edited and nothing else |
| Market data (`tasks.py` 38-67) | `PriceHistory` | daily refresh | overlapping or half-done refreshes, rows deleted, moved and brought back meanwhile | each product advanced once a day, by somebody |
| Valuation (`metrics.py`, `stress.py`) | none | NPV, IRR, duration, VaR, shocks | edge cases of numbers; missing keys | the figures fit each other |
| Interface registry (`interfaces/models.py`, `forms.py`, `views.py`) | `Interface`, its `config_json` | create, edit, delete, toggle | form and adapters use different keys; an edit drops keys; the admin page validates nothing | what is configured is what is called |
| Interface scheduling (`interfaces/tasks.py`) | Celery queue, `is_active` | dispatch each minute, run | late or repeated dispatch, toggles in between | an active interface that is due is executed, one switched off is not |
| Interface adapters (`interfaces/protocols/`) | external systems, `InterfaceLog` | execute with retries, five protocols | repeated side effects, time limits that undercut each other | one log per call, no effect twice |
| Retry of failures (`interfaces/views.py` 169-218) | `InterfaceLog` | retry one, retry many | window of 100, failure in the middle | every failed interface is retried once |
| Monitoring, dashboard, layout | none | read-only pages | none | |

### Interactions

* Views, the Celery tasks and the management command call the services of
  `costing.py`; those read and write the ledgers through `CostEntry.save` and
  `delete`, which consult `FiscalPeriod` by `_ensure_period_writable`.
* `reverse_allocation` and the salary reset also delete with `QuerySet.delete()`,
  which consults nothing; the admin list action does the same.
* `AllocationResult.cost_entry` (SET_NULL) links a result to its ledger row; a
  run's and a rule's results follow them by CASCADE (`models.py:502-509`); an
  offset is found by its text reference `alloc-run<id>-offset` only.
* Beat triggers `dispatch_interfaces` each minute, which queues `run_interface`,
  which calls an adapter, which writes an `InterfaceLog`.

The hazards, each at its line with the properties that watch it, are in
`PROJECT.json`.

## 2. Plan

In order of importance; all of it is done.

| Module | Role |
|---|---|
| `PermitLedger` | abstract: what closing a period promises |
| `PeriodLedger`, `PeriodLedgerProofs` | ledgers, guards, closing; refines `PermitLedger` |
| `AllocationRuns`, `AllocationRunsProofs` | life of an allocation run against the ledger |
| `SalaryAllocation`, `SalaryAllocationProofs` | overlapping salary allocations, reset and the skip test |
| `AllocationMath`, `CostAllocation`, `CostAllocationProofs` | amounts of an allocation, on an organisation that changes beneath it |
| `InterfaceConfig`, `AdapterCall`, `AdapterCallProofs` | what the form configures, and what a call makes of it when systems fail |
| `InterfaceConfig`, `InterfaceDispatch`, `InterfaceDispatchProofs` | beat, queue, screens; what starts, stops and repeats executions |
| `Fractions`, `Valuation`, `MarketData`, `MarketDataProofs` | products, their figures, the daily refresh |
| `NumberLemmas` | sums over finite sets, recursive functions, powers and fractions, for the proofs about amounts, messages and figures |

Each machine has an `MC` module with the inputs of its runs. `CostAllocation` extends
`AllocationMath`, `AdapterCall` and `InterfaceDispatch` extend `InterfaceConfig`,
`MarketData` extends `Valuation`, and that `Fractions`: the algorithms are evaluated in the states of the
machine that uses them, on the data its screens can leave behind.

There is one passing run per machine, and five violation runs, each for a disagreement of code
and documentation that a model exhibits; smaller ones are remarked on where their step is
described. An abstract book of allocation runs
was planned and left out: that a run is posted exactly once or not at all is
`ExactUnlessDisturbed`, and in which order is `WorkflowUnlessClash`; the abstract machine
would say the two again. Every safety property a passing run checks is proved; nothing
but liveness is left open (3.8).

## 3. The models

### 3.1 PeriodLedger

`fiscal` is the `FiscalPeriod` table (does the record exist, `is_closed`, is
`closed_at` set), `cost` and `revenue` give for each primary key the period its row
carries, or that it has none yet (`Unborn`) or was deleted (`Gone`). `req` is the
request each worker serves; `txn` the rows an open transaction has inserted and
deleted.

A request takes these steps, each what PostgreSQL executes between two points
where another process can come in:

| Code | Steps |
|---|---|
| `costing_ledger_create`, `CostEntry.save` | `costing_ledger_create`, `_ensure_period_writable`, `InsertCost` |
| `costing_revenue_create`, `RevenueEntry.save` | `costing_revenue_create`, `_ensure_period_writable`, `InsertRevenue` |
| admin change page of a cost entry | `LoadCost`, `RefuseEdit` (`ImmutableEntryError`) |
| admin deletion of a cost entry | `LoadCost`, `_ensure_period_writable`, `DeleteCost` |
| `costing_revenue_delete` | `costing_revenue_delete`, `_ensure_period_writable`, `DeleteRevenue` |
| admin change page of a revenue entry | `LoadRevenueEdit`, `_ensure_period_writable`, `SaveRevenue` |
| salary allocation, allocation commit and reversal | `StartBatch`, `_ensure_period_writable`, any `BatchPut` and `BatchCut`, `BatchCommit` |
| `close_period`, `reopen_period` | read (`close_period`, `reopen_period`), then `SaveClosed`, `SaveReopened` of the whole record |
| admin `delete_selected` | `BulkDelete`, no guard |
| a guard that finds the period closed | `PeriodClosedError`; in a batch at each row it saves |
| a worker killed, a time limit | `WorkerDies`: an open transaction is rolled back |

Which rows a batch inserts and deletes is open here: any of its period. That
contains what the three services do, and the properties are about which period a
row is in.

Properties (`PeriodLedger.cfg`, two requests, two periods, two cost keys, one
revenue key, 366,512 states):

* `ClosedStampAgrees`: closing and reopening may overlap in any way, the flag and
  the stamp still agree, because each save writes the record whole.
* `CostDeleteGuardsTruePeriod`: the deletion of a cost entry is guarded by the
  period the stored row really has, however old the object in memory; that rests
  on the immutability of cost entries.
* `ClosedGainsDrain`: in a period that stays closed the set of requests past the
  guard only shrinks, and a row enters only as one of them finishes.
* `DrainsAfterClose` (liveness): if a period stays closed, that set becomes and
  stays empty.
* `ImplementsPermitLedger`: the code implements `PermitLedger`, in which rows enter
  a period on a permit, permits are granted while the period is open and used once.

`PeriodLedgerRace.cfg` shows `ClosedPeriodGainsNoCost` violated, against `README.md:55` and
`models.py:21`, which say that a closed period blocks new rows: a request past its guard
inserts into a period closed meanwhile.

`README.md:213` also says that a closed period blocks writes of revenue rows. `SaveRevenue`
asks for the new period only (`models.py:391`), so one request suffices to move a row out of a
closed one; `PermitLedger` lets rows leave.

Bounds. Every property speaks of one period and one row, or of one worker; a race
is between two requests, so two of each give every kind of overlap, and two
periods are needed for a row to move. Keys are used once (a deleted key is never
drawn again), which bounds the runs. No state constraint is needed.

Fairness. `FairSpec` assumes weak fairness of `Proceed(w)`: a worker serving a
request goes on with it until it answers or dies. A gunicorn worker runs one
request at a time without waiting for any other (nothing in the modelled code
waits on another request), so while it lives its next step stays enabled and it is
taken. No fairness is assumed of arrivals, of closing or reopening or of deaths.
A batch that adds and removes rows for ever is no concern: rows are finite.

### 3.2 AllocationRuns

`run`, `results`, `rules` and `closed` are the tables; `entries` and `offsets` the
ledger rows that commits have made. An entry is named by the posting (the number
of the commit) and the result it was made for, a result's `link` is that number or
0 (NULL). An offset remembers the entries its amount was summed from: in the code
that is only a sum, and the model needs to know of what. `req` is what each worker
has read so far. `clash` and `cascaded` are history variables for the properties:
runs that two requests were ever busy with at once, and runs that lost results
with their rule. No guard reads them.

A request reads the run (`LoadRun`: the status it sees from then on), passes or
fails the status and period checks on that object (`Begin`, `Refuse`), and then
performs the loop, the offset and the status as one step (`commit_allocation`,
`reverse_allocation`). One step is right for a transaction here because: its
inserted rows are invisible until it commits; two transactions that update the
same result are put in order by the row lock of the first UPDATE, which comes
before anything else they share; and it fails as a whole (`Rollback`) when
`save(update_fields=...)` meets a row that is gone. What it has *read* before is
kept as `snap`, and may be stale. The one read that comes late is the reversal's
search for offsets; when the reversal had to update a result it happens after any
wait for the row, and finds all offsets there are; when it had nothing to unlink it may
have happened any time since the transaction began (`since`). Deletion checks the
status in memory, then deletes (`allocation_run_delete`).

Amounts are any of a small set with 0 in it (a share can round to 0, and the
offset is made for a positive total only).

Properties (`AllocationRuns.cfg`: one run, one rule that may be deleted, two
targets, amounts 0 and 3, three requests; 230,926 states up to symmetry):

* `ExactUnlessDisturbed`: a committed run has one entry for each result, linked
  from it, and one offset for exactly those; any other run has nothing in the
  ledger; for every run no two requests were busy with at once and whose rule
  was not deleted. Closings, rollbacks and refusals are all within it.
* `PostedOncePerRequest`: however commits and reversals overlap and follow each other, a
  run stands in the ledger at most once for every request that can be in progress. A
  double commit can happen; what bounds it is that nobody who reads the run after the
  first commit is let in, and that a reversal leaves the run REVERSED, not SIMULATED
  (the mutant reopens it).
* `OffsetsBacked`: under any overlap, an offset stands only as long as all its
  entries do. So what goes wrong below counts a cost twice and never loses one.
* `WorkflowUnlessClash`: the status follows SIMULATED, COMMITTED, REVERSED and
  committed runs are not deleted, unless two requests were busy with the run.

Two runs show `ReversedLeavesNothing` violated, against `costing.py:397` and
`README.md:239` ("all CostEntry rows made are deleted"):

* `AllocationDoubleCommit.cfg`: two overlapping commits post twice, the reversal
  deletes the second set of entries and both offsets; the first set stays.
* `AllocationRuleDelete.cfg`: one request at a time; the rule of a committed run is
  deleted, which the view expects to be refused (`views.py:979`) and the schema
  performs (`models.py:503`); the reversal then finds nothing to delete but the offset.

Bounds. Three requests are two that overlap and a third that meets what they left
(a reversal after a double commit, a deletion during it). `MaxPostings` bounds the
commits that write; it is six and never reached, so no request is kept from overlapping
by the bound. One run is enough for the properties,
each of which is about one run's rows; the theorems hold for any number. Two
targets let a snapshot be partly stale. Symmetry is over targets and requests,
which no definition tells apart; no liveness is checked under it.

### 3.3 SalaryAllocation

The rows of one month. A row is named by the allocation that made it (numbered as
they start) and the assignment it was made for; its *job*, the project and employee
of that assignment, is what the skip test goes by. `payable` holds the assignments
that pass all the filters of the loop at present (active in the month, of an active
employee, of a positive amount). `req` is the transaction of each worker. `overlap`
and `byHand` are history variables; no guard reads them.

Here the statements of the transaction are steps of their own, because what each of
them sees is the question: under READ COMMITTED a statement sees what is committed
when it runs and what its own transaction did (`Visible`).

| Code (`costing.py`) | Step |
|---|---|
| 78, the period guard, and the start of the transaction | `allocate_monthly_salary` |
| 85, `QuerySet.delete()` reads the rows, as they are the target of foreign keys | `ListRows` |
| 85, and deletes those still there, after waiting for any other deletion of them | `DeleteRows` |
| 87-102, the query of the loop, run once | `ReadAssignments` |
| 103-111, `exists()` and the skip | `Check` |
| 112-126, `create`, whose `save` asks for the period again | `Create` |
| the end of the `atomic` block | `Commit` |
| an exception, a time limit, a deadlock, the end of the worker | `Rollback` |

Meanwhile rows are deleted in the admin (`DeleteEntry`), assignments and employees
change (`Staff`), and the period is closed and reopened (`CloseOrReopen`). An
assignment that is given another project or employee counts as another assignment.

Properties (`SalaryAllocation.cfg`: three workers, three allocations, two assignments
of one job; 681,320 states up to symmetry):

* `DuplicatesOverlapped`: two rows of one job come from two allocations that were in
  progress at once. One after the other, with or without reset, they make none.
* `NothingLostByReset`: a job that has a row keeps one, unless a row of it was deleted
  by hand or a reset commits that did not find it payable. This is where an overlap
  could do harm unseen: an allocation may skip a job because of a row that another
  is about to delete, and a reset may delete rows that another has just remade.

`SalaryDuplicate.cfg` shows `OneRowPerJob` violated, against `costing.py:72` ("if the
same one exists already, skip"): two allocations both find no row and both insert one.

Bounds. A duplicate takes two allocations; a third one resets what they left, or
overlaps with both. `MaxAllocations` is as many as there are workers, so that all can
overlap. Two assignments of one job are enough for the skip test to meet a row of the
same and of another assignment; the properties are about one job each. Symmetry is
over workers.

### 3.4 CostAllocation, AllocationMath

The organisation (`division`, `department`, `employee`, `project`, `budgets`,
`assignment`), the rules with their drivers, the ledgers summed by department and
project, and the runs with what they have posted. One accounting period and one cost
category; an assignment has its percentage, any integer (`models.py:523` asks for no more),
or is not there, and one of 0 counts as a head; a run is simulated, committed, reversed and deleted in single steps, since
overlapping requests are `AllocationRuns` and closing is `PeriodLedger`. A project is
saved in several steps, as the code has no transaction there.

| Code | Definitions |
|---|---|
| `_source_amount`, `_targets`, `_driver_values` (`costing.py` 138-276) | `_source_amount`, `_targets`, `DriverValue`, `_driver_values` |
| the loop of `simulate_allocation` (286-322) | `Allocate`, `Share`, `Amount`, `quantize` of `AllocationMath`; `simulate_allocation` |
| `commit_allocation`, `reverse_allocation` (327-412) | the same names, with `PostedTo` for the dimensions of an entry, `Allocated` for the sum the offset takes |
| screens of divisions, departments, projects, entries, rules (`views.py` 460-1076) | the names of the views; `ProjectFormValid` is the form and its formset |
| `costing_project_create`, stage confirm | `costing_project_create`, `SaveProject`, `SaveBudgets`, cut off by `RequestEnds` |
| admin pages of employees, assignments, rules, drivers | `AdminEmployee`, `AdminEmployeeDelete`, `AdminAssignment`, `AdminRule`, `AdminDriver` |
| PROTECT, CASCADE, SET_NULL of `models.py` | the guards and assignments of `DeleteDepartments` and the deletions, `Unset` |

`rewritten` (runs whose rule got another source department since), `submitted` (the
budgets of the form a project was saved from) and `interrupted` (projects whose request was
cut off) are history variables. A run also remembers the
source department, its cost, and whether a driver value was negative when it was
simulated; no guard reads these.

Properties (`CostAllocation.cfg`, 1,281,638 states):

* `BudgetsFollow`: a project has the budgets its own form was submitted with: all of them,
  unless its request is still saving them or was cut off, and never one of another form. A
  project that was cut off can be completed in the admin only: the screen refuses its code
  as a duplicate.
* `TotalKept`: what a committed run has posted comes to nothing, rounding and
  deletions included; a reversal leaves nothing unless the rule was deleted.
* `SharesAddUp`: the amounts add up to the source but for half a unit a result and half
  a part of the source a share, and no share is more than the whole, provided no
  driver value was negative. A negative one shrinks the total while its target is
  skipped, and shares above 1 follow, against the range in `models.py:507`.
* `SourceCovered`: a department is not relieved of more cost than it has, but for
  rounding. The conditions are what the code leaves open: the cost has shrunk since
  the simulation, another run was committed against the department (`_source_amount`
  leaves offsets out), a driver was negative, the rule was changed or deleted.
* `RelievedWasSource`: an offset belongs to a committed run and stands in the department
  the run was simulated for, unless the rule was given another one in between. When
  that department is deleted, SET_NULL makes the rule one over the whole company.

A division goes with its departments (`models.py:79` is CASCADE), and only a project or a
transfer (not modelled) protects it, though the message of `views.py:672` speaks of departments too. That is in
`costing_division_delete`; no property takes sides.

`CostAssumption` keeps the key sets apart, pairwise: targets of different dimensions are
told apart by their set. `InputAssumption` says of the tables at the start what the
database enforces (types, foreign keys). What the projects at the start have of budgets
counts as submitted.

Bounds. Two of everything but rules give a target to keep and one to lose, a department
in another division, two runs of one rule. Two edits are one before or after the
simulation and one after, in either order with two runs. The start states hold every
driver type with a target dimension of its own. A share has ten parts, not 10^6, so that
rounding shows already in sums of 7. Keys are used once.

### 3.5 AdapterCall, InterfaceConfig

`InterfaceConfig` is the form of an interface: which fields it accepts (`Valid`), the
configuration it assembles (`_build_config`), the fields it fills in from a stored one
(`_hydrate_from_config`), and cron expressions (`validate_cron`). A configuration is the
set of its keys (those below `auth` among them, `auth.token`, `auth.pass`) with `auth.type`
and `live`, a form the set of its fields that are
filled in: a value is carried over as it is or not at all, and which key it is carried
over *to* is the question.

`AdapterCall` has one interface, the calls of it that workers execute, and the queue of
messages an MQ call reads. What a remote system does is chosen freely: it answers,
refuses, or takes effect without the caller learning of it.

| Code | Actions |
|---|---|
| `InterfaceForm.save`; the edit screen submitted as shown; the admin page | `SubmitForm`, `Resubmit`, `AdminSave` |
| `execute_interface` (`protocols/__init__.py`) | `StartCall` |
| `_dispatch_once` (`base.py`): mock, not ready, live | `_dispatch_once`, with `_is_live`, `LibraryMissing`, `Ready` |
| `execute`, its retries and pauses (`base.py` 48-75) | `After`, `Retry` |
| `RestAdapter`, `SoapAdapter`, `BatchAdapter` | `RestExecuteLive`, `SoapExecuteLive`, `BatchExecuteLive` (`Answered`) |
| `MqAdapter` | `MqConnect`, `MqGet`, `MqAck`, `MqClose` |
| `SftpAdapter` | `SftpConnect`, `SftpMove` |
| `InterfaceLog.objects.create` | `WriteLog` |
| time limits of Celery, timeout of gunicorn | `SoftLimit`, `HardLimit`, `WebTimeout` |

A soft limit raises an exception, which within an adapter `except Exception` takes for
one more failure of the attempt, to be retried until the hard limit kills the process,
without a log. Outside an adapter nothing catches it.

The credentials a call carries, `sent`, are what each adapter takes from the configuration:
`RestAuth`, `SoapAuth`, `SftpAuth`. A publication is not confirmed by the broker: one that
raised nothing may have reached no queue, or another one by a configured exchange
(`MqConnect`).

Properties (`AdapterCall.cfg`, 737,549 states):

* `FormRoundTrip`: what the form made it shows, accepts and makes again.
* `MessagesConserved`: each message is waiting, held by a call, or acknowledged, once: the
  three counts, the second summed over the workers (`Held`), come to what was put.
* `SuccessIsComplete`: a live transfer logged as a success has moved every file in the
  attempt it reports, a live reception has acknowledged every message it reports. It
  claims nothing of publications, which nobody confirms, nor of requests and scripts.
* `RepeatsBounded`: at most one effect for each attempt. That it can be more than one is
  how the code is: a publication whose connection fails to close, and a script or
  request that takes effect and times out, are repeated.
* `CallsEnd` (liveness): every call ends, though SOAP operations and SFTP sessions have
  no timeout of their own.

`AdapterCredentials.cfg` shows `CredentialsReach` violated, against `README.md:16-17` and
`forms.py:78`: the form stores an API key as `auth.token`, a basic password as `auth.pass`
and SOAP credentials under `ws-security`; the adapters read `auth.key`, `auth.password`
and, for SOAP, `basic` only. A call from the form carries a bearer token and a basic user,
and nothing else it was given. (An interface of the form also never connects live by SFTP,
as the form has no field for a password or a key; `SftpReady` refuses it.)

Bounds. One Celery process and one web worker, two calls that may overlap on the queue,
one edit while they run, one retry (a second attempt after a first shows what is kept
from it), two messages and two files (a failure between two). The inputs hold every
protocol and authentication, forms that are refused, and admin configurations the
form cannot write. `CHECK_DEADLOCK` is off, as the calls are counted.

Fairness. Weak fairness of `Limit(w)` alone: time passes. Nothing is assumed of the
systems, nor that a worker goes on.

### 3.6 InterfaceDispatch

`itf` is the `Interface` table, `beat` the dispatches sent and not begun, `queue` the
calls of `run_interface` waiting, `logs` the `InterfaceLog` table, `req` what each
process is busy with. An execution takes time and succeeds or fails.

| Code | Actions |
|---|---|
| beat each minute; `dispatch_interfaces`; its `delay` calls | `Tick`; `dispatch_interfaces`; `Delay` |
| `run_interface`, `cleanup_old_logs` | `run_interface`, `ExecuteEnds`; `cleanup_old_logs` |
| `interface_create`, `interface_delete` | the same |
| `interface_update`, reading and saving | `interface_update`, `SaveEdit` |
| `InterfaceAdmin`, with any schedule on any protocol | the same four, with the rows of `AdminRow` beside those of `FormRow` |
| `InterfaceLogAdmin` | `InterfaceLogAdmin` |
| `interface_toggle`, reading and saving one column | `interface_toggle`, `SaveToggle` |
| `interface_run`, `log_retry` | the same, then `ExecuteEnds` |
| `log_retry_bulk`: window or selection, merging, the loop | `log_retry_bulk` (`Originals`, `Targets`), `BulkNext` |
| a process killed | `WorkerDies` |

A filtered queryset is `Keep`, the elements of a sequence at some positions in their order,
and a slice of one is `Newest`; both are defined without recursion, so that they can be
reasoned about.

Properties (`InterfaceDispatch.cfg`, 242,256 states):

* `ToggleUndoesNothing`: a toggle that read the interface earlier leaves an edit and a
  deletion made since alone. Two toggles at once may still count as one.
* `BulkMerges`: a bulk retry executes no interface twice.
* `OffDrains` (liveness): after an interface is switched off or deleted for good, its
  queued calls run out and it is not executed on schedule any more.
* `DueIsExecuted` (liveness): an interface due every minute is executed again and again,
  however late dispatches run. A single minute may be missed or counted twice: the
  clock is read when the dispatch runs. A schedule of the admin page that nobody can read
  matches no minute, and does not keep the others from being dispatched.

An edit saved after a deletion brings the interface back, without logs, and the edit wins
over a toggle since; and an interface deleted during the loop of a bulk retry makes the writing
of its log raise, so that those after it are not retried (`views.py:212`). Both are in the model
and no property forbids them.

Bounds. One interface with a schedule and one without, one Celery process (so that
everything queues for it: an execution or a dispatch keeps the others waiting) and one web
worker, an hour of two minutes, one dispatch and one call of each interface in the queue
(more of the same change nothing a property speaks of), two logs with a window of one
(something is beyond it). A schedule is every minute; one the form refuses, which has a
number out of range; or one nobody can read, which the admin page stores all
the same. An interface ceases to be due when an edit takes its schedule away or gives it one of the
last kind, and when it is switched off or deleted.

Fairness. `Tick`: time passes. `Proceed(w)`: a process goes on with what it has begun;
that an execution ends is `CallsEnd`. Strong fairness of taking a task: Redis is one
first-in first-out list, so a waiting task is reached in the end although the
process is now and then busy with others. Deaths are not bounded; `DueIsExecuted` is
about the case that processes stop dying with interfaces not yet sent.

### 3.7 MarketData, Valuation

`Valuation` has the product form (`Accepted`, `clean`, `Shown`), the figures of
`metrics.py` (`npv`, `irr`, `bond_price`, `macaulay_duration`, `convexity`, `compute`,
`aggregate`) and the scenarios of `stress.py` (`_apply_shocks`, `run_scenario`, `run_all`).
Floating point is exact fractions in lowest terms (`Fractions`); a rate is a number of
parts of `RateBase`, and a maturity a number of half years, since `int(maturity * freq)` cuts.

`MarketData` has the tables `portfolio`, `product`, `prices` (product and date; the
price itself is random), the row each web worker has read for an edit (`form`), and the
refreshes the Celery processes are at. An edit is two steps: `get_object_or_404` reads the
row, `save` writes it whole, by an UPDATE or, when the row is gone, an INSERT under the old
key. A product that comes back that way has lost its prices, and no refresh gives it one.

| Code | Actions |
|---|---|
| `views.py` 77-275, `FinancialProductForm` | `portfolio_create`, `portfolio_delete`, `product_create`, `product_delete`; `LoadPortfolio`, `portfolio_update`; `LoadProduct`, `product_update`; `AbandonEdit` |
| admin page of products | `AdminProduct`; `LoadProduct`, `AdminProductEdit` |
| admin page of prices, of any date | `AdminPrice`, `AdminPriceEdit`, `AdminPriceDelete` |
| `refresh_market_data`: date and list; latest price and skip; create; end | `StartRefresh`; `VisitProduct`; `CreatePrice`; `EndRefresh` |
| a process killed or at its limit; midnight | `WorkerDies`; `NextDay` |

Properties (`MarketData.cfg`, 240,099 states up to symmetry):

* `FormKeepsProduct`: a product of the form is stored unchanged when its edit screen is
  submitted as shown; one of the admin keeps its worth. Its risk may change: without a
  leverage the form stores 1 where `metrics.py:188` counts 3, and a zero volatility or
  discount rate becomes the default.
* `DayCompleted`: a refresh that comes to its end has advanced all it had to, whatever came
  between: each product that had a price when it started and that no deletion or edit of a
  price, and no deletion of the product, took one from since. A product that was deleted and
  inserted again by a late edit is not among them.
* `OneFinishes`: overlapping refreshes collide on the unique product and date, and the
  later one stops there; they never all stop.
* `StressAddsUp`: in every portfolio the crisis moves each product as its own shock does, a
  rise of the rates raises no bond, or project without negative flows, a fall lowers none, the deeper fall of
  prices leaves no stock more, a volatility shock moves no value and multiplies the VaR.
* `MeasuresSound`, in three parts.
  `FiguresSound`: a bond is worth the npv of the flows its page lists, stands at par exactly
  when its coupon is its yield, and its convexity is at least D(D + 1) / (1 + y)^2 for the
  duration D; the position of the price history is the value of the page.
  `TotalsSound`: fewer products are over the limit than fit in a hundred per cent, and the
  average duration is at most the longest maturity.
  `IrrBrackets`: the bisection ends with a bracket as narrow as its iterations make it, over
  which the npv changes sign if it does over the whole.

The last two are about ordinary products (`Ordinary`: no negative amounts, rates
above -100 per cent also after a fall; the flows of a project may have any sign). The forms
bound the shares only (`forms.py:49`) and the admin page nothing, so a product may be
otherwise; then the figures need not fit. That the crisis is its parts and a volatility shock
moves no value holds, and is stated, of every product.

Bounds. Two portfolios (a product can move), two products (a refresh can stop between them),
two Celery processes and two refreshes that overlap on one of two days or follow each other,
one web worker and two edits: enough to delete a product under an edit and insert it again,
beside a refresh. `Start` has two parts. In one the refreshes of day 1 are over, and a portfolio
holds each kind of product, with missing keys, zeros, a par of zero or flows of changing sign,
beside a stock, a bond, a project or nothing: the figures are looked at there, which no
refresh changes. In the other one or two products have a price each and the refreshes are
still to come; they go by prices and dates, whatever the kind. Symmetry is over the Celery
processes, which no definition tells apart; no liveness is checked under it.
`ghosts` are history variables. What the tables hold of the form at the start it would
store again as it is (`Rewritten`), as holds of whatever it stores.

### 3.8 Proofs

All theorems are for every value of the constants, under the assumptions stated in
the modules (`RowAssumption`, `RunAssumption`, `AssignmentAssumption`, `CostAssumption`: the tables'
key sets are disjoint and the special values are none of their members;
`RateAssumption`, `DefaultAssumption`: rates are counted in parts, the defaults are positive;
`MarketAssumption`, `AdapterAssumption`, `DispatchAssumption`, `InputAssumption`: what is
submitted and what the tables hold at first is of the right types, is consistent where the
database or the form makes it so, and bounds are natural numbers). There is no assumption on
the number of requests, periods, rows, runs, targets, assignments, allocations, products,
refreshes, calls, messages, files or retries, but that a table has finitely many products
(their totals are sums).

`PeriodLedgerProofs`:

| Theorem | Property | Argument |
|---|---|---|
| `TypeCorrect` | `TypeOK` | inductive by itself |
| `StampCorrect` | `ClosedStampAgrees` | inductive: every save writes both fields |
| `DeleteGuardsTruePeriod` | `CostDeleteGuardsTruePeriod` | inductive with `TypeOK`: a row that has a period never gets another one (`CostRowsOnlyEndOrBegin`), and a deletion starts from the row's own period |
| `GuardsImplementPermits` | `ImplementsPermitLedger` | step simulation: each action maps to an action of `PermitLedger` or a stutter (`StepRefines`) |
| `ClosedPeriodsDrain` | `ClosedGainsDrain` | from `TypeOK`, action by action |

`AllocationRunsProofs`:

| Theorem | Property | Argument |
|---|---|---|
| `TypeCorrect` | `TypeOK` | inductive by itself |
| `PostedOnce` | `PostedOncePerRequest` | needs `PostingsCounted`: a run not yet committed has no posting; afterwards its postings and the requests that read it as SIMULATED and may still commit it (`Committing`) are together no more than there are requests. A commit moves one from the second to the first; nobody joins the second, since the run never is SIMULATED again |
| `OffsetsAreBacked` | `OffsetsBacked` | needs `SnapOwn` and `OffsetsOwn` (requests and offsets stay within their run) and `OffsetsNumbered` (no offset is numbered ahead), so that a reversal which deletes any entry deletes every offset of its run |
| `WorkflowKept` | `WorkflowUnlessClash` | needs `BegunAllowed` (a begun transaction was allowed by the status it was shown) and `SoleRequest` (without a clash there is one request, and the status it was shown is the present one) |
| `ResultsUnique` | | one result for each target of a run; with it a target names a result within its run |
| `LedgerIsExact` | `ExactUnlessDisturbed` | needs `OffsetsNumbered`, `SoleRequest`, `ResultsUnique` and `SnapFresh`: the rows the sole request has read are the run's present rows; `CommitExact` and `ReverseExact` are the two steps that rewrite the ledger |

`ExactUnlessDisturbed` is not inductive alone: a state with an exact ledger and a
request whose snapshot is stale, or whose status is, has a step out of it. The
conjuncts above say what requests in progress know; each is preserved without the
ledger's own property.

`SalaryAllocationProofs`:

| Theorem | Property | Argument |
|---|---|---|
| `TypeCorrect` | `TypeOK` | with `CurKnown`: a request about to insert has an assignment |
| `DuplicatesComeFromOverlap` | `DuplicatesOverlapped` | needs `ClaimsOverlap`: beside a row that a request has inserted, or is about to, the table has rows of its job only from allocations it overlaps; `Check` establishes it, and when another allocation commits, `OverlapKnown` says that the two overlapped |
| `ResetsTakeTurns` | | one open transaction at most has rows deleted: of two lists the later contains what is left of the earlier (`ListsNested`, `ListsMeetGone`), so whoever deletes first makes the other wait until nothing of its list is left that the first has not deleted |
| `ResetsLoseNothing` | `NothingLostByReset` | needs `DoneKept`: a job dealt with has a row of the request's own or one it has not deleted; a commit of another cannot take the latter away, because of the two one has deleted nothing |

`MarketDataProofs`:

| Theorem | Property | Argument |
|---|---|---|
| `TypeCorrect` | `TypeOK` | inductive; `CleanDomain` says which names the form can store, for any input |
| `RefreshAdvances` | `DayCompleted` | needs `DayInv`: of the products a refresh had to advance, each is still to visit, about to be given a price, or settled, and what is settled stays so, because prices go only with their product or on their admin page, and of such a product nothing is expected any more (`Forget`); a late edit that saves a product, there or gone, touches no price |
| `OneRefreshFinishes` | `OneFinishes` | needs `OneInv`: of the refreshes of a day not spoiled one leads: it is about to look at a product or to insert a price that is not there yet, so it cannot collide, and when it ends the day is finished |
| `FormKeeping` | `FormKeepsProduct` | needs `FormInv`: a row the form wrote is one it accepts and would write again. `CleanStands`: `clean` is idempotent and accepts its own result, for any defaults, zero among them; `ShownSuffices`: the fields shown are all it looks at. For a row of the admin `CleanKeepsWorth`, from what the worth of each kind depends on (`StockWorth`, `BondWorth`, `DerivWorth`, `ProjectWorth`) |
| `StressHolds` | `StressAddsUp` | from `TypeOK`. Scenarios that agree on the rate and the price of a product leave rows that differ in a volatility only (`SameShock`), which no worth depends on (`SameWorth`). Flows none of which is negative, and only they, are worth no more at a higher rate: over a common denominator, year by year (`CheaperFlows`, `CheaperBond`, from `PowerMonotone`). A VaR is a sum, multiplied where each of its terms is (`StressMultiplied`) |
| `TotalsHold` | `TotalsSound`, a part of `MeasuresSound` | from `TypeOK` and the finiteness of a portfolio. All values are brought over one denominator (`FracSumIs`), where k products each over the limit sum to more than k limits (`WeightsFit`); an average is at most some upper bound of what it is of (`AverageFits`), and a duration at most the maturity, since no flow comes later (`DurationFits`) |
| `FiguresHold` | `FiguresSound`, a part of it | holds of any row: the sum of the coupons is a geometric progression (`GeometricIs`), so price minus par is a positive multiple of coupon minus yield; the npv of the listed flows has the same terms (`ListedFlows`); the convexity is an inequality of Cauchy and Schwarz on the years weighted by their flows |
| `IrrHolds` | `IrrBrackets`, the third part | the recursion of the bisection has a solution (`BisectionExists`), and of it the invariant of one step (`HalveIs`) is proved by induction (`BisectionKeeps`): within the ends, narrower by half, and a sign change that is kept |
| `MeasuresHold` | `MeasuresSound` | the three together |

`AdapterCallProofs`:

| Theorem | Property | Argument |
|---|---|---|
| `TypeCorrect` | `TypeOK` | part of `Inv`; the counts of messages stay natural because what is acknowledged was held |
| `FormKeepsConfig` | `FormRoundTrip` | `FormInv`: what the form wrote last is `_build_config` of some form it accepts; then `RoundTrip`, which rests on no two fields of a protocol having one key (`KeysDiffer`, `KeysApart`), so that exactly the kept fields are shown (`ShowsKept`), and on what is kept being kept again (`KeptAgain`) |
| `RepeatsAreBounded` | `RepeatsBounded` | `Bounded`: no more effects than attempts that are over, one for each; a soft limit ends the attempt it interrupts |
| `SuccessesAreComplete` | `SuccessIsComplete` | `Progress`: what an attempt has received it holds or has acknowledged; `Fits`: a call waits only for the system of its protocol |
| `MessagesAreConserved` | `MessagesConserved` | with `Inv`; each action either leaves what is ready, held and acknowledged alone or moves some between two of them (`Moves`, one lemma an action), and the sum over the workers changes by the one call that moved (`SumRemove`) |

`CostAllocationProofs`:

| Theorem | Property | Argument |
|---|---|---|
| `TypeCorrect` | `TypeOK` | with `RulesOfRuns`: the rule of a run was there when it was simulated, and when it goes so do the results. `ShareTyped`, `AmountTyped`, `DriverTyped`: what the pure functions return for any organisation, any drivers and any share unit |
| `SharesHold` | `SharesAddUp` | `AllocateAddsUp`: the sum of rounded shares of a total differs from it by at most half a unit a target, from `QuantizeBounds` for one share and `SumAtMost`, `SumScaled` for all |
| `AllocationInvariant` | | the inductive invariant `AllocationInv`, below |
| `TotalHolds`, `SourceHolds`, `RelievedHolds` | `TotalKept`, `SourceCovered`, `RelievedWasSource` | from `AllocationInv` in each state |
| `BudgetsHold` | `BudgetsFollow` | needs `BeingSaved`: what a request has saved of a project and what it has still to save are together the budgets of its form, and the key it will save under is not taken; with the lemma `ReferencesHold`, that no row refers to one that is gone |

`TotalKept`, `SourceCovered`, `RelievedWasSource` and `BudgetsFollow` are not inductive.
`AllocationInv` says of the entries of a
run what a reversal relies on: an entry is known by its result (`OneEntryEach`), only an
offset is negative (`EntrySigns`), nothing is posted before the commit (`NotYetPosted`),
every entry belongs to a result until the rule goes (`LinkedToResults`), the offset is
minus the sum of the results and stands where the run was simulated for, or nowhere once
that department is gone (`OffsetsStand`), and the whole comes to zero (`Balanced`).
`SourceKept` ties a run to the department and cost it was simulated from.

`InterfaceDispatchProofs`:

| Theorem | Property | Argument |
|---|---|---|
| `DispatchInvariant` | | `DispatchInv` is inductive: types, and `RequestsSound`: an edit of the form in memory carries a schedule it accepted and of the right protocol, one of the admin page any, the list of a bulk retry has no interface twice and only chosen ones |
| `TypeCorrect`, `BulkHolds` | `TypeOK`, `BulkMerges` | from it. `TargetsMerged`: the first failures of each interface, in order, name no interface twice; `TailMerged`: nor does the rest of such a list |
| `ToggleHolds` | `ToggleUndoesNothing` | from `DispatchInv`: a step that ends a toggle is `SaveToggle` or a death (`EndsByItself`), and `SaveToggle` writes one column of a row that is there (`SaveToggleWrites`) |

`NumberLemmas` has what the community modules define and prove nothing of: the sum of a
function over a finite set does not depend on the order (`SumRemove`), is monotone, linear,
and kept by a bijection; powers, their products and their order; that `gcd` divides what it
is of, so that `Frac(n, d)` is n / d whatever it is reduced by (`FracIs`), from which sums,
products, quotients and the order of fractions follow in all terms (`Is(x, n, d)`: x is
n / d). The induction theorems of the library take an operator as a parameter, which the
provers cannot instantiate. `StrictSubsetInduction` and `NatSetInduction` state induction with
a *set* of good subsets or numbers instead, the first from the library's theorem that the
strict subset order is well founded. A recursive function is a `CHOOSE`, and says nothing
before a solution is known to exist: `Recursion` has one for any start and any step, which
`Power` and the bisection take theirs from; for `gcd` the greatest common divisor solves it.

The proofs first state what each step does to the fields of a request (`StartEffects`,
`MqAckGoes` and so on); the invariants then follow from those.

What the attempts to prove showed about the models: `CostAssumption` once said nothing when
two of the key sets were equal; `BudgetsFollow` once said too little (it let a project have
budgets of its own, and then those of any form); `MessagesConserved` was a fold whose order nothing fixed. The figures of
bonds and projects fit each other only for `Ordinary` products, and a volatility that is odd
in the model's units is not halved exactly (`Halves`): the properties said neither, and held
because no input of the run was otherwise. The bisection, and the operation an adapter goes by,
were `CASE`s whose guards overlapped, which leaves the choice open. They were changed, and the
runs repeated.

Only model-checked: liveness, `DrainsAfterClose`, `CallsEnd`, `OffDrains` and `DueIsExecuted`,
because the prover handles no fairness. That `irr` terminates early, at a rate whose npv is
below `tol`, is in the model a bracket closed on that rate, so no property speaks of `tol`.

The negative results are counterexamples.

### 3.9 Mutants

Each property of a passing run is broken by a plausible bug, kept in the modules
under *Faulty variants*: a soft delete, a reopen that keeps its stamp, a cost entry
that can be edited, an insert without guard, a guard that looks for a record
only, a guard of the old period; a status outside the workflow, a deletion without
status check, a reversal that makes the run a simulation again, only the latest offset deleted, a commit allowed from
REVERSED; a salary row without project and employee, a skip test by `ref`, a skip
test that looks at the rows as they were before the reset; shares of a wrong total, an
offset of what should have been allocated, a reversal without the offset, a source that ignores its department, budgets one line short; a field
looked up under another key, a connection left open, an attempt too many or not counted,
a file passed over, a process without limits; a schedule kept for any protocol, a toggle
that saves the whole object, failures not merged, a dispatch of what
is switched off, a task dropped while another runs; fields of another kind kept or
forgotten, a price of yesterday taken for one of today, a refresh that trusts the list it
started with, a crisis without its price shock, weights of the wrong sum.

### 3.10 Not modelled

* Text: notes, memos, references, messages. `closed_by` and `note` of a period: an
  overlapping close and reopen can lose one of the notes.
* In `PeriodLedger` and `AllocationRuns`: dimensions of a ledger row and their SET_NULL;
  `CostAllocation` has the department, the one a later allocation reads.
* Seeds, which bypass the guards with `_skip_period_check`, and migrations: run once by
  hand on a demonstration database.
* In `CostAllocation`: heads and managers, `InternalTransfer` (admin only, protects
  departments), cost categories, edits of divisions, departments, projects and budgets on
  the admin pages, several periods, overlapping requests on one run. Assignments of one
  employee to one project are summed to one row, as heads are counted once
  (`costing.py:217`). The deletion of a division or department is one step, though Django
  collects what it takes along before it deletes.
* In `AdapterCall`: payloads and summaries. A request or script that answered is taken to
  have taken effect (`Answered`); no property rests on it.
* In `MarketData`: an edit of a price on the admin page is one step. A product that a late
  edit inserts again is in the model, but nothing promises it a price.
* In `InterfaceDispatch`: cron fields other than the minute; the default outside Docker,
  `CELERY_TASK_ALWAYS_EAGER`, under which tasks run within the call that sends them.
* In `Valuation`: floating point (fractions are exact; `irr` is a bracket of one part of a
  rate), the historical VaR, volatility and time series of the pages (logarithms of random
  prices), the factor of confidence and holding period, texts.
* In `AllocationRuns`: administrators editing runs and results by hand or deleting
  ALLOCATION rows of the ledger; closing as two steps (it is in `PeriodLedger`);
  rules created after the start.
* In `SalaryAllocation`: SALARY rows an administrator types in by hand; a row whose
  project or employee is deleted (SET_NULL) and so is of no job any more; a DELETE
  that has locked some of its rows while it waits for another (it waits with none
  here; two such that block each other are a deadlock, which is a `Rollback`).
* `period_summary`, the dashboards, monitoring, layout, accounts: read-only pages.

## 4. Running

    tlc -workers 2 -config PeriodLedger.cfg MCPeriodLedger
    tlc -workers 2 -config AllocationRuns.cfg MCAllocationRuns
    tlc -workers 2 -config SalaryAllocation.cfg MCSalaryAllocation
    tlc -workers 2 -config CostAllocation.cfg MCCostAllocation
    tlc -workers 2 -config AdapterCall.cfg MCAdapterCall
    tlc -workers 2 -config InterfaceDispatch.cfg MCInterfaceDispatch
    tlc -workers 2 -config MarketData.cfg MCMarketData
    tlapm PeriodLedgerProofs.tla
    tlapm AllocationRunsProofs.tla
    tlapm SalaryAllocationProofs.tla
    tlapm MarketDataProofs.tla
    tlapm AdapterCallProofs.tla
    tlapm NumberLemmas.tla
    tlapm CostAllocationProofs.tla
    tlapm InterfaceDispatchProofs.tla

The other configurations go with the same MC modules. `PROJECT.json` lists the runs
with their expected outcome, the lines each definition models, and the findings.
