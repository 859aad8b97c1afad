-------------------------- MODULE SalaryAllocation --------------------------
(***************************************************************************)
(* The monthly salary allocation (src/apps/evaluation/costing.py:66) of    *)
(* one period: from the project assignments of that month it makes the     *)
(* SALARY rows of the cost ledger.                                         *)
(*                                                                         *)
(* An allocation is one transaction under READ COMMITTED; the screen, the  *)
(* beat task and the command line may each start one at any time.  Every   *)
(* statement sees what is committed when it runs, and what its own         *)
(* transaction did; nothing locks the period or makes a row unique.  A     *)
(* DELETE waits for a transaction that has deleted one of its rows.        *)
(***************************************************************************)
EXTENDS Naturals, FiniteSets

CONSTANTS
  Assignment,      \* project assignments
  JobOf,           \* the project and employee of each
  Request,         \* allocations in progress at once
  MaxAllocations,  \* bound on the allocations started
  Nil              \* no assignment

ASSUME AssignmentAssumption ==
  /\ JobOf = [a \in Assignment |-> JobOf[a]]
  /\ Nil \notin Assignment
  /\ MaxAllocations \in Nat

VARIABLES
  closed,          \* is the period closed
  payable,         \* the assignments an allocation would post: active in the month,
                   \* of an active employee, of a positive amount
  rows,            \* the SALARY rows of the ledger
  started,         \* how many allocations have started
  req,             \* the allocation each worker is busy with
  overlap,         \* the pairs of allocations that were in progress at once
  byHand           \* the jobs a row of which was deleted by hand

vars == <<closed, payable, rows, started, req, overlap, byHand>>

----------------------------------------------------------------------------
(* Types.  A row is named by the allocation that made it and the           *)
(* assignment it was made for, which its ref names too.                    *)

Job == {JobOf[a] : a \in Assignment}
Row == [by: Nat, pa: Assignment]
JobOfRow(x) == JobOf[x.pa]

AtStart(pc, reset, no) ==
  [pc |-> pc, reset |-> reset, no |-> no, list |-> {}, gone |-> {}, plan |-> {},
   done |-> {}, cur |-> Nil, made |-> {}]
Idle == AtStart("idle", FALSE, 0)
Busy ==
  [pc: {"begun", "listed", "ready", "posting", "creating"}, reset: BOOLEAN, no: Nat,
   list: SUBSET Row,           \* the rows a reset is about to delete
   gone: SUBSET Row,           \* the rows it has deleted
   plan: SUBSET Assignment,    \* the assignments read
   done: SUBSET Assignment,    \* those dealt with
   cur: Assignment \cup {Nil}, \* the one found to have no row yet
   made: SUBSET Row]           \* the rows inserted

TypeOK ==
  /\ closed \in BOOLEAN
  /\ payable \subseteq Assignment
  /\ rows \subseteq Row
  /\ started \in Nat
  /\ req \in [Request -> Busy \cup {Idle}]
  /\ overlap \subseteq SUBSET Nat
  /\ byHand \subseteq Job

----------------------------------------------------------------------------
(* Helpers.                                                                *)

\* What a statement of the transaction sees of the ledger.
Visible(w) == (rows \ req[w].gone) \cup req[w].made

\* filter(period, source=SALARY, project, employee).exists()
Posted(table, j) == \E x \in table : JobOfRow(x) = j

\* No open transaction has deleted the rows: they can be deleted without waiting.
Unlocked(table) == \A v \in Request : req[v].gone \cap table = {}

Finish(w) == req' = [req EXCEPT ![w] = Idle]

----------------------------------------------------------------------------

Init ==
  /\ closed = FALSE
  /\ payable \in SUBSET Assignment
  /\ rows = {}
  /\ started = 0
  /\ req = [w \in Request |-> Idle]
  /\ overlap = {}
  /\ byHand = {}

----------------------------------------------------------------------------
(* Faulty variants of definitions below, one plausible bug each.  No       *)
(* action of Next uses them.                                               *)

\* For Create: the row is made without a project and an employee, which both may be NULL.
FaultyCreateUnassigned(w) ==
  /\ req[w].pc = "creating" /\ ~ closed
  /\ req' = [req EXCEPT ![w].pc = "posting", ![w].cur = Nil,
                        ![w].done = @ \cup {req[w].cur},
                        ![w].made = @ \cup {[by |-> req[w].no, pa |-> Nil]}]
  /\ UNCHANGED <<closed, payable, rows, started, overlap, byHand>>

\* For Check: a row is looked for by its ref, which names the assignment.
FaultyCheckByRef(w, a) ==
  /\ req[w].pc = "posting" /\ a \in req[w].plan \ req[w].done
  /\ req' = IF \E x \in Visible(w) : x.pa = a
            THEN [req EXCEPT ![w].done = @ \cup {a}]
            ELSE [req EXCEPT ![w].pc = "creating", ![w].cur = a]
  /\ UNCHANGED <<closed, payable, rows, started, overlap, byHand>>

\* For Check: the existing rows are read once, before the reset.
FaultyCheckBeforeReset(w, a) ==
  /\ req[w].pc = "posting" /\ a \in req[w].plan \ req[w].done
  /\ req' = IF Posted(rows \cup req[w].made, JobOf[a])
            THEN [req EXCEPT ![w].done = @ \cup {a}]
            ELSE [req EXCEPT ![w].pc = "creating", ![w].cur = a]
  /\ UNCHANGED <<closed, payable, rows, started, overlap, byHand>>

----------------------------------------------------------------------------
(* One allocation.                                                         *)

\* The guard of the period has passed and the transaction goes on.
allocate_monthly_salary(w, reset) ==
  /\ req[w] = Idle
  /\ ~ closed
  /\ started < MaxAllocations
  /\ started' = started + 1
  /\ req' = [req EXCEPT ![w] = AtStart("begun", reset, started + 1)]
  /\ overlap' = overlap \cup
       {{started + 1, req[v].no} : v \in {u \in Request : req[u] # Idle}}
  /\ UNCHANGED <<closed, payable, rows, byHand>>

\* QuerySet.delete() reads the rows first.
ListRows(w) ==
  /\ req[w].pc = "begun" /\ req[w].reset
  /\ req' = [req EXCEPT ![w].pc = "listed", ![w].list = rows]
  /\ UNCHANGED <<closed, payable, rows, started, overlap, byHand>>

\* Then it deletes the rows it has read, those that are still there.
DeleteRows(w) ==
  /\ req[w].pc = "listed"
  /\ Unlocked(req[w].list)
  /\ req' = [req EXCEPT ![w].pc = "ready", ![w].gone = req[w].list \cap rows,
                        ![w].list = {}]
  /\ UNCHANGED <<closed, payable, rows, started, overlap, byHand>>

\* The query of the assignments runs once, when the loop begins.
ReadAssignments(w) ==
  /\ req[w].pc = IF req[w].reset THEN "ready" ELSE "begun"
  /\ req' = [req EXCEPT ![w].pc = "posting", ![w].plan = payable]
  /\ UNCHANGED <<closed, payable, rows, started, overlap, byHand>>

\* Is there a row for the job already?  Then the assignment is skipped.
Check(w, a) ==
  /\ req[w].pc = "posting" /\ a \in req[w].plan \ req[w].done
  /\ req' = IF Posted(Visible(w), JobOf[a])
            THEN [req EXCEPT ![w].done = @ \cup {a}]
            ELSE [req EXCEPT ![w].pc = "creating", ![w].cur = a]
  /\ UNCHANGED <<closed, payable, rows, started, overlap, byHand>>

\* CostEntry.objects.create, whose save asks for the period once more.
Create(w) ==
  /\ req[w].pc = "creating"
  /\ ~ closed
  /\ req' = [req EXCEPT ![w].pc = "posting", ![w].cur = Nil,
                        ![w].done = @ \cup {req[w].cur},
                        ![w].made = @ \cup {[by |-> req[w].no, pa |-> req[w].cur]}]
  /\ UNCHANGED <<closed, payable, rows, started, overlap, byHand>>

Commit(w) ==
  /\ req[w].pc = "posting" /\ req[w].done = req[w].plan
  /\ rows' = (rows \ req[w].gone) \cup req[w].made
  /\ Finish(w)
  /\ UNCHANGED <<closed, payable, started, overlap, byHand>>

\* PeriodClosedError from a save, a deadlock of two DELETEs, a time limit of the task, or
\* the end of the worker.
Rollback(w) ==
  /\ req[w] # Idle
  /\ Finish(w)
  /\ UNCHANGED <<closed, payable, rows, started, overlap, byHand>>

----------------------------------------------------------------------------
(* What others do meanwhile.                                               *)

\* An administrator deletes a row, from its page or from the list.
DeleteEntry(x) ==
  /\ x \in rows
  /\ Unlocked({x})
  /\ rows' = rows \ {x}
  /\ byHand' = byHand \cup {JobOfRow(x)}
  /\ UNCHANGED <<closed, payable, started, req, overlap>>

\* An assignment begins or ends, or its employee is activated or not.
Staff(a) ==
  /\ payable' = IF a \in payable THEN payable \ {a} ELSE payable \cup {a}
  /\ UNCHANGED <<closed, rows, started, req, overlap, byHand>>

CloseOrReopen ==
  /\ closed' = ~ closed
  /\ UNCHANGED <<payable, rows, started, req, overlap, byHand>>

----------------------------------------------------------------------------

Proceed(w) ==
  \/ ListRows(w) \/ DeleteRows(w) \/ ReadAssignments(w)
  \/ \E a \in Assignment : Check(w, a)
  \/ Create(w) \/ Commit(w) \/ Rollback(w)

Next ==
  \/ \E w \in Request, reset \in BOOLEAN : allocate_monthly_salary(w, reset)
  \/ \E w \in Request : Proceed(w)
  \/ \E x \in rows : DeleteEntry(x)
  \/ \E a \in Assignment : Staff(a)
  \/ CloseOrReopen

Spec == Init /\ [][Next]_vars

----------------------------------------------------------------------------
(* Properties.                                                             *)

\* Two rows for one job come from two allocations that were in progress at once: skipping,
\* resetting, deleting by hand and changing assignments make no duplicate (costing.py:83-112).
DuplicatesOverlapped ==
  \A x, y \in rows : x # y /\ JobOfRow(x) = JobOfRow(y) => {x.by, y.by} \in overlap

\* A job that has a row keeps one, whatever resets overlap, unless a row of it was deleted
\* by hand or the resetting allocation did not find it payable (costing.py:84-111).
NothingLostByReset ==
  [][\A j \in Job \ byHand' : Posted(rows, j) /\ ~ Posted(rows', j) =>
       \E w \in Request : Commit(w) /\ j \notin {JobOf[a] : a \in req[w].plan}]_vars

----------------------------------------------------------------------------
(* What the documentation says and the code does not keep.                 *)

\* costing.py:72: an existing row of the same project and employee is skipped, so a job
\* has one row in a period.
OneRowPerJob ==
  \A x, y \in rows : JobOfRow(x) = JobOfRow(y) => x = y
=============================================================================
