---------------------------- MODULE PeriodLedger ----------------------------
(***************************************************************************)
(* The ledgers of src/apps/evaluation and the closing of fiscal periods.   *)
(*                                                                         *)
(* Every write to CostEntry and RevenueEntry first calls                   *)
(* _ensure_period_writable (models.py:46), a SELECT, and then issues its   *)
(* INSERT, UPDATE or DELETE.  Nothing locks the period in between: the     *)
(* requests run in several gunicorn processes and a Celery worker, each    *)
(* statement (or each transaction.atomic block, under READ COMMITTED)      *)
(* commits on its own, and close_period may commit between the two.        *)
(*                                                                         *)
(* A request is a record [pc, op, period, row]: "loaded" once its form is  *)
(* valid or its object is read, "cleared" once its guard has passed.  The  *)
(* multi-row transactions (salary, allocation commit and reversal) also    *)
(* keep the rows they have written and not yet committed.                  *)
(***************************************************************************)
EXTENDS FiniteSets, Naturals

CONSTANTS
  Period,       \* accounting periods ('YYYY-MM')
  CostRow,      \* primary keys of CostEntry
  RevenueRow,   \* primary keys of RevenueEntry
  Request,      \* requests in progress at once (gunicorn and Celery workers)
  Unborn,       \* a key no row has had yet
  Gone,         \* a row that was deleted
  Nil           \* no period, no row

Row == CostRow \cup RevenueRow

ASSUME RowAssumption ==
  /\ CostRow \cap RevenueRow = {}
  /\ Unborn \notin Period /\ Gone \notin Period /\ Nil \notin Period
  /\ Unborn # Gone
  /\ Nil \notin Row

VARIABLES
  fiscal,       \* FiscalPeriod: does the record exist, is_closed, closed_at is set
  cost,         \* the period each CostEntry row carries
  revenue,      \* the period each RevenueEntry row carries
  req,          \* the request each worker is serving
  txn           \* the rows its open transaction has put and cut

vars == <<fiscal, cost, revenue, req, txn>>

----------------------------------------------------------------------------
(* Types.                                                                  *)

CostOp == {"cost_create", "cost_edit", "cost_delete"}
RevenueOp == {"revenue_create", "revenue_edit", "revenue_delete"}
PeriodOp == {"close", "reopen"}

Idle == [pc |-> "idle", op |-> "none", period |-> Nil, row |-> Nil]
NoWork == [puts |-> {}, cuts |-> {}]

Busy ==
  [pc: {"loaded", "cleared"}, op: {"batch"}, period: Period, row: {Nil}]
    \cup [pc: {"loaded", "cleared"}, op: CostOp, period: Period, row: CostRow]
    \cup [pc: {"loaded", "cleared"}, op: RevenueOp, period: Period, row: RevenueRow]
    \cup [pc: {"saving"}, op: PeriodOp, period: Period, row: {Nil}]

TypeOK ==
  /\ fiscal \in [Period -> [exists: BOOLEAN, is_closed: BOOLEAN, closed_at: BOOLEAN]]
  /\ cost \in [CostRow -> Period \cup {Unborn, Gone}]
  /\ revenue \in [RevenueRow -> Period \cup {Unborn, Gone}]
  /\ req \in [Request -> Busy \cup {Idle}]
  /\ txn \in [Request -> [puts: SUBSET CostRow, cuts: SUBSET CostRow]]

----------------------------------------------------------------------------
(* Helpers.                                                                *)

is_period_closed(p) == fiscal[p].is_closed

\* The rows standing in a period.
RowsIn(p) ==
  {r \in CostRow : cost[r] = p} \cup {r \in RevenueRow : revenue[r] = p}

\* The requests past the guard of a period that have not written yet.
PastGuard(p) == {w \in Request : req[w].pc = "cleared" /\ req[w].period = p}

\* A key the table's sequence can hand out next.  It is drawn at the INSERT; the model
\* lets a create request set one aside when it starts, so that keys never run out.
FreshCost(r) ==
  /\ cost[r] = Unborn
  /\ \A w \in Request : r \notin txn[w].puts /\ req[w].row # r

FreshRevenue(r) == revenue[r] = Unborn /\ \A w \in Request : req[w].row # r

Start(w, op, p, r) ==
  /\ req[w] = Idle
  /\ req' = [req EXCEPT ![w] = [pc |-> "loaded", op |-> op, period |-> p, row |-> r]]
  /\ UNCHANGED <<fiscal, cost, revenue, txn>>

Cleared(w, op) == req[w].pc = "cleared" /\ req[w].op = op

\* The request answers: it holds nothing any more.
Finish(w) ==
  /\ req' = [req EXCEPT ![w] = Idle]
  /\ txn' = [txn EXCEPT ![w] = NoWork]

----------------------------------------------------------------------------
(* Faulty variants of actions below, one plausible bug each.  No action of *)
(* Next uses them: put in the place of the action they name, each breaks a *)
(* property of the last section, which shows that the property watches it. *)

\* For RefuseEdit: a stored CostEntry is saved like any other object.
FaultySavesStoredEntry(w) ==
  /\ req[w].pc = "loaded" /\ req[w].op = "cost_edit"
  /\ \E p \in Period : cost' = [cost EXCEPT ![req[w].row] = p]
  /\ Finish(w)
  /\ UNCHANGED <<fiscal, revenue>>

\* For _ensure_period_writable: the guard looks for a record and not for is_closed.
FaultyGuardIgnoresClosing(w) ==
  /\ req[w].pc = "loaded" /\ req[w].op # "cost_edit"
  /\ fiscal[req[w].period].exists
  /\ req' = [req EXCEPT ![w].pc = "cleared"]
  /\ UNCHANGED <<fiscal, cost, revenue, txn>>

\* For InsertCost: CostEntry.save without its guard.
FaultyInsertWithoutGuard(w) ==
  /\ req[w].pc \in {"loaded", "cleared"} /\ req[w].op = "cost_create"
  /\ cost[req[w].row] = Unborn
  /\ cost' = [cost EXCEPT ![req[w].row] = req[w].period]
  /\ Finish(w)
  /\ UNCHANGED <<fiscal, revenue>>

\* For DeleteCost: the row is kept and its period blanked.
FaultySoftDelete(w) ==
  /\ Cleared(w, "cost_delete")
  /\ cost' = [cost EXCEPT ![req[w].row] = Nil]
  /\ Finish(w)
  /\ UNCHANGED <<fiscal, revenue>>

\* For SaveRevenue: the guard looked at the old period, the row is saved under a new one.
FaultyGuardsOldPeriod(w) ==
  /\ Cleared(w, "revenue_edit")
  /\ \E p \in Period : revenue' = [revenue EXCEPT ![req[w].row] = p]
  /\ Finish(w)
  /\ UNCHANGED <<fiscal, cost>>

\* For SaveReopened: save(update_fields=['is_closed']).
FaultyReopenKeepsStamp(w) ==
  /\ req[w].pc = "saving" /\ req[w].op = "reopen"
  /\ fiscal' = [fiscal EXCEPT ![req[w].period].is_closed = FALSE]
  /\ Finish(w)
  /\ UNCHANGED <<cost, revenue>>

----------------------------------------------------------------------------
(* Initial state: an empty ledger, no FiscalPeriod record.                 *)

Init ==
  /\ fiscal = [p \in Period |-> [exists |-> FALSE, is_closed |-> FALSE, closed_at |-> FALSE]]
  /\ cost = [r \in CostRow |-> Unborn]
  /\ revenue = [r \in RevenueRow |-> Unborn]
  /\ req = [w \in Request |-> Idle]
  /\ txn = [w \in Request |-> NoWork]

----------------------------------------------------------------------------
(* Requests arrive.                                                        *)

\* A valid CostEntryForm: a new object in memory.
costing_ledger_create(w) ==
  \E p \in Period, r \in CostRow : FreshCost(r) /\ Start(w, "cost_create", p, r)

\* A valid RevenueEntryForm: a new object in memory.
costing_revenue_create(w) ==
  \E p \in Period, r \in RevenueRow : FreshRevenue(r) /\ Start(w, "revenue_create", p, r)

\* The admin page of a cost row loads it, to delete it or to save a change.
\* The object keeps the period read here.
LoadCost(w) ==
  \E r \in CostRow, op \in {"cost_edit", "cost_delete"} :
    /\ cost[r] \in Period
    /\ Start(w, op, cost[r], r)

\* A revenue row is loaded to be deleted, with the period read here.
costing_revenue_delete(w) ==
  \E r \in RevenueRow :
    /\ revenue[r] \in Period
    /\ Start(w, "revenue_delete", revenue[r], r)

\* The admin page of a revenue row saves it with the period of its form.
LoadRevenueEdit(w) ==
  \E r \in RevenueRow, p \in Period :
    /\ revenue[r] \in Period
    /\ Start(w, "revenue_edit", p, r)

\* allocate_monthly_salary, commit_allocation or reverse_allocation of a period.
StartBatch(w) == \E p \in Period : Start(w, "batch", p, Nil)

----------------------------------------------------------------------------
(* The guard.                                                              *)

\* A stored CostEntry refuses to be saved before its guard is reached.
RefuseEdit(w) ==
  /\ req[w].pc = "loaded" /\ req[w].op = "cost_edit"
  /\ Finish(w)
  /\ UNCHANGED <<fiscal, cost, revenue>>

\* _ensure_period_writable returns: the period is open as far as this request knows.
_ensure_period_writable(w) ==
  /\ req[w].pc = "loaded" /\ req[w].op # "cost_edit"
  /\ ~ is_period_closed(req[w].period)
  /\ req' = [req EXCEPT ![w].pc = "cleared"]
  /\ UNCHANGED <<fiscal, cost, revenue, txn>>

\* _ensure_period_writable raises PeriodClosedError: the request ends, and an open
\* transaction with it.  A batch meets its guard again at every row it saves.
PeriodClosedError(w) ==
  /\ \/ req[w].pc = "loaded" /\ req[w].op # "cost_edit"
     \/ Cleared(w, "batch")
  /\ is_period_closed(req[w].period)
  /\ Finish(w)
  /\ UNCHANGED <<fiscal, cost, revenue>>

----------------------------------------------------------------------------
(* Writes of one row, each a statement that commits at once.               *)

InsertCost(w) ==
  /\ Cleared(w, "cost_create")
  /\ cost[req[w].row] = Unborn
  /\ cost' = [cost EXCEPT ![req[w].row] = req[w].period]
  /\ Finish(w)
  /\ UNCHANGED <<fiscal, revenue>>

\* DELETE by primary key: nothing happens to a row that is gone already.
DeleteCost(w) ==
  /\ Cleared(w, "cost_delete")
  /\ cost' = [cost EXCEPT ![req[w].row] = Gone]
  /\ Finish(w)
  /\ UNCHANGED <<fiscal, revenue>>

InsertRevenue(w) ==
  /\ Cleared(w, "revenue_create")
  /\ revenue[req[w].row] = Unborn
  /\ revenue' = [revenue EXCEPT ![req[w].row] = req[w].period]
  /\ Finish(w)
  /\ UNCHANGED <<fiscal, cost>>

\* Model.save of a loaded object: UPDATE, and INSERT with the old key when no row
\* matched.  A row deleted in the meantime comes back.
SaveRevenue(w) ==
  /\ Cleared(w, "revenue_edit")
  /\ revenue' = [revenue EXCEPT ![req[w].row] = req[w].period]
  /\ Finish(w)
  /\ UNCHANGED <<fiscal, cost>>

DeleteRevenue(w) ==
  /\ Cleared(w, "revenue_delete")
  /\ revenue' = [revenue EXCEPT ![req[w].row] = Gone]
  /\ Finish(w)
  /\ UNCHANGED <<fiscal, cost>>

\* The admin list action delete_selected: QuerySet.delete() calls no CostEntry.delete
\* and no RevenueEntry.delete, so it meets no guard.
BulkDelete ==
  \E doomed \in SUBSET UNION {RowsIn(p) : p \in Period} :
    /\ doomed # {}
    /\ cost' = [r \in CostRow |-> IF r \in doomed THEN Gone ELSE cost[r]]
    /\ revenue' = [r \in RevenueRow |-> IF r \in doomed THEN Gone ELSE revenue[r]]
    /\ UNCHANGED <<fiscal, req, txn>>

----------------------------------------------------------------------------
(* Transactions of many rows.                                              *)

\* CostEntry.objects.create inside the transaction: the guard once more, then INSERT.
BatchPut(w) ==
  /\ Cleared(w, "batch")
  /\ ~ is_period_closed(req[w].period)
  /\ \E r \in CostRow :
       /\ FreshCost(r)
       /\ txn' = [txn EXCEPT ![w].puts = @ \cup {r}]
  /\ UNCHANGED <<fiscal, cost, revenue, req>>

\* A row of the period is deleted inside the transaction, by entry.delete() or by the
\* unguarded QuerySet.delete() of the salary reset and of the offset.
BatchCut(w) ==
  /\ Cleared(w, "batch")
  /\ \E r \in CostRow :
       /\ cost[r] = req[w].period
       /\ r \notin txn[w].cuts
       /\ txn' = [txn EXCEPT ![w].cuts = @ \cup {r}]
  /\ UNCHANGED <<fiscal, cost, revenue, req>>

\* COMMIT: the rows put and cut show in the ledger together.
BatchCommit(w) ==
  /\ Cleared(w, "batch")
  /\ cost' = [r \in CostRow |->
                IF r \in txn[w].cuts THEN Gone
                ELSE IF r \in txn[w].puts /\ cost[r] = Unborn THEN req[w].period
                ELSE cost[r]]
  /\ Finish(w)
  /\ UNCHANGED <<fiscal, revenue>>

----------------------------------------------------------------------------
(* Closing and reopening: a read, then a save of the whole record.         *)

\* get_or_create of the FiscalPeriod.
close_period(w) ==
  \E p \in Period :
    /\ req[w] = Idle
    /\ fiscal' = [fiscal EXCEPT ![p].exists = TRUE]
    /\ req' = [req EXCEPT ![w] = [pc |-> "saving", op |-> "close", period |-> p, row |-> Nil]]
    /\ UNCHANGED <<cost, revenue, txn>>

\* first() of the FiscalPeriod: without a record the request ends here.
reopen_period(w) ==
  \E p \in Period :
    /\ req[w] = Idle
    /\ fiscal[p].exists
    /\ req' = [req EXCEPT ![w] = [pc |-> "saving", op |-> "reopen", period |-> p, row |-> Nil]]
    /\ UNCHANGED <<fiscal, cost, revenue, txn>>

\* fp.save() writes every field, whatever happened to the record since it was read.
SaveClosed(w) ==
  /\ req[w].pc = "saving" /\ req[w].op = "close"
  /\ fiscal' = [fiscal EXCEPT ![req[w].period] =
                  [exists |-> TRUE, is_closed |-> TRUE, closed_at |-> TRUE]]
  /\ Finish(w)
  /\ UNCHANGED <<cost, revenue>>

SaveReopened(w) ==
  /\ req[w].pc = "saving" /\ req[w].op = "reopen"
  /\ fiscal' = [fiscal EXCEPT ![req[w].period] =
                  [exists |-> TRUE, is_closed |-> FALSE, closed_at |-> FALSE]]
  /\ Finish(w)
  /\ UNCHANGED <<cost, revenue>>

----------------------------------------------------------------------------
(* The worker process dies: an open transaction is rolled back.            *)

WorkerDies(w) ==
  /\ req[w] # Idle
  /\ Finish(w)
  /\ UNCHANGED <<fiscal, cost, revenue>>

----------------------------------------------------------------------------

Arrive(w) ==
  \/ costing_ledger_create(w) \/ costing_revenue_create(w) \/ LoadCost(w)
  \/ costing_revenue_delete(w) \/ LoadRevenueEdit(w) \/ StartBatch(w)
  \/ close_period(w) \/ reopen_period(w)

Proceed(w) ==
  \/ RefuseEdit(w) \/ _ensure_period_writable(w) \/ PeriodClosedError(w)
  \/ InsertCost(w) \/ DeleteCost(w) \/ InsertRevenue(w) \/ SaveRevenue(w)
  \/ DeleteRevenue(w) \/ BatchPut(w) \/ BatchCut(w) \/ BatchCommit(w)
  \/ SaveClosed(w) \/ SaveReopened(w)

Next ==
  \/ BulkDelete
  \/ \E w \in Request : Arrive(w) \/ Proceed(w) \/ WorkerDies(w)

Spec == Init /\ [][Next]_vars

\* A worker that serves a request goes on with it until it answers or dies.
FairSpec == Spec /\ \A w \in Request : WF_vars(Proceed(w))

----------------------------------------------------------------------------
(* Properties.                                                             *)

\* closed_at is set exactly while is_closed holds, whatever close and reopen requests
\* overlap: both save the record whole (costing.py:419-442).
ClosedStampAgrees ==
  \A p \in Period : fiscal[p].is_closed <=> fiscal[p].closed_at

\* CostEntry.delete guards the period of an object that may have been read long ago.
\* The row still carries that period, or is gone, because a stored CostEntry is never
\* saved again (models.py:340, 351).
CostDeleteGuardsTruePeriod ==
  \A w \in Request :
    req[w].op = "cost_delete" => cost[req[w].row] \in {req[w].period, Gone}

\* While a period stays closed no request gets past its guard, and a row enters it only
\* when a request that was past the guard before finishes: what can still come in after
\* close_period is bounded by the requests then in flight (models.py:345, 391).
ClosedGainsDrain ==
  [][\A p \in Period : is_period_closed(p) /\ is_period_closed(p)' =>
       /\ PastGuard(p)' \subseteq PastGuard(p)
       /\ RowsIn(p)' \subseteq RowsIn(p) \/ PastGuard(p)' # PastGuard(p)]_vars

\* Once a period stays closed for good, the requests past its guard all finish and
\* none follows: from then on nothing enters it.
DrainsAfterClose ==
  \A p \in Period : <>[] is_period_closed(p) => <>[](PastGuard(p) = {})

\* The refinement: a permit is a request past the guard.
permits == {h \in Request \X Period : h[1] \in PastGuard(h[2])}
postings == {b \in Row \X Period : b[1] \in RowsIn(b[2])}
Permits == INSTANCE PermitLedger WITH
             Holder <- Request,
             closed <- {p \in Period : is_period_closed(p)},
             permit <- permits,
             book <- postings

\* The guards of models.py and costing.py, taken together, implement PermitLedger.
ImplementsPermitLedger == Permits!Spec

----------------------------------------------------------------------------
(* What the documentation says and the code does not keep.                 *)

\* README.md:55 and models.py:21: a closed period blocks the creation of cost rows.
ClosedPeriodGainsNoCost ==
  [][\A p \in Period, r \in CostRow :
       is_period_closed(p) /\ cost'[r] = p => cost[r] = p]_vars
=============================================================================
