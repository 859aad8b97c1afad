------------------------- MODULE PeriodLedgerProofs -------------------------
(***************************************************************************)
(* Proofs about PeriodLedger, for any set of periods, rows and requests.   *)
(***************************************************************************)
EXTENDS PeriodLedger, TLAPS

(***************************************************************************)
(* Type correctness.                                                       *)
(***************************************************************************)

\* The arrival of a request leaves every type as it is (Start and the PeriodOps).
LEMMA ArriveTypes ==
  ASSUME TypeOK, NEW w \in Request, Arrive(w)
  PROVE  TypeOK'
<1> USE DEF TypeOK, Busy, Idle, NoWork, CostOp, RevenueOp, PeriodOp
<1>1. CASE costing_ledger_create(w)
  BY <1>1 DEF costing_ledger_create, Start
<1>2. CASE costing_revenue_create(w)
  BY <1>2 DEF costing_revenue_create, Start
<1>3. CASE LoadCost(w)
  BY <1>3 DEF LoadCost, Start
<1>4. CASE costing_revenue_delete(w)
  BY <1>4 DEF costing_revenue_delete, Start
<1>5. CASE LoadRevenueEdit(w)
  BY <1>5 DEF LoadRevenueEdit, Start
<1>6. CASE StartBatch(w)
  BY <1>6 DEF StartBatch, Start
<1>7. CASE close_period(w)
  <2>1. PICK p \in Period :
          /\ fiscal' = [fiscal EXCEPT ![p].exists = TRUE]
          /\ req' = [req EXCEPT ![w] =
                       [pc |-> "saving", op |-> "close", period |-> p, row |-> Nil]]
          /\ UNCHANGED <<cost, revenue, txn>>
    BY <1>7 DEF close_period
  <2>2. fiscal' \in [Period -> [exists: BOOLEAN, is_closed: BOOLEAN, closed_at: BOOLEAN]]
    BY <2>1
  <2>3. req' \in [Request -> Busy \cup {Idle}]
    BY <2>1
  <2> QED
    BY <2>1, <2>2, <2>3
<1>8. CASE reopen_period(w)
  BY <1>8 DEF reopen_period
<1> QED
  BY <1>1, <1>2, <1>3, <1>4, <1>5, <1>6, <1>7, <1>8 DEF Arrive

LEMMA ProceedTypes ==
  ASSUME TypeOK, NEW w \in Request, Proceed(w)
  PROVE  TypeOK'
<1> USE DEF TypeOK, Busy, Idle, NoWork, CostOp, RevenueOp, PeriodOp, Finish, Cleared
<1>1. CASE RefuseEdit(w)
  BY <1>1 DEF RefuseEdit
<1>2. CASE _ensure_period_writable(w)
  <2>1. req[w] \in Busy /\ req[w].pc = "loaded"
    BY <1>2 DEF _ensure_period_writable
  <2>2. [req[w] EXCEPT !.pc = "cleared"] \in Busy
    <3>1. CASE req[w] \in [pc: {"loaded", "cleared"}, op: {"batch"}, period: Period, row: {Nil}]
      BY <3>1
    <3>2. CASE req[w] \in [pc: {"loaded", "cleared"}, op: CostOp, period: Period, row: CostRow]
      BY <3>2
    <3>3. CASE req[w] \in [pc: {"loaded", "cleared"}, op: RevenueOp, period: Period, row: RevenueRow]
      BY <3>3
    <3> QED
      BY <2>1, <3>1, <3>2, <3>3
  <2> QED
    BY <1>2, <2>2 DEF _ensure_period_writable
<1>3. CASE PeriodClosedError(w)
  BY <1>3 DEF PeriodClosedError
<1>4. CASE InsertCost(w)
  BY <1>4 DEF InsertCost
<1>5. CASE DeleteCost(w)
  BY <1>5 DEF DeleteCost
<1>6. CASE InsertRevenue(w)
  BY <1>6 DEF InsertRevenue
<1>7. CASE SaveRevenue(w)
  BY <1>7 DEF SaveRevenue
<1>8. CASE DeleteRevenue(w)
  BY <1>8 DEF DeleteRevenue
<1>9. CASE BatchPut(w)
  BY <1>9 DEF BatchPut
<1>10. CASE BatchCut(w)
  BY <1>10 DEF BatchCut
<1>11. CASE BatchCommit(w)
  BY <1>11 DEF BatchCommit
<1>12. CASE SaveClosed(w)
  BY <1>12 DEF SaveClosed
<1>13. CASE SaveReopened(w)
  BY <1>13 DEF SaveReopened
<1> QED
  BY <1>1, <1>2, <1>3, <1>4, <1>5, <1>6, <1>7, <1>8, <1>9, <1>10, <1>11, <1>12, <1>13
     DEF Proceed

\* The deletion of rows in bulk, and the death of a worker.
LEMMA OtherTypes ==
  ASSUME TypeOK, BulkDelete \/ \E w \in Request : WorkerDies(w)
  PROVE  TypeOK'
<1>1. CASE BulkDelete
  BY <1>1 DEF BulkDelete, TypeOK
<1>2. CASE \E w \in Request : WorkerDies(w)
  BY <1>2 DEF WorkerDies, Finish, TypeOK, Busy, Idle, NoWork
<1> QED
  BY <1>1, <1>2

\* Every reachable state is well typed.
THEOREM TypeCorrect == Spec => []TypeOK
<1>1. Init => TypeOK
  BY DEF Init, TypeOK, Idle, NoWork
<1>2. TypeOK /\ [Next]_vars => TypeOK'
  <2> SUFFICES ASSUME TypeOK, [Next]_vars PROVE TypeOK'
    OBVIOUS
  <2>1. CASE UNCHANGED vars
    BY <2>1 DEF vars, TypeOK
  <2> QED
    BY <2>1, ArriveTypes, ProceedTypes, OtherTypes DEF Next
<1> QED
  BY <1>1, <1>2, PTL DEF Spec

(***************************************************************************)
(* The closing stamp, and the period a stored row's guard is asked about.  *)
(***************************************************************************)

\* is_closed and closed_at agree, because every step either leaves the record alone,
\* creates it open, or writes both fields.
THEOREM StampCorrect == Spec => []ClosedStampAgrees
<1>1. Init => ClosedStampAgrees
  BY DEF Init, ClosedStampAgrees
<1>2. TypeOK /\ ClosedStampAgrees /\ [Next]_vars => ClosedStampAgrees'
  <2> SUFFICES ASSUME TypeOK, ClosedStampAgrees, [Next]_vars PROVE ClosedStampAgrees'
    OBVIOUS
  <2> USE DEF ClosedStampAgrees, TypeOK
  <2>1. CASE UNCHANGED fiscal
    BY <2>1
  <2>2. ASSUME NEW w \in Request, close_period(w) PROVE ClosedStampAgrees'
    BY <2>2 DEF close_period
  <2>3. ASSUME NEW w \in Request, SaveClosed(w) PROVE ClosedStampAgrees'
    BY <2>3 DEF SaveClosed
  <2>4. ASSUME NEW w \in Request, SaveReopened(w) PROVE ClosedStampAgrees'
    BY <2>4 DEF SaveReopened
  <2>5. ASSUME NEW w \in Request, Arrive(w), ~ close_period(w) PROVE UNCHANGED fiscal
    BY <2>5 DEF Arrive, costing_ledger_create, costing_revenue_create, LoadCost,
      costing_revenue_delete, LoadRevenueEdit, StartBatch, reopen_period, Start
  <2>6. ASSUME NEW w \in Request, Proceed(w), ~ SaveClosed(w), ~ SaveReopened(w)
        PROVE  UNCHANGED fiscal
    BY <2>6 DEF Proceed, RefuseEdit, _ensure_period_writable, PeriodClosedError, InsertCost,
      DeleteCost, InsertRevenue, SaveRevenue, DeleteRevenue, BatchPut, BatchCut, BatchCommit
  <2>7. ASSUME BulkDelete \/ UNCHANGED vars \/ \E w \in Request : WorkerDies(w)
        PROVE  UNCHANGED fiscal
    BY <2>7 DEF BulkDelete, vars, WorkerDies
  <2> QED
    BY <2>1, <2>2, <2>3, <2>4, <2>5, <2>6, <2>7 DEF Next
<1> QED
  BY <1>1, <1>2, TypeCorrect, PTL DEF Spec

\* A CostEntry row changes only from Unborn to a period, or to Gone.
LEMMA CostRowsOnlyEndOrBegin ==
  ASSUME TypeOK, [Next]_vars, NEW r \in CostRow, cost'[r] # cost[r]
  PROVE  cost[r] = Unborn \/ cost'[r] = Gone
<1> USE DEF TypeOK
<1>1. ASSUME NEW w \in Request, Arrive(w) PROVE UNCHANGED cost
  BY <1>1 DEF Arrive, costing_ledger_create, costing_revenue_create, LoadCost,
    costing_revenue_delete, LoadRevenueEdit, StartBatch, close_period, reopen_period, Start
<1>2. ASSUME NEW w \in Request, InsertCost(w) PROVE cost[r] = Unborn
  BY <1>2 DEF InsertCost
<1>3. ASSUME NEW w \in Request, DeleteCost(w) PROVE cost'[r] = Gone
  BY <1>3 DEF DeleteCost
<1>4. ASSUME NEW w \in Request, BatchCommit(w) PROVE cost[r] = Unborn \/ cost'[r] = Gone
  BY <1>4 DEF BatchCommit
<1>5. ASSUME BulkDelete PROVE cost'[r] = Gone
  BY <1>5 DEF BulkDelete
<1>6. ASSUME NEW w \in Request, Proceed(w),
             ~ InsertCost(w), ~ DeleteCost(w), ~ BatchCommit(w)
      PROVE  UNCHANGED cost
  BY <1>6 DEF Proceed, RefuseEdit, _ensure_period_writable, PeriodClosedError, InsertRevenue,
    SaveRevenue, DeleteRevenue, BatchPut, BatchCut, SaveClosed, SaveReopened
<1>7. ASSUME UNCHANGED vars \/ \E w \in Request : WorkerDies(w) PROVE UNCHANGED cost
  BY <1>7 DEF vars, WorkerDies
<1> QED
  BY <1>1, <1>2, <1>3, <1>4, <1>5, <1>6, <1>7 DEF Next

\* A request that deletes a cost row was loaded in this step, or it was there before
\* with the same row and the same period.
LEMMA DeletersComeFromLoadCost ==
  ASSUME TypeOK, [Next]_vars, NEW w \in Request, req'[w].op = "cost_delete"
  PROVE  \/ /\ req[w].op = "cost_delete"
            /\ req'[w].row = req[w].row
            /\ req'[w].period = req[w].period
         \/ /\ cost' = cost
            /\ cost[req'[w].row] = req'[w].period
<1> USE DEF TypeOK
<1>1. ASSUME NEW v \in Request, LoadCost(v)
      PROVE  v = w => cost' = cost /\ cost[req'[w].row] = req'[w].period
  BY <1>1 DEF LoadCost, Start
<1>2. ASSUME NEW v \in Request, LoadCost(v), v # w
      PROVE  req'[w] = req[w]
  BY <1>2 DEF LoadCost, Start
<1>3. ASSUME NEW v \in Request, Arrive(v), ~ LoadCost(v) PROVE req'[w] = req[w]
  BY <1>3 DEF Arrive, costing_ledger_create, costing_revenue_create,
    costing_revenue_delete, LoadRevenueEdit, StartBatch, close_period, reopen_period, Start
<1>4. ASSUME NEW v \in Request, _ensure_period_writable(v)
      PROVE  req[w].op = "cost_delete" /\ req'[w].row = req[w].row
             /\ req'[w].period = req[w].period
  <2>1. req' = [req EXCEPT ![v].pc = "cleared"]
    BY <1>4 DEF _ensure_period_writable
  <2>2. req[w] \in Busy \cup {Idle}
    OBVIOUS
  <2> QED
    BY <2>1, <2>2 DEF Busy, Idle
<1>5. ASSUME NEW v \in Request, Proceed(v), ~ _ensure_period_writable(v)
      PROVE  req'[w] = req[w]
  BY <1>5 DEF Proceed, RefuseEdit, PeriodClosedError, InsertCost, DeleteCost, InsertRevenue,
    SaveRevenue, DeleteRevenue, BatchPut, BatchCut, BatchCommit, SaveClosed, SaveReopened,
    Finish, Idle
<1>6. ASSUME NEW v \in Request, WorkerDies(v) PROVE req'[w] = req[w]
  BY <1>6 DEF WorkerDies, Finish, Idle
<1>7. ASSUME BulkDelete \/ UNCHANGED vars PROVE req' = req
  BY <1>7 DEF BulkDelete, vars
<1> QED
  BY <1>1, <1>2, <1>3, <1>4, <1>5, <1>6, <1>7 DEF Next

\* CostEntry.delete asks its guard about the period the row really has (models.py:351).
THEOREM DeleteGuardsTruePeriod == Spec => []CostDeleteGuardsTruePeriod
<1>1. Init => CostDeleteGuardsTruePeriod
  BY DEF Init, CostDeleteGuardsTruePeriod, Idle
<1>2. TypeOK /\ TypeOK' /\ CostDeleteGuardsTruePeriod /\ [Next]_vars
        => CostDeleteGuardsTruePeriod'
  <2> SUFFICES ASSUME TypeOK, TypeOK', CostDeleteGuardsTruePeriod, [Next]_vars,
                      NEW w \in Request, req'[w].op = "cost_delete"
               PROVE  cost'[req'[w].row] \in {req'[w].period, Gone}
    BY DEF CostDeleteGuardsTruePeriod
  <2>1. req'[w].row \in CostRow /\ req'[w].period \in Period
    <3>1. req'[w] \in Busy \cup {Idle}
      BY DEF TypeOK, Busy, Idle, CostOp, RevenueOp, PeriodOp
    <3>2. req'[w] \in [pc: {"loaded", "cleared"}, op: CostOp, period: Period, row: CostRow]
      BY <3>1 DEF Busy, Idle, RevenueOp, PeriodOp
    <3> QED
      BY <3>2
  <2>2. CASE cost[req'[w].row] = req'[w].period /\ cost' = cost
    BY <2>2
  <2>3. CASE /\ req[w].op = "cost_delete"
             /\ req'[w].row = req[w].row
             /\ req'[w].period = req[w].period
    <3>1. cost[req[w].row] \in {req[w].period, Gone}
      BY <2>3 DEF CostDeleteGuardsTruePeriod
    <3>2. cost[req'[w].row] # Unborn
      BY <2>1, <2>3, <3>1, RowAssumption
    <3> QED
      BY <2>1, <2>3, <3>1, <3>2, CostRowsOnlyEndOrBegin
  <2> QED
    BY <2>2, <2>3, DeletersComeFromLoadCost
<1> QED
  BY <1>1, <1>2, TypeCorrect, PTL DEF Spec

(***************************************************************************)
(* The refinement of PermitLedger.  First what each kind of step does to   *)
(* the permits (requests past their guard) and to the postings.            *)
(***************************************************************************)

closedPeriods == {p \in Period : is_period_closed(p)}

\* A request that ends gives up its permit, if it has one, and no other.
LEMMA FinishTakesOnePermit ==
  ASSUME TypeOK, NEW w \in Request, Finish(w)
  PROVE  /\ req[w].pc = "cleared" =>
              /\ req[w].period \in Period
              /\ <<w, req[w].period>> \in permits
              /\ permits' = permits \ {<<w, req[w].period>>}
         /\ req[w].pc # "cleared" => permits' = permits
<1> USE DEF TypeOK, permits, PastGuard
<1>1. ASSUME req[w].pc = "cleared" PROVE req[w].period \in Period
  <2>1. req[w] \in Busy \cup {Idle}
    OBVIOUS
  <2> QED
    BY <1>1, <2>1 DEF Busy, Idle
<1>2. req' = [req EXCEPT ![w] = Idle]
  BY DEF Finish
<1>3. req'[w].pc = "idle"
  BY <1>2 DEF Idle
<1>4. \A v \in Request : v # w => req'[v] = req[v]
  BY <1>2
<1>5. permits' = {h \in Request \X Period : h[1] # w /\ h \in permits}
  BY <1>3, <1>4
<1> QED
  BY <1>1, <1>5

\* Where rows enter the book of one period only, postings enter that period only.
LEMMA GainsInOnePeriod ==
  ASSUME NEW p \in Period,
         \A q \in Period : q # p => RowsIn(q)' \subseteq RowsIn(q)
  PROVE  postings' \subseteq postings \cup (Row \X {p})
BY DEF postings

\* Where rows enter the book of no period, no postings are made.
LEMMA OnlyLosses ==
  ASSUME \A q \in Period : RowsIn(q)' \subseteq RowsIn(q)
  PROVE  postings' \subseteq postings
BY DEF postings

\* The writes of a request past its guard bring rows into its own period only.
LEMMA WritesGainOwnPeriod ==
  ASSUME TypeOK, NEW w \in Request, req[w].pc = "cleared",
         \/ InsertCost(w) \/ DeleteCost(w) \/ InsertRevenue(w)
         \/ SaveRevenue(w) \/ DeleteRevenue(w) \/ BatchCommit(w),
         NEW q \in Period, q # req[w].period
  PROVE  RowsIn(q)' \subseteq RowsIn(q)
<1> USE DEF TypeOK, RowsIn
<1>1. CASE InsertCost(w)
  BY <1>1 DEF InsertCost
<1>2. CASE DeleteCost(w)
  BY <1>2, RowAssumption DEF DeleteCost
<1>3. CASE InsertRevenue(w)
  BY <1>3 DEF InsertRevenue
<1>4. CASE SaveRevenue(w)
  BY <1>4 DEF SaveRevenue
<1>5. CASE DeleteRevenue(w)
  BY <1>5, RowAssumption DEF DeleteRevenue
<1>6. CASE BatchCommit(w)
  BY <1>6, RowAssumption DEF BatchCommit
<1> QED
  BY <1>1, <1>2, <1>3, <1>4, <1>5, <1>6

\* The writes of a request past its guard are Post steps.
LEMMA WritePosts ==
  ASSUME TypeOK, NEW w \in Request,
         \/ InsertCost(w) \/ DeleteCost(w) \/ InsertRevenue(w)
         \/ SaveRevenue(w) \/ DeleteRevenue(w) \/ BatchCommit(w)
  PROVE  \E p \in Period : Permits!Post(w, p)
<1>1. /\ req[w].pc = "cleared"
      /\ Finish(w)
      /\ UNCHANGED fiscal
  BY DEF InsertCost, DeleteCost, InsertRevenue, SaveRevenue, DeleteRevenue, BatchCommit, Cleared
<1>2. /\ req[w].period \in Period
      /\ <<w, req[w].period>> \in permits
      /\ permits' = permits \ {<<w, req[w].period>>}
  BY <1>1, FinishTakesOnePermit
<1>3. \A q \in Period : q # req[w].period => RowsIn(q)' \subseteq RowsIn(q)
  BY <1>1, WritesGainOwnPeriod
<1>4. postings' \subseteq postings \cup (Row \X {req[w].period})
  BY <1>2, <1>3, GainsInOnePeriod
<1>5. closedPeriods' = closedPeriods
  BY <1>1 DEF closedPeriods, is_period_closed
<1>6. Permits!Post(w, req[w].period)
  BY <1>2, <1>4, <1>5 DEF Permits!Post, closedPeriods
<1> QED
  BY <1>2, <1>6

\* A request that ends without a write gives its permit back, or had none.
LEMMA FinishReturns ==
  ASSUME TypeOK, NEW w \in Request, Finish(w), UNCHANGED <<fiscal, cost, revenue>>
  PROVE  (\E p \in Period : Permits!Return(w, p)) \/ UNCHANGED Permits!permitVars
<1>1. postings' = postings /\ closedPeriods' = closedPeriods
  BY DEF postings, RowsIn, closedPeriods, is_period_closed
<1>2. CASE req[w].pc = "cleared"
  BY <1>1, <1>2, FinishTakesOnePermit DEF Permits!Return, closedPeriods
<1>3. CASE req[w].pc # "cleared"
  BY <1>1, <1>3, FinishTakesOnePermit DEF Permits!permitVars, closedPeriods
<1> QED
  BY <1>2, <1>3

\* A request that arrives touches no row and no permit, and closes nothing.
LEMMA ArriveStutters ==
  ASSUME TypeOK, NEW w \in Request, Arrive(w)
  PROVE  UNCHANGED Permits!permitVars
<1>1. cost' = cost /\ revenue' = revenue
  BY DEF Arrive, costing_ledger_create, costing_revenue_create, LoadCost,
    costing_revenue_delete, LoadRevenueEdit, StartBatch, close_period, reopen_period, Start
<1>2. \A p \in Period : is_period_closed(p)' = is_period_closed(p)
  BY DEF TypeOK, is_period_closed, Arrive, costing_ledger_create, costing_revenue_create,
    LoadCost, costing_revenue_delete, LoadRevenueEdit, StartBatch, close_period,
    reopen_period, Start
<1>3. /\ req[w].pc # "cleared" /\ req'[w].pc # "cleared"
      /\ \A v \in Request : v # w => req'[v] = req[v]
  BY DEF TypeOK, Idle, Arrive, costing_ledger_create, costing_revenue_create, LoadCost,
    costing_revenue_delete, LoadRevenueEdit, StartBatch, close_period, reopen_period, Start
<1>4. permits' = permits
  BY <1>3 DEF permits, PastGuard
<1>5. postings' = postings
  BY <1>1 DEF postings, RowsIn
<1> QED
  BY <1>2, <1>4, <1>5 DEF Permits!permitVars

\* The guard grants a permit on a period that is open at that moment.
LEMMA GuardGrants ==
  ASSUME TypeOK, NEW w \in Request, _ensure_period_writable(w)
  PROVE  \E p \in Period : Permits!Grant(w, p)
<1> DEFINE p == req[w].period
<1>1. /\ req[w].pc = "loaded" /\ ~ is_period_closed(p)
      /\ req' = [req EXCEPT ![w].pc = "cleared"]
      /\ UNCHANGED <<fiscal, cost, revenue>>
  BY DEF _ensure_period_writable
<1>2. p \in Period
  <2>1. req[w] \in Busy \cup {Idle}
    BY DEF TypeOK
  <2> QED
    BY <1>1, <2>1 DEF Busy, Idle
<1>3. req'[w].pc = "cleared" /\ req'[w].period = p
  <2>1. req[w] \in Busy \cup {Idle}
    BY DEF TypeOK
  <2>2. req'[w] = [req[w] EXCEPT !.pc = "cleared"]
    BY <1>1 DEF TypeOK
  <2> QED
    BY <2>1, <2>2 DEF Busy, Idle
<1>4. \A v \in Request : v # w => req'[v] = req[v]
  BY <1>1 DEF TypeOK
<1>5. permits' = permits \cup {<<w, p>>}
  BY <1>1, <1>2, <1>3, <1>4 DEF permits, PastGuard
<1>6. postings' = postings /\ closedPeriods' = closedPeriods
  BY <1>1 DEF postings, RowsIn, closedPeriods, is_period_closed
<1>7. Permits!Grant(w, p)
  BY <1>1, <1>2, <1>5, <1>6 DEF Permits!Grant, closedPeriods
<1> QED
  BY <1>2, <1>7

\* fp.save() closes or reopens its period and leaves rows and permits alone.
LEMMA SaveClosesOrReopens ==
  ASSUME TypeOK, NEW w \in Request, SaveClosed(w) \/ SaveReopened(w)
  PROVE  \E p \in Period : Permits!Close(p) \/ Permits!Reopen(p)
<1> DEFINE p == req[w].period
<1>1. req[w].pc = "saving" /\ Finish(w) /\ UNCHANGED <<cost, revenue>>
  BY DEF SaveClosed, SaveReopened
<1>2. p \in Period
  <2>1. req[w] \in Busy \cup {Idle}
    BY DEF TypeOK
  <2> QED
    BY <1>1, <2>1 DEF Busy, Idle
<1>3. permits' = permits
  BY <1>1, FinishTakesOnePermit
<1>4. postings' = postings
  BY <1>1 DEF postings, RowsIn
<1>5. CASE SaveClosed(w)
  <2>1. closedPeriods' = closedPeriods \cup {p}
    BY <1>2, <1>5 DEF SaveClosed, TypeOK, closedPeriods, is_period_closed
  <2> QED
    BY <1>2, <1>3, <1>4, <2>1 DEF Permits!Close, closedPeriods
<1>6. CASE SaveReopened(w)
  <2>1. closedPeriods' = closedPeriods \ {p}
    BY <1>2, <1>6 DEF SaveReopened, TypeOK, closedPeriods, is_period_closed
  <2> QED
    BY <1>2, <1>3, <1>4, <2>1 DEF Permits!Reopen, closedPeriods
<1> QED
  BY <1>5, <1>6

\* QuerySet.delete() only takes rows away.
LEMMA BulkDeleteWithdraws ==
  ASSUME TypeOK, BulkDelete
  PROVE  Permits!Withdraw
<1>1. \A q \in Period : RowsIn(q)' \subseteq RowsIn(q)
  BY RowAssumption DEF BulkDelete, RowsIn, TypeOK
<1>2. postings' \subseteq postings
  BY <1>1, OnlyLosses
<1>3. permits' = permits /\ closedPeriods' = closedPeriods
  BY DEF BulkDelete, permits, PastGuard, closedPeriods, is_period_closed
<1> QED
  BY <1>2, <1>3 DEF Permits!Withdraw, closedPeriods

\* Every step of PeriodLedger is a step of PermitLedger, or changes none of its variables.
LEMMA StepRefines ==
  ASSUME TypeOK, [Next]_vars
  PROVE  [Permits!Next]_(Permits!permitVars)
<1>1. ASSUME NEW w \in Request, Proceed(w)
      PROVE  [Permits!Next]_(Permits!permitVars)
  <2>1. CASE \/ InsertCost(w) \/ DeleteCost(w) \/ InsertRevenue(w)
             \/ SaveRevenue(w) \/ DeleteRevenue(w) \/ BatchCommit(w)
    BY <2>1, WritePosts DEF Permits!Next
  <2>2. CASE RefuseEdit(w) \/ PeriodClosedError(w)
    BY <2>2, FinishReturns DEF RefuseEdit, PeriodClosedError, Permits!Next
  <2>3. CASE _ensure_period_writable(w)
    BY <2>3, GuardGrants DEF Permits!Next
  <2>4. CASE BatchPut(w) \/ BatchCut(w)
    BY <2>4 DEF BatchPut, BatchCut, Permits!permitVars, permits, PastGuard, postings, RowsIn,
      is_period_closed
  <2>5. CASE SaveClosed(w) \/ SaveReopened(w)
    BY <2>5, SaveClosesOrReopens DEF Permits!Next
  <2> QED
    BY <1>1, <2>1, <2>2, <2>3, <2>4, <2>5 DEF Proceed
<1>2. ASSUME NEW w \in Request, WorkerDies(w)
      PROVE  [Permits!Next]_(Permits!permitVars)
  BY <1>2, FinishReturns DEF WorkerDies, Permits!Next
<1>3. CASE BulkDelete
  BY <1>3, BulkDeleteWithdraws DEF Permits!Next
<1>4. CASE UNCHANGED vars
  BY <1>4 DEF vars, Permits!permitVars, permits, PastGuard, postings, RowsIn, is_period_closed
<1> QED
  BY <1>1, <1>2, <1>3, <1>4, ArriveStutters DEF Next

\* The guards of the models and services, taken together, implement PermitLedger.
THEOREM GuardsImplementPermits == Spec => ImplementsPermitLedger
<1>1. Init => Permits!Init
  <2> SUFFICES ASSUME Init PROVE Permits!Init
    OBVIOUS
  <2>1. {p \in Period : is_period_closed(p)} = {}
    BY DEF Init, is_period_closed
  <2>2. permits = {}
    BY DEF Init, permits, PastGuard, Idle
  <2>3. postings = {}
    BY RowAssumption DEF Init, postings, RowsIn
  <2> QED
    BY <2>1, <2>2, <2>3 DEF Permits!Init
<1>2. TypeOK /\ [Next]_vars => [Permits!Next]_(Permits!permitVars)
  BY StepRefines
<1> QED
  BY <1>1, <1>2, TypeCorrect, PTL DEF Spec, ImplementsPermitLedger, Permits!Spec

(***************************************************************************)
(* What may still happen to a closed period.                               *)
(***************************************************************************)

\* In one step of PermitLedger: while a period is closed its permits only get fewer, and
\* a posting that enters it costs one.
LEMMA ClosedStep ==
  ASSUME [Permits!Next]_(Permits!permitVars), NEW p \in Period,
         is_period_closed(p), is_period_closed(p)'
  PROVE  /\ PastGuard(p)' \subseteq PastGuard(p)
         /\ RowsIn(p)' \subseteq RowsIn(p) \/ PastGuard(p)' # PastGuard(p)
<1> USE DEF permits, postings
<1>1. /\ \A w \in Request : <<w, p>> \in permits <=> w \in PastGuard(p)
      /\ \A w \in Request : <<w, p>> \in permits' <=> w \in PastGuard(p)'
  OBVIOUS
<1>2. /\ \A r \in Row : <<r, p>> \in postings <=> r \in RowsIn(p)
      /\ \A r \in Row : <<r, p>> \in postings' <=> r \in RowsIn(p)'
  OBVIOUS
<1>3. PastGuard(p) \subseteq Request /\ PastGuard(p)' \subseteq Request
  BY DEF PastGuard
<1>4. RowsIn(p) \subseteq Row /\ RowsIn(p)' \subseteq Row
  BY DEF RowsIn, Row
<1> HIDE DEF permits, postings
<1>5. CASE UNCHANGED Permits!permitVars
  BY <1>1, <1>2, <1>3, <1>4, <1>5 DEF Permits!permitVars
<1>6. CASE Permits!Withdraw
  BY <1>1, <1>2, <1>3, <1>4, <1>6 DEF Permits!Withdraw
<1>7. ASSUME NEW q \in Period, Permits!Close(q) \/ Permits!Reopen(q)
      PROVE  permits' = permits /\ postings' = postings
  BY <1>7 DEF Permits!Close, Permits!Reopen
<1>8. ASSUME NEW h \in Request, NEW q \in Period, Permits!Grant(h, q)
      PROVE  q # p /\ permits' = permits \cup {<<h, q>>} /\ postings' = postings
  BY <1>8 DEF Permits!Grant
<1>9. ASSUME NEW h \in Request, NEW q \in Period, Permits!Return(h, q)
      PROVE  permits' = permits \ {<<h, q>>} /\ postings' = postings
  BY <1>9 DEF Permits!Return
<1>10. ASSUME NEW h \in Request, NEW q \in Period, Permits!Post(h, q)
       PROVE  /\ <<h, q>> \in permits
              /\ permits' = permits \ {<<h, q>>}
              /\ q # p => \A r \in Row : <<r, p>> \in postings' => <<r, p>> \in postings
  BY <1>10 DEF Permits!Post
<1> QED
  BY <1>1, <1>2, <1>3, <1>4, <1>5, <1>6, <1>7, <1>8, <1>9, <1>10 DEF Permits!Next

\* After close_period, what still enters the period is bounded by the requests in flight.
THEOREM ClosedPeriodsDrain == Spec => ClosedGainsDrain
<1>1. TypeOK /\ [Next]_vars
        => [\A p \in Period : is_period_closed(p) /\ is_period_closed(p)' =>
              /\ PastGuard(p)' \subseteq PastGuard(p)
              /\ RowsIn(p)' \subseteq RowsIn(p) \/ PastGuard(p)' # PastGuard(p)]_vars
  BY StepRefines, ClosedStep
<1> QED
  BY <1>1, TypeCorrect, PTL DEF Spec, ClosedGainsDrain
=============================================================================
