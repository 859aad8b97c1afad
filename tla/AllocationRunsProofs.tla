------------------------ MODULE AllocationRunsProofs ------------------------
(***************************************************************************)
(* Proofs about AllocationRuns, for any set of runs, rules, targets,       *)
(* amounts and periods, and any finite set of requests.                    *)
(***************************************************************************)
EXTENDS AllocationRuns, FiniteSetTheorems, TLAPS

(***************************************************************************)
(* The inductive invariant.  The properties say what the ledger looks      *)
(* like; these conjuncts say what the requests in progress know about it.  *)
(***************************************************************************)

\* The rows a worker may yet act on: the table, and what requests have read of it.
Seen == results \cup UNION {req[w].snap : w \in Request}

\* One result for each target of a run.
OneResultPerTarget == \A x, y \in results : SameRow(x, y) => x = y

\* A run has rows only once it was simulated.
RowsFollowRun == \A x \in Seen : run[x.run].status # "ABSENT"

\* A request has read rows of its own run only.
SnapOwn == \A w \in Request : \A x \in req[w].snap : x.run = req[w].run

\* An offset sums entries of its own run only.
OffsetsOwn == \A o \in offsets : \A e \in o.covers : e.run = o.run

\* Offsets are numbered by the posting that made them.
OffsetsNumbered == \A o \in offsets : o.no <= posting

\* A transaction begins only when the status it was shown allows it.
BegunAllowed ==
  \A w \in Request : req[w].pc = "begun" =>
    req[w].op \in {"commit", "reverse"} /\ StatusAllows(req[w].op, req[w].seen)

\* A run nobody clashed over has one request at most, and that one knows its status.
SoleRequest ==
  \A r \in Run \ clash :
    /\ \A w1, w2 \in BusyOn(r) : w1 = w2
    /\ \A w \in BusyOn(r) : req[w].seen = run[r].status /\ Exists(r)

\* If no rule was deleted under it either, the rows that request has read are all current.
SnapFresh ==
  \A w \in Request : req[w].pc = "begun" /\ req[w].run \notin clash \cup cascaded =>
    req[w].snap = ResultsOf(req[w].run)

(***************************************************************************)
(* Type correctness.                                                       *)
(***************************************************************************)

\* Saving a link in rows of the table leaves a table.
LEMMA RelinkedType ==
  ASSUME results \subseteq Result, NEW rows, NEW n \in Nat
  PROVE  Relinked(rows, n) \subseteq Result
<1>1. ASSUME NEW y \in results PROVE [y EXCEPT !.link = n] \in Result
  BY <1>1 DEF Result
<1> QED
  BY <1>1 DEF Relinked

\* A request in progress is a busy record of a run, and its snapshot a set of results.
LEMMA BusyShape ==
  ASSUME TypeOK, NEW w \in Request, req[w].pc \in {"loaded", "begun"}
  PROVE  /\ req[w] \in Busy
         /\ req[w].run \in Run
         /\ req[w].snap \subseteq Result
         /\ req[w].op \in {"commit", "reverse", "delete"}
         /\ req[w].seen \in Status
BY DEF TypeOK, Busy, Idle

\* A simulation adds results of its run without an entry, one for a target at most.
LEMMA SimulatedRows ==
  ASSUME NEW r \in Run, NEW u \in Rule, simulate_allocation(r, u)
  PROVE  \E rows \in SUBSET Result :
           /\ results' = results \cup rows
           /\ \A x \in rows : x.run = r /\ x.link = 0
           /\ \A x, y \in rows : SameRow(x, y) => x = y
<1>1. PICK ts \in SUBSET Target : \E share \in [ts -> Amount] :
        results' = results \cup
          {[run |-> r, rule |-> u, target |-> t, amount |-> share[t], link |-> 0] : t \in ts}
  BY DEF simulate_allocation
<1>2. PICK share \in [ts -> Amount] :
        results' = results \cup
          {[run |-> r, rule |-> u, target |-> t, amount |-> share[t], link |-> 0] : t \in ts}
  BY <1>1
<1> DEFINE row(t) ==
             [run |-> r, rule |-> u, target |-> t, amount |-> share[t], link |-> 0]
           rows == {row(t) : t \in ts}
<1>3. rows \in SUBSET Result
  BY DEF Result
<1>4. \A x \in rows : x.run = r /\ x.link = 0
  OBVIOUS
<1>5. \A x, y \in rows : SameRow(x, y) => x = y
  BY DEF SameRow
<1>6. results' = results \cup rows
  BY <1>2
<1> HIDE DEF rows
<1> QED
  BY <1>3, <1>4, <1>5, <1>6

\* A reversal touches no offset of another run, and leaves none of its own when it has
\* unlinked a result.
LEMMA ReversedOffsets ==
  ASSUME TypeOK, NEW w \in Request, reverse_allocation(w)
  PROVE  /\ offsets' \subseteq offsets
         /\ \A o \in offsets : o.run # req[w].run => o \in offsets'
         /\ OffsetsNumbered /\ Linked(req[w].snap) # {}
              => \A o \in offsets' : o.run # req[w].run
<1>1. PICK cut \in (IF Linked(req[w].snap) = {} THEN req[w].since ELSE posting) .. posting :
        offsets' = {o \in offsets : o.run = req[w].run => o.no > cut}
  BY DEF reverse_allocation
<1>2. ASSUME OffsetsNumbered, Linked(req[w].snap) # {}, NEW o \in offsets', o.run = req[w].run
      PROVE  FALSE
  <2>1. cut = posting /\ posting \in Nat
    BY <1>2 DEF TypeOK
  <2>2. o \in offsets /\ o.no > cut
    BY <1>1, <1>2
  <2>3. o.no \in Nat /\ o.no <= posting
    BY <1>2, <2>2 DEF OffsetsNumbered, TypeOK, Offset
  <2> QED
    BY <2>1, <2>2, <2>3
<1> QED
  BY <1>1, <1>2

LEMMA ServeTypes ==
  ASSUME TypeOK, NEW w \in Request, Serve(w)
  PROVE  TypeOK'
<1>1. CASE Refuse(w)
  BY <1>1 DEF Refuse, Finish, TypeOK, history, ledger
<1>2. CASE Begin(w)
  <2>1. req[w] \in Busy /\ ResultsOf(req[w].run) \subseteq Result /\ posting \in Nat
    BY <1>2, BusyShape DEF Begin, ResultsOf, TypeOK
  <2>2. [req[w] EXCEPT !.pc = "begun", !.snap = ResultsOf(req[w].run),
                                !.since = posting] \in Busy
    BY <2>1 DEF Busy
  <2> QED
    BY <1>2, <2>2 DEF Begin, TypeOK, history, ledger
<1>3. CASE commit_allocation(w)
  <2> DEFINE todo == Unlinked(req[w].snap)
             made == {EntryFor(posting + 1, x) : x \in todo}
             fresh == [no |-> posting + 1, run |-> req[w].run, covers |-> made]
  <2>1. req[w].run \in Run /\ todo \subseteq Result /\ posting + 1 \in Nat
    BY <1>3, BusyShape DEF commit_allocation, At, Unlinked, TypeOK
  <2>2. made \subseteq Entry
    BY <2>1 DEF EntryFor, Entry, Result
  <2>3. fresh \in Offset
    BY <2>1, <2>2 DEF Offset
  <2>4. Relinked(todo, posting + 1) \subseteq Result
    BY <2>1, RelinkedType DEF TypeOK
  <2>5. run' \in [Run -> [status: Status, period: Period]]
    BY <1>3 DEF commit_allocation, TypeOK, Status
  <2>6. /\ entries' = entries \cup made
        /\ offsets' \subseteq offsets \cup {fresh}
        /\ results' = Relinked(todo, posting + 1)
        /\ posting' = posting + 1
        /\ UNCHANGED <<rules, closed, clash, cascaded>>
        /\ req' = [req EXCEPT ![w] = Idle]
    BY <1>3 DEF commit_allocation, Finish, history
  <2> QED
    BY <2>1, <2>2, <2>3, <2>4, <2>5, <2>6 DEF TypeOK
<1>4. CASE reverse_allocation(w)
  <2>1. results' \subseteq Result
    BY <1>4, RelinkedType DEF reverse_allocation, TypeOK
  <2>2. run' \in [Run -> [status: Status, period: Period]]
    BY <1>4 DEF reverse_allocation, TypeOK, Status
  <2>3. /\ entries' \subseteq entries
        /\ offsets' \subseteq offsets
        /\ UNCHANGED <<rules, closed, posting, clash, cascaded>>
        /\ req' = [req EXCEPT ![w] = Idle]
    BY <1>4, ReversedOffsets DEF reverse_allocation, Finish, history
  <2> QED
    BY <2>1, <2>2, <2>3 DEF TypeOK
<1>5. CASE allocation_run_delete(w)
  BY <1>5 DEF allocation_run_delete, Finish, TypeOK, Status, history, ledger
<1>6. CASE Rollback(w)
  BY <1>6 DEF Rollback, Finish, TypeOK, history, ledger
<1> QED
  BY <1>1, <1>2, <1>3, <1>4, <1>5, <1>6 DEF Serve

\* Every reachable state is well typed.
THEOREM TypeCorrect == Spec => []TypeOK
<1>1. Init => TypeOK
  BY DEF Init, TypeOK, Status
<1>2. TypeOK /\ [Next]_vars => TypeOK'
  <2> SUFFICES ASSUME TypeOK, [Next]_vars PROVE TypeOK'
    OBVIOUS
  <2>1. ASSUME NEW r \in Run, NEW u \in Rule, simulate_allocation(r, u) PROVE TypeOK'
    <3>1. results' \subseteq Result
      BY <2>1, SimulatedRows DEF TypeOK
    <3> QED
      BY <2>1, <3>1 DEF simulate_allocation, TypeOK, Status, history, ledger
  <2>2. ASSUME NEW u \in Rule, allocation_rule_delete(u) PROVE TypeOK'
    BY <2>2 DEF allocation_rule_delete, TypeOK, Result, ledger
  <2>3. ASSUME NEW p \in Period, close_period(p) \/ reopen_period(p) PROVE TypeOK'
    BY <2>3 DEF close_period, reopen_period, TypeOK, history, ledger
  <2>4. ASSUME NEW w \in Request, NEW r \in Run, LoadRun(w, r) PROVE TypeOK'
    <3>1. run[r].status \in Status
      BY DEF TypeOK
    <3>2. req' \in [Request -> Busy \cup {Idle}]
      BY <2>4, <3>1 DEF LoadRun, TypeOK, Busy
    <3>3. clash' \subseteq Run /\ UNCHANGED <<rules, closed, run, results, ledger, cascaded>>
      BY <2>4 DEF LoadRun, TypeOK
    <3> QED
      BY <3>2, <3>3 DEF TypeOK, ledger
  <2>5. CASE UNCHANGED vars
    BY <2>5 DEF vars, TypeOK
  <2> QED
    BY <2>1, <2>2, <2>3, <2>4, <2>5, ServeTypes DEF Next
<1> QED
  BY <1>1, <1>2, PTL DEF Spec

(***************************************************************************)
(* Rows and what was read of them.                                         *)
(***************************************************************************)

\* Saving a link changes nothing else in a row, and touches the rows it is meant for.
LEMMA RelinkedRow ==
  ASSUME results \subseteq Result, NEW rows, NEW n \in Nat, NEW x \in Relinked(rows, n)
  PROVE  \E y \in results :
           /\ SameRow(x, y) /\ x.amount = y.amount /\ x.rule = y.rule
           /\ IF \E z \in rows : SameRow(z, y) THEN x.link = n ELSE x = y
<1>1. PICK y \in results :
        x = IF \E z \in rows : SameRow(z, y) THEN [y EXCEPT !.link = n] ELSE y
  BY DEF Relinked
<1>2. y \in Result
  OBVIOUS
<1>3. CASE \E z \in rows : SameRow(z, y)
  <2>1. x = [y EXCEPT !.link = n]
    BY <1>1, <1>3
  <2>2. x.run = y.run /\ x.target = y.target /\ x.amount = y.amount /\ x.rule = y.rule /\ x.link = n
    BY <1>2, <2>1 DEF Result
  <2> QED
    BY <1>3, <2>2 DEF SameRow
<1>4. CASE ~ \E z \in rows : SameRow(z, y)
  <2>1. x = y
    BY <1>1, <1>4
  <2> QED
    BY <1>4, <2>1 DEF SameRow
<1> QED
  BY <1>3, <1>4

\* The table after a request's step holds rows of the table before it, and a request has
\* read no more than it had or than the table held.
LEMMA ServeRows ==
  ASSUME TypeOK, NEW w \in Request, Serve(w)
  PROVE  /\ \A x \in results' : \E y \in results : SameRow(x, y) /\ x.amount = y.amount
         /\ \A v \in Request : req'[v].snap \subseteq req[v].snap \cup results
<1>1. results \subseteq Result /\ \A x \in results : SameRow(x, x)
  BY DEF TypeOK, SameRow
<1>2. CASE Refuse(w) \/ Rollback(w)
  BY <1>1, <1>2 DEF Refuse, Rollback, Finish, Idle, TypeOK
<1>3. CASE Begin(w)
  <2>1. results' = results /\ \A v \in Request \ {w} : req'[v] = req[v]
    BY <1>3 DEF Begin, TypeOK
  <2>2. req'[w].snap = ResultsOf(req[w].run)
    <3>1. req[w] \in Busy
      BY <1>3, BusyShape DEF Begin
    <3>2. req'[w] = [req[w] EXCEPT !.pc = "begun", !.snap = ResultsOf(req[w].run),
                                !.since = posting]
      BY <1>3 DEF Begin, TypeOK
    <3> QED
      BY <3>1, <3>2 DEF Busy
  <2>3. ResultsOf(req[w].run) \subseteq results
    BY DEF ResultsOf
  <2> QED
    BY <1>1, <2>1, <2>2, <2>3
<1>4. CASE commit_allocation(w)
  <2>1. results' = Relinked(Unlinked(req[w].snap), posting + 1) /\ posting + 1 \in Nat
    BY <1>4 DEF commit_allocation, TypeOK
  <2>2. \A x \in results' : \E y \in results : SameRow(x, y) /\ x.amount = y.amount
    BY <1>1, <2>1, RelinkedRow
  <2>3. \A v \in Request : req'[v].snap \subseteq req[v].snap
    BY <1>4 DEF commit_allocation, Finish, Idle, TypeOK
  <2> QED
    BY <2>2, <2>3
<1>5. CASE reverse_allocation(w)
  <2>1. results' = Relinked(Linked(req[w].snap), 0)
    BY <1>5 DEF reverse_allocation
  <2>2. \A x \in results' : \E y \in results : SameRow(x, y) /\ x.amount = y.amount
    BY <1>1, <2>1, RelinkedRow
  <2>3. \A v \in Request : req'[v].snap \subseteq req[v].snap
    BY <1>5 DEF reverse_allocation, Finish, Idle, TypeOK
  <2> QED
    BY <2>2, <2>3
<1>6. CASE allocation_run_delete(w)
  BY <1>1, <1>6 DEF allocation_run_delete, Finish, Idle, TypeOK
<1> QED
  BY <1>2, <1>3, <1>4, <1>5, <1>6 DEF Serve

\* So does every other step but a simulation.
LEMMA StepRows ==
  ASSUME TypeOK, [Next]_vars, ~ \E r \in Run, u \in Rule : simulate_allocation(r, u)
  PROVE  /\ \A x \in results' : \E y \in results : SameRow(x, y) /\ x.amount = y.amount
         /\ \A v \in Request : req'[v].snap \subseteq req[v].snap \cup results
<1>1. \A x \in results : SameRow(x, x)
  BY DEF SameRow
<1>2. ASSUME NEW u \in Rule, allocation_rule_delete(u)
      PROVE  results' \subseteq results /\ req' = req
  BY <1>2 DEF allocation_rule_delete
<1>3. ASSUME NEW p \in Period, close_period(p) \/ reopen_period(p)
      PROVE  results' = results /\ req' = req
  BY <1>3 DEF close_period, reopen_period
<1>4. ASSUME NEW w \in Request, NEW r \in Run, LoadRun(w, r)
      PROVE  results' = results /\ \A v \in Request : req'[v].snap \subseteq req[v].snap
  BY <1>4 DEF LoadRun, TypeOK
<1>5. CASE UNCHANGED vars
  BY <1>1, <1>5 DEF vars
<1> QED
  BY <1>1, <1>2, <1>3, <1>4, <1>5, ServeRows DEF Next

\* A run that exists was there before or is simulated now; nothing makes one absent.
LEMMA StepKeepsRuns ==
  ASSUME TypeOK, [Next]_vars, NEW r \in Run, run'[r].status = "ABSENT"
  PROVE  run[r].status = "ABSENT"
<1>1. ASSUME NEW q \in Run, NEW u \in Rule, simulate_allocation(q, u)
      PROVE  run[r].status = "ABSENT"
  BY <1>1 DEF simulate_allocation, TypeOK
<1>2. ASSUME NEW w \in Request, Serve(w) PROVE run[r].status = "ABSENT"
  <2>1. CASE run' = run
    BY <2>1
  <2>2. CASE \E s \in {"COMMITTED", "REVERSED", "DELETED"} :
               run' = [run EXCEPT ![req[w].run].status = s]
    BY <2>2 DEF TypeOK
  <2> QED
    BY <1>2, <2>1, <2>2 DEF Serve, Refuse, Begin, commit_allocation, reverse_allocation,
                            allocation_run_delete, Rollback
<1>3. CASE UNCHANGED run
  BY <1>3
<1>4. CASE ~ UNCHANGED run
  BY <1>1, <1>2, <1>4 DEF Next, vars, allocation_rule_delete, close_period, reopen_period, LoadRun
<1> QED
  BY <1>3, <1>4

\* No row is there before its run is simulated.
LEMMA RowsCorrect == Spec => []RowsFollowRun
<1>1. Init => RowsFollowRun
  BY DEF Init, RowsFollowRun, Seen, Idle
<1>2. TypeOK /\ TypeOK' /\ RowsFollowRun /\ [Next]_vars => RowsFollowRun'
  <2> SUFFICES ASSUME TypeOK, TypeOK', RowsFollowRun, [Next]_vars
               PROVE  RowsFollowRun'
    OBVIOUS
  <2>1. \A x \in Seen' : x.run \in Run
    BY DEF Seen, TypeOK, Busy, Idle, Result
  <2>2. ASSUME NEW r \in Run, NEW u \in Rule, simulate_allocation(r, u)
        PROVE  RowsFollowRun'
    <3>1. PICK rows \in SUBSET Result :
            results' = results \cup rows /\ \A x \in rows : x.run = r /\ x.link = 0
      BY <2>2, SimulatedRows
    <3>2. Seen' = Seen \cup rows
      BY <2>2, <3>1 DEF Seen, simulate_allocation
    <3>3. \A x \in Seen : run'[x.run].status # "ABSENT"
      BY <2>1, <3>2, StepKeepsRuns DEF RowsFollowRun
    <3>4. run'[r].status = "SIMULATED"
      BY <2>2 DEF simulate_allocation, TypeOK
    <3> QED
      BY <3>1, <3>2, <3>3, <3>4 DEF RowsFollowRun
  <2>3. CASE ~ \E r \in Run, u \in Rule : simulate_allocation(r, u)
    <3>1. \A x \in Seen' : \E y \in Seen : SameRow(x, y) /\ x.amount = y.amount
      <4>1. ASSUME NEW x \in results'
            PROVE  \E y \in Seen : SameRow(x, y) /\ x.amount = y.amount
        BY <2>3, <4>1, StepRows DEF Seen
      <4>2. ASSUME NEW v \in Request, NEW x \in req'[v].snap
            PROVE  x \in Seen
        BY <2>3, <4>2, StepRows DEF Seen
      <4> QED
        BY <4>1, <4>2 DEF Seen, SameRow
    <3> QED
      BY <2>1, <3>1, StepKeepsRuns DEF RowsFollowRun, SameRow
  <2> QED
    BY <2>2, <2>3
<1> QED
  BY <1>1, <1>2, TypeCorrect, PTL DEF Spec

(***************************************************************************)
(* Offsets.                                                                *)
(***************************************************************************)

\* A request reads the results of its own run, and an offset is summed from the entries
\* of its own run.
LEMMA OwnRowsOnly == Spec => [](SnapOwn /\ OffsetsOwn)
<1>1. Init => SnapOwn /\ OffsetsOwn
  BY DEF Init, SnapOwn, OffsetsOwn, Idle
<1>2. TypeOK /\ SnapOwn /\ OffsetsOwn /\ [Next]_vars => SnapOwn' /\ OffsetsOwn'
  <2> SUFFICES ASSUME TypeOK, SnapOwn, OffsetsOwn, [Next]_vars
               PROVE  SnapOwn' /\ OffsetsOwn'
    OBVIOUS
  <2>1. ASSUME NEW w \in Request, Serve(w) PROVE SnapOwn' /\ OffsetsOwn'
    <3>1. CASE Refuse(w) \/ allocation_run_delete(w) \/ Rollback(w)
      BY <3>1 DEF Refuse, allocation_run_delete, Rollback, Finish, Idle, SnapOwn, OffsetsOwn,
                  TypeOK, ledger
    <3>2. CASE Begin(w)
      <4>1. req[w] \in Busy
        BY <3>2, BusyShape DEF Begin
      <4>2. req'[w] = [req[w] EXCEPT !.pc = "begun", !.snap = ResultsOf(req[w].run),
                                !.since = posting]
        BY <3>2 DEF Begin, TypeOK
      <4>3. req'[w].snap = ResultsOf(req[w].run) /\ req'[w].run = req[w].run
        BY <4>1, <4>2 DEF Busy
      <4>4. \A x \in req'[w].snap : x.run = req'[w].run
        BY <4>3 DEF ResultsOf
      <4>5. \A v \in Request \ {w} : req'[v] = req[v]
        BY <3>2 DEF Begin, TypeOK
      <4> QED
        BY <3>2, <4>4, <4>5 DEF Begin, SnapOwn, OffsetsOwn, ledger
    <3>3. CASE commit_allocation(w)
      <4> DEFINE made == {EntryFor(posting + 1, x) : x \in Unlinked(req[w].snap)}
                 fresh == [no |-> posting + 1, run |-> req[w].run, covers |-> made]
      <4>1. \A x \in Unlinked(req[w].snap) : x.run = req[w].run
        BY DEF SnapOwn, Unlinked
      <4>2. \A e \in fresh.covers : e.run = fresh.run
        BY <4>1 DEF EntryFor
      <4>3. offsets' \subseteq offsets \cup {fresh}
        BY <3>3 DEF commit_allocation
      <4>4. OffsetsOwn'
        BY <4>2, <4>3 DEF OffsetsOwn
      <4>5. SnapOwn'
        BY <3>3 DEF commit_allocation, Finish, Idle, SnapOwn, TypeOK
      <4> QED
        BY <4>4, <4>5
    <3>4. CASE reverse_allocation(w)
      BY <3>4, ReversedOffsets DEF reverse_allocation, Finish, Idle, SnapOwn, OffsetsOwn, TypeOK
    <3> QED
      BY <2>1, <3>1, <3>2, <3>3, <3>4 DEF Serve
  <2>2. ASSUME NEW w \in Request, NEW r \in Run, LoadRun(w, r) PROVE SnapOwn' /\ OffsetsOwn'
    BY <2>2 DEF LoadRun, SnapOwn, OffsetsOwn, TypeOK, ledger
  <2>3. CASE UNCHANGED <<req, offsets>>
    BY <2>3 DEF SnapOwn, OffsetsOwn
  <2> QED
    BY <2>1, <2>2, <2>3
       DEF Next, vars, simulate_allocation, allocation_rule_delete, close_period, reopen_period,
           ledger
<1> QED
  BY <1>1, <1>2, TypeCorrect, PTL DEF Spec

\* No offset has a number that is still to come.
LEMMA OffsetsInOrder == Spec => []OffsetsNumbered
<1>1. Init => OffsetsNumbered
  BY DEF Init, OffsetsNumbered
<1>2. TypeOK /\ OffsetsNumbered /\ [Next]_vars => OffsetsNumbered'
  <2> SUFFICES ASSUME TypeOK, OffsetsNumbered, [Next]_vars, NEW o \in offsets'
               PROVE  o.no <= posting'
    BY DEF OffsetsNumbered
  <2>1. posting \in Nat /\ \A p \in offsets : p.no \in Nat
    BY DEF TypeOK, Offset
  <2>2. ASSUME NEW w \in Request, commit_allocation(w) PROVE o.no <= posting'
    <3>1. posting' = posting + 1 /\ (o \in offsets \/ o.no = posting + 1)
      BY <2>2 DEF commit_allocation
    <3> QED
      BY <2>1, <3>1 DEF OffsetsNumbered
  <2>3. ASSUME NEW w \in Request, reverse_allocation(w) PROVE o.no <= posting'
    <3>1. posting' = posting /\ o \in offsets
      BY <2>3, ReversedOffsets DEF reverse_allocation
    <3> QED
      BY <3>1 DEF OffsetsNumbered
  <2>4. CASE UNCHANGED <<posting, offsets>>
    BY <2>4 DEF OffsetsNumbered
  <2> QED
    BY <2>2, <2>3, <2>4
       DEF Next, vars, ledger, Serve, Refuse, Begin, allocation_run_delete, Rollback, LoadRun,
           simulate_allocation, allocation_rule_delete, close_period, reopen_period
<1> QED
  BY <1>1, <1>2, TypeCorrect, PTL DEF Spec

\* A commit, with what it makes named.
LEMMA CommitBooks ==
  ASSUME TypeOK, NEW w \in Request, commit_allocation(w), NEW todo, NEW made,
         todo = Unlinked(req[w].snap),
         made = {EntryFor(posting + 1, x) : x \in todo}
  PROVE  /\ entries' = entries \cup made
         /\ results' = Relinked(todo, posting + 1)
         /\ posting + 1 \in Nat /\ posting + 1 # 0
BY DEF commit_allocation, TypeOK

\* An offset in the ledger is backed by every entry it was summed from.
THEOREM OffsetsAreBacked == Spec => []OffsetsBacked
<1>1. Init => OffsetsBacked
  BY DEF Init, OffsetsBacked
<1>2. TypeOK /\ SnapOwn /\ OffsetsOwn /\ OffsetsNumbered /\ OffsetsBacked /\ [Next]_vars
        => OffsetsBacked'
  <2> SUFFICES ASSUME TypeOK, SnapOwn, OffsetsOwn, OffsetsNumbered, OffsetsBacked, [Next]_vars,
                      NEW o \in offsets', NEW e \in o.covers
               PROVE  e \in entries'
    BY DEF OffsetsBacked
  <2>1. ASSUME NEW w \in Request, commit_allocation(w) PROVE e \in entries'
    <3> DEFINE todo == Unlinked(req[w].snap)
               made == {EntryFor(posting + 1, z) : z \in todo}
    <3>1. entries' = entries \cup made
      BY <2>1, CommitBooks
    <3>2. offsets' \subseteq
            offsets \cup {[no |-> posting + 1, run |-> req[w].run, covers |-> made]}
      BY <2>1 DEF commit_allocation
    <3>3. o \in offsets \/ o.covers = made
      BY <3>2
    <3> QED
      BY <3>1, <3>3 DEF OffsetsBacked
  <2>2. ASSUME NEW w \in Request, reverse_allocation(w) PROVE e \in entries'
    <3> DEFINE linked == Linked(req[w].snap)
    <3>1. /\ entries' = entries \ {EntryFor(z.link, z) : z \in linked}
          /\ o \in offsets /\ e \in entries
      BY <2>2, ReversedOffsets DEF reverse_allocation, OffsetsBacked
    <3>2. CASE linked = {}
      BY <3>1, <3>2
    <3>3. CASE linked # {}
      <4>1. e.run # req[w].run
        BY <2>2, <3>1, <3>3, ReversedOffsets DEF OffsetsOwn
      <4>2. \A z \in linked : EntryFor(z.link, z).run = req[w].run
        BY DEF SnapOwn, Linked, EntryFor
      <4> QED
        BY <3>1, <4>1, <4>2
    <3> QED
      BY <3>2, <3>3
  <2>3. CASE UNCHANGED <<entries, offsets>>
    BY <2>3 DEF OffsetsBacked
  <2> QED
    BY <2>1, <2>2, <2>3
       DEF Next, vars, ledger, Serve, Refuse, Begin, allocation_run_delete, Rollback, LoadRun,
           simulate_allocation, allocation_rule_delete, close_period, reopen_period
<1> QED
  BY <1>1, <1>2, TypeCorrect, OwnRowsOnly, OffsetsInOrder, PTL DEF Spec

(***************************************************************************)
(* The workflow of a run.                                                  *)
(***************************************************************************)

\* A request's step: it goes on in a transaction it was allowed to begin, or it ends; it
\* changes the status of no run but its own, and only when it ends.
LEMMA ServeRequest ==
  ASSUME TypeOK, NEW w \in Request, Serve(w)
  PROVE  /\ req[w].run \in Run
         /\ \A v \in Request \ {w} : req'[v] = req[v]
         /\ \/ req'[w] = Idle
            \/ /\ Begin(w) /\ run' = run
               /\ req'[w].run = req[w].run /\ req'[w].seen = req[w].seen
               /\ req'[w].op = req[w].op /\ req'[w].snap = ResultsOf(req[w].run)
         /\ \A r \in Run \ {req[w].run} : run'[r] = run[r]
         /\ clash' = clash /\ cascaded' = cascaded
<1>1. req[w].pc \in {"loaded", "begun"}
  BY DEF Serve, Refuse, Begin, commit_allocation, reverse_allocation, allocation_run_delete,
         Rollback, At, TypeOK, Busy
<1>2. req[w] \in Busy /\ req[w].run \in Run
  BY <1>1, BusyShape
<1>3. CASE Begin(w)
  <2>1. req'[w] = [req[w] EXCEPT !.pc = "begun", !.snap = ResultsOf(req[w].run),
                                !.since = posting]
    BY <1>3 DEF Begin, TypeOK
  <2>2. /\ req'[w].run = req[w].run /\ req'[w].seen = req[w].seen
        /\ req'[w].op = req[w].op /\ req'[w].snap = ResultsOf(req[w].run)
    BY <1>2, <2>1 DEF Busy
  <2> QED
    BY <1>2, <1>3, <2>2 DEF Begin, TypeOK, history
<1>4. CASE Finish(w) /\ run' = run /\ UNCHANGED history
  BY <1>2, <1>4 DEF Finish, TypeOK, history
<1>5. CASE \E s \in Status :
             Finish(w) /\ run' = [run EXCEPT ![req[w].run].status = s] /\ UNCHANGED history
  BY <1>2, <1>5 DEF Finish, TypeOK, history
<1> QED
  BY <1>3, <1>4, <1>5
     DEF Serve, Refuse, commit_allocation, reverse_allocation, allocation_run_delete, Rollback,
         Status

\* A transaction is begun only on a status that allows it, and the one request that is
\* busy with an undisturbed run has been shown the run's present status.
LEMMA RequestsKnowStatus == Spec => [](BegunAllowed /\ SoleRequest)
<1>1. Init => BegunAllowed /\ SoleRequest
  BY RunAssumption DEF Init, BegunAllowed, SoleRequest, BusyOn, Idle
<1>2. TypeOK /\ BegunAllowed /\ SoleRequest /\ [Next]_vars => BegunAllowed' /\ SoleRequest'
  <2> SUFFICES ASSUME TypeOK, BegunAllowed, SoleRequest, [Next]_vars
               PROVE  BegunAllowed' /\ SoleRequest'
    OBVIOUS
  <2>1. Idle.run \notin Run /\ Idle.pc = "idle"
    BY RunAssumption DEF Idle
  <2>2. ASSUME NEW w \in Request, Serve(w) PROVE BegunAllowed'
    <3>1. CASE Begin(w)
      <4>1. /\ req[w].op \in {"commit", "reverse"} /\ StatusAllows(req[w].op, req[w].seen)
            /\ req'[w].op = req[w].op /\ req'[w].seen = req[w].seen
        <5>1. req[w].op \in {"commit", "reverse", "delete"} /\ req[w] \in Busy
          BY <3>1, BusyShape DEF Begin
        <5>2. req'[w] = [req[w] EXCEPT !.pc = "begun", !.snap = ResultsOf(req[w].run),
                                !.since = posting]
          BY <3>1 DEF Begin, TypeOK
        <5> QED
          BY <3>1, <5>1, <5>2 DEF Begin, Busy
      <4>2. \A v \in Request \ {w} : req'[v] = req[v]
        BY <2>2, ServeRequest
      <4> QED
        BY <4>1, <4>2 DEF BegunAllowed, StatusAllows
    <3>2. CASE req'[w] = Idle
      BY <2>1, <2>2, <3>2, ServeRequest DEF BegunAllowed, StatusAllows
    <3> QED
      BY <2>2, <3>1, <3>2, ServeRequest
  <2>3. ASSUME NEW w \in Request, Serve(w) PROVE SoleRequest'
    <3> SUFFICES ASSUME NEW r \in Run, r \notin clash
                 PROVE  /\ \A w1, w2 \in BusyOn(r)' : w1 = w2
                        /\ \A v \in BusyOn(r)' : req'[v].seen = run'[r].status /\ Exists(r)'
      BY <2>3, ServeRequest DEF SoleRequest
    <3>1. \A v \in Request : req'[v].run = r => req[v].run = r /\ req'[v].seen = req[v].seen
      BY <2>1, <2>3, ServeRequest
    <3>2. BusyOn(r)' \subseteq BusyOn(r)
      BY <3>1 DEF BusyOn
    <3>3. CASE r # req[w].run \/ run' = run
      <4>1. run'[r] = run[r]
        BY <2>3, <3>3, ServeRequest
      <4> QED
        BY <3>1, <3>2, <4>1 DEF SoleRequest, BusyOn, Exists
    <3>4. CASE r = req[w].run /\ run' # run
      <4>1. req'[w] = Idle /\ BusyOn(r) = {w}
        BY <2>3, <3>4, ServeRequest DEF SoleRequest, BusyOn
      <4>2. BusyOn(r)' = {}
        BY <2>1, <3>2, <4>1 DEF BusyOn
      <4> QED
        BY <4>2
    <3> QED
      BY <3>3, <3>4
  <2>4. ASSUME NEW w \in Request, NEW q \in Run, LoadRun(w, q)
        PROVE  BegunAllowed' /\ SoleRequest'
    <3>1. /\ req[w] = Idle /\ Exists(q) /\ run' = run
          /\ clash' = IF BusyOn(q) = {} THEN clash ELSE clash \cup {q}
          /\ \A v \in Request \ {w} : req'[v] = req[v]
          /\ req'[w].pc = "loaded" /\ req'[w].run = q /\ req'[w].seen = run[q].status
      BY <2>4 DEF LoadRun, TypeOK
    <3>2. BegunAllowed'
      BY <3>1 DEF BegunAllowed, StatusAllows
    <3>3. ASSUME NEW r \in Run \ clash'
          PROVE  /\ \A w1, w2 \in BusyOn(r)' : w1 = w2
                 /\ \A v \in BusyOn(r)' : req'[v].seen = run'[r].status /\ Exists(r)'
      <4>1. CASE r # q
        <5>1. BusyOn(r)' = BusyOn(r) /\ w \notin BusyOn(r) /\ r \notin clash
          BY <2>1, <3>1, <3>3, <4>1 DEF BusyOn
        <5> QED
          BY <3>1, <5>1 DEF SoleRequest, Exists, BusyOn
      <4>2. CASE r = q
        <5>1. BusyOn(r) = {}
          BY <3>1, <3>3, <4>2
        <5>2. BusyOn(r)' = {w}
          BY <3>1, <4>2, <5>1 DEF BusyOn
        <5> QED
          BY <3>1, <4>2, <5>2 DEF Exists
      <4> QED
        BY <4>1, <4>2
    <3> QED
      BY <3>2, <3>3 DEF SoleRequest
  <2>5. ASSUME NEW q \in Run, NEW u \in Rule, simulate_allocation(q, u)
        PROVE  BegunAllowed' /\ SoleRequest'
    <3>1. /\ req' = req /\ clash' = clash /\ run[q].status = "ABSENT"
          /\ \A r \in Run \ {q} : run'[r] = run[r]
      BY <2>5 DEF simulate_allocation, history, TypeOK
    <3>2. q \notin clash => BusyOn(q) = {}
      BY <3>1 DEF SoleRequest, Exists
    <3>3. \A r \in Run : BusyOn(r)' = BusyOn(r)
      BY <3>1 DEF BusyOn
    <3>4. BegunAllowed'
      BY <3>1 DEF BegunAllowed, StatusAllows
    <3>5. ASSUME NEW r \in Run \ clash
          PROVE  /\ \A w1, w2 \in BusyOn(r) : w1 = w2
                 /\ \A w \in BusyOn(r) : req[w].seen = run'[r].status /\ Exists(r)'
      BY <3>1, <3>2 DEF SoleRequest, Exists
    <3> QED
      BY <3>1, <3>3, <3>4, <3>5 DEF SoleRequest
  <2>6. CASE UNCHANGED <<req, run, clash>>
    <3>1. BegunAllowed'
      BY <2>6 DEF BegunAllowed, StatusAllows
    <3>2. \A r \in Run : BusyOn(r)' = BusyOn(r) /\ Exists(r)' = Exists(r)
      BY <2>6 DEF BusyOn, Exists
    <3>3. SoleRequest'
      BY <2>6, <3>2 DEF SoleRequest
    <3> QED
      BY <3>1, <3>3
  <2> QED
    BY <2>2, <2>3, <2>4, <2>5, <2>6
       DEF Next, vars, history, allocation_rule_delete, close_period, reopen_period
<1> QED
  BY <1>1, <1>2, TypeCorrect, PTL DEF Spec

\* The status of a run follows the workflow unless two requests were busy with it at once.
THEOREM WorkflowKept == Spec => WorkflowUnlessClash
<1> DEFINE Moves(r) == <<run[r].status, run'[r].status>> \in
             {<<"ABSENT", "SIMULATED">>, <<"SIMULATED", "COMMITTED">>, <<"COMMITTED", "REVERSED">>,
              <<"SIMULATED", "DELETED">>, <<"REVERSED", "DELETED">>}
<1>1. ASSUME TypeOK, BegunAllowed, SoleRequest, [Next]_vars,
             NEW r \in Run, r \notin clash, run'[r].status # run[r].status
      PROVE  Moves(r)
  <2>1. ASSUME NEW q \in Run, NEW u \in Rule, simulate_allocation(q, u) PROVE Moves(r)
    BY <1>1, <2>1 DEF simulate_allocation, TypeOK
  <2>2. ASSUME NEW w \in Request, Serve(w) PROVE Moves(r)
    <3>1. req[w].run = r /\ w \in BusyOn(r)
      BY <1>1, <2>2, ServeRequest DEF BusyOn
    <3>2. req[w].seen = run[r].status /\ Exists(r)
      BY <1>1, <3>1 DEF SoleRequest
    <3>3. CASE commit_allocation(w)
      <4>1. run[r].status = "SIMULATED"
        BY <1>1, <3>2, <3>3 DEF commit_allocation, At, BegunAllowed, StatusAllows
      <4>2. run'[r].status = "COMMITTED"
        BY <1>1, <3>1, <3>3 DEF commit_allocation, TypeOK
      <4> QED
        BY <4>1, <4>2
    <3>4. CASE reverse_allocation(w)
      <4>1. run[r].status = "COMMITTED"
        BY <1>1, <3>2, <3>4 DEF reverse_allocation, At, BegunAllowed, StatusAllows
      <4>2. run'[r].status = "REVERSED"
        BY <1>1, <3>1, <3>4 DEF reverse_allocation, TypeOK
      <4> QED
        BY <4>1, <4>2
    <3>5. CASE allocation_run_delete(w)
      <4>1. run[r].status \in {"SIMULATED", "REVERSED"}
        BY <1>1, <3>2, <3>5 DEF allocation_run_delete, StatusAllows, Exists, TypeOK, Status
      <4>2. run'[r].status = "DELETED"
        BY <1>1, <3>1, <3>5 DEF allocation_run_delete, TypeOK
      <4> QED
        BY <4>1, <4>2
    <3> QED
      BY <1>1, <2>2, <3>3, <3>4, <3>5 DEF Serve, Refuse, Begin, Rollback
  <2> QED
    BY <1>1, <2>1, <2>2
       DEF Next, vars, allocation_rule_delete, close_period, reopen_period, LoadRun
<1>2. TypeOK /\ BegunAllowed /\ SoleRequest /\ [Next]_vars =>
        [\A r \in Run : r \notin clash /\ run'[r].status # run[r].status => Moves(r)]_vars
  BY <1>1
<1> QED
  BY <1>2, TypeCorrect, RequestsKnowStatus, PTL DEF Spec, WorkflowUnlessClash

(***************************************************************************)
(* The exact ledger.                                                       *)
(***************************************************************************)

\* A row whose link is saved is in the table afterwards.
LEMMA RelinkedImage ==
  ASSUME results \subseteq Result, NEW rows, NEW n \in Nat, NEW y \in results,
         \E z \in rows : SameRow(z, y)
  PROVE  \E x \in Relinked(rows, n) : SameRow(x, y) /\ x.amount = y.amount /\ x.link = n
<1>1. [y EXCEPT !.link = n] \in Relinked(rows, n)
  BY DEF Relinked
<1>2. y \in Result
  OBVIOUS
<1> QED
  BY <1>1, <1>2 DEF Result, SameRow

\* Saving links in rows of other runs leaves the results of a run as they are.
LEMMA RelinkedOthers ==
  ASSUME results \subseteq Result, NEW rows, NEW n \in Nat, NEW r,
         \A z \in rows : z.run # r
  PROVE  {x \in Relinked(rows, n) : x.run = r} = ResultsOf(r)
<1>1. ASSUME NEW x \in Relinked(rows, n), x.run = r PROVE x \in ResultsOf(r)
  BY <1>1, RelinkedRow DEF SameRow, ResultsOf
<1>2. ASSUME NEW y \in ResultsOf(r) PROVE y \in Relinked(rows, n)
  BY <1>2 DEF Relinked, ResultsOf, SameRow
<1> QED
  BY <1>1, <1>2 DEF ResultsOf

\* A request leaves the rows of every other run alone.
LEMMA ServeOthers ==
  ASSUME TypeOK, SnapOwn, NEW w \in Request, Serve(w), NEW r \in Run, r # req[w].run
  PROVE  /\ ResultsOf(r)' = ResultsOf(r)
         /\ EntriesOf(r)' = EntriesOf(r)
         /\ OffsetsOf(r)' = OffsetsOf(r)
         /\ run'[r] = run[r]
<1>1. run'[r] = run[r]
  BY ServeRequest
<1>2. results \subseteq Result /\ posting + 1 \in Nat
  BY DEF TypeOK
<1>3. CASE UNCHANGED <<results, entries, offsets>>
  BY <1>1, <1>3 DEF ResultsOf, EntriesOf, OffsetsOf
<1>4. CASE commit_allocation(w)
  <2> DEFINE todo == Unlinked(req[w].snap)
             made == {EntryFor(posting + 1, x) : x \in todo}
  <2>1. \A z \in todo : z.run # r
    BY DEF SnapOwn, Unlinked
  <2>2. /\ results' = Relinked(todo, posting + 1)
        /\ entries' = entries \cup made
        /\ offsets \subseteq offsets'
        /\ \A o \in offsets' \ offsets : o.run = req[w].run
    BY <1>4 DEF commit_allocation
  <2>3. \A e \in made : e.run # r
    BY <2>1 DEF EntryFor
  <2>4. ResultsOf(r)' = ResultsOf(r)
    BY <1>2, <2>1, <2>2, RelinkedOthers DEF ResultsOf
  <2> QED
    BY <1>1, <2>2, <2>3, <2>4 DEF EntriesOf, OffsetsOf
<1>5. CASE reverse_allocation(w)
  <2> DEFINE linked == Linked(req[w].snap)
  <2>1. \A z \in linked : z.run # r
    BY DEF SnapOwn, Linked
  <2>2. /\ results' = Relinked(linked, 0)
        /\ entries' = entries \ {EntryFor(x.link, x) : x \in linked}
        /\ offsets' \subseteq offsets
        /\ \A o \in offsets : o.run # req[w].run => o \in offsets'
    BY <1>5, ReversedOffsets DEF reverse_allocation
  <2>3. \A x \in linked : EntryFor(x.link, x).run # r
    BY <2>1 DEF EntryFor
  <2>4. ResultsOf(r)' = ResultsOf(r)
    BY <1>2, <2>1, <2>2, RelinkedOthers DEF ResultsOf
  <2> QED
    BY <1>1, <2>2, <2>3, <2>4 DEF EntriesOf, OffsetsOf
<1>6. CASE allocation_run_delete(w)
  BY <1>1, <1>6 DEF allocation_run_delete, ledger, ResultsOf, EntriesOf, OffsetsOf
<1> QED
  BY <1>3, <1>4, <1>5, <1>6 DEF Serve, Refuse, Begin, Rollback, ledger

\* A run has one result for each target, so an entry, which carries its posting and its
\* target, is the entry of one result.
THEOREM ResultsUnique == Spec => []OneResultPerTarget
<1>1. Init => OneResultPerTarget
  BY DEF Init, OneResultPerTarget
<1>2. TypeOK /\ TypeOK' /\ RowsFollowRun /\ OneResultPerTarget /\ [Next]_vars
        => OneResultPerTarget'
  <2> SUFFICES ASSUME TypeOK, TypeOK', RowsFollowRun, OneResultPerTarget, [Next]_vars,
                      NEW x \in results', NEW y \in results', SameRow(x, y)
               PROVE  x = y
    BY DEF OneResultPerTarget, SameRow
  <2>1. ASSUME NEW rows, NEW n \in Nat, results' = Relinked(rows, n) PROVE x = y
    <3>1. PICK x0 \in results :
            /\ SameRow(x, x0) /\ x.amount = x0.amount /\ x.rule = x0.rule
            /\ IF \E z \in rows : SameRow(z, x0) THEN x.link = n ELSE x = x0
      BY <2>1, RelinkedRow DEF TypeOK
    <3>2. PICK y0 \in results :
            /\ SameRow(y, y0) /\ y.amount = y0.amount /\ y.rule = y0.rule
            /\ IF \E z \in rows : SameRow(z, y0) THEN y.link = n ELSE y = y0
      BY <2>1, RelinkedRow DEF TypeOK
    <3>3. x0 = y0
      BY <3>1, <3>2 DEF OneResultPerTarget, SameRow
    <3>4. /\ x.run = y.run /\ x.target = y.target /\ x.amount = y.amount /\ x.rule = y.rule
          /\ x.link = y.link
      BY <3>1, <3>2, <3>3 DEF SameRow
    <3>5. x \in Result /\ y \in Result
      BY DEF TypeOK
    <3> QED
      BY <3>4, <3>5 DEF Result
  <2>2. ASSUME NEW r \in Run, NEW u \in Rule, simulate_allocation(r, u) PROVE x = y
    <3>1. PICK rows \in SUBSET Result :
            /\ results' = results \cup rows
            /\ \A z \in rows : z.run = r
            /\ \A z1, z2 \in rows : SameRow(z1, z2) => z1 = z2
      BY <2>2, SimulatedRows
    <3>2. \A z \in results : z.run # r
      BY <2>2 DEF RowsFollowRun, Seen, simulate_allocation
    <3> QED
      BY <3>1, <3>2 DEF SameRow, OneResultPerTarget
  <2>3. CASE results' \subseteq results
    BY <2>3 DEF OneResultPerTarget
  <2>4. ASSUME NEW w \in Request, commit_allocation(w) \/ reverse_allocation(w) PROVE x = y
    BY <2>1, <2>4 DEF commit_allocation, reverse_allocation, TypeOK
  <2> QED
    BY <2>2, <2>3, <2>4
       DEF Next, vars, Serve, Refuse, Begin, allocation_run_delete, Rollback, LoadRun,
           allocation_rule_delete, close_period, reopen_period
<1> QED
  BY <1>1, <1>2, TypeCorrect, RowsCorrect, PTL DEF Spec

\* A rule's deletion leaves the results of a run alone, or marks the run.
LEMMA RuleDeleteOthers ==
  ASSUME NEW u \in Rule, allocation_rule_delete(u), NEW r \in Run, r \notin cascaded'
  PROVE  ResultsOf(r)' = ResultsOf(r)
<1>1. \A x \in results : x.run = r => x.rule # u
  BY DEF allocation_rule_delete
<1> QED
  BY <1>1 DEF allocation_rule_delete, ResultsOf

\* The rows a transaction has read of an undisturbed run are the run's present rows.
LEMMA SnapshotsFresh == Spec => []SnapFresh
<1>1. Init => SnapFresh
  BY DEF Init, SnapFresh, Idle
<1>2. TypeOK /\ SnapOwn /\ SoleRequest /\ SnapFresh /\ [Next]_vars => SnapFresh'
  <2> SUFFICES ASSUME TypeOK, SnapOwn, SoleRequest, SnapFresh, [Next]_vars,
                      NEW w \in Request, req'[w].pc = "begun",
                      req'[w].run \notin clash' \cup cascaded'
               PROVE  req'[w].snap = {x \in results' : x.run = req'[w].run}
    BY DEF SnapFresh, ResultsOf
  <2>1. ASSUME req'[w] = req[w], clash' = clash, cascaded \subseteq cascaded'
        PROVE  /\ req[w].snap = ResultsOf(req[w].run) /\ req[w].run \in Run
               /\ req[w].run \notin clash /\ Exists(req[w].run)
    BY <2>1, BusyShape DEF SnapFresh, SoleRequest, BusyOn
  <2>2. ASSUME NEW v \in Request, Serve(v)
        PROVE  req'[w].snap = {x \in results' : x.run = req'[w].run}
    <3>1. CASE v = w
      <4>1. /\ Begin(w) /\ req'[w].run = req[w].run
            /\ req'[w].snap = ResultsOf(req[w].run)
        BY <2>2, <3>1, ServeRequest DEF Idle
      <4> QED
        BY <4>1 DEF Begin, ResultsOf
    <3>2. CASE v # w
      <4>1. req'[w] = req[w] /\ clash' = clash /\ cascaded' = cascaded
        BY <2>2, <3>2, ServeRequest
      <4>2. req[v].run # req[w].run
        BY <2>1, <3>2, <4>1 DEF SoleRequest, BusyOn
      <4>3. ResultsOf(req[w].run)' = ResultsOf(req[w].run)
        <5> DEFINE r == req[w].run
        <5>1. r \in Run /\ r # req[v].run
          BY <2>1, <4>1, <4>2
        <5>2. {x \in results' : x.run = r} = {x \in results : x.run = r}
          <6> HIDE DEF r
          <6> QED
            BY <2>2, <5>1, ServeOthers DEF ResultsOf
        <5> QED
          BY <4>1, <5>2 DEF ResultsOf
      <4> QED
        BY <2>1, <4>1, <4>3 DEF ResultsOf
    <3> QED
      BY <3>1, <3>2
  <2>3. ASSUME NEW v \in Request, NEW q \in Run, LoadRun(v, q)
        PROVE  req'[w].snap = {x \in results' : x.run = req'[w].run}
    <3>1. req'[w] = req[w] /\ clash \subseteq clash' /\ cascaded' = cascaded /\ results' = results
      BY <2>3 DEF LoadRun, TypeOK
    <3> QED
      BY <3>1 DEF SnapFresh, ResultsOf
  <2>4. ASSUME NEW q \in Run, NEW u \in Rule, simulate_allocation(q, u)
        PROVE  req'[w].snap = {x \in results' : x.run = req'[w].run}
    <3>1. PICK rows \in SUBSET Result : results' = results \cup rows /\ \A x \in rows : x.run = q
      BY <2>4, SimulatedRows
    <3>2. req' = req /\ clash' = clash /\ cascaded' = cascaded /\ ~ Exists(q)
      BY <2>4 DEF simulate_allocation, history, Exists
    <3>3. req[w].run # q
      BY <2>1, <3>2
    <3> QED
      BY <2>1, <3>1, <3>2, <3>3 DEF ResultsOf
  <2>5. ASSUME NEW u \in Rule, allocation_rule_delete(u)
        PROVE  req'[w].snap = {x \in results' : x.run = req'[w].run}
    <3>1. req' = req /\ clash' = clash /\ cascaded \subseteq cascaded'
      BY <2>5 DEF allocation_rule_delete
    <3>2. \A x \in results : x.run = req[w].run => x.rule # u
      BY <2>5, <3>1 DEF allocation_rule_delete
    <3> QED
      BY <2>1, <2>5, <3>1, <3>2 DEF allocation_rule_delete, ResultsOf
  <2>6. CASE UNCHANGED <<req, results, clash, cascaded>>
    BY <2>6 DEF SnapFresh, ResultsOf
  <2> QED
    BY <2>2, <2>3, <2>4, <2>5, <2>6 DEF Next, vars, history, close_period, reopen_period
<1> QED
  BY <1>1, <1>2, TypeCorrect, OwnRowsOnly, RequestsKnowStatus, PTL DEF Spec

\* The books of a run depend on its status and rows only.
LEMMA SameBooks ==
  ASSUME NEW r \in Run, BooksAreExact(r),
         run'[r].status = run[r].status, ResultsOf(r)' = ResultsOf(r),
         EntriesOf(r)' = EntriesOf(r), OffsetsOf(r)' = OffsetsOf(r)
  PROVE  BooksAreExact(r)'
BY DEF BooksAreExact

\* A commit of an undisturbed run posts every result once and offsets them together.
LEMMA CommitExact ==
  ASSUME TypeOK, NEW w \in Request, commit_allocation(w), req[w].run \in Run,
         req[w].snap = ResultsOf(req[w].run), run[req[w].run].status = "SIMULATED",
         BooksAreExact(req[w].run), NEW r, r = req[w].run
  PROVE  BooksAreExact(r)'
<1> DEFINE n == posting + 1
           todo == Unlinked(req[w].snap)
           made == {EntryFor(n, x) : x \in todo}
           fresh == [no |-> n, run |-> r, covers |-> made]
<1>1. /\ entries' = entries \cup made
      /\ results' = Relinked(todo, n)
      /\ n \in Nat /\ n # 0
  BY CommitBooks
<1>2. offsets' = offsets \cup {o \in {fresh} : \E e \in made : e.amount > 0}
  BY DEF commit_allocation
<1>3. results \subseteq Result
  BY DEF TypeOK
<1>4. /\ todo = ResultsOf(r)
      /\ EntriesOf(r) = {} /\ OffsetsOf(r) = {}
  BY DEF BooksAreExact, Unlinked
<1>5. run'[r].status = "COMMITTED"
  BY DEF commit_allocation, TypeOK
<1>6. ASSUME NEW x \in results', x.run = r
      PROVE  x.link = n /\ EntryFor(x.link, x) \in made
  <2>1. PICK y \in results :
          /\ SameRow(x, y) /\ x.amount = y.amount
          /\ IF \E z \in todo : SameRow(z, y) THEN x.link = n ELSE x = y
    BY <1>1, <1>3, RelinkedRow
  <2>2. y \in todo /\ SameRow(y, y)
    BY <1>4, <1>6, <2>1 DEF ResultsOf, SameRow
  <2>3. x.link = n /\ EntryFor(x.link, x) = EntryFor(n, y)
    BY <2>1, <2>2 DEF EntryFor, SameRow
  <2> QED
    BY <2>2, <2>3
<1>7. ASSUME NEW y \in todo
      PROVE  \E x \in results' : x.run = r /\ EntryFor(n, y) = EntryFor(x.link, x)
  <2>1. y \in results /\ y.run = r /\ SameRow(y, y)
    BY <1>4 DEF ResultsOf, SameRow
  <2>2. PICK x \in Relinked(todo, n) : SameRow(x, y) /\ x.amount = y.amount /\ x.link = n
    BY <1>1, <1>3, <2>1, RelinkedImage
  <2> QED
    BY <1>1, <2>1, <2>2 DEF EntryFor, SameRow
<1>8. \A e \in made : e.run = r
  BY <1>4 DEF EntryFor, ResultsOf
<1>9. EntriesOf(r)' = made
  BY <1>1, <1>4, <1>8 DEF EntriesOf
<1>10. OffsetsOf(r)' = {o \in {fresh} : \E e \in made : e.amount > 0}
  BY <1>2, <1>4 DEF OffsetsOf
<1>11. \A x \in ResultsOf(r)' : x.link # 0
  BY <1>1, <1>6 DEF ResultsOf
<1>12. made = {EntryFor(x.link, x) : x \in ResultsOf(r)'}
  <2>1. \A x \in ResultsOf(r)' : EntryFor(x.link, x) \in made
    BY <1>6 DEF ResultsOf
  <2>2. \A e \in made : \E x \in ResultsOf(r)' : e = EntryFor(x.link, x)
    BY <1>7 DEF ResultsOf
  <2> HIDE DEF made
  <2> QED
    BY <2>1, <2>2
<1>13. fresh.covers = made
  OBVIOUS
<1> HIDE DEF made, fresh
<1>14. /\ \A o \in OffsetsOf(r)' : o.covers = made
       /\ \A o1, o2 \in OffsetsOf(r)' : o1 = o2
       /\ OffsetsOf(r)' # {} <=> \E e \in made : e.amount > 0
  BY <1>10, <1>13
<1> QED
  BY <1>5, <1>9, <1>11, <1>12, <1>14 DEF BooksAreExact, EntryFor

\* A reversal of an undisturbed run takes all of it back.
LEMMA ReverseExact ==
  ASSUME TypeOK, OffsetsNumbered, NEW w \in Request, reverse_allocation(w), req[w].run \in Run,
         req[w].snap = ResultsOf(req[w].run), run[req[w].run].status = "COMMITTED",
         BooksAreExact(req[w].run), NEW r, r = req[w].run
  PROVE  BooksAreExact(r)'
<1>1. /\ Linked(req[w].snap) = ResultsOf(r)
      /\ EntriesOf(r) = {EntryFor(x.link, x) : x \in ResultsOf(r)}
  BY DEF BooksAreExact, Linked
<1>2. /\ entries' = entries \ EntriesOf(r)
      /\ results' = Relinked(ResultsOf(r), 0)
  BY <1>1 DEF reverse_allocation
<1>3. run'[r].status = "REVERSED"
  BY DEF reverse_allocation, TypeOK
<1>4. EntriesOf(r)' = {} /\ OffsetsOf(r)' = {}
  <2>1. EntriesOf(r)' = {}
    BY <1>2 DEF EntriesOf
  <2>2. CASE ResultsOf(r) = {}
    <3>1. EntriesOf(r) = {}
      BY <1>1, <2>2
    <3>2. OffsetsOf(r) = {}
      BY <3>1 DEF BooksAreExact
    <3> QED
      BY <2>1, <3>2, ReversedOffsets DEF OffsetsOf
  <2>3. CASE ResultsOf(r) # {}
    BY <1>1, <2>1, <2>3, ReversedOffsets DEF OffsetsOf
  <2> QED
    BY <2>2, <2>3
<1>5. ASSUME NEW x \in results', x.run = r PROVE x.link = 0
  <2>1. PICK y \in results :
          /\ SameRow(x, y)
          /\ IF \E z \in ResultsOf(r) : SameRow(z, y) THEN x.link = 0 ELSE x = y
    BY <1>2, RelinkedRow DEF TypeOK
  <2>2. y \in ResultsOf(r) /\ SameRow(y, y)
    BY <1>5, <2>1 DEF ResultsOf, SameRow
  <2> QED
    BY <2>1, <2>2
<1>6. \A x \in ResultsOf(r)' : x.link = 0
  BY <1>5 DEF ResultsOf
<1> QED
  BY <1>3, <1>4, <1>6 DEF BooksAreExact

\* The ledger is exact for every run that was not disturbed.
THEOREM LedgerIsExact == Spec => []ExactUnlessDisturbed
<1>1. Init => ExactUnlessDisturbed
  BY DEF Init, ExactUnlessDisturbed, BooksAreExact, ResultsOf, EntriesOf, OffsetsOf
<1>2. TypeOK /\ SnapOwn /\ OffsetsNumbered /\ BegunAllowed /\ SoleRequest /\ SnapFresh
        /\ ExactUnlessDisturbed /\ [Next]_vars => ExactUnlessDisturbed'
  <2> SUFFICES ASSUME TypeOK, SnapOwn, OffsetsNumbered, BegunAllowed, SoleRequest, SnapFresh,
                      ExactUnlessDisturbed, [Next]_vars,
                      NEW r \in Run, r \notin clash' \cup cascaded'
               PROVE  BooksAreExact(r)'
    BY DEF ExactUnlessDisturbed
  <2>1. ASSUME clash \subseteq clash', cascaded \subseteq cascaded' PROVE BooksAreExact(r)
    BY <2>1 DEF ExactUnlessDisturbed
  <2>2. ASSUME NEW w \in Request, Serve(w) PROVE BooksAreExact(r)'
    <3>1. r \notin clash \cup cascaded /\ BooksAreExact(r)
      BY <2>1, <2>2, ServeRequest
    <3>2. CASE r # req[w].run
      BY <2>2, <3>1, <3>2, ServeOthers, SameBooks
    <3>3. CASE r = req[w].run
      <4>1. req[w].seen = run[r].status
        BY <3>1, <3>3 DEF SoleRequest, BusyOn
      <4>2. CASE commit_allocation(w)
        <5>1. run[r].status = "SIMULATED"
          BY <4>1, <4>2 DEF commit_allocation, At, BegunAllowed, StatusAllows
        <5>2. req[w].snap = ResultsOf(r)
          BY <3>1, <3>3, <4>2 DEF commit_allocation, At, SnapFresh
        <5> QED
          BY <3>1, <3>3, <4>2, <5>1, <5>2, CommitExact
      <4>3. CASE reverse_allocation(w)
        <5>1. run[r].status = "COMMITTED"
          BY <4>1, <4>3 DEF reverse_allocation, At, BegunAllowed, StatusAllows
        <5>2. req[w].snap = ResultsOf(r)
          BY <3>1, <3>3, <4>3 DEF reverse_allocation, At, SnapFresh
        <5> QED
          BY <3>1, <3>3, <4>3, <5>1, <5>2, ReverseExact
      <4>4. CASE allocation_run_delete(w)
        <5>1. EntriesOf(r) = {} /\ OffsetsOf(r) = {}
          BY <3>1, <3>3, <4>1, <4>4 DEF allocation_run_delete, StatusAllows, BooksAreExact
        <5>2. /\ run'[r].status = "DELETED" /\ ResultsOf(r)' = {}
              /\ EntriesOf(r)' = {} /\ OffsetsOf(r)' = {}
          BY <3>3, <4>4, <5>1
             DEF allocation_run_delete, ledger, TypeOK, ResultsOf, EntriesOf, OffsetsOf
        <5> QED
          BY <5>2 DEF BooksAreExact
      <4>5. CASE UNCHANGED <<run, results, ledger>>
        BY <3>1, <4>5, SameBooks DEF ledger, ResultsOf, EntriesOf, OffsetsOf
      <4> QED
        BY <2>2, <4>2, <4>3, <4>4, <4>5 DEF Serve, Refuse, Begin, Rollback
    <3> QED
      BY <3>2, <3>3
  <2>3. ASSUME NEW q \in Run, NEW u \in Rule, simulate_allocation(q, u) PROVE BooksAreExact(r)'
    <3>1. PICK rows \in SUBSET Result :
            results' = results \cup rows /\ \A x \in rows : x.run = q /\ x.link = 0
      BY <2>3, SimulatedRows
    <3>2. /\ EntriesOf(r)' = EntriesOf(r) /\ OffsetsOf(r)' = OffsetsOf(r)
          /\ clash' = clash /\ cascaded' = cascaded
      BY <2>3 DEF simulate_allocation, ledger, history, EntriesOf, OffsetsOf
    <3>3. BooksAreExact(r)
      BY <2>1, <3>2
    <3>4. CASE r # q
      <4>1. ResultsOf(r)' = ResultsOf(r) /\ run'[r] = run[r]
        BY <2>3, <3>1, <3>4 DEF ResultsOf, simulate_allocation, TypeOK
      <4> QED
        BY <3>2, <3>3, <4>1, SameBooks
    <3>5. CASE r = q
      <4>1. run[r].status = "ABSENT" /\ run'[r].status = "SIMULATED"
        BY <2>3, <3>5 DEF simulate_allocation, TypeOK
      <4>2. /\ \A x \in ResultsOf(r) : x.link = 0
            /\ EntriesOf(r) = {} /\ OffsetsOf(r) = {}
        BY <3>3, <4>1 DEF BooksAreExact
      <4>3. \A x \in ResultsOf(r)' : x.link = 0
        BY <3>1, <4>2 DEF ResultsOf
      <4> QED
        BY <3>2, <4>1, <4>2, <4>3 DEF BooksAreExact
    <3> QED
      BY <3>4, <3>5
  <2>4. ASSUME NEW u \in Rule, allocation_rule_delete(u) PROVE BooksAreExact(r)'
    <3>1. ResultsOf(r)' = ResultsOf(r)
      BY <2>4, RuleDeleteOthers
    <3>2. /\ EntriesOf(r)' = EntriesOf(r) /\ OffsetsOf(r)' = OffsetsOf(r) /\ run' = run
          /\ clash' = clash /\ cascaded \subseteq cascaded'
      BY <2>4 DEF allocation_rule_delete, ledger, EntriesOf, OffsetsOf
    <3> QED
      BY <2>1, <3>1, <3>2, SameBooks
  <2>5. CASE /\ UNCHANGED <<run, results, ledger, cascaded>>
             /\ clash \subseteq clash'
    BY <2>1, <2>5, SameBooks DEF ledger, ResultsOf, EntriesOf, OffsetsOf
  <2> QED
    BY <2>2, <2>3, <2>4, <2>5 DEF Next, vars, ledger, history, close_period, reopen_period, LoadRun
<1> QED
  BY <1>1, <1>2, TypeCorrect, OwnRowsOnly, OffsetsInOrder, RequestsKnowStatus, SnapshotsFresh, PTL
     DEF Spec

(***************************************************************************)
(* How often a run can be posted.                                          *)
(***************************************************************************)

\* The requests that may yet commit a run: they hold it as it was before any commit.
Committing(r) ==
  {w \in Request : req[w].op = "commit" /\ req[w].run = r /\ req[w].seen = "SIMULATED"}

Fresh(r) == run[r].status \in {"ABSENT", "SIMULATED"}

\* A fresh run has no posting.  Afterwards nobody joins those who may commit it, and each of
\* them leaves with the posting it makes.
PostingsCounted ==
  \A r \in Run :
    /\ IsFiniteSet(Standing(r))
    /\ Fresh(r) => Standing(r) = {}
    /\ ~ Fresh(r) => Cardinality(Standing(r)) + Cardinality(Committing(r)) <= Cardinality(Request)

\* The requests that may commit a run are finitely many, no more than there are requests.
LEMMA CommittingBounded ==
  ASSUME NEW S \in SUBSET Request
  PROVE  IsFiniteSet(S) /\ Cardinality(S) \in Nat /\ Cardinality(S) <= Cardinality(Request)
         /\ Cardinality(Request) \in Nat
BY RunAssumption, FS_Subset, FS_CardinalityType

\* Fewer postings and fewer requests keep the count.
LEMMA CountKept ==
  ASSUME NEW S, IsFiniteSet(S), NEW T \in SUBSET S, NEW C \in SUBSET Request,
         NEW D \in SUBSET C
  PROVE  /\ IsFiniteSet(T)
         /\ Cardinality(S) + Cardinality(C) <= Cardinality(Request)
              => Cardinality(T) + Cardinality(D) <= Cardinality(Request)
         /\ S = {} => Cardinality(T) + Cardinality(D) <= Cardinality(Request)
<1>1. IsFiniteSet(T) /\ Cardinality(T) <= Cardinality(S)
      /\ Cardinality(T) \in Nat /\ Cardinality(S) \in Nat
  BY FS_Subset, FS_CardinalityType
<1>2. D \in SUBSET Request
  OBVIOUS
<1>3. IsFiniteSet(C) /\ Cardinality(C) \in Nat /\ Cardinality(Request) \in Nat
  BY CommittingBounded
<1>4. Cardinality(D) \in Nat /\ Cardinality(D) <= Cardinality(Request)
  BY <1>2, CommittingBounded
<1>5. Cardinality(D) <= Cardinality(C)
  BY <1>3, FS_Subset
<1>6. S = {} => Cardinality(S) = 0
  BY FS_EmptySet
<1> QED
  BY <1>1, <1>3, <1>4, <1>5, <1>6

\* One posting more and one request less keep it too.
LEMMA CountMoved ==
  ASSUME NEW S, IsFiniteSet(S), NEW n, NEW T \in SUBSET (S \cup {n}),
         NEW C \in SUBSET Request, NEW w \in C, NEW D \in SUBSET (C \ {w})
  PROVE  /\ IsFiniteSet(T)
         /\ Cardinality(S) + Cardinality(C) <= Cardinality(Request)
              => Cardinality(T) + Cardinality(D) <= Cardinality(Request)
         /\ S = {} => Cardinality(T) + Cardinality(D) <= Cardinality(Request)
<1>1. /\ IsFiniteSet(S \cup {n}) /\ Cardinality(S \cup {n}) <= Cardinality(S) + 1
      /\ Cardinality(S) \in Nat /\ Cardinality(S \cup {n}) \in Nat
  <2>1. /\ IsFiniteSet(S \cup {n})
        /\ Cardinality(S \cup {n}) = IF n \in S THEN Cardinality(S) ELSE Cardinality(S) + 1
    BY FS_AddElement
  <2>2. Cardinality(S) \in Nat /\ Cardinality(S \cup {n}) \in Nat
    BY <2>1, FS_CardinalityType
  <2> QED
    BY <2>1, <2>2
<1>2. IsFiniteSet(T) /\ Cardinality(T) <= Cardinality(S \cup {n}) /\ Cardinality(T) \in Nat
  BY <1>1, FS_Subset, FS_CardinalityType
<1>3. /\ IsFiniteSet(C) /\ Cardinality(C) \in Nat /\ Cardinality(Request) \in Nat
      /\ Cardinality(C) <= Cardinality(Request)
  BY CommittingBounded
<1>4. /\ IsFiniteSet(C \ {w}) /\ Cardinality(C \ {w}) = Cardinality(C) - 1
      /\ Cardinality(C \ {w}) \in Nat
  BY <1>3, FS_RemoveElement, FS_CardinalityType
<1>5. Cardinality(D) <= Cardinality(C) - 1 /\ Cardinality(D) \in Nat
  BY <1>4, FS_Subset, FS_CardinalityType
<1>6. S = {} => Cardinality(S) = 0
  BY FS_EmptySet
<1> QED
  BY <1>1, <1>2, <1>3, <1>5, <1>6

\* Only a commit adds to the postings of a run, and the request that makes it is done.
LEMMA ServePostings ==
  ASSUME TypeOK, SnapOwn, BegunAllowed, NEW w \in Request, Serve(w), NEW r \in Run
  PROVE  /\ Committing(r)' \subseteq Committing(r)
         /\ \/ Standing(r)' \subseteq Standing(r)
            \/ /\ \E n : Standing(r)' \subseteq Standing(r) \cup {n}
               /\ w \in Committing(r) /\ Committing(r)' \subseteq Committing(r) \ {w}
         /\ Fresh(r)' => Fresh(r) /\ Standing(r)' \subseteq Standing(r)
<1>1. Idle.run # r /\ Idle.op # "commit"
  BY RunAssumption DEF Idle
<1>2. Committing(r)' \subseteq Committing(r)
  BY <1>1, ServeRequest DEF Committing
<1>3. CASE r # req[w].run
  <2>1. EntriesOf(r)' = EntriesOf(r) /\ OffsetsOf(r)' = OffsetsOf(r) /\ run'[r] = run[r]
    BY <1>3, ServeOthers
  <2> QED
    BY <1>2, <2>1 DEF Standing, Fresh
<1>4. CASE r = req[w].run
  <2>1. CASE commit_allocation(w)
    <3> DEFINE todo == Unlinked(req[w].snap)
               made == {EntryFor(posting + 1, x) : x \in todo}
    <3>1. entries' = entries \cup made
      BY <2>1, CommitBooks
    <3>2. offsets' \subseteq offsets \cup {[no |-> posting + 1, run |-> r, covers |-> made]}
      BY <1>4, <2>1 DEF commit_allocation
    <3>3. \A e \in made : e.no = posting + 1
      BY DEF EntryFor
    <3> HIDE DEF made
    <3>4. \A e \in EntriesOf(r)' : e \in EntriesOf(r) \/ e.no = posting + 1
      BY <3>1, <3>3 DEF EntriesOf
    <3>5. \A o \in OffsetsOf(r)' : o \in OffsetsOf(r) \/ o.no = posting + 1
      BY <3>2 DEF OffsetsOf
    <3>6. Standing(r)' \subseteq Standing(r) \cup {posting + 1}
      BY <3>4, <3>5 DEF Standing
    <3>7. w \in Committing(r)
      BY <1>4, <2>1 DEF commit_allocation, At, BegunAllowed, StatusAllows, Committing
    <3>8. req'[w] = Idle
      BY <2>1 DEF commit_allocation, Finish, TypeOK
    <3>9. w \notin Committing(r)'
      BY <1>1, <3>8 DEF Committing
    <3>10. ~ Fresh(r)'
      BY <1>4, <2>1 DEF commit_allocation, TypeOK, Fresh
    <3> QED
      BY <1>2, <3>6, <3>7, <3>9, <3>10
  <2>2. CASE reverse_allocation(w)
    <3>1. entries' \subseteq entries /\ offsets' \subseteq offsets
      BY <2>2, ReversedOffsets DEF reverse_allocation
    <3>2. Standing(r)' \subseteq Standing(r)
      BY <3>1 DEF Standing, EntriesOf, OffsetsOf
    <3>3. ~ Fresh(r)'
      BY <1>4, <2>2 DEF reverse_allocation, TypeOK, Fresh
    <3> QED
      BY <1>2, <3>2, <3>3
  <2>3. CASE allocation_run_delete(w)
    <3>1. Standing(r)' = Standing(r)
      BY <2>3 DEF allocation_run_delete, ledger, Standing, EntriesOf, OffsetsOf
    <3>2. ~ Fresh(r)'
      BY <1>4, <2>3 DEF allocation_run_delete, TypeOK, Fresh
    <3> QED
      BY <1>2, <3>1, <3>2
  <2>4. CASE UNCHANGED <<run, entries, offsets>>
    BY <1>2, <2>4 DEF Standing, EntriesOf, OffsetsOf, Fresh
  <2> QED
    BY <2>1, <2>2, <2>3, <2>4 DEF Serve, Refuse, Begin, Rollback, ledger
<1> QED
  BY <1>3, <1>4

\* No step but a request's adds to the postings of a run, and once the run is committed
\* nobody else may commit it.
LEMMA OtherPostings ==
  ASSUME TypeOK, [Next]_vars, ~ \E w \in Request : Serve(w), NEW r \in Run
  PROVE  /\ Standing(r)' = Standing(r)
         /\ Fresh(r)' <=> Fresh(r)
         /\ ~ Fresh(r) => Committing(r)' \subseteq Committing(r)
<1>1. entries' = entries /\ offsets' = offsets
  BY DEF Next, vars, ledger, simulate_allocation, allocation_rule_delete, close_period,
         reopen_period, LoadRun
<1>2. Standing(r)' = Standing(r)
  BY <1>1 DEF Standing, EntriesOf, OffsetsOf
<1>3. ASSUME NEW w \in Request, NEW q \in Run, LoadRun(w, q)
      PROVE  /\ Fresh(r)' <=> Fresh(r)
             /\ ~ Fresh(r) => Committing(r)' \subseteq Committing(r)
  <2>1. /\ run' = run
        /\ \A v \in Request \ {w} : req'[v] = req[v]
        /\ req'[w].run = q /\ req'[w].seen = run[q].status
    BY <1>3 DEF LoadRun, TypeOK
  <2> QED
    BY <2>1 DEF Fresh, Committing
<1>4. ASSUME NEW q \in Run, NEW u \in Rule, simulate_allocation(q, u)
      PROVE  /\ Fresh(r)' <=> Fresh(r)
             /\ ~ Fresh(r) => Committing(r)' \subseteq Committing(r)
  <2>1. run[q].status = "ABSENT" /\ run' = [run EXCEPT ![q].status = "SIMULATED"] /\ req' = req
    BY <1>4 DEF simulate_allocation
  <2>2. Committing(r)' \subseteq Committing(r)
    BY <2>1 DEF Committing
  <2>3. Fresh(r)' <=> Fresh(r)
    <3>1. CASE r = q
      <4>1. run'[r].status = "SIMULATED"
        BY <2>1, <3>1 DEF TypeOK
      <4> QED
        BY <2>1, <3>1, <4>1 DEF Fresh
    <3>2. CASE r # q
      BY <2>1, <3>2 DEF TypeOK, Fresh
    <3> QED
      BY <3>1, <3>2
  <2> QED
    BY <2>2, <2>3
<1>5. ASSUME UNCHANGED <<run, req>>
      PROVE  /\ Fresh(r)' <=> Fresh(r)
             /\ ~ Fresh(r) => Committing(r)' \subseteq Committing(r)
  BY <1>5 DEF Fresh, Committing
<1> QED
  BY <1>2, <1>3, <1>4, <1>5
     DEF Next, vars, allocation_rule_delete, close_period, reopen_period

\* A run stands in the ledger no more often than there are requests.
THEOREM PostedOnce == Spec => []PostedOncePerRequest
<1>1. Init => PostingsCounted
  <2> SUFFICES ASSUME Init, NEW r \in Run
               PROVE  IsFiniteSet(Standing(r)) /\ Standing(r) = {} /\ Fresh(r)
    BY DEF PostingsCounted
  <2>1. Standing(r) = {}
    BY DEF Init, Standing, EntriesOf, OffsetsOf
  <2> QED
    BY <2>1, FS_EmptySet DEF Init, Fresh
<1>2. TypeOK /\ SnapOwn /\ BegunAllowed /\ PostingsCounted /\ [Next]_vars => PostingsCounted'
  <2> SUFFICES ASSUME TypeOK, SnapOwn, BegunAllowed, PostingsCounted, [Next]_vars,
                      NEW r \in Run
               PROVE  /\ IsFiniteSet(Standing(r)')
                      /\ Fresh(r)' => Standing(r)' = {}
                      /\ ~ Fresh(r)' => Cardinality(Standing(r)') + Cardinality(Committing(r)')
                                          <= Cardinality(Request)
    BY DEF PostingsCounted
  <2>1. /\ IsFiniteSet(Standing(r))
        /\ Fresh(r) => Standing(r) = {}
        /\ ~ Fresh(r) => Cardinality(Standing(r)) + Cardinality(Committing(r))
                           <= Cardinality(Request)
    BY DEF PostingsCounted
  <2>2. Committing(r) \in SUBSET Request /\ Committing(r)' \in SUBSET Request
    BY DEF Committing
  <2>3. ASSUME NEW w \in Request, Serve(w)
        PROVE  /\ IsFiniteSet(Standing(r)')
               /\ Fresh(r)' => Standing(r)' = {}
               /\ ~ Fresh(r)' => Cardinality(Standing(r)') + Cardinality(Committing(r)')
                                   <= Cardinality(Request)
    <3>1. /\ Committing(r)' \subseteq Committing(r)
          /\ \/ Standing(r)' \subseteq Standing(r)
             \/ /\ \E n : Standing(r)' \subseteq Standing(r) \cup {n}
                /\ w \in Committing(r) /\ Committing(r)' \subseteq Committing(r) \ {w}
          /\ Fresh(r)' => Fresh(r) /\ Standing(r)' \subseteq Standing(r)
      BY <2>3, ServePostings
    <3>2. Fresh(r)' => Standing(r)' = {}
      BY <2>1, <3>1
    <3>3. CASE Standing(r)' \subseteq Standing(r)
      BY <2>1, <2>2, <3>1, <3>2, <3>3, CountKept
    <3>4. ASSUME NEW n, Standing(r)' \subseteq Standing(r) \cup {n},
                 w \in Committing(r), Committing(r)' \subseteq Committing(r) \ {w}
          PROVE  /\ IsFiniteSet(Standing(r)')
                 /\ Cardinality(Standing(r)') + Cardinality(Committing(r)')
                      <= Cardinality(Request)
      BY <2>1, <2>2, <3>4, CountMoved
    <3> QED
      BY <3>1, <3>2, <3>3, <3>4
  <2>4. CASE ~ \E w \in Request : Serve(w)
    <3>1. /\ Standing(r)' = Standing(r)
          /\ Fresh(r)' <=> Fresh(r)
          /\ ~ Fresh(r) => Committing(r)' \subseteq Committing(r)
      BY <2>4, OtherPostings
    <3> QED
      BY <2>1, <2>2, <3>1, CountKept
  <2> QED
    BY <2>3, <2>4
<1>3. PostingsCounted => PostedOncePerRequest
  <2> SUFFICES ASSUME PostingsCounted, NEW r \in Run
               PROVE  Cardinality(Standing(r)) <= Cardinality(Request)
    BY DEF PostedOncePerRequest
  <2>1. Committing(r) \in SUBSET Request
    BY DEF Committing
  <2>2. /\ Cardinality(Standing(r)) \in Nat /\ Cardinality(Committing(r)) \in Nat
        /\ Cardinality(Request) \in Nat
    BY <2>1, CommittingBounded, FS_CardinalityType DEF PostingsCounted
  <2>3. CASE Fresh(r)
    BY <2>2, <2>3, FS_EmptySet DEF PostingsCounted
  <2>4. CASE ~ Fresh(r)
    BY <2>2, <2>4 DEF PostingsCounted
  <2> QED
    BY <2>3, <2>4
<1> QED
  BY <1>1, <1>2, <1>3, TypeCorrect, OwnRowsOnly, RequestsKnowStatus, PTL DEF Spec

=============================================================================
