--------------------------- MODULE AllocationRuns ---------------------------
(***************************************************************************)
(* Standard cost allocation (src/apps/evaluation): a run is simulated,     *)
(* committed to the cost ledger and reversed, or deleted; a rule may be    *)
(* deleted with all its results.                                           *)
(*                                                                         *)
(* A commit or reversal is one transaction under READ COMMITTED, without   *)
(* any lock on the run.  The view reads the run first, and the service     *)
(* looks at the status of that object, however old it is (views.py:1047,   *)
(* costing.py:327).  A request therefore goes through                      *)
(*     idle -> loaded (the view has the run and the status it had then)    *)
(*          -> begun  (checks passed, the results are read)                *)
(*          -> idle   (writes and COMMIT, or rollback).                    *)
(* The writes of one transaction are a single step: the row locks of its   *)
(* UPDATEs put two transactions that write the same results in order, and  *)
(* nobody sees its INSERTs before it commits.  A reversal that finds no    *)
(* result to unlink waits for nobody until it saves the run, so it may     *)
(* have looked for offsets at any time since it began.                     *)
(***************************************************************************)
EXTENDS Naturals, FiniteSets

CONSTANTS
  Run,            \* primary keys of AllocationRun
  Rule,           \* allocation rules
  DeletableRule,  \* the rules somebody may delete
  Target,         \* what a rule allocates to (projects, departments, employees)
  Amount,         \* the amounts a share of the source cost can come to
  Period,         \* accounting periods
  Request,        \* requests in progress at once
  MaxPostings,    \* bound on the commits that write to the ledger
  Nil             \* no run

ASSUME RunAssumption ==
  /\ Amount \subseteq Nat
  /\ Nil \notin Run
  /\ DeletableRule \subseteq Rule
  /\ IsFiniteSet(Request)
  /\ MaxPostings \in Nat

VARIABLES
  rules,          \* the rules that exist
  closed,         \* the periods that are closed
  run,            \* AllocationRun: period and status
  results,        \* AllocationResult rows
  entries,        \* CostEntry rows made for a result (source ALLOCATION)
  offsets,        \* CostEntry rows made to offset a posting
  posting,        \* how many commits have written to the ledger so far
  req,            \* the request each worker is serving
  clash,          \* the runs two requests were ever busy with at once
  cascaded        \* the runs that lost results with their rule

vars == <<rules, closed, run, results, entries, offsets, posting, req, clash, cascaded>>
ledger == <<entries, offsets, posting>>
history == <<clash, cascaded>>

----------------------------------------------------------------------------
(* Types.  A row's link is its cost_entry: 0 for NULL, else the number of  *)
(* the posting that made the entry; with the target it names the entry.    *)
(* An offset remembers the entries its amount was summed from.             *)

Status == {"ABSENT", "SIMULATED", "COMMITTED", "REVERSED", "DELETED"}
Result == [run: Run, rule: Rule, target: Target, amount: Amount, link: Nat]
Entry == [no: Nat, run: Run, target: Target, amount: Amount]
Offset == [no: Nat, run: Run, covers: SUBSET Entry]

Idle == [pc |-> "idle", op |-> "none", run |-> Nil, seen |-> "ABSENT", snap |-> {},
         since |-> 0]
Busy ==
  [pc: {"loaded", "begun"}, op: {"commit", "reverse", "delete"}, run: Run,
   seen: Status, snap: SUBSET Result, since: Nat]

TypeOK ==
  /\ rules \subseteq Rule
  /\ closed \subseteq Period
  /\ run \in [Run -> [status: Status, period: Period]]
  /\ results \subseteq Result
  /\ entries \subseteq Entry
  /\ offsets \subseteq Offset
  /\ posting \in Nat
  /\ req \in [Request -> Busy \cup {Idle}]
  /\ clash \subseteq Run
  /\ cascaded \subseteq Run

----------------------------------------------------------------------------
(* Helpers.                                                                *)

Exists(r) == run[r].status \notin {"ABSENT", "DELETED"}
ResultsOf(r) == {x \in results : x.run = r}
EntriesOf(r) == {e \in entries : e.run = r}
OffsetsOf(r) == {o \in offsets : o.run = r}

BusyOn(r) == {w \in Request : req[w].run = r}

\* The row of the table that a row read earlier stands for.
SameRow(x, y) == x.run = y.run /\ x.target = y.target

\* Model.save(update_fields=...) raises DatabaseError when its row is gone.
AllStillThere(rows) == \A x \in rows : \E y \in results : SameRow(x, y)

\* The entry a posting makes for a result.
EntryFor(n, x) == [no |-> n, run |-> x.run, target |-> x.target, amount |-> x.amount]

\* The table after cost_entry is saved as n (0: NULL) in some rows.
Relinked(rows, n) ==
  {IF \E x \in rows : SameRow(x, y) THEN [y EXCEPT !.link = n] ELSE y : y \in results}

\* What a commit finds to do, and a reversal, in the results they have read.
Unlinked(rows) == {x \in rows : x.link = 0}
Linked(rows) == {x \in rows : x.link # 0}

At(w, pc, op) == req[w].pc = pc /\ req[w].op = op
Finish(w) == req' = [req EXCEPT ![w] = Idle]

----------------------------------------------------------------------------

Init ==
  /\ rules = Rule
  /\ closed = {}
  /\ run \in [Run -> [status: {"ABSENT"}, period: Period]]
  /\ results = {}
  /\ entries = {}
  /\ offsets = {}
  /\ posting = 0
  /\ req = [w \in Request |-> Idle]
  /\ clash = {}
  /\ cascaded = {}

----------------------------------------------------------------------------
(* Faulty variants of definitions below, one plausible bug each.  No       *)
(* action of Next uses them: put in the place of the definition they name, *)
(* each breaks a property of the last section.                             *)

\* For reverse_allocation: a status outside the choices, which the database accepts.
FaultyReverseCancels(w) ==
  /\ At(w, "begun", "reverse")
  /\ Exists(req[w].run)
  /\ run' = [run EXCEPT ![req[w].run].status = "CANCELLED"]
  /\ Finish(w)
  /\ UNCHANGED <<rules, closed, results, ledger, history>>

\* For StatusAllows: any run not committed may be committed, a reversed one included.
FaultyStatusAllows(op, seen) ==
  CASE op = "commit" -> seen # "COMMITTED"
    [] op = "reverse" -> seen = "COMMITTED"
    [] op = "delete" -> seen # "COMMITTED"

\* For allocation_run_delete: the run is deleted without asking for its status.
FaultyRunDelete(w) ==
  LET r == req[w].run
  IN  /\ At(w, "loaded", "delete")
      /\ run' = [run EXCEPT ![r].status = "DELETED"]
      /\ results' = results \ ResultsOf(r)
      /\ Finish(w)
      /\ UNCHANGED <<rules, closed, ledger, history>>

\* For reverse_allocation: the run may be committed again.
FaultyReverseReopens(w) ==
  LET r == req[w].run
      linked == Linked(req[w].snap)
  IN  /\ At(w, "begun", "reverse")
      /\ Exists(r) /\ AllStillThere(linked)
      /\ entries' = entries \ {EntryFor(x.link, x) : x \in linked}
      /\ offsets' = offsets \ OffsetsOf(r)
      /\ results' = Relinked(linked, 0)
      /\ run' = [run EXCEPT ![r].status = "SIMULATED"]
      /\ Finish(w)
      /\ UNCHANGED <<rules, closed, posting, history>>

\* For reverse_allocation: the offset of the latest posting is the only one deleted.
FaultyReverseLatestOffset(w) ==
  LET r == req[w].run
      linked == Linked(req[w].snap)
  IN  /\ At(w, "begun", "reverse")
      /\ Exists(r) /\ AllStillThere(linked)
      /\ entries' = entries \ {EntryFor(x.link, x) : x \in linked}
      /\ offsets' = {o \in offsets : o.run = r => \E p \in OffsetsOf(r) : p.no > o.no}
      /\ results' = Relinked(linked, 0)
      /\ run' = [run EXCEPT ![r].status = "REVERSED"]
      /\ Finish(w)
      /\ UNCHANGED <<rules, closed, posting, history>>

----------------------------------------------------------------------------
(* Simulation, rules and periods: one transaction each.                    *)

\* The run and its results are created together.  Which targets get a result and of
\* what amount is the driver's business; no result when there is nothing to allocate.
simulate_allocation(r, u) ==
  /\ run[r].status = "ABSENT"
  /\ u \in rules
  /\ run' = [run EXCEPT ![r].status = "SIMULATED"]
  /\ \E ts \in SUBSET Target : \E share \in [ts -> Amount] :
       results' = results \cup
         {[run |-> r, rule |-> u, target |-> t, amount |-> share[t], link |-> 0] : t \in ts}
  /\ UNCHANGED <<rules, closed, ledger, req, history>>

\* rule.delete(): AllocationResult.rule is CASCADE, so no ProtectedError is raised and
\* the results of the rule go with it, those of committed runs included.
allocation_rule_delete(u) ==
  /\ u \in rules \cap DeletableRule
  /\ rules' = rules \ {u}
  /\ results' = {x \in results : x.rule # u}
  /\ cascaded' = cascaded \cup {x.run : x \in {y \in results : y.rule = u}}
  /\ UNCHANGED <<closed, run, ledger, req, clash>>

close_period(p) ==
  /\ p \notin closed
  /\ closed' = closed \cup {p}
  /\ UNCHANGED <<rules, run, results, ledger, req, history>>

reopen_period(p) ==
  /\ p \in closed
  /\ closed' = closed \ {p}
  /\ UNCHANGED <<rules, run, results, ledger, req, history>>

----------------------------------------------------------------------------
(* A request about a run.                                                  *)

\* get_object_or_404: the view holds the run as it is now.
LoadRun(w, r) ==
  /\ req[w] = Idle
  /\ Exists(r)
  /\ \E op \in {"commit", "reverse", "delete"} :
       req' = [req EXCEPT ![w] = [pc |-> "loaded", op |-> op, run |-> r,
                                  seen |-> run[r].status, snap |-> {}, since |-> 0]]
  /\ clash' = IF BusyOn(r) = {} THEN clash ELSE clash \cup {r}
  /\ UNCHANGED <<rules, closed, run, results, ledger, cascaded>>

\* The status that allows the operation, in the object the view holds.
StatusAllows(op, seen) ==
  CASE op = "commit" -> seen = "SIMULATED"
    [] op = "reverse" -> seen = "COMMITTED"
    [] op = "delete" -> seen # "COMMITTED"

\* ValueError, PeriodClosedError or the view's own message: nothing is written.
Refuse(w) ==
  /\ req[w].pc = "loaded"
  /\ \/ ~ StatusAllows(req[w].op, req[w].seen)
     \/ req[w].op # "delete" /\ run[req[w].run].period \in closed
  /\ Finish(w)
  /\ UNCHANGED <<rules, closed, run, results, ledger, history>>

\* Status and period are fine: run.results is read, after so many postings.
Begin(w) ==
  /\ req[w].pc = "loaded" /\ req[w].op # "delete"
  /\ StatusAllows(req[w].op, req[w].seen)
  /\ run[req[w].run].period \notin closed
  /\ req' = [req EXCEPT ![w] =
               [@ EXCEPT !.pc = "begun", !.snap = ResultsOf(req[w].run), !.since = posting]]
  /\ UNCHANGED <<rules, closed, run, results, ledger, history>>

\* An entry for every result read without one, an offset for their sum, and the status.
\* A period closed since Begin is noticed only by a later CostEntry.save, if any.
commit_allocation(w) ==
  LET r == req[w].run
      todo == Unlinked(req[w].snap)
      made == {EntryFor(posting + 1, x) : x \in todo}
  IN  /\ At(w, "begun", "commit")
      /\ Exists(r) /\ AllStillThere(todo)
      /\ posting < MaxPostings
      /\ posting' = posting + 1
      /\ entries' = entries \cup made
      /\ offsets' = offsets \cup
           {o \in {[no |-> posting + 1, run |-> r, covers |-> made]} :
              \E e \in made : e.amount > 0}
      /\ results' = Relinked(todo, posting + 1)
      /\ run' = [run EXCEPT ![r].status = "COMMITTED"]
      /\ Finish(w)
      /\ UNCHANGED <<rules, closed, history>>

\* The entries of the results read with one are deleted, then every offset of the run
\* that stands in the ledger at that moment: when the UPDATE of a result had to wait its
\* turn, all there are.
reverse_allocation(w) ==
  LET r == req[w].run
      linked == Linked(req[w].snap)
  IN  /\ At(w, "begun", "reverse")
      /\ Exists(r) /\ AllStillThere(linked)
      /\ entries' = entries \ {EntryFor(x.link, x) : x \in linked}
      /\ \E cut \in (IF linked = {} THEN req[w].since ELSE posting) .. posting :
           offsets' = {o \in offsets : o.run = r => o.no > cut}
      /\ results' = Relinked(linked, 0)
      /\ run' = [run EXCEPT ![r].status = "REVERSED"]
      /\ Finish(w)
      /\ UNCHANGED <<rules, closed, posting, history>>

\* run.delete(): the results go by CASCADE, the ledger is not looked at.
allocation_run_delete(w) ==
  LET r == req[w].run
  IN  /\ At(w, "loaded", "delete")
      /\ StatusAllows("delete", req[w].seen)
      /\ run' = [run EXCEPT ![r].status = "DELETED"]
      /\ results' = results \ ResultsOf(r)
      /\ Finish(w)
      /\ UNCHANGED <<rules, closed, ledger, history>>

\* DatabaseError on a row that is gone, PeriodClosedError at an entry, or the death of
\* the worker: the transaction is rolled back.
Rollback(w) ==
  /\ req[w] # Idle
  /\ Finish(w)
  /\ UNCHANGED <<rules, closed, run, results, ledger, history>>

----------------------------------------------------------------------------

Serve(w) ==
  \/ Refuse(w) \/ Begin(w) \/ commit_allocation(w) \/ reverse_allocation(w)
  \/ allocation_run_delete(w) \/ Rollback(w)

Next ==
  \/ \E r \in Run, u \in Rule : simulate_allocation(r, u)
  \/ \E u \in Rule : allocation_rule_delete(u)
  \/ \E p \in Period : close_period(p) \/ reopen_period(p)
  \/ \E w \in Request, r \in Run : LoadRun(w, r)
  \/ \E w \in Request : Serve(w)

Spec == Init /\ [][Next]_vars

----------------------------------------------------------------------------
(* Properties.                                                             *)

\* The ledger of a run as the workflow means it to be: committed, one entry for each
\* result and one offset for all of them; otherwise nothing.
BooksAreExact(r) ==
  IF run[r].status = "COMMITTED"
  THEN /\ \A x \in ResultsOf(r) : x.link # 0
       /\ EntriesOf(r) = {EntryFor(x.link, x) : x \in ResultsOf(r)}
       /\ \A o \in OffsetsOf(r) : o.covers = EntriesOf(r)
       /\ \A o1, o2 \in OffsetsOf(r) : o1 = o2
       /\ OffsetsOf(r) # {} <=> \E e \in EntriesOf(r) : e.amount > 0
  ELSE /\ \A x \in ResultsOf(r) : x.link = 0
       /\ EntriesOf(r) = {}
       /\ OffsetsOf(r) = {}

\* Commit, reversal and deletion keep the ledger exact for every run that no two
\* requests were busy with at once and whose rule was not deleted (costing.py:325-412,
\* views.py:1068-1076): these are the only two ways the workflow can leave it wrong.
ExactUnlessDisturbed ==
  \A r \in Run : r \notin clash \cup cascaded => BooksAreExact(r)

\* The postings of a run that stand in the ledger, in whole or in part.
Standing(r) == {e.no : e \in EntriesOf(r)} \cup {o.no : o \in OffsetsOf(r)}

\* However commits and reversals overlap, a run stands in the ledger at most once for every
\* request that can be in progress: who reads the run after its first commit is refused, and no
\* reversal changes that (costing.py:327, 390, 410).
PostedOncePerRequest ==
  \A r \in Run : Cardinality(Standing(r)) <= Cardinality(Request)

\* As long as an offset stands, all the entries it was summed from stand: overlapping
\* requests and deleted rules can leave a cost counted twice, never one missing
\* (costing.py:375-388, 402-409).
OffsetsBacked ==
  \A o \in offsets : o.covers \subseteq entries

\* The status moves SIMULATED -> COMMITTED -> REVERSED, and a committed run is never
\* deleted, unless two requests were busy with the run at once (costing.py:327, 398,
\* views.py:1071 look at the status the view read).
WorkflowUnlessClash ==
  [][\A r \in Run : r \notin clash /\ run'[r].status # run[r].status =>
       <<run[r].status, run'[r].status>> \in
         {<<"ABSENT", "SIMULATED">>, <<"SIMULATED", "COMMITTED">>, <<"COMMITTED", "REVERSED">>,
          <<"SIMULATED", "DELETED">>, <<"REVERSED", "DELETED">>}]_vars

----------------------------------------------------------------------------
(* What the documentation says and the code does not keep.                 *)

\* costing.py:397: reversing deletes every CostEntry made, results and offset.
ReversedLeavesNothing ==
  \A r \in Run : run[r].status = "REVERSED" => EntriesOf(r) = {} /\ OffsetsOf(r) = {}
=============================================================================
