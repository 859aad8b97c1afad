----------------------- MODULE SalaryAllocationProofs -----------------------
(***************************************************************************)
(* Proofs about SalaryAllocation, for every number of assignments,         *)
(* requests and allocations.                                               *)
(***************************************************************************)
EXTENDS SalaryAllocation, TLAPS

----------------------------------------------------------------------------
(* Types.                                                                  *)

\* A worker about to insert a row has an assignment to insert it for (costing.py:102-112).
CurKnown == \A w \in Request : req[w].pc = "creating" => req[w].cur \in Assignment

\* What TypeOK says of the fields of one request.
LEMMA Fields ==
  ASSUME TypeOK, NEW w \in Request
  PROVE  /\ req[w].no \in Nat
         /\ req[w].list \subseteq Row /\ req[w].gone \subseteq Row
         /\ req[w].made \subseteq Row
         /\ req[w].plan \subseteq Assignment /\ req[w].done \subseteq Assignment
         /\ req[w].pc # "idle" => req[w] \in Busy
         /\ req[w].pc = "idle" => req[w] = Idle
<1>1. req[w] \in Busy \/ req[w] = Idle
  BY DEF TypeOK
<1>2. CASE req[w] \in Busy
  BY <1>2 DEF Busy
<1>3. CASE req[w] = Idle
  BY <1>3 DEF Idle, AtStart
<1> QED
  BY <1>1, <1>2, <1>3

\* Only types change hands in a step.
LEMMA TypeStep == TypeOK /\ CurKnown /\ [Next]_vars => TypeOK'
<1> SUFFICES ASSUME TypeOK, CurKnown, [Next]_vars PROVE TypeOK'
  OBVIOUS
<1>1. ASSUME NEW w \in Request, NEW reset \in BOOLEAN, allocate_monthly_salary(w, reset)
      PROVE  TypeOK'
  <2>1. AtStart("begun", reset, started + 1) \in Busy
    BY DEF TypeOK, AtStart, Busy
  <2>2. {{started + 1, req[v].no} : v \in {u \in Request : req[u] # Idle}}
          \subseteq SUBSET Nat
    BY Fields DEF TypeOK
  <2> QED
    <3>1. req' \in [Request -> Busy \cup {Idle}]
      BY <1>1, <2>1 DEF allocate_monthly_salary, TypeOK
    <3>2. overlap' \subseteq SUBSET Nat
      BY <1>1, <2>2 DEF allocate_monthly_salary, TypeOK
    <3>3. started' \in Nat /\ UNCHANGED <<closed, payable, rows, byHand>>
      BY <1>1 DEF allocate_monthly_salary, TypeOK
    <3> QED
      BY <3>1, <3>2, <3>3 DEF TypeOK, Job
<1>2. ASSUME NEW w \in Request, ListRows(w) PROVE TypeOK'
  <2>1. req'[w] \in Busy
    <3>1. req'[w] = [req[w] EXCEPT !.pc = "listed", !.list = rows]
      BY <1>2 DEF ListRows, TypeOK
    <3>2. req[w] \in Busy /\ rows \subseteq Row
      BY <1>2, Fields DEF ListRows, TypeOK
    <3> QED
      BY <3>1, <3>2 DEF Busy
  <2> QED
    BY <1>2, <2>1 DEF ListRows, TypeOK
<1>3. ASSUME NEW w \in Request, DeleteRows(w) PROVE TypeOK'
  <2>1. req'[w] \in Busy
    <3>1. req'[w] = [req[w] EXCEPT !.pc = "ready", !.gone = req[w].list \cap rows,
                                  !.list = {}]
      BY <1>3 DEF DeleteRows, TypeOK
    <3>2. req[w] \in Busy /\ req[w].list \cap rows \subseteq Row
      BY <1>3, Fields DEF DeleteRows, TypeOK
    <3> QED
      BY <3>1, <3>2 DEF Busy
  <2> QED
    BY <1>3, <2>1 DEF DeleteRows, TypeOK
<1>4. ASSUME NEW w \in Request, ReadAssignments(w) PROVE TypeOK'
  <2>1. req'[w] \in Busy
    <3>1. req'[w] = [req[w] EXCEPT !.pc = "posting", !.plan = payable]
      BY <1>4 DEF ReadAssignments, TypeOK
    <3>2. req[w] \in Busy /\ payable \subseteq Assignment
      BY <1>4, Fields DEF ReadAssignments, TypeOK
    <3> QED
      BY <3>1, <3>2 DEF Busy
  <2> QED
    BY <1>4, <2>1 DEF ReadAssignments, TypeOK
<1>5. ASSUME NEW w \in Request, NEW a \in Assignment, Check(w, a) PROVE TypeOK'
  <2>1. req'[w] \in Busy
    <3>1. \/ req'[w] = [req[w] EXCEPT !.done = req[w].done \cup {a}]
          \/ req'[w] = [req[w] EXCEPT !.pc = "creating", !.cur = a]
      BY <1>5 DEF Check, TypeOK
    <3>2. req[w] \in Busy
      BY <1>5, Fields DEF Check
    <3>3. CASE req'[w] = [req[w] EXCEPT !.done = req[w].done \cup {a}]
      BY <3>2, <3>3 DEF Busy
    <3>4. CASE req'[w] = [req[w] EXCEPT !.pc = "creating", !.cur = a]
      BY <3>2, <3>4 DEF Busy
    <3> QED
      BY <3>1, <3>3, <3>4
  <2> QED
    BY <1>5, <2>1 DEF Check, TypeOK
<1>6. ASSUME NEW w \in Request, Create(w) PROVE TypeOK'
  <2>1. req[w].cur \in Assignment
    BY <1>6 DEF Create, CurKnown
  <2>2. [by |-> req[w].no, pa |-> req[w].cur] \in Row
    BY <2>1, Fields DEF Row
  <2>3. req'[w] \in Busy
    <3>1. req'[w] = [req[w] EXCEPT !.pc = "posting", !.cur = Nil,
             !.done = req[w].done \cup {req[w].cur},
             !.made = req[w].made \cup {[by |-> req[w].no, pa |-> req[w].cur]}]
      BY <1>6 DEF Create, TypeOK
    <3>2. req[w] \in Busy
      BY <1>6, Fields DEF Create
    <3>3. req[w].done \cup {req[w].cur} \in SUBSET Assignment
      BY <2>1, Fields
    <3>4. req[w].made \cup {[by |-> req[w].no, pa |-> req[w].cur]} \in SUBSET Row
      BY <2>2, Fields
    <3> QED
      BY <3>1, <3>2, <3>3, <3>4 DEF Busy
  <2> QED
    BY <1>6, <2>3 DEF Create, TypeOK
<1>7. ASSUME NEW w \in Request, Commit(w) PROVE TypeOK'
  BY <1>7, Fields DEF Commit, Finish, TypeOK
<1>8. ASSUME NEW w \in Request, Rollback(w) PROVE TypeOK'
  BY <1>8 DEF Rollback, Finish, TypeOK
<1>9. ASSUME NEW x \in rows, DeleteEntry(x) PROVE TypeOK'
  BY <1>9 DEF DeleteEntry, TypeOK, JobOfRow, Job, Row
<1>10. CASE \E a \in Assignment : Staff(a)
  BY <1>10 DEF Staff, TypeOK
<1>11. CASE CloseOrReopen
  BY <1>11 DEF CloseOrReopen, TypeOK
<1>12. CASE UNCHANGED vars
  BY <1>12 DEF vars, TypeOK
<1> QED
  BY <1>1, <1>2, <1>3, <1>4, <1>5, <1>6, <1>7, <1>8, <1>9, <1>10, <1>11, <1>12
  DEF Next, Proceed

----------------------------------------------------------------------------
(* The inductive invariant, first what DuplicatesOverlapped rests on, then *)
(* what NothingLostByReset rests on besides.                               *)

Busied(w) == req[w].pc # "idle"

\* What a request has not come to yet is empty.
Untouched ==
  \A w \in Request :
    /\ req[w].pc \in {"idle", "begun", "listed", "ready"} =>
         req[w].made = {} /\ req[w].done = {}
    /\ req[w].pc \in {"idle", "begun", "listed"} => req[w].gone = {}
    /\ req[w].pc # "listed" => req[w].list = {}

\* The rows a request has inserted bear its number.
OwnRows == \A w \in Request : \A x \in req[w].made : x.by = req[w].no

BaseInv == TypeOK /\ CurKnown /\ Untouched /\ OwnRows

\* Allocations in progress are recorded as such.
OverlapKnown ==
  \A v, w \in Request : v # w /\ Busied(v) /\ Busied(w) => {req[v].no, req[w].no} \in overlap

\* A request inserts one row for a job, and is about to insert one for a job it has none of.
OneEach ==
  \A w \in Request :
    /\ \A x, y \in req[w].made : JobOfRow(x) = JobOfRow(y) => x = y
    /\ req[w].pc = "creating" => ~ Posted(req[w].made, JobOf[req[w].cur])

\* Has the request inserted a row for the job, or is it about to?
Claims(w, j) ==
  \/ Posted(req[w].made, j)
  \/ req[w].pc = "creating" /\ j = JobOf[req[w].cur]

\* Beside what a request claims there are rows of allocations it overlapped only.
ClaimsOverlap ==
  \A w \in Request, x \in rows :
    x \notin req[w].gone /\ Claims(w, JobOfRow(x)) => {x.by, req[w].no} \in overlap

DuplicateInv ==
  BaseInv /\ OverlapKnown /\ OneEach /\ ClaimsOverlap /\ DuplicatesOverlapped

\* The rows of a table were made by allocations that have ended.
Older(table) ==
  \A x \in table : x.by <= started /\ \A w \in Request : Busied(w) => x.by # req[w].no

\* Allocations are numbered in the order they start; no two have one number.
Numbered ==
  /\ \A w \in Request : req[w].no <= started
  /\ \A v, w \in Request : v # w /\ Busied(v) /\ Busied(w) => req[v].no # req[w].no
  /\ Older(rows)
  /\ \A w \in Request : Older(req[w].list)

\* A row deleted by an open transaction is in the table until that commits.
GoneStored == \A w \in Request : req[w].gone \subseteq rows

\* Of two lists of rows to delete the later one has what is left of the earlier one.
ListsNested ==
  \A v, w \in Request :
    \/ req[v].list \cap rows \subseteq req[w].list
    \/ req[w].list \cap rows \subseteq req[v].list

\* The same of the rows one has deleted and the list of another.
ListsMeetGone ==
  \A v, w \in Request :
    req[w].list \cap rows \subseteq req[v].gone \/ req[v].gone \subseteq req[w].list

\* So one transaction at a time has rows deleted.
OneDeletes == \A v, w \in Request : v # w => req[v].gone = {} \/ req[w].gone = {}

\* A job dealt with gets a row from the request, or keeps one if it has one.
DoneKept ==
  \A w \in Request, a \in Assignment :
    a \in req[w].done /\ JobOf[a] \notin byHand /\ Posted(rows, JobOf[a]) =>
      Posted(req[w].made, JobOf[a]) \/ Posted(rows \ req[w].gone, JobOf[a])

Resets == Numbered /\ GoneStored /\ ListsNested /\ ListsMeetGone /\ OneDeletes /\ DoneKept

ResetInv == BaseInv /\ Resets

----------------------------------------------------------------------------
(* What each step of an allocation does, field by field.                   *)

OthersSame(w) == \A v \in Request : v # w => req'[v] = req[v]

\* allocate_monthly_salary starts a request from nothing.
LEMMA StartEffects ==
  ASSUME TypeOK, NEW w \in Request, NEW reset \in BOOLEAN, allocate_monthly_salary(w, reset)
  PROVE  /\ OthersSame(w) /\ ~ Busied(w) /\ req'[w].pc = "begun" /\ req'[w].no = started + 1
         /\ req'[w].list = {} /\ req'[w].gone = {} /\ req'[w].done = {}
         /\ req'[w].made = {} /\ started' = started + 1
         /\ UNCHANGED <<rows, byHand>>
         /\ overlap' = overlap \cup
              {{started + 1, req[v].no} : v \in {u \in Request : req[u] # Idle}}
BY DEF allocate_monthly_salary, AtStart, Idle, OthersSame, Busied, TypeOK

\* The end of a request, by Commit or Rollback, leaves nothing of it.
LEMMA EndEffects ==
  ASSUME TypeOK, NEW w \in Request, Finish(w)
  PROVE  /\ OthersSame(w) /\ req'[w].pc = "idle" /\ req'[w].no = 0 /\ req'[w].list = {}
         /\ req'[w].gone = {} /\ req'[w].done = {} /\ req'[w].made = {}
BY DEF Finish, AtStart, Idle, OthersSame, TypeOK

\* ListRows notes the rows of the table.
LEMMA ListEffects ==
  ASSUME TypeOK, NEW w \in Request, ListRows(w)
  PROVE  /\ OthersSame(w)
         /\ req[w].pc = "begun" /\ req'[w].pc = "listed" /\ req'[w].list = rows
         /\ req'[w].no = req[w].no /\ req'[w].gone = req[w].gone
         /\ req'[w].done = req[w].done /\ req'[w].made = req[w].made
         /\ UNCHANGED <<rows, started, overlap, byHand>>
<1>1. OthersSame(w) /\ req'[w] = [req[w] EXCEPT !.pc = "listed", !.list = rows]
  BY DEF ListRows, OthersSame, TypeOK
<1>2. req[w] \in Busy /\ req[w].pc = "begun"
  BY Fields DEF ListRows
<1>3. UNCHANGED <<rows, started, overlap, byHand>>
  BY DEF ListRows
<1> QED
  BY <1>1, <1>2, <1>3 DEF Busy

\* DeleteRows deletes those listed that are still there.
LEMMA DeleteEffects ==
  ASSUME TypeOK, NEW w \in Request, DeleteRows(w)
  PROVE  /\ OthersSame(w)
         /\ req[w].pc = "listed" /\ req'[w].pc = "ready" /\ req'[w].list = {}
         /\ req'[w].gone = req[w].list \cap rows
         /\ req'[w].no = req[w].no /\ req'[w].done = req[w].done
         /\ req'[w].made = req[w].made
         /\ UNCHANGED <<rows, started, overlap, byHand>>
<1>1. OthersSame(w)
      /\ req'[w] = [req[w] EXCEPT !.pc = "ready", !.gone = req[w].list \cap rows, !.list = {}]
  BY DEF DeleteRows, OthersSame, TypeOK
<1>2. req[w] \in Busy /\ req[w].pc = "listed"
  BY Fields DEF DeleteRows
<1>3. UNCHANGED <<rows, started, overlap, byHand>>
  BY DEF DeleteRows
<1> QED
  BY <1>1, <1>2, <1>3 DEF Busy

\* ReadAssignments begins the loop.
LEMMA ReadEffects ==
  ASSUME TypeOK, NEW w \in Request, ReadAssignments(w)
  PROVE  /\ OthersSame(w) /\ req[w].pc \in {"begun", "ready"} /\ req'[w].pc = "posting"
         /\ req'[w].no = req[w].no /\ req'[w].list = req[w].list
         /\ req'[w].gone = req[w].gone /\ req'[w].done = req[w].done
         /\ req'[w].made = req[w].made
         /\ UNCHANGED <<rows, started, overlap, byHand>>
<1>1. OthersSame(w) /\ req'[w] = [req[w] EXCEPT !.pc = "posting", !.plan = payable]
  BY DEF ReadAssignments, OthersSame, TypeOK
<1>2. req[w] \in Busy /\ req[w].pc \in {"begun", "ready"}
  BY Fields DEF ReadAssignments
<1>3. UNCHANGED <<rows, started, overlap, byHand>>
  BY DEF ReadAssignments
<1> QED
  BY <1>1, <1>2, <1>3 DEF Busy

\* Create inserts a row for the assignment at hand.
LEMMA CreateEffects ==
  ASSUME TypeOK, NEW w \in Request, Create(w)
  PROVE  /\ OthersSame(w) /\ req[w].pc = "creating" /\ req'[w].pc = "posting"
         /\ req'[w].done = req[w].done \cup {req[w].cur}
         /\ req'[w].made = req[w].made \cup {[by |-> req[w].no, pa |-> req[w].cur]}
         /\ req'[w].no = req[w].no /\ req'[w].list = req[w].list
         /\ req'[w].gone = req[w].gone
         /\ UNCHANGED <<rows, started, overlap, byHand>>
<1>1. OthersSame(w) /\ req'[w] = [req[w] EXCEPT !.pc = "posting", !.cur = Nil,
             !.done = req[w].done \cup {req[w].cur},
             !.made = req[w].made \cup {[by |-> req[w].no, pa |-> req[w].cur]}]
  BY DEF Create, OthersSame, TypeOK
<1>2. req[w] \in Busy /\ req[w].pc = "creating"
  BY Fields DEF Create
<1>3. UNCHANGED <<rows, started, overlap, byHand>>
  BY DEF Create
<1> QED
  BY <1>1, <1>2, <1>3 DEF Busy

\* Check skips an assignment or takes it up.
LEMMA CheckEffects ==
  ASSUME TypeOK, NEW w \in Request, NEW a \in Assignment, Check(w, a)
  PROVE  /\ OthersSame(w) /\ req[w].pc = "posting"
         /\ req'[w].no = req[w].no /\ req'[w].list = req[w].list
         /\ req'[w].gone = req[w].gone /\ req'[w].made = req[w].made
         /\ \/ /\ Posted(Visible(w), JobOf[a])
               /\ req'[w].pc = req[w].pc /\ req'[w].done = req[w].done \cup {a}
            \/ /\ ~ Posted(Visible(w), JobOf[a])
               /\ req'[w].pc = "creating" /\ req'[w].cur = a /\ req'[w].done = req[w].done
         /\ UNCHANGED <<rows, started, overlap, byHand>>
<1>1. /\ req[w] \in Busy /\ OthersSame(w) /\ req[w].pc = "posting"
      /\ UNCHANGED <<rows, started, overlap, byHand>>
  BY Fields DEF Check, OthersSame, TypeOK
<1>2. CASE Posted(Visible(w), JobOf[a])
  <2>1. req'[w] = [req[w] EXCEPT !.done = req[w].done \cup {a}]
    BY <1>2 DEF Check, TypeOK
  <2> QED
    BY <1>1, <1>2, <2>1 DEF Busy
<1>3. CASE ~ Posted(Visible(w), JobOf[a])
  <2>1. req'[w] = [req[w] EXCEPT !.pc = "creating", !.cur = a]
    BY <1>3 DEF Check, TypeOK
  <2> QED
    BY <1>1, <1>3, <2>1 DEF Busy
<1> QED
  BY <1>2, <1>3

----------------------------------------------------------------------------
(* What every request knows of itself.                                     *)

\* Each request keeps its knowledge through its own steps and is left alone by others.
LEMMA BaseStep == BaseInv /\ [Next]_vars => BaseInv'
<1> SUFFICES ASSUME BaseInv, [Next]_vars PROVE BaseInv'
  OBVIOUS
<1> USE DEF BaseInv
<1>a. TypeOK'
  BY TypeStep
<1>b. SUFFICES (CurKnown /\ Untouched /\ OwnRows)'
  BY <1>a
<1>1. ASSUME NEW w \in Request, NEW reset \in BOOLEAN, allocate_monthly_salary(w, reset)
      PROVE  (CurKnown /\ Untouched /\ OwnRows)'
  BY <1>1, StartEffects DEF CurKnown, Untouched, OwnRows, OthersSame
<1>2. ASSUME NEW w \in Request, ListRows(w)
      PROVE  (CurKnown /\ Untouched /\ OwnRows)'
  BY <1>2, ListEffects DEF CurKnown, Untouched, OwnRows, OthersSame
<1>3. ASSUME NEW w \in Request, DeleteRows(w)
      PROVE  (CurKnown /\ Untouched /\ OwnRows)'
  BY <1>3, DeleteEffects DEF CurKnown, Untouched, OwnRows, OthersSame
<1>4. ASSUME NEW w \in Request, ReadAssignments(w)
      PROVE  (CurKnown /\ Untouched /\ OwnRows)'
  BY <1>4, ReadEffects DEF CurKnown, Untouched, OwnRows, OthersSame
<1>5. ASSUME NEW w \in Request, NEW a \in Assignment, Check(w, a)
      PROVE  (CurKnown /\ Untouched /\ OwnRows)'
  BY <1>5, CheckEffects DEF CurKnown, Untouched, OwnRows, OthersSame
<1>6. ASSUME NEW w \in Request, Create(w)
      PROVE  (CurKnown /\ Untouched /\ OwnRows)'
  BY <1>6, CreateEffects DEF CurKnown, Untouched, OwnRows, OthersSame
<1>7. ASSUME NEW w \in Request, Finish(w)
      PROVE  (CurKnown /\ Untouched /\ OwnRows)'
  BY <1>7, EndEffects DEF CurKnown, Untouched, OwnRows, OthersSame
<1>8. CASE UNCHANGED req
  BY <1>8 DEF CurKnown, Untouched, OwnRows
<1> QED
  BY <1>1, <1>2, <1>3, <1>4, <1>5, <1>6, <1>7, <1>8
  DEF Next, Proceed, Commit, Rollback, DeleteEntry, Staff, CloseOrReopen, vars

----------------------------------------------------------------------------
(* Duplicates.                                                             *)

\* ClaimsOverlap carries the argument: Check finds no row beside those it may not see, and
\* Commit turns what a request claims into rows.
LEMMA DuplicateStep == DuplicateInv /\ [Next]_vars => DuplicateInv'
<1> SUFFICES ASSUME DuplicateInv, [Next]_vars
             PROVE  (OverlapKnown /\ OneEach /\ ClaimsOverlap /\ DuplicatesOverlapped)'
  BY BaseStep DEF DuplicateInv
<1> USE DEF DuplicateInv, BaseInv
<1>1. ASSUME NEW w \in Request, NEW reset \in BOOLEAN, allocate_monthly_salary(w, reset)
      PROVE  (OverlapKnown /\ OneEach /\ ClaimsOverlap /\ DuplicatesOverlapped)'
  <2>1. OverlapKnown'
    BY <1>1, StartEffects DEF OverlapKnown, Busied, OthersSame, Idle, AtStart
  <2>2. OneEach'
    BY <1>1, StartEffects DEF OneEach, Posted, OthersSame, Untouched, JobOfRow
  <2>3. ClaimsOverlap'
    BY <1>1, StartEffects DEF ClaimsOverlap, Claims, Posted, OthersSame, Untouched, JobOfRow
  <2>4. DuplicatesOverlapped'
    BY <1>1, StartEffects DEF DuplicatesOverlapped, JobOfRow
  <2> QED
    BY <2>1, <2>2, <2>3, <2>4
<1>2. ASSUME NEW w \in Request, ListRows(w)
      PROVE  (OverlapKnown /\ OneEach /\ ClaimsOverlap /\ DuplicatesOverlapped)'
  <2>1. OverlapKnown'
    BY <1>2, ListEffects DEF OverlapKnown, Busied, OthersSame
  <2>2. OneEach'
    BY <1>2, ListEffects DEF OneEach, Posted, OthersSame, Untouched, JobOfRow
  <2>3. ClaimsOverlap'
    BY <1>2, ListEffects DEF ClaimsOverlap, Claims, Posted, OthersSame, Untouched, JobOfRow
  <2>4. DuplicatesOverlapped'
    BY <1>2, ListEffects DEF DuplicatesOverlapped, JobOfRow
  <2> QED
    BY <2>1, <2>2, <2>3, <2>4
<1>3. ASSUME NEW w \in Request, DeleteRows(w)
      PROVE  (OverlapKnown /\ OneEach /\ ClaimsOverlap /\ DuplicatesOverlapped)'
  <2>1. OverlapKnown'
    BY <1>3, DeleteEffects DEF OverlapKnown, Busied, OthersSame
  <2>2. OneEach'
    BY <1>3, DeleteEffects DEF OneEach, Posted, OthersSame, Untouched, JobOfRow
  <2>3. ClaimsOverlap'
    BY <1>3, DeleteEffects
    DEF ClaimsOverlap, Claims, Posted, OthersSame, Untouched, JobOfRow
  <2>4. DuplicatesOverlapped'
    BY <1>3, DeleteEffects DEF DuplicatesOverlapped, JobOfRow
  <2> QED
    BY <2>1, <2>2, <2>3, <2>4
<1>4. ASSUME NEW w \in Request, ReadAssignments(w)
      PROVE  (OverlapKnown /\ OneEach /\ ClaimsOverlap /\ DuplicatesOverlapped)'
  <2>1. OverlapKnown'
    BY <1>4, ReadEffects DEF OverlapKnown, Busied, OthersSame
  <2>2. OneEach'
    BY <1>4, ReadEffects DEF OneEach, Posted, OthersSame, Untouched, JobOfRow
  <2>3. ClaimsOverlap'
    BY <1>4, ReadEffects DEF ClaimsOverlap, Claims, Posted, OthersSame, Untouched, JobOfRow
  <2>4. DuplicatesOverlapped'
    BY <1>4, ReadEffects DEF DuplicatesOverlapped, JobOfRow
  <2> QED
    BY <2>1, <2>2, <2>3, <2>4
<1>5. ASSUME NEW w \in Request, NEW a \in Assignment, Check(w, a)
      PROVE  (OverlapKnown /\ OneEach /\ ClaimsOverlap /\ DuplicatesOverlapped)'
  <2>1. OverlapKnown'
    BY <1>5, CheckEffects DEF OverlapKnown, Busied, OthersSame
  <2>2. OneEach'
    BY <1>5, CheckEffects DEF OneEach, Posted, OthersSame, Untouched, JobOfRow, Visible
  <2>3. ClaimsOverlap'
    BY <1>5, CheckEffects
    DEF ClaimsOverlap, Claims, Posted, OthersSame, Untouched, JobOfRow, Visible
  <2>4. DuplicatesOverlapped'
    BY <1>5, CheckEffects DEF DuplicatesOverlapped, JobOfRow
  <2> QED
    BY <2>1, <2>2, <2>3, <2>4
<1>6. ASSUME NEW w \in Request, Create(w)
      PROVE  (OverlapKnown /\ OneEach /\ ClaimsOverlap /\ DuplicatesOverlapped)'
  <2>1. OverlapKnown'
    BY <1>6, CreateEffects DEF OverlapKnown, Busied, OthersSame
  <2>2. OneEach'
    BY <1>6, CreateEffects DEF OneEach, Posted, OthersSame, Untouched, JobOfRow, OwnRows
  <2>3. ClaimsOverlap'
    BY <1>6, CreateEffects
    DEF ClaimsOverlap, Claims, Posted, OthersSame, Untouched, JobOfRow, OwnRows
  <2>4. DuplicatesOverlapped'
    BY <1>6, CreateEffects DEF DuplicatesOverlapped, JobOfRow
  <2> QED
    BY <2>1, <2>2, <2>3, <2>4
<1>7. ASSUME NEW w \in Request, Commit(w)
      PROVE  (OverlapKnown /\ OneEach /\ ClaimsOverlap /\ DuplicatesOverlapped)'
  BY <1>7, EndEffects
  DEF OverlapKnown, OneEach, ClaimsOverlap, DuplicatesOverlapped, Claims, Posted,
       JobOfRow, Busied, OthersSame, Untouched, Commit, OwnRows
<1>8. ASSUME NEW w \in Request, Rollback(w)
      PROVE  (OverlapKnown /\ OneEach /\ ClaimsOverlap /\ DuplicatesOverlapped)'
  BY <1>8, EndEffects
  DEF OverlapKnown, OneEach, ClaimsOverlap, DuplicatesOverlapped, Claims, Posted,
       JobOfRow, Busied, OthersSame, Untouched, Rollback
<1>9. CASE UNCHANGED <<req, overlap>> /\ rows' \subseteq rows
  BY <1>9 DEF OverlapKnown, OneEach, ClaimsOverlap, DuplicatesOverlapped, Claims, Posted,
       JobOfRow, Busied, OthersSame, Untouched
<1> QED
  BY <1>1, <1>2, <1>3, <1>4, <1>5, <1>6, <1>7, <1>8, <1>9
  DEF Next, Proceed, DeleteEntry, Staff, CloseOrReopen, vars

----------------------------------------------------------------------------
(* Resets.                                                                 *)

\* DeleteRows keeps OneDeletes by ListsMeetGone; Commit keeps DoneKept by OneDeletes.
LEMMA ResetStep == ResetInv /\ [Next]_vars => ResetInv'
<1> SUFFICES ASSUME ResetInv, [Next]_vars PROVE Resets'
  BY BaseStep DEF ResetInv
<1> USE DEF ResetInv, Resets, BaseInv
<1>1. ASSUME NEW w \in Request, NEW reset \in BOOLEAN, allocate_monthly_salary(w, reset)
      PROVE  Resets'
  <2>1. Numbered'
    <3>1. \A n \in Nat : n <= started => n <= started + 1 /\ n # started + 1
      BY DEF TypeOK
    <3>2. /\ \A v \in Request : req[v].no \in Nat /\ \A x \in req[v].list : x.by \in Nat
          /\ \A x \in rows : x.by \in Nat
          /\ started + 1 <= started + 1
      BY Fields DEF TypeOK, Row
    <3> QED
      BY <1>1, <3>1, <3>2, StartEffects DEF Numbered, Older, Busied, OthersSame
  <2>2. GoneStored'
    BY <1>1, StartEffects DEF GoneStored, OthersSame, Untouched
  <2>3. ListsNested'
    BY <1>1, StartEffects DEF ListsNested, OthersSame, Untouched
  <2>4. ListsMeetGone'
    BY <1>1, StartEffects DEF ListsMeetGone, OthersSame, Untouched
  <2>5. OneDeletes'
    BY <1>1, StartEffects DEF OneDeletes, OthersSame, Untouched
  <2>6. DoneKept'
    BY <1>1, StartEffects DEF DoneKept, Posted, OthersSame, Untouched
  <2> QED
    BY <2>1, <2>2, <2>3, <2>4, <2>5, <2>6
<1>2. ASSUME NEW w \in Request, ListRows(w)
      PROVE  Resets'
  <2>1. Numbered'
    BY <1>2, ListEffects DEF Numbered, Older, Busied, OthersSame, Untouched
  <2>2. GoneStored'
    BY <1>2, ListEffects DEF GoneStored, OthersSame, Untouched
  <2>3. ListsNested'
    BY <1>2, ListEffects DEF ListsNested, OthersSame, Untouched
  <2>4. ListsMeetGone'
    BY <1>2, ListEffects DEF ListsMeetGone, GoneStored, OthersSame, Untouched
  <2>5. OneDeletes'
    BY <1>2, ListEffects DEF OneDeletes, OthersSame, Untouched
  <2>6. DoneKept'
    BY <1>2, ListEffects DEF DoneKept, Posted, OthersSame, Untouched
  <2> QED
    BY <2>1, <2>2, <2>3, <2>4, <2>5, <2>6
<1>3. ASSUME NEW w \in Request, DeleteRows(w)
      PROVE  Resets'
  <2>1. Numbered'
    BY <1>3, DeleteEffects DEF Numbered, Older, Busied, OthersSame, Untouched
  <2>2. GoneStored'
    BY <1>3, DeleteEffects DEF GoneStored, OthersSame, Untouched
  <2>3. ListsNested'
    BY <1>3, DeleteEffects DEF ListsNested, OthersSame, Untouched
  <2>4. ListsMeetGone'
    BY <1>3, DeleteEffects DEF ListsMeetGone, OthersSame, Untouched, ListsNested
  <2>5. OneDeletes'
    <3>1. \A v \in Request : req[v].gone \cap req[w].list = {}
      BY <1>3 DEF DeleteRows, Unlocked
    <3>2. \A v \in Request : req[v].gone = {} \/ req[w].list \cap rows = {}
      BY <3>1 DEF ListsMeetGone
    <3> QED
      BY <1>3, <3>2, DeleteEffects DEF OneDeletes, OthersSame
  <2>6. DoneKept'
    BY <1>3, DeleteEffects DEF DoneKept, Posted, OthersSame, Untouched
  <2> QED
    BY <2>1, <2>2, <2>3, <2>4, <2>5, <2>6
<1>4. ASSUME NEW w \in Request, ReadAssignments(w)
      PROVE  Resets'
  <2>1. Numbered'
    BY <1>4, ReadEffects DEF Numbered, Older, Busied, OthersSame, Untouched
  <2>2. GoneStored'
    BY <1>4, ReadEffects DEF GoneStored, OthersSame, Untouched
  <2>3. ListsNested'
    BY <1>4, ReadEffects DEF ListsNested, OthersSame, Untouched
  <2>4. ListsMeetGone'
    BY <1>4, ReadEffects DEF ListsMeetGone, OthersSame, Untouched
  <2>5. OneDeletes'
    BY <1>4, ReadEffects DEF OneDeletes, OthersSame, Untouched
  <2>6. DoneKept'
    BY <1>4, ReadEffects DEF DoneKept, Posted, OthersSame, Untouched
  <2> QED
    BY <2>1, <2>2, <2>3, <2>4, <2>5, <2>6
<1>5. ASSUME NEW w \in Request, NEW a \in Assignment, Check(w, a)
      PROVE  Resets'
  <2>1. Numbered'
    BY <1>5, CheckEffects DEF Numbered, Older, Busied, OthersSame, Untouched
  <2>2. GoneStored'
    BY <1>5, CheckEffects DEF GoneStored, OthersSame, Untouched
  <2>3. ListsNested'
    BY <1>5, CheckEffects DEF ListsNested, OthersSame, Untouched
  <2>4. ListsMeetGone'
    BY <1>5, CheckEffects DEF ListsMeetGone, OthersSame, Untouched
  <2>5. OneDeletes'
    BY <1>5, CheckEffects DEF OneDeletes, OthersSame, Untouched
  <2>6. DoneKept'
    BY <1>5, CheckEffects DEF DoneKept, Posted, OthersSame, Untouched, Visible
  <2> QED
    BY <2>1, <2>2, <2>3, <2>4, <2>5, <2>6
<1>6. ASSUME NEW w \in Request, Create(w)
      PROVE  Resets'
  <2>1. Numbered'
    BY <1>6, CreateEffects DEF Numbered, Older, Busied, OthersSame, Untouched
  <2>2. GoneStored'
    BY <1>6, CreateEffects DEF GoneStored, OthersSame, Untouched
  <2>3. ListsNested'
    BY <1>6, CreateEffects DEF ListsNested, OthersSame, Untouched
  <2>4. ListsMeetGone'
    BY <1>6, CreateEffects DEF ListsMeetGone, OthersSame, Untouched
  <2>5. OneDeletes'
    BY <1>6, CreateEffects DEF OneDeletes, OthersSame, Untouched
  <2>6. DoneKept'
    <3>1. JobOfRow([by |-> req[w].no, pa |-> req[w].cur]) = JobOf[req[w].cur]
      BY DEF JobOfRow
    <3> QED
      BY <1>6, <3>1, CreateEffects DEF DoneKept, Posted, OthersSame
  <2> QED
    BY <2>1, <2>2, <2>3, <2>4, <2>5, <2>6
<1>7. ASSUME NEW w \in Request, Commit(w)
      PROVE  Resets'
  <2> /\ rows' = (rows \ req[w].gone) \cup req[w].made
      /\ UNCHANGED <<started, byHand>> /\ Busied(w) /\ Finish(w)
    BY <1>7 DEF Commit, Busied
  <2>1. Numbered'
    <3>1. 0 <= started
      BY DEF TypeOK
    <3> QED
      BY <1>7, <3>1, EndEffects DEF Numbered, Older, Busied, OthersSame, OwnRows
  <2>2. GoneStored'
    BY <1>7, EndEffects
    DEF GoneStored, OthersSame, Untouched, OwnRows, Numbered, Older, Busied, OneDeletes
  <2>3. ListsNested'
    BY <1>7, EndEffects
    DEF ListsNested, OthersSame, Untouched, OwnRows, Numbered, Older, Busied, OneDeletes,
        GoneStored
  <2>4. ListsMeetGone'
    BY <1>7, EndEffects
    DEF ListsMeetGone, OthersSame, Untouched, OwnRows, Numbered, Older, Busied,
        OneDeletes, GoneStored
  <2>5. OneDeletes'
    BY <1>7, EndEffects DEF OneDeletes, OthersSame, Untouched
  <2>6. DoneKept'
    BY <1>7, EndEffects
    DEF DoneKept, Posted, OthersSame, Untouched, JobOfRow, OwnRows, Numbered, Older,
        Busied, OneDeletes, GoneStored
  <2> QED
    BY <2>1, <2>2, <2>3, <2>4, <2>5, <2>6
<1>8. ASSUME NEW w \in Request, Rollback(w)
      PROVE  Resets'
  <2> UNCHANGED <<rows, started, byHand>> /\ Finish(w)
    BY <1>8 DEF Rollback
  <2>1. Numbered'
    <3>1. 0 <= started
      BY DEF TypeOK
    <3> QED
      BY <1>8, <3>1, EndEffects DEF Numbered, Older, Busied, OthersSame
  <2>2. GoneStored'
    BY <1>8, EndEffects DEF GoneStored, OthersSame, Untouched
  <2>3. ListsNested'
    BY <1>8, EndEffects DEF ListsNested, OthersSame, Untouched
  <2>4. ListsMeetGone'
    BY <1>8, EndEffects DEF ListsMeetGone, OthersSame, Untouched
  <2>5. OneDeletes'
    BY <1>8, EndEffects DEF OneDeletes, OthersSame, Untouched
  <2>6. DoneKept'
    BY <1>8, EndEffects DEF DoneKept, Posted, OthersSame, Untouched
  <2> QED
    BY <2>1, <2>2, <2>3, <2>4, <2>5, <2>6
<1>9. ASSUME NEW x \in rows, DeleteEntry(x)
      PROVE  Resets'
  <2> /\ rows' = rows \ {x} /\ byHand' = byHand \cup {JobOfRow(x)}
      /\ UNCHANGED <<started, req>> /\ \A v \in Request : x \notin req[v].gone
    BY <1>9 DEF DeleteEntry, Unlocked
  <2>1. Numbered'
    BY <1>9 DEF Numbered, Older, Busied, Untouched
  <2>2. GoneStored'
    BY <1>9 DEF GoneStored, Untouched
  <2>3. ListsNested'
    BY <1>9 DEF ListsNested, Untouched
  <2>4. ListsMeetGone'
    BY <1>9 DEF ListsMeetGone, Untouched
  <2>5. OneDeletes'
    BY <1>9 DEF OneDeletes, Untouched
  <2>6. DoneKept'
    BY <1>9 DEF DoneKept, Posted, Untouched, JobOfRow
  <2> QED
    BY <2>1, <2>2, <2>3, <2>4, <2>5, <2>6
<1>10. CASE UNCHANGED <<req, rows, started, byHand>>
  BY <1>10
  DEF Numbered, Older, Busied, GoneStored, ListsNested, ListsMeetGone, OneDeletes, DoneKept,
     Posted
<1> QED
  BY <1>1, <1>2, <1>3, <1>4, <1>5, <1>6, <1>7, <1>8, <1>9, <1>10
  DEF Next, Proceed, Staff, CloseOrReopen, vars

----------------------------------------------------------------------------
(* Theorems.                                                               *)

\* The empty ledger and no request satisfy both invariants.
LEMMA InitialState == Init => DuplicateInv /\ ResetInv
<1> SUFFICES ASSUME Init PROVE DuplicateInv /\ ResetInv
  OBVIOUS
<1>1. \A w \in Request :
        /\ req[w].pc = "idle" /\ req[w].no = 0 /\ req[w].list = {} /\ req[w].gone = {}
        /\ req[w].done = {} /\ req[w].made = {}
  BY DEF Init, Idle, AtStart
<1>2. TypeOK
  BY DEF Init, TypeOK
<1>3. BaseInv
  BY <1>1, <1>2 DEF BaseInv, CurKnown, Untouched, OwnRows
<1>4. OverlapKnown /\ OneEach /\ ClaimsOverlap /\ DuplicatesOverlapped
  BY <1>1 DEF Init, OverlapKnown, OneEach, ClaimsOverlap, DuplicatesOverlapped, Busied
<1>5. Numbered
  BY <1>1 DEF Init, Numbered, Older, Busied
<1>6. GoneStored /\ ListsNested /\ ListsMeetGone /\ OneDeletes /\ DoneKept
  BY <1>1 DEF GoneStored, ListsNested, ListsMeetGone, OneDeletes, DoneKept
<1> QED
  BY <1>3, <1>4, <1>5, <1>6 DEF DuplicateInv, ResetInv, Resets

\* Every state of every allocation, concurrent resets included, is well typed
\* (costing.py:66-133).
THEOREM TypeCorrect == Spec => []TypeOK
<1>1. DuplicateInv => TypeOK
  BY DEF DuplicateInv, BaseInv
<1> QED
  BY InitialState, DuplicateStep, <1>1, PTL DEF Spec

\* Two rows for one job come from allocations that were in progress at once (costing.py:103):
\* the skip test fails against a concurrent allocation only.
THEOREM DuplicatesComeFromOverlap == Spec => []DuplicatesOverlapped
<1>1. DuplicateInv => DuplicatesOverlapped
  BY DEF DuplicateInv
<1> QED
  BY InitialState, DuplicateStep, <1>1, PTL DEF Spec

\* At most one open transaction has deleted rows, since a DELETE waits for another's row and
\* the later of two lists contains what is left of the earlier one (costing.py:85).
THEOREM ResetsTakeTurns == Spec => []OneDeletes
<1>1. ResetInv => OneDeletes
  BY DEF ResetInv, Resets
<1> QED
  BY InitialState, ResetStep, <1>1, PTL DEF Spec

\* A job loses its last row to an administrator or to a reset that found it no longer payable,
\* never to the overlap of a reset with other allocations (costing.py:84-111).
THEOREM ResetsLoseNothing == Spec => NothingLostByReset
<1> DEFINE Kept(j) ==
      Posted(rows, j) /\ ~ Posted(rows', j) =>
        \E w \in Request : Commit(w) /\ j \notin {JobOf[a] : a \in req[w].plan}
<1>1. ResetInv /\ [Next]_vars => [\A j \in Job \ byHand' : Kept(j)]_vars
  <2> SUFFICES ASSUME ResetInv, Next, NEW j \in Job \ byHand'
               PROVE  Kept(j)
    BY DEF Kept
  <2>1. ASSUME NEW w \in Request, Commit(w)
        PROVE  Kept(j)
    <3> SUFFICES ASSUME Posted(rows, j), NEW a \in req[w].plan, j = JobOf[a]
                 PROVE  Posted(rows', j)
      BY <2>1
    <3>1. a \in Assignment /\ a \in req[w].done /\ j \notin byHand
      BY <2>1, Fields DEF Commit, ResetInv, BaseInv
    <3>2. Posted(req[w].made, j) \/ Posted(rows \ req[w].gone, j)
      BY <3>1 DEF ResetInv, Resets, DoneKept
    <3> QED
      BY <2>1, <3>2 DEF Commit, Posted
  <2>2. ASSUME NEW x \in rows, DeleteEntry(x)
        PROVE  Kept(j)
    BY <2>2 DEF DeleteEntry, Posted
  <2>3. CASE UNCHANGED rows
    BY <2>3 DEF Posted
  <2> QED
    BY <2>1, <2>2, <2>3 DEF Next, Proceed, allocate_monthly_salary, ListRows, DeleteRows,
       ReadAssignments, Check, Create, Rollback, Staff, CloseOrReopen
<1> QED
  BY InitialState, ResetStep, <1>1, PTL DEF Spec, NothingLostByReset
=============================================================================
