---------------------------- MODULE PermitLedger ----------------------------
(***************************************************************************)
(* What the closing of fiscal periods promises, without the code: a row    *)
(* enters the book of a period only on a permit for that period, a permit  *)
(* is granted only while the period is open, and each permit is good for   *)
(* one posting.  Rows may leave the book at any time.                      *)
(*                                                                         *)
(* PeriodLedger.tla implements this module: a permit is a request that has *)
(* passed _ensure_period_writable and has not yet written.                 *)
(***************************************************************************)
CONSTANTS
  Period,       \* accounting periods
  Row,          \* ledger rows
  Holder        \* whoever may hold permits

VARIABLES
  closed,       \* the periods that are closed
  permit,       \* the <<holder, period>> permits not yet used
  book          \* the <<row, period>> postings that stand

permitVars == <<closed, permit, book>>

\* All periods open, no permit out, no row posted.
Init ==
  /\ closed = {}
  /\ permit = {}
  /\ book = {}

\* A permit is granted on an open period only.
Grant(h, p) ==
  /\ p \notin closed
  /\ permit' = permit \cup {<<h, p>>}
  /\ UNCHANGED <<closed, book>>

\* A holder uses a permit: any rows enter the permit's period, any rows leave.
Post(h, p) ==
  /\ <<h, p>> \in permit
  /\ permit' = permit \ {<<h, p>>}
  /\ book' \subseteq book \cup (Row \X {p})
  /\ UNCHANGED closed

\* A permit is given back unused.
Return(h, p) ==
  /\ permit' = permit \ {<<h, p>>}
  /\ UNCHANGED <<closed, book>>

\* Rows leave the book.
Withdraw ==
  /\ book' \subseteq book
  /\ UNCHANGED <<closed, permit>>

Close(p) ==
  /\ closed' = closed \cup {p}
  /\ UNCHANGED <<permit, book>>

Reopen(p) ==
  /\ closed' = closed \ {p}
  /\ UNCHANGED <<permit, book>>

Next ==
  \/ Withdraw
  \/ \E p \in Period : Close(p) \/ Reopen(p)
  \/ \E h \in Holder, p \in Period : Grant(h, p) \/ Post(h, p) \/ Return(h, p)

Spec == Init /\ [][Next]_permitVars
=============================================================================
