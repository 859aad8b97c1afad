--------------------------- MODULE AllocationMath ---------------------------
(***************************************************************************)
(* The arithmetic of simulate_allocation (src/apps/evaluation/costing.py): *)
(* driver values into shares, shares into amounts.  Amounts are integers,  *)
(* the smallest unit of money; a share is an integer number of parts, of   *)
(* which ShareUnit make the whole (10^6 in the code, 10^2 for an amount).  *)
(* That the quotient is rounded to 28 digits first is left out.            *)
(***************************************************************************)
EXTENDS Integers, Functions

CONSTANT ShareUnit

ASSUME ShareUnitAssumption == ShareUnit \in Nat \ {0}

\* Decimal.quantize of a / b for b > 0: to the nearest integer, a half to the even one.
quantize(a, b) ==
  LET q == a \div b
      r == a % b
  IN IF 2 * r > b \/ (2 * r = b /\ q % 2 = 1) THEN q + 1 ELSE q

Share(value, total) == quantize(value * ShareUnit, total)
Amount(source, share) == quantize(source * share, ShareUnit)

Total(driver) == SumFunction(driver)

NoResults == [t \in {} |-> 0]

\* For Allocate: shares are taken of the driver values that are positive and not of their total.
FaultyAllocate(source, driver) ==
  IF Total(driver) <= 0 \/ source <= 0 THEN NoResults
  ELSE [t \in {x \in DOMAIN driver : driver[x] > 0} |->
          LET s == Share(driver[t], 1 + Total(driver))
          IN  [value |-> driver[t], share |-> s, amount |-> Amount(source, s)]]

\* For Allocate: targets whose value is not positive are not skipped.
FaultyAllocateAll(source, driver) ==
  IF Total(driver) <= 0 \/ source <= 0 THEN NoResults
  ELSE [t \in DOMAIN driver |->
          LET s == Share(driver[t], Total(driver))
          IN  [value |-> driver[t], share |-> s, amount |-> Amount(source, s)]]

\* The results of a simulation: nothing for a driver or a source that is not positive in total,
\* and no result for a target whose value is not.
Allocate(source, driver) ==
  IF Total(driver) <= 0 \/ source <= 0 THEN NoResults
  ELSE [t \in {x \in DOMAIN driver : driver[x] > 0} |->
          LET s == Share(driver[t], Total(driver))
          IN  [value |-> driver[t], share |-> s, amount |-> Amount(source, s)]]

\* How far the amounts of n results may be from the source, times 2 * ShareUnit: half a part
\* of the source and half a unit of money for each.
Slack(source, n) == n * (source + ShareUnit)

=============================================================================
