\* Three allocations, all of which may overlap; two assignments of one job.
CONSTANTS
  a1 = a1
  a2 = a2
  j = j
  w1 = w1
  w2 = w2
  w3 = w3
  Assignment <- TwoAssignments
  JobOf <- OneJob
  Request <- ThreeRequests
  MaxAllocations = 3
  Nil = Nil

SPECIFICATION Spec
SYMMETRY Interchangeable

INVARIANT TypeOK
INVARIANT DuplicatesOverlapped

PROPERTY NothingLostByReset
