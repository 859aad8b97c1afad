\* Two allocations of one period at once: is there ever a second row of a job?
CONSTANTS
  a1 = a1
  a2 = a2
  j = j
  w1 = w1
  w2 = w2
  w3 = w3
  Assignment <- TwoAssignments
  JobOf <- OneJob
  Request <- TwoRequests
  MaxAllocations = 2
  Nil = Nil

SPECIFICATION Spec

INVARIANT OneRowPerJob
