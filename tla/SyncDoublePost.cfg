SPECIFICATION Spec
CONSTANTS
  N = 2
  MaxRows = 2
  ref1 = ref1
  ref2 = ref2
  id1 = id1
  id2 = id2
  b1 = b1
  b2 = b2
  closed = closed
  unknown = unknown
  c1 = c1
  c2 = c2
  NoRef = NoRef
  Absent = Absent
  NoId = NoId
  Ref = {ref1, ref2}
  Id = {id1, id2}
  Bill = {b1, b2, closed, unknown}
  BillState <- MCBillState
  Client = {c1, c2}
  Amount = {1, 2}
  Workloads <- MCRetriedBatch
INVARIANTS
  ClientIdPaysOnce
