SPECIFICATION Spec
CONSTANTS
  w1 = w1
  w2 = w2
  b1 = b1
  edit = edit
  list1 = list1
  list2 = list2
  NoBrowser = NoBrowser
  Worker = {w1, w2}
  Browser = {b1}
  Request = {edit, list1, list2}
  Ttl = 2
  MaxNow = 3
  MaxTokens = 3
  Workloads <- MCWorkloads
PROPERTIES
  BoundedStaleness
CHECK_DEADLOCK FALSE
