CONSTANTS
  t1 = t1
  t2 = t2
  a0 = a0
  a1 = a1
  a2 = a2
  a3 = a3
  n1 = n1
  n2 = n2
  n3 = n3
  Null = Null
  NoArgs = NoArgs
  NoThread = NoThread
  Threads <- MCThreads
  Args <- MCArgs
  ValidArgs <- MCValidArgs
  Hash <- MCHashOneBucket
  Nodes <- MCNodes
  TabSize = 2
  PartSize = 1
  MaxId = 3
  MaxCalls = 2
  Ops <- MCOpsPutGet
SPECIFICATION Spec
INVARIANT TypeOK
PROPERTY DepotRefinesMap
CHECK_DEADLOCK FALSE
