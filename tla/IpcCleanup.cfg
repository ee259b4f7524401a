CONSTANTS
  client = client
  server = server
  ct1 = ct1
  ct2 = ct2
  st1 = st1
  st2 = st2
  p1 = p1
  p2 = p2
  p3 = p3
  c1 = c1
  c2 = c2
  sc1 = sc1
  None = None
  Tasks = {client, server}
  Threads = {ct1, st1, st2}
  TaskOf <- ServerPair
  Phones = {p1, p3}
  BootPhones = {p1}
  BootCaller <- OneWayCaller
  BootCallee <- OneWayCallee
  Calls = {c1, c2}
  SyncCalls = {}
  ConnectCalls = {c2}
  Mortal = {client}
  UserRetvals = {"EOK", "EHANGUP", "error"}
  MaxAsyncCalls = 2
  MaxPokes = 0
SPECIFICATION Spec
SYMMETRY ServerSymmetry
INVARIANTS PhoneAccounting BoxAccounting PhoneLifetime AllAnswersArrived BoxAlive
\* The system may stop when its tasks are gone or a kernel assertion has failed.
CHECK_DEADLOCK FALSE
