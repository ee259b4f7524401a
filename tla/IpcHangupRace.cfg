CONSTANTS
  client = client
  server = server
  ct1 = ct1
  ct2 = ct2
  st1 = st1
  st2 = st2
  p1 = p1
  p2 = p2
  p3 = p3
  c1 = c1
  c2 = c2
  sc1 = sc1
  None = None
  Tasks = {client, server}
  Threads = {ct1, ct2, st1}
  TaskOf <- ClientPair
  Phones = {p1, p2}
  BootPhones = {p1, p2}
  BootCaller <- BothWaysCaller
  BootCallee <- BothWaysCallee
  Calls = {c1}
  SyncCalls = {}
  ConnectCalls = {}
  Mortal = {server}
  UserRetvals = {"EOK", "EHANGUP"}
  MaxAsyncCalls = 2
  MaxPokes = 0
SPECIFICATION Spec
INVARIANTS CleanupGetsAnswersOnly
\* The system may stop when its tasks are gone or a kernel assertion has failed.
CHECK_DEADLOCK FALSE
