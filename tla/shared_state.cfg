SPECIFICATION MCFairSpec
CONSTANTS
  Runs = {r1, r2}
  RunIds = {i1, i2}
  Decisions = {d1, d2}
  MaxRequests = 2
  Callers = {c1, c2}
  Waiters = {w1, w2}
  Accounts = {a1, a2}
  Rotators = {k1, k2}
  Logins = {l1}
  MaxStarts = 2
  MaxLogouts = 1
  Legacy = TRUE
  Commands = {m1, m2}
  MaxServers = 2
  MaxClients = 2
  Codes = {"pk"}
INVARIANTS
  LiveRunsCancellable
  NoLostWakeup
  SignOutIsFinal
  NoStrayServer
PROPERTIES
  ImplementsDialogue
  CancelReachesAll
  RotationKeepsMaster
  CommandsReturn
CHECK_DEADLOCK FALSE
