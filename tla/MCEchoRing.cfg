\* One client and a greeting of three bytes: order, reports and liveness.
CONSTANTS
  c1 = c1
  c2 = c2
  Clients <- OneClient
  Greeting <- ThreeBytes
  Word = 7
  K = 2
  MaxSince = 9
SPECIFICATION FairSpec
INVARIANTS InOrder CountedOnce
PROPERTIES RingsSpec KeepsTurning PeersEnd
