\* Three requests and a callback; one module on stacks of five values; three
\* seconds in any order; two clients and a greeting of two bytes.
CONSTANTS
  MaxReq = 3
  MaxCallback = 1
  Results <- MCResults
  Lookups <- MCLookups
  MinStack = 20
  Modules = {"rpc"}
  MaxStack = 5
  Returns <- MCReturns
  Found <- MCFound
  Outcomes <- MCOutcomes
  Times = {1, 2, 3}
  MaxRecords = 3
  Clients = {"c1", "c2"}
  Word = 3
  K = 2
  MaxSince = 4
SPECIFICATION PartsSpec
INVARIANTS IInv RepliesWithItsResult AnsweredOnce DispatchBalanced ResultsCounted UsedWhileLive StampsAreTrue ClientsApart
PROPERTY LoadedOnce
