\* Every way a call can turn out, three calls, with nested callbacks.
CONSTANTS
  o1 = o1
  o2 = o2
  o3 = o3
  Out <- MCOut
  ArgLists <- MCArgLists
  Faults <- MCFaults
SPECIFICATION FairSpec
INVARIANTS IInv MemorySafe RecordOutlivesCallback NothingLeft
PROPERTIES ContractSpec AcceptedIsCalledBack
