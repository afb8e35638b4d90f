\* Two incoming requests whose scripts make two calls between them.
CONSTANTS
  o1 = o1
  o2 = o2
  Out <- MCOut
  ArgLists <- MCArgLists
  Faults <- MCFaults
  MaxReq = 2
  MaxCallback = 2
  Results <- MCResults
  Lookups <- MCLookups
  MinStack = 20
SPECIFICATION FairSpec
INVARIANTS ClosedOnce ScriptsHaveTheirState
PROPERTIES PartsSpec HandledIsAnswered StartsOrEnds
