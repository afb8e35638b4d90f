\* Scripts that return what http_handler expects; requests that may fail.
CONSTANTS
  o1 = o1
  o2 = o2
  Out <- MCOut
  ArgLists <- MCArgLists
  Faults <- MCFaults
  MaxReq = 2
  MaxCallback = 2
  Results <- GoodResult
  Lookups <- MCLookups
  MinStack = 20
SPECIFICATION Spec
INVARIANT ErrorsAreSurvived
