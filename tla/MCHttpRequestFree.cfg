\* A call whose uri is NULL, or cannot be copied.
CONSTANTS
  o1 = o1
  o2 = o2
  o3 = o3
  Out <- MCOut
  ArgLists <- MCArgLists
  Faults <- MCFaults
SPECIFICATION Spec
INVARIANT RequestFreedOnce
