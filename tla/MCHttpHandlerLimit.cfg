\* Nine requests, each answered "true, text", on a stack of LUA_MINSTACK slots.
CONSTANTS
  MaxReq = 9
  MaxCallback = 0
  Results <- OneResult
  Lookups = {}
  MinStack = 20
SPECIFICATION Spec
INVARIANT PushesWithinLimit
