\* A table and a userdata: cycles and finalizers.
SPECIFICATION OneHeap
CONSTANTS
  Main = Main
  Registry = Registry
  Nil = Nil
  t1 = t1
  u1 = u1
  u2 = u2
  s1 = s1
  f1 = f1
  v1 = v1
  c1 = c1
  Obj = {Main, Registry, t1, u1}
  kind <- KindOfObj
  Slots = {1}
  Modes <- ModesNone
  KeyKinds = {}
  MaxEntries = 1
  Collects = FALSE
  Basics = FALSE
PROPERTY GarbageIsFreed
