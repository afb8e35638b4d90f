\* Four heaps; the module says which objects each has.
SPECIFICATION HeapsSpec
CONSTANTS
  Main = Main
  Registry = Registry
  Nil = Nil
  t1 = t1
  u1 = u1
  u2 = u2
  s1 = s1
  f1 = f1
  v1 = v1
  c1 = c1
  Obj = {Main, Registry, t1, u1, u2, s1, f1, v1, c1}
  kind <- KindOfObj
  Slots = {1, 2}
  Modes <- ModesOne
  KeyKinds = {"udata", "string"}
  MaxEntries = 1
  Collects = TRUE
  Basics = TRUE
INVARIANT NothingDangles
PROPERTY FinalizesOnlyGarbage
