SPECIFICATION StSpec
CONSTANTS
  DEPTH_SPEC = 4
  DEPTH_COMMIT = 2
  s1 = s1
  s2 = s2
  Store = {s1, s2}
  NoStore = NoStore
  STEP = FALSE
INVARIANTS StInv
PROPERTIES ImplementsStoreQueue
