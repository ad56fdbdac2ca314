SPECIFICATION Spec
CONSTANTS
  m1 = m1  m2 = m2  l1 = l1  l2 = l2  b1 = b1  b2 = b2  t1 = t1
  NoBundle = NoBundle  NoLook = NoLook
  Message = {m1}
  Look = {l1}
  Folder <- OneFolder
  Bundle = {b1, b2}
  Filing = {b1}
  Target <- NoTargets
  Tab = {t1}
  MaxSize = 2
  MaxBatch = 2
INVARIANT StaleBundleDidNothing
