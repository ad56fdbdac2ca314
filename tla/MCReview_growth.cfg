SPECIFICATION FairSpec
CONSTANTS
  m1 = m1  m2 = m2  l1 = l1  l2 = l2  b1 = b1  b2 = b2  t1 = t1
  NoBundle = NoBundle  NoLook = NoLook
  Message = {m1, m2}
  Look = {l1, l2}
  Folder <- TwoFolders
  Bundle = {b1}
  Filing = {b1}
  Target <- IntoL2
  Tab = {t1}
  MaxSize = 2
  MaxBatch = 2
INVARIANT TakenOutStaysOut
PROPERTIES KeepsConsent DueBundlesLeave
