SPECIFICATION Spec
CONSTANTS
  Proc = {p1, p2}
  Take = {t1, t2}
  RetryCap = 1
  MaxScript = 2
  MayForce = TRUE
  MayRegenerate = TRUE
INVARIANTS UploadedWasGated GatedHasEvidence
PROPERTIES RefusedStays Gate2IsTheOnlyWay
