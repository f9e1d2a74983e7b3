CONSTANTS
  t1 = t1
  t2 = t2
  Targets = {t1, t2}
  MaxGen = 5
  MaxOverlapping = 3
SPECIFICATION Spec
SYMMETRY TargetSymmetry
INVARIANTS EditsBelongToFile ShowsTheOpenFile SettledAtRest
PROPERTIES RevisionNamesRecord SiblingsSurvive
CHECK_DEADLOCK FALSE
