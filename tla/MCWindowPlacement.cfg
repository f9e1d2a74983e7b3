CONSTANTS
  Procs = {p, q}
  Screens <- MCScreens
  OwnerRects <- MCOwnerRects
  Acceptance = {200}
  MaxGestures = 2
  MaxWrites = 2
  MaxStops = 1
SPECIFICATION Spec
SYMMETRY ProcSymmetry
INVARIANTS StoredIsSound TempsAccounted
PROPERTIES LaunchesOnScreen RestoresWhatWasSaved StaysReadable
