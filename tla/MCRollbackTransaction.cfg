CONSTANTS
  Ids = {r1, r2}
  Builds = {a, b, c}
SYMMETRY Symmetry
SPECIFICATION Spec
INVARIANTS ResidueHasAuthority ExchangeOnRecord OutsideIsTold
PROPERTY OnceUnlessDisturbed
CHECK_DEADLOCK FALSE
