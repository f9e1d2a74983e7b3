--------------------------- MODULE MCOwnerPreview ---------------------------
\* TLC instances of OwnerPreview; the cfgs choose the targets and the caller.
EXTENDS OwnerPreview, TLC

TargetSymmetry == Permutations(Targets)
=============================================================================
