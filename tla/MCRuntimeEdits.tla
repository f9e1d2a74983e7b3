---------------------------- MODULE MCRuntimeEdits ----------------------------
(* Bounded instances of RuntimeEdits for TLC; the cfgs choose the bounds.    *)
EXTENDS RuntimeEdits
=============================================================================
