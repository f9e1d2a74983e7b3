----------------------- MODULE MCPromotionTransaction -----------------------
(* Bounded instances of PromotionTransaction for TLC: builds are model      *)
(* values.                                                                  *)
EXTENDS PromotionTransaction
=============================================================================
