-------------------------- MODULE MCPreviewVertical --------------------------
(* Bounded instances of PreviewVertical for TLC.                            *)
EXTENDS PreviewVertical
=============================================================================
