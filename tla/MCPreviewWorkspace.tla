------------------------- MODULE MCPreviewWorkspace -------------------------
(* A bounded instance of PreviewWorkspace for TLC.                         *)
EXTENDS PreviewWorkspace
=============================================================================
