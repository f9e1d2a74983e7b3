---------------------------- MODULE MCHostFileOpen ----------------------------
(* HostFileOpen with an SVGA file and a file of another format.             *)
EXTENDS HostFileOpen
=============================================================================
