---------------------------- MODULE MCDesktopEdits ----------------------------
(***************************************************************************)
(* Bounded instances of DesktopSession and of RuntimeEdits for TLC.  The   *)
(* two have no state in common, so one run checks each with the other at   *)
(* rest instead of every pair of their states.                             *)
(***************************************************************************)
EXTENDS DesktopSession, RuntimeEdits

CONSTANT MaxInputs   \* bound on intents plus files opened

VARIABLE side        \* whose steps are taken; never changes

MCInit == Init /\ EditsInit /\ side \in {"session", "edits"}

MCNext ==
  \/ side = "session" /\ Next /\ UNCHANGED <<editsVars, side>>
  \/ /\ side = "edits" /\ EditsNext /\ UNCHANGED <<vars, side>>
     /\ typed' + asked' <= MaxInputs

MCSpec ==
  /\ MCInit
  /\ [][MCNext]_<<vars, editsVars, side>>
  /\ Fairness
  /\ EditsFairness
=============================================================================
