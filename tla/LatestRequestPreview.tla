------------------------ MODULE LatestRequestPreview ------------------------
(***************************************************************************)
(* What a preview session promises its shell: the model on view speaks for *)
(* the newest request only.                                                *)
(*                                                                         *)
(* Opening and disposing are requests; each takes a number of its own and  *)
(* at once owns the view.  Results that are computed later may change the  *)
(* status of the view, but only under the newest number, and a view that   *)
(* has been disposed stays so until somebody opens again.                  *)
(***************************************************************************)
EXTENDS Naturals

VARIABLES
  newest,    \* number of the newest request
  view       \* [of |-> the request the view speaks for, status |-> ...]

LiveStatus == {"loading", "inspectionReady", "ready", "playing", "paused",
               "playbackBlocked", "playbackFailed", "failed"}

Init == newest = 0 /\ view = [of |-> 0, status |-> "idle"]

\* A new open takes over the view: it is under way, or was refused at once.
Request ==
  /\ newest' = newest + 1
  /\ \E s \in {"loading", "failed"} : view' = [of |-> newest + 1, status |-> s]

\* Work done for the newest request, or a control of its player.
Show ==
  /\ view.status # "disposed"
  /\ newest' = newest
  /\ \E s \in LiveStatus : view' = [of |-> newest, status |-> s]

Dispose ==
  /\ newest' = newest + 1
  /\ view' = [of |-> newest + 1, status |-> "disposed"]

Next == Request \/ Show \/ Dispose

Spec == Init /\ [][Next]_<<newest, view>>
=============================================================================
