--------------------------- MODULE SourceAuthority ---------------------------
(***************************************************************************)
(* What the desktop session promises the rest of the host: at most one     *)
(* opened file, its holder, has authority over preview, replacement and    *)
(* the Recent list, and authority moves forward only.                      *)
(*                                                                         *)
(* Every open is a request with a number above all earlier ones.  The      *)
(* newest request may be granted the authority, once; no other ever is.    *)
(* Authority can be taken back at any time and is not given again.         *)
(***************************************************************************)
EXTENDS Naturals

VARIABLES
  newest,  \* number of the newest request
  asking,  \* the newest request has not been answered yet
  holder   \* the request whose file has the authority, 0 for none

Init == newest = 0 /\ asking = FALSE /\ holder = 0

\* A refused request is answered at once, and takes the authority away.
Request ==
  /\ newest' \in Nat /\ newest' > newest
  /\ \/ asking' = TRUE /\ holder' = holder
     \/ asking' = FALSE /\ holder' = 0

Grant == asking /\ asking' = FALSE /\ holder' = newest /\ newest' = newest

Revoke == holder' = 0 /\ asking' \in {asking, FALSE} /\ newest' = newest

Next == Request \/ Grant \/ Revoke

Spec == Init /\ [][Next]_<<newest, asking, holder>>
=============================================================================
