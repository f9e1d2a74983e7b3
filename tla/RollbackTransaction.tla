------------------------- MODULE RollbackTransaction -------------------------
(***************************************************************************)
(* Rolling the installed desktop app back to the previous build, and       *)
(* recovering a rollback that was interrupted                              *)
(* (tools/svga-workbench/local-stable-recovery.mjs).                       *)
(*                                                                         *)
(* rollbackPreviousApp exchanges two app bundles under a write-ahead       *)
(* journal; recoverRollbackTransaction finishes or undoes what an          *)
(* interrupted rollback left behind.  One action is one durable effect on  *)
(* the disk with the reads before it; a process may stop at any of them,   *)
(* and a crash may leave the effect under way half done.                   *)
(*                                                                         *)
(* Simplifications: one command runs at a time (they are started by hand); *)
(* a bundle is its build plus whether its files were added to after it was *)
(* written; the phase in the journal is left out, recovery never reads it; *)
(* a running app and a failed registration are both a Stop of the command; *)
(* promotion, which lives in another file, is one step.                    *)
(***************************************************************************)
EXTENDS Naturals

CONSTANTS
  Ids,      \* rollback identifiers the operator may use
  Builds    \* app builds

VARIABLES
  roles,       \* <<installed build, previous build>>
  grown,       \* builds whose bundle changed without changing its bound hashes
  registered,  \* build that LaunchServices was last told about
  stage,       \* stage[i]: the staged copy of rollback i
  journal,     \* journal[i]: the journal file; "bound" has a manifestSha256
  next,        \* next[i]: the journal's .next file
  before,      \* before[i]: bindings of the journal, the roles it started from
  manifest,    \* manifest[i]: the rollback manifest
  recorded,    \* recorded[i]: catalogs the manifest of i describes
  pc,          \* what the running command does next, "idle" for none
  cur,         \* the rollback that command works on
  seen,        \* catalogs the command inspected
  exchanged,   \* history: rollbacks whose exchange took place
  disturbed    \* history: rollbacks whose bundles another rollback or a
               \* promotion moved while their journal lay on the disk

disk == <<stage, journal, next, before, manifest, recorded>>
history == <<exchanged, disturbed>>
vars == <<roles, grown, registered, disk, pc, cur, seen, history>>

Roles == Builds \X Builds

RollbackLabels ==
  {"writeJournal", "copyStage", "journalPrepared", "recheck", "swap",
   "postcheck", "journalSwapped", "register", "journalRegistered",
   "writeManifest", "journalManifest", "removeStage", "journalCommitted",
   "removeJournal"}

RecoveryLabels == {"reRegister", "reWriteManifest", "rebindJournal", "cleanup"}

\* Where an existing journal is about to be replaced.
Updating == {"journalPrepared", "journalSwapped", "journalRegistered",
             "journalManifest", "journalCommitted", "rebindJournal"}

TypeOK ==
  /\ roles \in Roles
  /\ grown \subseteq Builds
  /\ registered \in Builds
  /\ stage \in [Ids -> {"none", "partial", "copy"}]
  /\ journal \in [Ids -> {"none", "torn", "open", "bound"}]
  /\ next \in [Ids -> {"none", "torn", "whole"}]
  /\ before \in [Ids -> Roles]
  /\ manifest \in [Ids -> {"none", "torn", "whole"}]
  /\ recorded \in [Ids -> SUBSET Builds]
  /\ pc \in RollbackLabels \cup RecoveryLabels \cup {"idle"}
  /\ cur \in Ids
  /\ seen \subseteq Builds
  /\ exchanged \subseteq Ids
  /\ disturbed \subseteq Ids

Init ==
  /\ roles \in Roles
  /\ roles[1] # roles[2]
  /\ grown = {}
  /\ registered = roles[1]
  /\ stage = [i \in Ids |-> "none"]
  /\ journal = [i \in Ids |-> "none"]
  /\ next = [i \in Ids |-> "none"]
  /\ before = [i \in Ids |-> roles]
  /\ manifest = [i \in Ids |-> "none"]
  /\ recorded = [i \in Ids |-> {}]
  /\ pc = "idle"
  /\ cur \in Ids
  /\ seen = {}
  /\ exchanged = {}
  /\ disturbed = {}

-----------------------------------------------------------------------------
(* What the commands read.                                                 *)

Reverse(r) == <<r[2], r[1]>>

\* The catalogs of the two inspected bundles.
Catalogs == {b \in {roles[1], roles[2]} : b \in grown}

\* Mutant: recovery does not look at the bundles.
AnyRolesAreOriginal(i) == TRUE

\* classifyRollbackState, against the bindings of rollback i.
OriginalRoles(i) == roles = before[i]
SwappedRoles(i) == roles = Reverse(before[i])

NoJournals == \A i \in Ids : journal[i] = "none"

\* The rollbacks that a move of the bundles finds unfinished.
Unfinished == {i \in Ids : journal[i] # "none"}

-----------------------------------------------------------------------------
(* What the commands write.                                                *)

Goto(l) == pc' = l /\ UNCHANGED cur

KeepRoles == UNCHANGED <<roles, grown, registered, history>>

\* replaceJsonDurably throws when an earlier .next file is still there.
UpdateJournal(at, value, to) ==
  /\ pc = at
  /\ next[cur] = "none"
  /\ journal' = [journal EXCEPT ![cur] = value]
  /\ Goto(to)
  /\ UNCHANGED <<stage, next, before, manifest, recorded, seen>>
  /\ KeepRoles

RegisterApp(at, to) ==
  /\ pc = at
  /\ registered' = roles[1]
  /\ Goto(to)
  /\ UNCHANGED <<roles, grown, disk, seen, history>>

PublishManifest(at, to) ==
  /\ pc = at
  /\ manifest[cur] = "none"
  /\ manifest' = [manifest EXCEPT ![cur] = "whole"]
  /\ recorded' = [recorded EXCEPT ![cur] = seen]
  /\ Goto(to)
  /\ UNCHANGED <<stage, journal, next, before, seen>>
  /\ KeepRoles

DeleteStage(to) ==
  /\ stage' = [stage EXCEPT ![cur] = "none"]
  /\ Goto(to)
  /\ UNCHANGED <<journal, next, before, manifest, recorded, seen>>
  /\ KeepRoles

DeleteJournal ==
  /\ journal' = [journal EXCEPT ![cur] = "none"]
  /\ Goto("idle")
  /\ UNCHANGED <<stage, next, before, manifest, recorded, seen>>
  /\ KeepRoles

-----------------------------------------------------------------------------
(* rollbackPreviousApp.                                                    *)

\* Mutant: a finished rollback is not noticed.
NoResidue(i) == stage[i] = "none" /\ journal[i] = "none" /\ next[i] = "none"

\* Nothing of the same rollback may exist.
NoCollision(i) ==
  stage[i] = "none" /\ journal[i] = "none" /\ next[i] = "none"
    /\ manifest[i] = "none"

\* The two builds must differ, or their roles would be ambiguous.
StartRollback(i) ==
  /\ pc = "idle"
  /\ NoCollision(i)
  /\ roles[1] # roles[2]
  /\ pc' = "writeJournal"
  /\ cur' = i
  /\ seen' = Catalogs
  /\ UNCHANGED disk
  /\ KeepRoles

WriteJournal ==
  /\ pc = "writeJournal"
  /\ journal' = [journal EXCEPT ![cur] = "open"]
  /\ before' = [before EXCEPT ![cur] = roles]
  /\ Goto("copyStage")
  /\ UNCHANGED <<stage, next, manifest, recorded, seen>>
  /\ KeepRoles

CopyStage ==
  /\ pc = "copyStage"
  /\ stage' = [stage EXCEPT ![cur] = "copy"]
  /\ Goto("journalPrepared")
  /\ UNCHANGED <<journal, next, before, manifest, recorded, seen>>
  /\ KeepRoles

\* Both bundles must still be what preflight saw.
Recheck ==
  /\ pc = "recheck"
  /\ OriginalRoles(cur)
  /\ Catalogs = seen
  /\ Goto("swap")
  /\ UNCHANGED <<disk, seen>>
  /\ KeepRoles

AtomicSwap ==
  /\ pc = "swap"
  /\ roles' = Reverse(roles)
  /\ exchanged' = exchanged \cup {cur}
  /\ disturbed' = disturbed \cup (Unfinished \ {cur})
  /\ Goto("postcheck")
  /\ UNCHANGED <<grown, registered, disk, seen>>

Postcheck ==
  /\ pc = "postcheck"
  /\ SwappedRoles(cur)
  /\ seen' = Catalogs
  /\ Goto("journalSwapped")
  /\ UNCHANGED disk
  /\ KeepRoles

RollbackStep ==
  \/ WriteJournal
  \/ CopyStage
  \/ UpdateJournal("journalPrepared", "open", "recheck")
  \/ Recheck
  \/ AtomicSwap
  \/ Postcheck
  \/ UpdateJournal("journalSwapped", "open", "register")
  \/ RegisterApp("register", "journalRegistered")
  \/ UpdateJournal("journalRegistered", "open", "writeManifest")
  \/ PublishManifest("writeManifest", "journalManifest")
  \/ UpdateJournal("journalManifest", "bound", "removeStage")
  \/ pc = "removeStage" /\ DeleteStage("journalCommitted")
  \/ UpdateJournal("journalCommitted", "bound", "removeJournal")
  \/ pc = "removeJournal" /\ DeleteJournal

-----------------------------------------------------------------------------
(* recoverRollbackTransaction.                                             *)

\* Mutant: a missing manifest is written whatever the roles are.
RouteByManifest(i, to) ==
  \/ manifest[i] = "none" /\ to = "reRegister"
  \/ manifest[i] = "whole" /\ journal[i] = "bound" /\ to = "cleanup"

\* With the roles original the rollback is undone; a manifest is a
\* contradiction.  With the roles exchanged it is completed; an existing
\* manifest must be the one the journal is bound to, and describe the disk.
RecoveryRoute(i, to) ==
  \/ OriginalRoles(i) /\ manifest[i] = "none" /\ to = "cleanup"
  \/ /\ ~OriginalRoles(i) /\ SwappedRoles(i)
     /\ \/ manifest[i] = "none" /\ to = "reRegister"
        \/ /\ manifest[i] = "whole" /\ journal[i] = "bound"
           /\ recorded[i] = Catalogs
           /\ to = "cleanup"

StartRecovery(i) ==
  /\ pc = "idle"
  /\ journal[i] \in {"open", "bound"}
  /\ next[i] # "torn"
  /\ \E to \in RecoveryLabels : RecoveryRoute(i, to) /\ pc' = to
  /\ cur' = i
  /\ seen' = Catalogs
  /\ UNCHANGED disk
  /\ KeepRoles

CleanNext ==
  /\ next' = [next EXCEPT ![cur] = "none"]
  /\ Goto("cleanup")
  /\ UNCHANGED <<stage, journal, before, manifest, recorded, seen>>
  /\ KeepRoles

\* Mutant: the journal is removed before what it accounts for.
CleanupJournalFirst == pc = "cleanup" /\ DeleteJournal

Cleanup ==
  /\ pc = "cleanup"
  /\ \/ stage[cur] # "none" /\ DeleteStage("cleanup")
     \/ stage[cur] = "none" /\ next[cur] # "none" /\ CleanNext
     \/ stage[cur] = "none" /\ next[cur] = "none" /\ DeleteJournal

RecoveryStep ==
  \/ RegisterApp("reRegister", "reWriteManifest")
  \/ PublishManifest("reWriteManifest", "rebindJournal")
  \/ UpdateJournal("rebindJournal", "bound", "cleanup")
  \/ Cleanup

-----------------------------------------------------------------------------
(* Faults and the world outside.                                           *)

\* The command throws at a check, or crashes between two effects.
Stop ==
  /\ pc # "idle"
  /\ Goto("idle")
  /\ UNCHANGED <<disk, seen>>
  /\ KeepRoles

\* A crash in the middle of an effect: a file that is created but not yet
\* written, a .next file that is not yet renamed, a bundle half copied or
\* half removed.
Tear ==
  /\ Goto("idle")
  /\ UNCHANGED <<before, recorded, seen>>
  /\ KeepRoles
  /\ \/ /\ pc = "writeJournal"
        /\ journal' = [journal EXCEPT ![cur] = "torn"]
        /\ UNCHANGED <<stage, next, manifest>>
     \/ /\ pc \in Updating /\ next[cur] = "none"
        /\ \E v \in {"torn", "whole"} : next' = [next EXCEPT ![cur] = v]
        /\ UNCHANGED <<stage, journal, manifest>>
     \/ /\ pc \in {"writeManifest", "reWriteManifest"}
        /\ manifest' = [manifest EXCEPT ![cur] = "torn"]
        /\ UNCHANGED <<stage, journal, next>>
     \/ /\ pc \in {"copyStage", "removeStage", "cleanup"}
        /\ pc = "cleanup" => stage[cur] # "none"
        /\ stage' = [stage EXCEPT ![cur] = "partial"]
        /\ UNCHANGED <<journal, next, manifest>>

\* Something adds files to an app bundle: the catalog changes, the hashes
\* the bindings name do not.
Grow(b) ==
  /\ b \in {roles[1], roles[2]}
  /\ grown' = grown \cup {b}
  /\ UNCHANGED <<roles, registered, disk, pc, cur, seen, history>>

\* A new build is promoted: installed becomes previous.  Promotion refuses
\* while a staged rollback copy lies beside the app; a journal it does not
\* look for.
Promote(b) ==
  /\ pc = "idle"
  /\ \A i \in Ids : stage[i] = "none"
  /\ b # roles[1]
  /\ roles' = <<b, roles[1]>>
  /\ grown' = grown \ {b}
  /\ registered' = b
  /\ disturbed' = disturbed \cup Unfinished
  /\ UNCHANGED <<disk, pc, cur, seen, exchanged>>

Next ==
  \/ \E i \in Ids : StartRollback(i) \/ StartRecovery(i)
  \/ RollbackStep \/ RecoveryStep \/ Stop \/ Tear
  \/ \E b \in Builds : Grow(b) \/ Promote(b)

Spec == Init /\ [][Next]_vars

-----------------------------------------------------------------------------
(* Properties.                                                             *)

\* Whatever a rollback leaves lying about, the journal that entitles
\* recovery to remove it is still there.
ResidueHasAuthority ==
  \A i \in Ids : stage[i] # "none" \/ next[i] # "none" => journal[i] # "none"

\* Once the bundles were exchanged, the disk says so, with a journal recovery
\* can read or with the final manifest, unless something else moved the
\* bundles before the rollback was finished.
ExchangeOnRecord ==
  \A i \in exchanged \ disturbed :
    journal[i] \in {"open", "bound"} \/ manifest[i] = "whole"

\* The manifest of a rollback nothing else interfered with never tells of an
\* exchange that did not happen, and while its journal is there the bundles
\* on disk are the exchanged ones; a journal is bound to a whole manifest only.
ManifestIsHonest ==
  /\ \A i \in Ids \ disturbed : manifest[i] # "none" =>
       i \in exchanged /\ (journal[i] # "none" => SwappedRoles(i))
  /\ \A i \in Ids : journal[i] = "bound" => manifest[i] = "whole"

\* With no rollback outstanding, LaunchServices knows the installed build,
\* whatever rollbacks and promotions were started over each other's journals.
RegistrationIsCurrent == NoJournals => registered = roles[1]

\* What a rollback tells the outside, its manifest and the registration, is
\* true of the bundles.
OutsideIsTold == ManifestIsHonest /\ RegistrationIsCurrent

\* --rollback-previous is single-use: an identifier exchanges the bundles at
\* most once, however often it is interrupted, recovered and started again.
SingleUse ==
  [][\A i \in Ids : cur = i /\ AtomicSwap => i \notin exchanged]_vars

\* What the code does promise: only a rollback whose bundles something else
\* moved while its journal was left can exchange them a second time.
OnceUnlessDisturbed ==
  [][\A i \in Ids :
       cur = i /\ AtomicSwap => i \notin exchanged \/ i \in disturbed]_vars

\* Recovery that has written the missing manifest can bind the journal to it.
RecoveryCanBind == pc = "rebindJournal" => next[cur] = "none"
=============================================================================
