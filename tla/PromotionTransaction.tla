------------------------ MODULE PromotionTransaction ------------------------
(***************************************************************************)
(* Promoting a packaged build to the local stable app, and recovering a    *)
(* promotion that was interrupted                                          *)
(* (tools/svga-workbench/promote-local-stable-app.mjs).                    *)
(*                                                                         *)
(* executeInstallAppTransaction stages a copy of the build beside the app, *)
(* writes a journal, and exchanges three bundles in two atomic steps: the  *)
(* staged build becomes the installed app, the installed app the previous  *)
(* one.  recoverPromotionTransaction tells from the bundles alone how far  *)
(* an interrupted promotion came, and undoes or completes it.  One action  *)
(* is one durable effect with the reads before it; a process may stop at   *)
(* any of them, or half-way through one.                                   *)
(*                                                                         *)
(* Simplifications: one command runs at a time (they are started by hand); *)
(* a bundle is its build, which is all that appPayloadMatches compares;    *)
(* unregistering stale LaunchServices records changes nothing here, and    *)
(* its refusals are a Stop; the journal's phase is left out, nothing reads *)
(* it; each promotion has an operation id, so a manifest path, of its own. *)
(***************************************************************************)
EXTENDS Naturals

CONSTANTS
  Builds,    \* app builds
  MaxStops   \* bound: interruptions of a command

ASSUME BuildsAreNoStates == "none" \notin Builds /\ "torn" \notin Builds
ASSUME StopsAssumption == MaxStops \in Nat

VARIABLES
  place,       \* the bundle at each place, "torn" when half copied or removed
  quarantine,  \* the parent directory carries the quarantine attribute
  registered,  \* build that LaunchServices was last told about
  journal,     \* the journal file; its bindings stay to name the last promotion
  next,        \* the journal's .next file
  manifest,    \* the exchange manifest of the last promotion
  pc,          \* what the running command does next, "idle" for none
  stops        \* interruptions so far

files == <<journal, next, manifest>>
vars == <<place, quarantine, registered, files, pc, stops>>

Places == {"target", "backup", "legacy", "stage"}
Apps == Builds \cup {"none"}

Updates ==
  {"journalQuarantine", "journalCleared", "journalUnregistered",
   "journalMigrated", "journalFirst", "journalComplete", "journalRegistered",
   "journalPostchecked", "journalManifest", "journalCleaned",
   "journalRecovering", "journalRestoring", "journalRestored",
   "journalAborted"}

Labels == Updates \cup
  {"idle", "writeJournal", "clearQuarantine", "migrateLegacy",
   "firstExchange", "secondExchange", "register", "publish", "removeStage",
   "removeJournal", "abortStage", "restoreLegacy", "restoreRename",
   "restoreQuarantine"}

Journals ==
  [file : {"none", "torn", "open"}, installed : Apps, previous : Apps,
   legacy : Apps, candidate : Apps, quarantined : BOOLEAN,
   migrated : BOOLEAN, registered : BOOLEAN, bound : BOOLEAN]

TypeOK ==
  /\ place \in [Places -> Apps \cup {"torn"}]
  /\ \A p \in Places \ {"stage"} : place[p] \in Apps
  /\ quarantine \in BOOLEAN
  /\ registered \in Apps
  /\ journal \in Journals
  /\ next \in {"none", "torn", "whole"}
  /\ manifest \in {"none", "torn", "whole"}
  /\ pc \in Labels
  /\ stops \in 0..MaxStops

\* A machine with or without an installed app, and with its previous build, if
\* any, in one of the two places it may have.
Init ==
  /\ \E i \in Apps, b \in Apps, l \in Apps :
       /\ b = "none" \/ l = "none"
       /\ i # "none" => i \notin {b, l}
       /\ place = [target |-> i, backup |-> b, legacy |-> l, stage |-> "none"]
       /\ registered = i
       /\ \E q \in BOOLEAN :
            /\ quarantine = q
            /\ journal = [file |-> "none", installed |-> i,
                          previous |-> IF b = "none" THEN l ELSE b,
                          legacy |-> l, candidate |-> i, quarantined |-> q,
                          migrated |-> FALSE, registered |-> FALSE,
                          bound |-> FALSE]
  /\ next = "none"
  /\ manifest = "none"
  /\ pc = "idle"
  /\ stops = 0

-----------------------------------------------------------------------------
(* classifyPromotionTransaction: what the bundles alone say.               *)

Candidate == IF place.backup # "none" THEN place.backup ELSE place.legacy

Ambiguous ==
  place.stage = "torn" \/ (place.backup # "none" /\ place.legacy # "none")

OriginalRoles ==
  /\ ~Ambiguous
  /\ place.target = journal.installed
  /\ Candidate = journal.previous
  /\ place.stage = journal.candidate

AfterFirstExchange ==
  /\ ~Ambiguous /\ ~OriginalRoles
  /\ place.target = journal.candidate
  /\ Candidate = journal.previous
  /\ place.stage = journal.installed

\* Mutant: the staged bundle must still be there.
CompleteWithStage ==
  /\ ~Ambiguous /\ ~OriginalRoles /\ ~AfterFirstExchange
  /\ place.target = journal.candidate
  /\ place.backup = journal.installed
  /\ place.legacy = "none"
  /\ place.stage = journal.previous

Complete ==
  /\ ~Ambiguous /\ ~OriginalRoles /\ ~AfterFirstExchange
  /\ place.target = journal.candidate
  /\ place.backup = journal.installed
  /\ place.legacy = "none"
  /\ place.stage \in {"none", journal.previous}

-----------------------------------------------------------------------------
(* Durable effects.                                                        *)

Goto(l) == pc' = l /\ UNCHANGED stops

\* replaceJsonDurably throws when an earlier .next file is still there.
UpdateJournal(at, content, to) ==
  /\ pc = at
  /\ next = "none"
  /\ journal' = content
  /\ Goto(to)
  /\ UNCHANGED <<place, quarantine, registered, next, manifest>>

\* renameatx_np(RENAME_SWAP), or a rename when one of the places is empty.
Exchange(p, q) ==
  /\ place' = [place EXCEPT ![p] = place[q], ![q] = place[p]]
  /\ UNCHANGED <<quarantine, registered, files>>

Remove(p) ==
  /\ place' = [place EXCEPT ![p] = "none"]
  /\ UNCHANGED <<quarantine, registered, files>>

SetQuarantine(q) ==
  /\ quarantine' = q
  /\ UNCHANGED <<place, registered, files>>

-----------------------------------------------------------------------------
(* executeInstallAppTransaction.                                           *)

\* Nothing of another promotion may lie about, and the previous build may be
\* in one place only.
NoResidue ==
  /\ place.stage = "none"
  /\ journal.file = "none"
  /\ next = "none"
  /\ ~(place.backup # "none" /\ place.legacy # "none")

StageCandidate(b) ==
  /\ pc = "idle"
  /\ NoResidue
  /\ place' = [place EXCEPT !.stage = b]
  /\ Goto("writeJournal")
  /\ UNCHANGED <<quarantine, registered, files>>

\* The journal binds what every place held when the promotion began.
Bindings(file) ==
  [file |-> file, installed |-> place.target, previous |-> Candidate,
   legacy |-> place.legacy, candidate |-> place.stage,
   quarantined |-> quarantine, migrated |-> FALSE, registered |-> FALSE,
   bound |-> FALSE]

WriteJournal ==
  /\ pc = "writeJournal"
  /\ journal' = Bindings("open")
  /\ manifest' = "none"
  /\ Goto(IF quarantine THEN "journalQuarantine" ELSE "journalUnregistered")
  /\ UNCHANGED <<place, quarantine, registered, next>>

ClearQuarantine ==
  /\ pc = "clearQuarantine"
  /\ SetQuarantine(FALSE)
  /\ Goto("journalCleared")

MigrateLegacy ==
  /\ pc = "migrateLegacy"
  /\ Exchange("legacy", "backup")
  /\ Goto("journalMigrated")

AfterUnregistering ==
  IF journal.legacy = "none" THEN "firstExchange" ELSE "migrateLegacy"

\* The staged build takes the place of the installed app, if there is one.
FirstExchange ==
  /\ pc = "firstExchange"
  /\ Exchange("stage", "target")
  /\ Goto(IF journal.installed = "none" THEN "journalComplete"
          ELSE "journalFirst")

\* A swap when a previous build is expected, a rename when not.
CanExchange ==
  place.stage # "none" /\ (place.backup = "none" <=> journal.previous = "none")

\* Mutant: the displaced app is thrown away instead of kept as previous.
DropDisplaced ==
  /\ pc = "secondExchange"
  /\ CanExchange
  /\ Remove("stage")
  /\ Goto("journalComplete")

SecondExchange ==
  /\ pc = "secondExchange"
  /\ CanExchange
  /\ Exchange("stage", "backup")
  /\ Goto("journalComplete")

Registering ==
  IF journal.registered THEN "journalPostchecked" ELSE "register"

RegisterApp ==
  /\ pc = "register"
  /\ registered' = place.target
  /\ Goto("journalRegistered")
  /\ UNCHANGED <<place, quarantine, files>>

\* Mutant: its own manifest stops a recovery.
PublishesOnce == Complete /\ manifest = "none"

\* An existing manifest must be the one the journal is bound to.
MayPublish == Complete /\ (manifest = "none" \/ journal.bound)

Publish ==
  /\ pc = "publish"
  /\ MayPublish
  /\ manifest' = "whole"
  /\ Goto(IF manifest = "none" THEN "journalManifest" ELSE "removeStage")
  /\ UNCHANGED <<place, quarantine, registered, journal, next>>

RemoveStage(at, to) ==
  /\ pc = at
  /\ Remove("stage")
  /\ Goto(to)

RemoveJournal ==
  /\ pc = "removeJournal"
  /\ journal' = [journal EXCEPT !.file = "none"]
  /\ Goto("idle")
  /\ UNCHANGED <<place, quarantine, registered, next, manifest>>

InstallStep ==
  \/ WriteJournal
  \/ UpdateJournal("journalQuarantine", journal, "clearQuarantine")
  \/ ClearQuarantine
  \/ UpdateJournal("journalCleared", journal, "journalUnregistered")
  \/ UpdateJournal("journalUnregistered", journal, AfterUnregistering)
  \/ MigrateLegacy
  \/ UpdateJournal("journalMigrated", [journal EXCEPT !.migrated = TRUE],
                   "firstExchange")
  \/ FirstExchange
  \/ UpdateJournal("journalFirst", journal, "secondExchange")
  \/ SecondExchange
  \/ UpdateJournal("journalComplete", journal, Registering)
  \/ RegisterApp
  \/ UpdateJournal("journalRegistered", [journal EXCEPT !.registered = TRUE],
                   "journalPostchecked")
  \/ UpdateJournal("journalPostchecked", journal, "publish")
  \/ Publish
  \/ UpdateJournal("journalManifest", [journal EXCEPT !.bound = TRUE],
                   "removeStage")
  \/ RemoveStage("removeStage", "journalCleaned")
  \/ UpdateJournal("journalCleaned", journal, "removeJournal")
  \/ RemoveJournal

-----------------------------------------------------------------------------
(* recoverPromotionTransaction.                                            *)

StartRecovery ==
  /\ pc = "idle"
  /\ journal.file = "open"
  /\ \/ OriginalRoles /\ Goto("abortStage")
     \/ AfterFirstExchange /\ Goto("journalRecovering")
     \/ Complete /\ Goto(Registering)
  /\ UNCHANGED <<place, quarantine, registered, files>>

\* Mutant: only a recorded migration is undone.
MigrationIsRecorded == journal.migrated

\* restoreLegacyPreviousBeforeExchange: the migration is on record, or can be
\* told from the two places.
WasMigrated ==
  \/ journal.migrated
  \/ journal.legacy # "none" /\ place.backup # "none" /\ place.legacy = "none"

RestoreLegacy ==
  /\ pc = "restoreLegacy"
  /\ Goto(IF ~WasMigrated THEN "restoreQuarantine"
          ELSE IF place.legacy = "none" THEN "journalRestoring"
          ELSE "journalRestored")
  /\ UNCHANGED <<place, quarantine, registered, files>>

RestoreRename ==
  /\ pc = "restoreRename"
  /\ Exchange("backup", "legacy")
  /\ Goto("journalRestored")

RestoreQuarantine ==
  /\ pc = "restoreQuarantine"
  /\ SetQuarantine(quarantine \/ journal.quarantined)
  /\ Goto("journalAborted")

RecoveryStep ==
  \/ RemoveStage("abortStage", "restoreLegacy")
  \/ RestoreLegacy
  \/ UpdateJournal("journalRestoring", journal, "restoreRename")
  \/ RestoreRename
  \/ UpdateJournal("journalRestored", [journal EXCEPT !.migrated = FALSE],
                   "restoreQuarantine")
  \/ RestoreQuarantine
  \/ UpdateJournal("journalAborted", journal, "removeJournal")
  \/ UpdateJournal("journalRecovering", journal, "secondExchange")

-----------------------------------------------------------------------------
(* Faults.                                                                 *)

Fails == pc' = "idle" /\ UNCHANGED stops

\* A check of the command throws.
Throw ==
  /\ \/ pc \in Updates /\ next # "none"
     \/ pc = "publish" /\ ~MayPublish
     \/ pc = "secondExchange" /\ ~CanExchange
  /\ Fails
  /\ UNCHANGED <<place, quarantine, registered, files>>

Interrupted ==
  /\ stops < MaxStops
  /\ stops' = stops + 1
  /\ pc' = "idle"
  /\ UNCHANGED <<quarantine, registered>>

\* An effect fails, or the process ends between two of them.  Before the
\* journal exists, a failure removes the staged copy and a crash does not.
Stop ==
  /\ pc # "idle"
  /\ Interrupted
  /\ \/ UNCHANGED place
     \/ pc = "writeJournal" /\ place' = [place EXCEPT !.stage = "none"]
  /\ UNCHANGED files

\* The process ends in the middle of an effect.
Tear ==
  /\ Interrupted
  /\ \/ /\ \/ pc = "idle" /\ NoResidue
           \/ pc \in {"removeStage", "abortStage"} /\ place.stage # "none"
        /\ place' = [place EXCEPT !.stage = "torn"]
        /\ UNCHANGED files
     \/ /\ pc = "writeJournal"
        /\ journal' = Bindings("torn")
        /\ manifest' = "none"
        /\ UNCHANGED <<place, next>>
     \/ /\ pc \in Updates /\ next = "none"
        /\ next' \in {"torn", "whole"}
        /\ UNCHANGED <<place, journal, manifest>>
     \/ /\ pc = "publish" /\ MayPublish /\ manifest = "none"
        /\ manifest' = "torn"
        /\ UNCHANGED <<place, journal, next>>

Next ==
  \/ \E b \in Builds : StageCandidate(b)
  \/ InstallStep \/ StartRecovery \/ RecoveryStep
  \/ Throw \/ Stop \/ Tear

Spec == Init /\ [][Next]_vars

\* A running command goes on, and the operator recovers an interrupted
\* promotion.
Fairness ==
  /\ WF_vars(InstallStep \/ RecoveryStep \/ Throw)
  /\ WF_vars(StartRecovery)

FairSpec == Spec /\ Fairness

-----------------------------------------------------------------------------
(* Properties.                                                             *)

Open == journal.file = "open"

Before(p) ==
  CASE p = "target" -> journal.installed
    [] p = "legacy" -> journal.legacy
    [] p = "backup" -> IF journal.legacy = "none" THEN journal.previous
                       ELSE "none"

\* The bundles and the quarantine are as they were before the promotion.
Restored ==
  /\ \A p \in Places \ {"stage"} : place[p] = Before(p)
  /\ quarantine = journal.quarantined

\* The candidate is installed, the app it replaced is the previous one.
Committed ==
  /\ place.target = journal.candidate
  /\ place.backup = journal.installed
  /\ place.legacy = "none"

\* However it was interrupted and recovered, a promotion is all or nothing:
\* once its journal is gone the bundles, the legacy copy and the parent's
\* quarantine are what they were, or the exchange is complete; a manifest
\* tells of an exchange that is complete, and LaunchServices was last told
\* about the app that is installed.
AllOrNothing ==
  /\ ~Open => Restored \/ Committed
  /\ manifest # "none" => Committed
  /\ journal.file = "none" => registered = place.target

\* Until the manifest is on record, no interruption loses the installed or
\* the previous build: each is whole in one of the places.
NothingLost ==
  Open /\ ~journal.bound =>
    {journal.installed, journal.previous} \subseteq
      {place[p] : p \in Places} \cup {"none"}

\* The builds tell the roles apart.
Distinct ==
  journal.installed # "none" /\ journal.installed # journal.previous

Recoverable == Open /\ pc = "idle" /\ (OriginalRoles \/ AfterFirstExchange
  \/ (Complete /\ (manifest = "none" \/ (manifest = "whole" /\ journal.bound))))

\* Residue that recovery cannot read: a file or bundle torn or not renamed,
\* a manifest without its hash in the journal, or an abort already begun.
Unreadable ==
  \/ next # "none"
  \/ place.stage = "torn"
  \/ manifest # "none" /\ ~journal.bound
  \/ place.stage = "none" /\ place.target = journal.installed

\* Wherever a promotion of builds that differ is interrupted, recovery can
\* tell how far it came, but for the residue it cannot read.
InterruptedIsRecoverable ==
  Open /\ pc = "idle" /\ Distinct /\ ~Unreadable => Recoverable

\* Once nothing interrupts it any more, recovery brings a promotion it can
\* read to its end.
RecoveryFinishes ==
  (stops = MaxStops /\ Recoverable /\ Distinct /\ next = "none")
    ~> (journal.file = "none")

\* An exchange that was made is recognised as complete.
ExchangeIsRecognised == pc = "publish" => Complete
=============================================================================
