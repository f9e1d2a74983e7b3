--------------------- MODULE PromotionTransaction_proofs ---------------------
(***************************************************************************)
(* Proofs about PromotionTransaction: whatever interrupts a promotion and  *)
(* however often it is recovered, it is all or nothing, loses no build and *)
(* stays recoverable.                                                      *)
(***************************************************************************)
EXTENDS PromotionTransaction, TLAPS

(* Where the bundles can be while a journal is open.                       *)

\* Every bundle but the staged one is where the promotion found it.
Untouched ==
  /\ place["target"] = journal.installed
  /\ place["legacy"] = journal.legacy
  /\ place["backup"] =
       IF journal.legacy = "none" THEN journal.previous ELSE "none"

\* Only the previous build has moved, out of its legacy place.
Migrated ==
  /\ place["target"] = journal.installed
  /\ journal.legacy # "none" /\ place["legacy"] = "none"
  /\ place["backup"] = journal.previous

AtHome == Untouched \/ Migrated

\* Ready for the exchange: the previous build is in the backup place.
Ready ==
  /\ place["target"] = journal.installed
  /\ place["legacy"] = "none"
  /\ place["backup"] = journal.previous

\* Between the two exchanges.
HalfDone ==
  /\ place["target"] = journal.candidate
  /\ place["legacy"] = "none"
  /\ place["backup"] = journal.previous
  /\ place["stage"] = journal.installed

\* Both exchanges are made.
Exchanged ==
  /\ place["target"] = journal.candidate
  /\ place["legacy"] = "none"
  /\ place["backup"] = journal.installed

\* The build they displaced is staged until the manifest is bound; a build
\* that is also the installed one may be gone.
Finished ==
  /\ Exchanged
  /\ \/ place["stage"] = journal.previous
     \/ /\ place["stage"] \in {"none", "torn"}
        /\ journal.bound \/ journal.previous = journal.installed

\* Both exchanges are made, or the only one there is to make.
Done == Finished \/ (HalfDone /\ journal.installed = "none")

Staged == place["stage"] = journal.candidate

(* What every command can rely on, running or not.                         *)

Roles ==
  /\ journal.legacy # "none" =>
       journal.previous = journal.legacy /\ journal.installed # journal.legacy
  /\ journal.migrated => journal.legacy # "none"

Evidence ==
  /\ Open => journal.candidate \in Builds
  /\ Open => (quarantine => journal.quarantined)
  /\ Open /\ journal.bound => manifest = "whole"
  /\ manifest # "none" => Exchanged
  /\ journal.file = "none" => registered = place["target"]
  /\ Open => \/ registered = journal.installed
             \/ registered = journal.candidate
                  /\ place["target"] = journal.candidate
  /\ Open /\ journal.registered => registered = journal.candidate

Layout ==
  /\ Open => \/ AtHome /\ place["stage"] \in {journal.candidate, "none", "torn"}
             \/ HalfDone
             \/ Finished
  /\ ~Open => (Untouched /\ quarantine = journal.quarantined) \/ Exchanged

(* What the running command can rely on.                                   *)

Preparing == pc \in {"journalQuarantine", "clearQuarantine", "journalCleared",
                     "journalUnregistered", "migrateLegacy"}

Finishing == pc \in {"journalComplete", "register", "journalRegistered",
                     "journalPostchecked", "publish"}

Position ==
  /\ pc = "writeJournal" =>
       /\ journal.file = "none" /\ place["stage"] \in Builds
       /\ next = "none"
       /\ ~(place["backup"] # "none" /\ place["legacy"] # "none")
  /\ pc \notin {"idle", "writeJournal"} => Open
  /\ Preparing => Untouched /\ Staged /\ manifest = "none" /\ ~journal.bound
  /\ pc = "migrateLegacy" => journal.legacy # "none"
  /\ pc = "journalMigrated" => Migrated /\ Staged /\ manifest = "none"
  /\ pc = "firstExchange" => Ready /\ Staged /\ manifest = "none"
  /\ pc = "journalFirst" => HalfDone /\ journal.installed # "none"
  /\ pc \in {"secondExchange", "journalRecovering"} => HalfDone
  /\ Finishing => Done
  /\ pc \in {"journalRegistered", "journalPostchecked", "publish",
             "journalManifest", "removeStage", "journalCleaned"} =>
       registered = journal.candidate
  /\ pc = "journalManifest" => Finished /\ manifest = "whole"
  /\ pc \in {"removeStage", "journalCleaned"} => Exchanged /\ journal.bound
  /\ pc = "abortStage" => AtHome /\ Staged
  /\ pc = "restoreLegacy" => AtHome
  /\ pc \in {"journalRestoring", "restoreRename"} => Migrated
  /\ pc \in {"journalRestored", "restoreQuarantine"} => Untouched
  /\ pc = "journalAborted" => Untouched /\ quarantine = journal.quarantined
  /\ pc = "removeJournal" =>
       /\ (Untouched /\ quarantine = journal.quarantined) \/ Exchanged
       /\ registered = place["target"]

IInv == TypeOK /\ Roles /\ Evidence /\ Layout /\ Position

USE DEF IInv

-----------------------------------------------------------------------------
(* Steps that change nothing but what the command does next.               *)

LEMMA MovesKeep ==
  ASSUME IInv, UNCHANGED <<place, quarantine, registered, files>>,
         pc' \in Labels, stops' \in 0..MaxStops, Position'
  PROVE  IInv'
<1>1. TypeOK'
  BY DEF TypeOK, files
<1>2. Roles' /\ Evidence' /\ Layout'
  BY DEF files, Roles, Evidence, Layout, Open, AtHome, Untouched, Migrated,
    HalfDone, Finished, Exchanged
<1> QED BY <1>1, <1>2

LEMMA JournalKept ==
  ASSUME IInv,
         NEW from, NEW to \in Labels, UpdateJournal(from, journal, to)
  PROVE  /\ UNCHANGED <<place, quarantine, registered, files>>
         /\ pc' = to /\ pc' \in Labels /\ stops' \in 0..MaxStops
         /\ pc = from
BY DEF UpdateJournal, Goto, files, TypeOK

USE DEF Position, Preparing, Finishing, Done, Finished, Exchanged, HalfDone,
  Ready, AtHome, Untouched, Migrated, Staged, Open

LEMMA PlainUpdates ==
  ASSUME IInv,
         \/ UpdateJournal("journalQuarantine", journal, "clearQuarantine")
         \/ UpdateJournal("journalCleared", journal, "journalUnregistered")
         \/ UpdateJournal("journalUnregistered", journal, AfterUnregistering)
         \/ UpdateJournal("journalFirst", journal, "secondExchange")
         \/ UpdateJournal("journalComplete", journal, Registering)
         \/ UpdateJournal("journalPostchecked", journal, "publish")
         \/ UpdateJournal("journalCleaned", journal, "removeJournal")
         \/ UpdateJournal("journalRestoring", journal, "restoreRename")
         \/ UpdateJournal("journalAborted", journal, "removeJournal")
         \/ UpdateJournal("journalRecovering", journal, "secondExchange")
  PROVE  IInv'
<1>1. CASE UpdateJournal("journalQuarantine", journal, "clearQuarantine")
  <2>1. "clearQuarantine" \in Labels BY DEF Labels
  <2>2. Position' BY <1>1, <2>1, JournalKept DEF files
  <2> QED BY <1>1, <2>1, <2>2, JournalKept, MovesKeep
<1>2. CASE UpdateJournal("journalCleared", journal, "journalUnregistered")
  <2>1. "journalUnregistered" \in Labels BY DEF Labels, Updates
  <2>2. Position' BY <1>2, <2>1, JournalKept DEF files
  <2> QED BY <1>2, <2>1, <2>2, JournalKept, MovesKeep
<1>3. CASE UpdateJournal("journalUnregistered", journal, AfterUnregistering)
  <2>1. AfterUnregistering \in Labels BY DEF Labels, AfterUnregistering
  <2>2. Position'
    BY <1>3, <2>1, JournalKept DEF files, AfterUnregistering, Roles
  <2> QED BY <1>3, <2>1, <2>2, JournalKept, MovesKeep
<1>4. CASE UpdateJournal("journalFirst", journal, "secondExchange")
  <2>1. "secondExchange" \in Labels BY DEF Labels
  <2>2. Position' BY <1>4, <2>1, JournalKept DEF files
  <2> QED BY <1>4, <2>1, <2>2, JournalKept, MovesKeep
<1>5. CASE UpdateJournal("journalComplete", journal, Registering)
  <2>1. Registering \in Labels BY DEF Labels, Updates, Registering
  <2>2. Position'
    BY <1>5, <2>1, JournalKept DEF files, Registering, Evidence
  <2> QED BY <1>5, <2>1, <2>2, JournalKept, MovesKeep
<1>6. CASE UpdateJournal("journalPostchecked", journal, "publish")
  <2>1. "publish" \in Labels BY DEF Labels
  <2>2. Position' BY <1>6, <2>1, JournalKept DEF files
  <2> QED BY <1>6, <2>1, <2>2, JournalKept, MovesKeep
<1>7. CASE UpdateJournal("journalCleaned", journal, "removeJournal")
  <2>1. "removeJournal" \in Labels BY DEF Labels
  <2>2. Position' BY <1>7, <2>1, JournalKept DEF files
  <2> QED BY <1>7, <2>1, <2>2, JournalKept, MovesKeep
<1>8. CASE UpdateJournal("journalRestoring", journal, "restoreRename")
  <2>1. "restoreRename" \in Labels BY DEF Labels
  <2>2. Position' BY <1>8, <2>1, JournalKept DEF files
  <2> QED BY <1>8, <2>1, <2>2, JournalKept, MovesKeep
<1>9. CASE UpdateJournal("journalAborted", journal, "removeJournal")
  <2>1. "removeJournal" \in Labels BY DEF Labels
  <2>2. Position' BY <1>9, <2>1, JournalKept DEF files, Evidence
  <2> QED BY <1>9, <2>1, <2>2, JournalKept, MovesKeep
<1>10. CASE UpdateJournal("journalRecovering", journal, "secondExchange")
  <2>1. "secondExchange" \in Labels BY DEF Labels
  <2>2. Position' BY <1>10, <2>1, JournalKept DEF files
  <2> QED BY <1>10, <2>1, <2>2, JournalKept, MovesKeep
<1> QED BY <1>1, <1>2, <1>3, <1>4, <1>5, <1>6, <1>7, <1>8, <1>9, <1>10

-----------------------------------------------------------------------------
(* Updates that put a flag on record.                                      *)

LEMMA FlagUpdates ==
  ASSUME IInv,
         \/ UpdateJournal("journalMigrated",
              [journal EXCEPT !.migrated = TRUE], "firstExchange")
         \/ UpdateJournal("journalRegistered",
              [journal EXCEPT !.registered = TRUE], "journalPostchecked")
         \/ UpdateJournal("journalManifest",
              [journal EXCEPT !.bound = TRUE], "removeStage")
         \/ UpdateJournal("journalRestored",
              [journal EXCEPT !.migrated = FALSE], "restoreQuarantine")
  PROVE  IInv'
<1> USE DEF UpdateJournal, Goto
<1>1. CASE UpdateJournal("journalMigrated",
             [journal EXCEPT !.migrated = TRUE], "firstExchange")
  <2>1. TypeOK' BY <1>1 DEF TypeOK, Journals, Labels
  <2>2. Roles' /\ Evidence' /\ Layout'
    BY <1>1 DEF Roles, Evidence, Layout, TypeOK, Journals
  <2>3. Position' BY <1>1 DEF TypeOK, Journals
  <2> QED BY <2>1, <2>2, <2>3
<1>2. CASE UpdateJournal("journalRegistered",
             [journal EXCEPT !.registered = TRUE], "journalPostchecked")
  <2>1. TypeOK' BY <1>2 DEF TypeOK, Journals, Labels, Updates
  <2>2. Roles' /\ Evidence' /\ Layout'
    BY <1>2 DEF Roles, Evidence, Layout, TypeOK, Journals
  <2>3. Position' BY <1>2 DEF TypeOK, Journals
  <2> QED BY <2>1, <2>2, <2>3
<1>3. CASE UpdateJournal("journalManifest",
             [journal EXCEPT !.bound = TRUE], "removeStage")
  <2>1. TypeOK' BY <1>3 DEF TypeOK, Journals, Labels
  <2>2. Roles' /\ Evidence' /\ Layout'
    BY <1>3 DEF Roles, Evidence, Layout, TypeOK, Journals
  <2>3. Position' BY <1>3 DEF TypeOK, Journals
  <2> QED BY <2>1, <2>2, <2>3
<1>4. CASE UpdateJournal("journalRestored",
             [journal EXCEPT !.migrated = FALSE], "restoreQuarantine")
  <2>1. TypeOK' BY <1>4 DEF TypeOK, Journals, Labels
  <2>2. Roles' /\ Evidence' /\ Layout'
    BY <1>4 DEF Roles, Evidence, Layout, TypeOK, Journals
  <2>3. Position' BY <1>4 DEF TypeOK, Journals
  <2> QED BY <2>1, <2>2, <2>3
<1> QED BY <1>1, <1>2, <1>3, <1>4

-----------------------------------------------------------------------------
(* The steps of a promotion that move bundles.                             *)

LEMMA InitIInv == Init => IInv
<1> SUFFICES ASSUME Init PROVE IInv
  OBVIOUS
<1>1. PICK i \in Apps, b \in Apps, l \in Apps :
        /\ b = "none" \/ l = "none"
        /\ i # "none" => i \notin {b, l}
        /\ place = [target |-> i, backup |-> b, legacy |-> l,
                    stage |-> "none"]
        /\ registered = i
        /\ \E q \in BOOLEAN :
             /\ quarantine = q
             /\ journal = [file |-> "none", installed |-> i,
                           previous |-> IF b = "none" THEN l ELSE b,
                           legacy |-> l, candidate |-> i, quarantined |-> q,
                           migrated |-> FALSE, registered |-> FALSE,
                           bound |-> FALSE]
  BY DEF Init
<1>2. TypeOK
  BY <1>1, StopsAssumption DEF Init, TypeOK, Places, Apps, Journals, Labels
<1>3. Roles /\ Evidence /\ Layout
  BY <1>1 DEF Init, Roles, Evidence, Layout
<1>4. Position
  BY DEF Init
<1> QED BY <1>2, <1>3, <1>4

LEMMA StagingKeeps ==
  ASSUME IInv, NEW b \in Builds, StageCandidate(b)
  PROVE  IInv'
<1> USE DEF StageCandidate, NoResidue, Goto, files
<1>1. TypeOK' BY DEF TypeOK, Places, Apps, Labels
<1>2. Roles' /\ Evidence' /\ Layout'
  BY DEF TypeOK, Places, Roles, Evidence, Layout
<1>3. Position' BY DEF TypeOK, Places
<1> QED BY <1>1, <1>2, <1>3

\* A journal written over the places binds what they hold.
LEMMA BindingsKeep ==
  ASSUME IInv, pc = "writeJournal", NEW file \in {"open", "torn"},
         journal' = Bindings(file), manifest' = "none",
         pc' = (IF file = "torn" THEN "idle" ELSE IF quarantine
                THEN "journalQuarantine" ELSE "journalUnregistered"),
         stops' \in 0..MaxStops,
         UNCHANGED <<place, quarantine, registered, next>>
  PROVE  IInv'
<1> USE DEF Bindings, Candidate
<1>1. TypeOK'
  BY BuildsAreNoStates DEF TypeOK, Places, Apps, Journals, Labels, Updates
<1>2. place["legacy"] # "none" => place["target"] # place["legacy"]
  BY DEF TypeOK, Journals, Layout, Roles
<1>3. Roles' BY <1>2 DEF Roles, TypeOK
<1>4. Evidence' BY DEF Evidence, TypeOK, Layout
<1>5. Layout' BY DEF Layout, TypeOK
<1>6. Position' BY DEF TypeOK
<1> QED BY <1>1, <1>3, <1>4, <1>5, <1>6

LEMMA WriteJournalKeeps ==
  ASSUME IInv, WriteJournal
  PROVE  IInv'
BY BindingsKeep DEF WriteJournal, Goto, TypeOK

LEMMA ClearQuarantineKeeps ==
  ASSUME IInv, ClearQuarantine
  PROVE  IInv'
<1> USE DEF ClearQuarantine, SetQuarantine, Goto, files
<1>1. TypeOK' BY DEF TypeOK, Labels, Updates
<1>2. Roles' /\ Evidence' /\ Layout' BY DEF Roles, Evidence, Layout
<1>3. Position' OBVIOUS
<1> QED BY <1>1, <1>2, <1>3

LEMMA MigrateLegacyKeeps ==
  ASSUME IInv, MigrateLegacy
  PROVE  IInv'
<1> USE DEF MigrateLegacy, Exchange, Goto, files
<1>1. TypeOK' BY DEF TypeOK, Places, Labels, Updates
<1>2. Roles' /\ Evidence' /\ Layout'
  BY DEF TypeOK, Places, Roles, Evidence, Layout
<1>3. Position' BY DEF TypeOK, Places, Roles
<1> QED BY <1>1, <1>2, <1>3

LEMMA FirstExchangeKeeps ==
  ASSUME IInv, FirstExchange
  PROVE  IInv'
<1> USE DEF FirstExchange, Exchange, Goto, files
<1>1. TypeOK' BY DEF TypeOK, Places, Labels, Updates, Apps, Evidence
<1>2. Roles' /\ Evidence' /\ Layout'
  BY DEF TypeOK, Places, Roles, Evidence, Layout
<1>3. Position' BY DEF TypeOK, Places, Roles
<1> QED BY <1>1, <1>2, <1>3

LEMMA SecondExchangeKeeps ==
  ASSUME IInv, SecondExchange
  PROVE  IInv'
<1> USE DEF SecondExchange, Exchange, Goto, files
<1>1. TypeOK' BY DEF TypeOK, Places, Labels, Updates, Journals, Apps
<1>2. Roles' /\ Evidence' /\ Layout'
  BY DEF TypeOK, Places, Roles, Evidence, Layout
<1>3. Position' BY DEF TypeOK, Places, Roles
<1> QED BY <1>1, <1>2, <1>3

LEMMA RegisterKeeps ==
  ASSUME IInv, RegisterApp
  PROVE  IInv'
<1> USE DEF RegisterApp, Goto, files
<1>1. TypeOK' BY DEF TypeOK, Labels, Updates, Places
<1>2. Roles' /\ Evidence' /\ Layout' BY DEF Roles, Evidence, Layout
<1>3. Position' OBVIOUS
<1> QED BY <1>1, <1>2, <1>3

LEMMA PublishKeeps ==
  ASSUME IInv, Publish
  PROVE  IInv'
<1> USE DEF Publish, MayPublish, Complete, Goto
<1>1. TypeOK' BY DEF TypeOK, Labels, Updates
<1>2. Roles' /\ Evidence' /\ Layout' BY DEF Roles, Evidence, Layout
<1>3. Position' BY DEF Evidence
<1> QED BY <1>1, <1>2, <1>3

LEMMA RemoveStageKeeps ==
  ASSUME IInv,
         \/ RemoveStage("removeStage", "journalCleaned")
         \/ RemoveStage("abortStage", "restoreLegacy")
  PROVE  IInv'
<1> USE DEF RemoveStage, Remove, Goto, files
<1>1. TypeOK' BY DEF TypeOK, Places, Labels, Updates, Apps
<1>2. Roles' /\ Evidence' /\ Layout'
  BY DEF TypeOK, Places, Roles, Evidence, Layout
<1>3. Position' BY DEF TypeOK, Places, Evidence
<1> QED BY <1>1, <1>2, <1>3

LEMMA RemoveJournalKeeps ==
  ASSUME IInv, RemoveJournal
  PROVE  IInv'
<1> USE DEF RemoveJournal, Goto
<1>1. TypeOK' BY DEF TypeOK, Journals, Labels
<1>2. Roles' /\ Evidence' /\ Layout'
  BY DEF TypeOK, Journals, Roles, Evidence, Layout
<1>3. Position' BY DEF TypeOK, Journals
<1> QED BY <1>1, <1>2, <1>3

-----------------------------------------------------------------------------
(* The steps of a recovery, and the faults.                                *)

LEMMA StartRecoveryKeeps ==
  ASSUME IInv, StartRecovery
  PROVE  IInv'
<1> USE DEF StartRecovery, Goto, OriginalRoles, AfterFirstExchange, Complete,
      Candidate, Ambiguous
<1>1. /\ UNCHANGED <<place, quarantine, registered, files>>
      /\ pc' \in Labels /\ stops' \in 0..MaxStops
  BY DEF TypeOK, Labels, Updates, Registering
<1>2. CASE OriginalRoles /\ pc' = "abortStage"
  <2>1. Position'
    BY <1>1, <1>2, BuildsAreNoStates DEF files, TypeOK, Journals, Places, Apps,
      Layout, Evidence, Roles
  <2> QED BY <1>1, <2>1, MovesKeep
<1>3. CASE AfterFirstExchange /\ pc' = "journalRecovering"
  <2>1. HalfDone
    BY <1>3, BuildsAreNoStates DEF TypeOK, Journals, Places, Apps, Layout,
      Evidence, Roles
  <2>2. Position' BY <1>1, <1>3, <2>1 DEF files
  <2> QED BY <1>1, <2>2, MovesKeep
<1>4. CASE Complete /\ pc' = Registering
  <2>1. Done
    BY <1>4, BuildsAreNoStates DEF TypeOK, Journals, Places, Apps, Layout,
      Evidence, Roles
  <2>2. Position'
    BY <1>1, <1>4, <2>1 DEF files, Registering, Evidence
  <2> QED BY <1>1, <2>2, MovesKeep
<1> QED BY <1>2, <1>3, <1>4

LEMMA RestoreLegacyKeeps ==
  ASSUME IInv, RestoreLegacy
  PROVE  IInv'
<1> USE DEF RestoreLegacy, Goto, WasMigrated
<1>1. /\ UNCHANGED <<place, quarantine, registered, files>>
      /\ pc' \in Labels /\ stops' \in 0..MaxStops
  BY DEF TypeOK, Labels, Updates
<1>2. Position' BY <1>1 DEF files, Roles, TypeOK, Journals, Places
<1> QED BY <1>1, <1>2, MovesKeep

LEMMA RestoreRenameKeeps ==
  ASSUME IInv, RestoreRename
  PROVE  IInv'
<1> USE DEF RestoreRename, Exchange, Goto, files
<1>1. TypeOK' BY DEF TypeOK, Places, Labels, Updates
<1>2. Roles' /\ Evidence' /\ Layout'
  BY DEF TypeOK, Places, Roles, Evidence, Layout
<1>3. Position' BY DEF TypeOK, Places, Roles
<1> QED BY <1>1, <1>2, <1>3

LEMMA RestoreQuarantineKeeps ==
  ASSUME IInv, RestoreQuarantine
  PROVE  IInv'
<1> USE DEF RestoreQuarantine, SetQuarantine, Goto, files
<1>1. TypeOK' BY DEF TypeOK, Journals, Labels, Updates
<1>2. Roles' /\ Evidence' /\ Layout' BY DEF Roles, Evidence, Layout
<1>3. Position' BY DEF Evidence, TypeOK, Journals
<1> QED BY <1>1, <1>2, <1>3

LEMMA FaultsKeep ==
  ASSUME IInv, Throw \/ Stop \/ Tear
  PROVE  IInv'
<1> USE DEF Interrupted, Fails
<1>1. pc' = "idle" /\ pc' \in Labels /\ stops' \in 0..MaxStops
  BY StopsAssumption DEF Throw, Stop, Tear, TypeOK, Labels
<1>2. CASE UNCHANGED <<place, quarantine, registered, files>>
  BY <1>1, <1>2, MovesKeep DEF files
<1>3. CASE /\ pc \in {"idle", "writeJournal"} /\ journal.file # "open"
           /\ place' \in {[place EXCEPT !.stage = "none"],
                         [place EXCEPT !.stage = "torn"]}
           /\ UNCHANGED <<quarantine, registered, files>>
  <2>1. TypeOK' BY <1>1, <1>3 DEF TypeOK, Places, Apps, files
  <2>2. Roles' /\ Evidence' /\ Layout' /\ Position'
    BY <1>1, <1>3 DEF TypeOK, Places, Roles, Evidence, Layout, files
  <2> QED BY <2>1, <2>2
<1>4. CASE /\ pc \in {"removeStage", "abortStage"}
           /\ place' = [place EXCEPT !.stage = "torn"]
           /\ UNCHANGED <<quarantine, registered, files>>
  <2>1. TypeOK' BY <1>1, <1>4 DEF TypeOK, Places, Apps, files
  <2>2. Roles' /\ Evidence' /\ Layout' /\ Position'
    BY <1>1, <1>4 DEF TypeOK, Places, Roles, Evidence, Layout, files
  <2> QED BY <2>1, <2>2
<1>5. CASE /\ pc = "writeJournal" /\ journal' = Bindings("torn")
           /\ manifest' = "none"
           /\ UNCHANGED <<place, quarantine, registered, next>>
  BY <1>1, <1>5, BindingsKeep
<1>6. CASE /\ next' \in {"torn", "whole"}
           /\ UNCHANGED <<place, quarantine, registered, journal, manifest>>
  BY <1>1, <1>6 DEF TypeOK, Roles, Evidence, Layout
<1>7. CASE /\ pc = "publish" /\ MayPublish /\ manifest = "none"
           /\ manifest' = "torn"
           /\ UNCHANGED <<place, quarantine, registered, journal, next>>
  BY <1>1, <1>7 DEF TypeOK, Roles, Evidence, Layout, MayPublish, Complete
<1> QED
  BY <1>2, <1>3, <1>4, <1>5, <1>6, <1>7
  DEF Throw, Stop, Tear, NoResidue, files

-----------------------------------------------------------------------------
(* The invariant, and the theorems.                                        *)

LEMMA NextKeeps == IInv /\ [Next]_vars => IInv'
<1> SUFFICES ASSUME IInv, [Next]_vars PROVE IInv'
  OBVIOUS
<1>1. ASSUME NEW b \in Builds, StageCandidate(b) PROVE IInv'
  BY <1>1, StagingKeeps
<1>2. CASE InstallStep
  BY <1>2, WriteJournalKeeps, PlainUpdates, FlagUpdates, ClearQuarantineKeeps,
    MigrateLegacyKeeps, FirstExchangeKeeps, SecondExchangeKeeps,
    RegisterKeeps, PublishKeeps, RemoveStageKeeps, RemoveJournalKeeps
  DEF InstallStep
<1>3. CASE StartRecovery
  BY <1>3, StartRecoveryKeeps
<1>4. CASE RecoveryStep
  BY <1>4, RemoveStageKeeps, RestoreLegacyKeeps, RestoreRenameKeeps,
    RestoreQuarantineKeeps, PlainUpdates, FlagUpdates
  DEF RecoveryStep
<1>5. CASE Throw \/ Stop \/ Tear
  BY <1>5, FaultsKeep
<1>6. CASE UNCHANGED vars
  <2>1. Position' BY <1>6 DEF vars, files
  <2> QED BY <1>6, <2>1, MovesKeep DEF vars, files, TypeOK
<1> QED BY <1>1, <1>2, <1>3, <1>4, <1>5, <1>6 DEF Next

LEMMA IInvMeansTypeOK == IInv => TypeOK
OBVIOUS

LEMMA IInvMeansAllOrNothing == IInv => AllOrNothing
<1> SUFFICES ASSUME IInv PROVE AllOrNothing
  OBVIOUS
<1>1. Untouched => \A p \in Places \ {"stage"} : place[p] = Before(p)
  BY DEF Places, Before
<1>2. Exchanged => Committed
  BY DEF Committed
<1> QED
  BY <1>1, <1>2 DEF AllOrNothing, Layout, Evidence, Restored

LEMMA IInvMeansNothingLost == IInv => NothingLost
<1> SUFFICES ASSUME IInv, Open, ~journal.bound
             PROVE  {journal.installed, journal.previous} \subseteq
                      {place[p] : p \in Places} \cup {"none"}
  BY DEF NothingLost
<1>1. {"target", "backup", "legacy", "stage"} \subseteq Places
  BY DEF Places
<1>2. CASE AtHome
  BY <1>1, <1>2 DEF Roles
<1>3. CASE HalfDone
  BY <1>1, <1>3
<1>4. CASE Finished
  BY <1>1, <1>4
<1> QED BY <1>2, <1>3, <1>4 DEF Layout

LEMMA IInvMeansRecoverable == IInv => InterruptedIsRecoverable
<1> SUFFICES ASSUME IInv, Open, pc = "idle", Distinct, ~Unreadable
             PROVE  Recoverable
  BY DEF InterruptedIsRecoverable
<1> USE DEF Distinct, Unreadable
<1>1. manifest = "none" \/ (manifest = "whole" /\ journal.bound)
  BY DEF Evidence
<1>2. ~Ambiguous
  BY DEF Layout, Roles, Ambiguous
<1>3. CASE AtHome
  <2>1. place["stage"] = journal.candidate
    BY <1>3 DEF Layout
  <2>2. Candidate = journal.previous
    BY <1>3 DEF Candidate, Roles
  <2> QED BY <1>2, <1>3, <2>1, <2>2 DEF Recoverable, OriginalRoles
<1>4. CASE HalfDone
  <2>1. Candidate = journal.previous
    BY <1>4 DEF Candidate
  <2> QED
    BY <1>2, <1>4, <2>1 DEF Recoverable, OriginalRoles, AfterFirstExchange
<1>5. CASE Finished
  <2>1. Candidate = journal.installed
    BY <1>5 DEF Candidate
  <2> QED
    BY <1>1, <1>2, <1>5, <2>1
    DEF Recoverable, OriginalRoles, AfterFirstExchange, Complete
<1> QED BY <1>3, <1>4, <1>5 DEF Layout

-----------------------------------------------------------------------------
HIDE DEF IInv, Position, Preparing, Finishing, Done, Finished, Exchanged,
  HalfDone, Ready, AtHome, Untouched, Migrated, Staged, Open

\* The inductive invariant holds of every promotion and every recovery.
THEOREM Invariance == Spec => []IInv
BY InitIInv, NextKeeps, PTL DEF Spec

\* Every variable keeps its type: in particular only the staged bundle is ever
\* half copied or half removed.
THEOREM TypeCorrect == Spec => []TypeOK
BY IInvMeansTypeOK, Invariance, PTL

\* However often a promotion is interrupted and recovered: once its journal is
\* gone the bundles and the quarantine are what they were or the exchange is
\* complete, a manifest tells of a complete exchange, and LaunchServices was
\* last told about the installed app.
THEOREM PromotionIsAllOrNothing == Spec => []AllOrNothing
BY IInvMeansAllOrNothing, Invariance, PTL

\* Until the manifest is on record, no interruption loses the installed or the
\* previous build.
THEOREM NoBuildIsLost == Spec => []NothingLost
BY IInvMeansNothingLost, Invariance, PTL

\* A promotion of builds that differ, interrupted anywhere but where it leaves
\* residue recovery cannot read, is one of the three states recovery acts on.
THEOREM InterruptedPromotionIsRecoverable == Spec => []InterruptedIsRecoverable
BY IInvMeansRecoverable, Invariance, PTL
=============================================================================
