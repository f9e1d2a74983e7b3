--------------------- MODULE RollbackTransaction_proofs ---------------------
(***************************************************************************)
(* Proofs about RollbackTransaction, for every set of rollback identifiers *)
(* and builds.  Rollbacks and promotions may start over the journals of    *)
(* others: what a rollback says of the bundles is then said of those that  *)
(* were not disturbed, and the rest of every rollback.                     *)
(***************************************************************************)
EXTENDS RollbackTransaction, TLAPS

-----------------------------------------------------------------------------
(* The inductive invariant: what the files of one rollback say about each  *)
(* other and about the app bundles, and where the running command is.      *)

Readable(i) == journal[i] \in {"open", "bound"}

\* The running command works on a journal it can read, or is about to write.
OwnJournal ==
  /\ pc = "writeJournal" => journal[cur] = "none"
  /\ pc \notin {"idle", "writeJournal"} => Readable(cur)

\* A journal that could not be read back was never followed by anything.
TornJournal ==
  \A i \in Ids : journal[i] = "torn" =>
    stage[i] = "none" /\ next[i] = "none" /\ manifest[i] = "none"
      /\ i \notin exchanged \ disturbed

\* A readable journal tells whether the exchange took place, unless
\* something else moved the bundles.
JournalTells ==
  \A i \in Ids : Readable(i) =>
    /\ before[i][1] # before[i][2]
    /\ i \notin disturbed =>
         roles = IF i \in exchanged THEN Reverse(before[i]) ELSE before[i]

ManifestTells ==
  \A i \in Ids :
    /\ manifest[i] # "none" => i \in exchanged \cup disturbed
    /\ manifest[i] = "torn" => journal[i] # "none"
    /\ journal[i] = "bound" => manifest[i] = "whole"

\* Recovery of rollback i would still register the installed app.
Owes(i) == Readable(i) /\ SwappedRoles(i) /\ manifest[i] # "whole"

RegistrationTells ==
  /\ registered # roles[1] => \E i \in Ids : Owes(i)
  /\ pc \in {"journalRegistered", "writeManifest", "reWriteManifest"} =>
       registered = roles[1]

\* Where the running command is.
Position ==
  /\ pc \in {"writeJournal", "copyStage", "journalPrepared", "recheck", "swap"}
       => cur \notin exchanged \ disturbed /\ manifest[cur] = "none"
            /\ next[cur] = "none"
  /\ pc \in {"copyStage", "journalPrepared", "recheck", "swap"} =>
       roles = before[cur]
  /\ pc \in {"writeJournal", "copyStage"} => stage[cur] = "none"
  /\ pc = "writeJournal" => roles[1] # roles[2]
  /\ pc \in {"postcheck", "journalSwapped", "register", "journalRegistered",
             "writeManifest"}
       => cur \in exchanged /\ manifest[cur] = "none" /\ next[cur] = "none"
  /\ pc \in {"journalManifest", "removeStage", "journalCommitted",
             "removeJournal"}
       => manifest[cur] = "whole" /\ next[cur] = "none"
  /\ pc \in {"journalCommitted", "removeJournal"} => stage[cur] = "none"
  /\ pc \in {"reRegister", "reWriteManifest"}
       => cur \in exchanged \cup disturbed /\ manifest[cur] = "none"
  /\ pc = "rebindJournal" => manifest[cur] = "whole"
  /\ pc = "cleanup" =>
       \/ manifest[cur] = "none" /\ OriginalRoles(cur)
       \/ manifest[cur] = "whole"

IInv ==
  /\ TypeOK
  /\ ResidueHasAuthority
  /\ ExchangeOnRecord
  /\ OwnJournal
  /\ TornJournal
  /\ JournalTells
  /\ ManifestTells
  /\ RegistrationTells
  /\ Position

LEMMA StartRollbackKeeps ==
  ASSUME IInv, NEW i \in Ids, StartRollback(i)
  PROVE  IInv'
<1> USE DEF IInv, TypeOK, Roles, RollbackLabels, RecoveryLabels, Readable,
            history, StartRollback, NoCollision, Catalogs, KeepRoles, Goto,
            disk
<1>1. TypeOK'
  BY DEF ResidueHasAuthority, ExchangeOnRecord, OwnJournal, TornJournal,
         JournalTells, ManifestTells, RegistrationTells, Position, Reverse
<1>2. ResidueHasAuthority'
  BY DEF ResidueHasAuthority
<1>3. ExchangeOnRecord'
  BY DEF ExchangeOnRecord
<1>4. OwnJournal'
  BY DEF OwnJournal
<1>5. TornJournal'
  BY DEF TornJournal
<1>6. JournalTells'
  BY DEF JournalTells, Reverse
<1>7. ManifestTells'
  BY DEF ManifestTells
<1>8. RegistrationTells'
  BY DEF RegistrationTells, Owes, SwappedRoles, OwnJournal, Position,
         JournalTells, Reverse
<1>9. Position'
  BY DEF Position, OwnJournal, TornJournal, JournalTells, ManifestTells,
         ResidueHasAuthority, ExchangeOnRecord, Reverse
<1> QED
  BY <1>1, <1>2, <1>3, <1>4, <1>5, <1>6, <1>7, <1>8, <1>9

LEMMA WriteJournalKeeps ==
  ASSUME IInv, WriteJournal
  PROVE  IInv'
<1> USE DEF IInv, TypeOK, Roles, RollbackLabels, RecoveryLabels, Readable,
            history, WriteJournal, KeepRoles, Goto, disk
<1>1. TypeOK'
  OBVIOUS
<1>2. ResidueHasAuthority'
  BY DEF ResidueHasAuthority
<1>3. ExchangeOnRecord'
  BY DEF ExchangeOnRecord
<1>4. OwnJournal'
  BY DEF OwnJournal
<1>5. TornJournal'
  BY DEF TornJournal
<1>6. JournalTells'
  BY DEF JournalTells, OwnJournal, Position, Reverse
<1>7. ManifestTells'
  BY DEF ManifestTells
<1>8. RegistrationTells'
  BY DEF RegistrationTells, Owes, SwappedRoles, OwnJournal, Position,
         JournalTells, Reverse
<1>9. Position'
  BY DEF Position
<1> QED
  BY <1>1, <1>2, <1>3, <1>4, <1>5, <1>6, <1>7, <1>8, <1>9

LEMMA CopyStageKeeps ==
  ASSUME IInv, CopyStage
  PROVE  IInv'
<1> USE DEF IInv, TypeOK, Roles, RollbackLabels, RecoveryLabels, Readable,
            history, CopyStage, KeepRoles, Goto, disk
<1>1. TypeOK'
  OBVIOUS
<1>2. ResidueHasAuthority'
  BY DEF ResidueHasAuthority, OwnJournal, TornJournal, Position
<1>3. ExchangeOnRecord'
  BY DEF ExchangeOnRecord
<1>4. OwnJournal'
  BY DEF OwnJournal
<1>5. TornJournal'
  BY DEF TornJournal, OwnJournal, Position
<1>6. JournalTells'
  BY DEF JournalTells, Reverse
<1>7. ManifestTells'
  BY DEF ManifestTells
<1>8. RegistrationTells'
  BY DEF RegistrationTells, Owes, SwappedRoles, OwnJournal, Position,
         JournalTells, Reverse
<1>9. Position'
  BY DEF Position
<1> QED
  BY <1>1, <1>2, <1>3, <1>4, <1>5, <1>6, <1>7, <1>8, <1>9

LEMMA JournalPreparedKeeps ==
  ASSUME IInv, UpdateJournal("journalPrepared", "open", "recheck")
  PROVE  IInv'
<1> USE DEF IInv, TypeOK, Roles, RollbackLabels, RecoveryLabels, Readable,
            history, UpdateJournal, KeepRoles, Goto, disk
<1>1. TypeOK'
  OBVIOUS
<1>2. ResidueHasAuthority'
  BY DEF ResidueHasAuthority
<1>3. ExchangeOnRecord'
  BY DEF ExchangeOnRecord
<1>4. OwnJournal'
  BY DEF OwnJournal
<1>5. TornJournal'
  BY DEF TornJournal
<1>6. JournalTells'
  BY DEF JournalTells, OwnJournal, Position, Reverse
<1>7. ManifestTells'
  BY DEF ManifestTells
<1>8. RegistrationTells'
  BY DEF RegistrationTells, Owes, SwappedRoles, OwnJournal, Position,
         JournalTells, Reverse
<1>9. Position'
  BY DEF Position
<1> QED
  BY <1>1, <1>2, <1>3, <1>4, <1>5, <1>6, <1>7, <1>8, <1>9

LEMMA RecheckKeeps ==
  ASSUME IInv, Recheck
  PROVE  IInv'
<1> USE DEF IInv, TypeOK, Roles, RollbackLabels, RecoveryLabels, Readable,
            history, Recheck, KeepRoles, Goto, disk
<1>1. TypeOK'
  OBVIOUS
<1>2. ResidueHasAuthority'
  BY DEF ResidueHasAuthority
<1>3. ExchangeOnRecord'
  BY DEF ExchangeOnRecord
<1>4. OwnJournal'
  BY DEF OwnJournal
<1>5. TornJournal'
  BY DEF TornJournal
<1>6. JournalTells'
  BY DEF JournalTells, Reverse
<1>7. ManifestTells'
  BY DEF ManifestTells
<1>8. RegistrationTells'
  BY DEF RegistrationTells, Owes, SwappedRoles, OwnJournal, Position,
         JournalTells, Reverse
<1>9. Position'
  BY DEF Position
<1> QED
  BY <1>1, <1>2, <1>3, <1>4, <1>5, <1>6, <1>7, <1>8, <1>9

LEMMA AtomicSwapKeeps ==
  ASSUME IInv, AtomicSwap
  PROVE  IInv'
<1> USE DEF IInv, TypeOK, Roles, RollbackLabels, RecoveryLabels, Readable,
            history, AtomicSwap, Unfinished, Reverse, KeepRoles, Goto, disk
<1>1. TypeOK'
  OBVIOUS
<1>2. ResidueHasAuthority'
  BY DEF ResidueHasAuthority
<1>3. ExchangeOnRecord'
  BY DEF ExchangeOnRecord, OwnJournal, Position, ManifestTells, JournalTells
<1>4. OwnJournal'
  BY DEF OwnJournal
<1>5. TornJournal'
  BY DEF TornJournal, OwnJournal, Position
<1>6. JournalTells'
  BY DEF JournalTells, OwnJournal, Position
<1>7. ManifestTells'
  BY DEF ManifestTells
<1>8. RegistrationTells'
  BY DEF RegistrationTells, Owes, SwappedRoles, OwnJournal, Position,
         JournalTells, Reverse
<1>9. Position'
  BY DEF Position
<1> QED
  BY <1>1, <1>2, <1>3, <1>4, <1>5, <1>6, <1>7, <1>8, <1>9

LEMMA PostcheckKeeps ==
  ASSUME IInv, Postcheck
  PROVE  IInv'
<1> USE DEF IInv, TypeOK, Roles, RollbackLabels, RecoveryLabels, Readable,
            history, Postcheck, Catalogs, KeepRoles, Goto, disk
<1>1. TypeOK'
  OBVIOUS
<1>2. ResidueHasAuthority'
  BY DEF ResidueHasAuthority
<1>3. ExchangeOnRecord'
  BY DEF ExchangeOnRecord
<1>4. OwnJournal'
  BY DEF OwnJournal
<1>5. TornJournal'
  BY DEF TornJournal
<1>6. JournalTells'
  BY DEF JournalTells, Reverse
<1>7. ManifestTells'
  BY DEF ManifestTells
<1>8. RegistrationTells'
  BY DEF RegistrationTells, Owes, SwappedRoles, OwnJournal, Position,
         JournalTells, Reverse
<1>9. Position'
  BY DEF Position
<1> QED
  BY <1>1, <1>2, <1>3, <1>4, <1>5, <1>6, <1>7, <1>8, <1>9

LEMMA JournalSwappedKeeps ==
  ASSUME IInv, UpdateJournal("journalSwapped", "open", "register")
  PROVE  IInv'
<1> USE DEF IInv, TypeOK, Roles, RollbackLabels, RecoveryLabels, Readable,
            history, UpdateJournal, KeepRoles, Goto, disk
<1>1. TypeOK'
  OBVIOUS
<1>2. ResidueHasAuthority'
  BY DEF ResidueHasAuthority
<1>3. ExchangeOnRecord'
  BY DEF ExchangeOnRecord
<1>4. OwnJournal'
  BY DEF OwnJournal
<1>5. TornJournal'
  BY DEF TornJournal
<1>6. JournalTells'
  BY DEF JournalTells, OwnJournal, Position, Reverse
<1>7. ManifestTells'
  BY DEF ManifestTells
<1>8. RegistrationTells'
  BY DEF RegistrationTells, Owes, SwappedRoles, OwnJournal, Position,
         JournalTells, Reverse
<1>9. Position'
  BY DEF Position
<1> QED
  BY <1>1, <1>2, <1>3, <1>4, <1>5, <1>6, <1>7, <1>8, <1>9

LEMMA RegisterKeeps ==
  ASSUME IInv, RegisterApp("register", "journalRegistered")
  PROVE  IInv'
<1> USE DEF IInv, TypeOK, Roles, RollbackLabels, RecoveryLabels, Readable,
            history, RegisterApp, KeepRoles, Goto, disk
<1>1. TypeOK'
  OBVIOUS
<1>2. ResidueHasAuthority'
  BY DEF ResidueHasAuthority
<1>3. ExchangeOnRecord'
  BY DEF ExchangeOnRecord
<1>4. OwnJournal'
  BY DEF OwnJournal
<1>5. TornJournal'
  BY DEF TornJournal
<1>6. JournalTells'
  BY DEF JournalTells, Reverse
<1>7. ManifestTells'
  BY DEF ManifestTells
<1>8. RegistrationTells'
  BY DEF RegistrationTells, Owes, SwappedRoles, OwnJournal, Position,
         JournalTells, Reverse
<1>9. Position'
  BY DEF Position
<1> QED
  BY <1>1, <1>2, <1>3, <1>4, <1>5, <1>6, <1>7, <1>8, <1>9

LEMMA JournalRegisteredKeeps ==
  ASSUME IInv, UpdateJournal("journalRegistered", "open", "writeManifest")
  PROVE  IInv'
<1> USE DEF IInv, TypeOK, Roles, RollbackLabels, RecoveryLabels, Readable,
            history, UpdateJournal, KeepRoles, Goto, disk
<1>1. TypeOK'
  OBVIOUS
<1>2. ResidueHasAuthority'
  BY DEF ResidueHasAuthority
<1>3. ExchangeOnRecord'
  BY DEF ExchangeOnRecord
<1>4. OwnJournal'
  BY DEF OwnJournal
<1>5. TornJournal'
  BY DEF TornJournal
<1>6. JournalTells'
  BY DEF JournalTells, OwnJournal, Position, Reverse
<1>7. ManifestTells'
  BY DEF ManifestTells
<1>8. RegistrationTells'
  BY DEF RegistrationTells, Owes, SwappedRoles, OwnJournal, Position,
         JournalTells, Reverse
<1>9. Position'
  BY DEF Position
<1> QED
  BY <1>1, <1>2, <1>3, <1>4, <1>5, <1>6, <1>7, <1>8, <1>9

LEMMA WriteManifestKeeps ==
  ASSUME IInv, PublishManifest("writeManifest", "journalManifest")
  PROVE  IInv'
<1> USE DEF IInv, TypeOK, Roles, RollbackLabels, RecoveryLabels, Readable,
            history, PublishManifest, KeepRoles, Goto, disk
<1>1. TypeOK'
  OBVIOUS
<1>2. ResidueHasAuthority'
  BY DEF ResidueHasAuthority
<1>3. ExchangeOnRecord'
  BY DEF ExchangeOnRecord
<1>4. OwnJournal'
  BY DEF OwnJournal
<1>5. TornJournal'
  BY DEF TornJournal, OwnJournal, Position
<1>6. JournalTells'
  BY DEF JournalTells, Reverse
<1>7. ManifestTells'
  BY DEF ManifestTells, OwnJournal, Position
<1>8. RegistrationTells'
  BY DEF RegistrationTells, Owes, SwappedRoles, OwnJournal, Position,
         JournalTells, Reverse
<1>9. Position'
  BY DEF Position
<1> QED
  BY <1>1, <1>2, <1>3, <1>4, <1>5, <1>6, <1>7, <1>8, <1>9

LEMMA JournalManifestKeeps ==
  ASSUME IInv, UpdateJournal("journalManifest", "bound", "removeStage")
  PROVE  IInv'
<1> USE DEF IInv, TypeOK, Roles, RollbackLabels, RecoveryLabels, Readable,
            history, UpdateJournal, KeepRoles, Goto, disk
<1>1. TypeOK'
  OBVIOUS
<1>2. ResidueHasAuthority'
  BY DEF ResidueHasAuthority
<1>3. ExchangeOnRecord'
  BY DEF ExchangeOnRecord
<1>4. OwnJournal'
  BY DEF OwnJournal
<1>5. TornJournal'
  BY DEF TornJournal
<1>6. JournalTells'
  BY DEF JournalTells, OwnJournal, Position, Reverse
<1>7. ManifestTells'
  BY DEF ManifestTells, OwnJournal, Position
<1>8. RegistrationTells'
  BY DEF RegistrationTells, Owes, SwappedRoles, OwnJournal, Position,
         JournalTells, Reverse
<1>9. Position'
  BY DEF Position
<1> QED
  BY <1>1, <1>2, <1>3, <1>4, <1>5, <1>6, <1>7, <1>8, <1>9

LEMMA RemoveStageKeeps ==
  ASSUME IInv, pc = "removeStage", DeleteStage("journalCommitted")
  PROVE  IInv'
<1> USE DEF IInv, TypeOK, Roles, RollbackLabels, RecoveryLabels, Readable,
            history, DeleteStage, KeepRoles, Goto, disk
<1>1. TypeOK'
  OBVIOUS
<1>2. ResidueHasAuthority'
  BY DEF ResidueHasAuthority
<1>3. ExchangeOnRecord'
  BY DEF ExchangeOnRecord
<1>4. OwnJournal'
  BY DEF OwnJournal
<1>5. TornJournal'
  BY DEF TornJournal
<1>6. JournalTells'
  BY DEF JournalTells, Reverse
<1>7. ManifestTells'
  BY DEF ManifestTells
<1>8. RegistrationTells'
  BY DEF RegistrationTells, Owes, SwappedRoles, OwnJournal, Position,
         JournalTells, Reverse
<1>9. Position'
  BY DEF Position
<1> QED
  BY <1>1, <1>2, <1>3, <1>4, <1>5, <1>6, <1>7, <1>8, <1>9

LEMMA JournalCommittedKeeps ==
  ASSUME IInv, UpdateJournal("journalCommitted", "bound", "removeJournal")
  PROVE  IInv'
<1> USE DEF IInv, TypeOK, Roles, RollbackLabels, RecoveryLabels, Readable,
            history, UpdateJournal, KeepRoles, Goto, disk
<1>1. TypeOK'
  OBVIOUS
<1>2. ResidueHasAuthority'
  BY DEF ResidueHasAuthority
<1>3. ExchangeOnRecord'
  BY DEF ExchangeOnRecord
<1>4. OwnJournal'
  BY DEF OwnJournal
<1>5. TornJournal'
  BY DEF TornJournal
<1>6. JournalTells'
  BY DEF JournalTells, OwnJournal, Position, Reverse
<1>7. ManifestTells'
  BY DEF ManifestTells, OwnJournal, Position
<1>8. RegistrationTells'
  BY DEF RegistrationTells, Owes, SwappedRoles, OwnJournal, Position,
         JournalTells, Reverse
<1>9. Position'
  BY DEF Position
<1> QED
  BY <1>1, <1>2, <1>3, <1>4, <1>5, <1>6, <1>7, <1>8, <1>9

LEMMA RemoveJournalKeeps ==
  ASSUME IInv, pc = "removeJournal", DeleteJournal
  PROVE  IInv'
<1> USE DEF IInv, TypeOK, Roles, RollbackLabels, RecoveryLabels, Readable,
            history, DeleteJournal, KeepRoles, Goto, disk
<1>1. TypeOK'
  OBVIOUS
<1>2. ResidueHasAuthority'
  BY DEF ResidueHasAuthority, OwnJournal, TornJournal, Position
<1>3. ExchangeOnRecord'
  BY DEF ExchangeOnRecord, OwnJournal, Position, ManifestTells,
         JournalTells, Reverse
<1>4. OwnJournal'
  BY DEF OwnJournal
<1>5. TornJournal'
  BY DEF TornJournal
<1>6. JournalTells'
  BY DEF JournalTells, Reverse
<1>7. ManifestTells'
  BY DEF ManifestTells, OwnJournal, Position
<1>8. RegistrationTells'
  BY DEF RegistrationTells, Owes, SwappedRoles, OwnJournal, Position,
         JournalTells, Reverse
<1>9. Position'
  BY DEF Position
<1> QED
  BY <1>1, <1>2, <1>3, <1>4, <1>5, <1>6, <1>7, <1>8, <1>9

LEMMA StartRecoveryKeeps ==
  ASSUME IInv, NEW i \in Ids, StartRecovery(i)
  PROVE  IInv'
<1> USE DEF IInv, TypeOK, Roles, RollbackLabels, RecoveryLabels, Readable,
            history, StartRecovery, RecoveryRoute, OriginalRoles,
            SwappedRoles, Reverse, Catalogs, KeepRoles, Goto, disk
<1>1. TypeOK'
  OBVIOUS
<1>2. ResidueHasAuthority'
  BY DEF ResidueHasAuthority
<1>3. ExchangeOnRecord'
  BY DEF ExchangeOnRecord
<1>4. OwnJournal'
  BY DEF OwnJournal
<1>5. TornJournal'
  BY DEF TornJournal
<1>6. JournalTells'
  BY DEF JournalTells
<1>7. ManifestTells'
  BY DEF ManifestTells
<1>8. RegistrationTells'
  BY DEF RegistrationTells, Owes, SwappedRoles, OwnJournal, Position,
         JournalTells, Reverse
<1>9. Position'
  BY DEF Position, OwnJournal, TornJournal, JournalTells, ManifestTells,
         ResidueHasAuthority, ExchangeOnRecord
<1> QED
  BY <1>1, <1>2, <1>3, <1>4, <1>5, <1>6, <1>7, <1>8, <1>9

LEMMA ReRegisterKeeps ==
  ASSUME IInv, RegisterApp("reRegister", "reWriteManifest")
  PROVE  IInv'
<1> USE DEF IInv, TypeOK, Roles, RollbackLabels, RecoveryLabels, Readable,
            history, RegisterApp, KeepRoles, Goto, disk
<1>1. TypeOK'
  OBVIOUS
<1>2. ResidueHasAuthority'
  BY DEF ResidueHasAuthority
<1>3. ExchangeOnRecord'
  BY DEF ExchangeOnRecord
<1>4. OwnJournal'
  BY DEF OwnJournal
<1>5. TornJournal'
  BY DEF TornJournal
<1>6. JournalTells'
  BY DEF JournalTells, Reverse
<1>7. ManifestTells'
  BY DEF ManifestTells
<1>8. RegistrationTells'
  BY DEF RegistrationTells, Owes, SwappedRoles, OwnJournal, Position,
         JournalTells, Reverse
<1>9. Position'
  BY DEF Position
<1> QED
  BY <1>1, <1>2, <1>3, <1>4, <1>5, <1>6, <1>7, <1>8, <1>9

LEMMA ReWriteManifestKeeps ==
  ASSUME IInv, PublishManifest("reWriteManifest", "rebindJournal")
  PROVE  IInv'
<1> USE DEF IInv, TypeOK, Roles, RollbackLabels, RecoveryLabels, Readable,
            history, PublishManifest, KeepRoles, Goto, disk
<1>1. TypeOK'
  OBVIOUS
<1>2. ResidueHasAuthority'
  BY DEF ResidueHasAuthority
<1>3. ExchangeOnRecord'
  BY DEF ExchangeOnRecord
<1>4. OwnJournal'
  BY DEF OwnJournal
<1>5. TornJournal'
  BY DEF TornJournal, OwnJournal, Position
<1>6. JournalTells'
  BY DEF JournalTells, Reverse
<1>7. ManifestTells'
  BY DEF ManifestTells, OwnJournal, Position
<1>8. RegistrationTells'
  BY DEF RegistrationTells, Owes, SwappedRoles, OwnJournal, Position,
         JournalTells, Reverse
<1>9. Position'
  BY DEF Position
<1> QED
  BY <1>1, <1>2, <1>3, <1>4, <1>5, <1>6, <1>7, <1>8, <1>9

LEMMA RebindJournalKeeps ==
  ASSUME IInv, UpdateJournal("rebindJournal", "bound", "cleanup")
  PROVE  IInv'
<1> USE DEF IInv, TypeOK, Roles, RollbackLabels, RecoveryLabels, Readable,
            history, UpdateJournal, KeepRoles, Goto, disk
<1>1. TypeOK'
  OBVIOUS
<1>2. ResidueHasAuthority'
  BY DEF ResidueHasAuthority
<1>3. ExchangeOnRecord'
  BY DEF ExchangeOnRecord
<1>4. OwnJournal'
  BY DEF OwnJournal
<1>5. TornJournal'
  BY DEF TornJournal
<1>6. JournalTells'
  BY DEF JournalTells, OwnJournal, Position, Reverse
<1>7. ManifestTells'
  BY DEF ManifestTells, OwnJournal, Position
<1>8. RegistrationTells'
  BY DEF RegistrationTells, Owes, SwappedRoles, OwnJournal, Position,
         JournalTells, Reverse
<1>9. Position'
  BY DEF Position
<1> QED
  BY <1>1, <1>2, <1>3, <1>4, <1>5, <1>6, <1>7, <1>8, <1>9

LEMMA CleanupKeeps ==
  ASSUME IInv, Cleanup
  PROVE  IInv'
<1> USE DEF IInv, TypeOK, Roles, RollbackLabels, RecoveryLabels, Readable,
            history, Cleanup, DeleteStage, CleanNext, DeleteJournal,
            KeepRoles, Goto, disk
<1>1. TypeOK'
  OBVIOUS
<1>2. ResidueHasAuthority'
  BY DEF ResidueHasAuthority
<1>3. ExchangeOnRecord'
  BY DEF ExchangeOnRecord, OwnJournal, Position, JournalTells,
         OriginalRoles, Reverse
<1>4. OwnJournal'
  BY DEF OwnJournal
<1>5. TornJournal'
  BY DEF TornJournal
<1>6. JournalTells'
  BY DEF JournalTells, Reverse
<1>7. ManifestTells'
  BY DEF ManifestTells, OwnJournal, Position, OriginalRoles
<1>8. RegistrationTells'
  <2>1. Readable(cur) /\ ~Owes(cur)
    BY DEF OwnJournal, Position, JournalTells, Owes, OriginalRoles,
           SwappedRoles, Reverse
  <2>2. \A i \in Ids : Owes(i) => Owes(i)'
    BY <2>1 DEF Owes, SwappedRoles, Reverse
  <2> QED
    BY <2>2 DEF RegistrationTells
<1>9. Position'
  BY DEF Position, OriginalRoles
<1> QED
  BY <1>1, <1>2, <1>3, <1>4, <1>5, <1>6, <1>7, <1>8, <1>9

LEMMA StopKeeps ==
  ASSUME IInv, Stop
  PROVE  IInv'
<1> USE DEF IInv, TypeOK, Roles, RollbackLabels, RecoveryLabels, Readable,
            history, Stop, KeepRoles, Goto, disk
<1>1. TypeOK'
  OBVIOUS
<1>2. ResidueHasAuthority'
  BY DEF ResidueHasAuthority
<1>3. ExchangeOnRecord'
  BY DEF ExchangeOnRecord
<1>4. OwnJournal'
  BY DEF OwnJournal
<1>5. TornJournal'
  BY DEF TornJournal
<1>6. JournalTells'
  BY DEF JournalTells, Reverse
<1>7. ManifestTells'
  BY DEF ManifestTells
<1>8. RegistrationTells'
  BY DEF RegistrationTells, Owes, SwappedRoles, OwnJournal, Position,
         JournalTells, Reverse
<1>9. Position'
  BY DEF Position
<1> QED
  BY <1>1, <1>2, <1>3, <1>4, <1>5, <1>6, <1>7, <1>8, <1>9

LEMMA TearKeeps ==
  ASSUME IInv, Tear
  PROVE  IInv'
<1> USE DEF IInv, TypeOK, Roles, RollbackLabels, RecoveryLabels, Readable,
            history, Tear, Updating, KeepRoles, Goto, disk
<1>1. TypeOK'
  <2>1. /\ stage' \in [Ids -> {"none", "partial", "copy"}]
        /\ journal' \in [Ids -> {"none", "torn", "open", "bound"}]
        /\ manifest' \in [Ids -> {"none", "torn", "whole"}]
    OBVIOUS
  <2>2. next' \in [Ids -> {"none", "torn", "whole"}]
    OBVIOUS
  <2> QED
    BY <2>1, <2>2
<1>2. ResidueHasAuthority'
  BY DEF ResidueHasAuthority, OwnJournal, TornJournal, Position
<1>3. ExchangeOnRecord'
  BY DEF ExchangeOnRecord, OwnJournal, Position, ManifestTells,
         JournalTells, Reverse
<1>4. OwnJournal'
  BY DEF OwnJournal
<1>5. TornJournal'
  BY DEF TornJournal, OwnJournal, Position
<1>6. JournalTells'
  BY DEF JournalTells, Reverse
<1>7. ManifestTells'
  BY DEF ResidueHasAuthority, ExchangeOnRecord, OwnJournal, TornJournal,
         JournalTells, ManifestTells, RegistrationTells, Position, Reverse
<1>8. RegistrationTells'
  BY DEF RegistrationTells, Owes, SwappedRoles, OwnJournal, Position,
         JournalTells, Reverse
<1>9. Position'
  BY DEF Position
<1> QED
  BY <1>1, <1>2, <1>3, <1>4, <1>5, <1>6, <1>7, <1>8, <1>9

LEMMA GrowKeeps ==
  ASSUME IInv, NEW b \in Builds, Grow(b)
  PROVE  IInv'
<1> USE DEF IInv, TypeOK, Roles, RollbackLabels, RecoveryLabels, Readable,
            history, Grow, disk
<1>1. TypeOK'
  OBVIOUS
<1>2. ResidueHasAuthority'
  BY DEF ResidueHasAuthority
<1>3. ExchangeOnRecord'
  BY DEF ExchangeOnRecord
<1>4. OwnJournal'
  BY DEF OwnJournal
<1>5. TornJournal'
  BY DEF TornJournal
<1>6. JournalTells'
  BY DEF JournalTells, Reverse
<1>7. ManifestTells'
  BY DEF ManifestTells
<1>8. RegistrationTells'
  BY DEF RegistrationTells, Owes, SwappedRoles, OwnJournal, Position,
         JournalTells, Reverse
<1>9. Position'
  BY DEF Position, OriginalRoles
<1> QED
  BY <1>1, <1>2, <1>3, <1>4, <1>5, <1>6, <1>7, <1>8, <1>9

LEMMA PromoteKeeps ==
  ASSUME IInv, NEW b \in Builds, Promote(b)
  PROVE  IInv'
<1> USE DEF IInv, TypeOK, Roles, RollbackLabels, RecoveryLabels, Readable,
            history, Promote, Unfinished, disk
<1>1. TypeOK'
  OBVIOUS
<1>2. ResidueHasAuthority'
  BY DEF ResidueHasAuthority
<1>3. ExchangeOnRecord'
  BY DEF ExchangeOnRecord
<1>4. OwnJournal'
  BY DEF OwnJournal
<1>5. TornJournal'
  BY DEF TornJournal
<1>6. JournalTells'
  BY DEF JournalTells, Reverse
<1>7. ManifestTells'
  BY DEF ManifestTells
<1>8. RegistrationTells'
  BY DEF RegistrationTells, Owes, SwappedRoles, OwnJournal, Position,
         JournalTells, Reverse
<1>9. Position'
  BY DEF Position
<1> QED
  BY <1>1, <1>2, <1>3, <1>4, <1>5, <1>6, <1>7, <1>8, <1>9

-----------------------------------------------------------------------------
(* The theorems.                                                           *)

LEMMA InitKeeps == Init => IInv
<1> SUFFICES ASSUME Init PROVE IInv
  OBVIOUS
<1> USE DEF Init, IInv
<1>1. TypeOK
  BY DEF TypeOK, Roles
<1>2. ResidueHasAuthority /\ ExchangeOnRecord
  BY DEF ResidueHasAuthority, ExchangeOnRecord
<1>3. OwnJournal /\ TornJournal /\ JournalTells
  BY DEF OwnJournal, TornJournal, JournalTells, Readable
<1>4. ManifestTells /\ RegistrationTells /\ Position
  BY DEF ManifestTells, RegistrationTells, Position, Readable
<1> QED
  BY <1>1, <1>2, <1>3, <1>4

LEMMA StepKeeps ==
  IInv /\ [Next]_vars => IInv'
<1> SUFFICES ASSUME IInv, [Next]_vars PROVE IInv'
  OBVIOUS
<1>1. ASSUME NEW i \in Ids, StartRollback(i) \/ StartRecovery(i) PROVE IInv'
  BY <1>1, StartRollbackKeeps, StartRecoveryKeeps
<1>2. CASE RollbackStep
  BY <1>2, WriteJournalKeeps, CopyStageKeeps, JournalPreparedKeeps,
     RecheckKeeps, AtomicSwapKeeps, PostcheckKeeps, JournalSwappedKeeps,
     RegisterKeeps, JournalRegisteredKeeps, WriteManifestKeeps,
     JournalManifestKeeps, RemoveStageKeeps, JournalCommittedKeeps,
     RemoveJournalKeeps DEF RollbackStep
<1>3. CASE RecoveryStep
  BY <1>3, ReRegisterKeeps, ReWriteManifestKeeps, RebindJournalKeeps,
     CleanupKeeps DEF RecoveryStep
<1>4. CASE Stop \/ Tear
  BY <1>4, StopKeeps, TearKeeps
<1>5. ASSUME NEW b \in Builds, Grow(b) \/ Promote(b) PROVE IInv'
  BY <1>5, GrowKeeps, PromoteKeeps
<1>6. CASE UNCHANGED vars
  BY <1>6 DEF vars, disk, IInv, TypeOK, ResidueHasAuthority, ExchangeOnRecord,
     OwnJournal, TornJournal, JournalTells, ManifestTells, RegistrationTells,
     Position, OriginalRoles, Owes, SwappedRoles, Readable, history
<1> QED
  BY <1>1, <1>2, <1>3, <1>4, <1>5, <1>6 DEF Next

\* The inductive invariant holds in every reachable state, whatever rollbacks
\* and promotions are started over an unfinished rollback.
THEOREM InductiveInvariant == Spec => []IInv
<1>1. Init => IInv
  BY InitKeeps
<1>2. IInv /\ [Next]_vars => IInv'
  BY StepKeeps
<1> QED
  BY <1>1, <1>2, PTL DEF Spec

\* Type correctness.
THEOREM TypeCorrect == Spec => []TypeOK
BY InductiveInvariant, PTL DEF IInv

\* No crash leaves a staged bundle or a .next file without the journal that
\* entitles recovery to remove it.
THEOREM ResidueIsOwned == Spec => []ResidueHasAuthority
BY InductiveInvariant, PTL DEF IInv

\* No crash makes the disk forget that a rollback exchanged the bundles,
\* unless something else moved them before that rollback was finished.
THEOREM ExchangeIsRecorded == Spec => []ExchangeOnRecord
BY InductiveInvariant, PTL DEF IInv

\* No manifest is written for an exchange that did not take place, by a
\* rollback that nothing else interfered with.
THEOREM ManifestTellsTheTruth == Spec => []ManifestIsHonest
<1>1. IInv => ManifestIsHonest
  <2> SUFFICES ASSUME IInv PROVE ManifestIsHonest
    OBVIOUS
  <2>1. ASSUME NEW i \in Ids \ disturbed, manifest[i] # "none"
        PROVE  i \in exchanged /\ (journal[i] # "none" => SwappedRoles(i))
    <3>1. i \in exchanged
      BY <2>1 DEF IInv, ManifestTells
    <3>2. journal[i] # "none" => Readable(i)
      BY <2>1 DEF IInv, TypeOK, TornJournal, Readable
    <3> QED
      BY <2>1, <3>1, <3>2 DEF IInv, JournalTells, SwappedRoles
  <2>2. \A i \in Ids : journal[i] = "bound" => manifest[i] = "whole"
    BY DEF IInv, ManifestTells
  <2> QED
    BY <2>1, <2>2 DEF ManifestIsHonest
<1> QED
  BY <1>1, InductiveInvariant, PTL

\* With no journal left, LaunchServices knows the installed build, also after
\* rollbacks and promotions that moved the bundles of others.
THEOREM RegistrationFollows == Spec => []RegistrationIsCurrent
<1>1. IInv => RegistrationIsCurrent
  BY DEF IInv, RegistrationTells, RegistrationIsCurrent, NoJournals, Owes,
         Readable
<1> QED
  BY <1>1, InductiveInvariant, PTL

\* Both: what a rollback tells the outside is true of the bundles.
THEOREM OutsideIsToldTheTruth == Spec => []OutsideIsTold
BY ManifestTellsTheTruth, RegistrationFollows, PTL DEF OutsideIsTold

\* A rollback identifier exchanges the bundles a second time only when
\* something else moved them while its journal was left.
THEOREM ReuseNeedsDisturbance == Spec => OnceUnlessDisturbed
<1>1. IInv => [\A i \in Ids :
                 cur = i /\ AtomicSwap => i \notin exchanged \/ i \in disturbed]_vars
  BY DEF IInv, Position, AtomicSwap
<1> QED
  BY <1>1, InductiveInvariant, PTL DEF Spec, OnceUnlessDisturbed
=============================================================================
