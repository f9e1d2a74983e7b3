------------------------- MODULE DesktopEdits_proofs -------------------------
(***************************************************************************)
(* Proofs about the desktop preview session and about the text edits that  *)
(* reach it from the window.                                               *)
(*                                                                         *)
(* DesktopSession, for any number of opens, sessions, commands and         *)
(* dialogs: sources are accounted for, edits stay with the file they were  *)
(* made for, and authority moves from open to open.                        *)
(*                                                                         *)
(* RuntimeEdits, for any texts and any number of files and intents: when   *)
(* nothing is under way the record of the session and the player in the    *)
(* window have what was typed last, and nothing of one file reaches        *)
(* another.                                                                *)
(*                                                                         *)
(* The two have no state in common: Init, Spec and their like are those of *)
(* DesktopSession, EditsInit, EditsSpec those of RuntimeEdits.             *)
(***************************************************************************)
EXTENDS DesktopSession, RuntimeEdits, TLAPS

\* Numbers are given out in order; what has not been made is in no use.
Fresh ==
  /\ latest <= made
  /\ \A s \in Numbers : s > made => life[s] = "none"
  /\ \A s \in opens \cup disposals \cup {promise, active} : s <= made
  /\ \A e \in edits : e.source <= made

\* The state of the import limits the states of the sessions that need it.
Imported ==
  \A s \in Numbers :
    life[s] \in CASE modules = "none"    -> {"none"}
                  [] modules = "loading" -> {"none", "creating"}
                  [] modules = "failed"  -> {"none", "failed"}
                  [] modules = "loaded"  -> {"none", "live", "idle", "disposed"}

\* An open under way is not yet anything else, and while a dispose command
\* waits for the import nobody can have been accepted.
Roles ==
  /\ promise \notin opens /\ active \notin opens
  /\ \A e \in edits : e.source \notin opens
  /\ disposals # {} =>
       active = 0 /\ \A s \in Numbers : life[s] = "live" => s \in opens

\* One after the other, an edit under preparation is the newest operation on
\* the only image key it may be for, and nothing else differs.
OneEdit ==
  Serial =>
    /\ \A e \in edits : e.source = active =>
         e.operation = record.operation /\ TargetAllowed(e.target)
    /\ \A e, f \in edits : e.source = active /\ f.source = active => e = f
    /\ \A t \in Targets :
         record.edit[t] = IF preview.target = t THEN preview.edit ELSE 0

\* However the commands overlap, edits of the active file have operations of
\* their own, and the newest operation was begun at the revision its user saw.
Seen ==
  /\ \A e \in edits : e.source = active =>
       /\ e.operation <= record.operation
       /\ e.operation = record.operation => e.seen = record.revision
  /\ \A e, f \in edits :
       e.source = active /\ f.source = active /\ e.operation = f.operation =>
         e = f

IInv ==
  /\ TypeOK /\ Fresh /\ Imported /\ Roles /\ OneEdit /\ Seen
  /\ SourcesAccounted /\ PreviewFollowsSource

LEMMA InitIInv == Init => IInv
<1> SUFFICES ASSUME Init PROVE IInv
  OBVIOUS
<1> USE DEF Init, EmptyRecord, NoPreview
<1>1. TypeOK
  <2>1. 0 \in 0 .. MaxSessions
    BY ParametersAssumption
  <2> QED BY <2>1 DEF TypeOK, Life
<1>2. Fresh /\ Imported /\ Roles
  BY DEF Fresh, Imported, Roles
<1>3. OneEdit /\ Seen
  BY ParametersAssumption DEF OneEdit, Seen
<1>4. SourcesAccounted /\ PreviewFollowsSource
  BY DEF SourcesAccounted, ActiveIsBacked, OpenedIsOwned, BindingsAreOwned,
    PreviewFollowsSource
<1> QED BY <1>1, <1>2, <1>3, <1>4 DEF IInv

-----------------------------------------------------------------------------
(* Facts about the effects actions are made of.                            *)

\* A new session waits for the import, has what it needs, or fails.
LEMMA CreateMakesFresh ==
  ASSUME IInv, NEW kind \in Alive, CreateSession(made + 1, kind)
  PROVE  /\ made + 1 \in Numbers /\ made' = made + 1
         /\ made' \in 0 .. MaxSessions
         /\ modules' \in {"none", "loading", "loaded", "failed"}
         /\ life' \in [Numbers -> Life]
         /\ \A s \in Numbers : s # made + 1 => life'[s] = life[s]
         /\ life'[made + 1] \in {kind, "creating", "failed"}
         /\ Imported'
<1>1. made + 1 \in Numbers /\ made + 1 \in 0 .. MaxSessions
  BY ParametersAssumption DEF CreateSession, IInv, TypeOK, Numbers
<1>2. made' = made + 1
  BY DEF CreateSession
<1>3. /\ life' \in [Numbers -> Life]
      /\ \A s \in Numbers : s # made + 1 => life'[s] = life[s]
      /\ life'[made + 1] = CASE modules = "loaded" -> kind
                              [] modules = "failed" -> "failed"
                              [] OTHER -> "creating"
  BY <1>1 DEF CreateSession, IInv, TypeOK, Life, Alive
<1>4. modules' = IF modules = "none" THEN "loading" ELSE modules
  BY DEF CreateSession
<1>5. modules \in {"none", "loading", "loaded", "failed"}
  BY DEF IInv, TypeOK
<1>6. Imported'
  BY <1>1, <1>3, <1>4, <1>5 DEF IInv, Imported, Alive
<1> QED BY <1>1, <1>2, <1>3, <1>4, <1>5, <1>6

\* Nothing waits once the modules are loaded.
LEMMA QuietWhenLoaded ==
  ASSUME IInv, Quiet, modules = "loaded"
  PROVE  disposals = {}
BY DEF IInv, TypeOK, Imported, Quiet

LEMMA LiveMeansLoaded ==
  ASSUME IInv, NEW s \in Numbers, life[s] = "live"
  PROVE  modules = "loaded"
BY DEF IInv, TypeOK, Imported

LEMMA ActiveMeansLoaded ==
  ASSUME IInv, active # 0
  PROVE  modules = "loaded" /\ active \in Numbers /\ life[active] = "live"
<1>1. active \in Numbers
  BY DEF IInv, TypeOK, Numbers
<1>2. life[active] = "live"
  BY DEF IInv, SourcesAccounted, ActiveIsBacked
<1> QED BY <1>1, <1>2, LiveMeansLoaded

\* Taking the edits away with the active source.
LEMMA EditsGo ==
  ASSUME IInv, record' = EmptyRecord, preview' = NoPreview, edits' = edits,
         active' \in {0} \cup opens
  PROVE  OneEdit' /\ Seen' /\ PreviewFollowsSource'
<1>1. \A e \in edits : e.source # active'
  BY DEF IInv, TypeOK, Roles, Numbers
<1>2. \A t \in Targets : t # "none"
  BY ParametersAssumption
<1>3. OneEdit'
  BY <1>1, <1>2 DEF OneEdit, EmptyRecord, NoPreview
<1>4. Seen'
  BY <1>1 DEF Seen
<1> QED BY <1>3, <1>4 DEF PreviewFollowsSource, NoPreview

LEMMA EditsStay ==
  ASSUME IInv, UNCHANGED <<record, preview, edits, active>>
  PROVE  OneEdit' /\ Seen' /\ PreviewFollowsSource'
BY DEF IInv, OneEdit, Seen, PreviewFollowsSource, TargetAllowed

LEMMA BlankTypes ==
  /\ EmptyRecord \in [operation : Nat, revision : Nat, edit : [Targets -> Nat]]
  /\ NoPreview \in [source : 0 .. MaxSessions,
                    target : Targets \cup {"none"}, edit : Nat]
BY ParametersAssumption DEF EmptyRecord, NoPreview

-----------------------------------------------------------------------------
(* Opens.                                                                  *)

LEMMA RefusalKeeps ==
  ASSUME IInv, OpenRefused
  PROVE  IInv'
<1> USE DEF OpenRefused, DisposePending, Release, ClearActive
<1>1. made + 1 \in Numbers /\ made + 1 \in 0 .. MaxSessions
  BY ParametersAssumption DEF IInv, TypeOK, Numbers
<1>2. /\ life' \in [Numbers -> Life]
      /\ \A s \in Numbers :
           life'[s] = IF s = promise /\ life[s] \in Alive THEN "disposed"
                      ELSE life[s]
  BY DEF IInv, TypeOK, Life
<1>3. TypeOK'
  BY <1>1, <1>2, BlankTypes, ParametersAssumption DEF IInv, TypeOK
<1>4. Fresh'
  BY <1>1, <1>2 DEF IInv, Fresh, TypeOK, Numbers, Alive
<1>5. Imported'
  BY <1>2 DEF IInv, Imported, TypeOK, Alive
<1>6. Roles'
  BY <1>2 DEF IInv, TypeOK, Roles, Numbers, Alive
<1>7. OneEdit' /\ Seen' /\ PreviewFollowsSource'
  BY EditsGo
<1>8. SourcesAccounted'
  BY <1>2 DEF IInv, TypeOK, SourcesAccounted, ActiveIsBacked, OpenedIsOwned,
    BindingsAreOwned, Numbers, Alive, Roles
<1> QED BY <1>3, <1>4, <1>5, <1>6, <1>7, <1>8 DEF IInv

LEMMA OpenKeeps ==
  ASSUME IInv, OpenLocalFilePath
  PROVE  IInv'
<1> USE DEF OpenLocalFilePath, editVars
<1> DEFINE r == made + 1
<1>1. /\ r \in Numbers /\ made' = r /\ made' \in 0 .. MaxSessions
      /\ modules' \in {"none", "loading", "loaded", "failed"}
      /\ life' \in [Numbers -> Life]
      /\ \A s \in Numbers : s # r => life'[s] = life[s]
      /\ life'[r] \in {"live", "creating", "failed"}
      /\ Imported'
  BY CreateMakesFresh DEF Alive
<1>2. \A x \in opens \cup disposals \cup {promise, active} : x # r
  BY DEF IInv, Fresh, TypeOK, Numbers
<1>3. TypeOK'
  BY <1>1 DEF IInv, TypeOK
<1>4. Fresh'
  BY <1>1 DEF IInv, Fresh, TypeOK, Numbers
<1>5. Roles'
  <2>1. \A e \in edits : e.source # r
    BY DEF IInv, Fresh, TypeOK, Numbers
  <2> QED BY <1>1, <1>2, <2>1 DEF IInv, Roles
<1>6. OneEdit' /\ Seen' /\ PreviewFollowsSource'
  BY EditsStay
<1>7. SourcesAccounted'
  BY <1>1, <1>2 DEF IInv, TypeOK, SourcesAccounted, ActiveIsBacked,
    OpenedIsOwned, BindingsAreOwned, Numbers
<1> QED BY <1>1, <1>3, <1>4, <1>5, <1>6, <1>7 DEF IInv

LEMMA AcceptKeeps ==
  ASSUME IInv, NEW r \in Numbers, Quiet, life[r] = "live", Answer(r), Accept(r)
  PROVE  IInv'
<1> USE DEF Answer, Accept, Release
<1>1. r \in opens /\ r # promise /\ r # active /\ r # 0
  BY DEF IInv, Roles, Numbers
<1>2. /\ life' \in [Numbers -> Life]
      /\ \A s \in Numbers :
           life'[s] = IF s = promise /\ life[s] \in Alive THEN "disposed"
                      ELSE life[s]
  BY DEF IInv, TypeOK, Life
<1>3. disposals = {}
  BY LiveMeansLoaded, QuietWhenLoaded
<1>4. TypeOK'
  <2>1. r \in 0 .. MaxSessions
    BY ParametersAssumption DEF Numbers
  <2> QED BY <1>2, <2>1, BlankTypes DEF IInv, TypeOK
<1>5. Fresh'
  BY <1>1, <1>2 DEF IInv, Fresh, Alive, Numbers
<1>6. Imported'
  BY <1>2 DEF IInv, Imported, TypeOK, Alive
<1>7. Roles'
  BY <1>1, <1>3 DEF IInv, Roles
<1>8. OneEdit' /\ Seen' /\ PreviewFollowsSource'
  BY <1>1, EditsGo
<1>9. SourcesAccounted'
  <2>1. ActiveIsBacked'
    BY <1>1, <1>2 DEF ActiveIsBacked
  <2>2. OpenedIsOwned'
    BY <1>1, <1>2 DEF IInv, SourcesAccounted, OpenedIsOwned, Alive
  <2>3. BindingsAreOwned'
    BY <1>1 DEF IInv, SourcesAccounted, BindingsAreOwned, Roles
  <2> QED BY <2>1, <2>2, <2>3 DEF SourcesAccounted
<1> QED BY <1>4, <1>5, <1>6, <1>7, <1>8, <1>9 DEF IInv

LEMMA RejectKeeps ==
  ASSUME IInv, NEW r \in Numbers, Answer(r), Reject(r)
  PROVE  IInv'
<1> DEFINE lives == [life EXCEPT ![r] = IF @ = "live" THEN "disposed" ELSE @]
<1>1. r \in opens /\ r # promise /\ r # active
  BY DEF Answer, IInv, Roles
<1>2. /\ lives \in [Numbers -> Life]
      /\ \A s \in Numbers : lives[s] = IF s = r /\ life[s] = "live"
                                      THEN "disposed" ELSE life[s]
  BY DEF IInv, TypeOK, Life
<1>3. CASE IsCurrent(r)
  <2>1. DisposePending(lives) /\ ClearActive(bindings \ {r})
    BY <1>3 DEF Reject
  <2> USE <2>1 DEF Answer, DisposePending, ClearActive, Release
  <2>2. /\ life' \in [Numbers -> Life]
        /\ \A s \in Numbers :
             life'[s] = IF s = promise /\ lives[s] \in Alive THEN "disposed"
                        ELSE lives[s]
    BY <1>2 DEF Life
  <2> HIDE DEF lives
  <2>3. TypeOK'
    BY <1>2, <2>2, BlankTypes, ParametersAssumption DEF IInv, TypeOK
  <2>4. Fresh' /\ Imported'
    <3>1. Fresh' BY <1>2, <2>2 DEF IInv, TypeOK, Fresh, Alive, Numbers
    <3>2. Imported' BY <1>2, <2>2 DEF IInv, TypeOK, Imported, Alive
    <3> QED BY <3>1, <3>2
  <2>5. Roles'
    BY <1>2, <2>2 DEF IInv, TypeOK, Roles, Numbers, Alive
  <2>6. OneEdit' /\ Seen' /\ PreviewFollowsSource'
    BY EditsGo
  <2>7. SourcesAccounted'
    <3>1. ActiveIsBacked'
      BY DEF ActiveIsBacked
    <3>2. OpenedIsOwned'
      BY <1>1, <1>2, <2>2
      DEF IInv, SourcesAccounted, OpenedIsOwned, Alive
    <3>3. BindingsAreOwned'
      BY <1>1 DEF IInv, SourcesAccounted, BindingsAreOwned, Roles
    <3> QED BY <3>1, <3>2, <3>3 DEF SourcesAccounted
  <2> QED BY <2>3, <2>4, <2>5, <2>6, <2>7 DEF IInv
<1>4. CASE ~IsCurrent(r)
  <2>1. /\ life' = lives /\ bindings' = bindings \ {r}
        /\ UNCHANGED <<promise, doomed, active, record, preview>>
    BY <1>4 DEF Reject
  <2> USE <2>1 DEF Answer
  <2> HIDE DEF lives
  <2>3. TypeOK'
    BY <1>2 DEF IInv, TypeOK
  <2>4. Fresh' /\ Imported'
    <3>1. Fresh' BY <1>2 DEF IInv, TypeOK, Fresh, Numbers
    <3>2. Imported' BY <1>2 DEF IInv, TypeOK, Imported
    <3> QED BY <3>1, <3>2
  <2>5. Roles'
    BY <1>2 DEF IInv, TypeOK, Roles
  <2>6. OneEdit' /\ Seen' /\ PreviewFollowsSource'
    BY EditsStay
  <2>7. active \in Numbers \/ active = 0
    BY DEF IInv, TypeOK, Numbers
  <2>8. SourcesAccounted'
    BY <1>1, <1>2, <2>7 DEF IInv, SourcesAccounted, ActiveIsBacked,
      OpenedIsOwned, BindingsAreOwned
  <2> QED BY <2>3, <2>4, <2>5, <2>6, <2>8 DEF IInv
<1> QED BY <1>3, <1>4

-----------------------------------------------------------------------------
(* The import, commands and disposal.                                      *)

LEMMA SettlingKeeps ==
  ASSUME IInv, NEW result \in {"loaded", "failed"}, ModulesSettle(result)
  PROVE  IInv'
<1> USE DEF ModulesSettle, editVars
<1>1. \A s \in Numbers : life[s] \in {"none", "creating"}
  BY DEF IInv, Imported
<1>2. active = 0
  BY ActiveMeansLoaded
<1>3. /\ life' \in [Numbers -> Life]
      /\ \A s \in Numbers :
           life'[s] = IF life[s] = "creating" THEN Created(s, result)
                      ELSE "none"
  BY <1>1 DEF IInv, TypeOK, Life, Created
<1>4. \A s \in Numbers :
        /\ result = "failed" => Created(s, result) = "failed"
        /\ result = "loaded" => Created(s, result) \in
             {"live", "idle", "disposed"}
        /\ Created(s, result) = "live" => s \in opens
  BY DEF Created
<1>5. TypeOK'
  BY <1>3 DEF IInv, TypeOK
<1>6. Fresh'
  <2>1. \A s \in Numbers : s > made => life[s] # "creating"
    BY DEF IInv, Fresh
  <2> QED BY <1>3, <2>1 DEF IInv, Fresh
<1>7. Imported'
  BY <1>3, <1>4 DEF Imported
<1>8. Roles'
  BY <1>2, <1>3, <1>4 DEF IInv, Roles
<1>9. OneEdit' /\ Seen' /\ PreviewFollowsSource'
  BY EditsStay
<1>10. SourcesAccounted'
  BY <1>2, <1>3, <1>4 DEF IInv, SourcesAccounted, ActiveIsBacked,
    OpenedIsOwned, BindingsAreOwned
<1> QED BY <1>5, <1>6, <1>7, <1>8, <1>9, <1>10 DEF IInv

LEMMA ControlKeeps ==
  ASSUME IInv, ControlIdle
  PROVE  IInv'
<1> USE DEF ControlIdle, editVars
<1> DEFINE r == made + 1
<1>1. /\ r \in Numbers /\ made' = r /\ made' \in 0 .. MaxSessions
      /\ modules' \in {"none", "loading", "loaded", "failed"}
      /\ life' \in [Numbers -> Life]
      /\ \A s \in Numbers : s # r => life'[s] = life[s]
      /\ life'[r] \in {"idle", "creating", "failed"}
      /\ Imported'
  BY CreateMakesFresh DEF Alive
<1>2. \A x \in opens \cup disposals \cup {active} : x # r
  BY DEF IInv, Fresh, TypeOK, Numbers
<1>3. active = 0
  BY DEF IInv, SourcesAccounted, ActiveIsBacked, TypeOK, Numbers
<1>4. TypeOK'
  BY <1>1 DEF IInv, TypeOK
<1>5. Fresh'
  BY <1>1 DEF IInv, Fresh, TypeOK, Numbers
<1>6. Roles'
  BY <1>1, <1>2 DEF IInv, Roles
<1>7. OneEdit' /\ Seen' /\ PreviewFollowsSource'
  BY EditsStay
<1>8. SourcesAccounted'
  <2>1. \A s \in Numbers : life[s] = "live" => s \in opens
    BY DEF IInv, SourcesAccounted, OpenedIsOwned, Numbers
  <2> QED BY <1>1, <1>3, <2>1 DEF IInv, SourcesAccounted, ActiveIsBacked,
      OpenedIsOwned, BindingsAreOwned
<1> QED BY <1>1, <1>4, <1>5, <1>6, <1>7, <1>8 DEF IInv

LEMMA DisposeNowKeeps ==
  ASSUME IInv, NEW s \in Numbers, DisposeNow(s), disposals' \subseteq disposals,
         s = promise \/ s \in disposals
  PROVE  IInv'
<1> USE DEF DisposeNow, ClearActive
<1>1. /\ life' \in [Numbers -> Life]
      /\ \A x \in Numbers :
           life'[x] = IF x = s /\ life[x] \in Alive THEN "disposed"
                      ELSE life[x]
  BY DEF IInv, TypeOK, Life
<1>2. \A x \in Numbers : life'[x] = "live" => x \in opens
  <2>1. CASE s = promise
    BY <1>1, <2>1 DEF IInv, SourcesAccounted, OpenedIsOwned, Alive
  <2>2. CASE s \in disposals
    BY <1>1, <2>2 DEF IInv, Roles
  <2> QED BY <2>1, <2>2
<1>3. TypeOK'
  BY <1>1, BlankTypes, ParametersAssumption DEF IInv, TypeOK
<1>4. Fresh'
  BY <1>1 DEF IInv, TypeOK, Fresh, Alive, Numbers
<1>5. Imported'
  BY <1>1 DEF IInv, TypeOK, Imported, Alive
<1>6. Roles'
  BY <1>2 DEF IInv, TypeOK, Roles, Numbers
<1>7. OneEdit' /\ Seen' /\ PreviewFollowsSource'
  BY EditsGo
<1>8. SourcesAccounted'
  <2>1. BindingsAreOwned'
    BY DEF IInv, SourcesAccounted, BindingsAreOwned, Roles
  <2> QED BY <1>2, <2>1 DEF SourcesAccounted, ActiveIsBacked, OpenedIsOwned
<1> QED BY <1>3, <1>4, <1>5, <1>6, <1>7, <1>8 DEF IInv

LEMMA DisposeKeeps ==
  ASSUME IInv, Dispose
  PROVE  IInv'
<1> USE DEF Dispose
<1>1. promise \in Numbers
  BY DEF IInv, TypeOK, Numbers
<1>2. CASE life[promise] = "creating"
  <2> USE DEF editVars
  <2>1. active = 0
    BY <1>2 DEF IInv, SourcesAccounted, ActiveIsBacked
  <2>2. modules # "loaded"
    BY <1>1, <1>2 DEF IInv, Imported
  <2>3. \A s \in Numbers : life[s] # "live"
    BY <2>2, LiveMeansLoaded
  <2>4. TypeOK' /\ Fresh' /\ Imported'
    BY <1>1, <1>2 DEF IInv, TypeOK, Fresh, Imported
  <2>5. Roles'
    BY <1>2, <2>1, <2>3 DEF IInv, Roles
  <2>6. OneEdit' /\ Seen' /\ PreviewFollowsSource'
    BY <1>2, EditsStay
  <2>7. SourcesAccounted'
    BY <1>2 DEF IInv, SourcesAccounted, ActiveIsBacked, OpenedIsOwned,
      BindingsAreOwned
  <2> QED BY <2>4, <2>5, <2>6, <2>7 DEF IInv
<1>3. CASE life[promise] # "creating"
  BY <1>1, <1>3, DisposeNowKeeps
<1> QED BY <1>2, <1>3

LEMMA DisposeResumesKeeps ==
  ASSUME IInv, NEW s \in Numbers, DisposeResumes(s)
  PROVE  IInv'
<1> USE DEF DisposeResumes
<1>1. CASE life[s] = "failed"
  <2> USE <1>1 DEF editVars
  <2>1. TypeOK' /\ Fresh' /\ Imported' /\ Roles'
    BY DEF IInv, TypeOK, Fresh, Imported, Roles
  <2>2. OneEdit' /\ Seen' /\ PreviewFollowsSource'
    BY EditsStay
  <2>3. SourcesAccounted'
    BY DEF IInv, SourcesAccounted, ActiveIsBacked, OpenedIsOwned,
      BindingsAreOwned
  <2> QED BY <2>1, <2>2, <2>3 DEF IInv
<1>2. CASE life[s] # "failed"
  BY <1>2, DisposeNowKeeps
<1> QED BY <1>1, <1>2

-----------------------------------------------------------------------------
(* Replacement commands.                                                   *)

\* A step that concerns the edits only leaves the sessions accounted for.
LEMMA SessionsStay ==
  ASSUME IInv, UNCHANGED sessionVars,
         \A e \in edits' : e \in edits \/ e.source = active
  PROVE  Imported' /\ Roles' /\ SourcesAccounted' /\ Fresh'
<1> USE DEF sessionVars
<1>1. Imported' /\ SourcesAccounted'
  BY DEF IInv, Imported, SourcesAccounted, ActiveIsBacked, OpenedIsOwned,
    BindingsAreOwned
<1>2. Roles'
  BY DEF IInv, Roles
<1>3. Fresh'
  BY DEF IInv, Fresh
<1> QED BY <1>1, <1>2, <1>3

LEMMA ApplyKeeps ==
  ASSUME IInv, NEW t \in Targets, NEW seen, seen = record.revision,
         Apply(t, seen),
         picks' \subseteq [source : Numbers, target : Targets, revision : Nat]
  PROVE  IInv'
<1> USE DEF Apply, MayCommand
<1>1. /\ active \in Numbers
      /\ record' = [record EXCEPT !.operation = @ + 1]
      /\ record'.operation = record.operation + 1 /\ record.operation \in Nat
      /\ record'.edit = record.edit
      /\ record'.revision = record.revision /\ record.revision \in Nat
      /\ record' \in [operation : Nat, revision : Nat, edit : [Targets -> Nat]]
  BY ActiveMeansLoaded DEF IInv, TypeOK, Begun
<1>2. \A e \in edits' : e \in edits \/
        (/\ e = [source |-> active, target |-> t,
                 operation |-> record'.operation, seen |-> seen]
         /\ TargetAllowed(t))
  BY <1>1
<1>3. TypeOK'
  <2>1. edits' \subseteq [source : Numbers, target : Targets, operation : Nat,
                          seen : Nat]
    BY <1>1, <1>2 DEF IInv, TypeOK
  <2> QED BY <1>1, <2>1 DEF IInv, TypeOK, sessionVars
<1>4. Fresh' /\ Imported' /\ Roles' /\ SourcesAccounted'
  BY <1>2, SessionsStay
<1>5. OneEdit'
  <2> SUFFICES ASSUME Serial PROVE OneEdit'
    BY DEF OneEdit
  <2>1. ~ \E e \in edits : e.source = active
    OBVIOUS
  <2>2. active' = active /\ preview' = preview
    BY DEF sessionVars
  <2>3. \A u \in Targets :
          record.edit[u] = IF preview.target = u THEN preview.edit ELSE 0
    BY DEF IInv, OneEdit
  <2>4. \A e \in edits' : e.source = active =>
          /\ e = [source |-> active, target |-> t,
                  operation |-> record'.operation, seen |-> seen]
          /\ TargetAllowed(t)
    BY <1>2, <2>1
  <2> QED BY <1>1, <2>2, <2>3, <2>4 DEF OneEdit, TargetAllowed
<1>6. PreviewFollowsSource'
  BY DEF IInv, PreviewFollowsSource, sessionVars
<1>7. Seen'
  <2>1. active' = active
    BY DEF sessionVars
  <2>2. \A e \in edits : e.source = active =>
          e.operation \in Nat /\ e.operation <= record.operation
    BY DEF IInv, TypeOK, Seen
  <2>3. \A e \in edits' : e.source = active =>
          \/ e \in edits /\ e.operation < record'.operation
          \/ e = [source |-> active, target |-> t,
                  operation |-> record'.operation, seen |-> seen]
    BY <1>1, <1>2, <2>2
  <2> QED BY <1>1, <2>1, <2>2, <2>3 DEF IInv, Seen
<1> QED BY <1>3, <1>4, <1>5, <1>6, <1>7 DEF IInv

LEMMA DialogKeeps ==
  ASSUME IInv,
         \/ \E t \in Targets : ChooseImage(t)
         \/ \E p \in picks : PickDropped(p)
  PROVE  IInv'
<1> USE DEF ChooseImage, PickDropped
<1>1. UNCHANGED <<sessionVars, record, preview, edits>>
  OBVIOUS
<1>2. picks' \subseteq [source : Numbers, target : Targets, revision : Nat]
  BY ActiveMeansLoaded DEF IInv, TypeOK
<1>3. TypeOK'
  BY <1>1, <1>2 DEF IInv, TypeOK, sessionVars
<1>4. Fresh' /\ Imported' /\ Roles' /\ SourcesAccounted'
  BY <1>1, SessionsStay
<1>5. OneEdit' /\ Seen' /\ PreviewFollowsSource'
  BY <1>1, EditsStay DEF sessionVars
<1> QED BY <1>3, <1>4, <1>5 DEF IInv

LEMMA PreparedKeeps ==
  ASSUME IInv, NEW e \in edits, EditPrepared(e) \/ EditRefused(e)
  PROVE  IInv'
<1>1. edits' = edits \ {e} /\ UNCHANGED <<sessionVars, picks>>
  BY DEF EditPrepared, EditRefused
<1>2. e.source \in Numbers /\ e.target \in Targets /\ e.operation \in Nat
  BY DEF IInv, TypeOK
<1>3. /\ made' = made /\ modules' = modules /\ active' = active
      /\ latest' = latest /\ opens' = opens /\ life' = life
      /\ promise' = promise /\ doomed' = doomed /\ disposals' = disposals
      /\ bindings' = bindings /\ picks' = picks
  BY <1>1 DEF sessionVars
<1>4. Fresh' /\ Imported' /\ Roles' /\ SourcesAccounted'
  BY <1>1, SessionsStay
<1>5. CASE UNCHANGED <<record, preview>>
  <2>1. TypeOK'
    BY <1>1, <1>3, <1>5 DEF IInv, TypeOK
  <2>2. OneEdit' /\ Seen' /\ PreviewFollowsSource'
    BY <1>1, <1>3, <1>5
    DEF IInv, OneEdit, Seen, TargetAllowed, PreviewFollowsSource
  <2> QED BY <1>4, <2>1, <2>2 DEF IInv
<1>6. CASE ~UNCHANGED <<record, preview>>
  <2>1. /\ active = e.source
        /\ preview' = [source |-> e.source, target |-> e.target,
                       edit |-> e.operation]
        /\ record' = IF record.operation = e.operation
                     THEN [record EXCEPT !.revision = @ + 1,
                                         !.edit[e.target] = e.operation]
                     ELSE record
    BY <1>6 DEF EditPrepared, EditRefused, SourceIsCurrent
  <2>2. record' \in [operation : Nat, revision : Nat, edit : [Targets -> Nat]]
    <3> DEFINE entered == [record.edit EXCEPT ![e.target] = e.operation]
    <3>1. /\ record \in [operation : Nat, revision : Nat,
                         edit : [Targets -> Nat]]
          /\ record.edit \in [Targets -> Nat]
          /\ record.revision + 1 \in Nat
      BY DEF IInv, TypeOK
    <3>2. entered \in [Targets -> Nat]
      BY <1>2, <3>1
    <3>3. [record EXCEPT !.revision = @ + 1, !.edit[e.target] = e.operation]
            = [record EXCEPT !.revision = record.revision + 1, !.edit = entered]
      BY <3>1
    <3> HIDE DEF entered
    <3>4. [record EXCEPT !.revision = record.revision + 1, !.edit = entered]
            \in [operation : Nat, revision : Nat, edit : [Targets -> Nat]]
      BY <3>1, <3>2
    <3> QED BY <2>1, <3>1, <3>3, <3>4
  <2>3. TypeOK'
    BY <1>1, <1>2, <1>3, <2>1, <2>2 DEF IInv, TypeOK, Numbers
  <2>4. PreviewFollowsSource'
    BY <1>3, <2>1 DEF PreviewFollowsSource
  <2>5. OneEdit'
    <3> SUFFICES ASSUME Serial PROVE OneEdit'
      BY DEF OneEdit
    <3>1. /\ record.operation = e.operation /\ TargetAllowed(e.target)
          /\ \A f \in edits : f.source = active => f = e
          /\ \A t \in Targets :
               record.edit[t] = IF preview.target = t THEN preview.edit ELSE 0
      BY <2>1 DEF IInv, OneEdit
    <3>2. \A f \in edits' : f.source # active
      BY <1>1, <3>1
    <3>3. \A t \in Targets :
            record'.edit[t] = IF t = e.target THEN e.operation
                              ELSE record.edit[t]
      BY <1>2, <2>1, <3>1 DEF IInv, TypeOK
    <3>4. \A t \in Targets : t # e.target => record.edit[t] = 0
      BY <3>1 DEF TargetAllowed
    <3>5. \A t \in Targets :
            record'.edit[t] = IF preview'.target = t THEN preview'.edit ELSE 0
      BY <2>1, <3>3, <3>4
    <3> QED BY <1>3, <3>2, <3>5 DEF OneEdit
  <2>6. Seen'
    <3>1. record'.operation = record.operation
      BY <2>1 DEF IInv, TypeOK
    <3>2. CASE record.operation = e.operation
      <4>1. \A f \in edits' : f.source = active =>
              f.operation # record.operation
        BY <1>1, <2>1, <3>2 DEF IInv, Seen
      <4> QED BY <1>1, <1>3, <3>1, <4>1 DEF IInv, Seen
    <3>3. CASE record.operation # e.operation
      BY <1>1, <1>3, <2>1, <3>3 DEF IInv, Seen
    <3> QED BY <3>2, <3>3
  <2> QED BY <1>4, <2>3, <2>4, <2>5, <2>6 DEF IInv
<1> QED BY <1>5, <1>6

LEMMA ResetKeeps ==
  ASSUME IInv, ResetImage
  PROVE  IInv'
<1> USE DEF ResetImage, MayCommand
<1>1. UNCHANGED <<sessionVars, edits, picks>> /\ active' = active
  BY DEF sessionVars
<1>2. Fresh' /\ Imported' /\ Roles' /\ SourcesAccounted'
  BY <1>1, SessionsStay
<1>3. /\ record.operation \in Nat /\ record.revision \in Nat
      /\ Begun.operation = record.operation + 1
      /\ Begun.edit = record.edit
      /\ Begun \in [operation : Nat, revision : Nat, edit : [Targets -> Nat]]
  BY DEF IInv, TypeOK, Begun
<1>6. record'.operation = record.operation + 1 => Seen'
  BY <1>1, <1>3 DEF IInv, TypeOK, Seen
<1>4. CASE preview.edit # 0
  <2>1. /\ record' = [operation |-> Begun.operation,
                      revision |-> record.revision + 1,
                      edit |-> [t \in Targets |-> 0]]
        /\ preview' = [preview EXCEPT !.target = "none", !.edit = 0]
    BY <1>4 DEF EmptyRecord
  <2>2. record' \in [operation : Nat, revision : Nat, edit : [Targets -> Nat]]
    BY <1>3, <2>1
  <2>3. /\ preview' \in [source : 0 .. MaxSessions,
                         target : Targets \cup {"none"}, edit : Nat]
        /\ preview'.source = preview.source /\ preview'.edit = 0
        /\ preview'.target = "none"
    BY <2>1 DEF IInv, TypeOK
  <2>4. TypeOK'
    BY <1>1, <2>2, <2>3 DEF IInv, TypeOK, sessionVars
  <2>5. OneEdit'
    BY <1>1, <2>1, <2>3, ParametersAssumption DEF IInv, OneEdit
  <2>6. PreviewFollowsSource'
    BY <1>1, <2>3 DEF IInv, PreviewFollowsSource
  <2>7. Seen'
    BY <1>3, <1>6, <2>1
  <2> QED BY <1>2, <2>4, <2>5, <2>6, <2>7 DEF IInv
<1>5. CASE preview.edit = 0
  <2>1. record' = Begun /\ preview' = preview
    BY <1>5
  <2>2. TypeOK'
    BY <1>1, <1>3, <2>1 DEF IInv, TypeOK, sessionVars
  <2>3. OneEdit' /\ PreviewFollowsSource'
    BY <1>1, <1>3, <2>1 DEF IInv, OneEdit, PreviewFollowsSource
  <2>4. Seen'
    BY <1>3, <1>6, <2>1
  <2> QED BY <1>2, <2>2, <2>3, <2>4 DEF IInv
<1> QED BY <1>4, <1>5

-----------------------------------------------------------------------------
(* The step as a whole, and the theorems.                                  *)

LEMMA NextKeeps == IInv /\ [Next]_vars => IInv'
<1> SUFFICES ASSUME IInv, [Next]_vars PROVE IInv'
  OBVIOUS
<1>1. ASSUME NEW result \in {"loaded", "failed"}, ModulesSettle(result)
      PROVE  IInv'
  BY <1>1, SettlingKeeps
<1>2. CASE OpenRefused \/ OpenLocalFilePath
  BY <1>2, RefusalKeeps, OpenKeeps
<1>3. ASSUME NEW r \in Numbers, NEW usable \in BOOLEAN, OpenAnswered(r, usable)
      PROVE  IInv'
  BY <1>3, AcceptKeeps, RejectKeeps DEF OpenAnswered
<1>4. ASSUME NEW r \in Numbers, OpenTimesOut(r) \/ CreationFailed(r)
      PROVE  IInv'
  BY <1>4, RejectKeeps DEF OpenTimesOut, CreationFailed
<1>5. ASSUME NEW s \in Numbers, DisposeResumes(s) PROVE IInv'
  BY <1>5, DisposeResumesKeeps
<1>6. CASE ControlIdle \/ Dispose
  BY <1>6, ControlKeeps, DisposeKeeps
<1>7. ASSUME NEW t \in Targets, ApplyImage(t) PROVE IInv'
  BY <1>7, ApplyKeeps DEF ApplyImage, IInv, TypeOK
<1>8. ASSUME NEW p \in picks, ImagePicked(p) PROVE IInv'
  BY <1>8, ApplyKeeps DEF ImagePicked, PickIsCurrent, IInv, TypeOK
<1>9. CASE \/ \E t \in Targets : ChooseImage(t)
           \/ \E p \in picks : PickDropped(p)
  BY <1>9, DialogKeeps
<1>10. ASSUME NEW e \in edits, EditPrepared(e) \/ EditRefused(e) PROVE IInv'
  BY <1>10, PreparedKeeps
<1>11. CASE ResetImage
  BY <1>11, ResetKeeps
<1>12. CASE UNCHANGED vars
  <2> USE <1>12 DEF vars, editVars
  <2>1. Fresh' /\ Imported' /\ Roles' /\ SourcesAccounted'
    BY SessionsStay
  <2>2. OneEdit' /\ Seen' /\ PreviewFollowsSource'
    BY EditsStay DEF sessionVars
  <2>3. TypeOK'
    BY DEF IInv, TypeOK, sessionVars
  <2> QED BY <2>1, <2>2, <2>3 DEF IInv
<1> QED
  BY <1>1, <1>2, <1>3, <1>4, <1>5, <1>6, <1>7, <1>8, <1>9, <1>10, <1>11, <1>12
  DEF Next

LEMMA IInvMeansSafety ==
  IInv => /\ TypeOK /\ SourcesAccounted /\ PreviewFollowsSource
          /\ Serial => PreviewIsRecord
BY DEF IInv, OneEdit, PreviewIsRecord

\* The strengthened invariant holds for any number of sessions and commands.
THEOREM Invariance == Spec => []IInv
BY InitIInv, NextKeeps, PTL DEF Spec

\* Every variable keeps its type.
THEOREM TypeCorrect == Spec => []TypeOK
BY Invariance, IInvMeansSafety, PTL

\* Sessions, sources and the right to read them are accounted for, across
\* overlapping opens, deadlines, failed imports and disposals.
THEOREM NothingIsLost == Spec => []SourcesAccounted
BY Invariance, IInvMeansSafety, PTL

\* The patched copy shown is one of the active file.
THEOREM PreviewStaysWithSource == Spec => []PreviewFollowsSource
BY Invariance, IInvMeansSafety, PTL

\* With the commands one after the other, the patched copy and the record of
\* edits agree.
THEOREM SerialPreviewIsRecord == Spec => [](Serial => PreviewIsRecord)
BY Invariance, IInvMeansSafety, PTL

\* Every image that enters the record was chosen for this file and on top of
\* the edits it is now recorded on, whether commands wait for each other or
\* not: the check after the dialog, the check after the preparation and the
\* newest operation of the candidate are enough together.
THEOREM NothingIsEditedUnseen == Spec => RecordedAsSeen
<1> DEFINE A == \A e \in edits \ edits' : record'.revision # record.revision =>
                  active = e.source /\ record.revision = e.seen
<1>1. IInv /\ [Next]_vars => [A]_vars
  <2> SUFFICES ASSUME IInv, Next, NEW e \in edits \ edits',
                      record'.revision # record.revision
               PROVE  active = e.source /\ record.revision = e.seen
    OBVIOUS
  <2>1. PICK f \in edits : EditPrepared(f) \/ EditRefused(f)
    BY DEF Next, ModulesSettle, OpenRefused, OpenLocalFilePath, OpenAnswered,
      OpenTimesOut, CreationFailed, Answer, DisposeResumes, DisposeNow,
      ControlIdle, Dispose, ApplyImage, Apply, ChooseImage, ImagePicked,
      PickDropped, ResetImage, editVars
  <2>2. e = f
    BY <2>1 DEF EditPrepared, EditRefused
  <2>3. SourceIsCurrent(e) /\ record.operation = e.operation
    BY <2>1, <2>2 DEF EditPrepared, EditRefused
  <2> QED BY <2>3 DEF SourceIsCurrent, IInv, Seen
<1> QED BY <1>1, Invariance, PTL DEF Spec, RecordedAsSeen

\* The session implements the hand-over of authority from open to open: it is
\* granted to the newest open only, once, and never comes back.
THEOREM ImplementsAuthority == Spec => AuthorityMovesForward
<1> DEFINE held == <<latest, latest \in opens, active>>
<1>1. Init => Authority!Init
  BY DEF Init, Authority!Init
<1>2. IInv /\ [Next]_vars => [Authority!Next]_held
  <2> SUFFICES ASSUME IInv, [Next]_vars PROVE [Authority!Next]_held
    OBVIOUS
  <2> USE DEF Authority!Next
  <2>1. CASE UNCHANGED <<latest, opens, active>>
    BY <2>1
  <2>2. made + 1 > latest /\ made + 1 \in Nat /\ made + 1 \notin opens
    BY DEF IInv, TypeOK, Fresh, Numbers
  <2>3. CASE OpenRefused
    BY <2>2, <2>3 DEF OpenRefused, ClearActive, Authority!Request
  <2>4. CASE OpenLocalFilePath
    BY <2>2, <2>4 DEF OpenLocalFilePath, Authority!Request
  <2>5. ASSUME NEW r \in Numbers, Answer(r),
               Reject(r) \/ (Accept(r) /\ IsCurrent(r))
        PROVE  [Authority!Next]_held
    <3>1. r \in opens /\ opens' = opens \ {r} /\ latest' = latest
      BY <2>5 DEF Answer
    <3>2. CASE Accept(r) /\ IsCurrent(r)
      BY <3>1, <3>2 DEF Accept, IsCurrent, Authority!Grant
    <3>3. CASE Reject(r) /\ IsCurrent(r)
      <4>1. active' = 0
        BY <3>3 DEF Reject, ClearActive
      <4>2. (latest \in opens)' = FALSE
        BY <3>1, <3>3 DEF IsCurrent
      <4> QED BY <3>1, <4>1, <4>2 DEF Authority!Revoke
    <3>4. CASE Reject(r) /\ ~IsCurrent(r)
      <4>1. active' = active /\ (latest \in opens' <=> latest \in opens)
        BY <3>1, <3>4 DEF Reject, IsCurrent
      <4> QED BY <3>1, <4>1
    <3> QED BY <2>5, <3>2, <3>3, <3>4
  <2>6. ASSUME NEW s \in Numbers, DisposeNow(s)
        PROVE  [Authority!Next]_held
    BY <2>6 DEF DisposeNow, ClearActive, Authority!Revoke
  <2>7. ASSUME NEW r \in Numbers,
               \/ \E usable \in BOOLEAN : OpenAnswered(r, usable)
               \/ OpenTimesOut(r) \/ CreationFailed(r)
        PROVE  [Authority!Next]_held
    BY <2>5, <2>7 DEF OpenAnswered, OpenTimesOut, CreationFailed
  <2>8. CASE Dispose
    <3>1. promise # 0 => promise \in Numbers
      BY DEF IInv, TypeOK, Numbers
    <3> QED BY <2>1, <2>6, <2>8, <3>1 DEF Dispose
  <2>9. ASSUME NEW s \in Numbers, DisposeResumes(s)
        PROVE  [Authority!Next]_held
    BY <2>1, <2>6, <2>9 DEF DisposeResumes
  <2>10. ASSUME UNCHANGED sessionVars PROVE [Authority!Next]_held
    BY <2>1, <2>10 DEF sessionVars
  <2>11. CASE ControlIdle
    BY <2>1, <2>11 DEF ControlIdle
  <2>12. ASSUME NEW result \in {"loaded", "failed"}, ModulesSettle(result)
         PROVE  [Authority!Next]_held
    BY <2>1, <2>12 DEF ModulesSettle
  <2>13. CASE \/ \E t \in Targets : ApplyImage(t) \/ ChooseImage(t)
              \/ \E p \in picks : ImagePicked(p) \/ PickDropped(p)
              \/ \E e \in edits : EditPrepared(e) \/ EditRefused(e)
              \/ ResetImage \/ UNCHANGED vars
    <3>1. UNCHANGED sessionVars
      BY <2>13 DEF ApplyImage, Apply, ChooseImage, ImagePicked, PickDropped,
        EditPrepared, EditRefused, ResetImage, vars
    <3> QED BY <2>10, <3>1
  <2> QED
    BY <2>3, <2>4, <2>7, <2>8, <2>9, <2>11, <2>12, <2>13 DEF Next
<1> QED
  BY <1>1, <1>2, Invariance, PTL
  DEF Spec, AuthorityMovesForward, Authority!Spec

-----------------------------------------------------------------------------
(* RuntimeEdits.                                                           *)

(* Messages.                                                               *)

IsEdit(m) == m.kind \in {"apply", "reset"}
IsTurn(m) == m.kind \in {"open", "dispose", "opened", "disposed"}

\* An edit of the file in the window.
Live(m) == IsEdit(m) /\ m.intent.source = shown

\* An answer that comes with the record of the file in the window.
Tells(a) == Live(a) /\ a.status # "bare"
Accepts(a) == Live(a) /\ a.status = "accepted"

\* What an accepted edit makes of its text.
Outcome(m) == IF m.kind = "reset" THEN Source ELSE m.intent.value

-----------------------------------------------------------------------------
(* Types.                                                                  *)

Intent == [sequence : Nat \ {0}, value : Edits, source : Nat \ {0}]
Newest == [sequence : Nat, value : Edits,
           state : {"none", "pending", "failed", "accepted", "refused"}]
Record == [revision : Nat, edits : [Keys -> Edits], ready : BOOLEAN]
Player == [revision : Nat, edits : [Keys -> Edits], texts : [Keys -> Edits]]

Command ==
  [kind : {"apply", "reset"}, key : Keys, intent : Intent]
    \cup [kind : {"open"}, file : Nat \ {0}]
    \cup [kind : {"dispose", "revoke"}]

Reply ==
  [kind : {"apply", "reset"}, key : Keys, intent : Intent,
   status : {"accepted", "refused", "bare"}, model : Record]
    \cup [kind : {"opened"}, file : Nat \ {0},
          outcome : {"accepted", "failed", "unopened", "cancelled"}]
    \cup [kind : {"disposed"}]

EditsTypeOK ==
  /\ shown \in Nat /\ asked \in Nat /\ typed \in Nat
  /\ opening \in Nat /\ hosted \in Nat
  /\ view \in {"launch", "preview", "failed"}
  /\ model \in Record /\ edited \in Record
  /\ waiting \in BOOLEAN /\ closing \in BOOLEAN
  /\ intents \in [Keys -> Newest]
  /\ queues \in [Keys -> Seq(Intent)]
  /\ sent \in [Keys -> Nat]
  /\ mayHave \subseteq Keys /\ dropped \subseteq Keys
  /\ values \in [Keys -> [source : Nat, value : Edits \cup {None}]]
  /\ mounted \in Player \cup {NoPlayer}
  /\ toHost \in Seq(Command) /\ toWindow \in Seq(Reply)

-----------------------------------------------------------------------------
(* The inductive invariant.                                                *)

\* At most one open or closing is under way, and the window waits for it.
Turns ==
  /\ \A i, j \in DOMAIN toHost : IsTurn(toHost[i]) /\ IsTurn(toHost[j]) => i = j
  /\ \A i, j \in DOMAIN toWindow :
       IsTurn(toWindow[i]) /\ IsTurn(toWindow[j]) => i = j
  /\ \A i \in DOMAIN toHost, j \in DOMAIN toWindow :
       ~(IsTurn(toHost[i]) /\ IsTurn(toWindow[j]))
  /\ opening # 0 =>
       /\ waiting /\ opening = asked
       /\ \A i \in DOMAIN toHost : ~IsTurn(toHost[i])
       /\ \A i \in DOMAIN toWindow : ~IsTurn(toWindow[i])
  /\ \A i \in DOMAIN toHost :
       /\ toHost[i].kind = "open" => waiting /\ toHost[i].file = asked
       /\ toHost[i].kind = "dispose" => closing
  /\ \A i \in DOMAIN toWindow :
       /\ toWindow[i].kind = "opened" => waiting /\ toWindow[i].file = asked
       /\ toWindow[i].kind = "disposed" => closing
  /\ ~(waiting /\ closing)

\* Intents are numbered in the order they are typed, files in the order they
\* are asked for, and nothing was typed for a file that is only asked for.
TypedBy(n, t, a, w) == n.sequence <= t /\ n.source <= a /\ (w => n.source # a)

Typed(n) == TypedBy(n, typed, asked, waiting)

Counted ==
  /\ shown <= asked /\ hosted <= asked
  /\ waiting => shown # asked
  /\ waiting /\ hosted = asked => edited = Untouched
  /\ view = "preview" => shown # 0
  /\ \A k \in Keys : sent[k] <= typed /\ intents[k].sequence <= typed
  /\ \A i \in DOMAIN toHost : IsEdit(toHost[i]) => Typed(toHost[i].intent)
  /\ \A i \in DOMAIN toWindow : IsEdit(toWindow[i]) => Typed(toWindow[i].intent)

\* The queue of a text is in order and behind what was sent; the newest
\* intent is in it only while it is pending.
Queued ==
  \A k \in Keys :
    /\ \A i \in DOMAIN queues[k] :
         /\ Typed(queues[k][i])
         /\ sent[k] < queues[k][i].sequence
         /\ queues[k][i].sequence = intents[k].sequence =>
              /\ intents[k].state = "pending"
              /\ intents[k].value = queues[k][i].value
    /\ \A i, j \in DOMAIN queues[k] :
         i < j => queues[k][i].sequence < queues[k][j].sequence

\* Whatever is under way was typed before what waits for its text.
Behind ==
  \A k \in Keys : \A i \in DOMAIN queues[k] :
    /\ \A j \in DOMAIN toHost : IsEdit(toHost[j]) /\ toHost[j].key = k =>
         toHost[j].intent.sequence < queues[k][i].sequence
    /\ \A j \in DOMAIN toWindow : IsEdit(toWindow[j]) /\ toWindow[j].key = k =>
         toWindow[j].intent.sequence < queues[k][i].sequence

\* While a file is being closed nothing of it is left in the window, and
\* whatever was typed since is behind the disposal.
Current(m) == IsEdit(m) /\ IntentIsCurrent(m.key, m.intent)

DisposeSent == \E i \in DOMAIN toHost : toHost[i].kind = "dispose"
DisposeDone == \E i \in DOMAIN toWindow : toWindow[i].kind = "disposed"

Closings ==
  /\ closing =>
       /\ DisposeSent \/ DisposeDone
       /\ \A j \in DOMAIN toHost : Current(toHost[j]) =>
            \/ \E i \in DOMAIN toHost : i < j /\ toHost[i].kind = "dispose"
            \/ DisposeDone
       /\ \A j \in DOMAIN toWindow : Current(toWindow[j]) =>
            \E i \in DOMAIN toWindow : i < j /\ toWindow[i].kind = "disposed"
  /\ closing \/ shown = 0 =>
       mounted = NoPlayer /\ \A k \in Keys : values[k] = NoValue
  /\ NothingInherited

\* The file in the window is not being closed.
Showing == shown # 0 /\ ~closing

\* One command at most is under way for a text of the file in the window,
\* the one its chain waits for.
Awaited(m) == sent[m.key] = m.intent.sequence
Agrees(m) ==
  intents[m.key].sequence = m.intent.sequence => intents[m.key].value = Outcome(m)

Chained ==
  Showing =>
    /\ \A i \in DOMAIN toHost : IsEdit(toHost[i]) =>
         /\ Live(toHost[i]) <=> Awaited(toHost[i])
         /\ Live(toHost[i]) => Agrees(toHost[i])
    /\ \A i \in DOMAIN toWindow : IsEdit(toWindow[i]) =>
         /\ Live(toWindow[i]) <=> Awaited(toWindow[i])
         /\ Live(toWindow[i]) => Agrees(toWindow[i])
    /\ \A i, j \in DOMAIN toHost :
         Live(toHost[i]) /\ Live(toHost[j]) /\ toHost[i].key = toHost[j].key
         => i = j
    /\ \A i, j \in DOMAIN toWindow :
         Live(toWindow[i]) /\ Live(toWindow[j]) /\ toWindow[i].key = toWindow[j].key
         => i = j
    /\ \A i \in DOMAIN toHost, j \in DOMAIN toWindow :
         Live(toHost[i]) /\ Live(toWindow[j]) => toHost[i].key # toWindow[j].key

\* What was accepted is in the record of the session.
Kept ==
  Showing =>
    \A k \in Keys : intents[k].state = "accepted" =>
      /\ sent[k] = 0
      /\ hosted = shown => edited.edits[k] = intents[k].value

\* The records the window is told of are ever newer, and what is accepted
\* makes a new one; the first one has no edit.
Blank(r) == r.revision = 0 => \A k \in Keys : r.edits[k] = Source

Revisions ==
  /\ Blank(edited)
  /\ \A i \in DOMAIN toWindow : IsEdit(toWindow[i]) => Blank(toWindow[i].model)
  /\ Showing =>
       /\ \A i \in DOMAIN toWindow : Tells(toWindow[i]) =>
            /\ model.revision <= toWindow[i].model.revision
            /\ Accepts(toWindow[i]) => model.revision # toWindow[i].model.revision
            /\ hosted = shown => toWindow[i].model.revision <= edited.revision
       /\ \A i, j \in DOMAIN toWindow :
            i < j /\ Tells(toWindow[i]) /\ Tells(toWindow[j]) =>
              /\ toWindow[i].model.revision <= toWindow[j].model.revision
              /\ Accepts(toWindow[j]) =>
                   toWindow[i].model.revision # toWindow[j].model.revision
       /\ hosted = shown => model.revision <= edited.revision
       /\ mounted # NoPlayer => mounted.revision = model.revision
       /\ \A k \in Keys : values[k].value # None => model.revision # 0

\* What the window knows of a text, unless an accepted edit of it was dropped.
Known(k) == IF values[k].value # None THEN values[k].value ELSE Source

\* The record of the session, and every one on its way, has the edits the
\* window knows and those it is told of first; the player has those it knows.
RecordKnown ==
  hosted = shown =>
    /\ \A i \in DOMAIN toWindow : Accepts(toWindow[i]) =>
         edited.edits[toWindow[i].key] = Outcome(toWindow[i])
    /\ \A k \in Keys \ dropped :
         (\A i \in DOMAIN toWindow : Accepts(toWindow[i]) => toWindow[i].key # k)
         => edited.edits[k] = Known(k)

AnswersKnown ==
  /\ \A i, j \in DOMAIN toWindow :
       i <= j /\ Accepts(toWindow[i]) /\ Tells(toWindow[j]) =>
         toWindow[j].model.edits[toWindow[i].key] = Outcome(toWindow[i])
  /\ \A j \in DOMAIN toWindow : Tells(toWindow[j]) =>
       \A k \in Keys \ dropped :
         (\A i \in DOMAIN toWindow :
            i <= j /\ Accepts(toWindow[i]) => toWindow[i].key # k)
         => toWindow[j].model.edits[k] = Known(k)

PlayerKnown ==
  mounted # NoPlayer =>
    /\ \A k \in Keys \ dropped : mounted.texts[k] = Known(k)
    /\ mounted.revision = 0 => \A k \in Keys : mounted.texts[k] = Source

Knows == Showing => RecordKnown /\ AnswersKnown /\ PlayerKnown

Inv ==
  EditsTypeOK /\ Turns /\ Counted /\ Queued /\ Behind /\ Closings /\ Chained
    /\ Kept /\ Revisions /\ Knows

-----------------------------------------------------------------------------
(* Sequences.                                                              *)

LEMMA AppendAt ==
  ASSUME NEW S, NEW s \in Seq(S), NEW e \in S
  PROVE  /\ Append(s, e) \in Seq(S)
         /\ Len(s) \in Nat /\ DOMAIN s = 1 .. Len(s)
         /\ DOMAIN Append(s, e) = 1 .. (Len(s) + 1)
         /\ \A i \in DOMAIN s : Append(s, e)[i] = s[i] /\ i # Len(s) + 1
         /\ \A i \in DOMAIN Append(s, e) :
              i \in DOMAIN s \/ (i = Len(s) + 1 /\ Append(s, e)[i] = e)
  OBVIOUS

LEMMA TailAt ==
  ASSUME NEW S, NEW s \in Seq(S), s # <<>>
  PROVE  /\ Tail(s) \in Seq(S)
         /\ 1 \in DOMAIN s /\ Head(s) = s[1] /\ s[1] \in S
         /\ DOMAIN s \subseteq Nat \ {0}
         /\ \A i \in DOMAIN Tail(s) :
              i \in Nat \ {0} /\ i + 1 \in DOMAIN s /\ Tail(s)[i] = s[i + 1]
         /\ \A i \in DOMAIN s : i # 1 =>
              i - 1 \in DOMAIN Tail(s) /\ Tail(s)[i - 1] = s[i]
  OBVIOUS

-----------------------------------------------------------------------------
(* Types.                                                                  *)

LEMMA UntouchedType == Untouched \in Record /\ Blank(Untouched)
BY DEF Untouched, Record, Blank, Edits

LEMMA HeadType ==
  ASSUME EditsTypeOK, toHost # <<>>
  PROVE  /\ Head(toHost) \in Command
         /\ Head(toHost).kind = "open" => Head(toHost).file \in Nat \ {0}
         /\ Head(toHost).kind \in {"apply", "reset"} =>
              Head(toHost).key \in Keys /\ Head(toHost).intent \in Intent
BY TailAt DEF EditsTypeOK, Command

LEMMA AnswerType ==
  ASSUME EditsTypeOK, toWindow # <<>>
  PROVE  /\ Head(toWindow) \in Reply
         /\ Head(toWindow).kind = "opened" => Head(toWindow).file \in Nat \ {0}
         /\ Head(toWindow).kind \in {"apply", "reset"} =>
              /\ Head(toWindow).key \in Keys /\ Head(toWindow).intent \in Intent
              /\ Head(toWindow).model \in Record
              /\ Head(toWindow).status \in {"accepted", "refused", "bare"}
BY TailAt DEF EditsTypeOK, Reply

\* What the host makes of an edit: it is accepted, or changes nothing but
\* whether the file can be shown, or is declined.
HostEdits(m) ==
  /\ m.kind \in {"apply", "reset"}
  /\ \E status \in {"accepted", "refused", "bare"} :
       /\ toWindow' = Append(toWindow,
            [kind |-> m.kind, key |-> m.key, intent |-> m.intent,
             status |-> status, model |-> edited'])
       /\ \/ /\ status = "accepted" /\ m.intent.source = hosted
             /\ edited' = [revision |-> edited.revision + 1,
                           edits |-> [edited.edits EXCEPT ![m.key] = Outcome(m)],
                           ready |-> TRUE]
          \/ /\ status = "refused" /\ m.intent.source = hosted
             /\ edited'.revision = edited.revision
             /\ edited'.edits = edited.edits
          \/ /\ status = "bare"
             /\ edited' = edited
  /\ edited' \in Record
  /\ UNCHANGED <<opening, hosted>>

LEMMA HostEditsStep ==
  ASSUME EditsTypeOK, toHost # <<>>, NEW m, m = Head(toHost),
         (m.kind = "apply" /\ HostApplies(m)) \/ (m.kind = "reset" /\ HostResets(m)),
         UNCHANGED <<opening, hosted>>
  PROVE  HostEdits(m)
<1>1. m.key \in Keys /\ m.intent \in Intent /\ edited \in Record
  BY HeadType DEF EditsTypeOK
<1>2. CASE m.kind = "apply" /\ HostApplies(m)
  <2>1. CASE /\ m.intent.source = hosted
             /\ Accepted(m.key, m.intent.value) /\ Replies(m, "accepted")
    <3>1. edited' = [revision |-> edited.revision + 1,
                     edits |-> [edited.edits EXCEPT ![m.key] = Outcome(m)],
                     ready |-> TRUE]
      BY <1>2, <2>1 DEF Accepted, Outcome
    <3>2. Outcome(m) \in Edits /\ edited.revision \in Nat
          /\ edited.edits \in [Keys -> Edits]
      BY <1>1, <1>2 DEF Outcome, Intent, Record
    <3>3. edited' \in Record
      BY <3>1, <3>2, <1>1 DEF Record
    <3>4. QED
      BY <1>2, <2>1, <3>1, <3>3 DEF HostEdits, Replies
  <2>2. CASE /\ m.intent.source = hosted
             /\ UNCHANGED edited /\ Replies(m, "refused")
    BY <1>1, <1>2, <2>2 DEF HostEdits, Replies
  <2>3. CASE /\ m.intent.source = hosted
             /\ edited' = [edited EXCEPT !.ready = FALSE] /\ Replies(m, "refused")
    BY <1>1, <1>2, <2>3 DEF HostEdits, Replies, Record
  <2>4. CASE HostDeclines(m)
    BY <1>1, <1>2, <2>4 DEF HostDeclines, HostEdits, Replies
  <2>5. QED
    BY <1>2, <2>1, <2>2, <2>3, <2>4 DEF HostApplies
<1>3. CASE m.kind = "reset" /\ HostResets(m)
  <2>1. CASE m.intent.source = hosted /\ UNCHANGED edited /\ Replies(m, "refused")
    BY <1>1, <1>3, <2>1 DEF HostEdits, Replies
  <2>2. CASE m.intent.source = hosted /\ Accepted(m.key, Source) /\ Replies(m, "accepted")
    <3>1. edited' = [revision |-> edited.revision + 1,
                     edits |-> [edited.edits EXCEPT ![m.key] = Outcome(m)],
                     ready |-> TRUE]
      BY <1>3, <2>2 DEF Accepted, Outcome
    <3>2. Outcome(m) \in Edits /\ edited.revision \in Nat
          /\ edited.edits \in [Keys -> Edits]
      BY <1>1, <1>3 DEF Outcome, Edits, Record
    <3>3. edited' \in Record
      BY <3>1, <3>2, <1>1 DEF Record
    <3>4. QED
      BY <1>3, <2>2, <3>1, <3>3 DEF HostEdits, Replies
  <2>3. CASE /\ m.intent.source = hosted /\ Replies(m, "refused")
             /\ \E ready \in BOOLEAN : edited' = [edited EXCEPT !.ready = ready]
    BY <1>1, <1>3, <2>3 DEF HostEdits, Replies, Record
  <2>4. CASE HostDeclines(m)
    BY <1>1, <1>3, <2>4 DEF HostDeclines, HostEdits, Replies
  <2>5. QED
    BY <1>3, <2>1, <2>2, <2>3, <2>4 DEF HostResets
<1>4. QED
  BY <1>2, <1>3

LEMMA InitType == EditsInit => EditsTypeOK
<1> SUFFICES ASSUME EditsInit PROVE EditsTypeOK
  OBVIOUS
<1>1. NoIntent \in Newest
      /\ NoValue \in [source : Nat, value : Edits \cup {None}]
  BY DEF NoIntent, NoValue, Edits, Newest
<1>2. <<>> \in Seq(Intent) /\ <<>> \in Seq(Command) /\ <<>> \in Seq(Reply)
  OBVIOUS
<1>3. QED
  BY <1>1, <1>2, UntouchedType DEF EditsInit, EditsTypeOK

\* What a message of each kind is.
LEMMA MessageTypes ==
  /\ \A f \in Nat \ {0} : [kind |-> "open", file |-> f] \in Command
  /\ [kind |-> "dispose"] \in Command /\ [kind |-> "revoke"] \in Command
  /\ \A k \in Keys, n \in Intent : \A kind \in {"apply", "reset"} :
       [kind |-> kind, key |-> k, intent |-> n] \in Command
  /\ [kind |-> "disposed"] \in Reply
  /\ \A f \in Nat \ {0} :
       \A outcome \in {"accepted", "failed", "unopened", "cancelled"} :
         [kind |-> "opened", file |-> f, outcome |-> outcome] \in Reply
  /\ \A k \in Keys, n \in Intent, r \in Record :
       \A kind \in {"apply", "reset"} :
         \A status \in {"accepted", "refused", "bare"} :
           [kind |-> kind, key |-> k, intent |-> n, status |-> status,
            model |-> r] \in Reply
BY DEF Command, Reply

LEMMA InvalidateType ==
  ASSUME EditsTypeOK, Invalidate
  PROVE  /\ intents' \in [Keys -> Newest]
         /\ queues' \in [Keys -> Seq(Intent)]
         /\ sent' \in [Keys -> Nat]
         /\ mayHave' \subseteq Keys /\ dropped' \subseteq Keys
         /\ values' \in [Keys -> [source : Nat, value : Edits \cup {None}]]
         /\ typed' = typed
BY DEF EditsTypeOK, Invalidate, NoIntent, NoValue, Edits, Newest

\* The player is what it was, none, or one for the model.
LEMMA MountType ==
  ASSUME EditsTypeOK, NEW m \in Record,
         NEW known \in [Keys -> [source : Nat, value : Edits \cup {None}]],
         MountRuntimePreview(m, known)
  PROVE  mounted' \in Player \cup {NoPlayer}
<1>1. Payload(m, known) \in [Keys -> Edits]
  BY DEF Payload, Record
<1>2. m.revision \in Nat /\ m.edits \in [Keys -> Edits]
  BY DEF Record
<1>3. [revision |-> m.revision, edits |-> m.edits, texts |-> Payload(m, known)]
        \in Player
  BY <1>1, <1>2 DEF Player
<1>4. mounted \in Player \cup {NoPlayer}
  BY DEF EditsTypeOK
<1>5. QED
  BY <1>3, <1>4 DEF MountRuntimePreview

LEMMA AskOpenType == EditsTypeOK /\ AskOpen => EditsTypeOK'
<1> SUFFICES ASSUME EditsTypeOK, AskOpen PROVE EditsTypeOK'
  OBVIOUS
<1>1. asked + 1 \in Nat \ {0}
  BY DEF EditsTypeOK
<1>2. Append(toHost, [kind |-> "open", file |-> asked + 1]) \in Seq(Command)
  BY <1>1, MessageTypes, AppendAt DEF EditsTypeOK
<1>3. QED
  BY <1>1, <1>2 DEF EditsTypeOK, AskOpen, intentVars, hostVars

LEMMA CloseFileType == EditsTypeOK /\ CloseFile => EditsTypeOK'
<1> SUFFICES ASSUME EditsTypeOK, CloseFile PROVE EditsTypeOK'
  OBVIOUS
<1>1. Append(toHost, [kind |-> "dispose"]) \in Seq(Command)
  BY MessageTypes, AppendAt DEF EditsTypeOK
<1>2. QED
  BY <1>1, InvalidateType DEF EditsTypeOK, CloseFile, hostVars

LEMMA ShowPreviewType == EditsTypeOK /\ ShowPreview => EditsTypeOK'
BY DEF EditsTypeOK, ShowPreview, intentVars, hostVars

LEMMA UpdateType ==
  ASSUME EditsTypeOK, view = "preview" => shown # 0,
         NEW k \in Keys, NEW v \in Edits, UpdateRuntimeText(k, v)
  PROVE  EditsTypeOK'
<1>1. [sequence |-> typed + 1, value |-> v, source |-> shown] \in Intent
  BY DEF EditsTypeOK, UpdateRuntimeText, Intent
<1>2. Append(queues[k], [sequence |-> typed + 1, value |-> v, source |-> shown])
        \in Seq(Intent)
  BY <1>1, AppendAt DEF EditsTypeOK
<1>3. queues' \in [Keys -> Seq(Intent)]
  BY <1>2 DEF EditsTypeOK, UpdateRuntimeText
<1>4. intents' \in [Keys -> Newest]
  BY DEF EditsTypeOK, UpdateRuntimeText, Newest
<1>5. QED
  BY <1>3, <1>4 DEF EditsTypeOK, UpdateRuntimeText, windowVars, hostVars

\* An intent is taken from its queue: it is out of date, needs no reset the
\* window knows of, or is sent.
Applied(k, n) ==
  /\ sent[k] = 0 /\ queues[k] # <<>> /\ n = queues[k][1]
  /\ Tail(queues[k]) \in Seq(Intent)
  /\ queues' = [queues EXCEPT ![k] = Tail(queues[k])]
  /\ \/ UNCHANGED <<intents, sent, mayHave, view, mounted, toHost>>
     \/ /\ IntentIsCurrent(k, n)
        /\ view' = "failed" /\ mounted' = NoPlayer
        /\ intents' = [intents EXCEPT ![k].state = "failed"]
        /\ UNCHANGED <<sent, mayHave, toHost>>
     \/ /\ IntentIsCurrent(k, n)
        /\ \E kind \in {"apply", "reset"} :
             /\ kind = "reset" <=> n.value = Source
             /\ toHost' = Append(toHost, [kind |-> kind, key |-> k, intent |-> n])
        /\ sent' = [sent EXCEPT ![k] = n.sequence]
        /\ mayHave' \subseteq Keys
        /\ UNCHANGED <<intents, view, mounted>>
  /\ UNCHANGED <<typed, values, shown, model, asked, waiting, closing,
                 hostVars, toWindow, dropped>>

LEMMA ApplyIntentStep ==
  ASSUME EditsTypeOK, NEW k \in Keys, ApplyIntent(k)
  PROVE  \E n \in Intent : Applied(k, n)
<1>1. queues[k] \in Seq(Intent) /\ queues[k] # <<>>
  BY DEF EditsTypeOK, ApplyIntent
<1>2. /\ Head(queues[k]) \in Intent /\ Head(queues[k]) = queues[k][1]
      /\ Tail(queues[k]) \in Seq(Intent)
  BY <1>1, TailAt
<1>3. mayHave \subseteq Keys
  BY DEF EditsTypeOK
<1> DEFINE n == Head(queues[k])
<1>4. CASE /\ ~IntentIsCurrent(k, n)
           /\ UNCHANGED <<intents, sent, mayHave, view, mounted, toHost>>
  BY <1>1, <1>2, <1>4 DEF Applied, ApplyIntent
<1>5. CASE /\ IntentIsCurrent(k, n) /\ n.value = Source /\ UNCHANGED mayHave
           /\ IF k \in mayHave THEN Send(k, n, "reset")
              ELSE ResetNotKnownToBeNeeded(k, n)
  BY <1>1, <1>2, <1>3, <1>5
  DEF Applied, ApplyIntent, Send, ResetNotKnownToBeNeeded, ShowFailure, Ended
<1>6. CASE /\ IntentIsCurrent(k, n) /\ n.value # Source
           /\ mayHave' = mayHave \cup {k} /\ Send(k, n, "apply")
  BY <1>1, <1>2, <1>3, <1>6 DEF Applied, ApplyIntent, Send
<1>7. QED
  BY <1>4, <1>5, <1>6 DEF ApplyIntent

LEMMA ApplyIntentType ==
  ASSUME EditsTypeOK, NEW k \in Keys, NEW n \in Intent, Applied(k, n)
  PROVE  EditsTypeOK'
<1>1. queues' \in [Keys -> Seq(Intent)]
  BY DEF EditsTypeOK, Applied
<1>2. n.sequence \in Nat
  BY DEF Intent
<1>3. toHost' \in Seq(Command)
  <2>1. CASE UNCHANGED toHost
    BY <2>1 DEF EditsTypeOK
  <2>2. CASE \E kind \in {"apply", "reset"} :
               toHost' = Append(toHost, [kind |-> kind, key |-> k, intent |-> n])
    <3>1. PICK kind \in {"apply", "reset"} :
             toHost' = Append(toHost, [kind |-> kind, key |-> k, intent |-> n])
      BY <2>2
    <3>2. [kind |-> kind, key |-> k, intent |-> n] \in Command
      BY DEF Command
    <3>3. QED
      BY <3>1, <3>2, AppendAt DEF EditsTypeOK
  <2>3. QED
    BY <2>1, <2>2 DEF Applied
<1>4. intents' \in [Keys -> Newest]
  <2>1. [intents[k] EXCEPT !.state = "failed"] \in Newest
    <3>1. intents[k] \in Newest
      BY DEF EditsTypeOK
    <3>2. QED
      BY <3>1 DEF Newest
  <2>2. CASE intents' = [intents EXCEPT ![k].state = "failed"]
    BY <2>1, <2>2 DEF EditsTypeOK
  <2>3. CASE UNCHANGED intents
    BY <2>3 DEF EditsTypeOK
  <2>4. QED
    BY <2>2, <2>3 DEF Applied
<1>5. sent' \in [Keys -> Nat] /\ mayHave' \subseteq Keys
  BY <1>2 DEF EditsTypeOK, Applied
<1>6. view' \in {"launch", "preview", "failed"} /\ mounted' \in Player \cup {NoPlayer}
  BY DEF EditsTypeOK, Applied
<1>7. QED
  BY <1>1, <1>3, <1>4, <1>5, <1>6 DEF EditsTypeOK, Applied, hostVars

LEMMA HostTakesType == EditsTypeOK /\ HostTakes => EditsTypeOK'
<1> SUFFICES ASSUME EditsTypeOK, HostTakes PROVE EditsTypeOK'
  OBVIOUS
<1> DEFINE m == Head(toHost)
<1>1. toHost # <<>> /\ toHost' \in Seq(Command)
  BY TailAt DEF HostTakes, EditsTypeOK
<1>2. UNCHANGED <<intentVars, windowVars, dropped>>
  BY DEF HostTakes
<1>3. CASE HostEdits(m)
  <2>1. toWindow' \in Seq(Reply)
    <3>1. PICK status \in {"accepted", "refused", "bare"} :
             toWindow' = Append(toWindow,
               [kind |-> m.kind, key |-> m.key, intent |-> m.intent,
                status |-> status, model |-> edited'])
      BY <1>3 DEF HostEdits
    <3>2. /\ edited' \in Record /\ m.key \in Keys /\ m.intent \in Intent
          /\ m.kind \in {"apply", "reset"}
      BY <1>1, <1>3, HeadType DEF HostEdits
    <3>3. [kind |-> m.kind, key |-> m.key, intent |-> m.intent,
           status |-> status, model |-> edited'] \in Reply
      BY <3>2 DEF Reply
    <3>4. QED
      BY <3>1, <3>3, AppendAt DEF EditsTypeOK
  <2>2. QED
    BY <1>1, <1>2, <1>3, <2>1 DEF EditsTypeOK, HostEdits, intentVars, windowVars
<1>4. CASE m.kind = "open" /\ opening' = m.file /\ UNCHANGED <<hosted, edited, toWindow>>
  BY <1>1, <1>2, <1>4, HeadType DEF EditsTypeOK, intentVars, windowVars
<1>5. CASE /\ hosted' = 0 /\ edited' = Untouched /\ UNCHANGED opening
           /\ toWindow' = IF m.kind = "revoke" THEN toWindow
                          ELSE Append(toWindow, [kind |-> "disposed"])
  <2>1. toWindow' \in Seq(Reply)
    BY <1>5, MessageTypes, AppendAt DEF EditsTypeOK
  <2>2. QED
    BY <1>1, <1>2, <1>5, <2>1, UntouchedType DEF EditsTypeOK, intentVars, windowVars
<1>6. QED
  BY <1>1, <1>3, <1>4, <1>5, HostEditsStep DEF HostTakes

LEMMA HostOpensType == EditsTypeOK /\ HostOpens => EditsTypeOK'
<1> SUFFICES ASSUME EditsTypeOK, HostOpens PROVE EditsTypeOK'
  OBVIOUS
<1>1. PICK outcome \in {"accepted", "failed", "unopened", "cancelled"} :
        /\ hosted' = CASE outcome = "accepted" -> opening
                       [] outcome = "failed" -> 0
                       [] OTHER -> hosted
        /\ edited' = IF outcome \in {"accepted", "failed"} THEN Untouched ELSE edited
        /\ toWindow' = Append(toWindow, [kind |-> "opened", file |-> opening,
                                         outcome |-> outcome])
  BY DEF HostOpens
<1>2. opening \in Nat \ {0}
  BY DEF EditsTypeOK, HostOpens
<1>3. toWindow' \in Seq(Reply)
  BY <1>1, <1>2, MessageTypes, AppendAt DEF EditsTypeOK
<1>4. hosted' \in Nat /\ edited' \in Record
  BY <1>1, UntouchedType DEF EditsTypeOK
<1>5. QED
  BY <1>3, <1>4 DEF EditsTypeOK, HostOpens, intentVars, windowVars

LEMMA TakeOpenedType ==
  ASSUME EditsTypeOK, WindowTakes, TakeOpened(Head(toWindow))
  PROVE  EditsTypeOK'
<1> DEFINE a == Head(toWindow)
<1>1. /\ toWindow' \in Seq(Reply) /\ a.file \in Nat \ {0}
      /\ a.kind = "opened" /\ waiting' = FALSE
      /\ UNCHANGED <<asked, hostVars, closing>>
  BY AnswerType, TailAt DEF WindowTakes, EditsTypeOK, TakeOpened
<1>2. CASE TakeAcceptedOpen(a) /\ UNCHANGED toHost
  <2>1. /\ values' \in [Keys -> [source : Nat, value : Edits \cup {None}]]
        /\ Untouched \in Record
    BY <1>2, InvalidateType, UntouchedType DEF TakeAcceptedOpen
  <2>2. \A known \in [Keys -> [source : Nat, value : Edits \cup {None}]] :
          MountRuntimePreview(Untouched, known) => mounted' \in Player \cup {NoPlayer}
    BY MountType, <2>1
  <2>3. mounted' \in Player \cup {NoPlayer} /\ model' = Untouched /\ view' = "preview"
    BY <1>2, <2>1, <2>2 DEF TakeAcceptedOpen, ApplyHostResult
  <2>4. QED
    BY <1>1, <1>2, <2>1, <2>3, InvalidateType
    DEF EditsTypeOK, TakeAcceptedOpen, hostVars
<1>3. CASE Revoke
  <2>1. toHost' \in Seq(Command)
    BY <1>3, MessageTypes, AppendAt DEF EditsTypeOK, Revoke
  <2>2. QED
    BY <1>1, <1>3, <2>1, InvalidateType, UntouchedType DEF EditsTypeOK, Revoke, hostVars
<1>4. CASE StayInPreview
  BY <1>1, <1>4 DEF EditsTypeOK, StayInPreview, intentVars, hostVars
<1>5. CASE UNCHANGED <<intentVars, shown, view, model, mounted, toHost, dropped>>
  BY <1>1, <1>5 DEF EditsTypeOK, intentVars, hostVars
<1>6. QED
  BY <1>2, <1>3, <1>4, <1>5 DEF TakeOpened

LEMMA TakeDisposedType ==
  ASSUME EditsTypeOK, WindowTakes, TakeDisposed(Head(toWindow))
  PROVE  EditsTypeOK'
<1>1. toWindow' \in Seq(Reply)
  BY TailAt DEF WindowTakes, EditsTypeOK
<1>2. QED
  BY <1>1, UntouchedType
  DEF WindowTakes, TakeDisposed, EditsTypeOK, intentVars, hostVars

\* An answer to an edit: it is late, of no use, or taken in.
Took(k, a) ==
  /\ toWindow # <<>> /\ a = toWindow[1] /\ toWindow' = Tail(toWindow)
  /\ k \in Keys /\ k = a.key /\ a.kind \in {"apply", "reset"} /\ a \in Reply
  /\ a.intent \in Intent /\ a.model \in Record
  /\ a.status \in {"accepted", "refused", "bare"}
  /\ sent' = [sent EXCEPT ![k] = IF @ = a.intent.sequence THEN 0 ELSE @]
  /\ mayHave' \subseteq Keys
  /\ UNCHANGED <<typed, queues, shown, waiting, closing, toHost, asked, hostVars>>

Failed(k, a) ==
  /\ IntentIsCurrent(k, a.intent)
  /\ view' = "failed" /\ mounted' = NoPlayer
  /\ intents' = [intents EXCEPT ![k].state = "failed"]
  /\ dropped' = IF a.status = "accepted" THEN dropped \cup {k} ELSE dropped
  /\ UNCHANGED <<values, model>>

Result(k, a) ==
  /\ IntentIsCurrent(k, a.intent)
  /\ a.status \in {"accepted", "refused"}
  /\ intents' = [intents EXCEPT ![k].state = a.status]
  /\ values' = IF a.status # "accepted" THEN values
               ELSE [values EXCEPT ![k] =
                       IF a.kind = "reset" THEN NoValue
                       ELSE [source |-> shown, value |-> a.intent.value]]
  /\ dropped' = IF a.status = "accepted" THEN dropped \ {k} ELSE dropped
  /\ model' = a.model /\ view' = "preview"
  /\ MountRuntimePreview(a.model, values')

LEMMA TakeEditedStep ==
  ASSUME EditsTypeOK, WindowTakes, TakeEdited(Head(toWindow))
  PROVE  \E k \in Keys, a \in Reply :
           /\ Took(k, a)
           /\ TakeLate(k, a) \/ Failed(k, a) \/ Result(k, a)
<1> DEFINE a == Head(toWindow)
           k == a.key
<1>1. /\ toWindow # <<>> /\ toWindow' = Tail(toWindow) /\ a = toWindow[1]
      /\ UNCHANGED <<asked, hostVars>>
  BY TailAt DEF WindowTakes, EditsTypeOK
<1>2. /\ a \in Reply /\ a.kind \in {"apply", "reset"} /\ k \in Keys
      /\ a.intent \in Intent /\ a.model \in Record
      /\ a.status \in {"accepted", "refused", "bare"}
  BY <1>1, AnswerType DEF TakeEdited
<1>3. /\ sent' = [sent EXCEPT ![k] = IF @ = a.intent.sequence THEN 0 ELSE @]
      /\ UNCHANGED <<typed, queues, shown, waiting, closing, toHost>>
  BY DEF TakeEdited, ChainContinues
<1>4. mayHave' \subseteq Keys
  BY DEF EditsTypeOK, TakeEdited, TakeLate
<1>5. Took(k, a)
  BY <1>1, <1>2, <1>3, <1>4 DEF Took
<1>6. CASE TakeLate(k, a)
  BY <1>2, <1>5, <1>6
<1>7. CASE IntentIsCurrent(k, a.intent) /\ TakeFailure(k, a)
  <2>1. Failed(k, a)
    BY <1>7 DEF Failed, TakeFailure, ShowFailure, Ended
  <2>2. QED
    BY <1>2, <1>5, <2>1
<1>8. CASE IntentIsCurrent(k, a.intent) /\ ~IsUnusable(a) /\ TakeResult(k, a)
  <2>1. a.status \in {"accepted", "refused"}
    BY <1>2, <1>8 DEF IsUnusable
  <2>2. Result(k, a)
    BY <1>8, <2>1 DEF Result, TakeResult, Ended, ApplyHostResult
  <2>3. QED
    BY <1>2, <1>5, <2>2
<1>9. QED
  BY <1>6, <1>7, <1>8 DEF TakeEdited

LEMMA TookType ==
  ASSUME EditsTypeOK, NEW k, NEW a, Took(k, a)
  PROVE  /\ toWindow' \in Seq(Reply) /\ sent' \in [Keys -> Nat]
         /\ mayHave' \subseteq Keys
<1>1. toWindow' \in Seq(Reply)
  BY TailAt DEF EditsTypeOK, Took
<1>2. sent' \in [Keys -> Nat]
  BY DEF EditsTypeOK, Took
<1>3. QED
  BY <1>1, <1>2 DEF Took

LEMMA EndedType ==
  ASSUME EditsTypeOK, NEW k \in Keys,
         NEW how \in {"none", "pending", "failed", "accepted", "refused"},
         intents' = [intents EXCEPT ![k].state = how]
  PROVE  intents' \in [Keys -> Newest]
<1>1. intents[k] \in Newest
  BY DEF EditsTypeOK
<1>2. [intents[k] EXCEPT !.state = how] \in Newest
  BY <1>1 DEF Newest
<1>3. QED
  BY <1>2 DEF EditsTypeOK

LEMMA LateType ==
  ASSUME EditsTypeOK, NEW k, NEW a, Took(k, a), TakeLate(k, a)
  PROVE  EditsTypeOK'
<1>1. dropped' \subseteq Keys
  BY DEF EditsTypeOK, Took, TakeLate
<1>2. QED
  BY <1>1, TookType DEF EditsTypeOK, Took, TakeLate, hostVars

LEMMA FailedType ==
  ASSUME EditsTypeOK, NEW k, NEW a, Took(k, a), Failed(k, a)
  PROVE  EditsTypeOK'
<1>1. dropped' \subseteq Keys /\ k \in Keys
  BY DEF EditsTypeOK, Took, Failed
<1>2. intents' \in [Keys -> Newest]
  BY <1>1, EndedType DEF Failed
<1>3. QED
  BY <1>1, <1>2, TookType DEF EditsTypeOK, Took, Failed, hostVars

LEMMA ResultType ==
  ASSUME EditsTypeOK, NEW k, NEW a, Took(k, a), Result(k, a)
  PROVE  EditsTypeOK'
<1>1. dropped' \subseteq Keys /\ k \in Keys /\ a.model \in Record
  BY DEF EditsTypeOK, Took, Result
<1>2. intents' \in [Keys -> Newest]
  BY <1>1, EndedType DEF Result
<1>3. values' \in [Keys -> [source : Nat, value : Edits \cup {None}]]
  <2>1. NoValue \in [source : Nat, value : Edits \cup {None}]
    BY DEF NoValue
  <2>2. [source |-> shown, value |-> a.intent.value]
          \in [source : Nat, value : Edits \cup {None}]
    BY DEF EditsTypeOK, Took, Intent
  <2>3. QED
    BY <1>1, <2>1, <2>2 DEF EditsTypeOK, Result
<1>4. mounted' \in Player \cup {NoPlayer}
  <2>1. \A known \in [Keys -> [source : Nat, value : Edits \cup {None}]] :
          MountRuntimePreview(a.model, known) => mounted' \in Player \cup {NoPlayer}
    BY <1>1, MountType
  <2>2. QED
    BY <1>3, <2>1 DEF Result
<1>5. QED
  BY <1>1, <1>2, <1>3, <1>4, TookType DEF EditsTypeOK, Took, Result, hostVars

-----------------------------------------------------------------------------
(* One turn.                                                               *)

LEMMA NoTurnAtRest ==
  ASSUME EditsTypeOK, Turns, ~waiting, ~closing
  PROVE  /\ opening = 0
         /\ \A i \in DOMAIN toHost : ~IsTurn(toHost[i])
         /\ \A i \in DOMAIN toWindow : ~IsTurn(toWindow[i])
<1>1. \A i \in DOMAIN toHost : toHost[i] \in Command
  BY DEF EditsTypeOK
<1>2. \A i \in DOMAIN toWindow : toWindow[i] \in Reply
  BY DEF EditsTypeOK
<1>3. \A i \in DOMAIN toHost :
        toHost[i].kind \in {"apply", "reset", "open", "dispose", "revoke"}
  BY <1>1 DEF Command
<1>4. \A i \in DOMAIN toWindow :
        toWindow[i].kind \in {"apply", "reset", "opened", "disposed"}
  BY <1>2 DEF Reply
<1>5. QED
  BY <1>3, <1>4 DEF Turns, IsTurn

LEMMA InitTurns == EditsInit => Turns
BY DEF EditsInit, Turns

LEMMA AskOpenTurns == EditsTypeOK /\ Turns /\ AskOpen => Turns'
<1> SUFFICES ASSUME EditsTypeOK, Turns, AskOpen PROVE Turns'
  OBVIOUS
<1> DEFINE e == [kind |-> "open", file |-> asked + 1]
<1>1. /\ toHost' = Append(toHost, e) /\ waiting' = TRUE /\ closing' = FALSE
      /\ opening' = 0 /\ asked' = asked + 1 /\ toWindow' = toWindow
  BY NoTurnAtRest DEF AskOpen, hostVars, EditsTypeOK
<1>2. /\ \A i \in DOMAIN toHost : ~IsTurn(toHost[i])
      /\ \A i \in DOMAIN toWindow : ~IsTurn(toWindow[i])
  BY NoTurnAtRest DEF AskOpen
<1>3. \A i \in DOMAIN toHost' :
        (~IsTurn(toHost'[i])) \/ (i = Len(toHost) + 1 /\ toHost'[i] = e)
  <2>1. e \in Command /\ toHost \in Seq(Command)
    BY MessageTypes DEF EditsTypeOK
  <2>2. QED
    BY <1>1, <1>2, <2>1, AppendAt DEF IsTurn
<1>4. QED
  BY <1>1, <1>2, <1>3 DEF Turns, IsTurn

LEMMA CloseFileTurns == EditsTypeOK /\ Turns /\ CloseFile => Turns'
<1> SUFFICES ASSUME EditsTypeOK, Turns, CloseFile PROVE Turns'
  OBVIOUS
<1> DEFINE e == [kind |-> "dispose"]
<1>1. /\ toHost' = Append(toHost, e) /\ closing' = TRUE /\ waiting' = FALSE
      /\ opening' = 0 /\ toWindow' = toWindow
  BY NoTurnAtRest DEF CloseFile, hostVars, EditsTypeOK
<1>2. /\ \A i \in DOMAIN toHost : ~IsTurn(toHost[i])
      /\ \A i \in DOMAIN toWindow : ~IsTurn(toWindow[i])
  BY NoTurnAtRest DEF CloseFile
<1>3. \A i \in DOMAIN toHost' :
        (~IsTurn(toHost'[i])) \/ (i = Len(toHost) + 1 /\ toHost'[i] = e)
  <2>1. e \in Command /\ toHost \in Seq(Command)
    BY MessageTypes DEF EditsTypeOK
  <2>2. QED
    BY <1>1, <1>2, <2>1, AppendAt DEF IsTurn
<1>4. QED
  BY <1>1, <1>2, <1>3 DEF Turns, IsTurn

\* What is no turn can be sent at any time.
LEMMA SendTurns ==
  ASSUME EditsTypeOK, Turns, NEW e \in Command, ~IsTurn(e),
         toHost' = Append(toHost, e),
         UNCHANGED <<toWindow, opening, asked, waiting, closing>>
  PROVE  Turns'
<1>1. \A i \in DOMAIN toHost' :
        \/ i \in DOMAIN toHost /\ toHost'[i] = toHost[i]
        \/ ~IsTurn(toHost'[i])
  BY AppendAt DEF EditsTypeOK
<1>2. QED
  BY <1>1 DEF Turns, IsTurn

LEMMA ApplyIntentTurns ==
  ASSUME EditsTypeOK, Turns, NEW k \in Keys, NEW n \in Intent, Applied(k, n)
  PROVE  Turns'
<1>1. UNCHANGED <<toWindow, opening, asked, waiting, closing>>
  BY DEF Applied, hostVars
<1>2. CASE UNCHANGED toHost
  BY <1>1, <1>2 DEF Turns, IsTurn
<1>3. CASE \E kind \in {"apply", "reset"} :
             toHost' = Append(toHost, [kind |-> kind, key |-> k, intent |-> n])
  <2>1. PICK kind \in {"apply", "reset"} :
           toHost' = Append(toHost, [kind |-> kind, key |-> k, intent |-> n])
    BY <1>3
  <2>2. ~IsTurn([kind |-> kind, key |-> k, intent |-> n])
    BY DEF IsTurn
  <2>3. [kind |-> kind, key |-> k, intent |-> n] \in Command
    BY MessageTypes
  <2>4. QED
    BY <1>1, <2>1, <2>2, <2>3, SendTurns
<1>4. QED
  BY <1>2, <1>3 DEF Applied

\* The places of the channel to the host move up by one.
LEMMA HostTail ==
  ASSUME EditsTypeOK, HostTakes
  PROVE  /\ 1 \in DOMAIN toHost /\ Head(toHost) = toHost[1]
         /\ \A i \in DOMAIN toHost' :
              /\ i \in Nat \ {0} /\ i + 1 \in DOMAIN toHost /\ i + 1 # 1
              /\ toHost'[i] = toHost[i + 1]
         /\ \A i \in DOMAIN toHost : i # 1 =>
              i \in Nat \ {0} /\ i - 1 \in DOMAIN toHost' /\ toHost'[i - 1] = toHost[i]
BY TailAt DEF EditsTypeOK, HostTakes

LEMMA HostEditsTurns ==
  ASSUME EditsTypeOK, Turns, HostTakes, HostEdits(Head(toHost))
  PROVE  Turns'
<1> DEFINE m == Head(toHost)
<1>1. PICK status \in {"accepted", "refused", "bare"} :
        toWindow' = Append(toWindow,
           [kind |-> m.kind, key |-> m.key, intent |-> m.intent,
            status |-> status, model |-> edited'])
  BY DEF HostEdits
<1> DEFINE a == [kind |-> m.kind, key |-> m.key, intent |-> m.intent,
                 status |-> status, model |-> edited']
<1>2. a \in Reply /\ ~IsTurn(a)
  BY HeadType, MessageTypes DEF HostEdits, HostTakes, IsTurn
<1>3. \A i \in DOMAIN toWindow' :
        \/ i \in DOMAIN toWindow /\ toWindow'[i] = toWindow[i]
        \/ ~IsTurn(toWindow'[i])
  BY <1>1, <1>2, AppendAt DEF EditsTypeOK
<1>4. UNCHANGED <<opening, waiting, closing, asked>>
  BY DEF HostEdits, HostTakes, windowVars
<1>5. QED
  BY <1>3, <1>4, HostTail DEF Turns, IsTurn

LEMMA HostBeginsTurns ==
  ASSUME EditsTypeOK, Turns, HostTakes, Head(toHost).kind = "open",
         opening' = Head(toHost).file, UNCHANGED toWindow
  PROVE  Turns'
<1>1. IsTurn(toHost[1]) /\ opening' = asked /\ waiting
  BY HostTail DEF Turns, IsTurn
<1>2. UNCHANGED <<waiting, closing, asked, toWindow>>
  BY DEF HostTakes, windowVars
<1>3. /\ \A i \in DOMAIN toHost' : ~IsTurn(toHost'[i])
      /\ \A i \in DOMAIN toWindow' : ~IsTurn(toWindow'[i])
  BY <1>1, <1>2, HostTail DEF Turns, IsTurn
<1>4. QED
  BY <1>1, <1>2, <1>3, HostTail DEF Turns, IsTurn

LEMMA HostDisposesTurns ==
  ASSUME EditsTypeOK, Turns, HostTakes, Head(toHost).kind \in {"dispose", "revoke"},
         UNCHANGED opening,
         toWindow' = IF Head(toHost).kind = "revoke" THEN toWindow
                     ELSE Append(toWindow, [kind |-> "disposed"])
  PROVE  Turns'
<1>1. UNCHANGED <<opening, waiting, closing, asked>>
  BY DEF HostTakes, windowVars
<1>2. CASE Head(toHost).kind = "revoke"
  BY <1>1, <1>2, HostTail DEF Turns, IsTurn
<1>3. CASE Head(toHost).kind = "dispose"
  <2>1. IsTurn(toHost[1]) /\ closing
    BY <1>3, HostTail DEF Turns, IsTurn
  <2>2. /\ \A i \in DOMAIN toHost' : ~IsTurn(toHost'[i])
        /\ \A i \in DOMAIN toWindow : ~IsTurn(toWindow[i])
        /\ opening = 0
    BY <2>1, HostTail DEF Turns, IsTurn
  <2>3. \A i \in DOMAIN toWindow' :
          \/ ~IsTurn(toWindow'[i])
          \/ i = Len(toWindow) + 1 /\ toWindow'[i] = [kind |-> "disposed"]
    <3>1. toWindow' = Append(toWindow, [kind |-> "disposed"])
      BY <1>3
    <3>2. QED
      BY <2>2, <3>1, MessageTypes, AppendAt DEF EditsTypeOK
  <2>4. QED
    BY <1>1, <2>1, <2>2, <2>3 DEF Turns, IsTurn
<1>4. QED
  BY <1>2, <1>3

LEMMA HostOpensTurns == EditsTypeOK /\ Turns /\ HostOpens => Turns'
<1> SUFFICES ASSUME EditsTypeOK, Turns, HostOpens PROVE Turns'
  OBVIOUS
<1>1. PICK outcome \in {"accepted", "failed", "unopened", "cancelled"} :
        toWindow' = Append(toWindow, [kind |-> "opened", file |-> opening,
                                         outcome |-> outcome])
  BY DEF HostOpens
<1> DEFINE e == [kind |-> "opened", file |-> opening, outcome |-> outcome]
<1>2. /\ opening \in Nat \ {0} /\ opening = asked /\ waiting /\ ~closing
      /\ \A i \in DOMAIN toHost : ~IsTurn(toHost[i])
      /\ \A i \in DOMAIN toWindow : ~IsTurn(toWindow[i])
  BY DEF EditsTypeOK, HostOpens, Turns
<1>3. /\ opening' = 0 /\ UNCHANGED <<waiting, closing, asked, toHost>>
  BY DEF HostOpens, windowVars
<1>4. \A i \in DOMAIN toWindow' :
        (~IsTurn(toWindow'[i])) \/ (i = Len(toWindow) + 1 /\ toWindow'[i] = e)
  <2>1. e \in Reply
    BY <1>2, MessageTypes
  <2>2. QED
    BY <1>1, <1>2, <2>1, AppendAt DEF EditsTypeOK
<1>5. QED
  BY <1>2, <1>3, <1>4 DEF Turns, IsTurn

LEMMA WindowTail ==
  ASSUME EditsTypeOK, WindowTakes
  PROVE  /\ 1 \in DOMAIN toWindow /\ Head(toWindow) = toWindow[1]
         /\ \A i \in DOMAIN toWindow' :
              /\ i \in Nat \ {0} /\ i + 1 \in DOMAIN toWindow /\ i + 1 # 1
              /\ toWindow'[i] = toWindow[i + 1]
         /\ \A i \in DOMAIN toWindow : i # 1 =>
              /\ i \in Nat \ {0} /\ i - 1 \in DOMAIN toWindow'
              /\ toWindow'[i - 1] = toWindow[i]
BY TailAt DEF EditsTypeOK, WindowTakes

\* With the answer to an open or a closing the turn is over.
LEMMA TurnOver ==
  ASSUME EditsTypeOK, Turns, WindowTakes, IsTurn(Head(toWindow))
  PROVE  /\ \A i \in DOMAIN toHost : ~IsTurn(toHost[i])
         /\ \A i \in DOMAIN toWindow' : ~IsTurn(toWindow'[i])
         /\ opening = 0 /\ opening' = 0 /\ asked' = asked
<1>1. IsTurn(toWindow[1]) /\ 1 \in DOMAIN toWindow
  BY WindowTail
<1>2. UNCHANGED <<opening, asked>>
  BY DEF WindowTakes, hostVars
<1>3. QED
  BY <1>1, <1>2, WindowTail DEF Turns, IsTurn

LEMMA TakeOpenedTurns ==
  ASSUME EditsTypeOK, Turns, WindowTakes, TakeOpened(Head(toWindow))
  PROVE  Turns'
<1>1. IsTurn(Head(toWindow)) /\ Head(toWindow).kind = "opened"
  BY DEF TakeOpened, IsTurn
<1>2. /\ \A i \in DOMAIN toHost : ~IsTurn(toHost[i])
      /\ \A i \in DOMAIN toWindow' : ~IsTurn(toWindow'[i])
      /\ opening' = 0
  BY <1>1, TurnOver
<1>3. waiting' = FALSE /\ UNCHANGED closing
  BY DEF TakeOpened
<1>4. \A i \in DOMAIN toHost' : ~IsTurn(toHost'[i])
  <2>1. CASE UNCHANGED toHost
    BY <1>2, <2>1
  <2>2. CASE toHost' = Append(toHost, [kind |-> "revoke"])
    BY <1>2, <2>2, MessageTypes, AppendAt DEF EditsTypeOK, IsTurn
  <2>3. QED
    BY <2>1, <2>2 DEF TakeOpened, Revoke, StayInPreview
<1>5. QED
  BY <1>2, <1>3, <1>4 DEF Turns, IsTurn

LEMMA TakeDisposedTurns ==
  ASSUME EditsTypeOK, Turns, WindowTakes, TakeDisposed(Head(toWindow))
  PROVE  Turns'
<1>1. IsTurn(Head(toWindow)) /\ Head(toWindow).kind = "disposed"
  BY DEF TakeDisposed, IsTurn
<1>2. /\ \A i \in DOMAIN toHost : ~IsTurn(toHost[i])
      /\ \A i \in DOMAIN toWindow' : ~IsTurn(toWindow'[i])
      /\ opening' = 0
  BY <1>1, TurnOver
<1>3. closing' = FALSE /\ UNCHANGED <<waiting, toHost>>
  BY DEF TakeDisposed
<1>4. QED
  BY <1>2, <1>3 DEF Turns, IsTurn

LEMMA TookTurns ==
  ASSUME EditsTypeOK, Turns, WindowTakes, NEW k, NEW a, Took(k, a)
  PROVE  Turns'
<1>1. UNCHANGED <<opening, asked, waiting, closing, toHost>>
  BY DEF Took, hostVars
<1>2. QED
  BY <1>1, WindowTail DEF Turns, IsTurn

-----------------------------------------------------------------------------
(* Numbers, and the queues they are in.                                    *)

LEMMA MessageIntents ==
  ASSUME EditsTypeOK
  PROVE  /\ \A i \in DOMAIN toHost : IsEdit(toHost[i]) =>
              toHost[i].intent \in Intent /\ toHost[i].key \in Keys
         /\ \A i \in DOMAIN toWindow : IsEdit(toWindow[i]) =>
              /\ toWindow[i].intent \in Intent /\ toWindow[i].key \in Keys
              /\ toWindow[i].model \in Record
              /\ toWindow[i].status \in {"accepted", "refused", "bare"}
<1>1. \A m \in Command : IsEdit(m) => m.intent \in Intent /\ m.key \in Keys
  BY DEF Command, IsEdit
<1>2. \A m \in Reply : IsEdit(m) =>
        /\ m.intent \in Intent /\ m.key \in Keys /\ m.model \in Record
        /\ m.status \in {"accepted", "refused", "bare"}
  BY DEF Reply, IsEdit
<1>3. \A i \in DOMAIN toHost : toHost[i] \in Command
  BY DEF EditsTypeOK
<1>4. \A i \in DOMAIN toWindow : toWindow[i] \in Reply
  BY DEF EditsTypeOK
<1>5. QED
  BY <1>1, <1>2, <1>3, <1>4

\* What was typed stays so, as long as no file is asked for, or a new one is.
LEMMA StillTyped ==
  ASSUME EditsTypeOK, typed' \in Nat, typed <= typed',
         \/ asked' = asked /\ (waiting' => waiting)
         \/ asked' = asked + 1
  PROVE  \A n \in Intent : Typed(n) => TypedBy(n, typed', asked', waiting')
BY DEF EditsTypeOK, Typed, TypedBy, Intent

LEMMA InitNumbers == EditsInit => Counted /\ Queued
BY DEF EditsInit, Counted, Queued, NoIntent, Untouched

\* Then the channels keep what they have.
LEMMA ChannelsTyped ==
  ASSUME EditsTypeOK, Counted, typed' \in Nat, typed <= typed',
         \/ asked' = asked /\ (waiting' => waiting)
         \/ asked' = asked + 1
  PROVE  /\ \A i \in DOMAIN toHost : IsEdit(toHost[i]) =>
              TypedBy(toHost[i].intent, typed', asked', waiting')
         /\ \A i \in DOMAIN toWindow : IsEdit(toWindow[i]) =>
              TypedBy(toWindow[i].intent, typed', asked', waiting')
<1>1. \A n \in Intent : Typed(n) => TypedBy(n, typed', asked', waiting')
  BY StillTyped
<1>2. QED
  BY <1>1, MessageIntents DEF Counted

LEMMA QueuesTyped ==
  ASSUME EditsTypeOK, Queued, typed' \in Nat, typed <= typed',
         \/ asked' = asked /\ (waiting' => waiting)
         \/ asked' = asked + 1
  PROVE  \A k \in Keys : \A i \in DOMAIN queues[k] :
           /\ queues[k][i] \in Intent
           /\ TypedBy(queues[k][i], typed', asked', waiting')
<1>1. \A n \in Intent : Typed(n) => TypedBy(n, typed', asked', waiting')
  BY StillTyped
<1>2. \A k \in Keys : \A i \in DOMAIN queues[k] : queues[k][i] \in Intent
  BY DEF EditsTypeOK
<1>3. QED
  BY <1>1, <1>2 DEF Queued

LEMMA AskOpenNumbers ==
  EditsTypeOK /\ Counted /\ Queued /\ AskOpen => Counted' /\ Queued'
<1> SUFFICES ASSUME EditsTypeOK, Counted, Queued, AskOpen PROVE Counted' /\ Queued'
  OBVIOUS
<1> DEFINE e == [kind |-> "open", file |-> asked + 1]
<1>1. /\ toHost' = Append(toHost, e) /\ asked' = asked + 1 /\ toWindow' = toWindow
      /\ UNCHANGED <<shown, hosted, edited, view, typed, sent, intents, queues>>
  BY DEF AskOpen, hostVars, intentVars
<1>2. /\ e \in Command /\ ~IsEdit(e) /\ toHost \in Seq(Command)
      /\ typed \in Nat /\ asked \in Nat /\ hosted \in Nat /\ shown \in Nat
  BY MessageTypes DEF EditsTypeOK, IsEdit
<1>3. \A i \in DOMAIN toHost' : IsEdit(toHost'[i]) =>
        i \in DOMAIN toHost /\ toHost'[i] = toHost[i]
  BY <1>1, <1>2, AppendAt
<1>4. /\ typed' \in Nat /\ typed <= typed' /\ asked' = asked + 1
  BY <1>1, <1>2
<1>5. Counted'
  BY <1>1, <1>2, <1>3, <1>4, ChannelsTyped DEF Counted, IsEdit, Typed
<1>6. Queued'
  BY <1>1, <1>4, QueuesTyped DEF Queued, Typed
<1>7. QED
  BY <1>5, <1>6

\* What belongs to the file that was shown is forgotten.
LEMMA InvalidateQueued ==
  ASSUME EditsTypeOK, Invalidate
  PROVE  /\ Queued'
         /\ \A k \in Keys : sent'[k] <= typed' /\ intents'[k].sequence <= typed'
BY DEF EditsTypeOK, Invalidate, NoIntent, Queued

LEMMA CloseFileNumbers ==
  EditsTypeOK /\ Counted /\ Queued /\ CloseFile => Counted' /\ Queued'
<1> SUFFICES ASSUME EditsTypeOK, Counted, Queued, CloseFile PROVE Counted' /\ Queued'
  OBVIOUS
<1> DEFINE e == [kind |-> "dispose"]
<1>1. /\ toHost' = Append(toHost, e)
      /\ UNCHANGED <<shown, hosted, edited, view, typed, asked, waiting, toWindow>>
  BY DEF CloseFile, hostVars, Invalidate
<1>2. e \in Command /\ ~IsEdit(e) /\ toHost \in Seq(Command) /\ typed \in Nat
  BY MessageTypes DEF EditsTypeOK, IsEdit
<1>3. \A i \in DOMAIN toHost' : IsEdit(toHost'[i]) =>
        i \in DOMAIN toHost /\ toHost'[i] = toHost[i]
  BY <1>1, <1>2, AppendAt
<1>4. typed' \in Nat /\ typed <= typed' /\ asked' = asked /\ (waiting' => waiting)
  BY <1>1, <1>2
<1>5. Queued' /\ \A k \in Keys : sent'[k] <= typed' /\ intents'[k].sequence <= typed'
  BY InvalidateQueued DEF CloseFile
<1>6. Counted'
  BY <1>1, <1>2, <1>3, <1>4, <1>5, ChannelsTyped DEF Counted, IsEdit, Typed
<1>7. QED
  BY <1>5, <1>6

LEMMA ShowPreviewNumbers ==
  EditsTypeOK /\ Counted /\ Queued /\ ShowPreview => Counted' /\ Queued'
BY DEF EditsTypeOK, Counted, Queued, ShowPreview, intentVars, hostVars, Typed, IsEdit

LEMMA UpdateNumbers ==
  ASSUME EditsTypeOK, Counted, Queued,
         NEW k \in Keys, NEW v \in Edits, UpdateRuntimeText(k, v)
  PROVE  Counted' /\ Queued'
<1> DEFINE n == [sequence |-> typed + 1, value |-> v, source |-> shown]
<1>1. /\ typed' = typed + 1 /\ typed \in Nat /\ typed' \in Nat /\ typed <= typed'
      /\ intents' = [intents EXCEPT ![k] =
                   [sequence |-> typed + 1, value |-> v, state |-> "pending"]]
      /\ queues' = [queues EXCEPT ![k] = Append(queues[k], n)]
      /\ UNCHANGED <<sent, shown, view, asked, waiting, hosted, edited,
                     toHost, toWindow>>
  BY DEF EditsTypeOK, UpdateRuntimeText, windowVars, hostVars
<1>2. n \in Intent /\ queues[k] \in Seq(Intent)
  <2>1. shown \in Nat \ {0} /\ typed + 1 \in Nat \ {0}
    BY DEF EditsTypeOK, UpdateRuntimeText, Counted
  <2>2. n \in Intent
    BY <2>1 DEF Intent
  <2>3. QED
    BY <2>2 DEF EditsTypeOK
<1>3. /\ sent \in [Keys -> Nat] /\ intents \in [Keys -> Newest]
      /\ queues \in [Keys -> Seq(Intent)]
      /\ \A l \in Keys : intents[l].sequence \in Nat
  BY DEF EditsTypeOK, Newest
<1>4. Counted'
  BY <1>1, <1>3, ChannelsTyped DEF Counted, Typed, IsEdit
<1>5. TypedBy(n, typed', asked', waiting')
  BY <1>1, <1>2 DEF Counted, TypedBy, EditsTypeOK
<1>6. ASSUME NEW l \in Keys
      PROVE  /\ \A i \in DOMAIN queues'[l] :
                  /\ TypedBy(queues'[l][i], typed', asked', waiting')
                  /\ sent'[l] < queues'[l][i].sequence
                  /\ queues'[l][i].sequence = intents'[l].sequence =>
                       /\ intents'[l].state = "pending"
                       /\ intents'[l].value = queues'[l][i].value
             /\ \A i, j \in DOMAIN queues'[l] :
                  i < j => queues'[l][i].sequence < queues'[l][j].sequence
  <2>1. CASE l # k
    BY <1>1, <1>3, <1>6, <2>1, QueuesTyped DEF Queued
  <2>2. CASE l = k
    <3>1. /\ \A i \in DOMAIN queues'[k] :
               \/ i \in DOMAIN queues[k] /\ queues'[k][i] = queues[k][i]
               \/ i = Len(queues[k]) + 1 /\ queues'[k][i] = n
          /\ DOMAIN queues[k] = 1 .. Len(queues[k]) /\ Len(queues[k]) \in Nat
      BY <1>1, <1>2, <1>3, AppendAt
    <3>2. /\ intents'[k] = [sequence |-> typed + 1, value |-> v, state |-> "pending"]
          /\ sent'[k] = sent[k] /\ sent[k] <= typed /\ sent[k] \in Nat
      BY <1>1, <1>3 DEF Counted
    <3>3. \A i \in DOMAIN queues[k] :
            /\ queues[k][i] \in Intent /\ queues[k][i].sequence \in Nat
            /\ TypedBy(queues[k][i], typed', asked', waiting')
            /\ queues[k][i].sequence <= typed
      <4>1. \A i \in DOMAIN queues[k] : queues[k][i] \in Intent
        BY <1>2
      <4>2. \A i \in DOMAIN queues[k] : queues[k][i].sequence \in Nat
        BY <4>1 DEF Intent
      <4>3. \A i \in DOMAIN queues[k] : queues[k][i].sequence <= typed
        BY DEF Queued, Typed, TypedBy
      <4>4. QED
        BY <1>1, <4>1, <4>2, <4>3, QueuesTyped
    <3>4. \A i \in DOMAIN queues'[k] :
                  /\ TypedBy(queues'[k][i], typed', asked', waiting')
                  /\ sent'[k] < queues'[k][i].sequence
                  /\ queues'[k][i].sequence = intents'[k].sequence =>
                       /\ intents'[k].state = "pending"
                       /\ intents'[k].value = queues'[k][i].value
      BY <1>1, <1>5, <3>1, <3>2, <3>3 DEF Queued
    <3>5. \A i, j \in DOMAIN queues'[k] :
                  i < j => queues'[k][i].sequence < queues'[k][j].sequence
      BY <1>1, <3>1, <3>3 DEF Queued
    <3>6. QED
      BY <2>2, <3>4, <3>5
  <2>3. QED
    BY <2>1, <2>2
<1>7. Queued'
  BY <1>6 DEF Queued, Typed
<1>8. QED
  BY <1>4, <1>7

LEMMA ApplyIntentNumbers ==
  ASSUME EditsTypeOK, Counted, Queued, NEW k \in Keys, NEW n \in Intent, Applied(k, n)
  PROVE  Counted' /\ Queued'
<1>1. /\ queues[k] \in Seq(Intent) /\ queues[k] # <<>> /\ n = queues[k][1]
      /\ queues' = [queues EXCEPT ![k] = Tail(queues[k])]
      /\ queues \in [Keys -> Seq(Intent)] /\ sent \in [Keys -> Nat]
      /\ intents \in [Keys -> Newest] /\ typed \in Nat
      /\ UNCHANGED <<typed, shown, asked, waiting, hosted, edited, toWindow>>
  BY DEF EditsTypeOK, Applied, hostVars
<1>2. /\ 1 \in DOMAIN queues[k]
      /\ \A i \in DOMAIN Tail(queues[k]) :
           /\ i \in Nat \ {0} /\ i + 1 \in DOMAIN queues[k]
           /\ Tail(queues[k])[i] = queues[k][i + 1]
  BY <1>1, TailAt
<1>3. Typed(n) /\ n.sequence \in Nat /\ n.sequence <= typed
  BY <1>1, <1>2 DEF Queued, Typed, TypedBy, Intent
<1>4. \A l \in Keys :
        /\ intents[l] \in Newest /\ intents'[l].sequence = intents[l].sequence
        /\ intents'[l].value = intents[l].value
        /\ l # k => intents'[l] = intents[l]
  <2>1. CASE UNCHANGED intents
    BY <1>1, <2>1
  <2>2. CASE intents' = [intents EXCEPT ![k].state = "failed"]
    BY <1>1, <2>2 DEF Newest
  <2>3. QED
    BY <2>1, <2>2 DEF Applied
<1>5. /\ sent' \in [Keys -> Nat] /\ \A l \in Keys : sent'[l] <= typed
      /\ \A l \in Keys : sent'[l] = sent[l] \/ (l = k /\ sent'[l] = n.sequence)
  BY <1>1, <1>3 DEF Applied, Counted
<1>6. \A i \in DOMAIN toHost' : IsEdit(toHost'[i]) =>
        TypedBy(toHost'[i].intent, typed', asked', waiting')
  <2>1. CASE UNCHANGED toHost
    BY <1>1, <2>1 DEF Counted, Typed
  <2>2. CASE \E kind \in {"apply", "reset"} :
               toHost' = Append(toHost, [kind |-> kind, key |-> k, intent |-> n])
    <3>1. PICK kind \in {"apply", "reset"} :
             toHost' = Append(toHost, [kind |-> kind, key |-> k, intent |-> n])
      BY <2>2
    <3>2. [kind |-> kind, key |-> k, intent |-> n] \in Command
      BY MessageTypes
    <3>3. \A i \in DOMAIN toHost' :
            \/ i \in DOMAIN toHost /\ toHost'[i] = toHost[i]
            \/ toHost'[i] = [kind |-> kind, key |-> k, intent |-> n]
      BY <3>1, <3>2, AppendAt DEF EditsTypeOK
    <3>4. QED
      BY <1>1, <1>3, <3>3 DEF Counted, Typed
  <2>3. QED
    BY <2>1, <2>2 DEF Applied
<1>7. view' = "preview" => view = "preview"
  BY DEF Applied
<1>8. Counted'
  BY <1>1, <1>4, <1>5, <1>6, <1>7 DEF Counted, Typed, IsEdit
<1>9. ASSUME NEW l \in Keys
      PROVE  /\ \A i \in DOMAIN queues'[l] :
                  /\ Typed(queues'[l][i])
                  /\ sent'[l] < queues'[l][i].sequence
                  /\ queues'[l][i].sequence = intents'[l].sequence =>
                       /\ intents'[l].state = "pending"
                       /\ intents'[l].value = queues'[l][i].value
             /\ \A i, j \in DOMAIN queues'[l] :
                  i < j => queues'[l][i].sequence < queues'[l][j].sequence
  <2>1. CASE l # k
    BY <1>1, <1>4, <1>5, <1>9, <2>1 DEF Queued
  <2>2. CASE l = k
    <3>1. queues'[k] = Tail(queues[k])
      BY <1>1
    <3>2. \A i \in DOMAIN queues'[k] :
            /\ i \in Nat \ {0} /\ i + 1 \in DOMAIN queues[k]
            /\ queues'[k][i] = queues[k][i + 1]
      BY <1>2, <3>1
    <3>3. \A i \in DOMAIN queues'[k] : n.sequence < queues'[k][i].sequence
      BY <1>1, <1>2, <3>2 DEF Queued
    <3>4. \A i \in DOMAIN queues'[k] : sent'[k] < queues'[k][i].sequence
      BY <1>5, <3>2, <3>3 DEF Queued
    <3>5. \A i \in DOMAIN queues'[k] :
            queues'[k][i].sequence = intents'[k].sequence =>
              intents'[k].state = "pending"
              /\ intents'[k].value = queues'[k][i].value
      <4>1. CASE UNCHANGED intents
        BY <3>2, <4>1 DEF Queued
      <4>2. CASE n.sequence = intents[k].sequence
        BY <1>3, <1>4, <3>3, <4>2
      <4>3. CASE intents' = [intents EXCEPT ![k].state = "failed"]
        BY <4>1, <4>2 DEF Applied, IntentIsCurrent
      <4>4. QED
        BY <4>1, <4>3 DEF Applied
    <3>6. \A i, j \in DOMAIN queues'[k] :
            i < j => queues'[k][i].sequence < queues'[k][j].sequence
      BY <3>2 DEF Queued
    <3>7. QED
      BY <2>2, <3>2, <3>4, <3>5, <3>6 DEF Queued
  <2>3. QED
    BY <2>1, <2>2
<1>10. Queued'
  BY <1>1, <1>9 DEF Queued, Typed
<1>11. QED
  BY <1>8, <1>10

LEMMA QueuedKept ==
  ASSUME EditsTypeOK, Queued, UNCHANGED <<typed, intents, queues, sent, asked>>,
         waiting' => waiting
  PROVE  Queued'
<1>1. typed' \in Nat /\ typed <= typed'
  BY DEF EditsTypeOK
<1>2. QED
  BY <1>1, QueuesTyped DEF Queued, Typed

LEMMA HostTakesNumbers ==
  EditsTypeOK /\ Turns /\ Counted /\ Queued /\ HostTakes => Counted' /\ Queued'
<1> SUFFICES ASSUME EditsTypeOK, Turns, Counted, Queued, HostTakes
             PROVE  Counted' /\ Queued'
  OBVIOUS
<1> DEFINE m == Head(toHost)
<1>1. /\ toHost # <<>> /\ m = toHost[1] /\ 1 \in DOMAIN toHost
      /\ UNCHANGED <<typed, intents, queues, sent, asked, waiting, shown, view>>
      /\ typed \in Nat /\ asked \in Nat /\ hosted \in Nat
  BY HostTail DEF HostTakes, intentVars, windowVars, EditsTypeOK
<1>2. Queued'
  BY <1>1, QueuedKept
<1>3. \A i \in DOMAIN toHost' : IsEdit(toHost'[i]) =>
        TypedBy(toHost'[i].intent, typed', asked', waiting')
  BY <1>1, HostTail DEF Counted, Typed
<1>4. CASE HostEdits(m)
  <2>1. PICK status \in {"accepted", "refused", "bare"} :
          toWindow' = Append(toWindow,
             [kind |-> m.kind, key |-> m.key, intent |-> m.intent,
              status |-> status, model |-> edited'])
    BY <1>4 DEF HostEdits
  <2> DEFINE a == [kind |-> m.kind, key |-> m.key, intent |-> m.intent,
                   status |-> status, model |-> edited']
  <2>2. a \in Reply /\ m.intent \in Intent
    BY <1>1, <1>4, HeadType, MessageTypes DEF HostEdits
  <2>3. \A i \in DOMAIN toWindow' :
          \/ i \in DOMAIN toWindow /\ toWindow'[i] = toWindow[i]
          \/ toWindow'[i] = a
    BY <2>1, <2>2, AppendAt DEF EditsTypeOK
  <2>4. Typed(m.intent)
    BY <1>1, <1>4 DEF Counted, HostEdits, IsEdit
  <2>5. \A i \in DOMAIN toWindow' : IsEdit(toWindow'[i]) =>
          TypedBy(toWindow'[i].intent, typed', asked', waiting')
    BY <1>1, <2>3, <2>4 DEF Counted, Typed
  <2>6. hosted' = hosted /\ (waiting /\ hosted = asked => edited' = edited)
    BY <1>1, <1>4, <2>4 DEF HostEdits, Typed, TypedBy
  <2>7. QED
    BY <1>1, <1>2, <1>3, <2>5, <2>6 DEF Counted, Typed, IsEdit
<1>5. CASE m.kind = "open" /\ UNCHANGED <<hosted, edited, toWindow>>
  BY <1>1, <1>2, <1>3, <1>5 DEF Counted, Typed, IsEdit
<1>6. CASE /\ hosted' = 0 /\ edited' = Untouched
           /\ toWindow' = IF m.kind = "revoke" THEN toWindow
                          ELSE Append(toWindow, [kind |-> "disposed"])
  <2>1. \A i \in DOMAIN toWindow' : IsEdit(toWindow'[i]) =>
          i \in DOMAIN toWindow /\ toWindow'[i] = toWindow[i]
    BY <1>6, MessageTypes, AppendAt DEF EditsTypeOK, IsEdit
  <2>2. \A i \in DOMAIN toWindow' : IsEdit(toWindow'[i]) =>
          TypedBy(toWindow'[i].intent, typed', asked', waiting')
    BY <1>1, <2>1 DEF Counted, Typed
  <2>3. QED
    BY <1>1, <1>2, <1>3, <1>6, <2>2 DEF Counted, Typed, IsEdit
<1>7. QED
  BY <1>1, <1>4, <1>5, <1>6, HostEditsStep DEF HostTakes

LEMMA HostOpensNumbers ==
  EditsTypeOK /\ Turns /\ Counted /\ Queued /\ HostOpens => Counted' /\ Queued'
<1> SUFFICES ASSUME EditsTypeOK, Turns, Counted, Queued, HostOpens
             PROVE  Counted' /\ Queued'
  OBVIOUS
<1>1. PICK outcome \in {"accepted", "failed", "unopened", "cancelled"} :
        /\ hosted' = CASE outcome = "accepted" -> opening
                       [] outcome = "failed" -> 0
                       [] OTHER -> hosted
        /\ edited' = IF outcome \in {"accepted", "failed"} THEN Untouched ELSE edited
        /\ toWindow' = Append(toWindow, [kind |-> "opened", file |-> opening,
                                         outcome |-> outcome])
  BY DEF HostOpens
<1>2. /\ opening = asked /\ opening \in Nat \ {0} /\ hosted \in Nat
      /\ UNCHANGED <<typed, intents, queues, sent, asked, waiting, shown, view, toHost>>
  BY DEF HostOpens, intentVars, windowVars, EditsTypeOK, Turns
<1>3. Queued'
  BY <1>2, QueuedKept
<1>4. \A i \in DOMAIN toWindow' : IsEdit(toWindow'[i]) =>
        i \in DOMAIN toWindow /\ toWindow'[i] = toWindow[i]
  <2>1. [kind |-> "opened", file |-> opening, outcome |-> outcome] \in Reply
    BY <1>2, MessageTypes
  <2>2. QED
    BY <1>1, <2>1, AppendAt DEF EditsTypeOK, IsEdit
<1>5. /\ \A i \in DOMAIN toWindow' : IsEdit(toWindow'[i]) =>
           TypedBy(toWindow'[i].intent, typed', asked', waiting')
      /\ \A i \in DOMAIN toHost' : IsEdit(toHost'[i]) =>
           TypedBy(toHost'[i].intent, typed', asked', waiting')
  BY <1>2, <1>4 DEF Counted, Typed
<1>6. hosted' <= asked' /\ (hosted' = asked' => edited' = Untouched \/ hosted = asked)
  BY <1>1, <1>2 DEF Counted
<1>7. hosted = asked => edited = Untouched
  BY <1>2 DEF Counted, HostOpens, Turns
<1>8. hosted' = asked' => edited' = Untouched
  BY <1>1, <1>6, <1>7
<1>9. Counted'
  BY <1>2, <1>5, <1>6, <1>8 DEF Counted, Typed, IsEdit
<1>10. QED
  BY <1>3, <1>9

\* What waits for the window stays typed when it takes an answer.
LEMMA LeftTyped ==
  ASSUME EditsTypeOK, Counted, WindowTakes, UNCHANGED typed, waiting' => waiting
  PROVE  \A i \in DOMAIN toWindow' : IsEdit(toWindow'[i]) =>
           TypedBy(toWindow'[i].intent, typed', asked', waiting')
<1>1. /\ \A i \in DOMAIN toWindow : IsEdit(toWindow[i]) =>
           TypedBy(toWindow[i].intent, typed', asked', waiting')
  BY ChannelsTyped DEF EditsTypeOK, WindowTakes
<1>2. QED
  BY <1>1, WindowTail

LEMMA TakeOpenedNumbers ==
  ASSUME EditsTypeOK, Turns, Counted, Queued, WindowTakes, TakeOpened(Head(toWindow))
  PROVE  Counted' /\ Queued'
<1> DEFINE a == Head(toWindow)
<1>1. /\ UNCHANGED <<asked, hosted, edited>> /\ waiting' = FALSE
      /\ a.kind = "opened" /\ a.file = asked /\ asked \in Nat \ {0} /\ waiting
      /\ typed \in Nat
  <2>1. a = toWindow[1] /\ 1 \in DOMAIN toWindow /\ a.kind = "opened"
    BY WindowTail DEF TakeOpened
  <2>2. a.file = asked /\ waiting /\ a.file \in Nat \ {0}
    BY <2>1, AnswerType DEF Turns, WindowTakes
  <2>3. QED
    BY <2>1, <2>2 DEF WindowTakes, TakeOpened, hostVars, EditsTypeOK
<1>2. CASE /\ Invalidate /\ UNCHANGED toHost /\ shown' = a.file /\ view' = "preview"
  <2>1. typed' = typed
    BY <1>2 DEF Invalidate
  <2>2. \A i \in DOMAIN toHost' : IsEdit(toHost'[i]) =>
           TypedBy(toHost'[i].intent, typed', asked', waiting')
    BY <1>1, <1>2, <2>1, ChannelsTyped
  <2>3. \A i \in DOMAIN toWindow' : IsEdit(toWindow'[i]) =>
           TypedBy(toWindow'[i].intent, typed', asked', waiting')
    BY <1>1, <2>1, LeftTyped
  <2>4. QED
    BY <1>1, <1>2, <2>2, <2>3, InvalidateQueued DEF Counted, Typed, IsEdit
<1>3. CASE Revoke
  <2>1. typed' = typed /\ shown' = 0 /\ view' = "failed"
        /\ toHost' = Append(toHost, [kind |-> "revoke"])
    BY <1>3 DEF Revoke, Invalidate
  <2>2. \A i \in DOMAIN toHost' : IsEdit(toHost'[i]) =>
          i \in DOMAIN toHost /\ toHost'[i] = toHost[i]
    BY <2>1, MessageTypes, AppendAt DEF EditsTypeOK, IsEdit
  <2>3. \A i \in DOMAIN toHost' : IsEdit(toHost'[i]) =>
           TypedBy(toHost'[i].intent, typed', asked', waiting')
    BY <1>1, <2>1, <2>2, ChannelsTyped
  <2>4. \A i \in DOMAIN toWindow' : IsEdit(toWindow'[i]) =>
           TypedBy(toWindow'[i].intent, typed', asked', waiting')
    BY <1>1, <2>1, LeftTyped
  <2>5. Queued' /\ \A k \in Keys : sent'[k] <= typed' /\ intents'[k].sequence <= typed'
    BY <1>3, InvalidateQueued DEF Revoke
  <2>6. QED
    BY <1>1, <2>1, <2>3, <2>4, <2>5 DEF Counted, Typed, IsEdit
<1>4. CASE /\ view' = view \/ (shown # 0 /\ view' = "preview")
           /\ UNCHANGED <<intentVars, shown, toHost>>
  <2>1. UNCHANGED <<typed, intents, queues, sent>>
    BY <1>4 DEF intentVars
  <2>2. \A i \in DOMAIN toHost' : IsEdit(toHost'[i]) =>
           TypedBy(toHost'[i].intent, typed', asked', waiting')
    BY <1>1, <1>4, <2>1, ChannelsTyped
  <2>3. \A i \in DOMAIN toWindow' : IsEdit(toWindow'[i]) =>
           TypedBy(toWindow'[i].intent, typed', asked', waiting')
    BY <1>1, <2>1, LeftTyped
  <2>4. Queued'
    BY <1>1, <2>1, QueuedKept
  <2>5. QED
    BY <1>1, <1>4, <2>1, <2>2, <2>3, <2>4 DEF Counted, Typed, IsEdit
<1>5. QED
  BY <1>2, <1>3, <1>4
  DEF TakeOpened, TakeAcceptedOpen, ApplyHostResult, StayInPreview

LEMMA TakeDisposedNumbers ==
  ASSUME EditsTypeOK, Counted, Queued, WindowTakes, TakeDisposed(Head(toWindow))
  PROVE  Counted' /\ Queued'
<1>1. /\ UNCHANGED <<asked, hosted, edited, waiting, toHost>>
      /\ UNCHANGED <<typed, intents, queues, sent>>
      /\ shown' = 0 /\ view' = "launch"
      /\ asked \in Nat /\ typed \in Nat
  BY DEF EditsTypeOK, WindowTakes, TakeDisposed, intentVars, hostVars
<1>2. Queued'
  BY <1>1, QueuedKept
<1>3. \A i \in DOMAIN toWindow' : IsEdit(toWindow'[i]) =>
         TypedBy(toWindow'[i].intent, typed', asked', waiting')
  BY <1>1, LeftTyped
<1>4. waiting => asked # 0
  BY DEF Counted, EditsTypeOK
<1>5. QED
  BY <1>1, <1>2, <1>3, <1>4 DEF Counted, Typed, IsEdit

\* An answer that is up to date is for the file in the window, which is not
\* being closed, and for the command its chain waits for.
LEMMA CurrentAnswer ==
  ASSUME EditsTypeOK, Closings, Chained, NEW k, NEW a, Took(k, a),
         IntentIsCurrent(k, a.intent)
  PROVE  /\ Showing /\ Live(a) /\ sent[k] = a.intent.sequence
         /\ intents[k].sequence = a.intent.sequence
         /\ intents[k].value = Outcome(a)
<1>1. 1 \in DOMAIN toWindow /\ a = toWindow[1] /\ DOMAIN toWindow \subseteq Nat \ {0}
  BY TailAt DEF Took, EditsTypeOK
<1>2. /\ a.intent \in Intent /\ a.intent.source = shown
      /\ intents[k].sequence = a.intent.sequence /\ k = a.key
      /\ Live(a) /\ Current(a)
  BY DEF Took, IntentIsCurrent, Live, Current, IsEdit
<1>3. shown # 0
  BY <1>2 DEF Intent
<1>4. ~closing
  BY <1>1, <1>2 DEF Closings
<1>5. QED
  BY <1>1, <1>2, <1>3, <1>4 DEF Chained, Showing, Awaited, Agrees, Live

\* An answer ends an intent, and its chain goes on.
LEMMA TookNumbers ==
  ASSUME EditsTypeOK, Counted, Queued, Closings, Chained, WindowTakes,
         NEW k, NEW a, Took(k, a), TakeLate(k, a) \/ Failed(k, a) \/ Result(k, a)
  PROVE  Counted' /\ Queued'
<1>1. /\ UNCHANGED <<asked, hosted, edited, waiting, toHost, typed, queues, shown>>
      /\ k \in Keys /\ sent \in [Keys -> Nat] /\ intents \in [Keys -> Newest]
      /\ sent' = [sent EXCEPT ![k] = IF @ = a.intent.sequence THEN 0 ELSE @]
      /\ typed \in Nat
  BY DEF Took, hostVars, EditsTypeOK
<1>2. /\ sent' \in [Keys -> Nat]
      /\ \A l \in Keys : sent'[l] = sent[l] \/ sent'[l] = 0
  BY <1>1
<1>3. \A l \in Keys :
        /\ intents'[l].sequence = intents[l].sequence
        /\ intents'[l].value = intents[l].value
        /\ intents'[l] = intents[l] \/ (l = k /\ IntentIsCurrent(k, a.intent))
  <2>1. CASE UNCHANGED intents
    BY <2>1
  <2>2. ASSUME NEW how, intents' = [intents EXCEPT ![k].state = how],
               IntentIsCurrent(k, a.intent)
        PROVE  \A l \in Keys :
                 /\ intents'[l].sequence = intents[l].sequence
                 /\ intents'[l].value = intents[l].value
                 /\ intents'[l] = intents[l] \/ (l = k /\ IntentIsCurrent(k, a.intent))
    <3>1. \A l \in Keys : intents[l] \in Newest
      BY <1>1
    <3>2. QED
      BY <1>1, <2>2, <3>1 DEF Newest
  <2>3. QED
    BY <2>1, <2>2 DEF TakeLate, Failed, Result
<1>4. \A i \in DOMAIN toHost' : IsEdit(toHost'[i]) =>
        TypedBy(toHost'[i].intent, typed', asked', waiting')
  BY <1>1, ChannelsTyped
<1>5. \A i \in DOMAIN toWindow' : IsEdit(toWindow'[i]) =>
        TypedBy(toWindow'[i].intent, typed', asked', waiting')
  BY <1>1, LeftTyped
<1>6. view' = "preview" => shown' # 0
  <2>1. IntentIsCurrent(k, a.intent) => shown # 0
    BY CurrentAnswer DEF Showing
  <2>2. QED
    BY <1>1, <2>1 DEF Counted, TakeLate, Failed, Result
<1>7. Counted'
  BY <1>1, <1>2, <1>3, <1>4, <1>5, <1>6 DEF Counted, Typed, IsEdit
<1>8. ASSUME NEW l \in Keys, NEW i \in DOMAIN queues[l]
      PROVE  /\ sent'[l] < queues[l][i].sequence
             /\ queues[l][i].sequence = intents'[l].sequence =>
                  /\ intents'[l].state = "pending"
                  /\ intents'[l].value = queues[l][i].value
  <2>1. queues[l][i] \in Intent /\ queues[l][i].sequence \in Nat \ {0}
    <3>1. queues[l] \in Seq(Intent)
      BY DEF EditsTypeOK
    <3>2. queues[l][i] \in Intent
      BY <1>8, <3>1
    <3>3. QED
      BY <3>2 DEF Intent
  <2>2. sent[l] < queues[l][i].sequence /\ sent[l] \in Nat
    BY <1>1, <1>8 DEF Queued
  <2>3. sent'[l] < queues[l][i].sequence
    BY <1>2, <2>1, <2>2
  <2>4. CASE intents'[l] = intents[l]
    BY <2>3, <2>4 DEF Queued
  <2>5. CASE l = k /\ IntentIsCurrent(k, a.intent)
    <3>1. sent[l] = intents'[l].sequence
      BY <1>3, <2>5, CurrentAnswer
    <3>2. QED
      BY <2>1, <2>2, <2>3, <3>1
  <2>6. QED
    BY <1>3, <2>4, <2>5
<1>9. Queued'
  BY <1>1, <1>8 DEF Queued, Typed
<1>10. QED
  BY <1>7, <1>9

-----------------------------------------------------------------------------
(* Closing a file.                                                         *)

LEMMA InitClosings == EditsInit => Closings
BY DEF EditsInit, Closings, NothingInherited, NoValue

LEMMA InvalidateClosings ==
  ASSUME EditsTypeOK, Invalidate
  PROVE  /\ \A k \in Keys : values'[k] = NoValue
         /\ NothingInherited'
BY DEF Invalidate, NothingInherited, NoValue

LEMMA AskOpenClosings == EditsTypeOK /\ Closings /\ AskOpen => Closings'
BY DEF Closings, AskOpen, NothingInherited, intentVars

LEMMA CloseFileClosings == EditsTypeOK /\ Closings /\ CloseFile => Closings'
<1> SUFFICES ASSUME EditsTypeOK, Closings, CloseFile PROVE Closings'
  OBVIOUS
<1>1. /\ toHost' = Append(toHost, [kind |-> "dispose"]) /\ toWindow' = toWindow
      /\ mounted' = NoPlayer /\ \A k \in Keys : values'[k] = NoValue
      /\ \A k \in Keys : intents'[k].sequence = 0
  BY DEF CloseFile, Invalidate, NoIntent
<1>2. /\ \A i \in DOMAIN toHost' :
           \/ i \in DOMAIN toHost /\ toHost'[i] = toHost[i]
           \/ toHost'[i] = [kind |-> "dispose"]
      /\ Len(toHost) + 1 \in DOMAIN toHost'
      /\ toHost'[Len(toHost) + 1] = [kind |-> "dispose"]
  BY SMTT(30), <1>1, MessageTypes, AppendAt DEF EditsTypeOK
<1>3. \A i \in DOMAIN toHost : IsEdit(toHost[i]) =>
        toHost[i].key \in Keys /\ toHost[i].intent.sequence # 0
  BY MessageIntents DEF Intent
<1>4. \A i \in DOMAIN toWindow : IsEdit(toWindow[i]) =>
        toWindow[i].key \in Keys /\ toWindow[i].intent.sequence # 0
  BY MessageIntents DEF Intent
<1>5. NothingInherited'
  BY <1>1 DEF NothingInherited, NoValue
<1>6. QED
  BY <1>1, <1>2, <1>3, <1>4, <1>5
  DEF Closings, DisposeSent, DisposeDone, Current, IsEdit, IntentIsCurrent

LEMMA ShowPreviewClosings == EditsTypeOK /\ Closings /\ ShowPreview => Closings'
BY DEF Closings, ShowPreview, NothingInherited, intentVars, hostVars, DisposeSent,
  DisposeDone, Current, IsEdit, IntentIsCurrent

LEMMA UpdateClosings ==
  ASSUME EditsTypeOK, Counted, Closings,
         NEW k \in Keys, NEW v \in Edits, UpdateRuntimeText(k, v)
  PROVE  Closings'
<1>1. /\ intents' = [intents EXCEPT ![k] =
                   [sequence |-> typed + 1, value |-> v, state |-> "pending"]]
      /\ UNCHANGED <<toHost, toWindow, closing, shown, mounted, values>>
      /\ typed \in Nat /\ intents \in [Keys -> Newest]
  BY DEF UpdateRuntimeText, windowVars, EditsTypeOK
<1>2. \A l \in Keys : \/ intents'[l].sequence = intents[l].sequence
                      \/ intents'[l].sequence = typed + 1
  BY <1>1
<1>3. \A i \in DOMAIN toHost : IsEdit(toHost[i]) =>
        /\ toHost[i].key \in Keys /\ toHost[i].intent.sequence \in Nat
        /\ toHost[i].intent.sequence <= typed
  BY MessageIntents DEF Intent, Counted, Typed, TypedBy
<1>4. \A i \in DOMAIN toWindow : IsEdit(toWindow[i]) =>
        /\ toWindow[i].key \in Keys /\ toWindow[i].intent.sequence \in Nat
        /\ toWindow[i].intent.sequence <= typed
  BY MessageIntents DEF Intent, Counted, Typed, TypedBy
<1>5. \A i \in DOMAIN toHost :
        /\ IsEdit(toHost[i])
        /\ intents'[toHost[i].key].sequence = toHost[i].intent.sequence
        => intents[toHost[i].key].sequence = toHost[i].intent.sequence
  BY <1>1, <1>2, <1>3
<1>6. \A i \in DOMAIN toWindow :
        /\ IsEdit(toWindow[i])
        /\ intents'[toWindow[i].key].sequence = toWindow[i].intent.sequence
        => intents[toWindow[i].key].sequence = toWindow[i].intent.sequence
  BY <1>1, <1>2, <1>4
<1>7. QED
  BY <1>1, <1>5, <1>6
  DEF Closings, NothingInherited, DisposeSent, DisposeDone, Current, IsEdit,
      IntentIsCurrent

LEMMA ApplyIntentClosings ==
  ASSUME EditsTypeOK, Closings, NEW k \in Keys, NEW n \in Intent, Applied(k, n)
  PROVE  Closings'
<1>1. /\ UNCHANGED <<toWindow, closing, shown, values>>
      /\ mounted' \in {mounted, NoPlayer} /\ intents \in [Keys -> Newest]
  BY DEF Applied, EditsTypeOK
<1>2. \A l \in Keys : intents'[l].sequence = intents[l].sequence
  <2>1. \A l \in Keys : intents[l] \in Newest
    BY <1>1
  <2>2. CASE UNCHANGED intents
    BY <2>2
  <2>3. CASE intents' = [intents EXCEPT ![k].state = "failed"]
    BY <1>1, <2>1, <2>3 DEF Newest
  <2>4. QED
    BY <2>2, <2>3 DEF Applied
<1>3. /\ \A i \in DOMAIN toHost' :
           \/ i \in DOMAIN toHost /\ toHost'[i] = toHost[i]
           \/ /\ toHost'[i].kind # "dispose"
              /\ \A j \in DOMAIN toHost : j < i
      /\ \A i \in DOMAIN toHost : i \in DOMAIN toHost' /\ toHost'[i] = toHost[i]
  <2>1. CASE UNCHANGED toHost
    BY <2>1
  <2>2. CASE \E kind \in {"apply", "reset"} :
               toHost' = Append(toHost, [kind |-> kind, key |-> k, intent |-> n])
    <3>1. PICK kind \in {"apply", "reset"} :
             toHost' = Append(toHost, [kind |-> kind, key |-> k, intent |-> n])
      BY <2>2
    <3>2. [kind |-> kind, key |-> k, intent |-> n] \in Command
      BY MessageTypes
    <3>3. QED
      BY <3>1, <3>2, AppendAt DEF EditsTypeOK
  <2>3. QED
    BY <2>1, <2>2 DEF Applied
<1>4. \A i \in DOMAIN toHost : IsEdit(toHost[i]) => toHost[i].key \in Keys
  BY MessageIntents
<1>5. \A i \in DOMAIN toWindow : IsEdit(toWindow[i]) => toWindow[i].key \in Keys
  BY MessageIntents
<1>6. QED
  BY <1>1, <1>2, <1>3, <1>4, <1>5
  DEF Closings, NothingInherited, DisposeSent, DisposeDone, Current, IsEdit,
      IntentIsCurrent

LEMMA HostTakesClosings == EditsTypeOK /\ Closings /\ HostTakes => Closings'
<1> SUFFICES ASSUME EditsTypeOK, Closings, HostTakes PROVE Closings'
  OBVIOUS
<1> DEFINE m == Head(toHost)
<1>1. /\ UNCHANGED <<closing, shown, values, mounted, intents>>
      /\ toHost # <<>> /\ m = toHost[1] /\ 1 \in DOMAIN toHost
  BY HostTail DEF HostTakes, intentVars, windowVars
<1>2. NothingInherited'
  BY <1>1 DEF Closings, NothingInherited
<1>3. (closing \/ shown = 0) => mounted' = NoPlayer /\ \A k \in Keys : values'[k] = NoValue
  BY <1>1 DEF Closings
<1>4. SUFFICES ASSUME closing
      PROVE  /\ DisposeSent' \/ DisposeDone'
             /\ \A j \in DOMAIN toHost' : Current(toHost[j])' =>
                  \/ \E i \in DOMAIN toHost' : i < j /\ toHost'[i].kind = "dispose"
                  \/ DisposeDone'
             /\ \A j \in DOMAIN toWindow' : Current(toWindow[j])' =>
                  \E i \in DOMAIN toWindow' : i < j /\ toWindow'[i].kind = "disposed"
  BY <1>1, <1>2, <1>3 DEF Closings
<1>5. CASE HostEdits(m)
  <2>1. PICK status \in {"accepted", "refused", "bare"} :
          toWindow' = Append(toWindow,
             [kind |-> m.kind, key |-> m.key, intent |-> m.intent,
              status |-> status, model |-> edited'])
    BY <1>5 DEF HostEdits
  <2> DEFINE a == [kind |-> m.kind, key |-> m.key, intent |-> m.intent,
                   status |-> status, model |-> edited']
  <2>2. a \in Reply /\ m.kind \in {"apply", "reset"}
    BY <1>1, <1>5, HeadType, MessageTypes DEF HostEdits
  <2>3. /\ \A i \in DOMAIN toWindow' :
             \/ i \in DOMAIN toWindow /\ toWindow'[i] = toWindow[i]
             \/ toWindow'[i] = a /\ \A j \in DOMAIN toWindow : j < i
        /\ \A i \in DOMAIN toWindow : i \in DOMAIN toWindow' /\ toWindow'[i] = toWindow[i]
    BY <2>1, <2>2, AppendAt DEF EditsTypeOK
  <2>4. DisposeDone => DisposeDone'
    BY <2>3 DEF DisposeDone
  <2>5. \A i \in DOMAIN toHost : toHost[i].kind = "dispose" =>
          i # 1 /\ i - 1 \in DOMAIN toHost' /\ toHost'[i - 1].kind = "dispose"
    BY <1>1, <2>2, HostTail
  <2>6. DisposeSent' \/ DisposeDone'
    BY <1>4, <2>4, <2>5 DEF Closings, DisposeSent
  <2>7. ASSUME NEW j \in DOMAIN toHost', Current(toHost[j])'
        PROVE  \/ \E i \in DOMAIN toHost' : i < j /\ toHost'[i].kind = "dispose"
               \/ DisposeDone'
    <3>1. /\ j \in Nat /\ j + 1 \in DOMAIN toHost /\ toHost'[j] = toHost[j + 1]
      BY <2>7, HostTail
    <3>2. Current(toHost[j + 1])
      BY <1>1, <2>7, <3>1 DEF Current, IsEdit, IntentIsCurrent
    <3>3. \/ \E i \in DOMAIN toHost : i < j + 1 /\ toHost[i].kind = "dispose"
          \/ DisposeDone
      BY <1>4, <3>1, <3>2 DEF Closings
    <3>4. QED
      BY <2>4, <2>5, <3>1, <3>3, HostTail
  <2>8. Current(m) => DisposeDone
    BY <1>1, <1>4, HostTail DEF Closings, EditsTypeOK
  <2>9. ASSUME NEW j \in DOMAIN toWindow', Current(toWindow[j])'
        PROVE  \E i \in DOMAIN toWindow' : i < j /\ toWindow'[i].kind = "disposed"
    <3>1. CASE j \in DOMAIN toWindow /\ toWindow'[j] = toWindow[j]
      <4>1. Current(toWindow[j])
        BY <1>1, <2>9, <3>1 DEF Current, IsEdit, IntentIsCurrent
      <4>2. QED
        BY <1>4, <2>3, <3>1, <4>1 DEF Closings
    <3>2. CASE toWindow'[j] = a /\ \A i \in DOMAIN toWindow : i < j
      <4>1. Current(m)
        BY <1>1, <2>9, <3>2 DEF Current, IsEdit, IntentIsCurrent
      <4>2. QED
        BY <2>3, <2>8, <3>2, <4>1 DEF DisposeDone
    <3>3. QED
      BY <2>3, <2>9, <3>1, <3>2
  <2>10. QED
    BY <2>6, <2>7, <2>9
<1>6. CASE m.kind \in {"open", "revoke"} /\ UNCHANGED toWindow
  <2>1. DisposeDone => DisposeDone'
    BY <1>6 DEF DisposeDone
  <2>2. \A i \in DOMAIN toHost : toHost[i].kind = "dispose" =>
          i # 1 /\ i - 1 \in DOMAIN toHost' /\ toHost'[i - 1].kind = "dispose"
    BY <1>1, <1>6, HostTail
  <2>3. DisposeSent' \/ DisposeDone'
    BY <1>4, <2>1, <2>2 DEF Closings, DisposeSent
  <2>4. ASSUME NEW j \in DOMAIN toHost', Current(toHost[j])'
        PROVE  \/ \E i \in DOMAIN toHost' : i < j /\ toHost'[i].kind = "dispose"
               \/ DisposeDone'
    <3>1. /\ j \in Nat /\ j + 1 \in DOMAIN toHost /\ toHost'[j] = toHost[j + 1]
      BY <2>4, HostTail
    <3>2. Current(toHost[j + 1])
      BY <1>1, <2>4, <3>1 DEF Current, IsEdit, IntentIsCurrent
    <3>3. \/ \E i \in DOMAIN toHost : i < j + 1 /\ toHost[i].kind = "dispose"
          \/ DisposeDone
      BY <1>4, <3>1, <3>2 DEF Closings
    <3>4. QED
      BY <2>1, <2>2, <3>1, <3>3, HostTail
  <2>5. \A j \in DOMAIN toWindow' : Current(toWindow[j])' =>
          \E i \in DOMAIN toWindow' : i < j /\ toWindow'[i].kind = "disposed"
    BY <1>1, <1>4, <1>6 DEF Closings, Current, IsEdit, IntentIsCurrent
  <2>6. QED
    BY <2>3, <2>4, <2>5
<1>7. CASE m.kind = "dispose" /\ toWindow' = Append(toWindow, [kind |-> "disposed"])
  <2>1. /\ \A i \in DOMAIN toWindow' :
             \/ i \in DOMAIN toWindow /\ toWindow'[i] = toWindow[i]
             \/ toWindow'[i] = [kind |-> "disposed"]
        /\ \A i \in DOMAIN toWindow : i \in DOMAIN toWindow' /\ toWindow'[i] = toWindow[i]
        /\ Len(toWindow) + 1 \in DOMAIN toWindow'
        /\ toWindow'[Len(toWindow) + 1] = [kind |-> "disposed"]
    BY SMTT(30), <1>7, MessageTypes, AppendAt DEF EditsTypeOK
  <2>2. DisposeDone'
    BY <2>1 DEF DisposeDone
  <2>3. \A j \in DOMAIN toWindow' : Current(toWindow[j])' =>
          \E i \in DOMAIN toWindow' : i < j /\ toWindow'[i].kind = "disposed"
    BY <1>1, <1>4, <2>1 DEF Closings, Current, IsEdit, IntentIsCurrent
  <2>4. QED
    BY <2>2, <2>3
<1>8. QED
  BY <1>1, <1>5, <1>6, <1>7, HostEditsStep DEF HostTakes

LEMMA HostOpensClosings == EditsTypeOK /\ Closings /\ HostOpens => Closings'
<1> SUFFICES ASSUME EditsTypeOK, Closings, HostOpens PROVE Closings'
  OBVIOUS
<1>1. /\ UNCHANGED <<closing, shown, values, mounted, intents, toHost>>
      /\ opening \in Nat \ {0}
  BY DEF HostOpens, intentVars, windowVars, EditsTypeOK
<1>2. PICK outcome \in {"accepted", "failed", "unopened", "cancelled"} :
        toWindow' = Append(toWindow, [kind |-> "opened", file |-> opening,
                                         outcome |-> outcome])
  BY DEF HostOpens
<1>3. /\ \A i \in DOMAIN toWindow' :
           \/ i \in DOMAIN toWindow /\ toWindow'[i] = toWindow[i]
           \/ ~IsEdit(toWindow'[i])
      /\ \A i \in DOMAIN toWindow : i \in DOMAIN toWindow' /\ toWindow'[i] = toWindow[i]
  <2>1. [kind |-> "opened", file |-> opening, outcome |-> outcome] \in Reply
    BY <1>1, MessageTypes
  <2>2. QED
    BY <1>2, <2>1, AppendAt DEF EditsTypeOK, IsEdit
<1>4. QED
  BY <1>1, <1>3 DEF Closings, NothingInherited, DisposeSent, DisposeDone,
    Current, IsEdit, IntentIsCurrent

LEMMA TakeOpenedClosings ==
  ASSUME EditsTypeOK, Turns, Closings, WindowTakes, TakeOpened(Head(toWindow))
  PROVE  Closings'
<1> DEFINE a == Head(toWindow)
<1>1. a.kind = "opened" /\ a = toWindow[1] /\ 1 \in DOMAIN toWindow
  BY WindowTail DEF TakeOpened
<1>2. a.file \in Nat \ {0} /\ ~closing /\ ~closing'
  BY <1>1, AnswerType DEF Turns, WindowTakes, TakeOpened
<1>3. CASE Invalidate /\ (shown' = a.file \/ (shown' = 0 /\ mounted' = NoPlayer))
  BY <1>2, <1>3, InvalidateClosings DEF Closings
<1>4. CASE UNCHANGED <<intentVars, shown, mounted>>
  BY <1>2, <1>4 DEF Closings, NothingInherited, intentVars
<1>5. QED
  BY <1>3, <1>4 DEF TakeOpened, TakeAcceptedOpen, Revoke, StayInPreview

LEMMA TakeDisposedClosings ==
  ASSUME EditsTypeOK, Turns, Closings, WindowTakes, TakeDisposed(Head(toWindow))
  PROVE  Closings'
<1>1. closing
  BY WindowTail DEF Turns, TakeDisposed
<1>2. /\ closing' = FALSE /\ shown' = 0 /\ UNCHANGED <<values, mounted>>
  BY DEF TakeDisposed, intentVars
<1>3. QED
  BY <1>1, <1>2 DEF Closings, NothingInherited, NoValue

LEMMA LateClosings ==
  ASSUME EditsTypeOK, Closings, WindowTakes, NEW k, NEW a, Took(k, a), TakeLate(k, a)
  PROVE  Closings'
<1>1. /\ UNCHANGED <<closing, shown, values, mounted, intents, toHost>>
      /\ toWindow # <<>> /\ a = toWindow[1] /\ toWindow' = Tail(toWindow)
      /\ a.kind \in {"apply", "reset"}
  BY DEF Took, TakeLate
<1>2. \A i \in DOMAIN toWindow : toWindow[i].kind = "disposed" =>
        /\ i # 1 /\ i - 1 \in DOMAIN toWindow'
        /\ toWindow'[i - 1].kind = "disposed"
  BY <1>1, WindowTail
<1>3. DisposeDone => DisposeDone'
  BY <1>2 DEF DisposeDone
<1>4. DisposeSent => DisposeSent'
  BY <1>1 DEF DisposeSent
<1>5. ASSUME closing, NEW j \in DOMAIN toWindow', Current(toWindow[j])'
      PROVE  \E i \in DOMAIN toWindow' : i < j /\ toWindow'[i].kind = "disposed"
  <2>1. j \in Nat /\ j + 1 \in DOMAIN toWindow /\ toWindow'[j] = toWindow[j + 1]
    BY <1>1, <1>5, WindowTail
  <2>2. Current(toWindow[j + 1])
    BY <1>1, <1>5, <2>1 DEF Current, IsEdit, IntentIsCurrent
  <2>3. \E i \in DOMAIN toWindow : i < j + 1 /\ toWindow[i].kind = "disposed"
    BY <1>5, <2>1, <2>2 DEF Closings
  <2>4. QED
    BY <1>1, <1>2, <2>1, <2>3, WindowTail
<1>6. QED
  BY <1>1, <1>3, <1>4, <1>5
  DEF Closings, NothingInherited, Current, IsEdit, IntentIsCurrent

LEMMA CurrentClosings ==
  ASSUME EditsTypeOK, Closings, Chained, NEW k, NEW a, Took(k, a),
         Failed(k, a) \/ Result(k, a)
  PROVE  Closings'
<1>1. ~closing /\ shown # 0 /\ ~closing' /\ shown' = shown /\ k \in Keys
  BY CurrentAnswer DEF Failed, Result, Took, Showing
<1>2. NothingInherited'
  <2>1. values \in [Keys -> [source : Nat, value : Edits \cup {None}]]
    BY DEF EditsTypeOK
  <2>2. \A l \in Keys :
          values'[l] = values[l] \/ values'[l].value = None
            \/ values'[l].source = shown
    BY <1>1, <2>1 DEF Failed, Result, NoValue
  <2>3. QED
    BY <1>1, <2>2 DEF Closings, NothingInherited
<1>3. QED
  BY <1>1, <1>2 DEF Closings

-----------------------------------------------------------------------------
(* What is under way comes before what waits.                              *)

LEMMA BehindKept ==
  ASSUME Behind,
         \A i \in DOMAIN toHost' : IsEdit(toHost'[i]) =>
           \E j \in DOMAIN toHost : toHost[j] = toHost'[i],
         \A i \in DOMAIN toWindow' : IsEdit(toWindow'[i]) =>
           \/ \E j \in DOMAIN toWindow : toWindow[j] = toWindow'[i]
           \/ \E j \in DOMAIN toHost :
                /\ IsEdit(toHost[j]) /\ toHost[j].key = toWindow'[i].key
                /\ toHost[j].intent = toWindow'[i].intent,
         UNCHANGED queues
  PROVE  Behind'
<1>1. ASSUME NEW k \in Keys, NEW i \in DOMAIN queues'[k], NEW j \in DOMAIN toHost',
             IsEdit(toHost'[j]), toHost'[j].key = k
      PROVE  toHost'[j].intent.sequence < queues'[k][i].sequence
  BY <1>1 DEF Behind
<1>2. ASSUME NEW k \in Keys, NEW i \in DOMAIN queues'[k], NEW j \in DOMAIN toWindow',
             IsEdit(toWindow'[j]), toWindow'[j].key = k
      PROVE  toWindow'[j].intent.sequence < queues'[k][i].sequence
  BY <1>2 DEF Behind
<1>3. QED
  BY <1>1, <1>2 DEF Behind, IsEdit

LEMMA InvalidateBehind == EditsTypeOK /\ Invalidate => Behind'
BY DEF Invalidate, Behind

LEMMA AskOpenBehind == EditsTypeOK /\ Behind /\ AskOpen => Behind'
<1> SUFFICES ASSUME EditsTypeOK, Behind, AskOpen PROVE Behind'
  OBVIOUS
<1>1. /\ toHost' = Append(toHost, [kind |-> "open", file |-> asked + 1])
      /\ UNCHANGED <<toWindow, queues>> /\ asked + 1 \in Nat \ {0}
  BY DEF AskOpen, intentVars, EditsTypeOK
<1>2. \A i \in DOMAIN toHost' : IsEdit(toHost'[i]) =>
        \E j \in DOMAIN toHost : toHost[j] = toHost'[i]
  BY SMTT(30), <1>1, MessageTypes, AppendAt DEF EditsTypeOK, IsEdit
<1>3. QED
  BY <1>1, <1>2, BehindKept

LEMMA CloseFileBehind == EditsTypeOK /\ CloseFile => Behind'
BY InvalidateBehind DEF CloseFile

LEMMA ShowPreviewBehind == EditsTypeOK /\ Behind /\ ShowPreview => Behind'
BY DEF Behind, ShowPreview, intentVars, IsEdit

LEMMA UpdateBehind ==
  ASSUME EditsTypeOK, Counted, Behind,
         NEW k \in Keys, NEW v \in Edits, UpdateRuntimeText(k, v)
  PROVE  Behind'
<1> DEFINE n == [sequence |-> typed + 1, value |-> v, source |-> shown]
<1>1. /\ queues' = [queues EXCEPT ![k] = Append(queues[k], n)]
      /\ UNCHANGED <<toHost, toWindow>> /\ typed \in Nat
      /\ queues \in [Keys -> Seq(Intent)]
  BY DEF EditsTypeOK, UpdateRuntimeText
<1>2. \A l \in Keys : \A i \in DOMAIN queues'[l] :
        \/ i \in DOMAIN queues[l] /\ queues'[l][i] = queues[l][i]
        \/ queues'[l][i].sequence = typed + 1
  <2>1. n \in Intent
    <3>1. shown \in Nat \ {0} /\ typed + 1 \in Nat \ {0}
      BY DEF EditsTypeOK, UpdateRuntimeText, Counted
    <3>2. QED
      BY <3>1 DEF Intent
  <2>2. \A i \in DOMAIN Append(queues[k], n) :
          \/ i \in DOMAIN queues[k] /\ Append(queues[k], n)[i] = queues[k][i]
          \/ Append(queues[k], n)[i] = n
    BY <1>1, <2>1, AppendAt
  <2>3. QED
    BY <1>1, <2>2
<1>3. \A i \in DOMAIN toHost : IsEdit(toHost[i]) =>
        toHost[i].intent.sequence \in Nat /\ toHost[i].intent.sequence <= typed
  BY MessageIntents DEF Intent, Counted, Typed, TypedBy
<1>4. \A i \in DOMAIN toWindow : IsEdit(toWindow[i]) =>
        toWindow[i].intent.sequence \in Nat /\ toWindow[i].intent.sequence <= typed
  BY MessageIntents DEF Intent, Counted, Typed, TypedBy
<1>5. QED
  BY <1>1, <1>2, <1>3, <1>4 DEF Behind, IsEdit

LEMMA ApplyIntentBehind ==
  ASSUME EditsTypeOK, Queued, Behind, NEW k \in Keys, NEW n \in Intent, Applied(k, n)
  PROVE  Behind'
<1>1. /\ queues[k] \in Seq(Intent) /\ queues[k] # <<>> /\ n = queues[k][1]
      /\ queues' = [queues EXCEPT ![k] = Tail(queues[k])]
      /\ queues \in [Keys -> Seq(Intent)] /\ UNCHANGED toWindow
  BY DEF EditsTypeOK, Applied
<1>2. /\ 1 \in DOMAIN queues[k]
      /\ \A i \in DOMAIN Tail(queues[k]) :
           /\ i \in Nat \ {0} /\ i + 1 \in DOMAIN queues[k]
           /\ Tail(queues[k])[i] = queues[k][i + 1]
  BY <1>1, TailAt
<1>3. \A l \in Keys : \A i \in DOMAIN queues'[l] :
        /\ \E j \in DOMAIN queues[l] : queues'[l][i] = queues[l][j]
        /\ l = k => n.sequence < queues'[l][i].sequence
  <2>1. \A i \in DOMAIN queues'[k] : n.sequence < queues'[k][i].sequence
    BY <1>1, <1>2 DEF Queued
  <2>2. QED
    BY <1>1, <1>2, <2>1
<1>4. \A i \in DOMAIN toHost' :
        \/ i \in DOMAIN toHost /\ toHost'[i] = toHost[i]
        \/ toHost'[i].key = k /\ toHost'[i].intent = n
  <2>1. CASE UNCHANGED toHost
    BY <2>1
  <2>2. CASE \E kind \in {"apply", "reset"} :
               toHost' = Append(toHost, [kind |-> kind, key |-> k, intent |-> n])
    <3>1. PICK kind \in {"apply", "reset"} :
             toHost' = Append(toHost, [kind |-> kind, key |-> k, intent |-> n])
      BY <2>2
    <3>2. [kind |-> kind, key |-> k, intent |-> n] \in Command
      BY MessageTypes
    <3>3. QED
      BY <3>1, <3>2, AppendAt DEF EditsTypeOK
  <2>3. QED
    BY <2>1, <2>2 DEF Applied
<1>5. ASSUME NEW l \in Keys, NEW i \in DOMAIN queues'[l]
      PROVE  /\ \A j \in DOMAIN toHost' : IsEdit(toHost'[j]) /\ toHost'[j].key = l =>
                  toHost'[j].intent.sequence < queues'[l][i].sequence
             /\ \A j \in DOMAIN toWindow' :
                  IsEdit(toWindow'[j]) /\ toWindow'[j].key = l =>
                    toWindow'[j].intent.sequence < queues'[l][i].sequence
  <2>1. PICK h \in DOMAIN queues[l] : queues'[l][i] = queues[l][h]
    BY <1>3, <1>5
  <2>2. l = k => n.sequence < queues'[l][i].sequence
    BY <1>3, <1>5
  <2>3. QED
    BY <1>1, <1>4, <2>1, <2>2 DEF Behind
<1>6. QED
  BY <1>5 DEF Behind, IsEdit

\* An answer the host gives is for the message it took.
LEMMA AnswerGiven ==
  ASSUME EditsTypeOK, toHost # <<>>, HostEdits(Head(toHost))
  PROVE  \E a \in Reply :
           /\ a.kind = Head(toHost).kind /\ a.key = Head(toHost).key
           /\ a.intent = Head(toHost).intent /\ a.model = edited'
           /\ a.status \in {"accepted", "refused", "bare"}
           /\ toWindow' = Append(toWindow, a)
           /\ \A i \in DOMAIN toWindow' :
                \/ i \in DOMAIN toWindow /\ toWindow'[i] = toWindow[i]
                \/ toWindow'[i] = a /\ i = Len(toWindow) + 1
                     /\ \A j \in DOMAIN toWindow : j < i
           /\ \A i \in DOMAIN toWindow :
                i \in DOMAIN toWindow' /\ toWindow'[i] = toWindow[i]
           /\ \/ /\ a.status = "accepted" /\ a.intent.source = hosted
                 /\ edited' = [revision |-> edited.revision + 1,
                               edits |-> [edited.edits EXCEPT ![a.key] = Outcome(a)],
                               ready |-> TRUE]
              \/ /\ a.status = "refused" /\ a.intent.source = hosted
                 /\ edited'.revision = edited.revision
                 /\ edited'.edits = edited.edits
              \/ /\ a.status = "bare"
                 /\ edited' = edited
<1> DEFINE m == Head(toHost)
           a(status) == [kind |-> m.kind, key |-> m.key, intent |-> m.intent,
                         status |-> status, model |-> edited']
<1>1. PICK status \in {"accepted", "refused", "bare"} :
        /\ toWindow' = Append(toWindow, a(status))
        /\ \/ /\ status = "accepted" /\ m.intent.source = hosted
              /\ edited' = [revision |-> edited.revision + 1,
                            edits |-> [edited.edits EXCEPT ![m.key] = Outcome(m)],
                            ready |-> TRUE]
           \/ /\ status = "refused" /\ m.intent.source = hosted
              /\ edited'.revision = edited.revision
              /\ edited'.edits = edited.edits
           \/ /\ status = "bare"
              /\ edited' = edited
  BY DEF HostEdits
<1>2. a(status) \in Reply
  BY HeadType, MessageTypes DEF HostEdits
<1>3. /\ \A i \in DOMAIN toWindow' :
           \/ i \in DOMAIN toWindow /\ toWindow'[i] = toWindow[i]
           \/ toWindow'[i] = a(status) /\ i = Len(toWindow) + 1
                /\ \A j \in DOMAIN toWindow : j < i
      /\ \A i \in DOMAIN toWindow : i \in DOMAIN toWindow' /\ toWindow'[i] = toWindow[i]
  BY <1>1, <1>2, AppendAt DEF EditsTypeOK
<1>4. /\ a(status).kind = m.kind /\ a(status).key = m.key
      /\ a(status).intent = m.intent /\ a(status).model = edited'
      /\ a(status).status = status
  OBVIOUS
<1>5. Outcome(a(status)) = Outcome(m)
  BY <1>4 DEF Outcome
<1> HIDE DEF a
<1>6. QED
  BY <1>1, <1>2, <1>3, <1>4, <1>5

LEMMA HostTakesBehind == EditsTypeOK /\ Behind /\ HostTakes => Behind'
<1> SUFFICES ASSUME EditsTypeOK, Behind, HostTakes PROVE Behind'
  OBVIOUS
<1> DEFINE m == Head(toHost)
<1>1. UNCHANGED queues /\ toHost # <<>>
  BY DEF HostTakes, intentVars
<1>2. \A i \in DOMAIN toHost' : \E j \in DOMAIN toHost : toHost[j] = toHost'[i]
  BY HostTail
<1>3. CASE HostEdits(m)
  <2>1. PICK a \in Reply :
          /\ a.kind = m.kind /\ a.key = m.key /\ a.intent = m.intent
          /\ \A i \in DOMAIN toWindow' :
               \/ i \in DOMAIN toWindow /\ toWindow'[i] = toWindow[i]
               \/ toWindow'[i] = a
    BY <1>1, <1>3, AnswerGiven
  <2>2. \A i \in DOMAIN toWindow' : IsEdit(toWindow'[i]) =>
           \/ \E j \in DOMAIN toWindow : toWindow[j] = toWindow'[i]
           \/ \E j \in DOMAIN toHost :
                /\ IsEdit(toHost[j]) /\ toHost[j].key = toWindow'[i].key
                /\ toHost[j].intent = toWindow'[i].intent
    BY <2>1, HostTail DEF IsEdit
  <2>3. QED
    BY <1>1, <1>2, <2>2, BehindKept
<1>4. CASE toWindow' \in {toWindow, Append(toWindow, [kind |-> "disposed"])}
  <2>1. \A i \in DOMAIN toWindow' : IsEdit(toWindow'[i]) =>
          \E j \in DOMAIN toWindow : toWindow[j] = toWindow'[i]
    <3>1. CASE UNCHANGED toWindow
      BY <3>1
    <3>2. CASE toWindow' = Append(toWindow, [kind |-> "disposed"])
      BY <3>2, MessageTypes, AppendAt DEF EditsTypeOK, IsEdit
    <3>3. QED
      BY <1>4, <3>1, <3>2
  <2>2. QED
    BY <1>1, <1>2, <2>1, BehindKept
<1>5. QED
  BY <1>1, <1>3, <1>4, HostEditsStep DEF HostTakes

LEMMA HostOpensBehind == EditsTypeOK /\ Behind /\ HostOpens => Behind'
<1> SUFFICES ASSUME EditsTypeOK, Behind, HostOpens PROVE Behind'
  OBVIOUS
<1>1. UNCHANGED <<toHost, queues>> /\ opening \in Nat \ {0}
  BY DEF HostOpens, intentVars, EditsTypeOK
<1>2. PICK outcome \in {"accepted", "failed", "unopened", "cancelled"} :
        toWindow' = Append(toWindow, [kind |-> "opened", file |-> opening,
                                         outcome |-> outcome])
  BY DEF HostOpens
<1>3. \A i \in DOMAIN toWindow' : IsEdit(toWindow'[i]) =>
        \E j \in DOMAIN toWindow : toWindow[j] = toWindow'[i]
  BY SMTT(30), <1>1, <1>2, MessageTypes, AppendAt DEF EditsTypeOK, IsEdit
<1>4. QED
  BY <1>1, <1>3, BehindKept

LEMMA WindowTakesBehind == EditsTypeOK /\ Behind /\ WindowTakes => Behind'
<1> SUFFICES ASSUME EditsTypeOK, Behind, WindowTakes PROVE Behind'
  OBVIOUS
<1>1. \A i \in DOMAIN toWindow' : \E j \in DOMAIN toWindow : toWindow[j] = toWindow'[i]
  BY WindowTail
<1>2. CASE Invalidate
  BY <1>2, InvalidateBehind
<1>3. CASE UNCHANGED <<toHost, queues>>
  BY <1>1, <1>3, BehindKept
<1>4. QED
  BY <1>2, <1>3
  DEF WindowTakes, TakeOpened, TakeDisposed, TakeEdited, TakeAcceptedOpen, Revoke,
      StayInPreview, intentVars

-----------------------------------------------------------------------------
(* The chain of a text waits for the one command that is under way.        *)

LEMMA InitChained == EditsInit => Behind /\ Chained /\ Kept
BY DEF EditsInit, Behind, Chained, Kept, Showing

\* Messages that are no edits, and the loss of any, disturb no chain.
LEMMA ChainedKept ==
  ASSUME Chained,
         Showing' => Showing,
         \A i \in DOMAIN toHost' : IsEdit(toHost'[i]) =>
           i \in DOMAIN toHost /\ toHost'[i] = toHost[i],
         \A i \in DOMAIN toWindow' : IsEdit(toWindow'[i]) =>
           i \in DOMAIN toWindow /\ toWindow'[i] = toWindow[i],
         UNCHANGED <<shown, sent, intents>>
  PROVE  Chained'
<1>1. SUFFICES ASSUME Showing' PROVE Chained'
  BY DEF Chained
<1>2. Showing
  BY <1>1
<1>3. QED
  BY <1>1, <1>2 DEF Chained, Live, IsEdit, Awaited, Agrees, Outcome

LEMMA AskOpenChained == EditsTypeOK /\ Chained /\ AskOpen => Chained'
<1> SUFFICES ASSUME EditsTypeOK, Chained, AskOpen PROVE Chained'
  OBVIOUS
<1>1. /\ toHost' = Append(toHost, [kind |-> "open", file |-> asked + 1])
      /\ UNCHANGED <<toWindow, shown, closing, sent, intents>>
      /\ asked + 1 \in Nat \ {0}
  BY DEF AskOpen, intentVars, EditsTypeOK
<1>2. \A i \in DOMAIN toHost' : IsEdit(toHost'[i]) =>
        i \in DOMAIN toHost /\ toHost'[i] = toHost[i]
  BY SMTT(30), <1>1, MessageTypes, AppendAt DEF EditsTypeOK, IsEdit
<1>3. Showing' => Showing
  BY <1>1 DEF Showing
<1>4. QED
  BY <1>1, <1>2, <1>3, ChainedKept

LEMMA UpdateChained ==
  ASSUME EditsTypeOK, Counted, Chained,
         NEW k \in Keys, NEW v \in Edits, UpdateRuntimeText(k, v)
  PROVE  Chained'
<1>1. /\ intents' = [intents EXCEPT ![k] =
                   [sequence |-> typed + 1, value |-> v, state |-> "pending"]]
      /\ UNCHANGED <<toHost, toWindow, closing, shown, sent>>
      /\ typed \in Nat /\ intents \in [Keys -> Newest]
  BY DEF UpdateRuntimeText, windowVars, EditsTypeOK
<1>2. \A l \in Keys : intents'[l] = intents[l] \/ intents'[l].sequence = typed + 1
  BY <1>1
<1>3. \A i \in DOMAIN toHost : IsEdit(toHost[i]) =>
        /\ toHost[i].key \in Keys /\ toHost[i].intent.sequence # typed + 1
  BY <1>1, MessageIntents DEF Intent, Counted, Typed, TypedBy
<1>4. \A i \in DOMAIN toWindow : IsEdit(toWindow[i]) =>
        /\ toWindow[i].key \in Keys /\ toWindow[i].intent.sequence # typed + 1
  BY <1>1, MessageIntents DEF Intent, Counted, Typed, TypedBy
<1>5. \A i \in DOMAIN toHost :
        IsEdit(toHost[i]) /\ Agrees(toHost[i]) => Agrees(toHost[i])'
  BY <1>1, <1>2, <1>3 DEF Agrees, Outcome
<1>6. \A i \in DOMAIN toWindow :
        IsEdit(toWindow[i]) /\ Agrees(toWindow[i]) => Agrees(toWindow[i])'
  BY <1>1, <1>2, <1>4 DEF Agrees, Outcome
<1>7. QED
  BY <1>1, <1>5, <1>6 DEF Chained, Showing, Live, IsEdit, Awaited

LEMMA ApplyIntentChained ==
  ASSUME EditsTypeOK, Queued, Behind, Chained,
         NEW k \in Keys, NEW n \in Intent, Applied(k, n)
  PROVE  Chained'
<1>1. /\ queues[k] \in Seq(Intent) /\ queues[k] # <<>> /\ n = queues[k][1]
      /\ sent \in [Keys -> Nat] /\ intents \in [Keys -> Newest]
      /\ UNCHANGED <<toWindow, shown, closing>> /\ n.sequence # 0
      /\ sent[k] = 0
  BY DEF EditsTypeOK, Applied, Intent
<1>2. 1 \in DOMAIN queues[k]
  BY <1>1, TailAt
<1>3. CASE UNCHANGED <<intents, sent, toHost>>
  BY <1>1, <1>3 DEF Chained, Showing, Live, IsEdit, Awaited, Agrees, Outcome
<1>4. CASE intents' = [intents EXCEPT ![k].state = "failed"] /\ UNCHANGED <<sent, toHost>>
  <2>1. \A l \in Keys : /\ intents'[l].sequence = intents[l].sequence
                        /\ intents'[l].value = intents[l].value
    <3>1. \A l \in Keys : intents[l] \in Newest
      BY <1>1
    <3>2. QED
      BY <1>1, <1>4, <3>1 DEF Newest
  <2>2. \A i \in DOMAIN toHost :
          IsEdit(toHost[i]) /\ Agrees(toHost[i]) => Agrees(toHost[i])'
    BY <1>4, <2>1, MessageIntents DEF Agrees, Outcome
  <2>3. \A i \in DOMAIN toWindow :
          IsEdit(toWindow[i]) /\ Agrees(toWindow[i]) => Agrees(toWindow[i])'
    BY <1>1, <2>1, MessageIntents DEF Agrees, Outcome
  <2>4. QED
    BY <1>1, <1>4, <2>2, <2>3 DEF Chained, Showing, Live, IsEdit, Awaited
<1>5. CASE /\ IntentIsCurrent(k, n) /\ UNCHANGED intents
           /\ sent' = [sent EXCEPT ![k] = n.sequence]
           /\ \E kind \in {"apply", "reset"} :
                /\ kind = "reset" <=> n.value = Source
                /\ toHost' = Append(toHost, [kind |-> kind, key |-> k, intent |-> n])
  <2>1. SUFFICES ASSUME Showing PROVE Chained'
    BY <1>1 DEF Chained, Showing
  <2>2. PICK e \in Command :
          /\ toHost' = Append(toHost, e) /\ e.key = k /\ e.intent = n
          /\ e.kind \in {"apply", "reset"} /\ Outcome(e) = n.value
    <3>1. PICK kind \in {"apply", "reset"} :
             /\ kind = "reset" <=> n.value = Source
             /\ toHost' = Append(toHost, [kind |-> kind, key |-> k, intent |-> n])
      BY <1>5
    <3>2. [kind |-> kind, key |-> k, intent |-> n] \in Command
      BY MessageTypes
    <3>3. Outcome([kind |-> kind, key |-> k, intent |-> n]) = n.value
      BY <3>1 DEF Outcome
    <3>4. QED
      BY <3>1, <3>2, <3>3
  <2>3. \A i \in DOMAIN toHost' :
          \/ i \in DOMAIN toHost /\ toHost'[i] = toHost[i]
          \/ toHost'[i] = e /\ i = Len(toHost) + 1
    BY <2>2, AppendAt DEF EditsTypeOK
  <2>4. \A i \in DOMAIN toHost : IsEdit(toHost[i]) /\ toHost[i].key = k =>
          (~Live(toHost[i])) /\ toHost[i].intent.sequence # n.sequence
    <3>1. \A i \in DOMAIN toHost : IsEdit(toHost[i]) /\ toHost[i].key = k =>
            /\ toHost[i].intent.sequence \in Nat \ {0}
            /\ toHost[i].intent.sequence < n.sequence
      BY <1>1, <1>2, MessageIntents DEF Behind, Intent
    <3>2. n.sequence \in Nat
      BY DEF Intent
    <3>3. QED
      BY <1>1, <2>1, <3>1, <3>2 DEF Chained, Awaited
  <2>5. \A i \in DOMAIN toWindow : IsEdit(toWindow[i]) /\ toWindow[i].key = k =>
          (~Live(toWindow[i])) /\ toWindow[i].intent.sequence # n.sequence
    <3>1. \A i \in DOMAIN toWindow : IsEdit(toWindow[i]) /\ toWindow[i].key = k =>
            /\ toWindow[i].intent.sequence \in Nat \ {0}
            /\ toWindow[i].intent.sequence < n.sequence
      BY <1>1, <1>2, MessageIntents DEF Behind, Intent
    <3>2. n.sequence \in Nat
      BY DEF Intent
    <3>3. QED
      BY <1>1, <2>1, <3>1, <3>2 DEF Chained, Awaited
  <2>6. /\ IsEdit(e)' /\ Live(e)' /\ Awaited(e)' /\ Agrees(e)'
    BY <1>1, <1>2, <1>5, <2>2
    DEF IsEdit, Live, Awaited, Agrees, IntentIsCurrent, Queued, Outcome
  <2>7. \A m : IsEdit(m) /\ m.key \in Keys /\ m.key # k =>
          /\ Live(m)' <=> Live(m)
          /\ Awaited(m)' <=> Awaited(m)
          /\ Agrees(m)' <=> Agrees(m)
    BY <1>1, <1>5 DEF Live, Awaited, Agrees, IsEdit, Outcome
  <2>8. \A m : IsEdit(m) /\ m.key = k =>
          /\ Live(m)' <=> Live(m)
          /\ Awaited(m)' <=> n.sequence = m.intent.sequence
    BY <1>1, <1>5 DEF Live, Awaited, IsEdit
  <2>9. ASSUME NEW i \in DOMAIN toHost', IsEdit(toHost'[i])
        PROVE  \E m \in Command :
                 /\ m = toHost'[i] /\ (Live(m)' <=> Awaited(m)')
                 /\ Live(m)' => Agrees(m)'
    <3>1. CASE i \in DOMAIN toHost /\ toHost'[i] = toHost[i]
      <4>1. IsEdit(toHost[i]) /\ toHost[i].key \in Keys /\ toHost[i] \in Command
        BY <2>9, <3>1, MessageIntents DEF IsEdit, EditsTypeOK
      <4>2. CASE toHost[i].key = k
        BY <2>4, <2>8, <3>1, <4>1, <4>2
      <4>3. CASE toHost[i].key # k
        BY <2>1, <2>7, <3>1, <4>1, <4>3 DEF Chained
      <4>4. QED
        BY <4>2, <4>3
    <3>2. CASE toHost'[i] = e
      BY <2>2, <2>6, <3>2
    <3>3. QED
      BY <2>3, <2>9, <3>1, <3>2
  <2>10. ASSUME NEW i \in DOMAIN toWindow, IsEdit(toWindow[i])
         PROVE  \E m \in Reply :
                  /\ m = toWindow[i] /\ (Live(m)' <=> Awaited(m)')
                  /\ Live(m)' => Agrees(m)' /\ Live(m) /\ m.key # k
    <3>1. toWindow[i].key \in Keys /\ toWindow[i] \in Reply
      BY <2>10, MessageIntents DEF EditsTypeOK
    <3>2. CASE toWindow[i].key = k
      BY <2>5, <2>8, <2>10, <3>1, <3>2
    <3>3. CASE toWindow[i].key # k
      BY <2>1, <2>7, <2>10, <3>1, <3>3 DEF Chained
    <3>4. QED
      BY <3>2, <3>3
  <2>11. \A i \in DOMAIN toHost' : (IsEdit(toHost'[i]) /\ toHost'[i].intent.source = shown) =>
           \/ toHost'[i] = e /\ i = Len(toHost) + 1
           \/ i \in DOMAIN toHost /\ toHost'[i] = toHost[i] /\ Live(toHost[i])
                /\ toHost[i].key # k
    BY <2>3, <2>4 DEF Live
  <2>12. \A i, j \in DOMAIN toHost' :
           /\ IsEdit(toHost'[i]) /\ toHost'[i].intent.source = shown
           /\ IsEdit(toHost'[j]) /\ toHost'[j].intent.source = shown
           /\ toHost'[i].key = toHost'[j].key
           => i = j
    BY <2>1, <2>2, <2>11 DEF Chained
  <2>13. \A i \in DOMAIN toHost', j \in DOMAIN toWindow :
           /\ IsEdit(toHost'[i]) /\ toHost'[i].intent.source = shown /\ Live(toWindow[j])
           => toHost'[i].key # toWindow[j].key
    BY <2>1, <2>2, <2>5, <2>11 DEF Chained, Live
  <2>14. \A i \in DOMAIN toHost' : IsEdit(toHost'[i]) =>
           /\ Live(toHost[i])' <=> Awaited(toHost[i])'
           /\ Live(toHost[i])' => Agrees(toHost[i])'
    BY <2>9 DEF Live, Awaited, Agrees, IsEdit, Outcome
  <2>15. \A i \in DOMAIN toWindow : IsEdit(toWindow[i]) =>
           /\ Live(toWindow[i])' <=> Awaited(toWindow[i])'
           /\ Live(toWindow[i])' => Agrees(toWindow[i])'
    BY <1>1, <2>10 DEF Live, Awaited, Agrees, IsEdit, Outcome
  <2>16. \A i, j \in DOMAIN toWindow :
           Live(toWindow[i])' /\ Live(toWindow[j])' /\ toWindow[i].key = toWindow[j].key
             => i = j
    BY <1>1, <2>1 DEF Chained, Live, IsEdit
  <2>17. QED
    BY <1>1, <2>12, <2>13, <2>14, <2>15, <2>16 DEF Chained, Live, IsEdit
<1>6. QED
  BY <1>3, <1>4, <1>5 DEF Applied

LEMMA HostTakesChained == EditsTypeOK /\ Chained /\ HostTakes => Chained'
<1> SUFFICES ASSUME EditsTypeOK, Chained, HostTakes PROVE Chained'
  OBVIOUS
<1> DEFINE h == Head(toHost)
<1>1. /\ UNCHANGED <<closing, shown, sent, intents>>
      /\ toHost # <<>> /\ h = toHost[1] /\ 1 \in DOMAIN toHost
  BY HostTail DEF HostTakes, intentVars, windowVars
<1>3. SUFFICES ASSUME Showing PROVE Chained'
  BY <1>1 DEF Chained, Showing
<1>4. \A i \in DOMAIN toHost' : \E j \in DOMAIN toHost :
        j # 1 /\ j = i + 1 /\ i \in Nat /\ toHost'[i] = toHost[j]
  BY HostTail
<1>5. /\ \A i \in DOMAIN toHost' : IsEdit(toHost'[i]) =>
           /\ Live(toHost[i])' <=> Awaited(toHost[i])'
           /\ Live(toHost[i])' => Agrees(toHost[i])'
      /\ \A i, j \in DOMAIN toHost' :
           Live(toHost[i])' /\ Live(toHost[j])' /\ toHost'[i].key = toHost'[j].key
             => i = j
  BY <1>1, <1>3, <1>4 DEF Chained, Live, IsEdit, Awaited, Agrees, Outcome
<1>6. CASE HostEdits(h)
  <2>1. PICK a \in Reply :
          /\ a.kind = h.kind /\ a.key = h.key /\ a.intent = h.intent
          /\ \A i \in DOMAIN toWindow' :
               \/ i \in DOMAIN toWindow /\ toWindow'[i] = toWindow[i]
               \/ toWindow'[i] = a /\ i = Len(toWindow) + 1
    BY <1>1, <1>6, AnswerGiven
  <2>2. /\ IsEdit(a) /\ (Live(a) <=> Live(h)) /\ (Awaited(a) <=> Awaited(h))
        /\ (Agrees(a) <=> Agrees(h)) /\ IsEdit(h)
    BY <1>6, <2>1 DEF HostEdits, IsEdit, Live, Awaited, Agrees, Outcome
  <2>3. (Live(h) <=> Awaited(h)) /\ (Live(h) => Agrees(h))
    BY <1>1, <1>3, <2>2 DEF Chained
  <2>4. \A i \in DOMAIN toWindow' : IsEdit(toWindow'[i]) =>
          \E m \in Reply :
            /\ m = toWindow'[i]
            /\ Live(m) <=> Awaited(m)
            /\ Live(m) => Agrees(m)
    BY <1>3, <2>1, <2>2, <2>3 DEF Chained, EditsTypeOK
  <2>5. \A i \in DOMAIN toWindow' : IsEdit(toWindow'[i]) =>
          /\ Live(toWindow[i])' <=> Awaited(toWindow[i])'
          /\ Live(toWindow[i])' => Agrees(toWindow[i])'
    BY <1>1, <2>4 DEF Live, IsEdit, Awaited, Agrees, Outcome
  <2>6. \A j \in DOMAIN toWindow : Live(h) /\ Live(toWindow[j]) => h.key # toWindow[j].key
    BY <1>1, <1>3 DEF Chained
  <2>7. \A i, j \in DOMAIN toWindow' :
          Live(toWindow[i])' /\ Live(toWindow[j])' /\ toWindow'[i].key = toWindow'[j].key
            => i = j
    BY <1>1, <1>3, <2>1, <2>2, <2>6 DEF Chained, Live, IsEdit
  <2>8. \A i \in DOMAIN toHost', j \in DOMAIN toWindow' :
          Live(toHost[i])' /\ Live(toWindow[j])' => toHost'[i].key # toWindow'[j].key
    BY <1>1, <1>3, <1>4, <2>1, <2>2 DEF Chained, Live, IsEdit
  <2>9. QED
    BY <1>5, <2>5, <2>7, <2>8 DEF Chained, Live, IsEdit
<1>7. CASE \A i \in DOMAIN toWindow' : IsEdit(toWindow'[i]) =>
             i \in DOMAIN toWindow /\ toWindow'[i] = toWindow[i]
  <2>1. /\ \A i \in DOMAIN toWindow' : IsEdit(toWindow'[i]) =>
             /\ Live(toWindow[i])' <=> Awaited(toWindow[i])'
             /\ Live(toWindow[i])' => Agrees(toWindow[i])'
        /\ \A i, j \in DOMAIN toWindow' :
             Live(toWindow[i])' /\ Live(toWindow[j])' /\ toWindow'[i].key = toWindow'[j].key
               => i = j
    BY <1>1, <1>3, <1>7 DEF Chained, Live, IsEdit, Awaited, Agrees, Outcome
  <2>2. \A i \in DOMAIN toHost', j \in DOMAIN toWindow' :
          Live(toHost[i])' /\ Live(toWindow[j])' => toHost'[i].key # toWindow'[j].key
    BY <1>1, <1>3, <1>4, <1>7 DEF Chained, Live, IsEdit
  <2>3. QED
    BY <1>5, <2>1, <2>2 DEF Chained, Live, IsEdit
<1>8. CASE toWindow' = Append(toWindow, [kind |-> "disposed"])
  <2>1. \A i \in DOMAIN toWindow' : IsEdit(toWindow'[i]) =>
          i \in DOMAIN toWindow /\ toWindow'[i] = toWindow[i]
    BY <1>8, MessageTypes, AppendAt DEF EditsTypeOK, IsEdit
  <2>2. QED
    BY <1>7, <2>1
<1>9. CASE UNCHANGED toWindow
  BY <1>7, <1>9
<1>10. QED
  BY <1>1, <1>6, <1>8, <1>9, HostEditsStep DEF HostTakes

LEMMA HostOpensChained == EditsTypeOK /\ Chained /\ HostOpens => Chained'
<1> SUFFICES ASSUME EditsTypeOK, Chained, HostOpens PROVE Chained'
  OBVIOUS
<1>1. UNCHANGED <<toHost, shown, closing, sent, intents>> /\ opening \in Nat \ {0}
  BY DEF HostOpens, intentVars, windowVars, EditsTypeOK
<1>2. PICK outcome \in {"accepted", "failed", "unopened", "cancelled"} :
        toWindow' = Append(toWindow, [kind |-> "opened", file |-> opening,
                                         outcome |-> outcome])
  BY DEF HostOpens
<1>3. \A i \in DOMAIN toWindow' : IsEdit(toWindow'[i]) =>
        i \in DOMAIN toWindow /\ toWindow'[i] = toWindow[i]
  BY SMTT(30), <1>1, <1>2, MessageTypes, AppendAt DEF EditsTypeOK, IsEdit
<1>4. Showing' => Showing
  BY <1>1 DEF Showing
<1>5. QED
  BY <1>1, <1>3, <1>4, ChainedKept

LEMMA TakeOpenedChained ==
  ASSUME EditsTypeOK, Turns, Counted, Chained, WindowTakes, TakeOpened(Head(toWindow))
  PROVE  Chained'
<1> DEFINE a == Head(toWindow)
<1>1. /\ a.kind = "opened" /\ a.file = asked /\ waiting /\ UNCHANGED closing
  BY WindowTail DEF TakeOpened, Turns
<1>2. \A i \in DOMAIN toWindow' : \E j \in DOMAIN toWindow :
        j = i + 1 /\ i \in Nat /\ toWindow'[i] = toWindow[j]
  BY WindowTail
<1>3. CASE Revoke
  BY <1>3 DEF Chained, Showing, Revoke
<1>4. CASE TakeAcceptedOpen(a) /\ UNCHANGED toHost
  <2>1. \A i \in DOMAIN toHost : IsEdit(toHost[i]) =>
          /\ toHost[i].intent.source # asked /\ toHost[i].key \in Keys
          /\ toHost[i].intent.sequence # 0
    BY <1>1, MessageIntents DEF Counted, Typed, TypedBy, Intent
  <2>2. \A i \in DOMAIN toWindow : IsEdit(toWindow[i]) =>
          /\ toWindow[i].intent.source # asked /\ toWindow[i].key \in Keys
          /\ toWindow[i].intent.sequence # 0
    BY <1>1, MessageIntents DEF Counted, Typed, TypedBy, Intent
  <2>3. shown' = asked /\ \A k \in Keys : sent'[k] = 0
    BY <1>1, <1>4 DEF TakeAcceptedOpen, Invalidate
  <2>4. \A i \in DOMAIN toHost' : IsEdit(toHost[i])' =>
          (~Live(toHost[i])') /\ ~Awaited(toHost[i])'
    BY <1>4, <2>1, <2>3 DEF Live, Awaited, IsEdit
  <2>5. \A i \in DOMAIN toWindow' : IsEdit(toWindow[i])' =>
          (~Live(toWindow[i])') /\ ~Awaited(toWindow[i])'
    BY <1>2, <2>2, <2>3 DEF Live, Awaited, IsEdit
  <2>6. QED
    BY <2>4, <2>5 DEF Chained, Live
<1>5. CASE UNCHANGED <<intentVars, shown, toHost>>
  <2>1. UNCHANGED <<sent, intents>>
    BY <1>5 DEF intentVars
  <2>2. SUFFICES ASSUME Showing PROVE Chained'
    BY <1>1, <1>5 DEF Chained, Showing
  <2>3. QED
    BY <1>2, <1>5, <2>1, <2>2
    DEF Chained, Showing, Live, IsEdit, Awaited, Agrees, Outcome
<1>6. QED
  BY <1>3, <1>4, <1>5 DEF TakeOpened, StayInPreview

LEMMA TookChained ==
  ASSUME EditsTypeOK, Closings, Chained, WindowTakes, NEW k, NEW a, Took(k, a),
         TakeLate(k, a) \/ Failed(k, a) \/ Result(k, a)
  PROVE  Chained'
<1>1. /\ UNCHANGED <<toHost, shown, closing>>
      /\ k \in Keys /\ k = a.key /\ a = toWindow[1] /\ IsEdit(a)
      /\ sent \in [Keys -> Nat] /\ intents \in [Keys -> Newest]
      /\ sent' = [sent EXCEPT ![k] = IF @ = a.intent.sequence THEN 0 ELSE @]
      /\ 1 \in DOMAIN toWindow /\ a.intent \in Intent
  BY WindowTail DEF Took, EditsTypeOK, IsEdit
<1>2. \A l \in Keys :
        /\ intents'[l].sequence = intents[l].sequence
        /\ intents'[l].value = intents[l].value
  <2>1. CASE UNCHANGED intents
    BY <2>1
  <2>2. ASSUME NEW how, intents' = [intents EXCEPT ![k].state = how]
        PROVE  \A l \in Keys :
                 /\ intents'[l].sequence = intents[l].sequence
                 /\ intents'[l].value = intents[l].value
    <3>1. \A l \in Keys : intents[l] \in Newest
      BY <1>1
    <3>2. QED
      BY <1>1, <2>2, <3>1 DEF Newest
  <2>3. QED
    BY <2>1, <2>2 DEF TakeLate, Failed, Result
<1>3. \A i \in DOMAIN toWindow' : \E j \in DOMAIN toWindow :
        j # 1 /\ j = i + 1 /\ i \in Nat /\ toWindow'[i] = toWindow[j]
  BY WindowTail
<1>4. SUFFICES ASSUME Showing PROVE Chained'
  BY <1>1 DEF Chained, Showing
<1>5. Live(a) <=> Awaited(a)
  BY <1>1, <1>4 DEF Chained
\* Whatever else is under way for the text is of another file.
<1>6. \A i \in DOMAIN toHost : IsEdit(toHost[i]) =>
        /\ Live(toHost[i]) <=> Awaited(toHost[i])'
        /\ Live(toHost[i]) => Agrees(toHost[i])'
  <2>1. ASSUME NEW i \in DOMAIN toHost, IsEdit(toHost[i])
        PROVE  /\ Live(toHost[i]) <=> Awaited(toHost[i])'
               /\ Live(toHost[i]) => Agrees(toHost[i])'
    <3>1. /\ toHost[i].key \in Keys /\ toHost[i].intent \in Intent
          /\ toHost[i].intent.sequence # 0
      BY <2>1, MessageIntents DEF Intent
    <3>2. Live(toHost[i]) => Agrees(toHost[i])'
      BY <1>1, <1>2, <1>4, <2>1, <3>1 DEF Chained, Agrees, Outcome
    <3>3. CASE toHost[i].key # k
      BY <1>1, <1>4, <2>1, <3>1, <3>2, <3>3 DEF Chained, Awaited
    <3>4. CASE toHost[i].key = k
      <4>1. Live(a) => ~Live(toHost[i])
        BY <1>1, <1>4, <3>4 DEF Chained
      <4>2. Live(toHost[i]) <=> sent[k] = toHost[i].intent.sequence
        BY <1>4, <2>1, <3>4 DEF Chained, Awaited
      <4>3. CASE Live(a)
        BY <1>1, <1>5, <3>1, <3>2, <3>4, <4>1, <4>2, <4>3 DEF Awaited
      <4>4. CASE ~Live(a)
        BY <1>1, <1>5, <3>1, <3>2, <3>4, <4>2, <4>4 DEF Awaited
      <4>5. QED
        BY <4>3, <4>4
    <3>5. QED
      BY <3>3, <3>4
  <2>2. QED
    BY <2>1
<1>7. \A i \in DOMAIN toWindow : i # 1 /\ IsEdit(toWindow[i]) =>
        /\ Live(toWindow[i]) <=> sent'[toWindow[i].key] = toWindow[i].intent.sequence
        /\ Live(toWindow[i]) /\ intents'[toWindow[i].key].sequence
                                  = toWindow[i].intent.sequence =>
             intents'[toWindow[i].key].value = Outcome(toWindow[i])
  <2>1. ASSUME NEW i \in DOMAIN toWindow, i # 1, IsEdit(toWindow[i])
        PROVE  /\ Live(toWindow[i]) <=>
                    sent'[toWindow[i].key] = toWindow[i].intent.sequence
               /\ Live(toWindow[i]) /\ intents'[toWindow[i].key].sequence
                                         = toWindow[i].intent.sequence =>
                    intents'[toWindow[i].key].value = Outcome(toWindow[i])
    <3>1. /\ toWindow[i].key \in Keys /\ toWindow[i].intent \in Intent
          /\ toWindow[i].intent.sequence # 0
      BY <2>1, MessageIntents DEF Intent
    <3>2. Live(toWindow[i]) /\ intents'[toWindow[i].key].sequence
                                         = toWindow[i].intent.sequence =>
                    intents'[toWindow[i].key].value = Outcome(toWindow[i])
      BY <1>2, <1>4, <2>1, <3>1 DEF Chained, Agrees
    <3>3. CASE toWindow[i].key # k
      BY <1>1, <1>4, <2>1, <3>1, <3>2, <3>3 DEF Chained, Awaited
    <3>4. CASE toWindow[i].key = k
      <4>1. Live(a) => ~Live(toWindow[i])
        BY <1>1, <1>4, <2>1, <3>4 DEF Chained
      <4>2. Live(toWindow[i]) <=> sent[k] = toWindow[i].intent.sequence
        BY <1>4, <2>1, <3>4 DEF Chained, Awaited
      <4>3. CASE Live(a)
        BY <1>1, <1>5, <3>1, <3>2, <3>4, <4>1, <4>2, <4>3 DEF Awaited
      <4>4. CASE ~Live(a)
        BY <1>1, <1>5, <3>1, <3>2, <3>4, <4>2, <4>4 DEF Awaited
      <4>5. QED
        BY <4>3, <4>4
    <3>5. QED
      BY <3>3, <3>4
  <2>2. QED
    BY <2>1
<1>8. \A i \in DOMAIN toWindow' : IsEdit(toWindow'[i]) =>
        /\ Live(toWindow[i])' <=> Awaited(toWindow[i])'
        /\ Live(toWindow[i])' => Agrees(toWindow[i])'
  BY <1>1, <1>3, <1>7 DEF Live, IsEdit, Awaited, Agrees, Outcome
<1>9. \A i \in DOMAIN toHost' : IsEdit(toHost'[i]) =>
        /\ Live(toHost[i])' <=> Awaited(toHost[i])'
        /\ Live(toHost[i])' => Agrees(toHost[i])'
  BY <1>1, <1>6 DEF Live, IsEdit
<1>10. /\ \A i, j \in DOMAIN toHost' :
            Live(toHost[i])' /\ Live(toHost[j])' /\ toHost'[i].key = toHost'[j].key
              => i = j
       /\ \A i, j \in DOMAIN toWindow' :
            Live(toWindow[i])' /\ Live(toWindow[j])'
                /\ toWindow'[i].key = toWindow'[j].key
              => i = j
       /\ \A i \in DOMAIN toHost', j \in DOMAIN toWindow' :
            Live(toHost[i])' /\ Live(toWindow[j])' => toHost'[i].key # toWindow'[j].key
  BY <1>1, <1>3, <1>4 DEF Chained, Live, IsEdit
<1>11. QED
  BY <1>8, <1>9, <1>10 DEF Chained, Live, IsEdit

-----------------------------------------------------------------------------
(* What is accepted is kept.                                               *)

LEMMA AskOpenKept == Kept /\ AskOpen => Kept'
BY DEF Kept, AskOpen, Showing, intentVars, hostVars

LEMMA ShowPreviewKept == Chained /\ Kept /\ ShowPreview => Chained' /\ Kept'
BY DEF Kept, Chained, ShowPreview, Showing, intentVars, hostVars, Live, IsEdit, Awaited,
  Agrees, Outcome

LEMMA UpdateKept ==
  ASSUME EditsTypeOK, Kept, NEW k \in Keys, NEW v \in Edits, UpdateRuntimeText(k, v)
  PROVE  Kept'
<1>1. /\ intents' = [intents EXCEPT ![k] =
                   [sequence |-> typed + 1, value |-> v, state |-> "pending"]]
      /\ UNCHANGED <<closing, shown, sent, hosted, edited>>
      /\ intents \in [Keys -> Newest]
  BY DEF UpdateRuntimeText, windowVars, hostVars, EditsTypeOK
<1>2. \A l \in Keys : intents'[l] = intents[l] \/ intents'[l].state = "pending"
  BY <1>1
<1>3. QED
  BY <1>1, <1>2 DEF Kept, Showing

LEMMA ApplyIntentKept ==
  ASSUME EditsTypeOK, Queued, Kept, NEW k \in Keys, NEW n \in Intent, Applied(k, n)
  PROVE  Kept'
<1>1. /\ queues[k] \in Seq(Intent) /\ queues[k] # <<>> /\ n = queues[k][1]
      /\ sent \in [Keys -> Nat] /\ intents \in [Keys -> Newest]
      /\ UNCHANGED <<shown, closing, hosted, edited>>
  BY DEF EditsTypeOK, Applied, hostVars
<1>2. IntentIsCurrent(k, n) => intents[k].state = "pending"
  BY <1>1, TailAt DEF IntentIsCurrent, Queued
<1>3. \A l \in Keys :
        \/ intents'[l] = intents[l] /\ sent'[l] = sent[l]
        \/ intents'[l].state # "accepted"
  <2>1. CASE UNCHANGED <<intents, sent>>
    BY <2>1
  <2>2. CASE intents' = [intents EXCEPT ![k].state = "failed"] /\ UNCHANGED sent
    <3>1. \A l \in Keys : intents[l] \in Newest
      BY <1>1
    <3>2. QED
      BY <1>1, <2>2, <3>1 DEF Newest
  <2>3. CASE /\ IntentIsCurrent(k, n) /\ UNCHANGED intents
             /\ sent' = [sent EXCEPT ![k] = n.sequence]
    BY <1>1, <1>2, <2>3
  <2>4. QED
    BY <2>1, <2>2, <2>3 DEF Applied
<1>4. QED
  BY <1>1, <1>3 DEF Kept, Showing

LEMMA HostTakesKept == EditsTypeOK /\ Chained /\ Kept /\ HostTakes => Kept'
<1> SUFFICES ASSUME EditsTypeOK, Chained, Kept, HostTakes PROVE Kept'
  OBVIOUS
<1> DEFINE h == Head(toHost)
<1>1. /\ UNCHANGED <<closing, shown, sent, intents>>
      /\ toHost # <<>> /\ h = toHost[1] /\ 1 \in DOMAIN toHost
  BY HostTail DEF HostTakes, intentVars, windowVars
<1>2. SUFFICES ASSUME Showing, NEW k \in Keys, intents[k].state = "accepted",
                      hosted' = shown
               PROVE  edited'.edits[k] = intents[k].value
  BY <1>1 DEF Kept, Showing
<1>3. sent[k] = 0
  BY <1>2 DEF Kept
<1>4. CASE HostEdits(h)
  <2>1. PICK a \in Reply :
          /\ a.kind = h.kind /\ a.key = h.key /\ a.intent = h.intent
          /\ \/ /\ a.status = "accepted" /\ a.intent.source = hosted
                /\ edited' = [revision |-> edited.revision + 1,
                              edits |-> [edited.edits EXCEPT ![a.key] = Outcome(a)],
                              ready |-> TRUE]
             \/ /\ a.status = "refused" /\ a.intent.source = hosted
                /\ edited'.edits = edited.edits
             \/ /\ a.status = "bare"
                /\ edited' = edited
    BY <1>1, <1>4, AnswerGiven
  <2>2. hosted = shown /\ IsEdit(h) /\ h.key \in Keys
        /\ h.intent \in Intent
    BY <1>1, <1>2, <1>4, HeadType DEF HostEdits, IsEdit
  <2>3. edited.edits[k] = intents[k].value /\ edited \in Record
    BY <1>2, <2>2 DEF Kept, EditsTypeOK
  <2>4. CASE edited'.edits = edited.edits
    BY <2>3, <2>4
  <2>5. CASE /\ a.intent.source = hosted
             /\ edited' = [revision |-> edited.revision + 1,
                           edits |-> [edited.edits EXCEPT ![a.key] = Outcome(a)],
                           ready |-> TRUE]
    <3>1. Live(h)
      BY <2>1, <2>2, <2>5 DEF Live
    <3>2. h.key # k
      BY <1>1, <1>2, <1>3, <2>2, <3>1 DEF Chained, Awaited, Intent
    <3>3. edited'.edits[k] = edited.edits[k]
      BY <2>1, <2>3, <2>5, <3>2 DEF Record
    <3>4. QED
      BY <2>3, <3>3
  <2>6. QED
    BY <2>1, <2>4, <2>5
<1>5. CASE UNCHANGED <<hosted, edited>>
  BY <1>2, <1>5 DEF Kept
<1>6. CASE hosted' = 0
  BY <1>2, <1>6 DEF Showing
<1>7. QED
  BY <1>1, <1>4, <1>5, <1>6, HostEditsStep DEF HostTakes

LEMMA HostOpensKept == EditsTypeOK /\ Turns /\ Counted /\ Kept /\ HostOpens => Kept'
<1> SUFFICES ASSUME EditsTypeOK, Turns, Counted, Kept, HostOpens PROVE Kept'
  OBVIOUS
<1>1. /\ UNCHANGED <<closing, shown, sent, intents>>
      /\ opening = asked /\ waiting /\ shown # asked
  BY DEF HostOpens, intentVars, windowVars, Turns, Counted
<1>2. PICK outcome \in {"accepted", "failed", "unopened", "cancelled"} :
        /\ hosted' = CASE outcome = "accepted" -> opening
                       [] outcome = "failed" -> 0
                       [] OTHER -> hosted
        /\ edited' = IF outcome \in {"accepted", "failed"} THEN Untouched ELSE edited
  BY DEF HostOpens
<1>3. CASE outcome \in {"accepted", "failed"}
  BY <1>1, <1>2, <1>3 DEF Kept, Showing
<1>4. CASE outcome \notin {"accepted", "failed"}
  BY <1>1, <1>2, <1>4 DEF Kept, Showing
<1>5. QED
  BY <1>3, <1>4

LEMMA InvalidateKept == Invalidate => Kept'
BY DEF Invalidate, Kept, NoIntent

LEMMA TakeOpenedKept ==
  ASSUME Kept, WindowTakes, TakeOpened(Head(toWindow))
  PROVE  Kept'
<1>1. CASE Invalidate
  BY <1>1, InvalidateKept
<1>2. CASE UNCHANGED <<intentVars, shown>>
  BY <1>2 DEF Kept, Showing, TakeOpened, WindowTakes, intentVars, hostVars
<1>3. QED
  BY <1>1, <1>2 DEF TakeOpened, TakeAcceptedOpen, Revoke, StayInPreview

-----------------------------------------------------------------------------
(* The records are ever newer.                                             *)

\* The channel to the window has the edits it had, but for the first c.
Shifted(c) ==
  /\ \A i \in DOMAIN toWindow' : IsEdit(toWindow'[i]) =>
       i \in Nat /\ i + c \in DOMAIN toWindow /\ toWindow'[i] = toWindow[i + c]
  /\ \A i \in DOMAIN toWindow : IsEdit(toWindow[i]) /\ i # c =>
       i \in Nat /\ i - c \in DOMAIN toWindow' /\ toWindow'[i - c] = toWindow[i]

LEMMA NothingTaken ==
  ASSUME EditsTypeOK,
         \/ UNCHANGED toWindow
         \/ \E e \in Reply : ~IsEdit(e) /\ toWindow' = Append(toWindow, e)
  PROVE  Shifted(0)
<1>1. DOMAIN toWindow \subseteq Nat
  BY AppendAt DEF EditsTypeOK
<1>2. CASE UNCHANGED toWindow
  BY <1>1, <1>2 DEF Shifted
<1>3. CASE \E e \in Reply : ~IsEdit(e) /\ toWindow' = Append(toWindow, e)
  <2>1. PICK e \in Reply : ~IsEdit(e) /\ toWindow' = Append(toWindow, e)
    BY <1>3
  <2>2. /\ \A i \in DOMAIN toWindow' : IsEdit(toWindow'[i]) =>
             i \in DOMAIN toWindow /\ toWindow'[i] = toWindow[i]
        /\ \A i \in DOMAIN toWindow :
             i \in DOMAIN toWindow' /\ toWindow'[i] = toWindow[i]
    BY <2>1, AppendAt DEF EditsTypeOK
  <2>3. QED
    BY <1>1, <2>2 DEF Shifted
<1>4. QED
  BY <1>2, <1>3

LEMMA FirstTaken == ASSUME EditsTypeOK, WindowTakes PROVE Shifted(1)
BY WindowTail DEF Shifted

LEMMA RevisionsKept ==
  ASSUME EditsTypeOK, Revisions, NEW c \in {0, 1}, Shifted(c), Blank(edited'),
         Showing' => /\ Showing /\ UNCHANGED <<shown, model, values>>
                     /\ mounted' \in {mounted, NoPlayer},
         Showing' /\ hosted' = shown => hosted = shown /\ edited' = edited
  PROVE  Revisions'
<1>1. \A i \in DOMAIN toWindow' : IsEdit(toWindow'[i]) => Blank(toWindow'[i].model)
  BY DEF Revisions, Shifted
<1>2. Blank(edited)' /\ (\A i \in DOMAIN toWindow' :
        IsEdit(toWindow[i])' => Blank(toWindow[i].model)')
  BY <1>1 DEF Blank, IsEdit
<1>3. CASE Showing'
  BY <1>2, <1>3 DEF Revisions, Shifted, Tells, Accepts, Live, IsEdit
<1>4. QED
  BY <1>2, <1>3 DEF Revisions

LEMMA InitRevisions == EditsInit => Revisions /\ Knows
BY UntouchedType DEF EditsInit, Revisions, Knows, Showing

LEMMA HostTakesRevisions == EditsTypeOK /\ Revisions /\ HostTakes => Revisions'
<1> SUFFICES ASSUME EditsTypeOK, Revisions, HostTakes PROVE Revisions'
  OBVIOUS
<1> DEFINE h == Head(toHost)
<1>1. /\ UNCHANGED <<closing, shown, model, values, mounted>>
      /\ toHost # <<>>
  BY DEF HostTakes, intentVars, windowVars
<1>2. Showing' => Showing
  BY <1>1 DEF Showing
<1>3. CASE HostEdits(h)
  <2>1. PICK a \in Reply :
          /\ a.kind = h.kind /\ a.key = h.key /\ a.intent = h.intent
          /\ a.model = edited' /\ a.status \in {"accepted", "refused", "bare"}
          /\ \A i \in DOMAIN toWindow' :
               \/ i \in DOMAIN toWindow /\ toWindow'[i] = toWindow[i]
               \/ toWindow'[i] = a /\ i = Len(toWindow) + 1
                    /\ \A j \in DOMAIN toWindow : j < i
          /\ \/ /\ a.status = "accepted" /\ a.intent.source = hosted
                /\ edited'.revision = edited.revision + 1
             \/ /\ a.status = "refused" /\ a.intent.source = hosted
                /\ edited'.revision = edited.revision
                /\ edited'.edits = edited.edits
             \/ /\ a.status = "bare"
                /\ edited' = edited
    BY <1>1, <1>3, AnswerGiven
  <2>2. /\ edited.revision \in Nat /\ edited'.revision \in Nat
        /\ edited.revision <= edited'.revision /\ model.revision \in Nat
        /\ a.status = "accepted" => edited.revision # edited'.revision
        /\ hosted' = hosted
    BY <1>3, <2>1 DEF EditsTypeOK, Record, HostEdits
  <2>3. Blank(edited')
    BY <2>1, <2>2 DEF Revisions, Blank
  <2>4. \A i \in DOMAIN toWindow' : IsEdit(toWindow'[i]) => Blank(toWindow'[i].model)
    BY <2>1, <2>3 DEF Revisions
  <2>5. \A i \in DOMAIN toWindow : IsEdit(toWindow[i]) =>
          toWindow[i].model.revision \in Nat
    BY MessageIntents DEF Record
  <2>6. Tells(a) => hosted = shown
    BY <2>1 DEF Tells, Live
  <2>7. ASSUME Showing
        PROVE  /\ \A i \in DOMAIN toWindow' : Tells(toWindow'[i]) =>
                    /\ model.revision <= toWindow'[i].model.revision
                    /\ Accepts(toWindow'[i]) =>
                         model.revision # toWindow'[i].model.revision
                    /\ hosted = shown =>
                         toWindow'[i].model.revision <= edited'.revision
               /\ hosted = shown => model.revision <= edited'.revision
    <3>1. hosted = shown => model.revision <= edited.revision
      BY <2>7 DEF Revisions
    <3>2. ASSUME NEW i \in DOMAIN toWindow', Tells(toWindow'[i])
          PROVE  /\ model.revision <= toWindow'[i].model.revision
                 /\ Accepts(toWindow'[i]) =>
                      model.revision # toWindow'[i].model.revision
                 /\ hosted = shown => toWindow'[i].model.revision <= edited'.revision
      <4>1. CASE toWindow'[i] = a
        BY <2>1, <2>2, <2>6, <3>1, <3>2, <4>1 DEF Accepts
      <4>2. CASE i \in DOMAIN toWindow /\ toWindow'[i] = toWindow[i]
        BY <2>2, <2>5, <2>7, <3>2, <4>2 DEF Revisions, Tells, Live
      <4>3. QED
        BY <2>1, <4>1, <4>2
    <3>3. QED
      BY <2>2, <3>1, <3>2
  <2>8. ASSUME Showing, NEW i \in DOMAIN toWindow', NEW j \in DOMAIN toWindow',
               i < j, Tells(toWindow'[i]), Tells(toWindow'[j])
        PROVE  /\ toWindow'[i].model.revision <= toWindow'[j].model.revision
               /\ Accepts(toWindow'[j]) =>
                    toWindow'[i].model.revision # toWindow'[j].model.revision
    <3>1. i \in DOMAIN toWindow /\ toWindow'[i] = toWindow[i]
      <4>1. DOMAIN toWindow \subseteq Nat /\ Len(toWindow) \in Nat
        BY DEF EditsTypeOK
      <4>2. ~(i = Len(toWindow) + 1 /\ \A g \in DOMAIN toWindow : g < i)
        BY <2>1, <2>8, <4>1
      <4>3. QED
        BY <2>1, <2>8, <4>2
    <3>2. CASE j \in DOMAIN toWindow /\ toWindow'[j] = toWindow[j]
      BY <2>8, <3>1, <3>2 DEF Revisions
    <3>3. CASE toWindow'[j] = a
      <4>1. toWindow[i].model.revision <= edited.revision
        BY <2>6, <2>8, <3>1, <3>3 DEF Revisions
      <4>2. toWindow[i].model.revision \in Nat
        BY <2>5, <2>8, <3>1 DEF Tells, Live
      <4>3. Accepts(a) => a.status = "accepted"
        BY DEF Accepts
      <4>4. QED
        BY <2>1, <2>2, <3>1, <3>3, <4>1, <4>2, <4>3
    <3>4. QED
      BY <2>1, <3>2, <3>3
  <2>9. Blank(edited)' /\ (\A i \in DOMAIN toWindow' :
          IsEdit(toWindow[i])' => Blank(toWindow[i].model)')
    BY <2>3, <2>4 DEF Blank, IsEdit
  <2>10. QED
    BY <1>1, <1>2, <2>2, <2>7, <2>8, <2>9
    DEF Revisions, Showing, Tells, Accepts, Live, IsEdit
<1>4. CASE UNCHANGED <<hosted, edited, toWindow>>
  <2>1. Shifted(0)
    BY <1>4, NothingTaken
  <2>2. QED
    BY <1>1, <1>2, <1>4, <2>1, RevisionsKept DEF Revisions
<1>5. CASE /\ hosted' = 0 /\ edited' = Untouched
           /\ toWindow' \in {toWindow, Append(toWindow, [kind |-> "disposed"])}
  <2>1. Shifted(0)
    <3>1. [kind |-> "disposed"] \in Reply /\ ~IsEdit([kind |-> "disposed"])
      BY MessageTypes DEF IsEdit
    <3>2. QED
      BY <1>5, <3>1, NothingTaken
  <2>2. Blank(edited')
    BY <1>5, UntouchedType
  <2>3. ~(Showing' /\ hosted' = shown)
    BY <1>1, <1>5 DEF Showing
  <2>4. QED
    BY <1>1, <1>2, <2>1, <2>2, <2>3, RevisionsKept
<1>6. QED
  BY <1>1, <1>3, <1>4, <1>5, HostEditsStep DEF HostTakes

\* Once the session has another file, or none, it is not the one in the window.
LEMMA HostOpensAway ==
  ASSUME EditsTypeOK, Turns, Counted, HostOpens
  PROVE  /\ UNCHANGED <<closing, shown, model, values, mounted, sent, intents, dropped>>
         /\ Shifted(0)
         /\ Showing' /\ hosted' = shown => hosted = shown /\ edited' = edited
         /\ edited' \in {edited, Untouched}
<1>1. PICK outcome \in {"accepted", "failed", "unopened", "cancelled"} :
        /\ hosted' = CASE outcome = "accepted" -> opening
                       [] outcome = "failed" -> 0
                       [] OTHER -> hosted
        /\ edited' = IF outcome \in {"accepted", "failed"} THEN Untouched ELSE edited
        /\ toWindow' = Append(toWindow, [kind |-> "opened", file |-> opening,
                                         outcome |-> outcome])
  BY DEF HostOpens
<1>2. /\ UNCHANGED <<closing, shown, model, values, mounted, sent, intents, dropped>>
      /\ opening \in Nat \ {0} /\ opening = asked /\ waiting /\ shown # asked
  BY DEF HostOpens, intentVars, windowVars, Turns, Counted, EditsTypeOK
<1>3. Shifted(0)
  <2>1. [kind |-> "opened", file |-> opening, outcome |-> outcome] \in Reply
    BY <1>2, MessageTypes
  <2>2. ~IsEdit([kind |-> "opened", file |-> opening, outcome |-> outcome])
    BY DEF IsEdit
  <2>3. QED
    BY <1>1, <2>1, <2>2, NothingTaken
<1>4. Showing' /\ hosted' = shown => hosted = shown /\ edited' = edited
  <2>1. CASE outcome \in {"accepted", "failed"}
    BY <1>1, <1>2, <2>1 DEF Showing
  <2>2. CASE outcome \notin {"accepted", "failed"}
    BY <1>1, <2>2
  <2>3. QED
    BY <2>1, <2>2
<1>5. QED
  BY <1>1, <1>2, <1>3, <1>4

LEMMA HostOpensRevisions ==
  EditsTypeOK /\ Turns /\ Counted /\ Revisions /\ HostOpens => Revisions'
<1> SUFFICES ASSUME EditsTypeOK, Turns, Counted, Revisions, HostOpens PROVE Revisions'
  OBVIOUS
<1>1. Showing' => Showing
  BY HostOpensAway DEF Showing
<1>2. Blank(edited')
  BY HostOpensAway, UntouchedType DEF Revisions
<1>3. QED
  BY <1>1, <1>2, HostOpensAway, RevisionsKept

\* The actions of the window that leave what it knows alone.
LEMMA WindowActsRevisions ==
  ASSUME EditsTypeOK, Revisions,
         UNCHANGED <<toWindow, edited, hosted, shown, model, values>>,
         mounted' \in {mounted, NoPlayer},
         closing' \in BOOLEAN, closing => closing'
  PROVE  Revisions'
<1>1. Shifted(0)
  BY NothingTaken
<1>2. Showing' => Showing
  BY DEF Showing
<1>3. QED
  BY <1>1, <1>2, RevisionsKept DEF Revisions

LEMMA CloseFileRevisions == EditsTypeOK /\ Revisions /\ CloseFile => Revisions'
<1> SUFFICES ASSUME EditsTypeOK, Revisions, CloseFile PROVE Revisions'
  OBVIOUS
<1>1. Shifted(0)
  BY NothingTaken DEF CloseFile
<1>2. ~Showing' /\ edited' = edited
  BY DEF Showing, CloseFile, hostVars
<1>3. QED
  BY <1>1, <1>2, RevisionsKept DEF Revisions

\* When an open is answered, no answer the window waits for is for that file.
LEMMA NoneTells ==
  ASSUME EditsTypeOK, Turns, Counted, WindowTakes, TakeOpened(Head(toWindow)),
         shown' = Head(toWindow).file
  PROVE  /\ \A i \in DOMAIN toWindow' : ~(IsEdit(toWindow'[i])
               /\ toWindow'[i].intent.source = shown')
         /\ hosted' = shown' => edited' = Untouched
<1>1. /\ Head(toWindow).file = asked /\ waiting
      /\ UNCHANGED <<hosted, edited>>
  BY WindowTail DEF TakeOpened, Turns, WindowTakes, hostVars
<1>2. QED
  BY <1>1, WindowTail DEF Counted, Typed, TypedBy

LEMMA FirstMount ==
  ASSUME EditsTypeOK, TakeAcceptedOpen(Head(toWindow))
  PROVE  /\ model' = Untouched /\ dropped' = {}
         /\ \A k \in Keys : values'[k] = NoValue /\ intents'[k] = NoIntent
         /\ \/ mounted' = NoPlayer
            \/ mounted # NoPlayer /\ mounted' = mounted /\ mounted.revision = 0
            \/ /\ mounted'.revision = 0
               /\ \A k \in Keys : mounted'.texts[k] = Source
<1>1. /\ model' = Untouched /\ dropped' = {}
      /\ \A k \in Keys : values'[k] = NoValue /\ intents'[k] = NoIntent
      /\ MountRuntimePreview(Untouched, values')
  BY DEF TakeAcceptedOpen, ApplyHostResult, Invalidate
<1>2. \A k \in Keys : Payload(Untouched, values')[k] = Source
  BY <1>1 DEF Payload, Untouched, NoValue
<1>3. Untouched.revision = 0
  BY DEF Untouched
<1>4. QED
  BY <1>1, <1>2, <1>3 DEF MountRuntimePreview

LEMMA TakeOpenedRevisions ==
  ASSUME EditsTypeOK, Turns, Counted, Revisions, WindowTakes, TakeOpened(Head(toWindow))
  PROVE  Revisions'
<1> DEFINE a == Head(toWindow)
<1>1. /\ Shifted(1) /\ UNCHANGED <<hosted, edited, closing>>
  BY FirstTaken DEF WindowTakes, TakeOpened, hostVars
<1>2. CASE Revoke
  <2>1. ~Showing'
    BY <1>2 DEF Showing, Revoke
  <2>2. QED
    BY <1>1, <2>1, RevisionsKept DEF Revisions
<1>3. CASE TakeAcceptedOpen(a)
  <2>1. /\ shown' = a.file /\ model' = Untouched
        /\ \A k \in Keys : values'[k] = NoValue
        /\ mounted' # NoPlayer => mounted'.revision = 0
    BY <1>3, FirstMount DEF TakeAcceptedOpen
  <2>2. /\ \A i \in DOMAIN toWindow' : ~(IsEdit(toWindow'[i])
               /\ toWindow'[i].intent.source = shown')
    BY <2>1, NoneTells
  <2>3. \A i \in DOMAIN toWindow' : IsEdit(toWindow'[i]) => Blank(toWindow'[i].model)
    BY <1>1 DEF Revisions, Shifted
  <2>4. Blank(edited)' /\ (\A i \in DOMAIN toWindow' :
          IsEdit(toWindow[i])' => Blank(toWindow[i].model)')
    BY <1>1, <2>3 DEF Blank, IsEdit, Revisions
  <2>5. Untouched.revision = 0 /\ edited.revision \in Nat
    BY DEF Untouched, EditsTypeOK, Record
  <2>6. QED
    BY <1>1, <2>1, <2>2, <2>4, <2>5
    DEF Revisions, Tells, Accepts, Live, IsEdit, NoValue
<1>4. CASE UNCHANGED <<intentVars, shown, model, mounted>>
  <2>1. Showing' => Showing
    BY <1>1, <1>4 DEF Showing
  <2>2. QED
    BY <1>1, <1>4, <2>1, RevisionsKept DEF Revisions, intentVars
<1>5. QED
  BY <1>2, <1>3, <1>4 DEF TakeOpened, StayInPreview

LEMMA TakeDisposedRevisions ==
  ASSUME EditsTypeOK, Revisions, WindowTakes, TakeDisposed(Head(toWindow))
  PROVE  Revisions'
<1>1. Shifted(1) /\ ~Showing' /\ edited' = edited
  BY FirstTaken DEF WindowTakes, TakeDisposed, hostVars, Showing
<1>2. QED
  BY <1>1, RevisionsKept DEF Revisions

\* A result the window takes in is of the file it shows.
LEMMA ResultTells ==
  ASSUME EditsTypeOK, Closings, Chained, NEW k, NEW a, Took(k, a), Result(k, a)
  PROVE  /\ Showing /\ Showing' /\ Tells(a) /\ a = toWindow[1] /\ 1 \in DOMAIN toWindow
         /\ Accepts(a) <=> a.status = "accepted"
         /\ a.model.revision \in Nat /\ model.revision \in Nat
         /\ a.model.edits \in [Keys -> Edits]
BY CurrentAnswer, TailAt DEF Took, Result, Tells, Accepts, EditsTypeOK, Record, Showing

\* The player then shows what the window knows, unless it was prepared for
\* that record already.
LEMMA ResultMount ==
  ASSUME EditsTypeOK, NEW k, NEW a, Took(k, a), Result(k, a)
  PROVE  \/ mounted' = NoPlayer
         \/ mounted # NoPlayer /\ mounted' = mounted
              /\ mounted.revision = a.model.revision
         \/ /\ mounted'.revision = a.model.revision
            /\ \A l \in Keys : mounted'.texts[l] =
                 IF values'[l].value # None THEN values'[l].value ELSE a.model.edits[l]
BY DEF Result, MountRuntimePreview, Payload

LEMMA TookRevisions ==
  ASSUME EditsTypeOK, Closings, Chained, Revisions, WindowTakes, NEW k, NEW a, Took(k, a),
         TakeLate(k, a) \/ Failed(k, a) \/ Result(k, a)
  PROVE  Revisions'
<1>1. Shifted(1) /\ UNCHANGED <<hosted, edited, closing, shown>>
  BY FirstTaken DEF Took, hostVars
<1>2. CASE TakeLate(k, a) \/ Failed(k, a)
  <2>1. /\ UNCHANGED <<model, values>> /\ mounted' \in {mounted, NoPlayer}
        /\ Showing' => Showing
    BY <1>1, <1>2 DEF TakeLate, Failed, Showing
  <2>2. QED
    BY <1>1, <2>1, RevisionsKept DEF Revisions
<1>3. CASE Result(k, a)
  <2>1. /\ Showing /\ Tells(a) /\ a = toWindow[1] /\ 1 \in DOMAIN toWindow
        /\ Accepts(a) <=> a.status = "accepted"
        /\ a.model.revision \in Nat /\ model.revision \in Nat
        /\ model' = a.model /\ k \in Keys
    BY <1>3, ResultTells DEF Result, Took
  <2>2. /\ model.revision <= a.model.revision
        /\ Accepts(a) => model.revision # a.model.revision
        /\ hosted = shown => a.model.revision <= edited.revision
    BY <2>1 DEF Revisions
  <2>3. mounted' # NoPlayer => mounted'.revision = a.model.revision
    BY <1>3, ResultMount
  <2>4. \A i \in DOMAIN toWindow' : \E j \in DOMAIN toWindow :
          j = i + 1 /\ 1 < j /\ i \in Nat /\ toWindow'[i] = toWindow[j]
    BY WindowTail
  <2>5. \A j \in DOMAIN toWindow : 1 < j /\ Tells(toWindow[j]) =>
          /\ a.model.revision <= toWindow[j].model.revision
          /\ Accepts(toWindow[j]) => a.model.revision # toWindow[j].model.revision
          /\ hosted = shown => toWindow[j].model.revision <= edited.revision
    BY <2>1 DEF Revisions
  <2>6. \A l \in Keys : values'[l].value # None => a.model.revision # 0
    <3>1. CASE a.status = "accepted"
      BY <2>1, <2>2, <3>1
    <3>2. CASE a.status # "accepted"
      BY <1>3, <2>1, <2>2, <3>2 DEF Revisions, Result
    <3>3. QED
      BY <3>1, <3>2
  <2>7. \A i \in DOMAIN toWindow' : IsEdit(toWindow'[i]) => Blank(toWindow'[i].model)
    BY <1>1 DEF Revisions, Shifted
  <2>8. Blank(edited)' /\ (\A i \in DOMAIN toWindow' :
          IsEdit(toWindow[i])' => Blank(toWindow[i].model)')
    BY <1>1, <2>7 DEF Blank, IsEdit, Revisions
  <2>9. /\ \A i \in DOMAIN toWindow' : Tells(toWindow[i])' =>
              /\ a.model.revision <= toWindow'[i].model.revision
              /\ Accepts(toWindow[i])' =>
                   a.model.revision # toWindow'[i].model.revision
              /\ hosted = shown => toWindow'[i].model.revision <= edited.revision
        /\ \A i, j \in DOMAIN toWindow' :
             i < j /\ Tells(toWindow[i])' /\ Tells(toWindow[j])' =>
               /\ toWindow'[i].model.revision <= toWindow'[j].model.revision
               /\ Accepts(toWindow[j])' =>
                    toWindow'[i].model.revision # toWindow'[j].model.revision
    BY <1>1, <2>1, <2>4, <2>5 DEF Revisions, Tells, Accepts, Live, IsEdit
  <2>10. QED
    BY <1>1, <2>1, <2>2, <2>3, <2>6, <2>8, <2>9 DEF Revisions, Accepts
<1>4. QED
  BY <1>2, <1>3

-----------------------------------------------------------------------------
(* The rest of the chains and of what is kept.                             *)

LEMMA CloseFileChained == CloseFile => Chained' /\ Kept' /\ Knows'
BY DEF CloseFile, Chained, Kept, Knows, Showing

LEMMA TakeDisposedChained ==
  WindowTakes /\ TakeDisposed(Head(toWindow)) => Chained' /\ Kept' /\ Knows'
BY DEF TakeDisposed, Chained, Kept, Knows, Showing

\* An accepted answer that is taken in is in the record of the session.
LEMMA TookKept ==
  ASSUME EditsTypeOK, Closings, Chained, Kept, Knows, NEW k, NEW a, Took(k, a),
         TakeLate(k, a) \/ Failed(k, a) \/ Result(k, a)
  PROVE  Kept'
<1>1. /\ UNCHANGED <<shown, closing, hosted, edited>>
      /\ k \in Keys /\ k = a.key /\ a = toWindow[1] /\ 1 \in DOMAIN toWindow
      /\ sent \in [Keys -> Nat] /\ intents \in [Keys -> Newest]
      /\ sent' = [sent EXCEPT ![k] = IF @ = a.intent.sequence THEN 0 ELSE @]
  BY TailAt DEF Took, EditsTypeOK, hostVars
<1>2. SUFFICES ASSUME Showing, NEW l \in Keys, intents'[l].state = "accepted"
               PROVE  /\ sent'[l] = 0
                      /\ hosted = shown => edited.edits[l] = intents'[l].value
  BY <1>1 DEF Kept, Showing
<1>3. CASE intents'[l] = intents[l]
  BY <1>1, <1>2, <1>3 DEF Kept
<1>4. CASE /\ l = k /\ IntentIsCurrent(k, a.intent)
           /\ intents' = [intents EXCEPT ![k].state = "failed"]
  <2>1. intents[k] \in Newest
    BY <1>1
  <2>2. QED
    BY <1>1, <1>2, <1>4, <2>1 DEF Newest
<1>5. CASE l = k /\ Result(k, a)
  <2>1. intents[k] \in Newest /\ intents' = [intents EXCEPT ![k].state = a.status]
    BY <1>1, <1>5 DEF Result
  <2>2. intents'[k].state = a.status /\ intents'[k].value = intents[k].value
    BY <1>1, <2>1 DEF Newest
  <2>3. /\ Live(a) /\ sent[k] = a.intent.sequence /\ intents[k].value = Outcome(a)
    BY <1>5, CurrentAnswer DEF Result
  <2>4. Accepts(a)
    BY <1>2, <1>5, <2>2, <2>3 DEF Accepts
  <2>5. hosted = shown => edited.edits[k] = Outcome(a)
    BY <1>1, <1>2, <2>4 DEF Knows, RecordKnown
  <2>6. QED
    BY <1>1, <1>5, <2>2, <2>3, <2>5
<1>6. QED
  <2>1. CASE TakeLate(k, a)
    BY <1>3, <2>1 DEF TakeLate
  <2>2. CASE Failed(k, a)
    BY <1>1, <1>3, <1>4, <2>2 DEF Failed
  <2>3. CASE Result(k, a)
    BY <1>1, <1>3, <1>5, <2>3 DEF Result
  <2>4. QED
    BY <2>1, <2>2, <2>3

-----------------------------------------------------------------------------
(* What the window knows.                                                  *)

\* The channel keeps what it has, or loses an answer that accepts nothing or
\* whose text is given up.
LEMMA ChannelKnown ==
  ASSUME EditsTypeOK, RecordKnown, AnswersKnown, NEW c \in {0, 1}, Shifted(c),
         \A i \in DOMAIN toWindow : i = c /\ Accepts(toWindow[i]) =>
           toWindow[i].key \in dropped',
         dropped \subseteq dropped', UNCHANGED <<shown, values>>,
         hosted' = shown => hosted = shown /\ edited' = edited
  PROVE  RecordKnown' /\ AnswersKnown'
<1>1. \A i \in DOMAIN toWindow' : IsEdit(toWindow'[i]) =>
        i \in Nat /\ i + c \in DOMAIN toWindow /\ toWindow'[i] = toWindow[i + c]
  BY DEF Shifted
<1>2. \A i \in DOMAIN toWindow : IsEdit(toWindow[i]) /\ i # c =>
        i \in Nat /\ i - c \in DOMAIN toWindow' /\ toWindow'[i - c] = toWindow[i]
  BY DEF Shifted
<1>3. \A m : /\ Accepts(m)' <=> Accepts(m)
             /\ Tells(m)' <=> Tells(m)
             /\ Accepts(m) => IsEdit(m) /\ Tells(m)
             /\ Tells(m) => IsEdit(m)
  BY DEF Accepts, Tells, Live, IsEdit
<1>4. \A k \in Keys : Known(k)' = Known(k)
  BY DEF Known
<1>5. ASSUME NEW k \in Keys \ dropped', NEW b \in Nat,
             \A i \in DOMAIN toWindow' : i <= b /\ Accepts(toWindow'[i]) =>
               toWindow'[i].key # k
      PROVE  \A i \in DOMAIN toWindow : i <= b + c /\ Accepts(toWindow[i]) =>
               toWindow[i].key # k
  <2>1. TAKE i \in DOMAIN toWindow
  <2>2. HAVE i <= b + c /\ Accepts(toWindow[i])
  <2>3. CASE i = c
    BY <1>5, <2>2, <2>3
  <2>4. CASE i # c
    <3>1. /\ i \in Nat /\ i - c \in DOMAIN toWindow' /\ toWindow'[i - c] = toWindow[i]
      BY <1>2, <1>3, <2>2, <2>4
    <3>2. i - c <= b
      BY <2>2, <3>1
    <3>3. QED
      BY <1>5, <2>2, <3>1, <3>2
  <2>5. QED
    BY <2>3, <2>4
<1>6. ASSUME NEW k \in Keys \ dropped',
             \A i \in DOMAIN toWindow' : Accepts(toWindow'[i]) => toWindow'[i].key # k
      PROVE  \A i \in DOMAIN toWindow : Accepts(toWindow[i]) => toWindow[i].key # k
  BY <1>2, <1>3, <1>6
<1>7. RecordKnown'
  <2>1. ASSUME hosted = shown, edited' = edited, NEW i \in DOMAIN toWindow',
               Accepts(toWindow'[i])
        PROVE  edited'.edits[toWindow'[i].key] = Outcome(toWindow'[i])
    BY <1>1, <1>3, <2>1 DEF RecordKnown
  <2>2. ASSUME hosted = shown, edited' = edited, NEW k \in Keys \ dropped',
               \A i \in DOMAIN toWindow' : Accepts(toWindow'[i]) =>
                 toWindow'[i].key # k
        PROVE  edited'.edits[k] = Known(k)
    BY <1>6, <2>2 DEF RecordKnown
  <2>3. QED
    BY <1>3, <1>4, <2>1, <2>2 DEF RecordKnown, Accepts, Live, IsEdit, Outcome, Known
<1>8. ASSUME NEW i \in DOMAIN toWindow', NEW j \in DOMAIN toWindow', i <= j,
             Accepts(toWindow'[i]), Tells(toWindow'[j])
      PROVE  toWindow'[j].model.edits[toWindow'[i].key] = Outcome(toWindow'[i])
  <2>1. /\ i \in Nat /\ i + c \in DOMAIN toWindow /\ toWindow'[i] = toWindow[i + c]
        /\ j \in Nat /\ j + c \in DOMAIN toWindow /\ toWindow'[j] = toWindow[j + c]
    BY <1>1, <1>3, <1>8
  <2>2. i + c <= j + c
    BY <1>8, <2>1
  <2>3. QED
    BY <1>8, <2>1, <2>2 DEF AnswersKnown
<1>9. ASSUME NEW j \in DOMAIN toWindow', Tells(toWindow'[j]),
             NEW k \in Keys \ dropped',
             \A i \in DOMAIN toWindow' : i <= j /\ Accepts(toWindow'[i]) =>
               toWindow'[i].key # k
      PROVE  toWindow'[j].model.edits[k] = Known(k)
  <2>1. j \in Nat /\ j + c \in DOMAIN toWindow /\ toWindow'[j] = toWindow[j + c]
    BY <1>1, <1>3, <1>9
  <2>2. \A i \in DOMAIN toWindow : i <= j + c /\ Accepts(toWindow[i]) =>
          toWindow[i].key # k
    BY <1>5, <1>9, <2>1
  <2>3. QED
    BY <1>9, <2>1, <2>2 DEF AnswersKnown
<1>10. AnswersKnown'
  BY <1>8, <1>9 DEF AnswersKnown, Accepts, Tells, Live, IsEdit, Outcome, Known
<1>11. QED
  BY <1>7, <1>10

LEMMA KnowsKept ==
  ASSUME EditsTypeOK, Knows, NEW c \in {0, 1}, Shifted(c), Showing' => Showing,
         \A i \in DOMAIN toWindow : i = c /\ Accepts(toWindow[i]) =>
           toWindow[i].key \in dropped',
         dropped \subseteq dropped', UNCHANGED <<shown, values>>,
         mounted' \in {mounted, NoPlayer},
         Showing' /\ hosted' = shown => hosted = shown /\ edited' = edited
  PROVE  Knows'
<1>1. SUFFICES ASSUME Showing' PROVE Knows'
  BY DEF Knows
<1>2. RecordKnown /\ AnswersKnown /\ PlayerKnown
  BY <1>1 DEF Knows
<1>3. RecordKnown' /\ AnswersKnown'
  BY <1>1, <1>2, ChannelKnown
<1>4. PlayerKnown'
  BY <1>2 DEF PlayerKnown, Known
<1>5. QED
  BY <1>3, <1>4 DEF Knows

\* The actions of the window that leave what it knows alone.
LEMMA WindowActsKnows ==
  ASSUME EditsTypeOK, Knows,
         UNCHANGED <<toWindow, edited, hosted, shown, dropped, values>>,
         mounted' \in {mounted, NoPlayer},
         closing' \in BOOLEAN, closing => closing'
  PROVE  Knows'
<1>1. Shifted(0)
  BY NothingTaken
<1>2. Showing' => Showing
  BY DEF Showing
<1>3. 0 \notin DOMAIN toWindow
  BY DEF EditsTypeOK
<1>4. QED
  BY <1>1, <1>2, <1>3, KnowsKept

\* The host answers with the record as the edit left it.
LEMMA HostEditsKnows ==
  ASSUME EditsTypeOK, Chained, Knows, HostTakes, HostEdits(Head(toHost))
  PROVE  Knows'
<1> DEFINE h == Head(toHost)
<1>1. /\ UNCHANGED <<closing, shown, values, mounted, dropped, hosted>>
      /\ toHost # <<>> /\ h = toHost[1] /\ 1 \in DOMAIN toHost
      /\ IsEdit(h) /\ h.key \in Keys
  BY HostTail, HeadType DEF HostTakes, HostEdits, intentVars, windowVars, IsEdit
<1>2. PICK a \in Reply :
        /\ a.kind = h.kind /\ a.key = h.key /\ a.intent = h.intent
        /\ a.model = edited' /\ toWindow' = Append(toWindow, a)
        /\ \A i \in DOMAIN toWindow' :
             \/ i \in DOMAIN toWindow /\ toWindow'[i] = toWindow[i]
             \/ toWindow'[i] = a /\ i = Len(toWindow) + 1
                  /\ \A j \in DOMAIN toWindow : j < i
        /\ \A i \in DOMAIN toWindow : i \in DOMAIN toWindow' /\ toWindow'[i] = toWindow[i]
        /\ \/ /\ a.status = "accepted" /\ a.intent.source = hosted
              /\ edited' = [revision |-> edited.revision + 1,
                            edits |-> [edited.edits EXCEPT ![a.key] = Outcome(a)],
                            ready |-> TRUE]
           \/ /\ a.status = "refused" /\ a.intent.source = hosted
              /\ edited'.edits = edited.edits
           \/ /\ a.status = "bare"
              /\ edited' = edited
  BY <1>1, AnswerGiven
<1>3. SUFFICES ASSUME Showing PROVE RecordKnown' /\ AnswersKnown' /\ PlayerKnown'
  BY <1>1 DEF Knows, Showing
<1>4. RecordKnown /\ AnswersKnown /\ PlayerKnown
  BY <1>3 DEF Knows
<1>5. /\ \A m : /\ Accepts(m)' <=> Accepts(m)
                /\ Tells(m)' <=> Tells(m)
                /\ Accepts(m) => IsEdit(m) /\ Tells(m) /\ Live(m)
                /\ Tells(m) => IsEdit(m) /\ Live(m)
      /\ \A k \in Keys : Known(k)' = Known(k)
  BY <1>1 DEF Accepts, Tells, Live, IsEdit, Known
<1>6. /\ DOMAIN toWindow \subseteq Nat /\ Len(toWindow) \in Nat
      /\ edited.edits \in [Keys -> Edits]
  BY DEF EditsTypeOK, Record
<1> DEFINE z == Len(toWindow) + 1
<1>6a. z \in DOMAIN toWindow' /\ toWindow'[z] = a /\ \A i \in DOMAIN toWindow' : i <= z
  BY <1>2, AppendAt DEF EditsTypeOK
<1>7. Tells(a) => hosted = shown
  BY <1>2 DEF Tells, Live
<1>8. IsEdit(a) /\ a.key \in Keys /\ (Live(a) <=> Live(h))
  BY <1>1, <1>2 DEF IsEdit, Live
\* It changes the record for the one text it is about.
<1>9. ASSUME hosted = shown, NEW k \in Keys, Accepts(a) => a.key # k
      PROVE  edited'.edits[k] = edited.edits[k]
  <2>1. CASE /\ a.status = "accepted" /\ a.intent.source = hosted
             /\ edited' = [revision |-> edited.revision + 1,
                           edits |-> [edited.edits EXCEPT ![a.key] = Outcome(a)],
                           ready |-> TRUE]
    <3>1. Accepts(a)
      BY <1>8, <1>9, <2>1 DEF Accepts, Live
    <3>2. QED
      BY <1>6, <1>9, <2>1, <3>1
  <2>2. QED
    BY <1>2, <2>1
<1>10. Accepts(a) => edited'.edits[a.key] = Outcome(a)
  BY <1>2, <1>6, <1>8 DEF Accepts
<1>11. ASSUME NEW i \in DOMAIN toWindow, Accepts(toWindow[i]), Accepts(a)
       PROVE  a.key # toWindow[i].key
  BY <1>1, <1>2, <1>3, <1>5, <1>8, <1>11 DEF Chained
<1>12. ASSUME hosted = shown, NEW i \in DOMAIN toWindow', Accepts(toWindow'[i])
       PROVE  edited'.edits[toWindow'[i].key] = Outcome(toWindow'[i])
  <2>1. CASE i \in DOMAIN toWindow /\ toWindow'[i] = toWindow[i]
    <3>1. edited.edits[toWindow[i].key] = Outcome(toWindow[i])
      BY <1>4, <1>12, <2>1 DEF RecordKnown
    <3>2. toWindow[i].key \in Keys
      BY <1>5, <1>12, <2>1, MessageIntents
    <3>3. QED
      BY <1>9, <1>11, <1>12, <2>1, <3>1, <3>2
  <2>2. CASE toWindow'[i] = a
    BY <1>10, <1>12, <2>2
  <2>3. QED
    BY <1>2, <2>1, <2>2
<1>13. ASSUME hosted = shown, NEW k \in Keys \ dropped,
              \A i \in DOMAIN toWindow : Accepts(toWindow[i]) => toWindow[i].key # k,
              Accepts(a) => a.key # k
       PROVE  edited'.edits[k] = Known(k)
  <2>1. edited.edits[k] = Known(k)
    BY <1>4, <1>13 DEF RecordKnown
  <2>2. QED
    BY <1>9, <1>13, <2>1
<1>14. RecordKnown'
  <2>1. ASSUME hosted = shown, NEW k \in Keys \ dropped,
               \A i \in DOMAIN toWindow' : Accepts(toWindow'[i]) =>
                 toWindow'[i].key # k
        PROVE  edited'.edits[k] = Known(k)
    <3>1. \A i \in DOMAIN toWindow : Accepts(toWindow[i]) => toWindow[i].key # k
      BY <1>2, <2>1
    <3>2. Accepts(a) => a.key # k
      BY <1>6a, <2>1
    <3>3. QED
      BY <1>13, <2>1, <3>1, <3>2
  <2>2. QED
    BY <1>1, <1>5, <1>12, <2>1
    DEF RecordKnown, Accepts, Live, IsEdit, Outcome, Known
<1>15. ASSUME NEW i \in DOMAIN toWindow', NEW j \in DOMAIN toWindow', i <= j,
              Accepts(toWindow'[i]), Tells(toWindow'[j])
       PROVE  toWindow'[j].model.edits[toWindow'[i].key] = Outcome(toWindow'[i])
  <2>1. CASE j \in DOMAIN toWindow /\ toWindow'[j] = toWindow[j]
    <3>1. i \in DOMAIN toWindow /\ toWindow'[i] = toWindow[i]
      BY <1>2, <1>6, <1>15, <2>1
    <3>2. QED
      BY <1>4, <1>15, <2>1, <3>1 DEF AnswersKnown
  <2>2. CASE toWindow'[j] = a
    BY <1>2, <1>7, <1>12, <1>15, <2>2
  <2>3. QED
    BY <1>2, <2>1, <2>2
<1>16. ASSUME NEW j \in DOMAIN toWindow', Tells(toWindow'[j]), NEW k \in Keys \ dropped,
              \A i \in DOMAIN toWindow' : i <= j /\ Accepts(toWindow'[i]) =>
                toWindow'[i].key # k
       PROVE  toWindow'[j].model.edits[k] = Known(k)
  <2>1. CASE j \in DOMAIN toWindow /\ toWindow'[j] = toWindow[j]
    <3>1. \A i \in DOMAIN toWindow : i <= j /\ Accepts(toWindow[i]) => toWindow[i].key # k
      BY <1>2, <1>16
    <3>2. QED
      BY <1>4, <1>16, <2>1, <3>1 DEF AnswersKnown
  <2>2. CASE toWindow'[j] = a /\ j = z
    <3>1. \A i \in DOMAIN toWindow' : Accepts(toWindow'[i]) => toWindow'[i].key # k
      BY <1>6a, <1>16, <2>2
    <3>2. /\ \A i \in DOMAIN toWindow : Accepts(toWindow[i]) => toWindow[i].key # k
          /\ Accepts(a) => a.key # k
      BY <1>2, <1>6a, <3>1
    <3>3. QED
      BY <1>2, <1>7, <1>13, <1>16, <2>2, <3>2
  <2>3. QED
    BY <1>2, <2>1, <2>2
<1>17. AnswersKnown'
  BY <1>1, <1>5, <1>15, <1>16
  DEF AnswersKnown, Accepts, Tells, Live, IsEdit, Outcome, Known
<1>18. PlayerKnown'
  BY <1>1, <1>4, <1>5 DEF PlayerKnown, Known
<1>19. QED
  BY <1>14, <1>17, <1>18

LEMMA HostTakesKnows == EditsTypeOK /\ Chained /\ Knows /\ HostTakes => Knows'
<1> SUFFICES ASSUME EditsTypeOK, Chained, Knows, HostTakes PROVE Knows'
  OBVIOUS
<1>1. /\ UNCHANGED <<closing, shown, values, mounted, dropped>> /\ toHost # <<>>
      /\ 0 \notin DOMAIN toWindow
  BY DEF HostTakes, intentVars, windowVars, EditsTypeOK
<1>2. Showing' => Showing
  BY <1>1 DEF Showing
<1>3. CASE HostEdits(Head(toHost))
  BY <1>3, HostEditsKnows
<1>4. CASE UNCHANGED <<hosted, edited, toWindow>>
  <2>1. Shifted(0)
    BY <1>4, NothingTaken
  <2>2. QED
    BY <1>1, <1>2, <1>4, <2>1, KnowsKept
<1>5. CASE /\ hosted' = 0 /\ edited' = Untouched
           /\ toWindow' \in {toWindow, Append(toWindow, [kind |-> "disposed"])}
  <2>1. Shifted(0)
    <3>1. [kind |-> "disposed"] \in Reply /\ ~IsEdit([kind |-> "disposed"])
      BY MessageTypes DEF IsEdit
    <3>2. QED
      BY <1>5, <3>1, NothingTaken
  <2>2. ~(Showing' /\ hosted' = shown)
    BY <1>1, <1>5 DEF Showing
  <2>3. QED
    BY <1>1, <1>2, <2>1, <2>2, KnowsKept
<1>6. QED
  BY <1>1, <1>3, <1>4, <1>5, HostEditsStep DEF HostTakes

LEMMA HostOpensKnows == EditsTypeOK /\ Turns /\ Counted /\ Knows /\ HostOpens => Knows'
<1> SUFFICES ASSUME EditsTypeOK, Turns, Counted, Knows, HostOpens PROVE Knows'
  OBVIOUS
<1>1. Showing' => Showing
  BY HostOpensAway DEF Showing
<1>2. 0 \notin DOMAIN toWindow
  BY DEF EditsTypeOK
<1>3. QED
  BY <1>1, <1>2, HostOpensAway, KnowsKept

\* A new file comes with no edit, and with a player that has none.
LEMMA TakeOpenedKnows ==
  ASSUME EditsTypeOK, Turns, Counted, Closings, Knows,
         WindowTakes, TakeOpened(Head(toWindow))
  PROVE  Knows'
<1> DEFINE a == Head(toWindow)
<1>1. /\ Shifted(1) /\ UNCHANGED <<hosted, edited, closing>>
      /\ a = toWindow[1] /\ 1 \in DOMAIN toWindow /\ a.kind = "opened"
  BY FirstTaken, WindowTail DEF WindowTakes, TakeOpened, hostVars
<1>2. CASE Revoke
  BY <1>2 DEF Knows, Showing, Revoke
<1>3. CASE TakeAcceptedOpen(a)
  <2>1. /\ shown' = a.file
        /\ \A k \in Keys : values'[k] = NoValue
    BY <1>3, FirstMount DEF TakeAcceptedOpen
  <2>2. /\ \A i \in DOMAIN toWindow' : ~(IsEdit(toWindow'[i])
               /\ toWindow'[i].intent.source = shown')
        /\ hosted' = shown' => edited' = Untouched
    BY <2>1, NoneTells
  <2>3. \A k \in Keys : Known(k)' = Source
    BY <2>1 DEF Known, NoValue
  <2>4. \A k \in Keys : Untouched.edits[k] = Source
    BY DEF Untouched
  <2>5. RecordKnown' /\ AnswersKnown'
    BY <2>2, <2>3, <2>4 DEF RecordKnown, AnswersKnown, Accepts, Tells, Live, IsEdit
  <2>6. mounted # NoPlayer => Showing
    <3>1. ~closing
      BY <1>1 DEF Turns
    <3>2. QED
      BY <3>1 DEF Closings, Showing
  <2>7. PlayerKnown'
    BY <1>3, <2>3, <2>6, FirstMount DEF Knows, PlayerKnown
  <2>8. QED
    BY <2>5, <2>7 DEF Knows
<1>4. CASE UNCHANGED <<intentVars, shown, model, mounted, dropped>>
  <2>1. Showing' => Showing
    BY <1>1, <1>4 DEF Showing
  <2>2. ~Accepts(toWindow[1])
    BY <1>1 DEF Accepts, Live, IsEdit
  <2>3. QED
    BY <1>1, <1>4, <2>1, <2>2, KnowsKept DEF intentVars
<1>5. QED
  BY <1>2, <1>3, <1>4 DEF TakeOpened, StayInPreview

\* A text is given up when its accepted answer is of no use.
LEMMA UnusedKnows ==
  ASSUME EditsTypeOK, Closings, Chained, Knows, WindowTakes, NEW k, NEW a, Took(k, a),
         TakeLate(k, a) \/ Failed(k, a)
  PROVE  Knows'
<1>1. /\ Shifted(1) /\ UNCHANGED <<hosted, edited, closing, shown>>
      /\ a = toWindow[1] /\ k = a.key
  BY FirstTaken DEF Took, hostVars
<1>2. UNCHANGED values /\ mounted' \in {mounted, NoPlayer} /\ dropped \subseteq dropped'
  BY DEF TakeLate, Failed
<1>3. Accepts(a) => k \in dropped'
  BY DEF TakeLate, Failed, Accepts, Live
<1>4. Showing' => Showing
  BY <1>1 DEF Showing
<1>5. QED
  BY <1>1, <1>2, <1>3, <1>4, KnowsKept

\* An answer that accepts nothing tells the window what it knows.
LEMMA RefusedKnows ==
  ASSUME EditsTypeOK, Closings, Chained, Revisions, Knows, WindowTakes,
         NEW k, NEW a, Took(k, a), Result(k, a), a.status # "accepted"
  PROVE  Knows'
<1>1. /\ Shifted(1) /\ UNCHANGED <<hosted, edited, closing, shown, values, dropped>>
  BY FirstTaken DEF Took, Result, hostVars
<1>2. /\ Showing /\ Tells(a) /\ a = toWindow[1] /\ 1 \in DOMAIN toWindow
      /\ ~Accepts(a) /\ a.model.revision \in Nat /\ model.revision \in Nat
  BY ResultTells DEF Accepts
<1>3. RecordKnown /\ AnswersKnown /\ PlayerKnown
  BY <1>2 DEF Knows
<1>4. RecordKnown' /\ AnswersKnown'
  BY <1>1, <1>2, <1>3, ChannelKnown
<1>5. DOMAIN toWindow \subseteq Nat \ {0}
  BY DEF EditsTypeOK
<1>6. \A l \in Keys \ dropped : a.model.edits[l] = Known(l)
  BY <1>2, <1>3, <1>5 DEF AnswersKnown
<1>7. a.model.revision = 0 => \A l \in Keys :
        a.model.edits[l] = Source /\ values[l].value = None
  BY <1>2 DEF Revisions, Blank, Tells, Live
<1>8. PlayerKnown'
  BY <1>1, <1>3, <1>6, <1>7, ResultMount DEF PlayerKnown, Known
<1>9. QED
  BY <1>4, <1>8 DEF Knows

\* One that accepts is what the window then knows of the text.
LEMMA AcceptedKnows ==
  ASSUME EditsTypeOK, Closings, Chained, Revisions, Knows, WindowTakes,
         NEW k, NEW a, Took(k, a), Result(k, a), a.status = "accepted"
  PROVE  Knows'
<1>1. /\ UNCHANGED <<hosted, edited, closing, shown>> /\ k \in Keys /\ k = a.key
      /\ dropped' = dropped \ {k} /\ dropped \subseteq Keys
      /\ values' = [values EXCEPT ![k] =
                      IF a.kind = "reset" THEN NoValue
                      ELSE [source |-> shown, value |-> a.intent.value]]
      /\ values \in [Keys -> [source : Nat, value : Edits \cup {None}]]
      /\ a.intent.value # None
  BY NoneIsNoValue DEF Took, Result, hostVars, EditsTypeOK, Intent, Edits, None, Source, Empty
<1>2. /\ Showing /\ Tells(a) /\ Accepts(a) /\ a = toWindow[1] /\ 1 \in DOMAIN toWindow
      /\ a.model.revision \in Nat /\ model.revision \in Nat
  BY ResultTells
<1>3. RecordKnown /\ AnswersKnown /\ PlayerKnown
  BY <1>2 DEF Knows
<1>4. /\ Known(k)' = Outcome(a)
      /\ \A l \in Keys : l # k => Known(l)' = Known(l)
      /\ values'[k].value = None => Outcome(a) = Source
  BY <1>1 DEF Known, Outcome, NoValue
<1>5. \A i \in DOMAIN toWindow' :
        i \in Nat \ {0} /\ i + 1 \in DOMAIN toWindow /\ toWindow'[i] = toWindow[i + 1]
  BY WindowTail
<1>6. \A i \in DOMAIN toWindow : i # 1 =>
        i \in Nat \ {0} /\ i - 1 \in DOMAIN toWindow' /\ toWindow'[i - 1] = toWindow[i]
  BY WindowTail
<1>7. \A m : /\ Accepts(m)' <=> Accepts(m)
             /\ Tells(m)' <=> Tells(m)
  BY <1>1 DEF Accepts, Tells, Live, IsEdit
\* A text that nothing else accepts has what it is known by.
<1>8. ASSUME NEW l \in Keys \ dropped', l # k, NEW b \in Nat,
             \A i \in DOMAIN toWindow' : i <= b /\ Accepts(toWindow'[i]) =>
               toWindow'[i].key # l
      PROVE  \A i \in DOMAIN toWindow : i <= b + 1 /\ Accepts(toWindow[i]) =>
               toWindow[i].key # l
  BY <1>1, <1>2, <1>6, <1>8
<1>9. RecordKnown'
  <2>1. ASSUME hosted = shown, NEW i \in DOMAIN toWindow', Accepts(toWindow'[i])
        PROVE  edited.edits[toWindow'[i].key] = Outcome(toWindow'[i])
    BY <1>3, <1>5, <2>1 DEF RecordKnown
  <2>2. ASSUME hosted = shown, NEW l \in Keys \ dropped',
               \A i \in DOMAIN toWindow' : Accepts(toWindow'[i]) =>
                 toWindow'[i].key # l
        PROVE  edited.edits[l] = Known(l)'
    <3>1. CASE l = k
      BY <1>1, <1>2, <1>3, <1>4, <2>2, <3>1 DEF RecordKnown
    <3>2. CASE l # k
      <4>1. \A i \in DOMAIN toWindow : Accepts(toWindow[i]) => toWindow[i].key # l
        BY <1>1, <1>2, <1>6, <2>2, <3>2
      <4>2. QED
        BY <1>1, <1>3, <1>4, <2>2, <3>2, <4>1 DEF RecordKnown
    <3>3. QED
      BY <3>1, <3>2
  <2>3. QED
    BY <1>1, <1>7, <2>1, <2>2 DEF RecordKnown, Accepts, Live, IsEdit, Outcome, Known
<1>10. ASSUME NEW i \in DOMAIN toWindow', NEW j \in DOMAIN toWindow', i <= j,
              Accepts(toWindow'[i]), Tells(toWindow'[j])
       PROVE  toWindow'[j].model.edits[toWindow'[i].key] = Outcome(toWindow'[i])
  BY <1>3, <1>5, <1>10 DEF AnswersKnown
<1>11. ASSUME NEW j \in DOMAIN toWindow', Tells(toWindow'[j]), NEW l \in Keys \ dropped',
              \A i \in DOMAIN toWindow' : i <= j /\ Accepts(toWindow'[i]) =>
                toWindow'[i].key # l
       PROVE  toWindow'[j].model.edits[l] = Known(l)'
  <2>1. j \in Nat \ {0} /\ j + 1 \in DOMAIN toWindow /\ toWindow'[j] = toWindow[j + 1]
    BY <1>5
  <2>2. CASE l = k
    <3>1. 1 <= j + 1
      BY <2>1
    <3>2. QED
      BY <1>1, <1>2, <1>3, <1>4, <1>11, <2>1, <2>2, <3>1 DEF AnswersKnown
  <2>3. CASE l # k
    <3>1. \A i \in DOMAIN toWindow : i <= j + 1 /\ Accepts(toWindow[i]) =>
            toWindow[i].key # l
      BY <1>8, <1>11, <2>1, <2>3
    <3>2. QED
      BY <1>1, <1>3, <1>4, <1>11, <2>1, <2>3, <3>1 DEF AnswersKnown
  <2>4. QED
    BY <2>2, <2>3
<1>12. AnswersKnown'
  BY <1>1, <1>7, <1>10, <1>11
  DEF AnswersKnown, Accepts, Tells, Live, IsEdit, Outcome, Known
\* The answer's own record agrees, and is newer than that of the player.
<1>13. ASSUME NEW l \in Keys \ dropped', values'[l].value = None
       PROVE  a.model.edits[l] = Source
  <2>1. CASE l = k
    BY <1>1, <1>2, <1>3, <1>4, <1>13, <2>1 DEF AnswersKnown
  <2>2. CASE l # k
    <3>1. \A i \in DOMAIN toWindow : i <= 1 => i = 1
      BY <1>6
    <3>2. \A i \in DOMAIN toWindow : i <= 1 /\ Accepts(toWindow[i]) => toWindow[i].key # l
      BY <1>1, <1>2, <2>2, <3>1
    <3>3. a.model.edits[l] = Known(l)
      BY <1>1, <1>2, <1>3, <1>13, <2>2, <3>2 DEF AnswersKnown
    <3>4. values[l].value = None
      BY <1>1, <1>13, <2>2
    <3>5. QED
      BY <3>3, <3>4 DEF Known
  <2>3. QED
    BY <2>1, <2>2
<1>14. /\ a.model.revision # 0
       /\ mounted # NoPlayer => mounted.revision # a.model.revision
  BY <1>2 DEF Revisions, Blank
<1>15. PlayerKnown'
  BY <1>13, <1>14, ResultMount DEF PlayerKnown, Known
<1>16. QED
  BY <1>9, <1>12, <1>15 DEF Knows

-----------------------------------------------------------------------------
(* Every step keeps the invariant.                                         *)

LEMMA InitInv == EditsInit => Inv
BY InitType, InitTurns, InitNumbers, InitClosings, InitChained, InitRevisions DEF Inv

LEMMA AskOpenInv == Inv /\ AskOpen => Inv'
<1> SUFFICES ASSUME Inv, AskOpen PROVE Inv'
  OBVIOUS
<1>1. UNCHANGED <<toWindow, edited, hosted, shown, dropped, values, model, mounted,
                  closing>>
  BY DEF AskOpen, intentVars, hostVars
<1>2. Revisions' /\ Knows'
  BY <1>1, WindowActsRevisions, WindowActsKnows DEF Inv, EditsTypeOK
<1>3. QED
  BY <1>2, AskOpenType, AskOpenTurns, AskOpenNumbers, AskOpenBehind, AskOpenClosings,
     AskOpenChained, AskOpenKept DEF Inv

LEMMA CloseFileInv == Inv /\ CloseFile => Inv'
BY CloseFileType, CloseFileTurns, CloseFileNumbers, CloseFileBehind, CloseFileClosings,
   CloseFileChained, CloseFileRevisions DEF Inv

LEMMA ShowPreviewInv == Inv /\ ShowPreview => Inv'
<1> SUFFICES ASSUME Inv, ShowPreview PROVE Inv'
  OBVIOUS
<1>1. UNCHANGED <<toWindow, edited, hosted, shown, dropped, values, model, mounted,
                  closing>>
  BY DEF ShowPreview, intentVars, hostVars
<1>2. Revisions' /\ Knows'
  BY <1>1, WindowActsRevisions, WindowActsKnows DEF Inv, EditsTypeOK
<1>3. Turns'
  BY DEF Inv, Turns, IsTurn, ShowPreview, hostVars
<1>4. QED
  BY <1>2, <1>3, ShowPreviewType, ShowPreviewNumbers, ShowPreviewBehind,
     ShowPreviewClosings, ShowPreviewKept DEF Inv

LEMMA UpdateInv ==
  ASSUME Inv, NEW k \in Keys, NEW v \in Edits, UpdateRuntimeText(k, v)
  PROVE  Inv'
<1>1. UNCHANGED <<toWindow, edited, hosted, shown, dropped, values, model, mounted,
                  closing>>
  BY DEF UpdateRuntimeText, windowVars, hostVars
<1>2. Revisions' /\ Knows'
  BY <1>1, WindowActsRevisions, WindowActsKnows DEF Inv, EditsTypeOK
<1>3. Turns'
  BY DEF Inv, Turns, IsTurn, UpdateRuntimeText, windowVars, hostVars
<1>4. EditsTypeOK /\ Turns /\ Counted /\ Queued /\ Behind /\ Closings /\ Chained /\ Kept
  BY DEF Inv
<1>5. EditsTypeOK'
  BY <1>4, UpdateType DEF Counted
<1>6. Counted' /\ Queued' /\ Behind' /\ Closings' /\ Chained' /\ Kept'
  BY <1>4, UpdateNumbers, UpdateBehind, UpdateClosings, UpdateChained, UpdateKept
<1>7. QED
  BY <1>2, <1>3, <1>5, <1>6 DEF Inv

LEMMA ApplyIntentInv ==
  ASSUME Inv, NEW k \in Keys, ApplyIntent(k)
  PROVE  Inv'
<1>1. EditsTypeOK /\ Turns /\ Counted /\ Queued /\ Behind /\ Closings /\ Chained /\ Kept
      /\ Revisions /\ Knows
  BY DEF Inv
<1>2. PICK n \in Intent : Applied(k, n)
  BY <1>1, ApplyIntentStep
<1>3. /\ UNCHANGED <<toWindow, edited, hosted, shown, dropped, values, model, closing>>
      /\ mounted' \in {mounted, NoPlayer}
  BY <1>2 DEF Applied, hostVars
<1>4. Revisions' /\ Knows'
  BY <1>1, <1>3, WindowActsRevisions, WindowActsKnows DEF EditsTypeOK
<1>5. EditsTypeOK' /\ Turns' /\ Counted' /\ Queued' /\ Behind' /\ Closings' /\ Chained' /\ Kept'
  BY <1>1, <1>2, ApplyIntentType, ApplyIntentTurns, ApplyIntentNumbers,
     ApplyIntentBehind, ApplyIntentClosings, ApplyIntentChained, ApplyIntentKept
<1>6. QED
  BY <1>4, <1>5 DEF Inv

LEMMA HostTakesInv == Inv /\ HostTakes => Inv'
<1> SUFFICES ASSUME Inv, HostTakes PROVE Inv'
  OBVIOUS
<1>1. EditsTypeOK /\ Turns
  BY DEF Inv
<1>2. Turns'
  <2>1. CASE HostEdits(Head(toHost))
    BY <1>1, <2>1, HostEditsTurns
  <2>2. CASE /\ Head(toHost).kind = "open" /\ opening' = Head(toHost).file
             /\ UNCHANGED toWindow
    BY <1>1, <2>2, HostBeginsTurns
  <2>3. CASE /\ Head(toHost).kind \in {"dispose", "revoke"} /\ UNCHANGED opening
             /\ toWindow' = IF Head(toHost).kind = "revoke" THEN toWindow
                            ELSE Append(toWindow, [kind |-> "disposed"])
    BY <1>1, <2>3, HostDisposesTurns
  <2>4. QED
    BY <1>1, <2>1, <2>2, <2>3, HostEditsStep DEF HostTakes
<1>3. QED
  BY <1>2, HostTakesType, HostTakesNumbers, HostTakesBehind, HostTakesClosings,
     HostTakesChained, HostTakesKept, HostTakesRevisions, HostTakesKnows DEF Inv

LEMMA HostOpensInv == Inv /\ HostOpens => Inv'
BY HostOpensType, HostOpensTurns, HostOpensNumbers, HostOpensBehind, HostOpensClosings,
   HostOpensChained, HostOpensKept, HostOpensRevisions, HostOpensKnows DEF Inv

LEMMA WindowTakesInv == Inv /\ WindowTakes => Inv'
<1> SUFFICES ASSUME Inv, WindowTakes PROVE Inv'
  OBVIOUS
<1>1. EditsTypeOK /\ Turns /\ Counted /\ Queued /\ Behind /\ Closings /\ Chained /\ Kept
      /\ Revisions /\ Knows
  BY DEF Inv
<1>2. Behind'
  BY <1>1, WindowTakesBehind
<1>3. CASE TakeOpened(Head(toWindow))
  BY <1>1, <1>2, <1>3, TakeOpenedType, TakeOpenedTurns, TakeOpenedNumbers,
     TakeOpenedClosings, TakeOpenedChained, TakeOpenedKept, TakeOpenedRevisions,
     TakeOpenedKnows DEF Inv
<1>4. CASE TakeDisposed(Head(toWindow))
  BY <1>1, <1>2, <1>4, TakeDisposedType, TakeDisposedTurns, TakeDisposedNumbers,
     TakeDisposedClosings, TakeDisposedChained, TakeDisposedRevisions DEF Inv
<1>5. CASE TakeEdited(Head(toWindow))
  <2>1. PICK k \in Keys, a \in Reply :
          Took(k, a) /\ (TakeLate(k, a) \/ Failed(k, a) \/ Result(k, a))
    BY <1>1, <1>5, TakeEditedStep
  <2>2. EditsTypeOK'
    BY <1>1, <2>1, LateType, FailedType, ResultType
  <2>3. Closings'
    BY <1>1, <2>1, LateClosings, CurrentClosings
  <2>4. Knows'
    BY <1>1, <2>1, UnusedKnows, RefusedKnows, AcceptedKnows
  <2>5. Turns' /\ Counted' /\ Queued' /\ Chained' /\ Kept' /\ Revisions'
    BY <1>1, <2>1, TookTurns, TookNumbers, TookChained, TookKept, TookRevisions
  <2>6. QED
    BY <1>2, <2>2, <2>3, <2>4, <2>5 DEF Inv
<1>6. QED
  BY <1>3, <1>4, <1>5 DEF WindowTakes

LEMMA StutterInv == Inv /\ UNCHANGED editsVars => Inv'
BY DEF Inv, EditsTypeOK, Turns, IsTurn, Counted, Queued, Typed, IsEdit, Behind, Closings,
       DisposeSent, DisposeDone, Current, IntentIsCurrent, NothingInherited, Chained, Showing,
       Live, Awaited, Agrees, Outcome, Kept, Revisions, Blank, Tells, Accepts, Knows,
       RecordKnown, AnswersKnown, PlayerKnown, Known, editsVars, intentVars, windowVars, hostVars

LEMMA NextInv == Inv /\ [EditsNext]_editsVars => Inv'
BY AskOpenInv, CloseFileInv, ShowPreviewInv, UpdateInv, ApplyIntentInv, HostTakesInv,
   HostOpensInv, WindowTakesInv, StutterInv DEF EditsNext

-----------------------------------------------------------------------------
(* The theorems.                                                           *)

\* The numbers, the queues, the chains, the records and what the window knows
\* of them agree in every state.
THEOREM EditsInvariance == EditsSpec => []Inv
<1>1. EditsInit => Inv
  BY InitInv
<1>2. Inv /\ [EditsNext]_editsVars => Inv'
  BY NextInv
<1>3. QED
  BY <1>1, <1>2, PTL DEF EditsSpec

\* When the last edit of a text was taken, the record of the session holds
\* what was typed last (the mutation queues of the controller and the
\* replacement record of the session).
THEOREM TheLastEditIsKept == EditsSpec => []RecordIsTyped
<1>1. Inv => RecordIsTyped
  BY DEF Inv, Kept, RecordIsTyped, Together, Showing
<1>2. QED
  BY <1>1, EditsInvariance, PTL

\* When nothing is under way the player shows the record of the session,
\* except for a text whose last accepted edit was answered too late
\* (mountRuntimePreview and the values it overlays).
THEOREM ThePlayerShowsTheRecord == EditsSpec => []PlayerIsRecord
<1>1. Inv => PlayerIsRecord
  <2>1. ASSUME Inv, Together, mounted # NoPlayer, NEW k \in Keys \ dropped
        PROVE  mounted.texts[k] = edited.edits[k]
    <3>1. RecordKnown /\ PlayerKnown /\ hosted = shown /\ DOMAIN toWindow = {}
      BY <2>1 DEF Inv, Knows, Together, Showing
    <3>2. edited.edits[k] = Known(k)
      BY <2>1, <3>1 DEF RecordKnown
    <3>3. mounted.texts[k] = Known(k)
      BY <2>1, <3>1 DEF PlayerKnown
    <3>4. QED
      BY <3>2, <3>3
  <2>2. QED
    BY <2>1 DEF PlayerIsRecord
<1>2. QED
  BY <1>1, EditsInvariance, PTL

\* What the window keeps for the player was typed for the file it shows
\* (clearRuntimeReplacementValues on every change of file).
THEOREM NothingReachesAnotherFile == EditsSpec => []NothingInherited
<1>1. Inv => NothingInherited
  BY DEF Inv, Closings
<1>2. QED
  BY <1>1, EditsInvariance, PTL
==============================================================================
