---------------------------- MODULE DesktopSession ----------------------------
(***************************************************************************)
(* The desktop preview session (tools/electron-prototype/experiments/      *)
(* svga-web/multiformat-desktop-session.cjs) and the commands of the main  *)
(* process on it (main.cjs): opens that overlap and are given a deadline,  *)
(* the candidate session each of them builds from modules that are         *)
(* imported once, disposal, and the SVGA replacement that is prepared      *)
(* while files change.                                                     *)
(*                                                                         *)
(* An open and the candidate session built for it share a number; a        *)
(* session that a command had to build with nothing open has one of its    *)
(* own.  A step is the code between two awaits that really wait: an await  *)
(* of a session that exists goes on before the next call arrives.          *)
(*                                                                         *)
(* The candidate appears through OwnerPreview: a disposed one stays        *)
(* disposed, an edit is recorded under the newest of its operations, and   *)
(* a binding token names one revision of one file's record.                *)
(*                                                                         *)
(* Simplifications: a file on disk that is missing, unsafe or has changed  *)
(* is an open or an edit that fails; play, seek and loop do no more here   *)
(* than build a missing session; the payloads of prepareRuntimePreview     *)
(* and the replacement of Lottie and VAP values, which the candidate does  *)
(* without the session, are left out.                                      *)
(***************************************************************************)
EXTENDS Naturals, FiniteSets

CONSTANTS
  Targets,      \* image keys of an SVGA file
  Serial,       \* replacement commands wait for the one under preparation
  MaxSessions,  \* bound on opens and sessions
  MaxCommands,  \* bound on the replacement commands on one file
  MaxPicks      \* bound on image dialogs that are up at once

ASSUME ParametersAssumption ==
  /\ "none" \notin Targets
  /\ Serial \in BOOLEAN
  /\ MaxSessions \in Nat /\ MaxCommands \in Nat /\ MaxPicks \in Nat

VARIABLES
  modules,    \* modulesPromise, the one import of the built modules
  made,       \* opens and sessions so far
  latest,     \* latestOpenRequestId
  opens,      \* opens that have not been answered
  life,       \* life[s]: the candidate session number s
  promise,    \* sessionPromise, by the number of its session; 0: undefined
  doomed,     \* sessions being created that will be disposed when they are
  disposals,  \* dispose commands that wait for their session to be created
  active,     \* activeSourceId and activeSourceBinding; 0: none
  bindings,   \* sourceBindings, and the host's sourceStore
  record,     \* replacement record of the active candidate
  preview,    \* svgaReplacementPreview
  edits,      \* replacements under preparation; seen is auxiliary: the
              \* revision of the record the image was chosen for
  picks       \* image dialogs that are up

sessionVars == <<modules, made, latest, opens, life, promise, doomed,
                 disposals, active, bindings>>
editVars == <<record, preview, edits, picks>>
vars == <<sessionVars, editVars>>

Numbers == 1 .. MaxSessions

\* "live" is the session of an open, "idle" one that nobody opened a file in.
Life == {"none", "creating", "live", "idle", "failed", "disposed"}
Alive == {"live", "idle"}

\* An edit is named by the candidate's operation that brought it.
EmptyRecord == [operation |-> 0, revision |-> 0, edit |-> [t \in Targets |-> 0]]
NoPreview == [source |-> 0, target |-> "none", edit |-> 0]

TypeOK ==
  /\ modules \in {"none", "loading", "loaded", "failed"}
  /\ made \in 0 .. MaxSessions /\ latest \in 0 .. MaxSessions
  /\ opens \subseteq Numbers
  /\ life \in [Numbers -> Life]
  /\ promise \in 0 .. MaxSessions /\ active \in 0 .. MaxSessions
  /\ doomed \subseteq Numbers /\ disposals \subseteq Numbers
  /\ bindings \subseteq Numbers
  /\ record \in [operation : Nat, revision : Nat, edit : [Targets -> Nat]]
  /\ preview \in [source : 0 .. MaxSessions, target : Targets \cup {"none"},
                  edit : Nat]
  /\ edits \subseteq [source : Numbers, target : Targets, operation : Nat,
                      seen : Nat]
  /\ picks \subseteq [source : Numbers, target : Targets, revision : Nat]

Init ==
  /\ modules = "none"
  /\ made = 0 /\ latest = 0
  /\ opens = {}
  /\ life = [s \in Numbers |-> "none"]
  /\ promise = 0 /\ doomed = {} /\ disposals = {}
  /\ active = 0 /\ bindings = {}
  /\ record = EmptyRecord /\ preview = NoPreview
  /\ edits = {} /\ picks = {}

\* What waited for the import goes on before the next call or answer arrives.
Quiet ==
  /\ \A s \in disposals : life[s] = "creating"
  /\ \A r \in opens : life[r] # "failed"

-----------------------------------------------------------------------------
(* Candidate sessions and the modules they need *)

\* createSession: it imports the modules if nobody has, and waits for them.
CreateSession(s, kind) ==
  /\ made < MaxSessions
  /\ made' = s
  /\ modules' = IF modules = "none" THEN "loading" ELSE modules
  /\ life' = [life EXCEPT ![s] = CASE modules = "loaded" -> kind
                                   [] modules = "failed" -> "failed"
                                   [] OTHER -> "creating"]

\* What becomes of a session that waited for the import.
Created(s, result) ==
  CASE result = "failed" -> "failed"
    [] result # "failed" /\ s \in doomed -> "disposed"
    [] OTHER -> IF s \in opens THEN "live" ELSE "idle"

\* The import has ended and every createSession goes on.  The promise of a
\* failed import is kept: no later call imports again.
ModulesSettle(result) ==
  /\ modules = "loading"
  /\ modules' = result
  /\ life' = [s \in Numbers |-> IF life[s] = "creating" THEN Created(s, result)
                                ELSE life[s]]
  /\ doomed' = {}
  /\ UNCHANGED <<made, latest, opens, promise, disposals, active, bindings>>
  /\ UNCHANGED editVars

\* Mutant: the previous session is forgotten and never disposed.
ForgetSession(lives, s) == life' = lives /\ doomed' = doomed

\* Session s is disposed, now or as soon as it has been created.
Release(lives, s) ==
  /\ life' = [x \in Numbers |->
               IF x = s /\ lives[x] \in Alive THEN "disposed" ELSE lives[x]]
  /\ doomed' = doomed \cup {x \in Numbers : x = s /\ lives[x] = "creating"}

DisposePending(lives) == promise' = 0 /\ Release(lives, promise)

\* The active source, the edits on it and the binding go.
ClearActive(others) ==
  /\ active' = 0
  /\ bindings' = others \ {active}
  /\ record' = EmptyRecord
  /\ preview' = NoPreview

-----------------------------------------------------------------------------
(* Opens *)

\* Refused before any wait: an unsupported or unsafe path or a file that
\* cannot be bound; or handed over to After Effects.
OpenRefused ==
  /\ Quiet /\ made < MaxSessions
  /\ made' = made + 1 /\ latest' = made + 1
  /\ DisposePending(life)
  /\ ClearActive(bindings)
  /\ UNCHANGED <<modules, opens, disposals, edits, picks>>

OpenLocalFilePath ==
  /\ Quiet
  /\ latest' = made + 1
  /\ opens' = opens \cup {made + 1}
  /\ bindings' = bindings \cup {made + 1}
  /\ CreateSession(made + 1, "live")
  /\ UNCHANGED <<promise, doomed, disposals, active>>
  /\ UNCHANGED editVars

\* Mutant: whichever open ends last wins.
LastToEnd(r) == r \in opens

IsCurrent(r) == latest = r

\* The answer is usable and the newest open's: its session and its source
\* take the places of the previous ones.
Accept(r) ==
  /\ promise' = r /\ Release(life, promise)
  /\ active' = r
  /\ bindings' = bindings \ {active}
  /\ record' = EmptyRecord
  /\ preview' = NoPreview

\* The staged session goes and, when nobody has asked since, what was open.
Reject(r) ==
  LET lives == [life EXCEPT ![r] = IF @ = "live" THEN "disposed" ELSE @]
  IN IF IsCurrent(r)
     THEN DisposePending(lives) /\ ClearActive(bindings \ {r})
     ELSE /\ life' = lives
          /\ bindings' = bindings \ {r}
          /\ UNCHANGED <<promise, doomed, active, record, preview>>

Answer(r) ==
  /\ r \in opens
  /\ opens' = opens \ {r}
  /\ UNCHANGED <<modules, made, latest, disposals, edits, picks>>

\* The candidate answers.
OpenAnswered(r, usable) ==
  /\ Quiet /\ life[r] = "live"
  /\ Answer(r)
  /\ IF usable /\ IsCurrent(r) THEN Accept(r) ELSE Reject(r)

\* Mutant: the deadline of an open that was overtaken is cancelled.
TimesOutIfCurrent(r) ==
  IsCurrent(r) /\ Quiet /\ life[r] = "live" /\ Answer(r) /\ Reject(r)

\* It does not, before the deadline (which starts when the session exists).
OpenTimesOut(r) == Quiet /\ life[r] = "live" /\ Answer(r) /\ Reject(r)

\* The import has failed, and there is no session to ask.
CreationFailed(r) == life[r] = "failed" /\ Answer(r) /\ Reject(r)

-----------------------------------------------------------------------------
(* Commands *)

\* play, pause, seek, loop, recover or model when nothing is open: a session
\* is built all the same (ensureSession).
ControlIdle ==
  /\ Quiet /\ promise = 0
  /\ promise' = made + 1
  /\ CreateSession(made + 1, "idle")
  /\ UNCHANGED <<latest, opens, doomed, disposals, active, bindings>>
  /\ UNCHANGED editVars

DisposeNow(s) ==
  /\ life' = [life EXCEPT ![s] = IF @ \in Alive THEN "disposed" ELSE @]
  /\ promise' = 0
  /\ ClearActive(bindings)
  /\ UNCHANGED <<modules, made, latest, opens, doomed, edits, picks>>

\* The dispose command.  (One that finds no session builds one first, which is
\* ControlIdle.)
Dispose ==
  /\ Quiet /\ promise # 0
  /\ IF life[promise] = "creating"
     THEN /\ disposals' = disposals \cup {promise}
          /\ UNCHANGED <<modules, made, latest, opens, life, promise, doomed,
                         active, bindings, editVars>>
     ELSE life[promise] # "failed" /\ DisposeNow(promise) /\ UNCHANGED disposals

\* The session a dispose command waited for exists, or never will.
DisposeResumes(s) ==
  /\ s \in disposals /\ life[s] # "creating"
  /\ disposals' = disposals \ {s}
  /\ IF life[s] = "failed"
     THEN UNCHANGED <<modules, made, latest, opens, life, promise, doomed,
                      active, bindings, editVars>>
     ELSE DisposeNow(s)

-----------------------------------------------------------------------------
(* SVGA image replacement *)

MayCommand ==
  /\ Quiet /\ active # 0
  /\ record.operation < MaxCommands
  /\ Serial => ~ \E e \in edits : e.source = active

\* Every replacement command begins an operation of the candidate.
Begun == [record EXCEPT !.operation = @ + 1]

\* Mutant: another image key may be replaced at the same time.
AnyTarget(t) == t \in Targets

\* The controller replaces one image key at a time.
TargetAllowed(t) == preview.edit = 0 \/ preview.target = t

Apply(t, seen) ==
  /\ MayCommand
  /\ record' = Begun
  /\ edits' = edits \cup
       {[source |-> active, target |-> u, operation |-> Begun.operation,
         seen |-> seen] :
          u \in {v \in {t} : TargetAllowed(v)}}
  /\ UNCHANGED <<sessionVars, preview>>

ApplyImage(t) == Apply(t, record.revision) /\ UNCHANGED picks

\* What the host asks before the dialog goes up, and again when it is down:
\* the same source, and the same binding token.
ChooseImage(t) ==
  /\ Quiet /\ active # 0
  /\ Cardinality(picks) < MaxPicks
  /\ picks' = picks \cup
       {[source |-> active, target |-> t, revision |-> record.revision]}
  /\ UNCHANGED <<sessionVars, record, preview, edits>>

\* Mutant: the token is not asked for again when the dialog is down.
SameSource(p) == active = p.source

PickIsCurrent(p) == active = p.source /\ record.revision = p.revision

ImagePicked(p) ==
  /\ picks' = picks \ {p}
  /\ PickIsCurrent(p) /\ Apply(p.target, p.revision)

PickDropped(p) ==
  /\ Quiet
  /\ picks' = picks \ {p}
  /\ UNCHANGED <<sessionVars, record, preview, edits>>

SourceIsCurrent(e) == active = e.source

\* The patched copy is ready.  It is kept if its source is still the active
\* one; the candidate records it under its newest operation only.
EditPrepared(e) ==
  /\ Quiet
  /\ edits' = edits \ {e}
  /\ IF SourceIsCurrent(e)
     THEN /\ preview' = [source |-> e.source, target |-> e.target,
                         edit |-> e.operation]
          /\ record' = IF record.operation = e.operation
                       THEN [record EXCEPT !.revision = @ + 1,
                                           !.edit[e.target] = e.operation]
                       ELSE record
     ELSE UNCHANGED <<preview, record>>
  /\ UNCHANGED <<sessionVars, picks>>

\* The image is refused, or the file has changed on disk.
EditRefused(e) ==
  /\ Quiet
  /\ edits' = edits \ {e}
  /\ UNCHANGED <<sessionVars, record, preview, picks>>

\* A reset of an edited target, or of all of them, empties the record.
ResetImage ==
  /\ MayCommand
  /\ \E t \in Targets : record.edit[t] # 0
  /\ IF preview.edit # 0
     THEN /\ record' = [EmptyRecord EXCEPT !.operation = Begun.operation,
                                          !.revision = record.revision + 1]
          /\ preview' = [preview EXCEPT !.target = "none", !.edit = 0]
     ELSE record' = Begun /\ UNCHANGED preview
  /\ UNCHANGED <<sessionVars, edits, picks>>

-----------------------------------------------------------------------------

Next ==
  \/ \E result \in {"loaded", "failed"} : ModulesSettle(result)
  \/ OpenRefused \/ OpenLocalFilePath
  \/ \E r \in Numbers :
       \/ \E usable \in BOOLEAN : OpenAnswered(r, usable)
       \/ OpenTimesOut(r) \/ CreationFailed(r) \/ DisposeResumes(r)
  \/ ControlIdle \/ Dispose
  \/ \E t \in Targets : ApplyImage(t) \/ ChooseImage(t)
  \/ \E p \in picks : ImagePicked(p) \/ PickDropped(p)
  \/ \E e \in edits : EditPrepared(e) \/ EditRefused(e)
  \/ ResetImage

Spec == Init /\ [][Next]_vars

\* An import of local files ends, a timer fires, and what waited for the
\* import goes on; nothing else is promised.
Fairness ==
  /\ WF_vars(\E result \in {"loaded", "failed"} : ModulesSettle(result))
  /\ \A s \in Numbers :
       /\ WF_vars(OpenTimesOut(s))
       /\ WF_vars(CreationFailed(s))
       /\ WF_vars(DisposeResumes(s))

FairSpec == Spec /\ Fairness

-----------------------------------------------------------------------------
(* What the session promises *)

\* The active source has its own live session behind it, and nobody else's,
\* across overlapping opens, deadlines, failures and disposals.
ActiveIsBacked ==
  active # 0 => promise = active /\ life[active] = "live"

\* No session with a file in it is lost: it is staged by an open that is still
\* to be answered, or it is the current one.  (dispose() is the only thing
\* that stops its player.)
OpenedIsOwned ==
  \A s \in Numbers : life[s] = "live" => s \in opens \/ s = promise

\* The right to read a file is held by the opens under way and by the active
\* source, and given back by every other end an open can have.
BindingsAreOwned == bindings = opens \cup ({active} \ {0})

\* Sessions, sources and the right to read them are accounted for: nothing
\* active is without its session, nothing opened is lost or kept too long.
SourcesAccounted == ActiveIsBacked /\ OpenedIsOwned /\ BindingsAreOwned

\* With the commands one after the other: once no edit of the active file is
\* under preparation, the patched copy shown and the record agree, and at most
\* one image key is edited.
PreviewIsRecord ==
  (~ \E e \in edits : e.source = active) =>
    \A t \in Targets :
      record.edit[t] = IF preview.target = t THEN preview.edit ELSE 0

\* The patched copy is one of the active file, whatever was opened or closed
\* while it was prepared.
PreviewFollowsSource == preview.source \in {0, active}

\* An image enters the record of the file it was chosen for, and on top of
\* the edits that were there when it was chosen, however long the dialog was
\* up and the patched copy took, and whatever was opened, edited or reset
\* meanwhile: nobody's edit is written over unseen.
RecordedAsSeen ==
  [][\A e \in edits \ edits' :
       record'.revision # record.revision =>
         active = e.source /\ record.revision = e.seen]_vars

\* Every open is answered.
OpensSettle == \A r \in Numbers : r \in opens ~> r \notin opens

\* The session implements the hand-over of authority from open to open.
Authority == INSTANCE SourceAuthority WITH
  newest <- latest, asking <- latest \in opens, holder <- active
AuthorityMovesForward == Authority!Spec
=============================================================================
