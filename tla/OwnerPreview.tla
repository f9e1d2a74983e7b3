---------------------------- MODULE OwnerPreview ----------------------------
(***************************************************************************)
(* The owner-visible preview candidate                                     *)
(* (src/workbench/multiformat-owner-preview-candidate.ts): one object      *)
(* between the desktop session and the preview workspace, which keeps the  *)
(* record of the replacements the user has applied to the opened file.     *)
(*                                                                         *)
(* An operation is identified by the value it gave activeGeneration.  The  *)
(* steps are the runs of code between two awaits.  The workspace appears   *)
(* through what PreviewWorkspace promises: its newest request decides what *)
(* it shows, every call answers with the model it has at that moment.      *)
(*                                                                         *)
(* Simplifications: previewReady, playing and paused are "usable";         *)
(* playbackBlocked, playbackFailed and failed are "failed", and so is a    *)
(* ready VAP model with a fatal issue where Reset looks for one; Lottie    *)
(* and VAP are one format, "player"; a replacement value is the generation *)
(* of the apply that brought it; two pending controls of one kind on one   *)
(* workspace request are one.                                              *)
(***************************************************************************)
EXTENDS Naturals

CONSTANTS
  Targets,        \* replaceable targets of a file
  MaxGen,         \* bound on operations (opens, applies, resets, disposals)
  MaxOverlapping  \* bound on them for a caller that does not await each one

ASSUME ParametersAssumption ==
  /\ 0 \notin Targets
  /\ MaxGen \in Nat
  /\ MaxOverlapping \in Nat

VARIABLES
  gen,           \* activeGeneration
  open,          \* currentOpen: the open that set it, 0 for undefined
  replacements,  \* the replacement record: edits by target, and revision
  model,         \* the published model: status, file, detectedFormat known
  stage,         \* stage[g]: where the operation of generation g stands
  job,           \* job[g]: what that operation has computed so far
  calls,         \* suspended play / recoverPlayback calls, <<kind, request>>
  ws,            \* the workspace: request, file, edits, status, known, format
  serial         \* the caller awaits each command before the next one

vars == <<gen, open, replacements, model, stage, job, calls, ws, serial>>

Gens == 1 .. MaxGen
Status == {"launch", "loading", "usable", "failed", "disposed"}
Edits == [Targets -> 0 .. MaxGen]
Record == [edits : Edits, revision : Nat]

NoEdits == [t \in Targets |-> 0]
Empty(revision) == [edits |-> NoEdits, revision |-> revision]

\* "done": finished or superseded; "kept": refused before anything was
\* touched; "refused": the runtime was reloaded and its answer not accepted;
\* "rejected": the promise was rejected.
Suspended == {"opening", "autoplay", "applying", "preflight", "resetting",
              "rollback", "applySvga"}
Stage == Suspended \cup {"none", "done", "kept", "refused", "rejected"}

\* target 0 stands for a reset of every target; request is the workspace
\* request awaited, next and previous are records of replacements.
Job == [target : Targets \cup {0}, request : Nat, next : Record,
        previous : Record, file : 0 .. MaxGen]

JobOf(target, request, next, previous, file) ==
  [target |-> target, request |-> request, next |-> next,
   previous |-> previous, file |-> file]

Model == [status : Status, file : 0 .. MaxGen, known : BOOLEAN]

Workspace == [request : Nat, file : 0 .. MaxGen, edits : Edits,
              status : Status, known : BOOLEAN, format : {"svga", "player"}]

CandidateTypeOK ==
  /\ gen \in 0 .. MaxGen
  /\ open \in 0 .. MaxGen
  /\ replacements \in Record
  /\ model \in Model
  /\ stage \in [Gens -> Stage]
  /\ job \in [Gens -> Job]
  /\ calls \subseteq ({"play", "recover"} \X Nat)
  /\ ws \in Workspace

TypeOK == CandidateTypeOK /\ serial \in BOOLEAN

NoJob == JobOf(0, 0, Empty(0), Empty(0), 0)

Init ==
  /\ gen = 0
  /\ open = 0
  /\ replacements = Empty(0)
  /\ model = [status |-> "launch", file |-> 0, known |-> FALSE]
  /\ stage = [g \in Gens |-> "none"]
  /\ job = [g \in Gens |-> NoJob]
  /\ calls = {}
  /\ ws = [request |-> 0, file |-> 0, edits |-> NoEdits, status |-> "launch",
           known |-> FALSE, format |-> "player"]
  /\ serial \in BOOLEAN

-----------------------------------------------------------------------------

IsActive(g) == gen = g /\ model.status # "disposed"

Begin ==
  /\ gen < MaxGen
  /\ serial \/ gen < MaxOverlapping
  /\ gen' = gen + 1

Quiet == calls = {} /\ \A g \in Gens : stage[g] \notin Suspended

\* Some callers await each command, others let them overlap.
MayCall == serial => Quiet

ModelFromWorkspace(w) ==
  [status |-> w.status, file |-> w.file, known |-> w.known]

Goto(g, s) == stage' = [stage EXCEPT ![g] = s]

Give(g, j) == job' = [job EXCEPT ![g] = j]

\* The workspace's status changes, and what it knows of the format.
WorkspaceBecomes(s, k) ==
  ws' = [request |-> ws.request, file |-> ws.file, edits |-> ws.edits,
         status |-> s, known |-> k, format |-> ws.format]

\* The workspace is asked to load a file with some edits.
WorkspaceOpens(file, edits, format) ==
  ws' = [request |-> ws.request + 1, file |-> file, edits |-> edits,
         status |-> "loading", known |-> FALSE, format |-> format]

\* Its answer to request r; only its newest request changes its model.  It
\* can still be loading when a recovery of that request has taken over.
WorkspaceAnswers(r) ==
  IF ws.request = r
    THEN \E s \in {"usable", "failed"}
                  \cup (IF <<"recover", r>> \in calls THEN {"loading"} ELSE {}),
            k \in BOOLEAN :
           /\ s = "usable" => k
           /\ WorkspaceBecomes(s, k)
    ELSE UNCHANGED ws

\* What play, pause, seek and setLoop can do to the workspace's status.
ControlAnswers ==
  CASE ws.status = "loading" -> {"loading", "usable", "failed"}
    [] ws.status = "usable" -> {"usable", "failed"}
    [] ws.status = "disposed" -> {"disposed"}
    [] OTHER -> {"failed"}

RecoverAnswers ==
  CASE ws.status = "disposed" -> {"disposed"}
    [] ws.status = "launch" -> {"failed"}
    [] OTHER -> {"usable", "failed", ws.status}

-----------------------------------------------------------------------------
(* Opening and disposal.                                                   *)

\* Mutant: a refused open leaves currentOpen as it was.
RejectKeepingOpen ==
  /\ MayCall
  /\ Begin
  /\ replacements' = Empty(0)
  /\ model' = [status |-> "failed", file |-> 0, known |-> FALSE]
  /\ Goto(gen + 1, "kept")
  /\ UNCHANGED <<open, job, calls, ws>>

\* The input is not valid: the record is cleared, the workspace not told.
RejectOpenInput ==
  /\ MayCall
  /\ Begin
  /\ open' = 0
  /\ replacements' = Empty(0)
  /\ model' = [status |-> "failed", file |-> 0, known |-> FALSE]
  /\ Goto(gen + 1, "kept")
  /\ UNCHANGED <<job, calls, ws>>

\* Mutant: the record of the previous file is carried over.
KeepReplacements == UNCHANGED replacements

ClearReplacements == replacements' = Empty(0)

OpenLocalCandidate(format) ==
  /\ MayCall
  /\ Begin
  /\ open' = gen + 1
  /\ ClearReplacements
  /\ model' = [status |-> "loading", file |-> gen + 1, known |-> FALSE]
  /\ WorkspaceOpens(gen + 1, NoEdits, format)
  /\ Goto(gen + 1, "opening")
  /\ Give(gen + 1, JobOf(0, ws.request + 1, Empty(0), Empty(0), 0))
  /\ UNCHANGED calls

\* The workspace answered; a ready preview is started.
Opened(g) ==
  /\ stage[g] = "opening"
  /\ WorkspaceAnswers(job[g].request)
  /\ IF IsActive(g) /\ ws'.status # "usable"
       THEN model' = ModelFromWorkspace(ws')
       ELSE UNCHANGED model
  /\ Goto(g, IF IsActive(g) /\ ws'.status = "usable" THEN "autoplay" ELSE "done")
  /\ UNCHANGED <<gen, open, replacements, job, calls>>

\* The rejected autoplay is caught and reported as playbackFailed.
AutoplayRejected(g) ==
  /\ UNCHANGED ws
  /\ model' = IF IsActive(g)
                THEN [status |-> "failed", file |-> ws.file, known |-> ws.known]
                ELSE model

Autoplayed(g) ==
  /\ stage[g] = "autoplay"
  /\ Goto(g, "done")
  /\ \/ /\ IF ws.request = job[g].request
             THEN \E s \in ControlAnswers : WorkspaceBecomes(s, ws.known)
             ELSE UNCHANGED ws
        /\ model' = IF IsActive(g) THEN ModelFromWorkspace(ws') ELSE model
     \/ AutoplayRejected(g)
  /\ UNCHANGED <<gen, open, replacements, job, calls>>

\* Mutant: the workspace is left running.
DisposeRecordOnly == UNCHANGED ws

DisposeWorkspace ==
  ws' = [request |-> ws.request + 1, file |-> ws.file, edits |-> ws.edits,
         status |-> "disposed", known |-> ws.known, format |-> ws.format]

Dispose ==
  /\ MayCall
  /\ Begin
  /\ DisposeWorkspace
  /\ open' = 0
  /\ replacements' = Empty(replacements.revision)
  /\ model' = [status |-> "disposed", file |-> model.file,
               known |-> model.known]
  /\ Goto(gen + 1, "done")
  /\ UNCHANGED <<job, calls>>

-----------------------------------------------------------------------------
(* Playback controls.  None of them begins an operation, and the           *)
(* asynchronous ones do not look again after their await.                  *)

PauseSeekOrLoop ==
  /\ MayCall
  /\ model.status # "disposed"
  /\ \E s \in ControlAnswers : WorkspaceBecomes(s, ws.known)
  /\ model' = ModelFromWorkspace(ws')
  /\ UNCHANGED <<gen, open, replacements, stage, job, calls>>

PlayOrRecover(kind) ==
  /\ MayCall
  /\ model.status # "disposed"
  /\ calls' = calls \cup {<<kind, ws.request>>}
  /\ UNCHANGED <<gen, open, replacements, model, stage, job, ws>>

CallSettled(c) ==
  /\ calls' = calls \ {c}
  /\ IF ws.request = c[2]
       THEN \E s \in IF c[1] = "play" THEN ControlAnswers ELSE RecoverAnswers :
              WorkspaceBecomes(s, ws.known \/ s = "usable")
       ELSE UNCHANGED ws
  /\ model' = ModelFromWorkspace(ws')
  /\ UNCHANGED <<gen, open, replacements, stage, job>>

-----------------------------------------------------------------------------
(* Replacement commands.                                                   *)

\* The input, the selection or the model rules the command out: the model
\* keeps its preview, but the generation has been taken.
BlockReplacement ==
  /\ MayCall
  /\ Begin
  /\ Goto(gen + 1, "kept")
  /\ UNCHANGED <<open, replacements, model, job, calls, ws>>

HasTargets == open # 0 /\ model.known

\* Mutant: an upsert does not advance the revision.
UpsertSameRevision(record, t, value) ==
  [record EXCEPT !.edits[t] = value]

Upsert(record, t, value) ==
  [edits |-> [record.edits EXCEPT ![t] = value],
   revision |-> record.revision + 1]

\* Apply for Lottie and VAP: the file is loaded again with the edits.
ApplyByReload(t) ==
  /\ MayCall
  /\ HasTargets
  /\ ws.format = "player"
  /\ Begin
  /\ Goto(gen + 1, "applying")
  /\ Give(gen + 1, JobOf(t, ws.request + 1, Upsert(replacements, t, gen + 1),
                         Empty(0), open))
  /\ WorkspaceOpens(open, Upsert(replacements, t, gen + 1).edits, "player")
  /\ UNCHANGED <<open, replacements, model, calls>>

Accepts(status) == status = "usable"

Applied(g) ==
  /\ stage[g] = "applying"
  /\ WorkspaceAnswers(job[g].request)
  /\ IF ~IsActive(g)
       THEN Goto(g, "done") /\ UNCHANGED <<replacements, model>>
       ELSE /\ model' = ModelFromWorkspace(ws')
            /\ IF Accepts(ws'.status)
                 THEN Goto(g, "done") /\ replacements' = job[g].next
                 ELSE Goto(g, "refused") /\ UNCHANGED replacements
  /\ UNCHANGED <<gen, open, job, calls>>

IsActiveEdit(t) == replacements.edits[t] # 0

HasEdits(edits) == \E t \in Targets : edits[t] # 0

\* Reset of one active target, or of all of them (scope 0).
MayReset(scope) ==
  /\ HasTargets
  /\ HasEdits(replacements.edits)
  /\ scope # 0 => IsActiveEdit(scope)

ResetByReload(scope) ==
  /\ MayCall
  /\ MayReset(scope)
  /\ ws.format = "player"
  /\ Begin
  /\ Goto(gen + 1, "preflight")
  /\ Give(gen + 1, JobOf(scope, 0, Empty(0), Empty(0), 0))
  /\ UNCHANGED <<open, replacements, model, calls, ws>>

Without(record, scope) ==
  IF scope = 0 THEN Empty(record.revision + 1) ELSE Upsert(record, scope, 0)

\* The original source was read again, or could not be.
Preflighted(g) ==
  /\ stage[g] = "preflight"
  /\ \/ /\ Goto(g, IF IsActive(g) THEN "kept" ELSE "done")
        /\ UNCHANGED <<job, ws>>
     \/ /\ IsActive(g)
        /\ LET next == Without(replacements, job[g].target) IN
             /\ Goto(g, "resetting")
             /\ Give(g, JobOf(job[g].target, ws.request + 1, next,
                              replacements, open))
             /\ WorkspaceOpens(open, next.edits, "player")
  /\ UNCHANGED <<gen, open, replacements, model, calls>>

\* Mutant: a reset that is not accepted leaves the reloaded source in place.
FailInPlace(g) ==
  /\ WorkspaceAnswers(job[g].request)
  /\ Goto(g, "done")
  /\ model' = ModelFromWorkspace(ws')
  /\ UNCHANGED <<replacements, job>>

\* failResetWithRollback: the previous edits are loaded again.
RollBackReset(g) ==
  /\ WorkspaceOpens(job[g].file, job[g].previous.edits, "player")
  /\ Goto(g, "rollback")
  /\ Give(g, JobOf(job[g].target, ws.request + 1, job[g].next,
                   job[g].previous, job[g].file))
  /\ UNCHANGED <<replacements, model>>

\* A VAP model that is blocked by a missing capability is accepted too.
ResetAnswered(g) ==
  /\ stage[g] = "resetting"
  /\ \/ /\ ~IsActive(g)
        /\ WorkspaceAnswers(job[g].request)
        /\ Goto(g, "done")
        /\ UNCHANGED <<replacements, model, job>>
     \/ /\ IsActive(g)
        /\ WorkspaceAnswers(job[g].request)
        /\ ws'.status # "loading"
        /\ replacements' = job[g].next
        /\ model' = ModelFromWorkspace(ws')
        /\ Goto(g, "done")
        /\ UNCHANGED job
     \/ IsActive(g) /\ RollBackReset(g)
  /\ UNCHANGED <<gen, open, calls>>

RolledBack(g) ==
  /\ stage[g] = "rollback"
  /\ WorkspaceAnswers(job[g].request)
  /\ Goto(g, "done")
  /\ IF IsActive(g)
       THEN /\ open' = job[g].file
            /\ replacements' = job[g].previous
            /\ model' = ModelFromWorkspace(ws')
       ELSE UNCHANGED <<open, replacements, model>>
  /\ UNCHANGED <<gen, job, calls>>

-----------------------------------------------------------------------------
(* SVGA: the desktop session's replacement controller patches a copy of    *)
(* the active source, one target at a time                                 *)
(* (experiments/svga-web/multiformat-desktop-session.cjs).                 *)

\* The controller's copy of the active source becomes the one with edits.
Patch(edits) ==
  ws' = [request |-> ws.request, file |-> ws.file, edits |-> edits,
         status |-> ws.status, known |-> ws.known, format |-> ws.format]

\* Mutant: the controller does not look for another edited target.
AnyTarget(t) == TRUE

SingleTarget(t) == \A u \in Targets \ {t} : ws.edits[u] = 0

ApplySvga(t) ==
  /\ MayCall
  /\ HasTargets
  /\ ws.format = "svga"
  /\ SingleTarget(t)
  /\ Begin
  /\ Goto(gen + 1, "applySvga")
  /\ Give(gen + 1, JobOf(t, 0, [edits |-> [ws.edits EXCEPT ![t] = gen + 1],
                                revision |-> 0], Empty(0), open))
  /\ UNCHANGED <<open, replacements, model, calls, ws>>

\* The controller answers: it patches only while its file is the active one,
\* and the answer counts only for the newest operation.
SvgaApplied(g) ==
  /\ stage[g] = "applySvga"
  /\ \/ Goto(g, "kept") /\ UNCHANGED <<replacements, model, ws>>
     \/ /\ ws.file = job[g].file
        /\ ws.status # "disposed"
        /\ Patch(job[g].next.edits)
        /\ Goto(g, "done")
        /\ IF IsActive(g)
             THEN /\ replacements' = Upsert(replacements, job[g].target, g)
                  /\ model' = ModelFromWorkspace(ws')
             ELSE UNCHANGED <<replacements, model>>
  /\ UNCHANGED <<gen, open, job, calls>>

\* The controller resets without an await: one step.  The whole record goes,
\* whatever the scope.
ResetSvga(scope) ==
  /\ MayCall
  /\ MayReset(scope)
  /\ ws.format = "svga"
  /\ HasEdits(ws.edits)
  /\ Begin
  /\ Patch(NoEdits)
  /\ replacements' = Empty(replacements.revision + 1)
  /\ model' = ModelFromWorkspace(ws')
  /\ Goto(gen + 1, "done")
  /\ Give(gen + 1, JobOf(scope, 0, Empty(0), Empty(0), 0))
  /\ UNCHANGED <<open, calls>>

-----------------------------------------------------------------------------

\* A promise of the workspace is rejected: the operation ends as it stands.
Rejected(g) ==
  /\ stage[g] \in {"opening", "applying", "resetting", "rollback"}
  /\ Goto(g, "rejected")
  /\ UNCHANGED <<gen, open, replacements, model, job, calls, ws>>

Command ==
  \/ RejectOpenInput
  \/ \E f \in {"svga", "player"} : OpenLocalCandidate(f)
  \/ Dispose
  \/ PauseSeekOrLoop
  \/ \E kind \in {"play", "recover"} : PlayOrRecover(kind)
  \/ BlockReplacement
  \/ \E t \in Targets : ApplyByReload(t) \/ ApplySvga(t)
  \/ \E scope \in Targets \cup {0} : ResetByReload(scope) \/ ResetSvga(scope)

Continue(g) ==
  \/ Opened(g) \/ Autoplayed(g) \/ Applied(g) \/ Preflighted(g)
  \/ ResetAnswered(g) \/ RolledBack(g) \/ SvgaApplied(g)

Step ==
  \/ Command
  \/ \E g \in Gens : Continue(g) \/ Rejected(g)
  \/ \E c \in calls : CallSettled(c)

Next == Step /\ UNCHANGED serial

Spec == Init /\ [][Next]_vars

-----------------------------------------------------------------------------
(* Properties of any caller, however its commands overlap.                 *)

\* The revision that a binding token carries names one state of the record:
\* while the same file is open, the record changes only to a higher revision
\* (multiformat-owner-preview-candidate.ts, acceptedReplacementSelection).
RevisionNamesRecord ==
  [][ open # 0 /\ open' = open =>
        replacements' = replacements
          \/ replacements'.revision > replacements.revision ]_vars

\* Every recorded edit, and every edit the runtime was given, was applied to
\* the file it is recorded for, after that file was opened: no late answer
\* carries an edit over to another file.
EditsBelongToFile ==
  \A t \in Targets :
    /\ replacements.edits[t] # 0 => open # 0 /\ replacements.edits[t] > open
    /\ ws.edits[t] # 0 => ws.edits[t] > ws.file

\* Once disposed, the candidate stays disposed until an open: no suspended
\* play, reset or rollback brings the preview back.
DisposedUntilOpened ==
  [][ model.status = "disposed" /\ model'.status # "disposed"
        => gen' = gen + 1 /\ open' \in {0, gen'} /\ model'.status \in {"loading", "failed"} ]_vars

\* While a file is open the published model and the workspace are about that
\* file, whichever call answered last.
ShowsTheOpenFile == open # 0 => model.file = open /\ ws.file = open

-----------------------------------------------------------------------------
(* Properties of a caller that awaits each command.                        *)

\* The newest operation that reached the runtime.
Reaching == {g \in Gens : stage[g] \notin {"none", "kept"}}

LastReached ==
  IF Reaching = {} THEN "none"
  ELSE stage[CHOOSE g \in Reaching : \A h \in Reaching : h <= g]

\* At rest nothing is half done: the runtime of a usable preview shows
\* exactly the edits on record, unless the last reload was refused or its
\* promise rejected, and the model is not left loading, unless the open was
\* rejected.
SettledAtRest ==
  serial /\ Quiet =>
    /\ open # 0 /\ model.status = "usable"
         /\ LastReached \notin {"refused", "rejected"}
       => ws.edits = replacements.edits
    /\ model.status = "loading" => LastReached = "rejected"

\* An accepted reset of one target keeps the edits of the others.  For SVGA
\* the candidate clears the whole record, and it is the controller's rule of
\* one edited target that makes this true.
TargetedReset ==
  /\ gen' > 0
  /\ job'[gen'].target # 0
  /\ replacements'.revision > replacements.revision
  /\ replacements'.edits[job'[gen'].target] = 0

SiblingsSurvive ==
  [][ serial /\ TargetedReset =>
        \A u \in Targets \ {job'[gen'].target} :
          replacements'.edits[u] = replacements.edits[u] ]_vars
=============================================================================
