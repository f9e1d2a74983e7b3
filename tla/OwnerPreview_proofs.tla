------------------------- MODULE OwnerPreview_proofs -------------------------
(***************************************************************************)
(* Proofs about OwnerPreview, for every set of targets, every bound on     *)
(* operations and every caller, serial or not.                             *)
(***************************************************************************)
EXTENDS OwnerPreview, TLAPS

-----------------------------------------------------------------------------
(* What the helpers of the model build.                                    *)

LEMMA EmptyFacts ==
  ASSUME NEW r \in Nat
  PROVE  /\ Empty(r) \in Record
         /\ Empty(r).revision = r
         /\ \A t \in Targets : Empty(r).edits[t] = 0
BY ParametersAssumption DEF Empty, NoEdits, Record, Edits

LEMMA UpsertFacts ==
  ASSUME NEW r \in Record, NEW t \in Targets, NEW v \in 0 .. MaxGen
  PROVE  /\ Upsert(r, t, v) \in Record
         /\ Upsert(r, t, v).revision = r.revision + 1
         /\ \A u \in Targets :
              Upsert(r, t, v).edits[u] = IF u = t THEN v ELSE r.edits[u]
BY ParametersAssumption DEF Upsert, Record, Edits

LEMMA WithoutFacts ==
  ASSUME NEW r \in Record, NEW scope \in Targets \cup {0}
  PROVE  /\ Without(r, scope) \in Record
         /\ Without(r, scope).revision = r.revision + 1
         /\ \A u \in Targets : Without(r, scope).edits[u] \in {0, r.edits[u]}
<1>1. r.revision + 1 \in Nat /\ 0 \in 0 .. MaxGen
  BY ParametersAssumption DEF Record
<1>2. CASE scope = 0
  BY <1>1, <1>2, EmptyFacts DEF Without
<1>3. CASE scope # 0
  BY <1>1, <1>3, UpsertFacts DEF Without
<1> QED
  BY <1>2, <1>3

LEMMA JobFacts ==
  ASSUME NEW t \in Targets \cup {0}, NEW r \in Nat, NEW n \in Record,
         NEW p \in Record, NEW f \in 0 .. MaxGen
  PROVE  /\ JobOf(t, r, n, p, f) \in Job
         /\ JobOf(t, r, n, p, f).target = t
         /\ JobOf(t, r, n, p, f).request = r
         /\ JobOf(t, r, n, p, f).next = n
         /\ JobOf(t, r, n, p, f).previous = p
         /\ JobOf(t, r, n, p, f).file = f
BY DEF JobOf, Job

LEMMA JobFields ==
  ASSUME NEW j \in Job
  PROVE  /\ j.target \in Targets \cup {0}
         /\ j.request \in Nat
         /\ j.next \in Record
         /\ j.previous \in Record
         /\ j.file \in 0 .. MaxGen
BY DEF Job

LEMMA RecordFields ==
  ASSUME NEW r \in Record
  PROVE  /\ r.edits \in Edits
         /\ r.revision \in Nat
         /\ \A t \in Targets : r.edits[t] \in 0 .. MaxGen
BY DEF Record, Edits

LEMMA WorkspaceFields ==
  ASSUME NEW w \in Workspace
  PROVE  /\ w.request \in Nat
         /\ w.file \in 0 .. MaxGen
         /\ w.edits \in Edits
         /\ \A t \in Targets : w.edits[t] \in 0 .. MaxGen
         /\ w.status \in Status
         /\ w.known \in BOOLEAN
BY DEF Workspace, Edits

LEMMA ModelFacts ==
  ASSUME NEW w \in Workspace
  PROVE  /\ ModelFromWorkspace(w) \in Model
         /\ ModelFromWorkspace(w).status = w.status
         /\ ModelFromWorkspace(w).file = w.file
         /\ ModelFromWorkspace(w).known = w.known
BY DEF ModelFromWorkspace, Model, Workspace

\* Only operation g moves, to stage s; only operation g has its job changed.
StageMoves(g, s) ==
  /\ stage' \in [Gens -> Stage]
  /\ stage'[g] = s
  /\ \A h \in Gens : h # g => stage'[h] = stage[h]

JobMoves(g) ==
  /\ job' \in [Gens -> Job]
  /\ \A h \in Gens : h # g => job'[h] = job[h]

LEMMA GotoFacts ==
  ASSUME CandidateTypeOK, NEW g \in Gens, NEW s \in Stage, Goto(g, s)
  PROVE  StageMoves(g, s)
BY DEF CandidateTypeOK, Goto, StageMoves

LEMMA GiveFacts ==
  ASSUME CandidateTypeOK, NEW g \in Gens, NEW j \in Job, Give(g, j)
  PROVE  JobMoves(g) /\ job'[g] = j
BY DEF CandidateTypeOK, Give, JobMoves

LEMMA OpensFacts ==
  ASSUME ws \in Workspace, NEW file \in 0 .. MaxGen, NEW edits \in Edits,
         NEW format \in {"svga", "player"}, WorkspaceOpens(file, edits, format)
  PROVE  /\ ws' \in Workspace
         /\ ws'.request = ws.request + 1
         /\ ws'.file = file
         /\ ws'.edits = edits
         /\ ws'.status = "loading"
         /\ ~ws'.known
         /\ ws'.format = format
BY DEF WorkspaceOpens, Workspace, Status

LEMMA BecomesFacts ==
  ASSUME ws \in Workspace, NEW s \in Status, NEW k \in BOOLEAN,
         WorkspaceBecomes(s, k)
  PROVE  /\ ws' \in Workspace
         /\ ws'.request = ws.request
         /\ ws'.file = ws.file
         /\ ws'.edits = ws.edits
         /\ ws'.status = s
         /\ ws'.known = k
         /\ ws'.format = ws.format
BY DEF WorkspaceBecomes, Workspace

LEMMA PatchFacts ==
  ASSUME ws \in Workspace, NEW edits \in Edits, Patch(edits)
  PROVE  /\ ws' \in Workspace
         /\ ws'.request = ws.request
         /\ ws'.file = ws.file
         /\ ws'.edits = edits
         /\ ws'.status = ws.status
         /\ ws'.known = ws.known
         /\ ws'.format = ws.format
BY DEF Patch, Workspace

\* Answers and controls change only the status; a disposed workspace stays
\* disposed, and answers no request but its newest.
Speaks ==
  /\ ws' \in Workspace
  /\ ws'.request = ws.request /\ ws'.file = ws.file /\ ws'.edits = ws.edits
  /\ ws'.format = ws.format
  /\ ws.status = "disposed" => ws'.status = "disposed"
  /\ ws'.status = "disposed" => ws.status = "disposed"

LEMMA AnswerFacts ==
  ASSUME ws \in Workspace, NEW r \in Nat, WorkspaceAnswers(r),
         ws.status = "disposed" => r # ws.request
  PROVE  Speaks
<1>1. CASE ws.request = r
  <2>1. PICK s \in {"usable", "failed", "loading"}, k \in BOOLEAN :
          WorkspaceBecomes(s, k)
    BY <1>1 DEF WorkspaceAnswers
  <2>2. s \in Status /\ s # "disposed"
    BY DEF Status
  <2> QED
    BY <1>1, <2>1, <2>2, BecomesFacts DEF Speaks
<1>2. CASE ws.request # r
  BY <1>2 DEF WorkspaceAnswers, Speaks
<1> QED
  BY <1>1, <1>2

LEMMA ControlFacts ==
  ASSUME ws \in Workspace, NEW s \in ControlAnswers \cup RecoverAnswers,
         NEW k \in BOOLEAN, WorkspaceBecomes(s, k)
  PROVE  Speaks
<1>1. s \in Status /\ (s = "disposed" <=> ws.status = "disposed")
  BY WorkspaceFields DEF ControlAnswers, RecoverAnswers, Status
<1> QED
  BY <1>1, BecomesFacts DEF Speaks

-----------------------------------------------------------------------------
(* The inductive invariant.                                                *)

\* Every edit was applied after file f was opened.
AppliedSince(edits, f) == \A t \in Targets : edits[t] # 0 => edits[t] > f

\* Nothing is known of an operation before it begins.
Births ==
  /\ \A g \in Gens : g > gen => stage[g] = "none" /\ job[g] = NoJob
  /\ open <= gen
  /\ ws.file <= gen

\* A suspended command of the newest generation still finds the file and the
\* record it began with.
NewestOp ==
  \A g \in Gens : g = gen =>
    /\ stage[g] \in {"applying", "applySvga", "preflight", "resetting", "rollback"}
         => open # 0 /\ open < g
    /\ stage[g] \in {"applying", "resetting"}
         => /\ AppliedSince(job[g].next.edits, open)
            /\ job[g].next.revision > replacements.revision
    /\ stage[g] \in {"resetting", "rollback"}
         => job[g].previous = replacements /\ job[g].file = open

\* What the SVGA controller is preparing fits the file it was prepared for.
SvgaOp ==
  \A g \in Gens : stage[g] = "applySvga" =>
    job[g].target \in Targets /\ AppliedSince(job[g].next.edits, job[g].file)

\* A disposed workspace has no request that may still answer.
Disposal ==
  /\ model.status = "disposed" => ws.status = "disposed"
  /\ open # 0 => ws.status # "disposed"
  /\ \A g \in Gens :
       stage[g] \in {"opening", "applying", "resetting", "rollback"} =>
         /\ job[g].request <= ws.request
         /\ ws.status = "disposed" => job[g].request < ws.request

IInv ==
  /\ CandidateTypeOK
  /\ Births
  /\ NewestOp
  /\ SvgaOp
  /\ Disposal
  /\ EditsBelongToFile
  /\ ShowsTheOpenFile

-----------------------------------------------------------------------------
(* Most continuations only settle something: the operation ends, the       *)
(* workspace may speak, the model may be published anew, and the record    *)
(* may become the one that the newest operation has prepared.              *)

Held == {"opening", "applying", "applySvga", "preflight", "resetting", "rollback"}

Ends(g) == stage[g] # "none" /\ stage'[g] \notin Held

Publishes ==
  \/ UNCHANGED model
  \/ /\ model' \in Model
     /\ model'.file = ws'.file
     /\ \/ model'.status = ws'.status
        \/ /\ model'.status = "failed"
           /\ model.status # "disposed"

Commits ==
  \/ UNCHANGED replacements
  \/ \E g \in Gens :
       /\ gen = g
       /\ stage[g] \in {"applying", "resetting"}
       /\ stage'[g] = "done"
       /\ replacements' = job[g].next

Settles ==
  /\ UNCHANGED <<gen, open, job>>
  /\ calls' \subseteq ({"play", "recover"} \X Nat)
  /\ stage' \in [Gens -> Stage]
  /\ \A g \in Gens : stage'[g] = stage[g] \/ Ends(g)
  /\ Speaks
  /\ Publishes
  /\ Commits

LEMMA SettlesKeeps ==
  ASSUME IInv, Settles
  PROVE  IInv'
<1> USE DEF IInv, Settles, Ends, Gens
<1>1. replacements' \in Record
  BY JobFields DEF CandidateTypeOK, Commits
<1>2. CandidateTypeOK'
  BY <1>1 DEF CandidateTypeOK, Publishes, Speaks
<1>3. Births'
  BY WorkspaceFields DEF Births, Speaks, Held, CandidateTypeOK
<1>4. NewestOp'
  BY DEF NewestOp, Commits, Held, AppliedSince
<1>5. SvgaOp'
  BY DEF SvgaOp, Held, AppliedSince
<1>6. Disposal'
  BY DEF Disposal, Speaks, Publishes, Held
<1>7. EditsBelongToFile'
  BY DEF EditsBelongToFile, NewestOp, AppliedSince, Commits, Speaks
<1>8. ShowsTheOpenFile'
  BY DEF ShowsTheOpenFile, Publishes, Speaks
<1> QED
  BY <1>2, <1>3, <1>4, <1>5, <1>6, <1>7, <1>8

LEMMA GoSettles ==
  ASSUME CandidateTypeOK, NEW g \in Gens, NEW s \in Stage \ Held, Goto(g, s),
         stage[g] # "none"
  PROVE  /\ stage' \in [Gens -> Stage]
         /\ \A h \in Gens : stage'[h] = stage[h] \/ Ends(h)
         /\ stage'[g] = s
BY GotoFacts DEF StageMoves, Ends

LEMMA WsSpeaks ==
  ASSUME CandidateTypeOK, UNCHANGED ws
  PROVE  Speaks
BY DEF CandidateTypeOK, Speaks

LEMMA ModelPublishes ==
  ASSUME Speaks, model' = ModelFromWorkspace(ws')
  PROVE  Publishes
BY ModelFacts DEF Speaks, Publishes

LEMMA StillSpeaks ==
  ASSUME IInv, NEW g \in Gens,
         stage[g] \in {"opening", "applying", "resetting", "rollback"},
         WorkspaceAnswers(job[g].request)
  PROVE  Speaks
<1>1. job[g].request \in Nat /\ ws \in Workspace /\ ws.request \in Nat
  BY JobFields, WorkspaceFields DEF IInv, CandidateTypeOK
<1>2. ws.status = "disposed" => job[g].request # ws.request
  BY <1>1 DEF IInv, Disposal
<1> QED
  BY <1>1, <1>2, AnswerFacts

LEMMA PauseSeekOrLoopSettles ==
  ASSUME IInv, PauseSeekOrLoop
  PROVE  Settles
<1>1. Speaks
  BY WorkspaceFields, ControlFacts DEF PauseSeekOrLoop, IInv, CandidateTypeOK
<1>2. Publishes
  BY <1>1, ModelPublishes DEF PauseSeekOrLoop
<1> QED
  BY <1>1, <1>2 DEF PauseSeekOrLoop, Settles, Commits, IInv, CandidateTypeOK

LEMMA PlayOrRecoverSettles ==
  ASSUME IInv, NEW kind \in {"play", "recover"}, PlayOrRecover(kind)
  PROVE  Settles
<1>1. ws.request \in Nat
  BY WorkspaceFields DEF IInv, CandidateTypeOK
<1> QED
  BY <1>1, WsSpeaks DEF PlayOrRecover, Settles, Publishes, Commits, IInv, CandidateTypeOK

LEMMA CallSettledSettles ==
  ASSUME IInv, NEW c \in calls, CallSettled(c)
  PROVE  Settles
<1>1. Speaks
  <2>1. CASE UNCHANGED ws
    BY <2>1, WsSpeaks DEF IInv
  <2>2. CASE \E s \in ControlAnswers \cup RecoverAnswers, k \in BOOLEAN :
               WorkspaceBecomes(s, k)
    BY <2>2, ControlFacts DEF IInv, CandidateTypeOK
  <2>3. \A s : (ws.known \/ s = "usable") \in BOOLEAN
    OBVIOUS
  <2> QED
    BY <2>1, <2>2, <2>3 DEF CallSettled
<1>2. Publishes
  BY <1>1, ModelPublishes DEF CallSettled
<1> QED
  BY <1>1, <1>2 DEF CallSettled, Settles, Commits, IInv, CandidateTypeOK

LEMMA OpenedSettles ==
  ASSUME IInv, NEW g \in Gens, Opened(g)
  PROVE  Settles
<1>1. Speaks
  BY StillSpeaks DEF Opened
<1>2. Publishes
  BY <1>1, ModelPublishes DEF Opened, Publishes
<1>3. stage' \in [Gens -> Stage]
      /\ \A h \in Gens : stage'[h] = stage[h] \/ Ends(h)
  BY GoSettles DEF Opened, Stage, Suspended, Held, IInv
<1> QED
  BY <1>1, <1>2, <1>3 DEF Opened, Settles, Commits, IInv, CandidateTypeOK

LEMMA AutoplayedSettles ==
  ASSUME IInv, NEW g \in Gens, Autoplayed(g)
  PROVE  Settles
<1>1. Speaks
  BY WorkspaceFields, ControlFacts, WsSpeaks
  DEF Autoplayed, AutoplayRejected, IInv, CandidateTypeOK
<1>2. Publishes
  <2>1. CASE UNCHANGED model
    BY <2>1 DEF Publishes
  <2>2. CASE model' = ModelFromWorkspace(ws')
    BY <1>1, <2>2, ModelPublishes
  <2>3. CASE /\ UNCHANGED ws
             /\ model' = [status |-> "failed", file |-> ws.file, known |-> ws.known]
             /\ IsActive(g)
    BY <2>3, WorkspaceFields DEF Publishes, Model, Status, IInv, CandidateTypeOK, IsActive
  <2> QED
    BY <2>1, <2>2, <2>3 DEF Autoplayed, AutoplayRejected
<1>3. stage' \in [Gens -> Stage]
      /\ \A h \in Gens : stage'[h] = stage[h] \/ Ends(h)
  BY GoSettles DEF Autoplayed, Stage, Suspended, Held, IInv
<1> QED
  BY <1>1, <1>2, <1>3 DEF Autoplayed, Settles, Commits, IInv, CandidateTypeOK

LEMMA AppliedSettles ==
  ASSUME IInv, NEW g \in Gens, Applied(g)
  PROVE  Settles
<1>1. Speaks
  BY StillSpeaks DEF Applied
<1>2. Publishes
  BY <1>1, ModelPublishes DEF Applied, Publishes
<1>3. PICK s \in {"done", "refused"} : Goto(g, s) /\ (s = "refused" => UNCHANGED replacements)
  BY DEF Applied
<1>4. /\ stage' \in [Gens -> Stage]
      /\ \A h \in Gens : stage'[h] = stage[h] \/ Ends(h)
      /\ stage'[g] = s
  <2>1. stage[g] # "none"
    BY DEF Applied
  <2> QED
    BY <1>3, <2>1, GoSettles DEF Stage, Suspended, Held, IInv
<1>5. Commits
  BY <1>3, <1>4 DEF Applied, Commits, IsActive
<1> QED
  BY <1>1, <1>2, <1>4, <1>5 DEF Applied, Settles, IInv, CandidateTypeOK

LEMMA RolledBackSettles ==
  ASSUME IInv, NEW g \in Gens, RolledBack(g)
  PROVE  Settles
<1>1. Speaks
  BY StillSpeaks DEF RolledBack
<1>2. Publishes
  BY <1>1, ModelPublishes DEF RolledBack, Publishes
<1>3. stage' \in [Gens -> Stage]
      /\ \A h \in Gens : stage'[h] = stage[h] \/ Ends(h)
  BY GoSettles DEF RolledBack, Stage, Suspended, Held, IInv
<1>4. UNCHANGED <<open, replacements>>
  BY DEF RolledBack, IsActive, IInv, NewestOp
<1> QED
  BY <1>1, <1>2, <1>3, <1>4 DEF RolledBack, Settles, Commits, IInv, CandidateTypeOK

LEMMA RejectedSettles ==
  ASSUME IInv, NEW g \in Gens, Rejected(g)
  PROVE  Settles
<1>1. stage' \in [Gens -> Stage]
      /\ \A h \in Gens : stage'[h] = stage[h] \/ Ends(h)
  BY GoSettles DEF Rejected, Stage, Suspended, Held, IInv
<1> QED
  BY <1>1, WsSpeaks DEF Rejected, Settles, Publishes, Commits, IInv, CandidateTypeOK

-----------------------------------------------------------------------------
(* The steps that begin an operation.                                      *)

LEMMA BeginFacts ==
  ASSUME IInv, Begin
  PROVE  /\ gen' = gen + 1
         /\ gen' \in Gens
         /\ gen' \in 0 .. MaxGen
         /\ gen \in 0 .. MaxGen
         /\ gen < gen'
         /\ open \in 0 .. MaxGen /\ open <= gen /\ open < gen'
         /\ ws.file \in 0 .. MaxGen /\ ws.file < gen'
         /\ \A h \in Gens : h > gen' => h > gen /\ h # gen'
         /\ \A h \in Gens : h = gen' \/ h # gen'
BY ParametersAssumption, WorkspaceFields DEF Begin, IInv, CandidateTypeOK, Births, Gens

LEMMA BlockReplacementKeeps ==
  ASSUME IInv, BlockReplacement
  PROVE  IInv'
<1>1. Begin /\ UNCHANGED <<open, replacements, model, job, calls, ws>>
  BY DEF BlockReplacement
<1>2. StageMoves(gen', "kept")
  BY <1>1, BeginFacts, GotoFacts DEF BlockReplacement, IInv, Stage
<1>3. CandidateTypeOK'
  BY <1>1, <1>2, BeginFacts DEF IInv, CandidateTypeOK, StageMoves
<1>4. Births'
  BY <1>1, <1>2, BeginFacts DEF IInv, CandidateTypeOK, Births, StageMoves, Gens
<1>5. NewestOp'
  BY <1>1, <1>2, BeginFacts DEF NewestOp, StageMoves
<1>6. SvgaOp'
  BY <1>1, <1>2, BeginFacts DEF IInv, SvgaOp, StageMoves, AppliedSince
<1>7. Disposal'
  BY <1>1, <1>2, BeginFacts DEF IInv, Disposal, StageMoves
<1>8. EditsBelongToFile' /\ ShowsTheOpenFile'
  BY <1>1 DEF IInv, EditsBelongToFile, ShowsTheOpenFile
<1> QED
  BY <1>3, <1>4, <1>5, <1>6, <1>7, <1>8 DEF IInv

LEMMA RejectOpenInputKeeps ==
  ASSUME IInv, RejectOpenInput
  PROVE  IInv'
<1>1. /\ Begin
      /\ open' = 0
      /\ replacements' = Empty(0)
      /\ UNCHANGED <<job, calls, ws>>
  BY DEF RejectOpenInput
<1>2. StageMoves(gen', "kept")
  BY <1>1, BeginFacts, GotoFacts DEF RejectOpenInput, IInv, Stage
<1>3. model' \in Model /\ model'.status = "failed"
  BY ParametersAssumption DEF RejectOpenInput, Model, Status
<1>4. CandidateTypeOK'
  BY <1>1, <1>2, <1>3, BeginFacts, EmptyFacts, ParametersAssumption
  DEF IInv, CandidateTypeOK, StageMoves
<1>5. Births'
  BY <1>1, <1>2, BeginFacts DEF IInv, CandidateTypeOK, Births, StageMoves, Gens
<1>6. NewestOp'
  BY <1>1, <1>2, BeginFacts DEF NewestOp, StageMoves
<1>7. SvgaOp'
  BY <1>1, <1>2, BeginFacts DEF IInv, SvgaOp, StageMoves, AppliedSince
<1>8. Disposal'
  BY <1>1, <1>2, <1>3, BeginFacts DEF IInv, Disposal, StageMoves
<1>9. EditsBelongToFile' /\ ShowsTheOpenFile'
  BY <1>1, EmptyFacts DEF IInv, EditsBelongToFile, ShowsTheOpenFile
<1> QED
  BY <1>4, <1>5, <1>6, <1>7, <1>8, <1>9 DEF IInv

LEMMA DisposeKeeps ==
  ASSUME IInv, Dispose
  PROVE  IInv'
<1>1. /\ Begin
      /\ open' = 0
      /\ replacements' = Empty(replacements.revision)
      /\ UNCHANGED <<job, calls>>
  BY DEF Dispose
<1>2. StageMoves(gen', "done")
  BY <1>1, BeginFacts, GotoFacts DEF Dispose, IInv, Stage
<1>3. model' \in Model /\ model'.status = "disposed"
  BY DEF Dispose, Model, Status, IInv, CandidateTypeOK
<1>4. /\ ws \in Workspace /\ ws' \in Workspace
      /\ ws'.request = ws.request + 1
      /\ ws'.file = ws.file
      /\ ws'.edits = ws.edits
      /\ ws'.status = "disposed"
  BY DEF Dispose, DisposeWorkspace, Workspace, Status, IInv, CandidateTypeOK
<1>5. replacements' \in Record /\ \A t \in Targets : replacements'.edits[t] = 0
  BY <1>1, EmptyFacts, RecordFields DEF IInv, CandidateTypeOK
<1>6. CandidateTypeOK'
  BY <1>1, <1>2, <1>3, <1>4, <1>5, BeginFacts, ParametersAssumption
  DEF IInv, CandidateTypeOK, StageMoves
<1>7. Births'
  BY <1>1, <1>2, <1>4, BeginFacts DEF IInv, CandidateTypeOK, Births, StageMoves, Gens
<1>8. NewestOp'
  BY <1>1, <1>2, BeginFacts DEF NewestOp, StageMoves
<1>9. SvgaOp'
  BY <1>1, <1>2, BeginFacts DEF IInv, SvgaOp, StageMoves, AppliedSince
<1>10. Disposal'
  BY <1>1, <1>2, <1>3, <1>4, BeginFacts, JobFields, WorkspaceFields
  DEF IInv, Disposal, StageMoves, CandidateTypeOK
<1>11. EditsBelongToFile' /\ ShowsTheOpenFile'
  BY <1>1, <1>4, <1>5 DEF IInv, EditsBelongToFile, ShowsTheOpenFile
<1> QED
  BY <1>6, <1>7, <1>8, <1>9, <1>10, <1>11 DEF IInv

LEMMA OpenLocalCandidateKeeps ==
  ASSUME IInv, NEW f \in {"svga", "player"}, OpenLocalCandidate(f)
  PROVE  IInv'
<1>1. Begin /\ open' = gen' /\ replacements' = Empty(0) /\ UNCHANGED calls
  BY DEF OpenLocalCandidate, ClearReplacements, Begin
<1>2. StageMoves(gen', "opening")
  BY <1>1, BeginFacts, GotoFacts DEF OpenLocalCandidate, IInv, Stage, Suspended
<1>3. model' \in Model /\ model'.status = "loading" /\ model'.file = gen'
  BY <1>1, BeginFacts DEF OpenLocalCandidate, Model, Status
<1>4. /\ ws \in Workspace /\ ws' \in Workspace
      /\ ws'.request = ws.request + 1
      /\ ws'.file = gen'
      /\ ws'.status = "loading"
      /\ \A t \in Targets : ws'.edits[t] = 0
  <2>1. NoEdits \in Edits /\ \A t \in Targets : NoEdits[t] = 0
    BY ParametersAssumption DEF NoEdits, Edits
  <2> QED
    BY <1>1, <2>1, BeginFacts, OpensFacts DEF OpenLocalCandidate, IInv, CandidateTypeOK
<1>5. JobMoves(gen') /\ job'[gen'].request = ws.request + 1
  <2>1. ws.request + 1 \in Nat /\ 0 \in 0 .. MaxGen
    BY <1>4, WorkspaceFields, ParametersAssumption
  <2>2. Empty(0) \in Record
    BY EmptyFacts
  <2> DEFINE j == JobOf(0, ws.request + 1, Empty(0), Empty(0), 0)
  <2>3. j \in Job /\ j.request = ws.request + 1
    BY <2>1, <2>2, JobFacts
  <2>4. Give(gen', j)
    BY <1>1, BeginFacts DEF OpenLocalCandidate
  <2> HIDE DEF j
  <2> QED
    BY <1>1, <2>3, <2>4, BeginFacts, GiveFacts DEF IInv
<1>6. CandidateTypeOK'
  BY <1>1, <1>2, <1>3, <1>4, <1>5, BeginFacts, EmptyFacts
  DEF IInv, CandidateTypeOK, StageMoves, JobMoves
<1>7. Births'
  BY <1>1, <1>2, <1>4, <1>5, BeginFacts
  DEF IInv, CandidateTypeOK, Births, StageMoves, JobMoves, Gens
<1>8. NewestOp'
  BY <1>1, <1>2, BeginFacts DEF NewestOp, StageMoves
<1>9. SvgaOp'
  BY <1>1, <1>2, <1>5, BeginFacts DEF IInv, SvgaOp, StageMoves, JobMoves, AppliedSince
<1>10. Disposal'
  BY <1>1, <1>2, <1>3, <1>4, <1>5, BeginFacts, JobFields, WorkspaceFields
  DEF IInv, Disposal, StageMoves, JobMoves, CandidateTypeOK
<1>11. EditsBelongToFile' /\ ShowsTheOpenFile'
  BY <1>1, <1>3, <1>4, EmptyFacts DEF EditsBelongToFile, ShowsTheOpenFile
<1> QED
  BY <1>6, <1>7, <1>8, <1>9, <1>10, <1>11 DEF IInv

\* The targets of the record and of the runtime that an edit of target t by
\* the newest operation leaves or sets belong to the open file.
LEMMA UpsertBelongs ==
  ASSUME IInv, NEW t \in Targets, NEW v \in 0 .. MaxGen, v = 0 \/ v > open
  PROVE  /\ AppliedSince(Upsert(replacements, t, v).edits, open)
         /\ Upsert(replacements, t, v) \in Record
         /\ Upsert(replacements, t, v).revision > replacements.revision
<1>1. replacements \in Record /\ replacements.revision \in Nat
  BY RecordFields DEF IInv, CandidateTypeOK
<1> QED
  BY <1>1, UpsertFacts DEF AppliedSince, IInv, EditsBelongToFile

LEMMA WithoutBelongs ==
  ASSUME IInv, NEW scope \in Targets \cup {0}
  PROVE  /\ AppliedSince(Without(replacements, scope).edits, open)
         /\ Without(replacements, scope) \in Record
         /\ Without(replacements, scope).revision > replacements.revision
<1>1. replacements \in Record /\ replacements.revision \in Nat
  BY RecordFields DEF IInv, CandidateTypeOK
<1> QED
  BY <1>1, WithoutFacts DEF AppliedSince, IInv, EditsBelongToFile

LEMMA ApplyByReloadKeeps ==
  ASSUME IInv, NEW t \in Targets, ApplyByReload(t)
  PROVE  IInv'
<1>1. Begin /\ open # 0 /\ UNCHANGED <<open, replacements, model, calls>>
  BY DEF ApplyByReload, HasTargets
<1>2. StageMoves(gen', "applying")
  BY <1>1, BeginFacts, GotoFacts DEF ApplyByReload, IInv, Stage, Suspended
<1> DEFINE n == Upsert(replacements, t, gen')
<1>3. /\ n \in Record
      /\ n.edits \in Edits
      /\ AppliedSince(n.edits, open)
      /\ n.revision > replacements.revision
  BY <1>1, BeginFacts, UpsertBelongs, RecordFields
<1>4. WorkspaceOpens(open, n.edits, "player") /\ ws \in Workspace
  BY <1>1, BeginFacts DEF ApplyByReload, IInv, CandidateTypeOK
<1>5. Give(gen', JobOf(t, ws.request + 1, n, Empty(0), open))
  BY <1>1, BeginFacts DEF ApplyByReload
<1> HIDE DEF n
<1>6. /\ ws' \in Workspace
      /\ ws'.request = ws.request + 1
      /\ ws'.file = open
      /\ ws'.edits = n.edits
      /\ ws'.status = "loading"
  BY <1>1, <1>3, <1>4, BeginFacts, OpensFacts
<1>7. /\ JobMoves(gen')
      /\ job'[gen'].next = n
      /\ job'[gen'].request = ws.request + 1
  <2>1. ws.request + 1 \in Nat /\ open \in 0 .. MaxGen /\ Empty(0) \in Record
    BY <1>1, <1>4, BeginFacts, WorkspaceFields, EmptyFacts
  <2> DEFINE j == JobOf(t, ws.request + 1, n, Empty(0), open)
  <2>2. j \in Job /\ j.request = ws.request + 1 /\ j.next = n
    BY <1>3, <2>1, JobFacts
  <2> HIDE DEF j
  <2> QED
    BY <1>1, <1>5, <2>2, BeginFacts, GiveFacts DEF IInv, j
<1>8. CandidateTypeOK'
  BY <1>1, <1>2, <1>6, <1>7, BeginFacts DEF IInv, CandidateTypeOK, StageMoves, JobMoves
<1>9. Births'
  BY <1>1, <1>2, <1>6, <1>7, BeginFacts
  DEF IInv, CandidateTypeOK, Births, StageMoves, JobMoves, Gens
<1>10. NewestOp'
  BY <1>1, <1>2, <1>3, <1>7, BeginFacts
  DEF NewestOp, StageMoves, JobMoves, AppliedSince
<1>11. SvgaOp'
  BY <1>1, <1>2, <1>7, BeginFacts DEF IInv, SvgaOp, StageMoves, JobMoves, AppliedSince
<1>12. Disposal'
  BY <1>1, <1>2, <1>4, <1>6, <1>7, BeginFacts, JobFields, WorkspaceFields
  DEF IInv, Disposal, StageMoves, JobMoves, CandidateTypeOK
<1>13. EditsBelongToFile' /\ ShowsTheOpenFile'
  BY <1>1, <1>3, <1>6 DEF IInv, EditsBelongToFile, ShowsTheOpenFile, AppliedSince
<1> QED
  BY <1>8, <1>9, <1>10, <1>11, <1>12, <1>13 DEF IInv

LEMMA ApplySvgaKeeps ==
  ASSUME IInv, NEW t \in Targets, ApplySvga(t)
  PROVE  IInv'
<1>1. Begin /\ open # 0 /\ UNCHANGED <<open, replacements, model, calls, ws>>
  BY DEF ApplySvga, HasTargets
<1>2. StageMoves(gen', "applySvga")
  BY <1>1, BeginFacts, GotoFacts DEF ApplySvga, IInv, Stage, Suspended
<1> DEFINE e == [ws.edits EXCEPT ![t] = gen']
           n == [edits |-> e, revision |-> 0]
<1>3. n \in Record /\ n.edits = e
  BY <1>1, BeginFacts, WorkspaceFields DEF IInv, CandidateTypeOK, Record, Edits
<1>4. AppliedSince(e, open)
  BY <1>1, BeginFacts, WorkspaceFields
  DEF IInv, CandidateTypeOK, Edits, AppliedSince, EditsBelongToFile, ShowsTheOpenFile
<1>5. Give(gen', JobOf(t, 0, n, Empty(0), open))
  BY <1>1, BeginFacts DEF ApplySvga
<1>6. AppliedSince(n.edits, open)
  BY <1>3, <1>4
<1> HIDE DEF n
<1>7. /\ JobMoves(gen')
      /\ job'[gen'].next = n
      /\ job'[gen'].target = t
      /\ job'[gen'].file = open
  <2>1. open \in 0 .. MaxGen /\ Empty(0) \in Record
    BY <1>1, BeginFacts, EmptyFacts
  <2> DEFINE j == JobOf(t, 0, n, Empty(0), open)
  <2>2. j \in Job /\ j.target = t /\ j.next = n /\ j.file = open
    BY <1>3, <2>1, JobFacts
  <2> HIDE DEF j
  <2> QED
    BY <1>1, <1>5, <2>2, BeginFacts, GiveFacts DEF IInv, j
<1>8. CandidateTypeOK'
  BY <1>1, <1>2, <1>7, BeginFacts DEF IInv, CandidateTypeOK, StageMoves, JobMoves
<1>9. Births'
  BY <1>1, <1>2, <1>7, BeginFacts
  DEF IInv, CandidateTypeOK, Births, StageMoves, JobMoves, Gens
<1>10. NewestOp'
  BY <1>1, <1>2, BeginFacts DEF NewestOp, StageMoves
<1>11. SvgaOp'
  BY <1>1, <1>2, <1>6, <1>7, BeginFacts
  DEF IInv, SvgaOp, StageMoves, JobMoves, AppliedSince
<1>12. Disposal'
  BY <1>1, <1>2, <1>7, BeginFacts DEF IInv, Disposal, StageMoves, JobMoves
<1>13. EditsBelongToFile' /\ ShowsTheOpenFile'
  BY <1>1 DEF IInv, EditsBelongToFile, ShowsTheOpenFile
<1> QED
  BY <1>8, <1>9, <1>10, <1>11, <1>12, <1>13 DEF IInv

LEMMA ResetByReloadKeeps ==
  ASSUME IInv, NEW scope \in Targets \cup {0}, ResetByReload(scope)
  PROVE  IInv'
<1>1. Begin /\ open # 0 /\ UNCHANGED <<open, replacements, model, calls, ws>>
  BY DEF ResetByReload, MayReset, HasTargets
<1>2. StageMoves(gen', "preflight")
  BY <1>1, BeginFacts, GotoFacts DEF ResetByReload, IInv, Stage, Suspended
<1>3. JobMoves(gen')
  <2> DEFINE j == JobOf(scope, 0, Empty(0), Empty(0), 0)
  <2>1. j \in Job
    BY EmptyFacts, JobFacts, ParametersAssumption
  <2>2. Give(gen', j)
    BY <1>1, BeginFacts DEF ResetByReload
  <2> HIDE DEF j
  <2> QED
    BY <1>1, <2>1, <2>2, BeginFacts, GiveFacts DEF IInv
<1>4. CandidateTypeOK'
  BY <1>1, <1>2, <1>3, BeginFacts DEF IInv, CandidateTypeOK, StageMoves, JobMoves
<1>5. Births'
  BY <1>1, <1>2, <1>3, BeginFacts
  DEF IInv, CandidateTypeOK, Births, StageMoves, JobMoves, Gens
<1>6. NewestOp'
  BY <1>1, <1>2, BeginFacts DEF NewestOp, StageMoves
<1>7. SvgaOp'
  BY <1>1, <1>2, <1>3, BeginFacts DEF IInv, SvgaOp, StageMoves, JobMoves, AppliedSince
<1>8. Disposal'
  BY <1>1, <1>2, <1>3, BeginFacts DEF IInv, Disposal, StageMoves, JobMoves
<1>9. EditsBelongToFile' /\ ShowsTheOpenFile'
  BY <1>1 DEF IInv, EditsBelongToFile, ShowsTheOpenFile
<1> QED
  BY <1>4, <1>5, <1>6, <1>7, <1>8, <1>9 DEF IInv

LEMMA ResetSvgaKeeps ==
  ASSUME IInv, NEW scope \in Targets \cup {0}, ResetSvga(scope)
  PROVE  IInv'
<1>1. /\ Begin /\ open # 0
      /\ replacements' = Empty(replacements.revision + 1)
      /\ UNCHANGED <<open, calls>>
  BY DEF ResetSvga, MayReset, HasTargets
<1>2. StageMoves(gen', "done")
  BY <1>1, BeginFacts, GotoFacts DEF ResetSvga, IInv, Stage
<1>3. JobMoves(gen')
  <2> DEFINE j == JobOf(scope, 0, Empty(0), Empty(0), 0)
  <2>1. j \in Job
    BY EmptyFacts, JobFacts, ParametersAssumption
  <2>2. Give(gen', j)
    BY <1>1, BeginFacts DEF ResetSvga
  <2> HIDE DEF j
  <2> QED
    BY <1>1, <2>1, <2>2, BeginFacts, GiveFacts DEF IInv
<1>4. /\ ws' \in Workspace
      /\ ws'.request = ws.request /\ ws'.file = ws.file /\ ws'.status = ws.status
      /\ \A t \in Targets : ws'.edits[t] = 0
  <2>1. NoEdits \in Edits /\ \A t \in Targets : NoEdits[t] = 0
    BY ParametersAssumption DEF NoEdits, Edits
  <2> QED
    BY <2>1, PatchFacts DEF ResetSvga, IInv, CandidateTypeOK
<1>5. /\ model' \in Model
      /\ model'.status = ws'.status
      /\ model'.file = ws'.file
  BY <1>4, ModelFacts DEF ResetSvga
<1>6. replacements' \in Record /\ \A t \in Targets : replacements'.edits[t] = 0
  <2>1. replacements.revision + 1 \in Nat
    BY RecordFields DEF IInv, CandidateTypeOK
  <2> QED
    BY <1>1, <2>1, EmptyFacts
<1>7. CandidateTypeOK'
  BY <1>1, <1>2, <1>3, <1>4, <1>5, <1>6, BeginFacts
  DEF IInv, CandidateTypeOK, StageMoves, JobMoves
<1>8. Births'
  BY <1>1, <1>2, <1>3, <1>4, BeginFacts
  DEF IInv, CandidateTypeOK, Births, StageMoves, JobMoves, Gens
<1>9. NewestOp'
  BY <1>1, <1>2, BeginFacts DEF NewestOp, StageMoves
<1>10. SvgaOp'
  BY <1>1, <1>2, <1>3, BeginFacts DEF IInv, SvgaOp, StageMoves, JobMoves, AppliedSince
<1>11. Disposal'
  BY <1>1, <1>2, <1>3, <1>4, <1>5, BeginFacts
  DEF IInv, Disposal, StageMoves, JobMoves
<1>12. EditsBelongToFile' /\ ShowsTheOpenFile'
  BY <1>1, <1>4, <1>5, <1>6 DEF IInv, EditsBelongToFile, ShowsTheOpenFile
<1> QED
  BY <1>7, <1>8, <1>9, <1>10, <1>11, <1>12 DEF IInv

-----------------------------------------------------------------------------
(* The continuations that reload the file, patch the source, or settle.    *)

\* Operation g, the newest one, reloads the open file with some edits.
Reloads(g, s, n, p) ==
  /\ gen = g
  /\ open # 0
  /\ UNCHANGED <<gen, open, replacements, model, calls>>
  /\ Goto(g, s)
  /\ Give(g, JobOf(job[g].target, ws.request + 1, n, p, open))

LEMMA ReloadKeeps ==
  ASSUME IInv, NEW g \in Gens, NEW s \in {"resetting", "rollback"},
         NEW n \in Record, NEW edits \in Edits,
         WorkspaceOpens(open, edits, "player"), AppliedSince(edits, open),
         open < g,
         Reloads(g, s, n, replacements),
         s = "resetting" => /\ AppliedSince(n.edits, open)
                            /\ n.revision > replacements.revision
  PROVE  IInv'
<1>1. /\ gen = g /\ open # 0
      /\ UNCHANGED <<gen, open, replacements, model, calls>>
  BY DEF Reloads
<1>2. StageMoves(g, s)
  BY GotoFacts DEF Reloads, IInv, Stage, Suspended
<1>3. /\ ws \in Workspace /\ ws.request \in Nat /\ ws.file \in 0 .. MaxGen
      /\ open \in 0 .. MaxGen
  BY WorkspaceFields DEF IInv, CandidateTypeOK
<1>4. /\ ws' \in Workspace
      /\ ws'.request = ws.request + 1
      /\ ws'.file = open
      /\ ws'.edits = edits
      /\ ws'.status = "loading"
  BY <1>3, OpensFacts
<1>5. /\ JobMoves(g)
      /\ job'[g].next = n
      /\ job'[g].previous = replacements
      /\ job'[g].file = open
      /\ job'[g].request = ws.request + 1
  <2> DEFINE t == job[g].target
             r == ws.request + 1
             j == JobOf(t, r, n, replacements, open)
  <2>1. /\ t \in Targets \cup {0} /\ r \in Nat /\ n \in Record
        /\ replacements \in Record /\ open \in 0 .. MaxGen
    BY <1>3, JobFields DEF IInv, CandidateTypeOK
  <2>2. Give(g, j)
    BY Zenon DEF Reloads
  <2> HIDE DEF t, r
  <2>3. /\ j \in Job /\ j.request = r /\ j.next = n
        /\ j.previous = replacements /\ j.file = open
    BY ONLY <2>1, JobFacts
  <2> HIDE DEF j
  <2> QED
    BY <2>3, <2>2, GiveFacts DEF IInv, r
<1>6. CandidateTypeOK'
  BY <1>1, <1>2, <1>4, <1>5 DEF IInv, CandidateTypeOK, StageMoves, JobMoves
<1>7. Births'
  BY <1>1, <1>2, <1>4, <1>5
  DEF IInv, CandidateTypeOK, Births, StageMoves, JobMoves, Gens
<1>8. NewestOp'
  BY <1>1, <1>2, <1>5 DEF NewestOp, StageMoves, JobMoves, AppliedSince
<1>9. SvgaOp'
  BY <1>1, <1>2, <1>5 DEF IInv, SvgaOp, StageMoves, JobMoves, AppliedSince
<1>10. Disposal'
  BY <1>1, <1>2, <1>3, <1>4, <1>5, JobFields
  DEF IInv, Disposal, StageMoves, JobMoves, CandidateTypeOK
<1>11. EditsBelongToFile' /\ ShowsTheOpenFile'
  BY <1>1, <1>4 DEF IInv, EditsBelongToFile, ShowsTheOpenFile, AppliedSince
<1> QED
  BY <1>6, <1>7, <1>8, <1>9, <1>10, <1>11 DEF IInv

LEMMA PreflightedKeeps ==
  ASSUME IInv, NEW g \in Gens, Preflighted(g)
  PROVE  IInv'
<1>1. stage[g] = "preflight" /\ UNCHANGED <<gen, open, replacements, model, calls>>
  BY DEF Preflighted
<1>2. CASE \E s \in {"kept", "done"} : Goto(g, s) /\ UNCHANGED <<job, ws>>
  <2>1. PICK s \in {"kept", "done"} : Goto(g, s) /\ UNCHANGED <<job, ws>>
    BY <1>2
  <2>2. stage' \in [Gens -> Stage]
        /\ \A h \in Gens : stage'[h] = stage[h] \/ Ends(h)
    BY <1>1, <2>1, GoSettles DEF Stage, Suspended, Held, IInv
  <2>3. Settles
    BY <1>1, <2>1, <2>2, WsSpeaks
    DEF Settles, Publishes, Commits, IInv, CandidateTypeOK
  <2> QED
    BY <2>3, SettlesKeeps
<1> DEFINE n == Without(replacements, job[g].target)
<1>3. CASE /\ IsActive(g)
           /\ Goto(g, "resetting")
           /\ Give(g, JobOf(job[g].target, ws.request + 1, n, replacements, open))
           /\ WorkspaceOpens(open, n.edits, "player")
  <2>1. job[g].target \in Targets \cup {0}
    BY JobFields DEF IInv, CandidateTypeOK
  <2>2. /\ n \in Record /\ n.edits \in Edits
        /\ AppliedSince(n.edits, open)
        /\ n.revision > replacements.revision
    BY <2>1, WithoutBelongs, RecordFields
  <2>3. gen = g /\ open # 0 /\ open < g
    BY <1>1, <1>3 DEF IsActive, IInv, NewestOp
  <2> HIDE DEF n
  <2>4. Reloads(g, "resetting", n, replacements)
    BY <1>1, <1>3, <2>3 DEF Reloads
  <2> QED
    BY <1>3, <2>2, <2>3, <2>4, ReloadKeeps
<1> QED
  BY <1>2, <1>3 DEF Preflighted

LEMMA ResetAnsweredKeeps ==
  ASSUME IInv, NEW g \in Gens, ResetAnswered(g)
  PROVE  IInv'
<1>1. stage[g] = "resetting" /\ UNCHANGED <<gen, open, calls>>
  BY DEF ResetAnswered
<1>2. CASE /\ WorkspaceAnswers(job[g].request)
           /\ Goto(g, "done")
           /\ UNCHANGED job
           /\ \/ UNCHANGED <<replacements, model>>
              \/ /\ IsActive(g)
                 /\ replacements' = job[g].next
                 /\ model' = ModelFromWorkspace(ws')
  <2>1. Speaks
    BY <1>1, <1>2, StillSpeaks
  <2>2. Publishes
    BY <1>2, <2>1, ModelPublishes DEF Publishes
  <2>3. /\ stage' \in [Gens -> Stage]
        /\ \A h \in Gens : stage'[h] = stage[h] \/ Ends(h)
        /\ stage'[g] = "done"
    BY <1>1, <1>2, GoSettles DEF Stage, Suspended, Held, IInv
  <2>4. Commits
    BY <1>1, <1>2, <2>3 DEF Commits, IsActive
  <2>5. Settles
    BY <1>1, <1>2, <2>1, <2>2, <2>3, <2>4 DEF Settles, IInv, CandidateTypeOK
  <2> QED
    BY <2>5, SettlesKeeps
<1>3. CASE IsActive(g) /\ RollBackReset(g)
  <2>1. /\ gen = g /\ open # 0 /\ open < g
        /\ job[g].previous = replacements /\ job[g].file = open
    BY <1>1, <1>3 DEF IsActive, IInv, NewestOp
  <2>2. job[g].next \in Record /\ replacements.edits \in Edits
    BY JobFields, RecordFields DEF IInv, CandidateTypeOK
  <2>3. AppliedSince(replacements.edits, open)
    BY DEF AppliedSince, IInv, EditsBelongToFile
  <2>4. Reloads(g, "rollback", job[g].next, replacements)
        /\ WorkspaceOpens(open, replacements.edits, "player")
    BY <1>1, <1>3, <2>1 DEF RollBackReset, Reloads
  <2> QED
    BY <2>1, <2>2, <2>3, <2>4, ReloadKeeps
<1> QED
  BY <1>2, <1>3 DEF ResetAnswered

LEMMA SvgaAppliedKeeps ==
  ASSUME IInv, NEW g \in Gens, SvgaApplied(g)
  PROVE  IInv'
<1>1. stage[g] = "applySvga" /\ UNCHANGED <<gen, open, job, calls>>
  BY DEF SvgaApplied
<1>2. CASE Goto(g, "kept") /\ UNCHANGED <<replacements, model, ws>>
  <2>1. stage' \in [Gens -> Stage]
        /\ \A h \in Gens : stage'[h] = stage[h] \/ Ends(h)
    BY <1>1, <1>2, GoSettles DEF Stage, Suspended, Held, IInv
  <2>2. Settles
    BY <1>1, <1>2, <2>1, WsSpeaks DEF Settles, Publishes, Commits, IInv, CandidateTypeOK
  <2> QED
    BY <2>2, SettlesKeeps
<1> DEFINE t == job[g].target
<1>3. CASE /\ ws.file = job[g].file
           /\ ws.status # "disposed"
           /\ Patch(job[g].next.edits)
           /\ Goto(g, "done")
           /\ IF IsActive(g)
                THEN /\ replacements' = Upsert(replacements, t, g)
                     /\ model' = ModelFromWorkspace(ws')
                ELSE UNCHANGED <<replacements, model>>
  <2>1. /\ job[g].next \in Record /\ job[g].next.edits \in Edits
        /\ t \in Targets
        /\ AppliedSince(job[g].next.edits, ws.file)
    BY <1>1, <1>3, JobFields, RecordFields DEF IInv, CandidateTypeOK, SvgaOp
  <2>2. /\ ws \in Workspace /\ ws' \in Workspace
        /\ ws'.request = ws.request /\ ws'.file = ws.file
        /\ ws'.status = ws.status
        /\ ws'.edits = job[g].next.edits
    BY <1>3, <2>1, PatchFacts DEF IInv, CandidateTypeOK
  <2>3. StageMoves(g, "done")
    BY <1>3, GotoFacts DEF IInv, Stage
  <2>4. model' = model \/ /\ model' \in Model
                          /\ model'.status = ws'.status
                          /\ model'.file = ws'.file
    BY <1>3, <2>2, ModelFacts
  <2>5. \/ replacements' = replacements
        \/ /\ gen = g /\ open # 0 /\ open < g
           /\ replacements' \in Record
           /\ AppliedSince(replacements'.edits, open)
    <3>1. CASE IsActive(g)
      <4>1. gen = g /\ open # 0 /\ open < g /\ g \in 0 .. MaxGen
        BY <1>1, <3>1 DEF IsActive, IInv, NewestOp, Gens
      <4>2. g > open
        BY <4>1 DEF IInv, CandidateTypeOK
      <4> QED
        BY <1>3, <2>1, <3>1, <4>1, <4>2, UpsertBelongs
    <3>2. CASE ~IsActive(g)
      BY <1>3, <3>2
    <3> QED
      BY <3>1, <3>2
  <2>6. CandidateTypeOK'
    BY <1>1, <2>2, <2>3, <2>4, <2>5 DEF IInv, CandidateTypeOK, StageMoves
  <2>7. Births'
    BY <1>1, <2>2, <2>3 DEF IInv, Births, StageMoves
  <2>8. NewestOp'
    <3>1. ASSUME NEW h \in Gens, stage'[h] \in {"applying", "resetting", "rollback",
                                               "preflight", "applySvga"}
          PROVE  h # g /\ stage'[h] = stage[h]
      BY <2>3, <3>1 DEF StageMoves
    <3>2. \A h \in Gens : h = gen /\ h # g => replacements' = replacements
      BY <2>5
    <3> QED
      BY <1>1, <3>1, <3>2 DEF IInv, NewestOp, AppliedSince
  <2>9. SvgaOp'
    BY <1>1, <2>3 DEF IInv, SvgaOp, StageMoves, AppliedSince
  <2>10. Disposal'
    BY <1>1, <2>2, <2>3, <2>4 DEF IInv, Disposal, StageMoves
  <2>11. EditsBelongToFile'
    BY <1>1, <2>1, <2>2, <2>5 DEF IInv, EditsBelongToFile, AppliedSince
  <2>12. ShowsTheOpenFile'
    BY <1>1, <2>2, <2>4 DEF IInv, ShowsTheOpenFile
  <2> QED
    BY <2>6, <2>7, <2>8, <2>9, <2>10, <2>11, <2>12 DEF IInv
<1> QED
  BY <1>2, <1>3 DEF SvgaApplied

-----------------------------------------------------------------------------
(* The invariant, and what follows from it.                                *)

LEMMA InitEstablishes ==
  ASSUME Init
  PROVE  IInv
<1>1. /\ Empty(0) \in Record /\ \A t \in Targets : Empty(0).edits[t] = 0
      /\ NoEdits \in Edits /\ \A t \in Targets : NoEdits[t] = 0
      /\ 0 \in 0 .. MaxGen
  BY EmptyFacts, ParametersAssumption DEF NoEdits, Edits
<1>2. NoJob \in Job
  BY <1>1, JobFacts DEF NoJob
<1>3. /\ ws \in Workspace /\ ws.file = 0 /\ ws.edits = NoEdits
      /\ ws.status = "launch"
  BY <1>1 DEF Init, Workspace, Status
<1>4. model \in Model /\ model.status = "launch"
  BY <1>1 DEF Init, Model, Status
<1>5. CandidateTypeOK
  BY <1>1, <1>2, <1>3, <1>4 DEF Init, CandidateTypeOK, Stage
<1>6. Births /\ NewestOp /\ SvgaOp /\ Disposal
  BY <1>3, <1>4 DEF Init, Births, NewestOp, SvgaOp, Disposal
<1>7. EditsBelongToFile /\ ShowsTheOpenFile
  BY <1>1, <1>3 DEF Init, EditsBelongToFile, ShowsTheOpenFile
<1> QED
  BY <1>5, <1>6, <1>7 DEF IInv

LEMMA StepKeeps ==
  ASSUME IInv, [Next]_vars
  PROVE  IInv'
<1>1. CASE Command
  <2>1. CASE RejectOpenInput
    BY <2>1, RejectOpenInputKeeps
  <2>2. ASSUME NEW f \in {"svga", "player"}, OpenLocalCandidate(f)
        PROVE  IInv'
    BY <2>2, OpenLocalCandidateKeeps
  <2>3. CASE Dispose
    BY <2>3, DisposeKeeps
  <2>4. CASE PauseSeekOrLoop
    BY <2>4, PauseSeekOrLoopSettles, SettlesKeeps
  <2>5. ASSUME NEW kind \in {"play", "recover"}, PlayOrRecover(kind)
        PROVE  IInv'
    BY <2>5, PlayOrRecoverSettles, SettlesKeeps
  <2>6. CASE BlockReplacement
    BY <2>6, BlockReplacementKeeps
  <2>7. ASSUME NEW t \in Targets, ApplyByReload(t) \/ ApplySvga(t)
        PROVE  IInv'
    BY <2>7, ApplyByReloadKeeps, ApplySvgaKeeps
  <2>8. ASSUME NEW scope \in Targets \cup {0},
               ResetByReload(scope) \/ ResetSvga(scope)
        PROVE  IInv'
    BY <2>8, ResetByReloadKeeps, ResetSvgaKeeps
  <2> QED
    BY <1>1, <2>1, <2>2, <2>3, <2>4, <2>5, <2>6, <2>7, <2>8 DEF Command
<1>2. ASSUME NEW g \in Gens, Continue(g)
      PROVE  IInv'
  <2>1. CASE Opened(g)
    BY <2>1, OpenedSettles, SettlesKeeps
  <2>2. CASE Autoplayed(g)
    BY <2>2, AutoplayedSettles, SettlesKeeps
  <2>3. CASE Applied(g)
    BY <2>3, AppliedSettles, SettlesKeeps
  <2>4. CASE Preflighted(g)
    BY <2>4, PreflightedKeeps
  <2>5. CASE ResetAnswered(g)
    BY <2>5, ResetAnsweredKeeps
  <2>6. CASE RolledBack(g)
    BY <2>6, RolledBackSettles, SettlesKeeps
  <2>7. CASE SvgaApplied(g)
    BY <2>7, SvgaAppliedKeeps
  <2> QED
    BY <1>2, <2>1, <2>2, <2>3, <2>4, <2>5, <2>6, <2>7 DEF Continue
<1>3. ASSUME NEW g \in Gens, Rejected(g)
      PROVE  IInv'
  BY <1>3, RejectedSettles, SettlesKeeps
<1>4. ASSUME NEW c \in calls, CallSettled(c)
      PROVE  IInv'
  BY <1>4, CallSettledSettles, SettlesKeeps
<1>5. CASE UNCHANGED vars
  BY <1>5 DEF vars, IInv, CandidateTypeOK, Births, NewestOp, SvgaOp, Disposal,
              EditsBelongToFile, ShowsTheOpenFile, AppliedSince
<1> QED
  BY <1>1, <1>2, <1>3, <1>4, <1>5 DEF Next, Step

\* The inductive invariant holds of every behaviour of the candidate, for
\* every set of targets and every caller, serial or not.
THEOREM InductiveInvariant == Spec => []IInv
<1>1. Init => IInv
  BY InitEstablishes
<1>2. IInv /\ [Next]_vars => IInv'
  BY StepKeeps
<1> QED
  BY <1>1, <1>2, PTL DEF Spec

\* Every variable of the candidate keeps its type.
THEOREM TypeCorrect == Spec => []TypeOK
<1>1. Init => serial \in BOOLEAN
  BY DEF Init
<1>2. serial \in BOOLEAN /\ [Next]_vars => (serial \in BOOLEAN)'
  BY DEF Next, vars
<1>3. IInv /\ serial \in BOOLEAN => TypeOK
  BY DEF IInv, TypeOK
<1> QED
  BY <1>1, <1>2, <1>3, InductiveInvariant, PTL DEF Spec

\* No late answer carries an edit over to another file: every edit on record
\* and every edit the runtime was given was applied to the file it is kept
\* for (applyReplacement, resetReplacement, openLocalCandidate).
THEOREM EditsStayWithTheirFile == Spec => []EditsBelongToFile
<1>1. IInv => EditsBelongToFile
  BY DEF IInv
<1> QED
  BY <1>1, InductiveInvariant, PTL

\* While a file is open, the model that the candidate publishes and the
\* workspace are about that file, whichever of its calls answered last.
THEOREM OpenFileIsShown == Spec => []ShowsTheOpenFile
<1>1. IInv => ShowsTheOpenFile
  BY DEF IInv
<1> QED
  BY <1>1, InductiveInvariant, PTL

-----------------------------------------------------------------------------
(* What a step may never do.                                               *)

KeepsRevision ==
  open # 0 /\ open' = open =>
    replacements' = replacements
      \/ replacements'.revision > replacements.revision

KeepsDisposed ==
  model.status = "disposed" /\ model'.status # "disposed" =>
    /\ gen' = gen + 1
    /\ open' \in {0, gen'}
    /\ model'.status \in {"loading", "failed"}

LEMMA SettlesIsOrderly ==
  ASSUME IInv, Settles
  PROVE  KeepsRevision /\ KeepsDisposed
<1>1. KeepsRevision
  BY DEF KeepsRevision, Settles, Commits, IInv, NewestOp
<1>2. KeepsDisposed
  BY DEF KeepsDisposed, Settles, Publishes, Speaks, IInv, Disposal
<1> QED
  BY <1>1, <1>2

LEMMA CommandIsOrderly ==
  ASSUME IInv, Command
  PROVE  KeepsRevision /\ KeepsDisposed
<1>1. replacements \in Record /\ replacements.revision \in Nat
  BY RecordFields DEF IInv, CandidateTypeOK
<1>2. CASE RejectOpenInput
  BY <1>2 DEF RejectOpenInput, Begin, KeepsRevision, KeepsDisposed
<1>3. ASSUME NEW f \in {"svga", "player"}, OpenLocalCandidate(f)
      PROVE  KeepsRevision /\ KeepsDisposed
  <2>1. Begin /\ open' = gen' /\ model'.status = "loading"
    BY <1>3 DEF OpenLocalCandidate, Begin
  <2> QED
    BY <2>1, BeginFacts DEF KeepsRevision, KeepsDisposed
<1>4. CASE Dispose
  BY <1>4 DEF Dispose, KeepsRevision, KeepsDisposed
<1>5. CASE PauseSeekOrLoop
  BY <1>5, PauseSeekOrLoopSettles, SettlesIsOrderly
<1>6. ASSUME NEW kind \in {"play", "recover"}, PlayOrRecover(kind)
      PROVE  KeepsRevision /\ KeepsDisposed
  BY <1>6, PlayOrRecoverSettles, SettlesIsOrderly
<1>7. CASE BlockReplacement
  BY <1>7 DEF BlockReplacement, KeepsRevision, KeepsDisposed
<1>8. ASSUME NEW t \in Targets, ApplyByReload(t) \/ ApplySvga(t)
      PROVE  KeepsRevision /\ KeepsDisposed
  BY <1>8 DEF ApplyByReload, ApplySvga, KeepsRevision, KeepsDisposed
<1>9. ASSUME NEW scope \in Targets \cup {0}, ResetByReload(scope)
      PROVE  KeepsRevision /\ KeepsDisposed
  BY <1>9 DEF ResetByReload, KeepsRevision, KeepsDisposed
<1>10. ASSUME NEW scope \in Targets \cup {0}, ResetSvga(scope)
       PROVE  KeepsRevision /\ KeepsDisposed
  <2>1. /\ open # 0
        /\ ws.status = model'.status \/ model'.status = ws'.status
        /\ replacements' = Empty(replacements.revision + 1)
    BY <1>10, PatchFacts, ModelFacts
    DEF ResetSvga, MayReset, HasTargets, ModelFromWorkspace
  <2>2. replacements.revision + 1 \in Nat
    BY <1>1
  <2>3. replacements'.revision > replacements.revision
    BY <1>1, <2>1, <2>2, EmptyFacts
  <2>4. model.status # "disposed"
    BY <2>1 DEF IInv, Disposal
  <2> QED
    BY <2>3, <2>4 DEF KeepsRevision, KeepsDisposed
<1> QED
  BY <1>2, <1>3, <1>4, <1>5, <1>6, <1>7, <1>8, <1>9, <1>10 DEF Command

LEMMA ContinueIsOrderly ==
  ASSUME IInv, NEW g \in Gens, Continue(g)
  PROVE  KeepsRevision /\ KeepsDisposed
<1>1. CASE Opened(g)
  BY <1>1, OpenedSettles, SettlesIsOrderly
<1>2. CASE Autoplayed(g)
  BY <1>2, AutoplayedSettles, SettlesIsOrderly
<1>3. CASE Applied(g)
  BY <1>3, AppliedSettles, SettlesIsOrderly
<1>4. CASE Preflighted(g)
  BY <1>4 DEF Preflighted, KeepsRevision, KeepsDisposed
<1>5. CASE ResetAnswered(g)
  <2>1. stage[g] = "resetting"
    BY <1>5 DEF ResetAnswered
  <2>2. CASE UNCHANGED <<replacements, model>>
    BY <2>2 DEF KeepsRevision, KeepsDisposed
  <2>3. CASE IsActive(g) /\ replacements' = job[g].next
    BY <2>1, <2>3 DEF KeepsRevision, KeepsDisposed, IsActive, IInv, NewestOp
  <2> QED
    BY <1>5, <2>2, <2>3 DEF ResetAnswered, RollBackReset
<1>6. CASE RolledBack(g)
  BY <1>6, RolledBackSettles, SettlesIsOrderly
<1>7. CASE SvgaApplied(g)
  <2>1. CASE UNCHANGED <<replacements, model>>
    BY <2>1 DEF KeepsRevision, KeepsDisposed
  <2>2. CASE /\ IsActive(g)
             /\ stage[g] = "applySvga"
             /\ replacements' = Upsert(replacements, job[g].target, g)
    <3>1. replacements \in Record /\ replacements.revision \in Nat
          /\ job[g].target \in Targets /\ g \in 0 .. MaxGen
      BY <2>2, RecordFields DEF IInv, CandidateTypeOK, SvgaOp, Gens
    <3>2. replacements'.revision > replacements.revision
      BY <2>2, <3>1, UpsertFacts
    <3> QED
      BY <2>2, <3>2 DEF KeepsRevision, KeepsDisposed, IsActive
  <2> QED
    BY <1>7, <2>1, <2>2 DEF SvgaApplied
<1> QED
  BY <1>1, <1>2, <1>3, <1>4, <1>5, <1>6, <1>7 DEF Continue

LEMMA StepIsOrderly ==
  ASSUME IInv, [Next]_vars
  PROVE  KeepsRevision /\ KeepsDisposed
<1>1. ASSUME NEW g \in Gens, Rejected(g)
      PROVE  KeepsRevision /\ KeepsDisposed
  BY <1>1, RejectedSettles, SettlesIsOrderly
<1>2. ASSUME NEW c \in calls, CallSettled(c)
      PROVE  KeepsRevision /\ KeepsDisposed
  BY <1>2, CallSettledSettles, SettlesIsOrderly
<1>3. CASE UNCHANGED vars
  BY <1>3 DEF vars, KeepsRevision, KeepsDisposed
<1> QED
  BY <1>1, <1>2, <1>3, CommandIsOrderly, ContinueIsOrderly DEF Next, Step

\* While the same file is open, the record of replacements changes only to a
\* higher revision: the revision in a binding token names one record.
THEOREM RevisionIsAName == Spec => RevisionNamesRecord
<1>1. IInv /\ [Next]_vars => KeepsRevision
  BY StepIsOrderly
<1>2. IInv /\ [Next]_vars =>
        [ open # 0 /\ open' = open =>
            replacements' = replacements
              \/ replacements'.revision > replacements.revision ]_vars
  BY <1>1 DEF KeepsRevision
<1> QED
  BY <1>2, InductiveInvariant, PTL DEF Spec, RevisionNamesRecord

\* A disposed candidate stays disposed until a new open: no suspended play,
\* apply, reset or rollback brings a preview back (dispose, isActive).
THEOREM DisposedStaysDisposed == Spec => DisposedUntilOpened
<1>1. IInv /\ [Next]_vars => KeepsDisposed
  BY StepIsOrderly
<1>2. IInv /\ [Next]_vars =>
        [ model.status = "disposed" /\ model'.status # "disposed"
            => /\ gen' = gen + 1
               /\ open' \in {0, gen'}
               /\ model'.status \in {"loading", "failed"} ]_vars
  BY <1>1 DEF KeepsDisposed
<1> QED
  BY <1>2, InductiveInvariant, PTL DEF Spec, DisposedUntilOpened

-----------------------------------------------------------------------------
(* A caller that awaits each command.  One operation at a time is between   *)
(* its load and its end; whoever looks between two of them finds the        *)
(* runtime as the last operation that reached it has left it.               *)

\* Suspended with a load of their own behind them; before the preflight or
\* the SVGA controller has answered, nothing has been touched yet.
Waiting == {"opening", "autoplay", "applying", "resetting", "rollback"}

Untouched == {"none", "kept", "preflight", "applySvga"}

Reached == {g \in Gens : stage[g] \notin Untouched}

\* What an operation that ended with L leaves behind.
Leaves(L) ==
  /\ open # 0 /\ L \notin {"refused", "rejected"} =>
       ws.edits = replacements.edits
  /\ model.status = "loading" => L = "rejected"
  /\ ws.status = "loading" => L = "rejected"

LeftByTheLast ==
  \/ Reached = {} /\ Leaves("none")
  \/ \E g \in Reached : (\A h \in Reached : h <= g) /\ Leaves(stage[g])

\* A suspended command is the newest one, and nothing else is under way.
OneAtATime ==
  \A g \in Gens : stage[g] \in Suspended =>
    g = gen /\ calls = {} /\ model.status # "disposed"

\* An SVGA source never waits for a reload, has one edited target at most,
\* and shows what is on record at every moment.
SvgaInStep ==
  ws.format = "svga" =>
    /\ open # 0 => ws.edits = replacements.edits
    /\ \A t, u \in Targets : ws.edits[t] # 0 /\ ws.edits[u] # 0 => t = u
    /\ ws.status = "loading" => ~ws.known /\ ~model.known

\* What a suspended command finds when it goes on.
FindsItsLoad(g) ==
  /\ stage[g] \in Waiting => job[g].request = ws.request /\ open # 0
  /\ stage[g] \in {"opening", "autoplay"} => ws.edits = replacements.edits
  /\ stage[g] = "autoplay" => ws.status = "usable"
  /\ stage[g] \in {"preflight", "applying", "resetting", "rollback"} =>
       ws.format = "player"
  /\ stage[g] \in {"applying", "resetting"} => ws.edits = job[g].next.edits
  /\ stage[g] = "applying" =>
       /\ job[g].target \in Targets
       /\ job[g].next = Upsert(replacements, job[g].target, g)
  /\ stage[g] = "resetting" => job[g].next = Without(replacements, job[g].target)
  /\ stage[g] = "rollback" => ws.edits = replacements.edits
  /\ stage[g] = "applySvga" =>
       /\ ws.format = "svga"
       /\ ws.status # "loading"
       /\ SingleTarget(job[g].target)
       /\ job[g].next.edits = [ws.edits EXCEPT ![job[g].target] = g]

SerialInv ==
  /\ OneAtATime
  /\ (\A g \in Gens : stage[g] \notin Waiting) => LeftByTheLast
  /\ SvgaInStep
  /\ \A g \in Gens : FindsItsLoad(g)

\* What SiblingsSurvive says of one step.
KeepsSiblings ==
  TargetedReset =>
    \A u \in Targets \ {job'[gen'].target} :
      replacements'.edits[u] = replacements.edits[u]

-----------------------------------------------------------------------------
(* What a step leaves behind it.                                           *)

\* The newest operation has ended: it is the last one that reached the
\* runtime.
LEMMA NewestIsLast ==
  ASSUME IInv', gen' \in Gens, stage'[gen'] \notin Untouched,
         Leaves(stage[gen])'
  PROVE  LeftByTheLast'
<1>1. gen' \in Reached'
  BY DEF Reached
<1>2. \A h \in Gens : h \in Reached' => h <= gen'
  BY DEF IInv, CandidateTypeOK, Births, Reached, Untouched, Gens
<1> QED
  BY <1>1, <1>2 DEF LeftByTheLast, Reached

\* Nothing has reached the runtime since, and the step does not spoil what
\* the last one has left.
LEMMA LastStays ==
  ASSUME LeftByTheLast, stage \in [Gens -> Stage],
         \A h \in Gens : stage[h] \notin Untouched \/ stage'[h] \notin Untouched =>
           stage'[h] = stage[h],
         \A L \in Stage : Leaves(L) => Leaves(L)'
  PROVE  LeftByTheLast'
<1>1. Reached' = Reached
  BY DEF Reached
<1>2. CASE Reached = {} /\ Leaves("none")
  BY <1>1, <1>2 DEF LeftByTheLast, Stage
<1>3. ASSUME NEW g \in Reached, \A h \in Reached : h <= g, Leaves(stage[g])
      PROVE  LeftByTheLast'
  <2>1. g \in Gens /\ stage[g] \in Stage /\ stage'[g] = stage[g]
    BY <1>3 DEF Reached
  <2>2. Leaves(stage[g])'
    BY <1>3, <2>1 DEF Leaves
  <2> QED
    BY <1>1, <1>3, <2>2 DEF LeftByTheLast
<1> QED
  BY <1>2, <1>3 DEF LeftByTheLast

\* With no operation suspended, only the runtime's state is left to say.
LEMMA NobodyWaits ==
  ASSUME \A g \in Gens : stage'[g] \notin Suspended, LeftByTheLast', SvgaInStep'
  PROVE  SerialInv'
BY DEF SerialInv, OneAtATime, FindsItsLoad, Suspended, Waiting

\* Only operation g is suspended: the newest one, with no call under way.
LEMMA OneWaits ==
  ASSUME NEW g \in Gens, gen' = g, calls' = {}, model'.status # "disposed",
         \A h \in Gens : h # g => stage'[h] \notin Suspended,
         stage'[g] \in Waiting \/ LeftByTheLast',
         SvgaInStep', FindsItsLoad(g)'
  PROVE  SerialInv'
BY DEF SerialInv, OneAtATime, FindsItsLoad, Suspended, Waiting

\* What a suspended operation knows when it goes on.
LEMMA Continuing ==
  ASSUME IInv, SerialInv, NEW g \in Gens, stage[g] \in Suspended
  PROVE  /\ gen = g /\ calls = {} /\ model.status # "disposed" /\ IsActive(g)
         /\ \A h \in Gens : h # g => stage[h] \notin Suspended
         /\ FindsItsLoad(g)
         /\ job[g] \in Job
         /\ stage[g] \notin Waiting => LeftByTheLast
<1>1. gen = g /\ calls = {} /\ model.status # "disposed"
  BY DEF SerialInv, OneAtATime
<1>2. \A h \in Gens : h # g => stage[h] \notin Suspended
  BY <1>1 DEF SerialInv, OneAtATime
<1>3. stage[g] \notin Waiting => LeftByTheLast
  BY <1>2 DEF SerialInv, Waiting, Suspended
<1> QED
  BY <1>1, <1>2, <1>3 DEF SerialInv, IInv, CandidateTypeOK, IsActive

\* Its stage moves; every other operation is at rest.
LEMMA MovesAlone ==
  ASSUME IInv, SerialInv, NEW g \in Gens, stage[g] \in Suspended,
         NEW s \in Stage, Goto(g, s)
  PROVE  /\ stage'[g] = s
         /\ \A h \in Gens : h # g => stage'[h] = stage[h] /\ stage'[h] \notin Suspended
BY Continuing, GotoFacts DEF StageMoves, IInv

LEMMA BeginsAlone ==
  ASSUME IInv, SerialInv, Quiet, Begin, NEW s \in Stage, Goto(gen', s)
  PROVE  /\ stage'[gen'] = s /\ stage[gen'] = "none"
         /\ \A h \in Gens : h # gen' => stage'[h] = stage[h] /\ stage'[h] \notin Suspended
         /\ LeftByTheLast
<1>1. gen' \in Gens /\ stage[gen'] = "none"
  BY BeginFacts DEF IInv, Births, Begin, CandidateTypeOK
<1>2. \A h \in Gens : stage[h] \notin Suspended
  BY DEF Quiet
<1>3. LeftByTheLast
  BY <1>2 DEF SerialInv, Suspended, Waiting
<1> QED
  BY <1>1, <1>2, <1>3, GotoFacts DEF StageMoves, IInv

\* The answer to the newest request, with no recovery under way.
LEMMA PlainAnswer ==
  ASSUME ws \in Workspace, calls = {}, WorkspaceAnswers(ws.request)
  PROVE  /\ ws' \in Workspace
         /\ ws'.request = ws.request /\ ws'.file = ws.file
         /\ ws'.edits = ws.edits /\ ws'.format = ws.format
         /\ ws'.status \in {"usable", "failed"}
<1>1. PICK s \in {"usable", "failed"}, k \in BOOLEAN : WorkspaceBecomes(s, k)
  BY DEF WorkspaceAnswers
<1>2. s \in Status
  BY DEF Status
<1> QED
  BY <1>1, <1>2, BecomesFacts

\* No control makes the workspace load.
LEMMA ControlNeverLoads ==
  ASSUME ws \in Workspace, NEW s \in ControlAnswers \cup RecoverAnswers,
         NEW k \in BOOLEAN, WorkspaceBecomes(s, k),
         k = ws.known \/ k = (ws.known \/ s = "usable")
  PROVE  /\ Speaks
         /\ ws'.status = "loading" => ws.status = "loading" /\ ws'.known = ws.known
<1>1. Speaks
  BY ControlFacts
<1>2. s \in Status /\ (s = "loading" => ws.status = "loading")
  BY WorkspaceFields DEF ControlAnswers, RecoverAnswers, Status
<1>3. ws'.status = s /\ ws'.known = k
  BY <1>2, BecomesFacts
<1>4. s = "loading" => k = ws.known
  BY WorkspaceFields
<1> QED
  BY <1>1, <1>2, <1>3, <1>4

-----------------------------------------------------------------------------
(* The commands of a serial caller.                                        *)

LEMMA RejectOpenInputSerial ==
  ASSUME IInv, SerialInv, Quiet, RejectOpenInput
  PROVE  SerialInv' /\ KeepsSiblings
<1>1. /\ Begin /\ Goto(gen', "kept") /\ open' = 0 /\ replacements' = Empty(0)
      /\ model'.status = "failed" /\ ~model'.known /\ UNCHANGED ws
  BY DEF RejectOpenInput, Begin
<1>2. \A g \in Gens : stage'[g] \notin Suspended
  BY <1>1, BeginsAlone DEF Stage, Suspended
<1>3. LeftByTheLast'
  <2>1. \A L \in Stage : Leaves(L) => Leaves(L)'
    BY <1>1 DEF Leaves
  <2>2. \A h \in Gens : stage[h] \notin Untouched \/ stage'[h] \notin Untouched =>
          stage'[h] = stage[h]
    BY <1>1, BeginsAlone DEF Stage, Untouched
  <2> QED
    BY <1>1, <2>1, <2>2, BeginsAlone, LastStays DEF Stage, IInv, CandidateTypeOK
<1>4. SvgaInStep'
  BY <1>1 DEF SvgaInStep, SerialInv
<1>5. KeepsSiblings
  BY <1>1, EmptyFacts, RecordFields
  DEF KeepsSiblings, TargetedReset, IInv, CandidateTypeOK
<1> QED
  BY <1>2, <1>3, <1>4, <1>5, NobodyWaits

LEMMA BlockReplacementSerial ==
  ASSUME IInv, SerialInv, Quiet, BlockReplacement
  PROVE  SerialInv' /\ KeepsSiblings
<1>1. /\ Begin /\ Goto(gen', "kept")
      /\ UNCHANGED <<open, replacements, model, job, calls, ws>>
  BY DEF BlockReplacement, Begin
<1>2. \A g \in Gens : stage'[g] \notin Suspended
  BY <1>1, BeginsAlone DEF Stage, Suspended
<1>3. LeftByTheLast'
  <2>1. \A L \in Stage : Leaves(L) => Leaves(L)'
    BY <1>1 DEF Leaves
  <2>2. \A h \in Gens : stage[h] \notin Untouched \/ stage'[h] \notin Untouched =>
          stage'[h] = stage[h]
    BY <1>1, BeginsAlone DEF Stage, Untouched
  <2> QED
    BY <1>1, <2>1, <2>2, BeginsAlone, LastStays DEF Stage, IInv, CandidateTypeOK
<1>4. SvgaInStep'
  BY <1>1 DEF SvgaInStep, SerialInv
<1>5. KeepsSiblings
  BY <1>1 DEF KeepsSiblings
<1> QED
  BY <1>2, <1>3, <1>4, <1>5, NobodyWaits

LEMMA OpenLocalCandidateSerial ==
  ASSUME IInv, SerialInv, Quiet, NEW g \in Gens, gen' = g,
         NEW f \in {"svga", "player"},
         OpenLocalCandidate(f)
  PROVE  SerialInv' /\ KeepsSiblings
<1>1. /\ Begin /\ Goto(g, "opening") /\ open' = g
      /\ replacements' = Empty(0) /\ UNCHANGED calls
      /\ model'.status = "loading" /\ ~model'.known
      /\ WorkspaceOpens(g, NoEdits, f)
      /\ Give(g, JobOf(0, ws.request + 1, Empty(0), Empty(0), 0))
  BY DEF OpenLocalCandidate, ClearReplacements, Begin
<1>2. /\ ws \in Workspace /\ ws.request + 1 \in Nat /\ g \in Gens /\ g # 0
      /\ g \in 0 .. MaxGen /\ 0 \in 0 .. MaxGen /\ NoEdits \in Edits
      /\ Empty(0) \in Record /\ 0 \in Nat
  BY <1>1, BeginFacts, WorkspaceFields, EmptyFacts, ParametersAssumption
  DEF IInv, CandidateTypeOK, Gens, NoEdits, Edits
<1>3. /\ ws'.request = ws.request + 1 /\ ws'.edits = NoEdits
      /\ ws'.format = f /\ ~ws'.known
  BY <1>1, <1>2, OpensFacts
<1>4. job'[g].request = ws.request + 1
  <2> DEFINE t == 0
             r == ws.request + 1
             n == Empty(0)
             j == JobOf(t, r, n, n, t)
  <2>1. t \in Targets \cup {0} /\ r \in Nat /\ n \in Record /\ t \in 0 .. MaxGen
    BY <1>2
  <2>2. Give(g, j)
    BY <1>1
  <2>3. ws.request + 1 = r
    OBVIOUS
  <2> HIDE DEF t, r, n
  <2>4. j \in Job /\ j.request = r
    BY <2>1 DEF JobOf, Job
  <2> HIDE DEF j
  <2> QED
    BY <1>2, <2>2, <2>3, <2>4, GiveFacts DEF IInv
<1>5. replacements'.edits = NoEdits /\ \A t \in Targets : NoEdits[t] = 0
  BY <1>1 DEF Empty, NoEdits
<1>6. /\ stage'[g] = "opening"
      /\ \A h \in Gens : h # g => stage'[h] \notin Suspended
  BY <1>1, BeginsAlone DEF Stage, Suspended
<1>7. FindsItsLoad(g)'
  BY <1>1, <1>2, <1>3, <1>4, <1>5, <1>6 DEF FindsItsLoad, Waiting
<1>8. SvgaInStep'
  BY <1>1, <1>3, <1>5 DEF SvgaInStep
<1>9. calls' = {}
  BY <1>1 DEF Quiet
<1>10. KeepsSiblings
  BY <1>1, EmptyFacts, RecordFields
  DEF KeepsSiblings, TargetedReset, IInv, CandidateTypeOK
<1> QED
  BY <1>1, <1>2, <1>6, <1>7, <1>8, <1>9, <1>10, OneWaits DEF Waiting

LEMMA DisposeSerial ==
  ASSUME IInv, IInv', SerialInv, Quiet, Dispose
  PROVE  SerialInv' /\ KeepsSiblings
<1>1. /\ Begin /\ Goto(gen', "done") /\ DisposeWorkspace /\ open' = 0
      /\ replacements' = Empty(replacements.revision)
      /\ model'.status = "disposed"
  BY DEF Dispose, Begin
<1>2. /\ ws'.status = "disposed" /\ ws'.edits = ws.edits /\ ws'.format = ws.format
  BY <1>1 DEF DisposeWorkspace
<1>3. /\ stage'[gen'] = "done" /\ gen' \in Gens
      /\ \A g \in Gens : stage'[g] \notin Suspended
  BY <1>1, BeginsAlone, BeginFacts DEF Stage, Suspended
<1>4. LeftByTheLast'
  BY <1>1, <1>2, <1>3, NewestIsLast DEF Leaves, Untouched
<1>5. SvgaInStep'
  BY <1>1, <1>2 DEF SvgaInStep, SerialInv
<1>6. KeepsSiblings
  BY <1>1, EmptyFacts, RecordFields
  DEF KeepsSiblings, TargetedReset, IInv, CandidateTypeOK
<1> QED
  BY <1>3, <1>4, <1>5, <1>6, NobodyWaits

\* A control, or the answer to one, while no operation is suspended.
LEMMA SpokenSerial ==
  ASSUME IInv, SerialInv, \A g \in Gens : stage[g] \notin Suspended,
         UNCHANGED <<open, replacements, stage>>,
         Speaks, ws'.status = "loading" => ws.status = "loading" /\ ws'.known = ws.known,
         model' = ModelFromWorkspace(ws')
  PROVE  SerialInv'
<1>1. model'.status = ws'.status /\ model'.known = ws'.known
  BY ModelFacts DEF Speaks
<1>2. LeftByTheLast
  BY DEF SerialInv, Suspended, Waiting
<1>3. \A L \in Stage : Leaves(L) => Leaves(L)'
  BY <1>1 DEF Leaves, Speaks
<1>4. LeftByTheLast'
  BY <1>2, <1>3, LastStays DEF IInv, CandidateTypeOK
<1>5. SvgaInStep'
  BY <1>1 DEF SvgaInStep, SerialInv, Speaks
<1> QED
  BY <1>4, <1>5, NobodyWaits

LEMMA PauseSeekOrLoopSerial ==
  ASSUME IInv, SerialInv, Quiet, PauseSeekOrLoop
  PROVE  SerialInv' /\ KeepsSiblings
<1>1. /\ UNCHANGED <<gen, open, replacements, stage, job, calls>>
      /\ model' = ModelFromWorkspace(ws')
  BY DEF PauseSeekOrLoop
<1>2. PICK s \in ControlAnswers : WorkspaceBecomes(s, ws.known)
  BY DEF PauseSeekOrLoop
<1>3. /\ Speaks
      /\ ws'.status = "loading" => ws.status = "loading" /\ ws'.known = ws.known
  BY <1>2, WorkspaceFields, ControlNeverLoads DEF IInv, CandidateTypeOK
<1> QED
  BY <1>1, <1>3, SpokenSerial DEF Quiet, KeepsSiblings

LEMMA PlayOrRecoverSerial ==
  ASSUME IInv, SerialInv, Quiet, NEW kind \in {"play", "recover"},
         PlayOrRecover(kind)
  PROVE  SerialInv' /\ KeepsSiblings
<1>1. UNCHANGED <<gen, open, replacements, model, stage, job, ws>>
  BY DEF PlayOrRecover
<1>2. LeftByTheLast
  BY DEF SerialInv, Quiet, Suspended, Waiting
<1>3. \A L \in Stage : Leaves(L) => Leaves(L)'
  BY <1>1 DEF Leaves
<1>4. LeftByTheLast'
  BY <1>1, <1>2, <1>3, LastStays DEF IInv, CandidateTypeOK
<1>5. SvgaInStep'
  BY <1>1 DEF SvgaInStep, SerialInv
<1> QED
  BY <1>1, <1>4, <1>5, NobodyWaits DEF Quiet, KeepsSiblings

LEMMA CallSettledSerial ==
  ASSUME IInv, SerialInv, NEW c \in calls, CallSettled(c)
  PROVE  SerialInv' /\ KeepsSiblings
<1>1. /\ UNCHANGED <<gen, open, replacements, stage, job>>
      /\ model' = ModelFromWorkspace(ws')
  BY DEF CallSettled
<1>2. \A g \in Gens : stage[g] \notin Suspended
  BY DEF SerialInv, OneAtATime
<1>3. /\ Speaks
      /\ ws'.status = "loading" => ws.status = "loading" /\ ws'.known = ws.known
  <2>1. CASE UNCHANGED ws
    BY <2>1, WsSpeaks DEF IInv
  <2>2. ASSUME NEW s \in ControlAnswers \cup RecoverAnswers,
               WorkspaceBecomes(s, ws.known \/ s = "usable")
        PROVE  /\ Speaks
               /\ ws'.status = "loading" => ws.status = "loading" /\ ws'.known = ws.known
    <3>1. (ws.known \/ s = "usable") \in BOOLEAN
      OBVIOUS
    <3> QED
      BY <2>2, <3>1, ControlNeverLoads DEF IInv, CandidateTypeOK
  <2> QED
    BY <2>1, <2>2 DEF CallSettled
<1> QED
  BY <1>1, <1>2, <1>3, SpokenSerial DEF KeepsSiblings

LEMMA ApplyByReloadSerial ==
  ASSUME IInv, SerialInv, Quiet, NEW g \in Gens, gen' = g,
         NEW t \in Targets, ApplyByReload(t)
  PROVE  SerialInv' /\ KeepsSiblings
<1> DEFINE n == Upsert(replacements, t, g)
<1>1. /\ Begin /\ Goto(g, "applying") /\ open # 0
      /\ UNCHANGED <<open, replacements, model, calls>>
      /\ WorkspaceOpens(open, n.edits, "player")
      /\ Give(g, JobOf(t, ws.request + 1, n, Empty(0), open))
  BY DEF ApplyByReload, Begin, HasTargets
<1>2. /\ ws \in Workspace /\ ws.request + 1 \in Nat /\ g \in Gens
      /\ open \in 0 .. MaxGen /\ n \in Record /\ n.edits \in Edits
      /\ Empty(0) \in Record
  <2>1. g \in 0 .. MaxGen /\ g > open /\ open \in 0 .. MaxGen
    BY <1>1, BeginFacts
  <2>2. n \in Record
    BY <2>1, UpsertBelongs
  <2>3. ws \in Workspace /\ ws.request + 1 \in Nat
    BY WorkspaceFields DEF IInv, CandidateTypeOK
  <2> HIDE DEF n
  <2> QED
    BY <2>1, <2>2, <2>3, RecordFields, EmptyFacts
<1> HIDE DEF n
<1>3. /\ ws'.request = ws.request + 1 /\ ws'.edits = n.edits /\ ws'.format = "player"
  BY <1>1, <1>2, OpensFacts
<1>4. /\ job'[g].request = ws.request + 1
      /\ job'[g].next = n
      /\ job'[g].target = t
  <2> DEFINE j == JobOf(t, ws.request + 1, n, Empty(0), open)
  <2>1. j \in Job /\ j.request = ws.request + 1 /\ j.next = n /\ j.target = t
    BY <1>2, JobFacts
  <2> HIDE DEF j
  <2> QED
    BY <1>1, <1>2, <2>1, GiveFacts DEF IInv, j
<1>5. /\ stage'[g] = "applying"
      /\ \A h \in Gens : h # g => stage'[h] \notin Suspended
  BY <1>1, BeginsAlone DEF Stage, Suspended
<1>6. job'[g].next = Upsert(replacements', job'[g].target, g)
  BY <1>1, <1>4 DEF n
<1>7. FindsItsLoad(g)'
  BY <1>1, <1>3, <1>4, <1>5, <1>6 DEF FindsItsLoad, Waiting
<1>8. SvgaInStep'
  BY <1>3 DEF SvgaInStep
<1>9. calls' = {} /\ model'.status # "disposed"
  BY <1>1 DEF Quiet, IInv, Disposal
<1> QED
  BY <1>1, <1>2, <1>5, <1>7, <1>8, <1>9, OneWaits DEF Waiting, KeepsSiblings

LEMMA ApplySvgaSerial ==
  ASSUME IInv, SerialInv, Quiet, NEW g \in Gens, gen' = g,
         NEW t \in Targets, ApplySvga(t)
  PROVE  SerialInv' /\ KeepsSiblings
<1> DEFINE e == [ws.edits EXCEPT ![t] = g]
           n == [edits |-> e, revision |-> 0]
<1>1. /\ Begin /\ Goto(g, "applySvga") /\ open # 0 /\ model.known
      /\ ws.format = "svga" /\ SingleTarget(t)
      /\ UNCHANGED <<open, replacements, model, calls, ws>>
      /\ Give(g, JobOf(t, 0, n, Empty(0), open))
  BY DEF ApplySvga, Begin, HasTargets
<1>2. /\ n \in Record /\ n.edits = e
      /\ open \in 0 .. MaxGen /\ Empty(0) \in Record
  BY <1>1, BeginFacts, WorkspaceFields, EmptyFacts
  DEF IInv, CandidateTypeOK, Record, Edits
<1> HIDE DEF n
<1>3. /\ job'[g].next.edits = e
      /\ job'[g].target = t
  <2> DEFINE j == JobOf(t, 0, n, Empty(0), open)
  <2>1. n \in Record /\ open \in 0 .. MaxGen /\ Empty(0) \in Record
    BY <1>2
  <2>2. j \in Job /\ j.next = n /\ j.target = t
    BY ONLY <2>1, t \in Targets, JobFacts
  <2> HIDE DEF j
  <2> QED
    BY <1>1, <1>2, <2>2, GiveFacts DEF IInv, j
<1>4. /\ stage'[g] = "applySvga" /\ stage[g] = "none" /\ LeftByTheLast
      /\ \A h \in Gens : h # g => stage'[h] = stage[h] /\ stage'[h] \notin Suspended
  BY <1>1, BeginsAlone DEF Stage, Suspended
<1>5. ws.status # "loading"
  BY <1>1 DEF SerialInv, SvgaInStep
<1>6. SingleTarget(t)'
  BY <1>1 DEF SingleTarget
<1>7. FindsItsLoad(g)'
  BY <1>1, <1>3, <1>4, <1>5, <1>6 DEF FindsItsLoad, Waiting
<1>8. LeftByTheLast'
  <2>1. \A L \in Stage : Leaves(L) => Leaves(L)'
    BY <1>1 DEF Leaves
  <2> QED
    BY <1>4, <2>1, LastStays DEF Untouched, IInv, CandidateTypeOK
<1>9. SvgaInStep'
  BY <1>1 DEF SvgaInStep, SerialInv
<1>10. calls' = {} /\ model'.status # "disposed"
  BY <1>1 DEF Quiet, IInv, Disposal
<1> QED
  BY <1>1, <1>4, <1>7, <1>8, <1>9, <1>10, OneWaits DEF KeepsSiblings

LEMMA ResetByReloadSerial ==
  ASSUME IInv, SerialInv, Quiet, NEW g \in Gens, gen' = g,
         NEW scope \in Targets \cup {0}, ResetByReload(scope)
  PROVE  SerialInv' /\ KeepsSiblings
<1>1. /\ Begin /\ Goto(g, "preflight") /\ open # 0 /\ ws.format = "player"
      /\ UNCHANGED <<open, replacements, model, calls, ws>>
  BY DEF ResetByReload, Begin, MayReset, HasTargets
<1>2. /\ stage'[g] = "preflight" /\ stage[g] = "none" /\ LeftByTheLast
      /\ \A h \in Gens : h # g => stage'[h] = stage[h] /\ stage'[h] \notin Suspended
  BY <1>1, BeginsAlone DEF Stage, Suspended
<1>3. FindsItsLoad(g)'
  BY <1>1, <1>2 DEF FindsItsLoad, Waiting
<1>4. LeftByTheLast'
  <2>1. \A L \in Stage : Leaves(L) => Leaves(L)'
    BY <1>1 DEF Leaves
  <2> QED
    BY <1>2, <2>1, LastStays DEF Untouched, IInv, CandidateTypeOK
<1>5. SvgaInStep'
  BY <1>1 DEF SvgaInStep
<1>6. calls' = {} /\ model'.status # "disposed"
  BY <1>1 DEF Quiet, IInv, Disposal
<1> QED
  BY <1>1, <1>2, <1>3, <1>4, <1>5, <1>6, OneWaits DEF KeepsSiblings

\* The whole record goes, but the other targets had no edit to lose: the
\* runtime has one edited target at most, and the record is in step with it.
LEMMA ResetSvgaSerial ==
  ASSUME IInv, IInv', SerialInv, Quiet, NEW g \in Gens, gen' = g,
         NEW scope \in Targets \cup {0}, ResetSvga(scope)
  PROVE  SerialInv' /\ KeepsSiblings
<1>1. /\ Begin /\ Goto(g, "done") /\ open # 0 /\ model.known
      /\ scope # 0 => replacements.edits[scope] # 0
      /\ ws.format = "svga" /\ Patch(NoEdits)
      /\ replacements' = Empty(replacements.revision + 1)
      /\ model' = ModelFromWorkspace(ws')
      /\ Give(g, JobOf(scope, 0, Empty(0), Empty(0), 0))
  BY DEF ResetSvga, Begin, MayReset, HasTargets, IsActiveEdit
<1>2. /\ ws' \in Workspace /\ ws'.edits = NoEdits /\ ws'.status = ws.status
      /\ \A u \in Targets : NoEdits[u] = 0
  <2>1. NoEdits \in Edits /\ \A u \in Targets : NoEdits[u] = 0
    BY ParametersAssumption DEF NoEdits, Edits
  <2> QED
    BY <1>1, <2>1, PatchFacts DEF IInv, CandidateTypeOK
<1>3. /\ ws.edits = replacements.edits
      /\ \A t, u \in Targets : ws.edits[t] # 0 /\ ws.edits[u] # 0 => t = u
      /\ ws.status # "loading"
  BY <1>1 DEF SerialInv, SvgaInStep
<1>4. replacements'.edits = NoEdits
  BY <1>1 DEF Empty
<1>5. model'.status = ws.status
  BY <1>1, <1>2, ModelFacts
<1>6. /\ stage'[g] = "done"
      /\ \A h \in Gens : stage'[h] \notin Suspended
  BY <1>1, BeginsAlone DEF Stage, Suspended
<1>7. LeftByTheLast'
  BY <1>2, <1>3, <1>4, <1>5, <1>6, NewestIsLast DEF Leaves, Untouched
<1>8. SvgaInStep'
  BY <1>2, <1>3, <1>4 DEF SvgaInStep
<1>9. job'[g].target = scope
  <2> DEFINE j == JobOf(scope, 0, Empty(0), Empty(0), 0)
  <2>1. j \in Job /\ j.target = scope
    BY EmptyFacts, JobFacts, ParametersAssumption
  <2> HIDE DEF j
  <2> QED
    BY <1>1, <2>1, GiveFacts DEF IInv, j
<1>10. KeepsSiblings
  <2>1. ASSUME scope # 0, NEW u \in Targets \ {scope}
        PROVE  replacements'.edits[u] = replacements.edits[u]
    <3>1. ws.edits[scope] # 0
      BY <1>1, <1>3, <2>1
    <3>2. ws.edits[u] = 0
      BY <1>3, <2>1, <3>1
    <3> QED
      BY <1>2, <1>3, <1>4, <3>2
  <2> QED
    BY <1>9, <2>1 DEF KeepsSiblings, TargetedReset
<1> QED
  BY <1>6, <1>7, <1>8, <1>10, NobodyWaits

-----------------------------------------------------------------------------
(* The continuations, for a serial caller.                                 *)

\* The suspended operation ends.
LEMMA EndsSerial ==
  ASSUME IInv, IInv', SerialInv, NEW g \in Gens, stage[g] \in Suspended,
         UNCHANGED gen, NEW s \in {"done", "refused", "rejected"}, Goto(g, s),
         Leaves(s)', SvgaInStep'
  PROVE  SerialInv'
<1>1. /\ gen' = g /\ stage'[g] = s
      /\ \A h \in Gens : stage'[h] \notin Suspended
  BY Continuing, MovesAlone DEF Stage, Suspended
<1>2. LeftByTheLast'
  BY <1>1, NewestIsLast DEF Leaves, Untouched
<1> QED
  BY <1>1, <1>2, NobodyWaits

LEMMA OpenedSerial ==
  ASSUME IInv, IInv', SerialInv, NEW g \in Gens, Opened(g)
  PROVE  SerialInv' /\ KeepsSiblings
<1>1. /\ stage[g] = "opening" /\ stage[g] \in Suspended
      /\ WorkspaceAnswers(job[g].request)
      /\ UNCHANGED <<gen, open, replacements, job, calls>>
  BY DEF Opened, Suspended
<1>2. /\ gen = g /\ calls = {} /\ IsActive(g) /\ open # 0
      /\ model.status # "disposed"
      /\ job[g].request = ws.request /\ ws.edits = replacements.edits
  BY <1>1, Continuing DEF FindsItsLoad, Waiting
<1>3. /\ ws' \in Workspace /\ ws'.request = ws.request
      /\ ws'.edits = ws.edits /\ ws'.format = ws.format
      /\ ws'.status \in {"usable", "failed"}
  BY <1>1, <1>2, PlainAnswer DEF IInv, CandidateTypeOK
<1>4. SvgaInStep'
  BY <1>1, <1>2, <1>3 DEF SvgaInStep, SerialInv
<1>5. CASE ws'.status = "usable"
  <2>1. Goto(g, "autoplay") /\ UNCHANGED model
    BY <1>2, <1>5 DEF Opened
  <2>2. /\ stage'[g] = "autoplay"
        /\ \A h \in Gens : h # g => stage'[h] \notin Suspended
    BY <1>1, <2>1, MovesAlone DEF Stage, Suspended
  <2>3. FindsItsLoad(g)'
    BY <1>1, <1>2, <1>3, <1>5, <2>2 DEF FindsItsLoad, Waiting
  <2> QED
    BY <1>1, <1>2, <1>4, <2>1, <2>2, <2>3, OneWaits DEF Waiting, KeepsSiblings
<1>6. CASE ws'.status # "usable"
  <2>1. Goto(g, "done") /\ model' = ModelFromWorkspace(ws')
    BY <1>2, <1>6 DEF Opened
  <2>2. Leaves("done")'
    BY <1>1, <1>2, <1>3, <2>1, ModelFacts DEF Leaves
  <2> QED
    BY <1>1, <1>4, <2>1, <2>2, EndsSerial DEF KeepsSiblings
<1> QED
  BY <1>5, <1>6

LEMMA AutoplayedSerial ==
  ASSUME IInv, IInv', SerialInv, NEW g \in Gens, Autoplayed(g)
  PROVE  SerialInv' /\ KeepsSiblings
<1>1. /\ stage[g] = "autoplay" /\ stage[g] \in Suspended /\ Goto(g, "done")
      /\ UNCHANGED <<gen, open, replacements, job, calls>>
  BY DEF Autoplayed, Suspended
<1>2. /\ IsActive(g) /\ open # 0 /\ job[g].request = ws.request
      /\ ws.status = "usable" /\ ws.edits = replacements.edits
  BY <1>1, Continuing DEF FindsItsLoad, Waiting
<1>3. /\ ws'.edits = ws.edits /\ ws'.format = ws.format
      /\ ws'.status \in {"usable", "failed"}
      /\ model'.status \in {"usable", "failed"}
  <2>1. CASE UNCHANGED ws /\ model'.status = "failed"
    BY <1>2, <2>1
  <2>2. ASSUME NEW s \in ControlAnswers, WorkspaceBecomes(s, ws.known),
               model' = ModelFromWorkspace(ws')
        PROVE  <1>3!:
    <3>1. s \in {"usable", "failed"} /\ s \in Status /\ ws.known \in BOOLEAN
          /\ ws \in Workspace
      BY <1>2, WorkspaceFields DEF ControlAnswers, Status, IInv, CandidateTypeOK
    <3> QED
      BY <2>2, <3>1, BecomesFacts, ModelFacts
  <2> QED
    BY <1>2, <2>1, <2>2 DEF Autoplayed, AutoplayRejected
<1>4. SvgaInStep' /\ Leaves("done")'
  BY <1>1, <1>2, <1>3 DEF SvgaInStep, SerialInv, Leaves
<1> QED
  BY <1>1, <1>4, EndsSerial DEF KeepsSiblings

\* Accepted, the record becomes the one that the runtime was given.
LEMMA AppliedSerial ==
  ASSUME IInv, IInv', SerialInv, NEW g \in Gens, Applied(g)
  PROVE  SerialInv' /\ KeepsSiblings
<1>1. /\ stage[g] = "applying" /\ stage[g] \in Suspended
      /\ WorkspaceAnswers(job[g].request)
      /\ UNCHANGED <<gen, open, job, calls>>
  BY DEF Applied, Suspended
<1>2. /\ gen = g /\ calls = {} /\ IsActive(g) /\ open # 0
      /\ job[g].request = ws.request /\ ws.format = "player"
      /\ ws.edits = job[g].next.edits
      /\ job[g].target \in Targets
      /\ job[g].next = Upsert(replacements, job[g].target, g)
  BY <1>1, Continuing DEF FindsItsLoad, Waiting
<1>3. /\ ws' \in Workspace /\ ws'.edits = ws.edits /\ ws'.format = ws.format
      /\ ws'.status \in {"usable", "failed"}
  BY <1>1, <1>2, PlainAnswer DEF IInv, CandidateTypeOK
<1>4. model'.status = ws'.status
  BY <1>2, <1>3, ModelFacts DEF Applied
<1>5. SvgaInStep'
  BY <1>2, <1>3 DEF SvgaInStep
<1>6. CASE ws'.status = "usable"
  <2>1. Goto(g, "done") /\ replacements' = job[g].next
    BY <1>2, <1>6 DEF Applied, Accepts
  <2>2. Leaves("done")'
    BY <1>2, <1>3, <1>4, <2>1 DEF Leaves
  <2>3. replacements'.edits[job[g].target] # 0
    <3>1. replacements \in Record /\ g \in 0 .. MaxGen /\ g # 0
      BY DEF IInv, CandidateTypeOK, Gens
    <3> QED
      BY <1>2, <2>1, <3>1, UpsertFacts
  <2> QED
    BY <1>1, <1>2, <1>5, <2>1, <2>2, <2>3, EndsSerial
    DEF KeepsSiblings, TargetedReset
<1>7. CASE ws'.status # "usable"
  <2>1. Goto(g, "refused") /\ UNCHANGED replacements
    BY <1>2, <1>7 DEF Applied, Accepts
  <2>2. Leaves("refused")'
    BY <1>3, <1>4 DEF Leaves
  <2> QED
    BY <1>1, <1>5, <2>1, <2>2, EndsSerial DEF KeepsSiblings
<1> QED
  BY <1>6, <1>7

LEMMA PreflightedSerial ==
  ASSUME IInv, IInv', SerialInv, NEW g \in Gens, Preflighted(g)
  PROVE  SerialInv' /\ KeepsSiblings
<1>1. /\ stage[g] = "preflight" /\ stage[g] \in Suspended
      /\ UNCHANGED <<gen, open, replacements, model, calls>>
  BY DEF Preflighted, Suspended
<1>2. /\ gen = g /\ calls = {} /\ IsActive(g) /\ ws.format = "player"
      /\ model.status # "disposed" /\ LeftByTheLast
  BY <1>1, Continuing DEF FindsItsLoad, Waiting
<1>3. CASE Goto(g, "kept") /\ UNCHANGED <<job, ws>>
  <2>1. /\ stage'[g] = "kept"
        /\ \A h \in Gens : h # g => stage'[h] = stage[h] /\ stage'[h] \notin Suspended
    BY <1>1, <1>3, MovesAlone DEF Stage
  <2>2. \A L \in Stage : Leaves(L) => Leaves(L)'
    BY <1>1, <1>3 DEF Leaves
  <2>3. LeftByTheLast'
    BY <1>1, <1>2, <2>1, <2>2, LastStays DEF Untouched, IInv, CandidateTypeOK
  <2>4. SvgaInStep'
    BY <1>2, <1>3 DEF SvgaInStep
  <2> QED
    BY <1>1, <2>1, <2>3, <2>4, NobodyWaits DEF Suspended, KeepsSiblings
<1> DEFINE n == Without(replacements, job[g].target)
<1>4. CASE /\ Goto(g, "resetting")
           /\ Give(g, JobOf(job[g].target, ws.request + 1, n, replacements, open))
           /\ WorkspaceOpens(open, n.edits, "player")
  <2>1. /\ job[g].target \in Targets \cup {0} /\ open \in 0 .. MaxGen
        /\ replacements \in Record /\ open # 0
        /\ ws \in Workspace /\ ws.request + 1 \in Nat
    BY <1>1, <1>2, JobFields, WorkspaceFields DEF IInv, CandidateTypeOK, NewestOp
  <2>2. n \in Record /\ n.edits \in Edits
    BY <2>1, WithoutFacts, RecordFields
  <2>3. n' = Without(replacements, job[g].target)'
    OBVIOUS
  <2> HIDE DEF n
  <2>4. /\ job'[g].target = job[g].target
        /\ job'[g].request = ws.request + 1
        /\ job'[g].next = n
    <3> DEFINE t == job[g].target
               r == ws.request + 1
               j == JobOf(t, r, n, replacements, open)
    <3>1. /\ t \in Targets \cup {0} /\ r \in Nat /\ n \in Record
          /\ replacements \in Record /\ open \in 0 .. MaxGen
      BY <2>1, <2>2
    <3>2. Give(g, j)
      BY <1>4
    <3> HIDE DEF t, r
    <3>3. j \in Job /\ j.target = t /\ j.request = r /\ j.next = n
      BY <3>1 DEF JobOf, Job
    <3> HIDE DEF j
    <3> QED
      BY <3>2, <3>3, GiveFacts DEF IInv, t, r
  <2>5. /\ ws'.request = ws.request + 1 /\ ws'.edits = n.edits
        /\ ws'.format = "player"
    BY <1>4, <2>1, <2>2, OpensFacts
  <2>6. /\ stage'[g] = "resetting"
        /\ \A h \in Gens : h # g => stage'[h] \notin Suspended
    BY <1>1, <1>4, MovesAlone DEF Stage, Suspended
  <2>7. job'[g].next = Without(replacements', job'[g].target)
    BY <1>1, <2>4 DEF n
  <2>8. FindsItsLoad(g)'
    BY <1>1, <2>1, <2>4, <2>5, <2>6, <2>7 DEF FindsItsLoad, Waiting
  <2>9. SvgaInStep'
    BY <2>5 DEF SvgaInStep
  <2> QED
    BY <1>1, <1>2, <2>6, <2>8, <2>9, OneWaits DEF Waiting, KeepsSiblings
<1> QED
  BY <1>2, <1>3, <1>4 DEF Preflighted

\* Not accepted, the previous edits are loaded again before the command ends.
LEMMA RollBackSerial ==
  ASSUME IInv, IInv', SerialInv, NEW g \in Gens, stage[g] = "resetting",
         RollBackReset(g), UNCHANGED <<gen, open, calls>>
  PROVE  SerialInv' /\ KeepsSiblings
<1>1. stage[g] \in Suspended
  BY DEF Suspended
<1>2. /\ gen = g /\ calls = {} /\ model.status # "disposed" /\ open # 0
      /\ job[g] \in Job
  BY <1>1, Continuing DEF FindsItsLoad, Waiting
<1>3. /\ job[g].previous = replacements /\ job[g].file = open
      /\ open \in 0 .. MaxGen /\ replacements \in Record
      /\ replacements.edits \in Edits
      /\ ws \in Workspace /\ ws.request + 1 \in Nat
      /\ job[g].target \in Targets \cup {0} /\ job[g].next \in Record
  BY <1>2, RecordFields, WorkspaceFields, JobFields
  DEF IInv, CandidateTypeOK, NewestOp
<1>4. /\ WorkspaceOpens(open, replacements.edits, "player")
      /\ Goto(g, "rollback")
      /\ Give(g, JobOf(job[g].target, ws.request + 1, job[g].next, replacements, open))
      /\ UNCHANGED <<replacements, model>>
  BY <1>3 DEF RollBackReset
<1>5. /\ ws'.request = ws.request + 1 /\ ws'.edits = replacements.edits
      /\ ws'.format = "player"
  BY <1>3, <1>4, OpensFacts
<1>6. job'[g].request = ws.request + 1
  <2> DEFINE j == JobOf(job[g].target, ws.request + 1, job[g].next, replacements, open)
  <2>1. j \in Job
    BY <1>3 DEF JobOf, Job
  <2>2. j.request = ws.request + 1
    BY DEF JobOf
  <2> HIDE DEF j
  <2> QED
    BY <1>4, <2>1, <2>2, GiveFacts DEF IInv, j
<1>7. /\ stage'[g] = "rollback"
      /\ \A h \in Gens : h # g => stage'[h] \notin Suspended
  BY <1>1, <1>4, MovesAlone DEF Stage, Suspended
<1>8. FindsItsLoad(g)'
  BY <1>2, <1>4, <1>5, <1>6, <1>7 DEF FindsItsLoad, Waiting
<1>9. SvgaInStep'
  BY <1>5 DEF SvgaInStep
<1> QED
  BY <1>2, <1>4, <1>7, <1>8, <1>9, OneWaits DEF Waiting, KeepsSiblings

LEMMA ResetAnsweredSerial ==
  ASSUME IInv, IInv', SerialInv, NEW g \in Gens, ResetAnswered(g)
  PROVE  SerialInv' /\ KeepsSiblings
<1>1. /\ stage[g] = "resetting" /\ stage[g] \in Suspended
      /\ UNCHANGED <<gen, open, calls>>
  BY DEF ResetAnswered, Suspended
<1>2. /\ gen = g /\ calls = {} /\ IsActive(g) /\ ws.format = "player"
      /\ job[g].request = ws.request /\ ws.edits = job[g].next.edits
      /\ job[g].next = Without(replacements, job[g].target)
      /\ job[g].target \in Targets \cup {0}
  BY <1>1, Continuing, JobFields DEF FindsItsLoad, Waiting
<1>3. CASE /\ WorkspaceAnswers(job[g].request)
           /\ replacements' = job[g].next
           /\ model' = ModelFromWorkspace(ws')
           /\ Goto(g, "done")
           /\ UNCHANGED job
  <2>1. /\ ws' \in Workspace /\ ws'.edits = ws.edits /\ ws'.format = ws.format
        /\ ws'.status \in {"usable", "failed"}
    BY <1>2, <1>3, PlainAnswer DEF IInv, CandidateTypeOK
  <2>2. SvgaInStep' /\ Leaves("done")'
    BY <1>2, <1>3, <2>1, ModelFacts DEF SvgaInStep, Leaves
  <2>3. KeepsSiblings
    <3>1. ASSUME job[g].target # 0, NEW u \in Targets \ {job[g].target}
          PROVE  replacements'.edits[u] = replacements.edits[u]
      <4>1. replacements \in Record /\ 0 \in 0 .. MaxGen /\ job[g].target \in Targets
        BY <1>2, <3>1, ParametersAssumption DEF IInv, CandidateTypeOK
      <4> QED
        BY <1>2, <1>3, <3>1, <4>1, UpsertFacts DEF Without
    <3> QED
      BY <1>1, <1>2, <1>3, <3>1 DEF KeepsSiblings, TargetedReset
  <2> QED
    BY <1>1, <1>3, <2>2, <2>3, EndsSerial
<1>4. CASE RollBackReset(g)
  BY <1>1, <1>4, RollBackSerial
<1> QED
  BY <1>2, <1>3, <1>4 DEF ResetAnswered

LEMMA RolledBackSerial ==
  ASSUME IInv, IInv', SerialInv, NEW g \in Gens, RolledBack(g)
  PROVE  SerialInv' /\ KeepsSiblings
<1>1. /\ stage[g] = "rollback" /\ stage[g] \in Suspended
      /\ WorkspaceAnswers(job[g].request) /\ Goto(g, "done")
      /\ UNCHANGED <<gen, job, calls>>
  BY DEF RolledBack, Suspended
<1>2. /\ gen = g /\ calls = {} /\ IsActive(g) /\ ws.format = "player"
      /\ job[g].request = ws.request /\ ws.edits = replacements.edits
  BY <1>1, Continuing DEF FindsItsLoad, Waiting
<1>3. /\ ws' \in Workspace /\ ws'.edits = ws.edits /\ ws'.format = ws.format
      /\ ws'.status \in {"usable", "failed"}
  BY <1>1, <1>2, PlainAnswer DEF IInv, CandidateTypeOK
<1>4. /\ UNCHANGED <<open, replacements>>
      /\ model' = ModelFromWorkspace(ws')
  BY <1>1, <1>2 DEF RolledBack, IInv, NewestOp
<1>5. SvgaInStep' /\ Leaves("done")'
  BY <1>2, <1>3, <1>4, ModelFacts DEF SvgaInStep, Leaves
<1> QED
  BY <1>1, <1>4, <1>5, EndsSerial DEF KeepsSiblings

LEMMA SvgaAppliedSerial ==
  ASSUME IInv, IInv', SerialInv, NEW g \in Gens, SvgaApplied(g)
  PROVE  SerialInv' /\ KeepsSiblings
<1>1. /\ stage[g] = "applySvga" /\ stage[g] \in Suspended
      /\ UNCHANGED <<gen, open, job, calls>>
  BY DEF SvgaApplied, Suspended
<1>2. /\ gen = g /\ calls = {} /\ IsActive(g) /\ LeftByTheLast
      /\ job[g] \in Job
      /\ ws.format = "svga" /\ ws.status # "loading"
      /\ SingleTarget(job[g].target)
      /\ job[g].next.edits = [ws.edits EXCEPT ![job[g].target] = g]
  BY <1>1, Continuing DEF FindsItsLoad, Waiting
<1>3. CASE Goto(g, "kept") /\ UNCHANGED <<replacements, model, ws>>
  <2>1. /\ stage'[g] = "kept"
        /\ \A h \in Gens : h # g => stage'[h] = stage[h] /\ stage'[h] \notin Suspended
    BY <1>1, <1>3, MovesAlone DEF Stage
  <2>2. \A L \in Stage : Leaves(L) => Leaves(L)'
    BY <1>1, <1>3 DEF Leaves
  <2>3. LeftByTheLast'
    BY <1>1, <1>2, <2>1, <2>2, LastStays DEF Untouched, IInv, CandidateTypeOK
  <2>4. SvgaInStep'
    BY <1>1, <1>3 DEF SvgaInStep, SerialInv
  <2> QED
    BY <1>1, <1>3, <2>1, <2>3, <2>4, NobodyWaits DEF Suspended, KeepsSiblings
<1>4. CASE /\ Patch(job[g].next.edits)
           /\ Goto(g, "done")
           /\ replacements' = Upsert(replacements, job[g].target, g)
           /\ model' = ModelFromWorkspace(ws')
  <2> DEFINE t == job[g].target
  <2>1. /\ t \in Targets /\ g \in 0 .. MaxGen /\ g # 0
        /\ open # 0 /\ replacements.edits = ws.edits
        /\ replacements \in Record /\ ws \in Workspace /\ ws.edits \in Edits
        /\ job[g].next.edits \in Edits
    <3>1. t \in Targets /\ open # 0
      BY <1>1, <1>2 DEF IInv, SvgaOp, NewestOp
    <3>2. replacements.edits = ws.edits
      BY <1>2, <3>1 DEF SerialInv, SvgaInStep
    <3> QED
      BY <1>2, <3>1, <3>2, WorkspaceFields, JobFields, RecordFields
      DEF IInv, CandidateTypeOK, Gens
  <2>2. /\ ws' \in Workspace /\ ws'.edits = [ws.edits EXCEPT ![t] = g]
        /\ ws'.status = ws.status
    BY <1>2, <1>4, <2>1, PatchFacts
  <2>3. replacements'.edits = ws'.edits
    BY <1>4, <2>1, <2>2 DEF Upsert
  <2>4. \A u \in Targets : ws'.edits[u] # 0 => u = t
    BY <1>2, <2>1, <2>2 DEF SingleTarget, Edits
  <2>5. ws'.edits[t] # 0
    BY <2>1, <2>2 DEF Edits
  <2>6. SvgaInStep'
    BY <1>2, <2>2, <2>3, <2>4 DEF SvgaInStep
  <2>7. Leaves("done")'
    BY <1>2, <1>4, <2>2, <2>3, ModelFacts DEF Leaves
  <2>8. KeepsSiblings
    BY <1>1, <1>2, <2>3, <2>5 DEF KeepsSiblings, TargetedReset
  <2> QED
    BY <1>1, <1>4, <2>6, <2>7, <2>8, EndsSerial
<1> QED
  BY <1>2, <1>3, <1>4 DEF SvgaApplied

LEMMA RejectedSerial ==
  ASSUME IInv, IInv', SerialInv, NEW g \in Gens, Rejected(g)
  PROVE  SerialInv' /\ KeepsSiblings
<1>1. /\ stage[g] \in Suspended /\ Goto(g, "rejected")
      /\ UNCHANGED <<gen, open, replacements, model, job, calls, ws>>
  BY DEF Rejected, Suspended
<1>2. SvgaInStep' /\ Leaves("rejected")'
  BY <1>1 DEF SvgaInStep, SerialInv, Leaves
<1> QED
  BY <1>1, <1>2, EndsSerial DEF KeepsSiblings

-----------------------------------------------------------------------------
(* A serial caller finds nothing half done.                                *)

LEMMA InitSerial ==
  ASSUME Init
  PROVE  SerialInv
<1>1. \A g \in Gens : stage[g] = "none"
  BY DEF Init
<1>2. Reached = {}
  BY <1>1 DEF Reached, Untouched
<1>3. open = 0 /\ model.status = "launch" /\ ws.status = "launch"
      /\ ws.format = "player"
  BY DEF Init
<1> QED
  BY <1>1, <1>2, <1>3
  DEF SerialInv, OneAtATime, SvgaInStep, FindsItsLoad, LeftByTheLast, Leaves,
      Suspended, Waiting

LEMMA CommandSerial ==
  ASSUME IInv, IInv', serial, SerialInv, Command
  PROVE  SerialInv' /\ KeepsSiblings
<1>1. MayCall => Quiet
  BY DEF MayCall
<1>2. Begin => gen' \in Gens
  BY BeginFacts
<1>3. CASE RejectOpenInput
  BY <1>1, <1>3, RejectOpenInputSerial DEF RejectOpenInput
<1>4. ASSUME NEW f \in {"svga", "player"}, OpenLocalCandidate(f)
      PROVE  SerialInv' /\ KeepsSiblings
  BY <1>1, <1>2, <1>4, OpenLocalCandidateSerial DEF OpenLocalCandidate
<1>5. CASE Dispose
  BY <1>1, <1>5, DisposeSerial DEF Dispose
<1>6. CASE PauseSeekOrLoop
  BY <1>1, <1>6, PauseSeekOrLoopSerial DEF PauseSeekOrLoop
<1>7. ASSUME NEW kind \in {"play", "recover"}, PlayOrRecover(kind)
      PROVE  SerialInv' /\ KeepsSiblings
  BY <1>1, <1>7, PlayOrRecoverSerial DEF PlayOrRecover
<1>8. CASE BlockReplacement
  BY <1>1, <1>8, BlockReplacementSerial DEF BlockReplacement
<1>9. ASSUME NEW t \in Targets, ApplyByReload(t)
      PROVE  SerialInv' /\ KeepsSiblings
  BY <1>1, <1>2, <1>9, ApplyByReloadSerial DEF ApplyByReload
<1>10. ASSUME NEW t \in Targets, ApplySvga(t)
       PROVE  SerialInv' /\ KeepsSiblings
  BY <1>1, <1>2, <1>10, ApplySvgaSerial DEF ApplySvga
<1>11. ASSUME NEW scope \in Targets \cup {0}, ResetByReload(scope)
       PROVE  SerialInv' /\ KeepsSiblings
  BY <1>1, <1>2, <1>11, ResetByReloadSerial DEF ResetByReload
<1>12. ASSUME NEW scope \in Targets \cup {0}, ResetSvga(scope)
       PROVE  SerialInv' /\ KeepsSiblings
  BY <1>1, <1>2, <1>12, ResetSvgaSerial DEF ResetSvga
<1> QED
  BY <1>3, <1>4, <1>5, <1>6, <1>7, <1>8, <1>9, <1>10, <1>11, <1>12 DEF Command

LEMMA StepSerial ==
  ASSUME IInv, IInv', serial, SerialInv, [Next]_vars
  PROVE  SerialInv' /\ (KeepsSiblings \/ UNCHANGED vars)
<1>1. CASE Command
  BY <1>1, CommandSerial
<1>2. ASSUME NEW g \in Gens, Continue(g)
      PROVE  SerialInv' /\ KeepsSiblings
  BY <1>2, OpenedSerial, AutoplayedSerial, AppliedSerial, PreflightedSerial,
     ResetAnsweredSerial, RolledBackSerial, SvgaAppliedSerial DEF Continue
<1>3. ASSUME NEW g \in Gens, Rejected(g)
      PROVE  SerialInv' /\ KeepsSiblings
  BY <1>3, RejectedSerial
<1>4. ASSUME NEW c \in calls, CallSettled(c)
      PROVE  SerialInv' /\ KeepsSiblings
  BY <1>4, CallSettledSerial
<1>5. CASE UNCHANGED vars
  BY <1>5 DEF vars, SerialInv, OneAtATime, SvgaInStep, FindsItsLoad, SingleTarget,
              LeftByTheLast, Leaves, Reached
<1> QED
  BY <1>1, <1>2, <1>3, <1>4, <1>5 DEF Next, Step

\* For a caller that awaits each command: one operation at a time is between
\* its load and its end, and it finds what it left behind
\* (openLocalCandidate, applyReplacement, resetReplacement).
THEOREM SerialInvariant == Spec => [](serial => SerialInv)
<1>1. Init => (serial => SerialInv)
  BY InitSerial
<1>2. IInv /\ IInv' /\ (serial => SerialInv) /\ [Next]_vars => (serial => SerialInv)'
  <2>1. [Next]_vars => UNCHANGED serial
    BY DEF Next, vars
  <2> QED
    BY <2>1, StepSerial
<1> QED
  BY <1>1, <1>2, InductiveInvariant, PTL DEF Spec

\* What the last operation left behind is what a caller finds at rest.
LEMMA AtRestFound ==
  ASSUME IInv, SerialInv, Quiet
  PROVE  Leaves(LastReached)
<1>1. LeftByTheLast /\ Reached = Reaching
  BY DEF SerialInv, Quiet, Reached, Reaching, Untouched, Suspended, Waiting
<1>2. CASE Reached = {} /\ Leaves("none")
  BY <1>1, <1>2 DEF LastReached, Leaves
<1>3. ASSUME NEW g \in Reached, \A h \in Reached : h <= g, Leaves(stage[g])
      PROVE  Leaves(LastReached)
  <2>1. \A k \in Reaching : (\A h \in Reaching : h <= k) => k = g
    <3>1. ASSUME NEW k \in Reaching, \A h \in Reaching : h <= k
          PROVE  k = g
      <4>1. k \in Nat /\ g \in Nat /\ k <= g /\ g <= k
        BY <1>1, <1>3, <3>1, ParametersAssumption DEF Reaching, Gens
      <4> QED
        BY <4>1
    <3> QED
      BY <3>1
  <2>2. (CHOOSE k \in Reaching : \A h \in Reaching : h <= k) = g
    BY <1>1, <1>3, <2>1
  <2>3. LastReached = stage[g]
    BY <1>1, <1>3, <2>2 DEF LastReached
  <2> QED
    BY <1>3, <2>3 DEF Leaves
<1> QED
  BY <1>1, <1>2, <1>3 DEF LeftByTheLast

\* At rest the runtime of a usable preview shows exactly the edits on record,
\* unless the last reload was refused or its promise rejected, and the model
\* is not left loading, unless the open was rejected: no apply, reset or
\* rollback is half done (applyReplacement, failResetWithRollback).
THEOREM RestIsSettled == Spec => []SettledAtRest
<1>1. IInv /\ (serial => SerialInv) => SettledAtRest
  BY AtRestFound DEF SettledAtRest, Leaves
<1> QED
  BY <1>1, InductiveInvariant, SerialInvariant, PTL

\* An accepted reset of one target keeps the edits of the others, although
\* the SVGA reset clears the whole record (resetReplacement).
THEOREM SiblingsAreKept == Spec => SiblingsSurvive
<1>1. IInv /\ IInv' /\ (serial => SerialInv) /\ [Next]_vars =>
        [ serial /\ TargetedReset =>
            \A u \in Targets \ {job'[gen'].target} :
              replacements'.edits[u] = replacements.edits[u] ]_vars
  BY StepSerial DEF KeepsSiblings
<1> QED
  BY <1>1, InductiveInvariant, SerialInvariant, PTL DEF Spec, SiblingsSurvive
=============================================================================
