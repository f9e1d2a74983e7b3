-------------------------- MODULE PreviewWorkspace --------------------------
(***************************************************************************)
(* The multi-format preview workspace session                              *)
(* (src/workbench/multiformat-preview-workspace.ts).                       *)
(*                                                                         *)
(* One session object serves the shell.  Every public method may be called *)
(* while earlier asynchronous methods are suspended at an `await`, so the  *)
(* atomic steps below are the runs of code between two awaits.  An open is *)
(* identified by the value it gave activeRequestGeneration.                *)
(*                                                                         *)
(* Simplifications: the Lottie and VAP verticals are one kind of delegate  *)
(* whose answers are arbitrary; the model's facts, issues and playback     *)
(* record are left out; a delegate's answer and the copy of its model into *)
(* the workspace model are one step (they are consecutive microtasks);     *)
(* concurrent calls of one kind on one child are told apart only by the    *)
(* child they are suspended on.                                            *)
(***************************************************************************)
EXTENDS Naturals

CONSTANTS
  MaxGen,    \* bound on opens plus disposals in a behaviour
  MaxSess    \* bound on SVGA playback sessions ever created

ASSUME BoundsAssumption == MaxGen \in Nat /\ MaxSess \in Nat

VARIABLES
  adapter,   \* whether an SVGA playback adapter is configured; never changes
  gen,       \* activeRequestGeneration
  status,    \* model.status
  author,    \* the request for which the code that last set model.status ran
  stage,     \* stage[g]: the await where openLocalCandidate call g is suspended
  delegate,  \* generation of activeDelegate, 0 for undefined
  vertical,  \* vertical[g]: life of the vertical session that open g created
  calls,     \* suspended delegate play / recover calls, as <<kind, g>>
  svga,      \* svgaPlaybackSession, 0 for undefined
  prepared,  \* the open that set svgaPrepared, 0 for undefined
  sess,      \* sess[s]: life of SVGA playback session s
  created,   \* number of SVGA playback sessions created so far
  loads,     \* suspended loadSvgaPlayback calls, as [sess, gen] records
  plays      \* suspended SVGA play calls, as [sess, gen] records

children == <<delegate, vertical, svga, sess, prepared>>
pending == <<calls, loads, plays>>
vars == <<adapter, gen, status, author, stage, children, created, pending>>

Opens == 1 .. MaxGen
Sessions == 1 .. MaxSess

Status == {"idle", "loading", "inspectionReady", "ready", "playing", "paused",
           "playbackBlocked", "playbackFailed", "failed", "disposed"}

\* The statuses mapLottieModel and mapVapModel can copy from a live vertical.
VerticalStatus == Status \ {"idle", "disposed"}

Usable == {"ready", "playing", "paused"}

\* "done": the open has returned, or has handed over to a member of loads;
\* "rejected": its promise was rejected.
Stage == {"none", "source", "probe", "parse", "delegate", "done", "rejected"}

Call == [sess : Sessions, gen : Opens]

TypeOK ==
  /\ adapter \in BOOLEAN
  /\ gen \in 0 .. MaxGen
  /\ status \in Status
  /\ author \in 0 .. MaxGen
  /\ stage \in [Opens -> Stage]
  /\ delegate \in 0 .. MaxGen
  /\ vertical \in [Opens -> {"none", "live", "disposed"}]
  /\ calls \subseteq ({"play", "recover"} \X Opens)
  /\ svga \in 0 .. MaxSess
  /\ prepared \in 0 .. MaxGen
  /\ sess \in [Sessions -> {"none", "live", "disposed"}]
  /\ created \in 0 .. MaxSess
  /\ loads \subseteq Call
  /\ plays \subseteq Call

Init ==
  /\ adapter \in BOOLEAN
  /\ gen = 0
  /\ status = "idle"
  /\ author = 0
  /\ stage = [g \in Opens |-> "none"]
  /\ delegate = 0
  /\ vertical = [g \in Opens |-> "none"]
  /\ calls = {}
  /\ svga = 0
  /\ prepared = 0
  /\ sess = [s \in Sessions |-> "none"]
  /\ created = 0
  /\ loads = {}
  /\ plays = {}

-----------------------------------------------------------------------------
(* The checks made after an await, and the disposal of child sessions.     *)

IsDisposed == status = "disposed"

IsActiveRequest(g) == gen = g /\ ~IsDisposed

IsActiveDelegate(g) == delegate = g /\ IsActiveRequest(g)

\* Mutant: the request is compared, the session is not.
AnySessionIsActive(s, g) == IsActiveRequest(g)

IsActiveSvgaPlaybackSession(s, g) == svga = s /\ IsActiveRequest(g)

\* Mutant: the reference is dropped and the vertical left running.
ForgetActiveDelegate == UNCHANGED vertical /\ delegate' = 0

DisposeActiveDelegate ==
  /\ vertical' = [g \in Opens |-> IF g = delegate THEN "disposed" ELSE vertical[g]]
  /\ delegate' = 0

DisposeSvgaPlaybackSession ==
  /\ sess' = [s \in Sessions |-> IF s = svga THEN "disposed" ELSE sess[s]]
  /\ svga' = 0

Supersede ==
  /\ gen < MaxGen
  /\ gen' = gen + 1
  /\ DisposeActiveDelegate
  /\ DisposeSvgaPlaybackSession
  /\ prepared' = 0

\* The model's status is set by code that runs for request g.
SetModel(g, s) == status' = s /\ author' = g

At(g, s) == stage' = [stage EXCEPT ![g] = s]

-----------------------------------------------------------------------------
(* openLocalCandidate.                                                     *)

\* The input is incomplete: the model becomes a bare failedModel.
RejectOpenInput ==
  /\ Supersede
  /\ SetModel(gen + 1, "failed")
  /\ At(gen + 1, "done")
  /\ UNCHANGED <<adapter, created, pending>>

OpenLocalCandidate ==
  /\ Supersede
  /\ SetModel(gen + 1, "loading")
  /\ At(gen + 1, "source")
  /\ UNCHANGED <<adapter, created, pending>>

\* Mutant: an open that fails returns without setting the model.
LeaveSilently(g, outcomes) ==
  /\ At(g, "done")
  /\ UNCHANGED <<adapter, gen, status, author, children, created, pending>>

\* The open returns without a child: it was superseded, or failed.
Leave(g, outcomes) ==
  /\ At(g, "done")
  /\ IF IsActiveRequest(g)
       THEN \E s \in outcomes : SetModel(g, s)
       ELSE UNCHANGED <<status, author>>
  /\ UNCHANGED <<adapter, gen, children, created, pending>>

\* createBoundedSource answers; it catches every host error itself.
SourceRead(g) ==
  /\ stage[g] = "source"
  /\ \/ Leave(g, {"failed"})
     \/ /\ IsActiveRequest(g)
        /\ At(g, "probe")
        /\ UNCHANGED <<adapter, gen, status, author, children, created, pending>>

\* The probe answers: the format is unusable (or its target or adapter is
\* not configured), or the asset is SVGA, or a vertical takes over.
OpenVertical(g) ==
  /\ delegate' = g
  /\ vertical' = [vertical EXCEPT ![g] = "live"]
  /\ At(g, "delegate")
  /\ UNCHANGED <<adapter, gen, status, author, svga, sess, prepared, created,
                 pending>>

ProbeAnswered(g) ==
  /\ stage[g] = "probe"
  /\ \/ Leave(g, {"failed", "playbackBlocked"})
     \/ /\ IsActiveRequest(g)
        /\ At(g, "parse")
        /\ UNCHANGED <<adapter, gen, status, author, children, created, pending>>
     \/ IsActiveRequest(g) /\ OpenVertical(g)

\* A superseded probe throws: the caller's promise is rejected.
ProbeSuperseded(g) ==
  /\ stage[g] = "probe"
  /\ ~IsActiveRequest(g)
  /\ At(g, "rejected")
  /\ UNCHANGED <<adapter, gen, status, author, children, created, pending>>

\* A vertical's status can be "loading" only while some open or recovery of
\* it is still suspended.
VerticalAnswers(g, opening, others) ==
  IF opening \/ <<"recover", g>> \in others
    THEN VerticalStatus
    ELSE VerticalStatus \ {"loading"}

\* The vertical's openLocalCandidate answers and its model is copied.
VerticalOpened(g) ==
  /\ stage[g] = "delegate"
  /\ At(g, "done")
  /\ IF IsActiveDelegate(g)
       THEN \E s \in VerticalAnswers(g, FALSE, calls) : SetModel(g, s)
       ELSE UNCHANGED <<status, author>>
  /\ UNCHANGED <<adapter, gen, children, created, pending>>

\* The vertical's openLocalCandidate rejects (the VAP host could not create
\* an object URL): nobody sets the model.
VerticalRejected(g) ==
  /\ stage[g] = "delegate"
  /\ At(g, "rejected")
  /\ UNCHANGED <<adapter, gen, status, author, children, created, pending>>

-----------------------------------------------------------------------------
(* SVGA inspection and playback.                                           *)

\* createSession and the start of load, for the active request g.
LoadSvgaPlayback(g) ==
  /\ created < MaxSess
  /\ created' = created + 1
  /\ svga' = created + 1
  /\ loads' = loads \cup {[sess |-> created + 1, gen |-> g]}

\* The adapter's parse answers; when it rejects, so does the caller's promise.
SvgaParsed(g) ==
  /\ stage[g] = "parse"
  /\ \/ Leave(g, {"failed"})
     \/ /\ At(g, "rejected")
        /\ UNCHANGED <<adapter, gen, status, author, children, created, pending>>
     \/ /\ IsActiveRequest(g)
        /\ ~adapter
        /\ prepared' = g
        /\ SetModel(g, "playbackBlocked")
        /\ At(g, "done")
        /\ UNCHANGED <<adapter, gen, delegate, vertical, svga, sess, created,
                       pending>>
     \/ /\ IsActiveRequest(g)
        /\ adapter
        /\ prepared' = g
        /\ SetModel(g, "inspectionReady")
        /\ At(g, "done")
        /\ LoadSvgaPlayback(g)
        /\ sess' = [sess EXCEPT ![created + 1] = "live"]
        /\ UNCHANGED <<adapter, gen, delegate, vertical, calls, plays>>

\* The load of session l.sess answers; only the session that is still the
\* active one, of the active request and for its own preparation, may speak.
LoadIsCurrent(l) ==
  IsActiveSvgaPlaybackSession(l.sess, l.gen) /\ prepared = l.gen

LoadSettled(l) ==
  /\ loads' = loads \ {l}
  /\ \/ /\ LoadIsCurrent(l)
        /\ SetModel(l.gen, "ready")
        /\ UNCHANGED <<svga, sess>>
     \/ /\ LoadIsCurrent(l)
        /\ SetModel(l.gen, "playbackFailed")
        /\ DisposeSvgaPlaybackSession
     \/ /\ ~LoadIsCurrent(l)
        /\ sess' = [sess EXCEPT ![l.sess] = "disposed"]
        /\ UNCHANGED <<status, author, svga>>
  /\ UNCHANGED <<adapter, gen, stage, delegate, vertical, prepared, created,
                 calls, plays>>

-----------------------------------------------------------------------------
(* Controls.                                                               *)

\* The answer of vertical g to a control is copied if it is still active;
\* others are the calls that stay suspended.
CopyVertical(g, others) ==
  IF IsActiveDelegate(g)
    THEN \E s \in VerticalAnswers(g, stage[g] = "delegate", others) :
           SetModel(g, s)
    ELSE UNCHANGED <<status, author>>

PlaybackOperationFailed ==
  /\ SetModel(gen, "playbackFailed")
  /\ UNCHANGED <<adapter, gen, stage, children, created, pending>>

\* pause, seek and setLoop run to their end without an await.
Control(shows) ==
  /\ ~IsDisposed
  /\ \/ /\ delegate # 0
        /\ CopyVertical(delegate, calls)
        /\ UNCHANGED <<adapter, gen, stage, children, created, pending>>
     \/ delegate = 0 /\ svga = 0 /\ PlaybackOperationFailed
     \/ /\ delegate = 0
        /\ svga # 0
        /\ \/ SetModel(gen, shows) /\ UNCHANGED <<svga, sess>>
           \/ SetModel(gen, "playbackFailed") /\ DisposeSvgaPlaybackSession
        /\ UNCHANGED <<adapter, gen, stage, delegate, vertical, prepared,
                       created, pending>>

PauseOrSeek == Control("paused")

SetLoop == Control(status)

Play ==
  /\ ~IsDisposed
  /\ \/ /\ delegate # 0
        /\ calls' = calls \cup {<<"play", delegate>>}
        /\ UNCHANGED <<adapter, gen, status, author, stage, children, created,
                       loads, plays>>
     \/ delegate = 0 /\ svga = 0 /\ PlaybackOperationFailed
     \/ /\ delegate = 0
        /\ svga # 0
        /\ plays' = plays \cup {[sess |-> svga, gen |-> gen]}
        /\ UNCHANGED <<adapter, gen, status, author, stage, children, created,
                       loads, calls>>

\* The play of an SVGA session answers or throws.
SvgaPlayed(p) ==
  /\ plays' = plays \ {p}
  /\ IF IsActiveSvgaPlaybackSession(p.sess, p.gen)
       THEN \/ SetModel(p.gen, "playing") /\ UNCHANGED <<svga, sess>>
            \/ SetModel(p.gen, "playbackFailed") /\ DisposeSvgaPlaybackSession
       ELSE UNCHANGED <<status, author, svga, sess>>
  /\ UNCHANGED <<adapter, gen, stage, delegate, vertical, prepared, created,
                 calls, loads>>

RecoverPlayback ==
  /\ ~IsDisposed
  /\ \/ /\ delegate # 0
        /\ calls' = calls \cup {<<"recover", delegate>>}
        /\ UNCHANGED <<adapter, gen, status, author, stage, children, created,
                       loads, plays>>
     \/ delegate = 0 /\ prepared = 0 /\ PlaybackOperationFailed
     \/ /\ delegate = 0
        /\ prepared # 0
        /\ adapter
        /\ LoadSvgaPlayback(gen)
        /\ sess' = [s \in Sessions |->
                      IF s = svga THEN "disposed"
                      ELSE IF s = created + 1 THEN "live" ELSE sess[s]]
        /\ UNCHANGED <<adapter, gen, status, author, stage, delegate, vertical,
                       prepared, calls, plays>>

\* A vertical's play or recoverPlayback answers.
VerticalCallSettled(c) ==
  /\ calls' = calls \ {c}
  /\ CopyVertical(c[2], calls \ {c})
  /\ UNCHANGED <<adapter, gen, stage, children, created, loads, plays>>

\* Mutant: the session is disposed under the old generation.
DisposeKeepingGeneration ==
  /\ DisposeActiveDelegate
  /\ DisposeSvgaPlaybackSession
  /\ prepared' = 0
  /\ SetModel(gen, "disposed")
  /\ UNCHANGED <<adapter, gen, stage, created, pending>>

DisposeWorkspace ==
  /\ Supersede
  /\ SetModel(gen + 1, "disposed")
  /\ UNCHANGED <<adapter, stage, created, pending>>

-----------------------------------------------------------------------------

OpenStep(g) ==
  \/ SourceRead(g) \/ ProbeAnswered(g) \/ ProbeSuperseded(g)
  \/ VerticalOpened(g) \/ VerticalRejected(g) \/ SvgaParsed(g)

Next ==
  \/ RejectOpenInput \/ OpenLocalCandidate \/ DisposeWorkspace
  \/ \E g \in Opens : OpenStep(g)
  \/ \E l \in loads : LoadSettled(l)
  \/ PauseOrSeek \/ SetLoop \/ Play \/ RecoverPlayback
  \/ \E p \in plays : SvgaPlayed(p)
  \/ \E c \in calls : VerticalCallSettled(c)

Spec == Init /\ [][Next]_vars

\* Every suspended open, load and delegate call is resumed in the end: the host answers
\* each read, and the event loop runs each continuation.  Controls and new
\* opens are the user's and are not fair.
FairSpec ==
  /\ Spec
  /\ \A g \in Opens : WF_vars(OpenStep(g))
  /\ \A s \in Sessions, g \in Opens :
       WF_vars([sess |-> s, gen |-> g] \in loads
                 /\ LoadSettled([sess |-> s, gen |-> g]))
  /\ \A c \in {"play", "recover"} \X Opens :
       WF_vars(c \in calls /\ VerticalCallSettled(c))

-----------------------------------------------------------------------------
(* Properties.                                                             *)

\* The status on view was set on behalf of the newest request: no open,
\* load, play or delegate call that was overtaken ever writes the model.
NewestWins == author = gen

\* At most one child session is live, and it is the one the workspace
\* refers to: no superseded vertical or SVGA player outlives its open.
OneLiveChild ==
  /\ \A g \in Opens : vertical[g] = "live" => delegate = g
  /\ \A s \in Sessions : sess[s] = "live" => svga = s
  /\ delegate = 0 \/ svga = 0

\* While the model offers a usable preview, a live child of the newest
\* request is there to be controlled.
UsableHasChild ==
  status \in Usable =>
    \/ delegate = gen /\ delegate \in Opens /\ vertical[delegate] = "live"
    \/ svga \in Sessions /\ sess[svga] = "live" /\ prepared = gen

\* Recovery reloads the SVGA source of the newest open, never an older one.
PreparedIsCurrent == prepared \in {0, gen}

\* No late answer brings a disposed workspace back: only a new open does.
DisposedUntilReopened ==
  [][status = "disposed" /\ status' # "disposed" => gen' > gen]_vars

\* The newest open does not stay "loading" for ever, unless its promise was
\* rejected and the caller told.
OpenSettles ==
  \A g \in Opens :
    (gen = g /\ status = "loading" /\ stage[g] # "rejected")
      ~> (gen # g \/ status # "loading" \/ stage[g] = "rejected")

\* The workspace keeps the promise of LatestRequestPreview.
Contract == INSTANCE LatestRequestPreview
              WITH newest <- gen, view <- [of |-> author, status |-> status]

RefinesContract == Contract!Spec
=============================================================================
