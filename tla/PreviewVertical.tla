--------------------------- MODULE PreviewVertical ---------------------------
(***************************************************************************)
(* The Lottie and VAP preview verticals with their playback sessions       *)
(* (src/workbench/lottie-preview-vertical.ts, vap-preview-vertical.ts,     *)
(* lottie-svg-playback-adapter.ts, vap-web-playback-adapter.ts).           *)
(*                                                                         *)
(* A vertical reads and inspects a local file, prepares its resources (a   *)
(* VAP file is published under an object URL of the host), and loads it    *)
(* into a playback session, which itself waits for the runtime library     *)
(* before it mounts a player in the shared container.  A VAP session looks *)
(* at the request once more, awaits, and mounts without a further look.    *)
(* Public methods may be called at every await; an atomic step is the code *)
(* between two.                                                            *)
(*                                                                         *)
(* Simplifications: an open is its activeRequestGeneration; the awaits for *)
(* reading, probing and inspecting are one, as each only returns early;    *)
(* facts, issues and the playback record are left out; revoking a URL      *)
(* succeeds.                                                               *)
(***************************************************************************)
EXTENDS Naturals

CONSTANTS
  MaxGen,    \* bound on opens plus disposals in a behaviour
  MaxSess    \* bound on playback sessions ever created

ASSUME BoundsAssumption == MaxGen \in Nat /\ MaxSess \in Nat

VARIABLES
  format,    \* which of the two verticals this is; never changes
  gen,       \* activeRequestGeneration
  status,    \* model.status
  author,    \* the request for which the code that last set model.status ran
  stage,     \* stage[g]: the await where open g is suspended
  prepared,  \* the open that set this.prepared, 0 for undefined
  reopens,   \* VAP: lastInput is set
  url,       \* VAP: url[g]: the object URL made for open g
  session,   \* playbackSession, 0 for undefined
  owner,     \* owner[s]: the open playback session s was created for
  life,      \* life[s]: whether session s has a player mounted
  created,   \* number of playback sessions created so far
  loads,     \* sessions whose load is suspended
  mounting,  \* VAP: those of loads that have passed the last look
  answers,   \* answers[s]: result of a load the vertical has not seen yet
  plays      \* suspended play calls, as [sess, gen, ok] records

request == <<stage, prepared, reopens>>
players == <<session, owner, life, created, loads, mounting, answers>>
vars == <<format, gen, status, author, request, url, players, plays>>

Opens == 1 .. MaxGen
Sessions == 1 .. MaxSess

Status == {"idle", "loading", "inspectionReady", "ready", "playing", "paused",
           "playbackBlocked", "playbackFailed", "failed", "disposed"}

Usable == {"ready", "playing", "paused"}

\* A session mounted after it was disposed has a stray player.
WithPlayer == {"mounted", "stray"}

Lives == {"none", "empty", "disposed"} \cup WithPlayer

TypeOK ==
  /\ format \in {"lottie", "vap"}
  /\ gen \in 0 .. MaxGen
  /\ status \in Status
  /\ author \in 0 .. MaxGen
  /\ stage \in [Opens -> {"none", "reading", "resources", "done", "rejected"}]
  /\ prepared \in 0 .. MaxGen
  /\ reopens \in BOOLEAN
  /\ url \in [Opens -> {"none", "live", "revoked"}]
  /\ session \in 0 .. MaxSess
  /\ owner \in [Sessions -> 0 .. MaxGen]
  /\ life \in [Sessions -> Lives]
  /\ created \in 0 .. MaxSess
  /\ loads \subseteq Sessions
  /\ mounting \subseteq loads
  /\ answers \in [Sessions -> {"none", "value", "failed", "superseded"}]
  /\ plays \subseteq [sess : Sessions, gen : Opens, ok : BOOLEAN]

Init ==
  /\ format \in {"lottie", "vap"}
  /\ gen = 0
  /\ status = "idle"
  /\ author = 0
  /\ stage = [g \in Opens |-> "none"]
  /\ prepared = 0
  /\ reopens = FALSE
  /\ url = [g \in Opens |-> "none"]
  /\ session = 0
  /\ owner = [s \in Sessions |-> 0]
  /\ life = [s \in Sessions |-> "none"]
  /\ created = 0
  /\ loads = {}
  /\ mounting = {}
  /\ answers = [s \in Sessions |-> "none"]
  /\ plays = {}

-----------------------------------------------------------------------------
(* The checks made after an await.                                         *)

IsDisposed == status = "disposed"

\* Mutant: the generation is not compared.
AnyRequestIsActive(g) == ~IsDisposed

IsActiveRequest(g) == gen = g /\ ~IsDisposed

IsActivePlaybackSession(s, g) == session = s /\ IsActiveRequest(g)

-----------------------------------------------------------------------------
(* Effects.                                                                *)

SetStatus(new, g) == status' = new /\ author' = g

KeepStatus == UNCHANGED <<status, author>>

\* Destroying a player releases the object URL it was given.
Releasing(S) ==
  [g \in Opens |-> IF url[g] = "live" /\ g \in {owner[s] : s \in S}
                   THEN "revoked" ELSE url[g]]

Mounted(S) == {s \in S : life[s] \in WithPlayer}

\* Mutant: the player is destroyed, its URL kept.
DisposeKeepsUrl(S) ==
  /\ life' = [s \in Sessions |-> IF s \in S THEN "disposed" ELSE life[s]]
  /\ url' = url

\* dispose of playback sessions S.
DisposeSessions(S) ==
  /\ life' = [s \in Sessions |-> IF s \in S THEN "disposed" ELSE life[s]]
  /\ url' = Releasing(Mounted(S))

Current == {session} \ {0}

DisposePlaybackSession == session' = 0 /\ DisposeSessions(Current)

\* failPlaybackOperation and the end of a failed load.
FailPlayback ==
  /\ DisposePlaybackSession
  /\ SetStatus("playbackFailed", gen)
  /\ UNCHANGED <<format, gen, request, owner, created>>

\* playbackOperationFailed: there is no session to control.
Unavailable ==
  /\ SetStatus("playbackFailed", gen)
  /\ UNCHANGED <<format, gen, request, url, players, plays>>

-----------------------------------------------------------------------------
(* openLocalCandidate.                                                     *)

BeginOpenRequest ==
  /\ gen < MaxGen
  /\ gen' = gen + 1
  /\ DisposePlaybackSession
  /\ prepared' = 0
  /\ UNCHANGED <<format, owner, created, loads, mounting, answers, plays>>

OpenRefused ==
  /\ BeginOpenRequest
  /\ SetStatus("failed", gen + 1)
  /\ stage' = [stage EXCEPT ![gen + 1] = "done"]
  /\ UNCHANGED reopens

OpenLocalCandidate ==
  /\ BeginOpenRequest
  /\ SetStatus("loading", gen + 1)
  /\ stage' = [stage EXCEPT ![gen + 1] = "reading"]
  /\ reopens' = (format = "vap")

At(g, from, to) == stage[g] = from /\ stage' = [stage EXCEPT ![g] = to]

Superseded(g) ==
  /\ ~IsActiveRequest(g)
  /\ \E from \in {"reading", "resources"} : At(g, from, "done")
  /\ IF stage[g] = "resources" /\ format = "vap"
     THEN url' \in {url, [url EXCEPT ![g] = "revoked"]}
     ELSE UNCHANGED url
  /\ KeepStatus
  /\ UNCHANGED <<format, gen, prepared, reopens, players, plays>>

\* The file cannot be read, is of another format, or cannot be played.
ReadFailed(g) ==
  /\ IsActiveRequest(g)
  /\ At(g, "reading", "done")
  /\ SetStatus("failed", g) \/ SetStatus("playbackBlocked", g)
  /\ UNCHANGED <<format, gen, prepared, reopens, url, players, plays>>

Inspected(g) ==
  /\ IsActiveRequest(g)
  /\ At(g, "reading", "resources")
  /\ SetStatus("inspectionReady", g)
  /\ UNCHANGED <<format, gen, prepared, reopens, url, players, plays>>

\* A Lottie image is missing; the host cannot make an object URL, which
\* rejects the promise of the open.
ResourcesFailed(g) ==
  /\ IsActiveRequest(g)
  /\ \/ /\ format = "lottie"
        /\ At(g, "resources", "done")
        /\ SetStatus("playbackBlocked", g)
     \/ /\ format = "vap"
        /\ At(g, "resources", "rejected")
        /\ KeepStatus
  /\ UNCHANGED <<format, gen, prepared, reopens, url, players, plays>>

\* loadPreparedPlayback up to the await of the runtime library.
StartLoad(g) ==
  /\ created < MaxSess
  /\ created' = created + 1
  /\ session' = created + 1
  /\ owner' = [owner EXCEPT ![created + 1] = g]
  /\ loads' = loads \cup {created + 1}

ResourcesReady(g) ==
  /\ IsActiveRequest(g)
  /\ At(g, "resources", "done")
  /\ prepared' = g
  /\ StartLoad(g)
  /\ life' = [life EXCEPT ![created + 1] = "empty"]
  /\ url' = IF format = "vap" THEN [url EXCEPT ![g] = "live"] ELSE url
  /\ KeepStatus
  /\ UNCHANGED <<format, gen, reopens, mounting, answers, plays>>

-----------------------------------------------------------------------------
(* PlaybackSession.load, resumed when the runtime library is there or not. *)

Answer(s, a) ==
  /\ s \in loads
  /\ loads' = loads \ {s}
  /\ mounting' = mounting \ {s}
  /\ answers' = [answers EXCEPT ![s] = a]
  /\ KeepStatus
  /\ UNCHANGED <<format, gen, request, session, owner, created, plays>>

\* Mutant: the player is mounted whatever happened during the await.
MountsAlways(s) == TRUE

\* What both adapters look at when the library is there: the cancellation
\* of the request, and whether the session was disposed.
MayMount(s) == IsActiveRequest(owner[s]) /\ life[s] # "disposed"

\* VAP awaits its last look, throwIfCancelledAndRelease, and goes on later.
LastLook(s) ==
  /\ format = "vap"
  /\ s \in loads \ mounting
  /\ MayMount(s)
  /\ mounting' = mounting \cup {s}
  /\ KeepStatus
  /\ UNCHANGED <<format, gen, request, url, session, owner, life, created,
                 loads, answers, plays>>

\* Lottie looks and mounts in one turn; VAP mounts what passed its look,
\* also when it has been disposed since.
Mount(s) ==
  /\ \/ format = "lottie" /\ MayMount(s)
     \/ format = "vap" /\ s \in mounting
  /\ Answer(s, "value")
  /\ life' = [life EXCEPT ![s] =
                IF @ = "disposed" THEN "stray" ELSE "mounted"]
  /\ UNCHANGED url

\* The library is missing, a look stops the load, or the constructor throws.
NotMounted(s) ==
  /\ Answer(s, IF IsActiveRequest(owner[s]) THEN "failed" ELSE "superseded")
  /\ url' = Releasing({s})
  /\ UNCHANGED life

\* Mutant: a load that ended early is not reported.
OnlyFailuresAnswer(s) == answers[s] = "failed"

Answered(s) == answers[s] # "none"

\* The rest of loadPreparedPlayback.
LoadAnswered(s) ==
  /\ Answered(s)
  /\ answers' = [answers EXCEPT ![s] = "none"]
  /\ UNCHANGED <<loads, mounting, plays>>
  /\ \/ /\ ~IsActivePlaybackSession(s, owner[s]) \/ prepared # owner[s]
        /\ DisposeSessions({s})
        /\ KeepStatus
        /\ UNCHANGED <<format, gen, request, session, owner, created>>
     \/ /\ IsActivePlaybackSession(s, owner[s]) /\ prepared = owner[s]
        /\ \/ answers[s] = "failed" /\ FailPlayback
           \/ /\ answers[s] = "value"
              /\ SetStatus("ready", owner[s])
              /\ UNCHANGED <<format, gen, request, url, session, owner, life,
                             created>>

\* The runtime reports an error: the player goes, the vertical is not told.
\* A stray player is of an older generation of its session and stays.
RuntimeError(s) ==
  /\ life[s] = "mounted"
  /\ life' = [life EXCEPT ![s] = "empty"]
  /\ url' = Releasing({s})
  /\ KeepStatus
  /\ UNCHANGED <<format, gen, request, session, owner, created, loads,
                 mounting, answers, plays>>

-----------------------------------------------------------------------------
(* Controls.                                                               *)

HasSession == session # 0

\* The runtime may throw at any call, and a session without a player throws.
Play ==
  /\ ~IsDisposed
  /\ \/ ~HasSession /\ Unavailable
     \/ /\ HasSession
        /\ \E ok \in BOOLEAN :
             /\ ok => session \in Mounted(Sessions)
             /\ plays' = plays \cup {[sess |-> session, gen |-> gen, ok |-> ok]}
        /\ KeepStatus
        /\ UNCHANGED <<format, gen, request, url, players>>

PlaySettled(p) ==
  /\ p \in plays
  /\ plays' = plays \ {p}
  /\ UNCHANGED <<loads, mounting, answers>>
  /\ IF ~IsActivePlaybackSession(p.sess, p.gen)
     THEN KeepStatus /\ UNCHANGED <<format, gen, request, url, session, owner,
                                    life, created>>
     ELSE IF p.ok
     THEN SetStatus("playing", p.gen)
            /\ UNCHANGED <<format, gen, request, url, session, owner, life,
                           created>>
     ELSE FailPlayback

\* pause, seek and setLoop: synchronous; only pause needs no player.
Control ==
  /\ ~IsDisposed
  /\ \/ ~HasSession /\ Unavailable
     \/ /\ HasSession
        /\ SetStatus("paused", gen) \/ KeepStatus
        /\ UNCHANGED <<format, gen, request, url, players, plays>>
     \/ HasSession /\ FailPlayback
          /\ UNCHANGED <<loads, mounting, answers, plays>>

\* VAP opens its last input again; Lottie reloads what it has prepared.
RecoverPlayback ==
  /\ ~IsDisposed
  /\ \/ format = "vap" /\ ~reopens /\ Unavailable
     \/ format = "vap" /\ reopens /\ OpenLocalCandidate
     \/ format = "lottie" /\ prepared = 0 /\ Unavailable
     \/ /\ format = "lottie" /\ prepared # 0
        /\ StartLoad(gen)
        /\ life' = [s \in Sessions |->
             IF s = created + 1 THEN "empty"
             ELSE IF s \in Current THEN "disposed" ELSE life[s]]
        /\ KeepStatus
        /\ UNCHANGED <<format, gen, request, url, mounting, answers, plays>>

Dispose ==
  /\ BeginOpenRequest
  /\ SetStatus("disposed", gen + 1)
  /\ UNCHANGED <<stage, reopens>>

-----------------------------------------------------------------------------
(* Specification.                                                          *)

OpenStep(g) ==
  \/ Superseded(g) \/ ReadFailed(g) \/ Inspected(g)
  \/ ResourcesFailed(g) \/ ResourcesReady(g)

LoadStep(s) == LastLook(s) \/ Mount(s) \/ NotMounted(s) \/ LoadAnswered(s)

Next ==
  \/ OpenRefused \/ OpenLocalCandidate
  \/ \E g \in Opens : OpenStep(g)
  \/ \E s \in Sessions : LoadStep(s) \/ RuntimeError(s)
  \/ Play \/ \E p \in plays : PlaySettled(p)
  \/ Control \/ RecoverPlayback \/ Dispose

Spec == Init /\ [][Next]_vars

\* The host answers every read, the import of the runtime library ends, and
\* the event loop runs each continuation.  What the user does is not fair.
Fairness ==
  /\ \A g \in Opens : WF_vars(OpenStep(g))
  /\ \A s \in Sessions : WF_vars(LoadStep(s))

FairSpec == Spec /\ Fairness

-----------------------------------------------------------------------------
(* Properties.                                                             *)

\* A player is in the container for the newest open only and under the
\* session the vertical refers to.  The one exception is the player of a VAP
\* session disposed between its last look and its mount, which stays no
\* longer than until the vertical sees the answer of its load.
PlayerIsCurrent ==
  \A s \in Mounted(Sessions) :
    \/ s = session /\ owner[s] = gen /\ prepared = gen
    \/ format = "vap" /\ s # session /\ answers[s] = "value"

\* While the model offers controls there is a session for them, and it was
\* made for the newest open.
UsableIsHeld ==
  status \in Usable => session # 0 /\ owner[session] = gen

\* The model and the player that stays on screen are the newest open's.
PlaybackIsCurrent == PlayerIsCurrent /\ UsableIsHeld

\* An object URL lives exactly as long as somebody needs it: a load that will
\* use it or a player that does, and no player runs on a revoked one.
UrlsAccounted ==
  \A g \in Opens :
    url[g] = "live" <=>
      /\ format = "vap"
      /\ \E s \in Sessions :
           owner[s] = g /\ (s \in loads \/ life[s] \in WithPlayer)

\* The newest open does not stay unfinished, unless its promise is rejected.
OpenSettles ==
  \A g \in Opens :
    (gen = g /\ status \in {"loading", "inspectionReady"})
      ~> \/ gen # g \/ stage[g] = "rejected"
         \/ status \notin {"loading", "inspectionReady"}

\* The vertical keeps the promise of LatestRequestPreview.
Contract == INSTANCE LatestRequestPreview
              WITH newest <- gen, view <- [of |-> author, status |-> status]

RefinesContract == Contract!Spec
=============================================================================
