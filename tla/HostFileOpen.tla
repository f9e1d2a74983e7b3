---------------------------- MODULE HostFileOpen ----------------------------
(***************************************************************************)
(* Opening a file across the two processes of the desktop host             *)
(* (tools/electron-prototype/experiments/svga-web): the main process with  *)
(* its queue of macOS open-file events (main.cjs) and the session that     *)
(* owns the preview (multiformat-desktop-session.cjs), and the renderer    *)
(* that decides what is shown (web/multiformat-desktop-preview-controller, *)
(* web/short-term-macos-file-surface for SVGA).                            *)
(*                                                                         *)
(* The processes share nothing.  Calls and answers travel in order, one    *)
(* channel each way.  A source is one open of one file: the session names  *)
(* it by path and request, here by the request's number n, with the event  *)
(* it answers in by (0: the user asked in the renderer).                   *)
(*                                                                         *)
(* Simplifications: the .aep handoff counts as a refused open (it leaves   *)
(* neither side a source); a drop and a recent file are one request by     *)
(* path; a drop without a path, play, pause and replacement calls, and a   *)
(* reload of the window (the application has no command for one) are left  *)
(* out.                                                                    *)
(***************************************************************************)
EXTENDS Naturals, Sequences, FiniteSets

CONSTANTS
  Files,        \* files that can be opened
  Svga,         \* those shown by the SVGA workflow, which loads them itself
  Broken,       \* SVGA files the session accepts and the renderer may not play
  MaxEvents,    \* bound on open-file events
  MaxRequests,  \* bound on requests after which the user asks no more
  Uses          \* what else may happen: the open dialog, closing a file, a recent
                \* file that is gone

ASSUME ParametersAssumption ==
  /\ "none" \notin Files
  /\ Svga \subseteq Files /\ Broken \subseteq Svga
  /\ MaxEvents \in Nat /\ MaxRequests \in Nat
  /\ Uses \subseteq {"dialog", "close", "gone"}

VARIABLES
  host,     \* main process: queue, events, ready, at, results, staged, ...
  session,  \* the session: latest, active, opens in flight, open pickers
  view,     \* renderer: request, event, shown, model, svga, loading, ...
  work,     \* renderer: opens being loaded or committed
  toMain,   \* calls and answers on their way to the main process
  toView,   \* calls and answers on their way to the renderer
  seen,     \* auxiliary: every source that was ever shown
  user      \* what happens besides opening files by path

vars == <<host, session, view, work, toMain, toView, seen, user>>

NoSource == [n |-> 0, file |-> "none", by |-> 0]
Source == [n : Nat, file : Files, by : 0 .. MaxEvents] \cup {NoSource}

\* What an open answers: "source" with authority over the session, "model" an
\* accepted model that lost it to a newer open, "refused" a failed open,
\* "unopened" a failure before the session was asked.
Outcome == {"source", "model", "refused", "unopened"}
Result == [src : Source, ok : Outcome]
Refused == [src |-> NoSource, ok |-> "refused"]
Unopened == [src |-> NoSource, ok |-> "unopened"]

\* id is an event or a renderer request.
Message(type, id, result) == [type |-> type, id |-> id, result |-> result]
Signal(type, id) == <<Message(type, id, Refused)>>

ToMainType == {"authorized", "denied", "begun", "consume", "accepted",
               "rejected", "open", "recent", "choose", "commit",
               "dispose", "close"}
ToViewType == {"authorize", "begin", "complete", "consumed", "answered",
               "cancelled", "committed", "uncommitted", "closed"}

TypeOK ==
  /\ host \in [queue : Seq([id : 1 .. MaxEvents, file : Files]),
               events : 0 .. MaxEvents, ready : BOOLEAN,
               at : {"idle", "authorize", "begin", "open", "complete"},
               results : SUBSET [id : 1 .. MaxEvents, result : Result],
               tried : 0 .. MaxEvents,
               staged : SUBSET Source, recent : SUBSET Source]
  /\ session \in [latest : Nat, active : Source,
                  opens : SUBSET [src : Source, caller : Nat],
                  pickers : SUBSET Nat]
  /\ view \in [request : Nat, event : 0 .. MaxEvents, eventRequest : Nat,
               shown : Source, model : Source, player : Source,
               svga : BOOLEAN, loading : BOOLEAN, asking : BOOLEAN,
               calls : SUBSET [id : Nat, picker : BOOLEAN]]
  /\ work \subseteq [src : Source, event : 0 .. MaxEvents, held : BOOLEAN,
                     at : {"inspect", "mount", "commit"}, fresh : BOOLEAN]
  /\ toMain \in Seq([type : ToMainType, id : Nat, result : Result])
  /\ toView \in Seq([type : ToViewType, id : Nat, result : Result])
  /\ seen \subseteq Source
  /\ user \subseteq Uses

Init ==
  /\ host = [queue |-> <<>>, events |-> 0, ready |-> FALSE, at |-> "idle",
             results |-> {}, tried |-> 0, staged |-> {}, recent |-> {}]
  /\ session = [latest |-> 0, active |-> NoSource, opens |-> {},
                pickers |-> {}]
  /\ view = [request |-> 0, event |-> 0, eventRequest |-> 0,
             shown |-> NoSource, model |-> NoSource, player |-> NoSource,
             svga |-> FALSE, loading |-> FALSE, asking |-> FALSE, calls |-> {}]
  /\ work = {}
  /\ toMain = <<>> /\ toView = <<>>
  /\ seen = {}
  /\ user \in {{}, Uses}

MainReceives(type, answer) ==
  /\ toMain # <<>> /\ Head(toMain).type = type
  /\ toMain' = Tail(toMain)
  /\ toView' = toView \o answer

ViewReceives(type, answer) ==
  /\ toView # <<>> /\ Head(toView).type = type
  /\ toView' = Tail(toView)
  /\ toMain' = toMain \o answer

-----------------------------------------------------------------------------
(* The main process: the queue of open-file events *)

\* The flush loop looks at the head, which stays in the queue until its
\* dispatch has succeeded; at # "idle" stands for the flush-active flag.
\* tried (auxiliary) is the head whose dispatch failed and ended the loop.
Flushes(h) == h.ready /\ h.queue # <<>>

Flush(h) ==
  [h EXCEPT !.at = IF Flushes(h) THEN "authorize" ELSE "idle", !.tried = 0]

FirstCall(h) ==
  IF Flushes(h) THEN Signal("authorize", Head(h.queue).id) ELSE <<>>

\* The event of a file that is already queued is dropped, and nothing flushed.
IsQueued(file) == \E i \in DOMAIN host.queue : host.queue[i].file = file

OpenFileEvent(file) ==
  /\ host.events < MaxEvents
  /\ ~IsQueued(file)
  /\ LET event == [id |-> host.events + 1, file |-> file]
         h == [host EXCEPT !.events = @ + 1, !.queue = Append(@, event)]
     IN IF host.at = "idle"
        THEN /\ host' = Flush(h)
             /\ toView' = toView \o FirstCall(h)
        ELSE /\ host' = h
             /\ UNCHANGED toView
  /\ UNCHANGED <<session, view, work, toMain, seen>>

\* Mutant: the ready call does not flush what was queued before it.
ReadyWithoutFlush ==
  /\ ~host.ready
  /\ host' = [host EXCEPT !.ready = TRUE]
  /\ UNCHANGED <<session, view, work, toMain, toView, seen>>

RendererReady ==
  /\ ~host.ready
  /\ LET h == [host EXCEPT !.ready = TRUE]
     IN /\ host' = Flush(h)
        /\ toView' = toView \o FirstCall(h)
  /\ UNCHANGED <<session, view, work, toMain, seen>>

\* The dispatch of the head has succeeded, and the loop goes on.
Consumed(h) == [h EXCEPT !.queue = Tail(@)]

EventDenied ==
  /\ MainReceives("denied", FirstCall(Consumed(host)))
  /\ host' = Flush(Consumed(host))
  /\ UNCHANGED <<session, view, work, seen>>

EventAuthorized ==
  /\ MainReceives("authorized", Signal("begin", Head(host.queue).id))
  /\ host' = [host EXCEPT !.at = "begin"]
  /\ UNCHANGED <<session, view, work, seen>>

\* openMultiFormatFilePath: every open forgets what was staged for Recent.
OpenPath(file, event, caller) ==
  LET n == session.latest + 1
      src == [n |-> n, file |-> file, by |-> event]
  IN [session EXCEPT !.latest = n,
                     !.opens = @ \cup {[src |-> src, caller |-> caller]},
                     !.pickers = @ \ {caller}]

EventBegun ==
  /\ MainReceives("begun", <<>>)
  /\ host' = [host EXCEPT !.at = "open", !.staged = {}]
  /\ session' = OpenPath(Head(host.queue).file, Head(host.queue).id, 0)
  /\ UNCHANGED <<view, work, seen>>

DropResult(h) ==
  [h EXCEPT !.results = {r \in @ : r.id # Head(h.queue).id}]

EventAccepted ==
  /\ MainReceives("accepted", FirstCall(Consumed(host)))
  /\ host' = Flush(Consumed(DropResult(host)))
  /\ UNCHANGED <<session, view, work, seen>>

\* The renderer's terminal action answered false or threw: the head stays.
EventRejected ==
  /\ MainReceives("rejected", <<>>)
  /\ host' = [DropResult(host) EXCEPT
                !.at = "idle", !.tried = Head(host.queue).id,
                !.staged = {s \in @ : s.by # Head(host.queue).id}]
  /\ UNCHANGED <<session, view, work, seen>>

-----------------------------------------------------------------------------
(* The main process: the session and the Recent list *)

\* Mutant: an older open that answers late is accepted, too.
AnyOpen(src) == src.n <= session.latest

IsLatest(src) == src.n = session.latest

Outcomes(src, accepted) ==
  IF ~accepted THEN Refused
  ELSE [src |-> src, ok |-> IF IsLatest(src) THEN "source" ELSE "model"]

\* openLocalFilePath: only the latest open becomes the active source or, when
\* it fails, takes the old one away.
Activate(src, accepted) ==
  IF ~IsLatest(src) THEN session.active
  ELSE IF accepted THEN src ELSE NoSource

\* Mutant: the file is recorded when it has been opened.
RecordAtOpen(h, result) ==
  IF result.ok = "source" THEN [h EXCEPT !.recent = @ \cup {result.src}] ELSE h

\* An accepted source is staged for the Recent list until it is committed.
Stage(h, result) ==
  IF result.ok = "source" THEN [h EXCEPT !.staged = @ \cup {result.src}] ELSE h

SessionAnswers ==
  \E o \in session.opens, accepted \in BOOLEAN :
    LET result == Outcomes(o.src, accepted)
    IN /\ session' = [session EXCEPT !.opens = @ \ {o},
                                     !.active = Activate(o.src, accepted)]
       /\ IF o.caller = 0
          THEN /\ host' = [Stage(host, result) EXCEPT
                             !.at = "complete",
                             !.results = @ \cup
                               {[id |-> o.src.by, result |-> result]}]
               /\ toView' = toView \o Signal("complete", o.src.by)
          ELSE /\ host' = Stage(host, result)
               /\ toView' = Append(toView,
                              Message("answered", o.caller, result))
       /\ UNCHANGED <<view, work, toMain, seen>>

ConsumeResult ==
  /\ LET id == Head(toMain).id
         found == {r \in host.results : r.id = id}
         result == IF found = {} THEN Refused
                   ELSE (CHOOSE r \in found : TRUE).result
     IN /\ MainReceives("consume", <<Message("consumed", id, result)>>)
        /\ host' = [host EXCEPT !.results = @ \ found]
  /\ UNCHANGED <<session, view, work, seen>>

OpenRequested(type) ==
  /\ MainReceives(type, <<>>)
  /\ host' = [host EXCEPT !.staged = {}]
  /\ session' = OpenPath(Head(toMain).result.src.file, 0, Head(toMain).id)
  /\ UNCHANGED <<view, work, seen>>

\* A recent file that is gone is not opened.
RecentMissing ==
  /\ "gone" \in user
  /\ toMain # <<>>
  /\ MainReceives("recent", <<Message("answered", Head(toMain).id, Unopened)>>)
  /\ UNCHANGED <<host, session, view, work, seen>>

\* One picker at a time: a second one fails at once.
PickerRequested ==
  /\ toMain # <<>>
  /\ LET id == Head(toMain).id
     IN IF session.pickers = {}
        THEN /\ MainReceives("choose", <<>>)
             /\ session' = [session EXCEPT !.pickers = {id}]
        ELSE /\ MainReceives("choose", <<Message("answered", id, Unopened)>>)
             /\ UNCHANGED session
  /\ UNCHANGED <<host, view, work, seen>>

Picked(request, file) ==
  /\ request \in session.pickers
  /\ host' = [host EXCEPT !.staged = {}]
  /\ session' = OpenPath(file, 0, request)
  /\ UNCHANGED <<view, work, toMain, toView, seen>>

\* The user cancels, picks what cannot be opened, or the dialog fails.
PickerEnded(request, answer) ==
  /\ request \in session.pickers
  /\ session' = [session EXCEPT !.pickers = @ \ {request}]
  /\ toView' = Append(toView, answer)
  /\ UNCHANGED <<host, view, work, toMain, seen>>

\* commitMultiFormatOpen: Recent takes a source that is staged and active.
MayCommit(m) ==
  /\ m.result.ok = "source"
  /\ \/ m.result.src \in host.recent
     \/ m.result.src \in host.staged /\ session.active = m.result.src

CommitOpen ==
  /\ toMain # <<>>
  /\ LET m == Head(toMain)
     IN IF MayCommit(m)
        THEN /\ MainReceives("commit",
                  <<Message("committed", m.id, m.result)>>)
             /\ host' = [host EXCEPT !.staged = @ \ {m.result.src},
                                     !.recent = @ \cup {m.result.src}]
        ELSE /\ MainReceives("commit",
                  <<Message("uncommitted", m.id, m.result)>>)
             /\ UNCHANGED host
  /\ UNCHANGED <<session, view, work, seen>>

\* control({action: "dispose"}): the session gives up its active source; only
\* closeFile waits for the answer.
DisposeSession ==
  /\ \/ MainReceives("dispose", <<>>)
     \/ MainReceives("close", Signal("closed", 0))
  /\ session' = [session EXCEPT !.active = NoSource]
  /\ UNCHANGED <<host, view, work, seen>>

-----------------------------------------------------------------------------
(* The renderer: what an answered open does to the view *)

\* Mutant: the renderer does not look whether it has moved on.
AnyRequest(request) == request <= view.request

IsActiveRequest(request) == view.request = request

HostFileOpenIsActive(event) ==
  view.event = event /\ IsActiveRequest(view.eventRequest)

ClearHostFileOpen(v) == [v EXCEPT !.event = 0, !.eventRequest = 0]

\* An answer to the dispatch that waits for the terminal action, if it does.
Accept(event) == IF event = 0 THEN <<>> ELSE Signal("accepted", event)
Reject(event) == IF event = 0 THEN <<>> ELSE Signal("rejected", event)

Cleared(v) == [v EXCEPT !.shown = NoSource, !.model = NoSource,
                        !.player = NoSource, !.svga = FALSE, !.loading = FALSE]

\* Mutant: the loads in flight keep their authority.
KeepLoads == work

\* The SVGA workflow is left: its loads lose their authority.
Deactivated ==
  IF view.svga THEN {[w EXCEPT !.fresh = FALSE] : w \in work} ELSE work

\* revokeActiveDocumentAuthority: nothing is shown, the session is disposed.
Revoke(v, answer) ==
  /\ view' = Cleared(v)
  /\ work' = Deactivated
  /\ toMain' = toMain \o Signal("dispose", 0) \o answer
  /\ UNCHANGED seen

\* Lottie and VAP: shown at once, then committed.
ShowPlayer(v, result, event) ==
  LET held == result.ok = "source"
      before == IF v.svga THEN NoSource ELSE v.shown
  IN /\ view' = [v EXCEPT !.shown = IF held THEN result.src ELSE before,
                          !.model = result.src, !.svga = FALSE,
                          !.player = IF v.svga THEN NoSource ELSE @,
                          !.loading = FALSE]
     /\ work' = Deactivated \cup
                {[src |-> result.src, event |-> event, held |-> held,
                  at |-> "commit", fresh |-> TRUE]}
     /\ toMain' = Append(toMain, Message("commit", event, result))
     /\ seen' = IF held THEN seen \cup {result.src} ELSE seen

\* SVGA: the source is taken, then inspected and mounted; a newer load takes
\* the authority of the older ones.
LoadSvga(v, result, event) ==
  /\ view' = [v EXCEPT !.shown = result.src, !.svga = TRUE, !.loading = TRUE]
  /\ work' = {[w EXCEPT !.fresh = FALSE] : w \in work} \cup
             {[src |-> result.src, event |-> event, held |-> TRUE,
               at |-> "inspect", fresh |-> TRUE]}
  /\ seen' = seen \cup {result.src}
  /\ UNCHANGED toMain

\* A failure that leaves what is shown, if something is: nothing was opened,
\* or an SVGA open that lost its authority brings no bytes.
KeepOrRevoke(v, answer) ==
  IF v.model # NoSource /\ v.shown # NoSource
  THEN /\ view' = [v EXCEPT !.loading = FALSE]
       /\ toMain' = toMain \o answer
       /\ UNCHANGED <<work, seen>>
  ELSE Revoke(v, answer)

ApplyOpenOutcome(v, result, event) ==
  CASE result.ok = "refused" -> Revoke(v, Accept(event))
    [] result.ok \in {"source", "model"} /\ result.src.file \notin Svga ->
         ShowPlayer(v, result, event)
    [] result.ok = "source" /\ result.src.file \in Svga ->
         LoadSvga(v, result, event)
    [] OTHER -> KeepOrRevoke(v, Accept(event))

-----------------------------------------------------------------------------
(* The renderer: the actions the main process calls *)

Authorize ==
  \/ /\ ViewReceives("authorize", Signal("authorized", Head(toView).id))
     /\ UNCHANGED <<host, session, view, work, seen>>
  \/ /\ view.svga
     /\ ViewReceives("authorize", <<>>)
     /\ view' = [view EXCEPT !.asking = TRUE]
     /\ UNCHANGED <<host, session, work, seen>>

\* The user answers whether unsaved SVGA output may be discarded.
Decide ==
  /\ view.asking
  /\ view' = [view EXCEPT !.asking = FALSE]
  /\ \E answer \in {"authorized", "denied"} : toMain' = toMain \o Signal(answer, 0)
  /\ UNCHANGED <<host, session, work, toView, seen>>

BeginHostFileOpen ==
  /\ ViewReceives("begin", Signal("begun", Head(toView).id))
  /\ view' = [view EXCEPT !.request = @ + 1, !.event = Head(toView).id,
                          !.eventRequest = view.request + 1]
  /\ UNCHANGED <<host, session, work, seen>>

CompleteHostFileOpen ==
  /\ toView # <<>>
  /\ LET id == Head(toView).id
     IN ViewReceives("complete", IF HostFileOpenIsActive(id)
                                 THEN Signal("consume", id)
                                 ELSE Signal("rejected", id))
  /\ UNCHANGED <<host, session, view, work, seen>>

HostResultConsumed ==
  /\ toView # <<>> /\ Head(toView).type = "consumed"
  /\ toView' = Tail(toView)
  /\ LET m == Head(toView)
     IN IF HostFileOpenIsActive(m.id)
        THEN ApplyOpenOutcome(ClearHostFileOpen(view), m.result, m.id)
        ELSE /\ toMain' = toMain \o Signal("rejected", m.id)
             /\ UNCHANGED <<view, work, seen>>
  /\ UNCHANGED <<host, session>>

\* The load returns false: the dispatch of an event sees it rejected, any
\* other caller commits all the same.
LoadFailed(w) ==
  IF w.event # 0
  THEN /\ work' = work \ {w}
       /\ toMain' = toMain \o Signal("rejected", w.event)
  ELSE /\ work' = (work \ {w}) \cup {[w EXCEPT !.at = "commit"]}
       /\ toMain' = Append(toMain, Message("commit", 0,
                                     [src |-> w.src, ok |-> "source"]))

LoadCommits(w) ==
  /\ work' = (work \ {w}) \cup {[w EXCEPT !.at = "commit"]}
  /\ toMain' = Append(toMain, Message("commit", w.event,
                                [src |-> w.src, ok |-> "source"]))

\* inspectShortTerm has answered.  The mount takes the player away first; of
\* a file that was closed there is nothing to mount.
Inspected(w, ok) ==
  /\ w.at = "inspect"
  /\ ok \/ w.src.file \in Broken
  /\ CASE w.fresh /\ ok /\ view.shown = w.src ->
            /\ view' = [view EXCEPT !.model = w.src, !.player = NoSource,
                                    !.loading = FALSE]
            /\ work' = (work \ {w}) \cup {[w EXCEPT !.at = "mount"]}
            /\ UNCHANGED toMain
       [] w.fresh /\ ok /\ view.shown # w.src ->
            /\ view' = [view EXCEPT !.model = w.src, !.loading = FALSE]
            /\ LoadCommits(w)
       [] w.fresh /\ ~ok ->
            /\ view' = [Cleared(view) EXCEPT !.svga = view.svga]
            /\ LoadFailed(w)
       [] OTHER ->
            /\ UNCHANGED view
            /\ LoadFailed(w)
  /\ UNCHANGED <<host, session, toView, seen>>

\* mountPrimaryPlayback has answered: a player that was mounted takes the place
\* of the primary one, and is stopped again when its load has been superseded.
Mounted(w, ok) ==
  /\ w.at = "mount"
  /\ ok \/ w.src.file \in Broken
  /\ view' = CASE w.fresh /\ ok -> [view EXCEPT !.player = w.src]
               [] ~w.fresh /\ ~ok -> view
               [] OTHER -> [view EXCEPT !.player = NoSource]
  /\ IF w.fresh /\ ok THEN LoadCommits(w) ELSE LoadFailed(w)
  /\ UNCHANGED <<host, session, toView, seen>>

\* commitAcceptedOpen has returned, or has thrown.
CommitAnswered(type) ==
  /\ toView # <<>>
  /\ LET id == Head(toView).id
     IN ViewReceives(type, IF type = "committed" THEN Accept(id) ELSE Reject(id))
  /\ work' = {w \in work : \/ w.at # "commit"
                           \/ w.src # Head(toView).result.src}
  /\ UNCHANGED <<host, session, view, seen>>

Answered ==
  /\ toView # <<>> /\ Head(toView).type = "answered"
  /\ toView' = Tail(toView)
  /\ LET m == Head(toView)
         call == {c \in view.calls : c.id = m.id}
         v == [view EXCEPT !.calls = @ \ call]
     IN IF call # {} /\ IsActiveRequest(m.id)
        THEN ApplyOpenOutcome(v, m.result, 0)
        ELSE /\ view' = v
             /\ UNCHANGED <<work, toMain, seen>>
  /\ UNCHANGED <<host, session>>

\* A cancelled picker leaves the view alone, a loading one included.
Cancelled ==
  /\ toView # <<>>
  /\ ViewReceives("cancelled", <<>>)
  /\ view' = [view EXCEPT
                !.calls = {c \in @ : c.id # Head(toView).id}]
  /\ UNCHANGED <<host, session, work, seen>>

\* The rest of closeFile, whatever was asked for in the meantime.
Closed ==
  /\ ViewReceives("closed", <<>>)
  /\ view' = Cleared(view)
  /\ UNCHANGED <<host, session, work, seen>>

-----------------------------------------------------------------------------
(* The renderer: what the user asks for *)

Asked(picker) ==
  [view EXCEPT !.request = @ + 1,
               !.calls = @ \cup {[id |-> view.request + 1,
                                  picker |-> picker]}]

\* A dropped file shows the loading view, a recent one does not.
OpenByPath(file, type) ==
  /\ view.request < MaxRequests
  /\ view' = [Asked(FALSE) EXCEPT !.loading = @ \/ type = "open"]
  /\ toMain' = Append(toMain, Message(type, view.request + 1,
       [src |-> [NoSource EXCEPT !.file = file], ok |-> "refused"]))
  /\ UNCHANGED <<host, session, work, toView, seen>>

OpenFromHostDialog ==
  /\ "dialog" \in user
  /\ view.request < MaxRequests
  /\ view' = Asked(TRUE)
  /\ toMain' = toMain \o Signal("choose", view.request + 1)
  /\ UNCHANGED <<host, session, work, toView, seen>>

\* The renderer's own deadline on an open by path: its answer will be ignored.
OpenTimedOut(call) ==
  /\ call \in view.calls /\ ~call.picker
  /\ LET v == [view EXCEPT !.calls = @ \ {call}]
     IN IF IsActiveRequest(call.id)
        THEN Revoke(v, <<>>)
        ELSE /\ view' = v
             /\ UNCHANGED <<work, toMain, seen>>
  /\ UNCHANGED <<host, session, toView>>

CloseFile ==
  /\ "close" \in user
  /\ ~view.svga /\ view.shown # NoSource
  /\ view.request < MaxRequests
  /\ view' = [view EXCEPT !.request = @ + 1]
  /\ toMain' = toMain \o Signal("close", 0)
  /\ UNCHANGED <<host, session, work, toView, seen>>

\* The SVGA workflow closes its file itself: no request, no call to the
\* session, and a load in flight keeps its authority.
CloseSvga ==
  /\ "close" \in user
  /\ view.svga /\ view.shown # NoSource
  /\ view' = Cleared(view)
  /\ UNCHANGED <<host, session, work, toMain, toView, seen>>

-----------------------------------------------------------------------------
EventStep == EventDenied \/ EventAuthorized \/ EventBegun
             \/ EventAccepted \/ EventRejected

SessionStep == ConsumeResult \/ OpenRequested("open")
               \/ OpenRequested("recent") \/ RecentMissing
               \/ PickerRequested \/ CommitOpen \/ DisposeSession

ViewStep == Authorize \/ BeginHostFileOpen \/ CompleteHostFileOpen
            \/ HostResultConsumed \/ Answered \/ Cancelled \/ Closed
            \/ CommitAnswered("committed") \/ CommitAnswered("uncommitted")

LoadStep == \E w \in work, ok \in BOOLEAN : Inspected(w, ok) \/ Mounted(w, ok)

UserStep ==
  \/ \E file \in Files : OpenFileEvent(file)
  \/ \E file \in Files, type \in {"open", "recent"} : OpenByPath(file, type)
  \/ OpenFromHostDialog
  \/ \E request \in session.pickers :
       \/ PickerEnded(request, Message("cancelled", request, Refused))
       \/ \E failure \in {Refused, Unopened} :
            PickerEnded(request, Message("answered", request, failure))
       \/ \E file \in Files : Picked(request, file)
  \/ CloseFile
  \/ CloseSvga

Step ==
  \/ RendererReady \/ EventStep \/ SessionStep \/ SessionAnswers
  \/ ViewStep \/ Decide \/ LoadStep
  \/ \E call \in view.calls : OpenTimedOut(call)
  \/ UserStep

Next == Step /\ UNCHANGED user

Spec == Init /\ [][Next]_vars

\* Both processes handle what reaches them, opens and loads end, and the user
\* answers the question about unsaved output; nobody has to open or close a
\* file or to choose one.
FairSpec ==
  /\ Spec
  /\ WF_vars(RendererReady /\ UNCHANGED user)
  /\ WF_vars(EventStep /\ UNCHANGED user)
  /\ WF_vars(SessionStep /\ UNCHANGED user)
  /\ WF_vars(SessionAnswers /\ UNCHANGED user)
  /\ WF_vars(ViewStep /\ UNCHANGED user)
  /\ WF_vars(Decide /\ UNCHANGED user)
  /\ WF_vars(LoadStep /\ UNCHANGED user)

-----------------------------------------------------------------------------
(* Properties *)

Quiet ==
  /\ toMain = <<>> /\ toView = <<>> /\ work = {}
  /\ host.at = "idle" /\ ~view.asking
  /\ session.opens = {} /\ session.pickers = {}

\* The Recent list names only files the renderer took, each event once: a
\* commit follows the result's application, never an open that was superseded,
\* refused or timed out, and an event that was dispatched leaves the queue.
RecordedWasShown ==
  /\ host.recent \subseteq seen
  /\ \A s, t \in host.recent : s.by = t.by /\ s.by # 0 => s = t

\* Sources are shown in the order in which the session opened them: an answer
\* that arrives after the renderer has moved on is dropped.
ShownInOrder ==
  [][\A s \in seen' \ seen, t \in seen : s.n > t.n]_vars

\* Once the renderer is ready, an open-file event waits for nothing but its
\* turn: the flush stands still only at a head whose dispatch failed.
IdleQueueWasTried ==
  host.ready /\ host.at = "idle" /\ host.queue # <<>>
    => host.tried = Head(host.queue).id

\* When nothing is under way, what the renderer shows is the session's active
\* source, so that play, seek and replacements reach the file on screen.
ShownIsHeld == Quiet /\ view.shown # NoSource => session.active = view.shown

\* It is, for a user who opens files by path and through open-file events, and
\* whose recent files are all there.
PathsAreHeld == user = {} => ShownIsHeld

\* For that user, when nothing is under way, the model on screen and the
\* player mounted belong to the file that is shown: an inspection or a mount
\* that was superseded leaves nothing behind.
LoadsLeaveNothing ==
  user = {} /\ Quiet =>
    view.model \in {NoSource, view.shown} /\ view.player \in {NoSource, view.shown}

\* When nothing is under way, the SVGA file on screen has its player: a mount
\* that was superseded does not touch the newer one.
ShownHasPlayer ==
  Quiet /\ view.svga /\ view.shown # NoSource => view.player = view.shown

\* Whoever opens, by whichever path, and whatever the renderer sends: the
\* session keeps the promise that DesktopSession, which models it in detail,
\* keeps too.  Authority goes to the newest open only, once, and never returns.
Authority == INSTANCE SourceAuthority WITH
  newest <- session.latest,
  asking <- \E o \in session.opens : o.src.n = session.latest,
  holder <- session.active.n
AuthorityMovesForward == Authority!Spec

\* Every open-file event is served: the queue drains.
EventsAreServed == host.queue # <<>> ~> host.queue = <<>>

=============================================================================
