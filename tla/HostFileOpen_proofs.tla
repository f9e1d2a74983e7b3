------------------------- MODULE HostFileOpen_proofs -------------------------
(***************************************************************************)
(* Proofs about HostFileOpen, for any files, any user and any number of    *)
(* events and requests.                                                    *)
(*                                                                         *)
(* An event under dispatch is one token: a call or an answer in a channel, *)
(* the question on screen, an open of the session or a load of the         *)
(* renderer, and never two of them at once.  That is the first invariant,  *)
(* IInv.                                                                   *)
(*                                                                         *)
(* The second, PathInv, is about a user who opens files by path only: the  *)
(* opens of the session follow the requests of the renderer, so the source *)
(* that is active, or about to be, is the one the renderer shows, or will  *)
(* show once it has read the answers that are on their way.                *)
(*                                                                         *)
(* At the end: the session implements SourceAuthority.                     *)
(***************************************************************************)
EXTENDS HostFileOpen, TLAPS

Msgs(s) == {s[i] : i \in DOMAIN s}

DispatchMain(m) ==
  \/ m.type \in {"authorized", "denied", "begun", "accepted", "rejected",
                 "consume"}
  \/ m.type = "commit" /\ m.id # 0

DispatchView(m) ==
  \/ m.type \in {"authorize", "begin", "complete", "consumed"}
  \/ m.type \in {"committed", "uncommitted"} /\ m.id # 0

Phase(m) ==
  CASE m.type \in {"authorize", "authorized", "denied"} -> "authorize"
    [] m.type \in {"begin", "begun"} -> "begin"
    [] OTHER -> "complete"

NoneMain(s) == \A m \in Msgs(s) : ~DispatchMain(m)
NoneView(s) == \A m \in Msgs(s) : ~DispatchView(m)
OneMain(s) == \A i, j \in DOMAIN s :
                DispatchMain(s[i]) /\ DispatchMain(s[j]) => i = j
OneView(s) == \A i, j \in DOMAIN s :
                DispatchView(s[i]) /\ DispatchView(s[j]) => i = j

HeadId == Head(host.queue).id
Loading(w) == w.at # "commit" /\ w.event # 0

Channels ==
  /\ OneMain(toMain) /\ OneView(toView)
  /\ NoneMain(toMain) \/ NoneView(toView)
  /\ \A m \in Msgs(toMain) : DispatchMain(m) => host.at = Phase(m)
  /\ \A m \in Msgs(toView) : DispatchView(m) => host.at = Phase(m)

Elsewhere ==
  /\ view.asking =>
       host.at = "authorize" /\ NoneMain(toMain) /\ NoneView(toView)
  /\ \A o, p \in session.opens :
       o.caller = 0 => host.at = "open" /\ (p.caller = 0 => o = p)
  /\ \A w, x \in work :
       Loading(w) => /\ host.at = "complete" /\ w.event = HeadId
                     /\ NoneMain(toMain) /\ NoneView(toView)
                     /\ Loading(x) => w = x

Queue ==
  /\ host.at # "idle" => host.ready /\ host.queue # <<>>
  /\ \A i, j \in DOMAIN host.queue :
       i < j => host.queue[i].id < host.queue[j].id
  /\ \A i \in DOMAIN host.queue : host.queue[i].id <= host.events
  /\ \A r \in host.results : host.at = "complete" /\ r.id = HeadId
  /\ IdleQueueWasTried

Newer(src) == \A t \in seen : t.n < src.n
ActiveUser(id) == IsActiveRequest(id) /\ \E c \in view.calls : c.id = id

Asks(m) == m.type \in {"open", "recent", "choose"}

MainSays(m) ==
  /\ m.type \in {"consume", "commit"} /\ m.id # 0 => m.id = HeadId
  /\ m.type = "consume" => m.id # 0
  /\ m.type = "commit" /\ m.result.ok = "source" =>
       m.result.src.by = m.id /\ m.result.src \in seen
  /\ m.type \in {"open", "recent"} => m.result.src.file \in Files
  /\ Asks(m) => m.id \in 1 .. view.request

ViewSays(m) ==
  /\ DispatchView(m) => m.id = HeadId
  /\ m.type \in {"consumed", "answered"} /\ m.result.ok = "source" =>
       m.result.src.n \in 1 .. session.latest
  /\ m.type = "consumed" /\ m.result.ok = "source" =>
       /\ m.result.src.by = m.id
       /\ HostFileOpenIsActive(m.id) => Newer(m.result.src)
  /\ m.type = "answered" => m.id \in 1 .. view.request
  /\ m.type = "answered" /\ m.result.ok = "source" =>
       /\ m.result.src.by = 0
       /\ ActiveUser(m.id) => Newer(m.result.src)

Messages ==
  /\ \A m \in Msgs(toMain) : MainSays(m)
  /\ \A m \in Msgs(toView) : ViewSays(m)

Requests ==
  /\ \A c \in view.calls : c.id \in 1 .. view.request
  /\ session.pickers \subseteq 1 .. view.request
  /\ view.eventRequest <= view.request
  /\ view.eventRequest = view.request =>
       \A c \in view.calls : c.id # view.request

OpenSays(o) ==
  /\ o.src.n \in 1 .. session.latest /\ o.src.file \in Files
  /\ o.caller <= view.request
  /\ o.caller = 0 => /\ o.src.by = HeadId
                     /\ HostFileOpenIsActive(o.src.by) => Newer(o.src)
  /\ o.caller # 0 => /\ o.src.by = 0
                     /\ ActiveUser(o.caller) => Newer(o.src)

ResultSays(r) ==
  r.result.ok = "source" =>
    /\ r.result.src.n \in 1 .. session.latest
    /\ r.result.src.by = r.id
    /\ HostFileOpenIsActive(r.id) => Newer(r.result.src)

Sources ==
  /\ \A o \in session.opens : OpenSays(o)
  /\ \A r \in host.results : ResultSays(r)
  /\ \A w \in work : w.at # "commit" => w.src \in seen /\ w.src.by = w.event
  /\ \A t \in seen : t.n \in 1 .. session.latest

Acknowledged ==
  \/ \E m \in Msgs(toView) : m.type = "committed" /\ m.id # 0
  \/ \E m \in Msgs(toMain) : m.type = "accepted"

Recents ==
  /\ host.recent \subseteq seen
  /\ \A s, t \in host.recent : s.by = t.by /\ s.by # 0 => s = t
  /\ \A s \in host.recent : s.by <= host.events
  /\ \A s \in host.recent : s.by # 0 =>
       \A i \in DOMAIN host.queue :
         host.queue[i].id = s.by => i = 1 /\ Acknowledged

IInv == TypeOK /\ Channels /\ Elsewhere /\ Queue /\ Messages /\ Requests
        /\ Sources /\ Recents

-----------------------------------------------------------------------------
(* Channels *)

ToMain == [type : ToMainType, id : Nat, result : Result]
ToView == [type : ToViewType, id : Nat, result : Result]

LEMMA TailOf ==
  ASSUME NEW S, NEW s \in Seq(S), s # <<>>
  PROVE  /\ Tail(s) \in Seq(S) /\ Head(s) \in S
         /\ 1 \in DOMAIN s /\ Head(s) = s[1]
OBVIOUS

LEMMA TailIndex ==
  ASSUME NEW S, NEW s \in Seq(S), s # <<>>
  PROVE  /\ \A i \in DOMAIN Tail(s) :
              i + 1 \in DOMAIN s /\ i \in Nat /\ Tail(s)[i] = s[i + 1]
         /\ \A i \in DOMAIN s \ {1} :
              i \in Nat /\ i - 1 \in DOMAIN Tail(s) /\ Tail(s)[i - 1] = s[i]
<1>1. Tail(s) \in Seq(S) /\ Len(Tail(s)) = Len(s) - 1
  OBVIOUS
<1>2. DOMAIN s = 1 .. Len(s) /\ DOMAIN Tail(s) = 1 .. (Len(s) - 1) /\ Len(s) \in Nat
  BY <1>1
<1>3. \A i \in 1 .. (Len(s) - 1) : Tail(s)[i] = s[i + 1]
  OBVIOUS
<1>4. \A i \in DOMAIN s \ {1} :
        i \in Nat /\ i - 1 \in DOMAIN Tail(s) /\ Tail(s)[i - 1] = s[i]
  BY <1>2, <1>3
<1>5. \A i \in DOMAIN Tail(s) :
        i + 1 \in DOMAIN s /\ i \in Nat /\ Tail(s)[i] = s[i + 1]
  BY <1>2, <1>3
<1> QED
  BY <1>4, <1>5

LEMMA ElementOf ==
  ASSUME NEW S, NEW s \in Seq(S), NEW i \in DOMAIN s
  PROVE  s[i] \in S /\ i \in Nat
OBVIOUS

LEMMA AppendOf ==
  ASSUME NEW S, NEW s \in Seq(S), NEW m \in S
  PROVE  /\ s \o <<m>> = Append(s, m)
         /\ Append(s, m) \in Seq(S)
         /\ DOMAIN Append(s, m) = DOMAIN s \cup {Len(s) + 1}
         /\ Append(s, m)[Len(s) + 1] = m
         /\ \A i \in DOMAIN s : Append(s, m)[i] = s[i]
OBVIOUS

LEMMA TailMsgs ==
  ASSUME NEW S, NEW s \in Seq(S), s # <<>>
  PROVE  /\ Tail(s) \in Seq(S) /\ Head(s) \in S
         /\ Msgs(s) = Msgs(Tail(s)) \cup {Head(s)}
<1> DEFINE t == Tail(s)  h == Head(s)
<1>1. t \in Seq(S) /\ h \in S /\ 1 \in DOMAIN s /\ h = s[1]
  BY TailOf
<1>2. \A i \in DOMAIN t : i + 1 \in DOMAIN s /\ t[i] = s[i + 1]
  BY TailIndex
<1>3. \A i \in DOMAIN s \ {1} : i - 1 \in DOMAIN t /\ t[i - 1] = s[i]
  BY TailIndex
<1> HIDE DEF t, h
<1>4. Msgs(s) \subseteq Msgs(t) \cup {h}
  BY <1>1, <1>3 DEF Msgs
<1>5. Msgs(t) \cup {h} \subseteq Msgs(s)
  BY <1>1, <1>2 DEF Msgs
<1> QED
  BY <1>1, <1>4, <1>5 DEF t, h

LEMMA AppendMsgs ==
  ASSUME NEW S, NEW s \in Seq(S), NEW m \in S
  PROVE  /\ s \o <<m>> = Append(s, m) /\ Append(s, m) \in Seq(S)
         /\ Msgs(Append(s, m)) = Msgs(s) \cup {m}
BY AppendOf DEF Msgs

LEMMA SameSequence ==
  ASSUME NEW S, NEW s \in Seq(S)
  PROVE  s \o <<>> = s
OBVIOUS

LEMMA MainTail ==
  ASSUME NEW S, NEW s \in Seq(S), s # <<>>, OneMain(s)
  PROVE  /\ OneMain(Tail(s))
         /\ DispatchMain(Head(s)) => NoneMain(Tail(s))
BY TailOf, TailIndex DEF OneMain, NoneMain, Msgs

LEMMA ViewTail ==
  ASSUME NEW S, NEW s \in Seq(S), s # <<>>, OneView(s)
  PROVE  /\ OneView(Tail(s))
         /\ DispatchView(Head(s)) => NoneView(Tail(s))
BY TailOf, TailIndex DEF OneView, NoneView, Msgs

LEMMA MainAppend ==
  ASSUME NEW S, NEW s \in Seq(S), NEW m \in S, OneMain(s),
         NoneMain(s) \/ ~DispatchMain(m)
  PROVE  OneMain(Append(s, m))
BY AppendOf DEF OneMain, NoneMain, Msgs

LEMMA ViewAppend ==
  ASSUME NEW S, NEW s \in Seq(S), NEW m \in S, OneView(s),
         NoneView(s) \/ ~DispatchView(m)
  PROVE  OneView(Append(s, m))
BY AppendOf DEF OneView, NoneView, Msgs

-----------------------------------------------------------------------------
(* What holds of a typed state, and of the one dispatch *)

HostType ==
  [queue : Seq([id : 1 .. MaxEvents, file : Files]),
   events : 0 .. MaxEvents, ready : BOOLEAN,
   at : {"idle", "authorize", "begin", "open", "complete"},
   results : SUBSET [id : 1 .. MaxEvents, result : Result],
   tried : 0 .. MaxEvents,
   staged : SUBSET Source, recent : SUBSET Source]

SessionType ==
  [latest : Nat, active : Source,
   opens : SUBSET [src : Source, caller : Nat], pickers : SUBSET Nat]

ViewType ==
  [request : Nat, event : 0 .. MaxEvents, eventRequest : Nat,
   shown : Source, model : Source, player : Source,
   svga : BOOLEAN, loading : BOOLEAN, asking : BOOLEAN,
   calls : SUBSET [id : Nat, picker : BOOLEAN]]

WorkType == [src : Source, event : 0 .. MaxEvents, held : BOOLEAN,
             at : {"inspect", "mount", "commit"}, fresh : BOOLEAN]

LEMMA Types ==
  TypeOK <=> /\ host \in HostType /\ session \in SessionType
             /\ view \in ViewType /\ work \subseteq WorkType
             /\ toMain \in Seq(ToMain) /\ toView \in Seq(ToView)
             /\ seen \subseteq Source /\ user \subseteq Uses
BY DEF TypeOK, HostType, SessionType, ViewType, WorkType, ToMain, ToView

LEMMA Constants ==
  /\ NoSource \in Source /\ NoSource.n = 0 /\ NoSource.by = 0
  /\ NoSource.file = "none" /\ "none" \notin Files
  /\ Refused \in Result /\ Unopened \in Result
  /\ Refused.ok = "refused" /\ Unopened.ok = "unopened"
  /\ MaxEvents \in Nat /\ MaxRequests \in Nat
  /\ Svga \subseteq Files
BY ParametersAssumption
   DEF NoSource, Source, Refused, Unopened, Result, Outcome

LEMMA SourceFields ==
  ASSUME NEW s \in Source
  PROVE  s.n \in Nat /\ s.by \in 0 .. MaxEvents
         /\ (s.file \in Files \/ s = NoSource)
BY Constants DEF Source

LEMMA MessageFields ==
  ASSUME NEW type, NEW id, NEW result
  PROVE  /\ Message(type, id, result).type = type
         /\ Message(type, id, result).id = id
         /\ Message(type, id, result).result = result
         /\ type \in ToMainType /\ id \in Nat /\ result \in Result =>
              Message(type, id, result) \in ToMain
         /\ type \in ToViewType /\ id \in Nat /\ result \in Result =>
              Message(type, id, result) \in ToView
BY DEF Message, ToMain, ToView

\* The head of a queue that is not empty.
LEMMA HeadOfQueue ==
  ASSUME NEW h \in HostType, h.queue # <<>>
  PROVE  /\ Head(h.queue) = h.queue[1] /\ 1 \in DOMAIN h.queue
         /\ Head(h.queue).id \in 1 .. MaxEvents
         /\ Head(h.queue).id \in Nat /\ Head(h.queue).id # 0
         /\ Head(h.queue).file \in Files
<1>1. h.queue \in Seq([id : 1 .. MaxEvents, file : Files])
  BY DEF HostType
<1>2. /\ Head(h.queue) \in [id : 1 .. MaxEvents, file : Files]
      /\ Head(h.queue) = h.queue[1] /\ 1 \in DOMAIN h.queue
  BY <1>1, TailOf
<1> QED BY <1>2, Constants

LEMMA ElementsOfQueue ==
  ASSUME NEW h \in HostType, NEW i \in DOMAIN h.queue
  PROVE  h.queue[i].id \in 1 .. MaxEvents /\ h.queue[i].id \in Nat /\ i \in Nat
<1>1. h.queue \in Seq([id : 1 .. MaxEvents, file : Files])
  BY DEF HostType
<1>2. h.queue[i] \in [id : 1 .. MaxEvents, file : Files] /\ i \in Nat
  BY <1>1, ElementOf
<1> QED BY <1>2, Constants

Elsewhere0 ==
  /\ ~view.asking
  /\ \A o \in session.opens : o.caller # 0
  /\ \A w \in work : ~Loading(w)

LEMMA TokenInMain ==
  ASSUME IInv, NEW m \in Msgs(toMain), DispatchMain(m)
  PROVE  /\ host.at = Phase(m) /\ host.ready /\ host.queue # <<>>
         /\ NoneView(toView) /\ Elsewhere0
<1>1. host.at = Phase(m) /\ host.at # "idle" /\ host.at # "open"
  BY DEF IInv, Channels, Phase
<1>2. ~NoneMain(toMain)
  BY DEF NoneMain
<1> QED
  BY <1>1, <1>2 DEF IInv, Channels, Elsewhere, Elsewhere0, Queue

LEMMA TokenInView ==
  ASSUME IInv, NEW m \in Msgs(toView), DispatchView(m)
  PROVE  /\ host.at = Phase(m) /\ host.ready /\ host.queue # <<>>
         /\ NoneMain(toMain) /\ Elsewhere0
<1>1. host.at = Phase(m) /\ host.at # "idle" /\ host.at # "open"
  BY DEF IInv, Channels, Phase
<1>2. ~NoneView(toView)
  BY DEF NoneView
<1> QED
  BY <1>1, <1>2 DEF IInv, Channels, Elsewhere, Elsewhere0, Queue

LEMMA Idle ==
  ASSUME IInv, host.at = "idle"
  PROVE  NoneMain(toMain) /\ NoneView(toView) /\ Elsewhere0
         /\ host.results = {}
BY DEF IInv, Channels, Elsewhere, Elsewhere0, Queue, NoneMain, NoneView, Phase

LEMMA MainReceived ==
  ASSUME IInv, toMain # <<>>, toMain' = Tail(toMain)
  PROVE  /\ toMain' \in Seq(ToMain) /\ Head(toMain) \in ToMain
         /\ Head(toMain) \in Msgs(toMain)
         /\ Msgs(toMain) = Msgs(toMain') \cup {Head(toMain)}
         /\ OneMain(toMain')
         /\ DispatchMain(Head(toMain)) => NoneMain(toMain')
BY Types, TailMsgs, MainTail DEF IInv, Channels

LEMMA ViewReceived ==
  ASSUME IInv, toView # <<>>, toView' = Tail(toView)
  PROVE  /\ toView' \in Seq(ToView) /\ Head(toView) \in ToView
         /\ Head(toView) \in Msgs(toView)
         /\ Msgs(toView) = Msgs(toView') \cup {Head(toView)}
         /\ OneView(toView')
         /\ DispatchView(Head(toView)) => NoneView(toView')
BY Types, TailMsgs, ViewTail DEF IInv, Channels

LEMMA MainSent ==
  ASSUME NEW s \in Seq(ToMain), OneMain(s), NEW m \in ToMain,
         NoneMain(s) \/ ~DispatchMain(m)
  PROVE  /\ s \o <<m>> = Append(s, m) /\ Append(s, m) \in Seq(ToMain)
         /\ Msgs(Append(s, m)) = Msgs(s) \cup {m}
         /\ OneMain(Append(s, m))
BY AppendMsgs, MainAppend

LEMMA ViewSent ==
  ASSUME NEW s \in Seq(ToView), OneView(s), NEW m \in ToView,
         NoneView(s) \/ ~DispatchView(m)
  PROVE  /\ s \o <<m>> = Append(s, m) /\ Append(s, m) \in Seq(ToView)
         /\ Msgs(Append(s, m)) = Msgs(s) \cup {m}
         /\ OneView(Append(s, m))
BY AppendMsgs, ViewAppend

LEMMA InitIInv == Init => IInv
<1> SUFFICES ASSUME Init PROVE IInv
  OBVIOUS
<1>1. Msgs(<<>>) = {}
  BY DEF Msgs
<1>2. TypeOK
  BY Constants, ParametersAssumption, Types
     DEF Init, HostType, SessionType, ViewType
<1>3. Channels
  BY <1>1 DEF Init, Channels, OneMain, OneView, NoneMain
<1>4. Elsewhere /\ Queue /\ Sources
  BY DEF Init, Elsewhere, Queue, IdleQueueWasTried, Sources
<1>5. Messages /\ Requests /\ Recents
  BY <1>1 DEF Init, Messages, Requests, Recents
<1> QED BY <1>2, <1>3, <1>4, <1>5 DEF IInv

-----------------------------------------------------------------------------
(* The queue of events *)

QueueIsOrdered(h) ==
  /\ \A i, j \in DOMAIN h.queue : i < j => h.queue[i].id < h.queue[j].id
  /\ \A i \in DOMAIN h.queue : h.queue[i].id <= h.events

SetPhase(h, phase) == [h EXCEPT !.at = phase, !.tried = 0]

LEMMA PhaseSet ==
  ASSUME NEW h \in HostType,
         NEW phase \in {"idle", "authorize", "begin", "open", "complete"}
  PROVE  /\ SetPhase(h, phase) \in HostType
         /\ SetPhase(h, phase).at = phase
         /\ SetPhase(h, phase).queue = h.queue
         /\ SetPhase(h, phase).events = h.events
         /\ SetPhase(h, phase).results = h.results
         /\ SetPhase(h, phase).recent = h.recent
         /\ SetPhase(h, phase).ready = h.ready
         /\ SetPhase(h, phase).staged = h.staged
<1>1. 0 \in 0 .. MaxEvents
  BY Constants
<1> QED BY <1>1 DEF HostType, SetPhase

\* What a flush leaves: the loop stands still, or the head is dispatched.
LEMMA Flushed ==
  ASSUME IInv, NoneView(toView), NEW h \in HostType,
         host' = Flush(h), toView' = toView \o FirstCall(h)
  PROVE  /\ host' \in HostType /\ toView' \in Seq(ToView) /\ OneView(toView')
         /\ host'.queue = h.queue /\ host'.events = h.events
         /\ host'.results = h.results /\ host'.recent = h.recent
         /\ host'.ready = h.ready
         /\ Msgs(toView) \subseteq Msgs(toView')
         /\ \A m \in Msgs(toView') \ Msgs(toView) :
              /\ m.type = "authorize" /\ m.id = Head(h.queue).id
              /\ h.ready /\ h.queue # <<>> /\ host'.at = "authorize"
         /\ host'.at = "authorize" => h.ready /\ h.queue # <<>>
         /\ host'.at # "authorize" =>
              /\ host'.at = "idle" /\ ~(h.ready /\ h.queue # <<>>)
              /\ toView' = toView
<1>1. toView \in Seq(ToView) /\ OneView(toView)
  BY Types DEF IInv, Channels
<1>2. CASE Flushes(h)
  <2> DEFINE m == Message("authorize", Head(h.queue).id, Refused)
  <2>1. h.ready /\ h.queue # <<>>
    BY <1>2 DEF Flushes
  <2>2. m \in ToView /\ m.type = "authorize" /\ m.id = Head(h.queue).id
    BY <2>1, HeadOfQueue, MessageFields, Constants DEF ToViewType
  <2>3. toView' = toView \o <<m>>
    BY <1>2 DEF FirstCall, Signal
  <2> HIDE DEF m
  <2>4. /\ toView' \in Seq(ToView) /\ OneView(toView')
        /\ Msgs(toView') = Msgs(toView) \cup {m}
    BY <1>1, <2>2, <2>3, ViewSent
  <2>5. host' = SetPhase(h, "authorize")
    BY <1>2 DEF Flush, SetPhase
  <2>6. /\ host' \in HostType /\ host'.at = "authorize"
        /\ host'.queue = h.queue /\ host'.events = h.events
        /\ host'.results = h.results /\ host'.recent = h.recent
        /\ host'.ready = h.ready
    BY <2>5, PhaseSet
  <2> QED BY <2>1, <2>2, <2>4, <2>6
<1>3. CASE ~Flushes(h)
  <2>1. toView' = toView
    BY <1>1, <1>3, SameSequence DEF FirstCall
  <2>2. host' = SetPhase(h, "idle")
    BY <1>3 DEF Flush, SetPhase
  <2>3. /\ host' \in HostType /\ host'.at = "idle"
        /\ host'.queue = h.queue /\ host'.events = h.events
        /\ host'.results = h.results /\ host'.recent = h.recent
        /\ host'.ready = h.ready
    BY <2>2, PhaseSet
  <2> QED BY <1>1, <1>3, <2>1, <2>3 DEF Flushes
<1> QED BY <1>2, <1>3

\* A flush keeps the invariant when nothing is under dispatch.
LEMMA FlushKeeps ==
  ASSUME IInv, NoneView(toView), Elsewhere0,
         toMain' \in Seq(ToMain), NoneMain(toMain'), OneMain(toMain'),
         Msgs(toMain') \subseteq Msgs(toMain),
         NEW h \in HostType, host' = Flush(h), toView' = toView \o FirstCall(h),
         h.results = {}, QueueIsOrdered(h), h.recent = host.recent,
         h.events \in {host.events, host.events + 1},
         \A i \in DOMAIN h.queue : \A s \in h.recent :
           s.by # 0 => h.queue[i].id # s.by,
         UNCHANGED <<session, view, work, seen, user>>
  PROVE  IInv'
<1> USE Flushed
<1>1. TypeOK'
  BY Types DEF IInv, TypeOK, HostType, ToMain, ToView
<1>2. Channels'
  BY DEF Channels, NoneMain, NoneView, Phase
<1>3. Elsewhere'
  BY DEF Elsewhere, Elsewhere0, Loading
<1>4. Queue'
  BY DEF Queue, QueueIsOrdered, IdleQueueWasTried
<1>5. Messages'
  <2>1. ASSUME NEW m \in Msgs(toMain') PROVE MainSays(m)'
    BY <2>1 DEF IInv, Messages, MainSays, NoneMain, DispatchMain, Asks
  <2>2. ASSUME NEW m \in Msgs(toView') PROVE ViewSays(m)'
    <3>1. CASE m \in Msgs(toView)
      BY <3>1 DEF IInv, Messages, ViewSays, NoneView, DispatchView, Newer,
         ActiveUser, HostFileOpenIsActive, IsActiveRequest
    <3>2. CASE m \notin Msgs(toView)
      BY <3>2 DEF ViewSays, HeadId
    <3> QED BY <3>1, <3>2
  <2> QED BY <2>1, <2>2 DEF Messages
<1>6. Requests'
  BY DEF IInv, Requests
<1>7. Sources'
  BY DEF IInv, Sources, OpenSays, ResultSays, Newer, ActiveUser, Elsewhere0,
     HostFileOpenIsActive, IsActiveRequest
<1>8. Recents'
  <2>1. host.events \in Nat /\ h.events \in Nat
    BY Types, Constants DEF IInv, HostType
  <2>2. \A s \in host.recent : s.by \in Nat
    BY Types, SourceFields, Constants DEF IInv, HostType
  <2> HIDE Flushed
  <2>6. host'.events = h.events /\ host'.recent = host.recent
    BY Flushed
  <2>7. \A s \in host.recent : s.by <= host.events
    BY DEF IInv, Recents
  <2>3. \A s \in host'.recent : s.by <= host'.events
    BY <2>1, <2>2, <2>6, <2>7
  <2>4. \A i \in DOMAIN host'.queue : \A s \in host'.recent :
          s.by # 0 => host'.queue[i].id # s.by
    BY SMTT(30), Flushed
  <2>5. /\ host'.recent \subseteq seen
        /\ \A s, t \in host'.recent : s.by = t.by /\ s.by # 0 => s = t
    BY Flushed DEF IInv, Recents
  <2> QED BY <2>3, <2>4, <2>5 DEF Recents
<1> QED BY <1>1, <1>2, <1>3, <1>4, <1>5, <1>6, <1>7, <1>8 DEF IInv

LEMMA OpenFileEventKeeps ==
  ASSUME IInv, NEW file \in Files, OpenFileEvent(file), UNCHANGED user
  PROVE  IInv'
<1> DEFINE event == [id |-> host.events + 1, file |-> file]
           h == [host EXCEPT !.events = @ + 1, !.queue = Append(@, event)]
<1>1. /\ host \in HostType /\ host.events \in Nat /\ host.events < MaxEvents
      /\ toMain \in Seq(ToMain) /\ toView \in Seq(ToView)
  BY Types, Constants DEF IInv, HostType, OpenFileEvent
<1>2. event \in [id : 1 .. MaxEvents, file : Files]
  BY <1>1, Constants
<1>3. host.queue \in Seq([id : 1 .. MaxEvents, file : Files])
  BY <1>1 DEF HostType
<1>4. /\ Append(host.queue, event) \in Seq([id : 1 .. MaxEvents, file : Files])
      /\ DOMAIN Append(host.queue, event) =
           DOMAIN host.queue \cup {Len(host.queue) + 1}
      /\ Append(host.queue, event)[Len(host.queue) + 1] = event
      /\ \A i \in DOMAIN host.queue :
           Append(host.queue, event)[i] = host.queue[i]
      /\ DOMAIN host.queue = 1 .. Len(host.queue) /\ Len(host.queue) \in Nat
  BY <1>2, <1>3, AppendOf
<1>5. host.events + 1 \in 0 .. MaxEvents
  BY <1>1, Constants
<1>6. h \in HostType
  BY <1>1, <1>4, <1>5 DEF HostType
<1>7. /\ h.queue = Append(host.queue, event) /\ h.events = host.events + 1
      /\ h.at = host.at /\ h.ready = host.ready /\ h.tried = host.tried
      /\ h.results = host.results /\ h.recent = host.recent
      /\ h.staged = host.staged
  BY <1>1 DEF HostType
<1>8. event.id = host.events + 1
  OBVIOUS
<1> HIDE DEF event, h
<1>9. QueueIsOrdered(h)
  <2>1. \A i \in DOMAIN host.queue : host.queue[i].id \in Nat
    BY <1>1, ElementsOfQueue
  <2>2. \A i \in DOMAIN host.queue : host.queue[i].id < event.id
    BY <1>1, <1>8, <2>1 DEF IInv, Queue
  <2>3. \A i \in DOMAIN host.queue : h.queue[i] = host.queue[i]
    BY <1>4, <1>7
  <2>4. \A i \in DOMAIN h.queue : h.queue[i].id <= h.events
    BY SMTT(30), <1>1, <1>4, <1>7, <1>8, <2>1, <2>2, <2>3
  <2>5. ASSUME NEW i \in DOMAIN h.queue, NEW j \in DOMAIN h.queue, i < j
        PROVE  h.queue[i].id < h.queue[j].id
    <3>1. i \in DOMAIN host.queue
      BY <1>4, <1>7, <2>5
    <3>2. CASE j \in DOMAIN host.queue
      BY <2>3, <2>5, <3>1, <3>2 DEF IInv, Queue
    <3>3. CASE j \notin DOMAIN host.queue
      BY <1>4, <1>7, <2>2, <2>3, <3>1, <3>3
    <3> QED BY <3>2, <3>3
  <2> QED BY <2>4, <2>5 DEF QueueIsOrdered
<1>10. \A s \in host.recent : s.by # event.id
  <2>1. \A s \in host.recent : s.by \in Nat /\ s.by <= host.events
    BY <1>1, SourceFields, Constants DEF IInv, Recents, HostType
  <2> QED BY <1>1, <1>8, <2>1
<1>11. CASE host.at = "idle"
  <2>1. host' = Flush(h) /\ toView' = toView \o FirstCall(h)
    BY <1>11 DEF OpenFileEvent, event, h
  <2>2. /\ NoneMain(toMain) /\ NoneView(toView) /\ Elsewhere0
        /\ host.results = {}
    BY <1>11, Idle
  <2>3. \A i \in DOMAIN h.queue : \A s \in h.recent :
          s.by # 0 => h.queue[i].id # s.by
    <3>1. \A i \in DOMAIN host.queue : \A s \in host.recent :
            s.by # 0 => host.queue[i].id # s.by
      BY <2>2 DEF IInv, Recents, Acknowledged, NoneMain, NoneView,
         DispatchMain, DispatchView
    <3> QED BY <1>4, <1>7, <1>10, <3>1
  <2>4. UNCHANGED <<session, view, work, toMain, seen, user>>
    BY DEF OpenFileEvent
  <2>5. OneMain(toMain') /\ toMain' \in Seq(ToMain) /\ NoneMain(toMain')
        /\ Msgs(toMain') \subseteq Msgs(toMain)
    BY <1>1, <2>2, <2>4 DEF IInv, Channels
  <2> QED
    BY <1>6, <1>7, <1>9, <2>1, <2>2, <2>3, <2>4, <2>5, FlushKeeps
<1>12. CASE host.at # "idle"
  <2>1. host' = h /\ UNCHANGED <<session, view, work, toMain, toView, seen, user>>
    BY <1>12 DEF OpenFileEvent, event, h
  <2>2. host.queue # <<>> /\ host.ready
    BY <1>12 DEF IInv, Queue
  <2>3. Head(host.queue) = host.queue[1] /\ 1 \in DOMAIN host.queue
    BY <1>3, <2>2, TailOf
  <2>4. h.queue # <<>>
    BY <1>4, <1>7, <2>3
  <2>5. Head(h.queue) = h.queue[1]
    BY <1>6, <2>4, HeadOfQueue
  <2>6. HeadId' = HeadId
    BY <1>4, <1>7, <2>1, <2>3, <2>5 DEF HeadId
  <2>7. TypeOK'
    BY <1>6, <2>1, Types DEF IInv, TypeOK, HostType, ToMain, ToView
  <2>8. Channels' /\ Elsewhere'
    BY <1>7, <2>1, <2>6 DEF IInv, Channels, Elsewhere
  <2>9. Queue'
    BY <1>7, <1>9, <1>12, <2>1, <2>2, <2>4, <2>6
       DEF IInv, Queue, QueueIsOrdered, IdleQueueWasTried
  <2>10. Messages' /\ Requests' /\ Sources'
    BY <1>7, <2>1, <2>6
       DEF IInv, Messages, Requests, Sources, MainSays, ViewSays, OpenSays,
           ResultSays, Newer, ActiveUser, HostFileOpenIsActive, IsActiveRequest
  <2>11. Recents'
    <3>1. \A s \in host.recent : s.by <= host.events + 1
      BY <1>1, SourceFields, Constants DEF IInv, Recents, HostType
    <3>2. ASSUME NEW s \in host.recent, NEW i \in DOMAIN h.queue, s.by # 0,
                 h.queue[i].id = s.by
          PROVE  i = 1 /\ Acknowledged
      <4>1. i \in DOMAIN host.queue /\ h.queue[i] = host.queue[i]
        BY <1>4, <1>7, <1>10, <3>2
      <4> QED BY <3>2, <4>1 DEF IInv, Recents
    <3>3. Acknowledged => Acknowledged'
      BY <2>1 DEF Acknowledged
    <3> QED
      BY <1>7, <2>1, <3>1, <3>2, <3>3 DEF IInv, Recents
  <2> QED BY <2>7, <2>8, <2>9, <2>10, <2>11 DEF IInv
<1> QED BY <1>11, <1>12

LEMMA RendererReadyKeeps ==
  ASSUME IInv, RendererReady, UNCHANGED user
  PROVE  IInv'
<1> DEFINE h == [host EXCEPT !.ready = TRUE]
<1>1. host \in HostType /\ toMain \in Seq(ToMain)
  BY Types DEF IInv
<1>2. h \in HostType
  BY <1>1 DEF HostType
<1>3. /\ h.queue = host.queue /\ h.events = host.events
      /\ h.results = host.results /\ h.recent = host.recent
  BY <1>1 DEF HostType
<1>4. /\ host' = Flush(h) /\ toView' = toView \o FirstCall(h)
      /\ UNCHANGED <<session, view, work, toMain, seen, user>>
  BY DEF RendererReady
<1> HIDE DEF h
<1>5. host.at = "idle"
  BY DEF RendererReady, IInv, Queue
<1>6. /\ NoneMain(toMain) /\ NoneView(toView) /\ Elsewhere0
      /\ host.results = {}
  BY <1>5, Idle
<1>7. QueueIsOrdered(h)
  BY <1>3 DEF IInv, Queue, QueueIsOrdered
<1>8. \A i \in DOMAIN h.queue : \A s \in h.recent :
        s.by # 0 => h.queue[i].id # s.by
  BY <1>3, <1>6 DEF IInv, Recents, Acknowledged, NoneMain, NoneView,
     DispatchMain, DispatchView
<1>9. OneMain(toMain') /\ toMain' \in Seq(ToMain) /\ NoneMain(toMain')
      /\ Msgs(toMain') \subseteq Msgs(toMain)
  BY <1>1, <1>4, <1>6 DEF IInv, Channels
<1> QED
  BY <1>2, <1>3, <1>4, <1>6, <1>7, <1>8, <1>9, FlushKeeps

\* The head leaves the queue: what is recorded is not in the rest of it.
LEMMA Dequeued ==
  ASSUME IInv, host.queue # <<>>, NEW h, h.queue = Tail(host.queue),
         h.events = host.events, h.recent = host.recent
  PROVE  /\ QueueIsOrdered(h)
         /\ \A i \in DOMAIN h.queue : \A s \in h.recent :
              s.by # 0 => h.queue[i].id # s.by
<1>1. host \in HostType
  BY Types DEF IInv
<1>2. host.queue \in Seq([id : 1 .. MaxEvents, file : Files])
  BY <1>1 DEF HostType
<1>3. \A i \in DOMAIN h.queue :
        i \in Nat /\ i + 1 \in DOMAIN host.queue /\ h.queue[i] = host.queue[i + 1]
  BY <1>2, TailIndex
<1>4. \A i \in DOMAIN h.queue : h.queue[i].id <= h.events
  BY <1>3 DEF IInv, Queue
<1>5. \A i, j \in DOMAIN h.queue : i < j => h.queue[i].id < h.queue[j].id
  <2>1. ASSUME NEW i \in DOMAIN h.queue, NEW j \in DOMAIN h.queue, i < j
        PROVE  h.queue[i].id < h.queue[j].id
    <3>1. i + 1 < j + 1
      BY <1>3, <2>1
    <3> QED BY <1>3, <3>1 DEF IInv, Queue
  <2> QED BY <2>1
<1>6. ASSUME NEW i \in DOMAIN h.queue, NEW s \in h.recent, s.by # 0,
             h.queue[i].id = s.by
      PROVE  FALSE
  <2>1. i + 1 = 1
    BY <1>3, <1>6 DEF IInv, Recents
  <2> QED BY <1>3, <2>1
<1> QED BY <1>4, <1>5, <1>6 DEF QueueIsOrdered

LEMMA EventDeniedKeeps ==
  ASSUME IInv, EventDenied, UNCHANGED user
  PROVE  IInv'
<1> DEFINE h == Consumed(host)
<1>1. /\ toMain # <<>> /\ Head(toMain).type = "denied"
      /\ toMain' = Tail(toMain) /\ toView' = toView \o FirstCall(h)
      /\ host' = Flush(h) /\ UNCHANGED <<session, view, work, seen, user>>
  BY DEF EventDenied, MainReceives
<1>2. /\ host.at = "authorize" /\ host.queue # <<>>
      /\ NoneView(toView) /\ Elsewhere0
  BY <1>1, MainReceived, TokenInMain DEF DispatchMain, Phase
<1>3. /\ toMain' \in Seq(ToMain) /\ NoneMain(toMain') /\ OneMain(toMain')
      /\ Msgs(toMain') \subseteq Msgs(toMain)
  BY <1>1, MainReceived DEF DispatchMain
<1>4. host \in HostType
  BY Types DEF IInv
<1>5. Tail(host.queue) \in Seq([id : 1 .. MaxEvents, file : Files])
  BY <1>2, <1>4, TailOf DEF HostType
<1>6. h \in HostType
  BY <1>4, <1>5 DEF HostType, Consumed
<1>7. /\ h.queue = Tail(host.queue) /\ h.events = host.events
      /\ h.results = host.results /\ h.recent = host.recent
  BY <1>4 DEF HostType, Consumed
<1>8. host.results = {}
  BY <1>2 DEF IInv, Queue
<1> HIDE DEF h
<1> QED
  BY <1>1, <1>2, <1>3, <1>6, <1>7, <1>8, Dequeued, FlushKeeps

LEMMA EventAcceptedKeeps ==
  ASSUME IInv, EventAccepted, UNCHANGED user
  PROVE  IInv'
<1> DEFINE h == Consumed(DropResult(host))
<1>1. /\ toMain # <<>> /\ Head(toMain).type = "accepted"
      /\ toMain' = Tail(toMain)
      /\ toView' = toView \o FirstCall(Consumed(host))
      /\ host' = Flush(h) /\ UNCHANGED <<session, view, work, seen, user>>
  BY DEF EventAccepted, MainReceives
<1>2. host.queue # <<>> /\ NoneView(toView) /\ Elsewhere0
  BY <1>1, MainReceived, TokenInMain DEF DispatchMain
<1>3. /\ toMain' \in Seq(ToMain) /\ NoneMain(toMain') /\ OneMain(toMain')
      /\ Msgs(toMain') \subseteq Msgs(toMain)
  BY <1>1, MainReceived DEF DispatchMain
<1>4. host \in HostType
  BY Types DEF IInv
<1>5. Tail(host.queue) \in Seq([id : 1 .. MaxEvents, file : Files])
  BY <1>2, <1>4, TailOf DEF HostType
<1>6. {r \in host.results : r.id # Head(host.queue).id} = {}
  BY DEF IInv, Queue, HeadId
<1>7. DropResult(host) = [host EXCEPT !.results = {}]
  BY <1>6 DEF DropResult
<1>8. h = [host EXCEPT !.results = {}, !.queue = Tail(@)]
  BY <1>4, <1>7 DEF Consumed, HostType
<1>9. h \in HostType
  BY <1>4, <1>5, <1>8 DEF HostType
<1>10. /\ h.queue = Tail(host.queue) /\ h.events = host.events
       /\ h.results = {} /\ h.recent = host.recent /\ h.ready = host.ready
  BY <1>4, <1>8 DEF HostType
<1>11. /\ Consumed(host).queue = Tail(host.queue)
       /\ Consumed(host).ready = host.ready
  BY <1>4 DEF Consumed, HostType
<1>12. FirstCall(Consumed(host)) = FirstCall(h)
  BY <1>10, <1>11 DEF FirstCall, Flushes
<1> HIDE DEF h
<1> QED
  BY <1>1, <1>2, <1>3, <1>9, <1>10, <1>12, Dequeued, FlushKeeps

\* What messages, opens and results say depends on these only.
LEMMA Latest ==
  ASSUME IInv
  PROVE  session.latest \in Nat /\ session.latest <= session.latest
BY Types DEF IInv, SessionType

LEMMA SameMeaning ==
  ASSUME HeadId' = HeadId, seen' = seen,
         session.latest \in Nat, session'.latest \in Nat,
         session.latest <= session'.latest,
         view'.request = view.request, view'.event = view.event,
         view'.eventRequest = view.eventRequest, view'.calls \subseteq view.calls
  PROVE  /\ \A m : MainSays(m) => MainSays(m)'
         /\ \A m : ViewSays(m) => ViewSays(m)'
         /\ \A o : OpenSays(o) => OpenSays(o)'
         /\ \A r : ResultSays(r) => ResultSays(r)'
BY DEF MainSays, ViewSays, OpenSays, ResultSays, Newer, ActiveUser, Asks,
   HostFileOpenIsActive, IsActiveRequest

\* Acknowledgements are lost by the head of a channel only.
LEMMA SameRecents ==
  ASSUME IInv, UNCHANGED <<seen, host.queue, host.recent, host.events>>,
         Acknowledged => Acknowledged'
  PROVE  Recents'
BY DEF IInv, Recents

LEMMA EventAuthorizedKeeps ==
  ASSUME IInv, EventAuthorized, UNCHANGED user
  PROVE  IInv'
<1> DEFINE m == Message("begin", HeadId, Refused)
<1>1. /\ toMain # <<>> /\ Head(toMain).type = "authorized"
      /\ toMain' = Tail(toMain) /\ toView' = toView \o <<m>>
      /\ host' = [host EXCEPT !.at = "begin"]
      /\ UNCHANGED <<session, view, work, seen, user>>
  BY DEF EventAuthorized, MainReceives, Signal, HeadId
<1>2. /\ host.at = "authorize" /\ host.queue # <<>> /\ host.ready
      /\ NoneView(toView) /\ Elsewhere0
  BY <1>1, MainReceived, TokenInMain DEF DispatchMain, Phase
<1>3. /\ toMain' \in Seq(ToMain) /\ NoneMain(toMain') /\ OneMain(toMain')
      /\ Msgs(toMain) = Msgs(toMain') \cup {Head(toMain)}
  BY <1>1, MainReceived DEF DispatchMain
<1>4. host \in HostType /\ toView \in Seq(ToView) /\ OneView(toView)
  BY Types DEF IInv, Channels
<1>5. /\ host' \in HostType /\ host'.at = "begin" /\ host'.ready
      /\ UNCHANGED <<host.queue, host.events, host.results, host.recent,
                     host.ready>>
  BY <1>1, <1>2, <1>4 DEF HostType
<1>6. HeadId \in Nat /\ HeadId' = HeadId
  BY <1>2, <1>4, <1>5, HeadOfQueue DEF HeadId
<1>7. m \in ToView /\ m.type = "begin" /\ m.id = HeadId
  BY <1>6, MessageFields, Constants DEF ToViewType
<1> HIDE DEF m
<1>8. /\ toView' \in Seq(ToView) /\ OneView(toView')
      /\ Msgs(toView') = Msgs(toView) \cup {m}
  BY <1>1, <1>2, <1>4, <1>7, ViewSent
<1>9. TypeOK'
  BY <1>1, <1>3, <1>5, <1>8, Types DEF IInv, TypeOK, HostType, ToMain, ToView
<1>10. Channels'
  BY <1>2, <1>3, <1>5, <1>7, <1>8 DEF Channels, NoneMain, NoneView, Phase
<1>11. Elsewhere' /\ Queue'
  BY <1>1, <1>2, <1>5, <1>6
     DEF IInv, Elsewhere, Elsewhere0, Queue, IdleQueueWasTried
<1>12. Messages'
  BY <1>1, <1>3, <1>6, <1>7, <1>8, SameMeaning, Latest
     DEF IInv, Messages, ViewSays
<1>13. Requests' /\ Sources'
  BY <1>1, <1>5, <1>6, SameMeaning, Latest DEF IInv, Requests, Sources
<1>14. Recents'
  BY <1>1, <1>3, <1>5, <1>8, SameRecents DEF Acknowledged
<1> QED
  BY <1>9, <1>10, <1>11, <1>12, <1>13, <1>14 DEF IInv

LEMMA EventRejectedKeeps ==
  ASSUME IInv, EventRejected, UNCHANGED user
  PROVE  IInv'
<1>1. /\ toMain # <<>> /\ Head(toMain).type = "rejected"
      /\ toMain' = Tail(toMain) /\ toView' = toView \o <<>>
      /\ host' = [DropResult(host) EXCEPT
                !.at = "idle", !.tried = Head(host.queue).id,
                !.staged = {s \in @ : s.by # Head(host.queue).id}]
      /\ UNCHANGED <<session, view, work, seen, user>>
  BY DEF EventRejected, MainReceives
<1>2. host.queue # <<>> /\ NoneView(toView) /\ Elsewhere0
  BY <1>1, MainReceived, TokenInMain DEF DispatchMain
<1>3. /\ toMain' \in Seq(ToMain) /\ NoneMain(toMain') /\ OneMain(toMain')
      /\ Msgs(toMain) = Msgs(toMain') \cup {Head(toMain)}
  BY <1>1, MainReceived DEF DispatchMain
<1>4. host \in HostType /\ toView' = toView
  BY <1>1, Types, SameSequence DEF IInv
<1>5. {r \in host.results : r.id # Head(host.queue).id} = {}
  BY DEF IInv, Queue, HeadId
<1>6. DropResult(host) = [host EXCEPT !.results = {}]
  BY <1>5 DEF DropResult
<1>7. Head(host.queue).id \in 0 .. MaxEvents
  BY <1>2, <1>4, HeadOfQueue, Constants
<1>8. /\ host' \in HostType /\ host'.at = "idle" /\ host'.results = {}
      /\ host'.tried = Head(host.queue).id
      /\ UNCHANGED <<host.queue, host.events, host.recent, host.ready>>
  BY <1>1, <1>4, <1>6, <1>7 DEF HostType
<1>9. HeadId' = HeadId
  BY <1>8 DEF HeadId
<1>10. TypeOK'
  BY <1>1, <1>3, <1>4, <1>8, Types DEF IInv, TypeOK, HostType, ToMain, ToView
<1>11. Channels'
  BY <1>2, <1>3, <1>4 DEF IInv, Channels, NoneMain, NoneView
<1>12. Elsewhere' /\ Queue'
  BY <1>1, <1>2, <1>8, <1>9
     DEF IInv, Elsewhere, Elsewhere0, Queue, IdleQueueWasTried
<1>13. Messages'
  BY <1>1, <1>3, <1>4, <1>9, SameMeaning, Latest DEF IInv, Messages
<1>14. Requests' /\ Sources'
  BY <1>1, <1>8, <1>9, SameMeaning, Latest DEF IInv, Requests, Sources
<1>15. Recents'
  BY <1>1, <1>3, <1>4, <1>8, SameRecents DEF Acknowledged
<1> QED
  BY <1>10, <1>11, <1>12, <1>13, <1>14, <1>15 DEF IInv

-----------------------------------------------------------------------------
(* The session and the Recent list *)

LEMMA PathOpened ==
  ASSUME IInv, NEW file \in Files, NEW event \in 0 .. MaxEvents,
         NEW caller \in Nat, session' = OpenPath(file, event, caller)
  PROVE  \E o \in session'.opens :
           /\ session' \in SessionType
           /\ session'.opens = session.opens \cup {o}
           /\ session'.latest = session.latest + 1
           /\ session'.active = session.active
           /\ session'.pickers = session.pickers \ {caller}
           /\ o.src.n = session'.latest /\ o.src.by = event
           /\ o.src.file = file /\ o.caller = caller /\ Newer(o.src)
<1> DEFINE src == [n |-> session.latest + 1, file |-> file, by |-> event]
           o == [src |-> src, caller |-> caller]
<1>1. session \in SessionType /\ session.latest + 1 \in Nat /\ session.latest \in Nat
  BY Types DEF IInv, SessionType
<1>2. src \in Source
  BY <1>1 DEF Source
<1>3. o \in [src : Source, caller : Nat]
  BY <1>2
<1>4. session' = [session EXCEPT !.latest = session.latest + 1,
                                 !.opens = @ \cup {o},
                                 !.pickers = @ \ {caller}]
  BY DEF OpenPath
<1>5. o.src = src /\ o.caller = caller /\ src.n = session.latest + 1
      /\ src.by = event /\ src.file = file
  OBVIOUS
<1> HIDE DEF src, o
<1>6. /\ session' \in SessionType
      /\ session'.opens = session.opens \cup {o}
      /\ session'.latest = session.latest + 1
      /\ session'.active = session.active
      /\ session'.pickers = session.pickers \ {caller}
  BY <1>1, <1>3, <1>4 DEF SessionType
<1>7. Newer(src)
  <2>1. \A t \in seen : t.n \in Nat /\ t.n <= session.latest
    BY <1>1 DEF IInv, Sources
  <2> QED BY <1>1, <1>5, <2>1 DEF Newer
<1> QED BY <1>5, <1>6, <1>7

LEMMA EventBegunKeeps ==
  ASSUME IInv, EventBegun, UNCHANGED user
  PROVE  IInv'
<1>1. /\ toMain # <<>> /\ Head(toMain).type = "begun"
      /\ toMain' = Tail(toMain) /\ toView' = toView \o <<>>
      /\ host' = [host EXCEPT !.at = "open", !.staged = {}]
      /\ session' = OpenPath(Head(host.queue).file, Head(host.queue).id, 0)
      /\ UNCHANGED <<view, work, seen, user>>
  BY DEF EventBegun, MainReceives
<1>2. /\ host.at = "begin" /\ host.queue # <<>> /\ host.ready
      /\ NoneView(toView) /\ Elsewhere0
  BY <1>1, MainReceived, TokenInMain DEF DispatchMain, Phase
<1>3. /\ toMain' \in Seq(ToMain) /\ NoneMain(toMain') /\ OneMain(toMain')
      /\ Msgs(toMain) = Msgs(toMain') \cup {Head(toMain)}
  BY <1>1, MainReceived DEF DispatchMain
<1>4. host \in HostType /\ toView' = toView
  BY <1>1, Types, SameSequence DEF IInv
<1>5. /\ host' \in HostType /\ host'.at = "open" /\ host'.ready
      /\ UNCHANGED <<host.queue, host.events, host.results, host.recent>>
  BY <1>1, <1>2, <1>4 DEF HostType
<1>6. /\ HeadId' = HeadId /\ HeadId # 0 /\ HeadId \in 0 .. MaxEvents
      /\ Head(host.queue).file \in Files
  BY <1>2, <1>4, <1>5, HeadOfQueue, Constants DEF HeadId
<1>7. PICK o \in session'.opens :
           /\ session' \in SessionType
           /\ session'.opens = session.opens \cup {o}
           /\ session'.latest = session.latest + 1
           /\ session'.active = session.active
           /\ session'.pickers = session.pickers \ {0}
           /\ o.src.n = session'.latest /\ o.src.by = HeadId
           /\ o.src.file \in Files /\ o.caller = 0 /\ Newer(o.src)
  BY <1>1, <1>6, PathOpened DEF HeadId
<1>8. /\ session.latest \in Nat /\ session'.latest \in Nat
      /\ session.latest <= session'.latest /\ session'.latest \in 1 .. session'.latest
      /\ view.request \in Nat
  BY <1>7, Types DEF IInv, SessionType, ViewType
<1>9. TypeOK'
  BY ZenonT(40), <1>1, <1>3, <1>4, <1>5, <1>7, Types
     DEF IInv, TypeOK, HostType, SessionType, ToMain, ToView
<1>10. Channels'
  BY <1>2, <1>3, <1>4 DEF IInv, Channels, NoneMain, NoneView
<1>11. Elsewhere' /\ Queue'
  <2>1. host.results = {}
    BY <1>2 DEF IInv, Queue
  <2> QED BY <1>1, <1>2, <1>5, <1>6, <1>7, <2>1
     DEF IInv, Elsewhere, Elsewhere0, Queue, IdleQueueWasTried
<1>12. Messages'
  BY <1>1, <1>3, <1>4, <1>6, <1>8, SameMeaning DEF IInv, Messages
<1>13. Requests'
  BY <1>1, <1>7 DEF IInv, Requests
<1>14. Sources'
  <2>1. OpenSays(o)'
    BY <1>1, <1>6, <1>7, <1>8 DEF OpenSays, Newer
  <2>2. \A p \in session'.opens : OpenSays(p)'
    BY <1>1, <1>6, <1>7, <1>8, <2>1, SameMeaning DEF IInv, Sources
  <2>3. \A t \in seen : t.n \in 1 .. session'.latest
    BY <1>8 DEF IInv, Sources
  <2> QED BY <1>1, <1>5, <1>6, <1>8, <2>2, <2>3, SameMeaning
          DEF IInv, Sources
<1>15. Recents'
  BY <1>1, <1>3, <1>4, <1>5, SameRecents DEF Acknowledged
<1> QED
  BY <1>9, <1>10, <1>11, <1>12, <1>13, <1>14, <1>15 DEF IInv

\* An open a user asked for, by path or with the dialog.
LEMMA UserOpenKeeps ==
  ASSUME IInv, NEW file \in Files, NEW caller \in 1 .. view.request,
         session' = OpenPath(file, 0, caller),
         host' = [host EXCEPT !.staged = {}],
         toMain' \in Seq(ToMain), OneMain(toMain'),
         \A m \in Msgs(toMain) \ Msgs(toMain') : ~DispatchMain(m),
         Msgs(toMain') \subseteq Msgs(toMain),
         UNCHANGED <<toView, view, work, seen, user>>
  PROVE  IInv'
<1>1. host \in HostType /\ view.request \in Nat /\ caller \in Nat /\ caller # 0
  BY Types DEF IInv, ViewType
<1>2. /\ host' \in HostType
      /\ UNCHANGED <<host.at, host.ready, host.queue, host.events,
                     host.results, host.recent, host.tried>>
  BY <1>1 DEF HostType
<1>3. HeadId' = HeadId /\ 0 \in 0 .. MaxEvents
  BY <1>2, Constants DEF HeadId
<1>4. PICK o \in session'.opens :
           /\ session' \in SessionType
           /\ session'.opens = session.opens \cup {o}
           /\ session'.latest = session.latest + 1
           /\ session'.active = session.active
           /\ session'.pickers = session.pickers \ {caller}
           /\ o.src.n = session'.latest /\ o.src.by = 0
           /\ o.src.file \in Files /\ o.caller = caller /\ Newer(o.src)
  BY <1>1, <1>3, PathOpened
<1>5. /\ session.latest \in Nat /\ session'.latest \in Nat
      /\ session.latest <= session'.latest /\ session'.latest \in 1 .. session'.latest
  BY <1>4, Types DEF IInv, SessionType
<1>6. TypeOK'
  BY <1>2, <1>4, Types
     DEF IInv, TypeOK, HostType, SessionType, ToMain, ToView
<1>7. Channels'
  BY <1>2 DEF IInv, Channels, NoneMain
<1>8. Elsewhere' /\ Queue'
  BY <1>1, <1>2, <1>3, <1>4
     DEF IInv, Elsewhere, Queue, IdleQueueWasTried, NoneMain
<1>9. Messages'
  BY <1>3, <1>5, SameMeaning DEF IInv, Messages
<1>10. Requests'
  BY <1>4 DEF IInv, Requests
<1>11. Sources'
  <2>1. OpenSays(o)'
    BY <1>1, <1>4, <1>5 DEF OpenSays, Newer
  <2>2. \A p \in session'.opens : OpenSays(p)'
    BY <1>3, <1>4, <1>5, <2>1, SameMeaning DEF IInv, Sources
  <2>3. \A t \in seen : t.n \in 1 .. session'.latest
    BY <1>5 DEF IInv, Sources
  <2> QED BY <1>2, <1>3, <1>5, <2>2, <2>3, SameMeaning DEF IInv, Sources
<1>12. Recents'
  <2>1. Acknowledged => Acknowledged'
    BY DEF Acknowledged, DispatchMain
  <2> QED BY <1>2, <2>1, SameRecents
<1> QED
  BY <1>6, <1>7, <1>8, <1>9, <1>10, <1>11, <1>12 DEF IInv

LEMMA OpenRequestedKeeps ==
  ASSUME IInv, NEW type \in {"open", "recent"}, OpenRequested(type),
         UNCHANGED user
  PROVE  IInv'
<1>1. /\ toMain # <<>> /\ Head(toMain).type = type
      /\ toMain' = Tail(toMain) /\ toView' = toView \o <<>>
      /\ host' = [host EXCEPT !.staged = {}]
      /\ session' = OpenPath(Head(toMain).result.src.file, 0, Head(toMain).id)
      /\ UNCHANGED <<view, work, seen, user>>
  BY DEF OpenRequested, MainReceives
<1>2. /\ toMain' \in Seq(ToMain) /\ OneMain(toMain')
      /\ Msgs(toMain) = Msgs(toMain') \cup {Head(toMain)}
      /\ ~DispatchMain(Head(toMain))
  BY <1>1, MainReceived DEF DispatchMain
<1>3. MainSays(Head(toMain))
  BY <1>2 DEF IInv, Messages
<1>4. /\ Head(toMain).result.src.file \in Files
      /\ Head(toMain).id \in 1 .. view.request
  BY <1>1, <1>3 DEF MainSays, Asks
<1>5. toView' = toView
  BY <1>1, Types, SameSequence DEF IInv
<1> QED BY <1>1, <1>2, <1>4, <1>5, UserOpenKeeps

LEMMA PickedKeeps ==
  ASSUME IInv, NEW request \in session.pickers, NEW file \in Files,
         Picked(request, file), UNCHANGED user
  PROVE  IInv'
<1>1. /\ host' = [host EXCEPT !.staged = {}]
      /\ session' = OpenPath(file, 0, request)
      /\ UNCHANGED <<view, work, toMain, toView, seen, user>>
  BY DEF Picked
<1>2. request \in 1 .. view.request
  BY DEF IInv, Requests
<1>3. toMain' \in Seq(ToMain) /\ OneMain(toMain')
  BY <1>1, Types DEF IInv, Channels
<1> QED BY <1>1, <1>2, <1>3, UserOpenKeeps

\* A step of the main process that is none of the dispatch: it may answer the
\* renderer, end opens and pickers, and change nothing that is queued.
LEMMA MainKeeps ==
  ASSUME IInv,
         toMain' \in Seq(ToMain), OneMain(toMain'),
         \A m \in Msgs(toMain) \ Msgs(toMain') : ~DispatchMain(m),
         Msgs(toMain') \subseteq Msgs(toMain),
         toView' \in Seq(ToView), OneView(toView'),
         Msgs(toView) \subseteq Msgs(toView'),
         \A m \in Msgs(toView') \ Msgs(toView) : ~DispatchView(m) /\ ViewSays(m),
         host' \in HostType,
         UNCHANGED <<host.at, host.ready, host.queue, host.events,
                     host.results, host.recent, host.tried>>,
         session' \in SessionType, session'.latest = session.latest,
         session'.opens \subseteq session.opens,
         session'.pickers \subseteq 1 .. view.request,
         UNCHANGED <<view, work, seen, user>>
  PROVE  IInv'
<1>1. HeadId' = HeadId
  BY DEF HeadId
<1>2. TypeOK'
  BY Types DEF IInv, TypeOK, HostType, SessionType, ToMain, ToView
<1>3. Channels'
  BY DEF IInv, Channels, NoneMain, NoneView
<1>4. Elsewhere' /\ Queue'
  BY <1>1 DEF IInv, Elsewhere, Queue, IdleQueueWasTried, NoneMain, NoneView
<1>5. Messages'
  BY <1>1, SameMeaning, Latest DEF IInv, Messages
<1>6. Requests'
  BY DEF IInv, Requests
<1>7. Sources'
  BY <1>1, SameMeaning, Latest DEF IInv, Sources
<1>8. Recents'
  <2>1. Acknowledged => Acknowledged'
    BY DEF Acknowledged, DispatchMain
  <2> QED BY <2>1, SameRecents
<1> QED
  BY <1>2, <1>3, <1>4, <1>5, <1>6, <1>7, <1>8 DEF IInv

LEMMA OutcomeOf ==
  ASSUME IInv, NEW o \in session.opens, NEW accepted \in BOOLEAN
  PROVE  /\ Outcomes(o.src, accepted) \in Result
         /\ Outcomes(o.src, accepted).ok = "source" =>
              Outcomes(o.src, accepted).src = o.src
         /\ Activate(o.src, accepted) \in Source
<1>1. o.src \in Source /\ session.active \in Source
  BY Types DEF IInv, SessionType
<1> QED
  BY <1>1, Constants DEF Outcomes, Activate, Result, Outcome

LEMMA Staged ==
  ASSUME NEW h \in HostType, NEW result \in Result
  PROVE  /\ Stage(h, result) \in HostType
         /\ Stage(h, result).at = h.at /\ Stage(h, result).queue = h.queue
         /\ Stage(h, result).ready = h.ready
         /\ Stage(h, result).events = h.events
         /\ Stage(h, result).results = h.results
         /\ Stage(h, result).recent = h.recent
         /\ Stage(h, result).tried = h.tried
<1>1. result.src \in Source
  BY DEF Result
<1> QED BY <1>1 DEF Stage, HostType

LEMMA SessionAnswersKeeps ==
  ASSUME IInv, SessionAnswers, UNCHANGED user
  PROVE  IInv'
<1>1. PICK o \in session.opens, accepted \in BOOLEAN :
    LET result == Outcomes(o.src, accepted)
    IN /\ session' = [session EXCEPT !.opens = @ \ {o},
                                     !.active = Activate(o.src, accepted)]
       /\ IF o.caller = 0
          THEN /\ host' = [Stage(host, result) EXCEPT
                             !.at = "complete",
                             !.results = @ \cup
                               {[id |-> o.src.by, result |-> result]}]
               /\ toView' = toView \o Signal("complete", o.src.by)
          ELSE /\ host' = Stage(host, result)
               /\ toView' = Append(toView,
                              Message("answered", o.caller, result))
       /\ UNCHANGED <<view, work, toMain, seen>>
  BY DEF SessionAnswers
<1> DEFINE result == Outcomes(o.src, accepted)
<1>2. result \in Result /\ (result.ok = "source" => result.src = o.src)
      /\ Activate(o.src, accepted) \in Source
  BY OutcomeOf
<1>3. /\ host \in HostType /\ session \in SessionType
      /\ toMain \in Seq(ToMain) /\ toView \in Seq(ToView)
      /\ OneMain(toMain) /\ OneView(toView)
      /\ o.caller \in Nat /\ o.src \in Source
  BY Types DEF IInv, Channels, SessionType
<1>4. /\ session' \in SessionType /\ session'.latest = session.latest
      /\ session'.opens = session.opens \ {o}
      /\ session'.pickers = session.pickers
  BY <1>1, <1>2, <1>3 DEF SessionType
<1>5. OpenSays(o)
  BY DEF IInv, Sources
<1>6. CASE o.caller # 0
  <2> DEFINE m == Message("answered", o.caller, result)
  <2>1. m \in ToView /\ m.type = "answered" /\ m.id = o.caller
        /\ m.result = result
    BY <1>2, <1>3, MessageFields DEF ToViewType
  <2>2. toView' = Append(toView, m) /\ host' = Stage(host, result)
        /\ UNCHANGED <<view, work, toMain, seen, user>>
    BY <1>1, <1>6
  <2> HIDE DEF m, result
  <2>3. ~DispatchView(m)
    BY <2>1 DEF DispatchView
  <2>4. /\ toView' \in Seq(ToView) /\ OneView(toView')
        /\ Msgs(toView') = Msgs(toView) \cup {m}
    BY <1>3, <2>1, <2>2, <2>3, ViewSent
  <2>5. view.request \in Nat
    BY Types DEF IInv, ViewType
  <2>6. ViewSays(m)
    BY <1>2, <1>3, <1>5, <1>6, <2>1, <2>3, <2>5 DEF ViewSays, OpenSays
  <2>7. session'.pickers \subseteq 1 .. view.request
    BY <1>4 DEF IInv, Requests
  <2>8. /\ host' \in HostType
        /\ UNCHANGED <<host.at, host.ready, host.queue, host.events,
                     host.results, host.recent, host.tried>>
    BY <1>2, <1>3, <2>2, Staged
  <2> QED
    BY <1>3, <1>4, <2>2, <2>3, <2>4, <2>6, <2>7, <2>8, MainKeeps
<1>7. CASE o.caller = 0
  <2> DEFINE m == Message("complete", HeadId, Refused)
             r == [id |-> HeadId, result |-> result]
  <2>1. /\ host.at = "open" /\ o.src.by = HeadId
        /\ \A p \in session.opens : p.caller = 0 => p = o
    BY <1>5, <1>7 DEF IInv, Elsewhere, OpenSays
  <2>2. /\ NoneMain(toMain) /\ NoneView(toView) /\ ~view.asking
        /\ host.queue # <<>> /\ host.ready /\ host.results = {}
        /\ \A w \in work : ~Loading(w)
    BY <2>1 DEF IInv, Channels, Elsewhere, Queue, NoneMain, NoneView, Phase
  <2>3. HeadId \in 1 .. MaxEvents /\ HeadId \in Nat
    BY <1>3, <2>2, HeadOfQueue DEF HeadId
  <2>4. m \in ToView /\ m.type = "complete" /\ m.id = HeadId
    BY <2>3, MessageFields, Constants DEF ToViewType
  <2>5. r.id = HeadId /\ r.result = result
        /\ r \in [id : 1 .. MaxEvents, result : Result]
    BY <1>2, <2>3
  <2>6. /\ toView' = toView \o <<m>>
        /\ host' = [Stage(host, result) EXCEPT !.at = "complete",
                                               !.results = @ \cup {r}]
        /\ UNCHANGED <<view, work, toMain, seen, user>>
    BY <1>1, <1>7, <2>1 DEF Signal
  <2> HIDE DEF m, r, result
  <2>7. /\ toView' \in Seq(ToView) /\ OneView(toView')
        /\ Msgs(toView') = Msgs(toView) \cup {m}
    BY <1>3, <2>2, <2>4, <2>6, ViewSent
  <2>8. /\ host' \in HostType /\ host'.at = "complete" /\ host'.results = {r}
        /\ UNCHANGED <<host.ready, host.queue, host.events, host.recent>>
    <3> DEFINE h == Stage(host, result)
    <3>1. /\ h \in HostType /\ h.results = {} /\ h.queue = host.queue
          /\ h.ready = host.ready /\ h.events = host.events
          /\ h.recent = host.recent
      BY <1>2, <1>3, <2>2, Staged
    <3>2. host' = [h EXCEPT !.at = "complete", !.results = @ \cup {r}]
      BY <2>6
    <3> HIDE DEF h
    <3> QED BY <2>5, <3>1, <3>2 DEF HostType
  <2>9. HeadId' = HeadId
    BY <2>8 DEF HeadId
  <2>10. TypeOK'
    BY <1>3, <1>4, <2>6, <2>7, <2>8, Types
       DEF IInv, TypeOK, HostType, SessionType, ToMain, ToView
  <2>11. Channels'
    BY <2>2, <2>4, <2>6, <2>7, <2>8
       DEF IInv, Channels, NoneMain, NoneView, Phase
  <2>12. Elsewhere' /\ Queue'
    BY <1>4, <2>1, <2>2, <2>5, <2>6, <2>8, <2>9
       DEF IInv, Elsewhere, Queue, IdleQueueWasTried
  <2>13. Messages'
    <3>1. ViewSays(m)
      BY <2>4 DEF ViewSays
    <3> QED BY <1>4, <2>6, <2>7, <2>9, <3>1, SameMeaning, Latest
            DEF IInv, Messages
  <2>14. Requests'
    BY <1>4, <2>6 DEF IInv, Requests
  <2>15. Sources'
    <3>1. ResultSays(r)
      BY <1>2, <1>5, <1>7, <2>5 DEF ResultSays, OpenSays
    <3> QED BY <1>4, <2>6, <2>8, <2>9, <3>1, SameMeaning, Latest
            DEF IInv, Sources
  <2>16. Recents'
    BY <2>6, <2>7, <2>8, SameRecents DEF Acknowledged
  <2> QED
    BY <2>10, <2>11, <2>12, <2>13, <2>14, <2>15, <2>16 DEF IInv
<1> QED BY <1>6, <1>7

LEMMA ConsumeResultKeeps ==
  ASSUME IInv, toMain # <<>>, ConsumeResult, UNCHANGED user
  PROVE  IInv'
<1> DEFINE id == Head(toMain).id
           found == {r \in host.results : r.id = id}
           result == IF found = {} THEN Refused
                     ELSE (CHOOSE r \in found : TRUE).result
           m == Message("consumed", id, result)
<1>1. /\ Head(toMain).type = "consume"
      /\ toMain' = Tail(toMain) /\ toView' = toView \o <<m>>
      /\ host' = [host EXCEPT !.results = @ \ found]
      /\ UNCHANGED <<session, view, work, seen, user>>
  BY DEF ConsumeResult, MainReceives
<1>2. /\ host.at = "complete" /\ host.queue # <<>> /\ host.ready
      /\ NoneView(toView) /\ Elsewhere0
  BY <1>1, MainReceived, TokenInMain DEF DispatchMain, Phase
<1>3. /\ toMain' \in Seq(ToMain) /\ NoneMain(toMain') /\ OneMain(toMain')
      /\ Msgs(toMain) = Msgs(toMain') \cup {Head(toMain)}
      /\ id \in Nat
  BY <1>1, MainReceived DEF DispatchMain, ToMain
<1>4. host \in HostType /\ toView \in Seq(ToView) /\ OneView(toView)
  BY Types DEF IInv, Channels
<1>5. id = HeadId
  BY <1>1, <1>3 DEF IInv, Messages, MainSays
<1>6. /\ result \in Result
      /\ result.ok = "source" =>
           /\ result.src.n \in 1 .. session.latest
           /\ result.src.by = id
           /\ HostFileOpenIsActive(id) => Newer(result.src)
  <2>1. CASE found = {}
    BY <2>1, Constants
  <2>2. CASE found # {}
    <3> DEFINE r == CHOOSE x \in found : TRUE
    <3>1. r \in found
      BY <2>2
    <3>2. r \in host.results /\ r.id = id /\ result = r.result
      BY <2>2, <3>1
    <3> HIDE DEF r, result, found
    <3>3. r.result \in Result
      BY <1>4, <3>2 DEF HostType
    <3>4. ResultSays(r)
      BY <3>2 DEF IInv, Sources
    <3> QED BY <3>2, <3>3, <3>4 DEF ResultSays
  <2> QED BY <2>1, <2>2
<1> HIDE DEF result
<1>7. m \in ToView /\ m.type = "consumed" /\ m.id = id /\ m.result = result
  BY <1>3, <1>6, MessageFields DEF ToViewType
<1>8. /\ host' \in HostType /\ host'.results \subseteq host.results
      /\ UNCHANGED <<host.at, host.ready, host.queue, host.events,
                     host.recent, host.tried>>
  BY <1>1, <1>4 DEF HostType
<1> HIDE DEF m, found, id
<1>9. /\ toView' \in Seq(ToView) /\ OneView(toView')
      /\ Msgs(toView') = Msgs(toView) \cup {m}
  BY <1>1, <1>2, <1>4, <1>7, ViewSent
<1>10. HeadId' = HeadId
  BY <1>8 DEF HeadId
<1>11. TypeOK'
  BY <1>1, <1>3, <1>8, <1>9, Types DEF IInv, TypeOK, HostType, ToMain, ToView
<1>12. Channels'
  BY <1>2, <1>3, <1>7, <1>8, <1>9 DEF Channels, NoneMain, NoneView, Phase
<1>13. Elsewhere' /\ Queue'
  BY <1>1, <1>2, <1>8, <1>10
     DEF IInv, Elsewhere, Elsewhere0, Queue, IdleQueueWasTried
<1>14. Messages'
  <2>1. ViewSays(m)
    BY <1>5, <1>6, <1>7 DEF ViewSays
  <2> QED BY <1>1, <1>3, <1>9, <1>10, <2>1, SameMeaning, Latest
          DEF IInv, Messages
<1>15. Requests' /\ Sources'
  BY <1>1, <1>8, <1>10, SameMeaning, Latest DEF IInv, Requests, Sources
<1>16. Recents'
  BY <1>1, <1>3, <1>8, <1>9, SameRecents DEF Acknowledged
<1> QED
  BY <1>11, <1>12, <1>13, <1>14, <1>15, <1>16 DEF IInv

\* The sequence grows by one message that is none of the dispatch.
LEMMA Reply ==
  ASSUME IInv, NEW m \in ToView, ~DispatchView(m), ViewSays(m),
         toView' = toView \o <<m>>
  PROVE  /\ toView' \in Seq(ToView) /\ OneView(toView')
         /\ Msgs(toView) \subseteq Msgs(toView')
         /\ \A x \in Msgs(toView') \ Msgs(toView) :
              ~DispatchView(x) /\ ViewSays(x)
<1>1. toView \in Seq(ToView) /\ OneView(toView)
  BY Types DEF IInv, Channels
<1>2. /\ toView' \in Seq(ToView) /\ OneView(toView')
      /\ Msgs(toView') = Msgs(toView) \cup {m}
  BY <1>1, ViewSent
<1> QED BY <1>2

LEMMA NoReply ==
  ASSUME IInv, toView' = toView
  PROVE  /\ toView' \in Seq(ToView) /\ OneView(toView')
         /\ Msgs(toView) \subseteq Msgs(toView')
         /\ \A x \in Msgs(toView') \ Msgs(toView) :
              ~DispatchView(x) /\ ViewSays(x)
BY Types DEF IInv, Channels

LEMMA SameHost ==
  ASSUME IInv, host' = host
  PROVE  /\ host' \in HostType
         /\ UNCHANGED <<host.at, host.ready, host.queue, host.events,
                        host.results, host.recent, host.tried>>
BY Types DEF IInv

LEMMA SameSession ==
  ASSUME IInv, session' = session
  PROVE  /\ session' \in SessionType /\ session'.latest = session.latest
         /\ session'.opens \subseteq session.opens
         /\ session'.pickers \subseteq 1 .. view.request
BY Types DEF IInv, Requests

\* A call of the renderer that is none of the dispatch has been received.
LEMMA AskReceived ==
  ASSUME IInv, toMain # <<>>, toMain' = Tail(toMain),
         ~DispatchMain(Head(toMain))
  PROVE  /\ toMain' \in Seq(ToMain) /\ OneMain(toMain')
         /\ \A m \in Msgs(toMain) \ Msgs(toMain') : ~DispatchMain(m)
         /\ Msgs(toMain') \subseteq Msgs(toMain)
         /\ Head(toMain) \in ToMain /\ MainSays(Head(toMain))
<1>1. /\ toMain' \in Seq(ToMain) /\ OneMain(toMain')
      /\ Msgs(toMain) = Msgs(toMain') \cup {Head(toMain)}
      /\ Head(toMain) \in ToMain
  BY MainReceived
<1> QED BY <1>1 DEF IInv, Messages

\* A request is answered without an open: by a failure or a cancellation.
LEMMA AnswerSays ==
  ASSUME NEW id \in 1 .. view.request, view.request \in Nat,
         NEW type \in {"answered", "cancelled"},
         NEW result \in {Refused, Unopened}
  PROVE  /\ Message(type, id, result) \in ToView
         /\ ~DispatchView(Message(type, id, result))
         /\ ViewSays(Message(type, id, result))
<1> DEFINE m == Message(type, id, result)
<1>1. /\ m \in ToView /\ m.type = type /\ m.id = id /\ m.result = result
  BY MessageFields, Constants DEF ToViewType
<1>2. m.result.ok # "source"
  BY <1>1, Constants
<1> HIDE DEF m
<1>3. ~DispatchView(m) /\ ViewSays(m)
  BY <1>1, <1>2 DEF DispatchView, ViewSays
<1> QED BY <1>1, <1>3 DEF m

LEMMA RecentMissingKeeps ==
  ASSUME IInv, RecentMissing, UNCHANGED user
  PROVE  IInv'
<1> DEFINE m == Message("answered", Head(toMain).id, Unopened)
<1>1. /\ toMain # <<>> /\ Head(toMain).type = "recent"
      /\ toMain' = Tail(toMain) /\ toView' = toView \o <<m>>
      /\ UNCHANGED <<host, session, view, work, seen, user>>
  BY DEF RecentMissing, MainReceives
<1>2. ~DispatchMain(Head(toMain))
  BY <1>1 DEF DispatchMain
<1>3. Head(toMain).id \in 1 .. view.request /\ view.request \in Nat
  BY <1>1, <1>2, AskReceived, Types DEF MainSays, Asks, IInv, ViewType
<1>4. m \in ToView /\ ~DispatchView(m) /\ ViewSays(m)
  BY <1>3, AnswerSays
<1> HIDE DEF m
<1> QED
  BY <1>1, <1>2, <1>4, AskReceived, Reply, SameHost, SameSession, MainKeeps

LEMMA PickerRequestedKeeps ==
  ASSUME IInv, PickerRequested, UNCHANGED user
  PROVE  IInv'
<1> DEFINE m == Message("answered", Head(toMain).id, Unopened)
<1>1. /\ toMain # <<>> /\ Head(toMain).type = "choose"
      /\ toMain' = Tail(toMain)
      /\ UNCHANGED <<host, view, work, seen, user>>
      /\ \/ /\ toView' = toView \o <<>>
            /\ session' = [session EXCEPT !.pickers = {Head(toMain).id}]
         \/ toView' = toView \o <<m>> /\ UNCHANGED session
  BY DEF PickerRequested, MainReceives
<1>2. ~DispatchMain(Head(toMain))
  BY <1>1 DEF DispatchMain
<1>3. /\ Head(toMain).id \in 1 .. view.request /\ view.request \in Nat
      /\ Head(toMain).id \in Nat
  BY <1>1, <1>2, AskReceived, Types DEF MainSays, Asks, IInv, ViewType
<1>4. m \in ToView /\ ~DispatchView(m) /\ ViewSays(m)
  BY <1>3, AnswerSays
<1> HIDE DEF m
<1>5. CASE toView' = toView \o <<m>> /\ UNCHANGED session
  BY <1>1, <1>2, <1>4, <1>5, AskReceived, Reply, SameHost, SameSession,
     MainKeeps
<1>6. CASE /\ toView' = toView \o <<>>
           /\ session' = [session EXCEPT !.pickers = {Head(toMain).id}]
  <2>1. session \in SessionType /\ toView' = toView
    BY <1>6, Types, SameSequence DEF IInv
  <2>2. /\ session' \in SessionType /\ session'.latest = session.latest
        /\ session'.opens \subseteq session.opens
        /\ session'.pickers \subseteq 1 .. view.request
    BY <1>3, <1>6, <2>1 DEF SessionType
  <2> QED BY <1>1, <1>2, <2>1, <2>2, AskReceived, NoReply, SameHost, MainKeeps
<1> QED BY <1>1, <1>5, <1>6

LEMMA PickerEndedKeeps ==
  ASSUME IInv, NEW request \in session.pickers,
         NEW type \in {"answered", "cancelled"},
         NEW result \in {Refused, Unopened},
         PickerEnded(request, Message(type, request, result)), UNCHANGED user
  PROVE  IInv'
<1> DEFINE m == Message(type, request, result)
<1>1. /\ session' = [session EXCEPT !.pickers = @ \ {request}]
      /\ toView' = Append(toView, m)
      /\ UNCHANGED <<host, view, work, toMain, seen, user>>
  BY DEF PickerEnded
<1>2. request \in 1 .. view.request /\ view.request \in Nat
  BY Types DEF IInv, Requests, ViewType
<1>3. m \in ToView /\ ~DispatchView(m) /\ ViewSays(m)
  BY <1>2, AnswerSays
<1> HIDE DEF m
<1>4. session \in SessionType /\ toView' = toView \o <<m>>
      /\ toMain' \in Seq(ToMain) /\ OneMain(toMain')
  BY <1>1, <1>3, Types, AppendMsgs DEF IInv, Channels
<1>5. /\ session' \in SessionType /\ session'.latest = session.latest
      /\ session'.opens \subseteq session.opens
      /\ session'.pickers \subseteq 1 .. view.request
  BY <1>1, <1>4 DEF SessionType, IInv, Requests
<1> QED BY <1>1, <1>3, <1>4, <1>5, Reply, SameHost, MainKeeps

LEMMA DisposeSessionKeeps ==
  ASSUME IInv, DisposeSession, UNCHANGED user
  PROVE  IInv'
<1> DEFINE m == Message("closed", 0, Refused)
<1>1. /\ toMain # <<>> /\ Head(toMain).type \in {"dispose", "close"}
      /\ toMain' = Tail(toMain)
      /\ toView' = toView \o <<>> \/ toView' = toView \o <<m>>
      /\ session' = [session EXCEPT !.active = NoSource]
      /\ UNCHANGED <<host, view, work, seen, user>>
  BY DEF DisposeSession, MainReceives, Signal
<1>2. ~DispatchMain(Head(toMain))
  BY <1>1 DEF DispatchMain
<1>3. m \in ToView /\ m.type = "closed"
  BY MessageFields, Constants DEF ToViewType
<1> HIDE DEF m
<1>4. ~DispatchView(m) /\ ViewSays(m)
  BY <1>3 DEF DispatchView, ViewSays
<1>5. session \in SessionType /\ toView \in Seq(ToView)
  BY Types DEF IInv
<1>6. /\ session' \in SessionType /\ session'.latest = session.latest
      /\ session'.opens \subseteq session.opens
      /\ session'.pickers \subseteq 1 .. view.request
  BY <1>1, <1>5, Constants DEF SessionType, IInv, Requests
<1>7. CASE toView' = toView \o <<m>>
  BY <1>1, <1>2, <1>3, <1>4, <1>6, <1>7, AskReceived, Reply, SameHost, MainKeeps
<1>8. CASE toView' = toView \o <<>>
  <2>1. toView' = toView
    BY <1>5, <1>8, SameSequence
  <2> QED BY <1>1, <1>2, <1>6, <2>1, AskReceived, NoReply, SameHost, MainKeeps
<1> QED BY <1>1, <1>7, <1>8

Record(h, s) == [h EXCEPT !.staged = @ \ {s}, !.recent = @ \cup {s}]

LEMMA Recorded ==
  ASSUME NEW h \in HostType, NEW s \in Source, NEW g, g = Record(h, s)
  PROVE  /\ g \in HostType /\ g.recent = h.recent \cup {s}
         /\ g.at = h.at /\ g.ready = h.ready /\ g.queue = h.queue
         /\ g.events = h.events /\ g.results = h.results /\ g.tried = h.tried
<1> USE DEF Record
<1>1. g.recent = h.recent \cup {s} /\ g.staged = h.staged \ {s}
  BY DEF HostType
<1>2. /\ g.at = h.at /\ g.ready = h.ready /\ g.queue = h.queue
      /\ g.events = h.events /\ g.results = h.results /\ g.tried = h.tried
  BY DEF HostType
<1> QED BY <1>1, <1>2 DEF HostType

LEMMA CommitOpenKeeps ==
  ASSUME IInv, CommitOpen, UNCHANGED user
  PROVE  IInv'
<1> DEFINE m == Head(toMain)
<1>1. PICK type \in {"committed", "uncommitted"} :
        /\ toMain # <<>> /\ m.type = "commit"
        /\ toMain' = Tail(toMain)
        /\ toView' = toView \o <<Message(type, m.id, m.result)>>
        /\ IF type = "committed"
           THEN /\ MayCommit(m)
                /\ host' = [host EXCEPT !.staged = @ \ {m.result.src},
                                        !.recent = @ \cup {m.result.src}]
           ELSE UNCHANGED host
        /\ UNCHANGED <<session, view, work, seen, user>>
  BY DEF CommitOpen, MainReceives
<1> DEFINE c == Message(type, m.id, m.result)
<1>2. /\ toMain' \in Seq(ToMain) /\ OneMain(toMain')
      /\ m \in ToMain /\ m.id \in Nat /\ m.result \in Result
      /\ m.result.src \in Source
      /\ Msgs(toMain) = Msgs(toMain') \cup {m}
      /\ DispatchMain(m) => NoneMain(toMain')
  BY <1>1, MainReceived DEF ToMain, Result
<1>3. MainSays(m)
  BY <1>2 DEF IInv, Messages
<1>4. /\ host \in HostType /\ toView \in Seq(ToView) /\ OneView(toView)
  BY Types DEF IInv, Channels
<1>5. /\ c \in ToView /\ c.type = type /\ c.id = m.id /\ c.result = m.result
  BY <1>2, MessageFields DEF ToViewType
<1> HIDE DEF c, m
<1>6. DispatchMain(m) <=> m.id # 0
  BY <1>1 DEF DispatchMain
<1>7. DispatchView(c) <=> m.id # 0
  BY <1>5 DEF DispatchView
<1>8. m.id # 0 => /\ host.at = "complete" /\ host.queue # <<>>
                  /\ NoneView(toView) /\ Elsewhere0 /\ m.id = HeadId
  BY <1>1, <1>2, <1>3, <1>6, TokenInMain DEF Phase, MainSays
<1>9. toView' = toView \o <<c>>
  BY <1>1 DEF c
<1>10. /\ toView' \in Seq(ToView) /\ OneView(toView')
       /\ Msgs(toView') = Msgs(toView) \cup {c}
  BY <1>4, <1>5, <1>7, <1>8, <1>9, ViewSent
<1>11. /\ host' \in HostType
       /\ UNCHANGED <<host.at, host.ready, host.queue, host.events,
                      host.results, host.tried>>
       /\ \/ UNCHANGED host.recent
          \/ /\ host'.recent = host.recent \cup {m.result.src}
             /\ MayCommit(m) /\ type = "committed"
  <2>1. CASE type = "committed"
    <3>1. host' = Record(host, m.result.src) /\ MayCommit(m)
      BY <1>1, <2>1 DEF Record
    <3>2. /\ host' \in HostType
          /\ host'.recent = host.recent \cup {m.result.src}
          /\ UNCHANGED <<host.at, host.ready, host.queue, host.events,
                         host.results, host.tried>>
      BY <1>2, <1>4, <3>1, Recorded
    <3> QED BY <2>1, <3>1, <3>2
  <2>2. CASE type # "committed"
    BY <1>1, <1>4, <2>2
  <2> QED BY <2>1, <2>2
<1>12. HeadId' = HeadId
  BY <1>11 DEF HeadId
<1>13. TypeOK'
  BY <1>1, <1>2, <1>10, <1>11, Types
     DEF IInv, TypeOK, HostType, ToMain, ToView
<1>14. Channels'
  <2>1. CASE m.id = 0
    BY <1>2, <1>6, <1>7, <1>10, <1>11, <2>1
       DEF IInv, Channels, NoneMain, NoneView
  <2>2. CASE m.id # 0
    BY <1>2, <1>5, <1>6, <1>8, <1>10, <1>11, <2>2
       DEF Channels, NoneMain, NoneView, Phase
  <2> QED BY <2>1, <2>2
<1>15. Elsewhere'
  <2>1. CASE m.id = 0
    BY <1>1, <1>2, <1>7, <1>10, <1>11, <1>12, <2>1
       DEF IInv, Elsewhere, NoneMain, NoneView
  <2>2. CASE m.id # 0
    BY <1>1, <1>8, <2>2 DEF Elsewhere, Elsewhere0
  <2> QED BY <2>1, <2>2
<1>16. Queue'
  BY <1>11, <1>12 DEF IInv, Queue, IdleQueueWasTried
<1>17. Messages'
  <2>1. ViewSays(c)
    BY <1>1, <1>5, <1>7, <1>8 DEF ViewSays
  <2> QED BY <1>1, <1>2, <1>10, <1>12, <2>1, SameMeaning, Latest
          DEF IInv, Messages
<1>18. Requests' /\ Sources'
  BY <1>1, <1>11, <1>12, SameMeaning, Latest DEF IInv, Requests, Sources
<1>19. Recents'
  <2>1. Acknowledged => Acknowledged'
    BY <1>1, <1>2, <1>10 DEF Acknowledged
  <2>2. CASE UNCHANGED host.recent
    BY <1>1, <1>11, <2>1, <2>2, SameRecents
  <2> DEFINE s == m.result.src
  <2>3. CASE host'.recent # host.recent
    <3>1. /\ host'.recent = host.recent \cup {s} /\ type = "committed"
          /\ m.result.ok = "source" /\ s.by = m.id /\ s \in seen
      BY <1>1, <1>3, <1>11, <2>3 DEF MayCommit, MainSays
    <3>2. host.events \in Nat
      BY <1>4, Constants DEF HostType
    <3>3. s.by <= host.events
      <4>1. CASE m.id = 0
        BY <3>1, <3>2, <4>1
      <4>2. CASE m.id # 0
        <5>1. HeadId = host.queue[1].id /\ 1 \in DOMAIN host.queue
          BY <1>4, <1>8, <4>2, HeadOfQueue DEF HeadId
        <5> QED BY <1>8, <3>1, <4>2, <5>1 DEF IInv, Queue
      <4> QED BY <4>1, <4>2
    <3>4. s.by # 0 => ~Acknowledged /\ Acknowledged'
      <4>1. SUFFICES ASSUME s.by # 0 PROVE ~Acknowledged /\ Acknowledged'
        OBVIOUS
      <4>2. m.id # 0 /\ NoneView(toView) /\ NoneMain(toMain')
        BY <1>2, <1>6, <1>8, <3>1, <4>1
      <4>3. ~Acknowledged
        BY <1>1, <1>2, <4>2
           DEF Acknowledged, NoneMain, NoneView, DispatchMain, DispatchView
      <4>4. c \in Msgs(toView') /\ c.type = "committed" /\ c.id # 0
        BY <1>5, <1>10, <3>1, <4>2
      <4> QED BY <4>3, <4>4 DEF Acknowledged
    <3>5. s.by # 0 => \A i \in DOMAIN host.queue :
                        host.queue[i].id = s.by => i = 1
      <4>1. SUFFICES ASSUME s.by # 0, NEW i \in DOMAIN host.queue,
                            host.queue[i].id = s.by, i # 1
                     PROVE  FALSE
        OBVIOUS
      <4>2. HeadId = host.queue[1].id /\ 1 \in DOMAIN host.queue
        BY <1>4, <1>8, <3>1, <4>1, HeadOfQueue DEF HeadId
      <4>3. host.queue \in Seq([id : 1 .. MaxEvents, file : Files])
        BY <1>4 DEF HostType
      <4>4. i \in Nat /\ i > 1 /\ host.queue[i].id \in Nat
        BY <1>4, <4>1, <4>3, ElementsOfQueue
      <4>5. host.queue[1].id < host.queue[i].id
        BY <4>2, <4>4 DEF IInv, Queue
      <4> QED BY <1>8, <3>1, <4>1, <4>2, <4>4, <4>5
    <3>6. \A t \in host.recent : t.by = s.by /\ s.by # 0 => FALSE
      <4>1. SUFFICES ASSUME NEW t \in host.recent, t.by = s.by, s.by # 0
                     PROVE  FALSE
        OBVIOUS
      <4>2. HeadId = host.queue[1].id /\ 1 \in DOMAIN host.queue
        BY <1>4, <1>8, <3>1, <4>1, HeadOfQueue DEF HeadId
      <4> QED BY <1>8, <3>1, <3>4, <4>1, <4>2 DEF IInv, Recents
    <3>7. host'.recent \subseteq seen
          /\ \A t, u \in host'.recent : t.by = u.by /\ t.by # 0 => t = u
      BY <3>1, <3>6 DEF IInv, Recents
    <3> HIDE DEF s
    <3>8. \A t \in host'.recent : t.by <= host.events
      BY <3>1, <3>3 DEF IInv, Recents
    <3>9. ASSUME NEW t \in host'.recent, t.by # 0, NEW i \in DOMAIN host.queue,
                 host.queue[i].id = t.by
          PROVE  i = 1 /\ Acknowledged'
      BY <2>1, <3>1, <3>4, <3>5, <3>9 DEF IInv, Recents
    <3> QED BY <1>1, <1>11, <3>7, <3>8, <3>9 DEF Recents
  <2> QED BY <2>2, <2>3
<1> QED
  BY <1>13, <1>14, <1>15, <1>16, <1>17, <1>18, <1>19 DEF IInv

-----------------------------------------------------------------------------
(* The renderer *)

\* The dispatch has left the channels, the session and, but for what the step
\* adds, the renderer.
LEMMA TokenMoves ==
  ASSUME IInv, UNCHANGED <<host, session>>,
         OneView(toView'), NoneView(toView'), NoneMain(toMain),
         \A o \in session.opens : o.caller # 0,
         OneMain(toMain'),
         \A m \in Msgs(toMain') : DispatchMain(m) => host.at = Phase(m),
         view'.asking => host.at = "authorize" /\ NoneMain(toMain'),
         \A w, x \in work' :
           Loading(w) => /\ host.at = "complete" /\ w.event = HeadId
                         /\ NoneMain(toMain') /\ (Loading(x) => w = x)
  PROVE  Channels' /\ Elsewhere'
<1>1. Channels'
  BY DEF Channels, NoneView
<1>2. Elsewhere'
  BY DEF Elsewhere, HeadId
<1> QED BY <1>1, <1>2

\* The dispatch stays where it is.
LEMMA TokenStays ==
  ASSUME IInv, UNCHANGED <<host, session>>,
         OneView(toView'), Msgs(toView') \subseteq Msgs(toView),
         OneMain(toMain'),
         \A m \in Msgs(toMain') \ Msgs(toMain) : ~DispatchMain(m),
         view'.asking => view.asking,
         \A w, x \in work' :
           Loading(w) => /\ \E y \in work : Loading(y) /\ y.event = w.event
                         /\ Loading(x) => w = x
  PROVE  Channels' /\ Elsewhere'
<1>1. NoneMain(toMain) => NoneMain(toMain')
  BY DEF NoneMain
<1>2. NoneView(toView) => NoneView(toView')
  BY DEF NoneView
<1>3. Channels'
  BY <1>1, <1>2 DEF IInv, Channels
<1>4. Elsewhere'
  BY <1>1, <1>2 DEF IInv, Elsewhere, HeadId
<1> QED BY <1>3, <1>4

\* The dispatched event, and the open asked for last, are the same or none:
\* what was said of them is still so.
LEMMA SameSayings ==
  ASSUME IInv, UNCHANGED <<host, session>>, seen \subseteq seen',
         view.request \in Nat, view'.request \in Nat,
         view.request <= view'.request,
         \A id : id # 0 /\ HostFileOpenIsActive(id)' /\ host.at # "begin" =>
                   HostFileOpenIsActive(id) /\ seen' = seen,
         \A id \in 1 .. view.request : ActiveUser(id)' =>
                   ActiveUser(id) /\ seen' = seen
  PROVE  /\ \A m \in Msgs(toMain) : MainSays(m)'
         /\ \A m \in Msgs(toView) : ViewSays(m)'
         /\ \A o \in session.opens : OpenSays(o)'
         /\ \A r \in host.results : ResultSays(r)'
<1>1. HeadId' = HeadId /\ session.latest \in Nat
  BY Latest DEF HeadId
<1>2. host.queue # <<>> => HeadId # 0
  BY Types, HeadOfQueue DEF IInv, HeadId
<1>3. \A m \in Msgs(toMain) : MainSays(m)'
  BY <1>1 DEF IInv, Messages, MainSays, Asks
<1>4. ASSUME NEW m \in Msgs(toView) PROVE ViewSays(m)'
  <2>1. ViewSays(m)
    BY DEF IInv, Messages
  <2>2. DispatchView(m) => m.id = HeadId /\ m.id # 0 /\ host.at = Phase(m)
    BY <1>2, <2>1, TokenInView DEF ViewSays
  <2>3. ASSUME m.type = "consumed", m.result.ok = "source",
               HostFileOpenIsActive(m.id)'
        PROVE  Newer(m.result.src)'
    <3>1. DispatchView(m)
      BY <2>3 DEF DispatchView
    <3>2. HostFileOpenIsActive(m.id) /\ seen' = seen
      BY <2>2, <2>3, <3>1 DEF Phase
    <3> QED BY <2>1, <2>3, <3>2 DEF ViewSays, Newer
  <2>4. ASSUME m.type = "answered", m.result.ok = "source", ActiveUser(m.id)'
        PROVE  Newer(m.result.src)'
    <3>1. m.id \in 1 .. view.request
      BY <2>1, <2>4 DEF ViewSays
    <3>2. ActiveUser(m.id) /\ seen' = seen
      BY <2>4, <3>1
    <3> QED BY <2>1, <2>4, <3>2 DEF ViewSays, Newer
  <2>5. m.type = "answered" => m.id \in 1 .. view'.request
    BY <2>1 DEF ViewSays
  <2> QED BY <1>1, <2>1, <2>2, <2>3, <2>4, <2>5 DEF ViewSays
<1>5. ASSUME NEW o \in session.opens PROVE OpenSays(o)'
  <2>1. OpenSays(o) /\ o.caller \in Nat
    BY Types DEF IInv, Sources, SessionType
  <2>2. o.caller = 0 => HeadId # 0 /\ host.at # "begin"
    BY <1>2 DEF IInv, Elsewhere, Queue
  <2>3. ASSUME o.caller = 0, HostFileOpenIsActive(o.src.by)'
        PROVE  Newer(o.src)'
    <3>1. HostFileOpenIsActive(o.src.by) /\ seen' = seen
      BY <2>1, <2>2, <2>3 DEF OpenSays
    <3> QED BY <2>1, <2>3, <3>1 DEF OpenSays, Newer
  <2>4. ASSUME o.caller # 0, ActiveUser(o.caller)'
        PROVE  Newer(o.src)'
    <3>1. o.caller \in 1 .. view.request
      BY <2>1, <2>4 DEF OpenSays
    <3>2. ActiveUser(o.caller) /\ seen' = seen
      BY <2>4, <3>1
    <3> QED BY <2>1, <2>4, <3>2 DEF OpenSays, Newer
  <2>5. o.caller <= view'.request
    BY <2>1 DEF OpenSays
  <2> QED BY <1>1, <2>1, <2>3, <2>4, <2>5 DEF OpenSays
<1>6. ASSUME NEW r \in host.results PROVE ResultSays(r)'
  <2>1. ResultSays(r) /\ r.id = HeadId /\ r.id # 0 /\ host.at # "begin"
    BY <1>2 DEF IInv, Sources, Queue
  <2>2. ASSUME r.result.ok = "source", HostFileOpenIsActive(r.id)'
        PROVE  Newer(r.result.src)'
    <3>1. HostFileOpenIsActive(r.id) /\ seen' = seen
      BY <2>1, <2>2
    <3> QED BY <2>1, <2>2, <3>1 DEF ResultSays, Newer
  <2> QED BY <1>1, <2>1, <2>2 DEF ResultSays
<1> QED BY <1>3, <1>4, <1>5, <1>6

\* A step of the renderer.
LEMMA ViewKeeps ==
  ASSUME IInv, UNCHANGED <<host, session, user>>,
         view' \in ViewType, work' \subseteq WorkType,
         toMain' \in Seq(ToMain), toView' \in Seq(ToView),
         seen \subseteq seen', seen' \subseteq Source,
         Channels', Elsewhere', Requests',
         view.request <= view'.request,
         \A id : id # 0 /\ HostFileOpenIsActive(id)' /\ host.at # "begin" =>
                   HostFileOpenIsActive(id) /\ seen' = seen,
         \A id \in 1 .. view.request : ActiveUser(id)' =>
                   ActiveUser(id) /\ seen' = seen,
         \A m \in Msgs(toMain') \ Msgs(toMain) : MainSays(m)',
         Msgs(toView') \subseteq Msgs(toView),
         \A w \in work' :
           w.at # "commit" => w.src \in seen' /\ w.src.by = w.event,
         \A t \in seen' : t.n \in 1 .. session.latest,
         Acknowledged => Acknowledged'
  PROVE  IInv'
<1>1. view.request \in Nat /\ view'.request \in Nat
  BY Types DEF IInv, ViewType
<1>2. /\ \A m \in Msgs(toMain) : MainSays(m)'
      /\ \A m \in Msgs(toView) : ViewSays(m)'
      /\ \A o \in session.opens : OpenSays(o)'
      /\ \A r \in host.results : ResultSays(r)'
  BY <1>1, SameSayings
<1>3. TypeOK'
  BY Types DEF IInv, TypeOK, ViewType, WorkType, ToMain, ToView
<1>4. Queue'
  BY DEF IInv, Queue, IdleQueueWasTried, HeadId
<1>5. Messages'
  BY <1>2 DEF Messages
<1>6. Sources'
  BY <1>2 DEF Sources
<1>7. Recents'
  BY DEF IInv, Recents
<1> QED BY <1>3, <1>4, <1>5, <1>6, <1>7 DEF IInv

\* What is received and sent without a trace in the renderer's loads.
LEMMA QuietKeeps ==
  ASSUME IInv, UNCHANGED <<host, session, work, seen, user>>,
         view' \in ViewType, toMain' \in Seq(ToMain), toView' \in Seq(ToView),
         Channels', Elsewhere', Requests',
         view.request <= view'.request,
         \A id : id # 0 /\ HostFileOpenIsActive(id)' /\ host.at # "begin" =>
                   HostFileOpenIsActive(id),
         \A id \in 1 .. view.request : ActiveUser(id)' => ActiveUser(id),
         \A m \in Msgs(toMain') \ Msgs(toMain) : MainSays(m)',
         Msgs(toMain) \subseteq Msgs(toMain'),
         Msgs(toView') \subseteq Msgs(toView),
         \A m \in Msgs(toView) \ Msgs(toView') : m.type # "committed"
  PROVE  IInv'
<1>1. work' \subseteq WorkType /\ seen' \subseteq Source
  BY Types DEF IInv
<1>2. /\ \A w \in work' :
           w.at # "commit" => w.src \in seen' /\ w.src.by = w.event
      /\ \A t \in seen' : t.n \in 1 .. session.latest
  BY DEF IInv, Sources
<1>3. Acknowledged => Acknowledged'
  BY DEF Acknowledged
<1> QED BY <1>1, <1>2, <1>3, ViewKeeps

\* The loads of a step that leaves them alone, with the dispatch elsewhere or
\* where it was.
LEMMA SameLoads ==
  ASSUME IInv, work' = work
  PROVE  /\ \A w, x \in work' :
              Loading(w) => /\ \E y \in work : Loading(y) /\ y.event = w.event
                            /\ Loading(x) => w = x
         /\ (\A w \in work : ~Loading(w)) => \A w \in work' : ~Loading(w)
BY DEF IInv, Elsewhere

LEMMA CallReceived ==
  ASSUME IInv, toView # <<>>, toView' = Tail(toView)
  PROVE  /\ toView' \in Seq(ToView) /\ OneView(toView')
         /\ Msgs(toView') \subseteq Msgs(toView)
         /\ Head(toView) \in ToView /\ Head(toView).id \in Nat
         /\ Head(toView).result \in Result /\ ViewSays(Head(toView))
         /\ Head(toView) \in Msgs(toView)
         /\ \A m \in Msgs(toView) \ Msgs(toView') : m = Head(toView)
         /\ DispatchView(Head(toView)) =>
              /\ host.at = Phase(Head(toView)) /\ Head(toView).id = HeadId
              /\ host.queue # <<>>
              /\ NoneView(toView') /\ NoneMain(toMain) /\ Elsewhere0
<1>1. /\ toView' \in Seq(ToView) /\ Head(toView) \in ToView
      /\ Head(toView) \in Msgs(toView)
      /\ Msgs(toView) = Msgs(toView') \cup {Head(toView)}
      /\ OneView(toView')
      /\ DispatchView(Head(toView)) => NoneView(toView')
  BY ViewReceived
<1>2. ViewSays(Head(toView))
  BY <1>1 DEF IInv, Messages
<1>3. Head(toView).id \in Nat /\ Head(toView).result \in Result
  BY <1>1 DEF ToView
<1>4. DispatchView(Head(toView)) =>
        /\ host.at = Phase(Head(toView)) /\ Head(toView).id = HeadId
        /\ host.queue # <<>> /\ NoneMain(toMain) /\ Elsewhere0
  BY <1>1, <1>2, TokenInView DEF ViewSays
<1> QED BY <1>1, <1>2, <1>3, <1>4

\* The renderer answers a call of the dispatch, and goes on.
LEMMA AnswerKeeps ==
  ASSUME IInv, UNCHANGED <<host, session, work, seen, user>>,
         toView # <<>>, toView' = Tail(toView), DispatchView(Head(toView)),
         Head(toView).type # "committed",
         NEW m \in ToMain, MainSays(m)', Phase(m) = host.at,
         toMain' = toMain \o <<m>>,
         view' \in ViewType, Requests', ~view'.asking,
         view.request <= view'.request,
         \A id : id # 0 /\ HostFileOpenIsActive(id)' /\ host.at # "begin" =>
                   HostFileOpenIsActive(id),
         \A id \in 1 .. view.request : ActiveUser(id)' => ActiveUser(id)
  PROVE  IInv'
<1>1. /\ toView' \in Seq(ToView) /\ OneView(toView')
      /\ Msgs(toView') \subseteq Msgs(toView)
      /\ \A x \in Msgs(toView) \ Msgs(toView') : x = Head(toView)
      /\ NoneView(toView') /\ NoneMain(toMain) /\ Elsewhere0
  BY CallReceived
<1>2. toMain \in Seq(ToMain) /\ OneMain(toMain)
  BY Types DEF IInv, Channels
<1>3. /\ toMain' \in Seq(ToMain) /\ OneMain(toMain')
      /\ Msgs(toMain') = Msgs(toMain) \cup {m}
  BY <1>1, <1>2, MainSent
<1>4. Channels' /\ Elsewhere'
  <2>1. \A x \in Msgs(toMain') : DispatchMain(x) => host.at = Phase(x)
    BY <1>1, <1>3 DEF NoneMain
  <2>2. \A w \in work' : ~Loading(w)
    BY <1>1 DEF Elsewhere0
  <2> QED BY <1>1, <1>3, <2>1, <2>2, TokenMoves DEF Elsewhere0
<1> QED BY <1>1, <1>3, <1>4, QuietKeeps

LEMMA AuthorizeKeeps ==
  ASSUME IInv, Authorize, UNCHANGED user
  PROVE  IInv'
<1>1. /\ toView # <<>> /\ Head(toView).type = "authorize"
      /\ toView' = Tail(toView)
      /\ UNCHANGED <<host, session, work, seen, user>>
      /\ \/ /\ toMain' = toMain \o Signal("authorized", Head(toView).id)
            /\ UNCHANGED view
         \/ /\ toMain' = toMain \o <<>>
            /\ view' = [view EXCEPT !.asking = TRUE]
  BY DEF Authorize, ViewReceives
<1>2. DispatchView(Head(toView)) /\ Phase(Head(toView)) = "authorize"
  BY <1>1 DEF DispatchView, Phase
<1>3. /\ toView' \in Seq(ToView) /\ OneView(toView')
      /\ Msgs(toView') \subseteq Msgs(toView)
      /\ \A x \in Msgs(toView) \ Msgs(toView') : x = Head(toView)
      /\ NoneView(toView') /\ NoneMain(toMain) /\ Elsewhere0
      /\ host.at = "authorize" /\ Head(toView).id \in Nat
  BY <1>1, <1>2, CallReceived
<1>4. PICK m \in ToMain :
        m.type = "authorized" /\ Signal("authorized", Head(toView).id) = <<m>>
  BY <1>3, MessageFields, Constants DEF ToMainType, Signal
<1>5. view \in ViewType /\ toMain \in Seq(ToMain) /\ OneMain(toMain)
      /\ view.request \in Nat
  BY Types DEF IInv, Channels, ViewType
<1>6. CASE /\ toMain' = toMain \o Signal("authorized", Head(toView).id)
           /\ UNCHANGED view
  <2>1. MainSays(m)' /\ Phase(m) = host.at /\ toMain' = toMain \o <<m>>
    BY <1>3, <1>4, <1>6 DEF MainSays, Asks, Phase
  <2>2. Requests' /\ ~view'.asking
    BY <1>1, <1>3, <1>6 DEF IInv, Requests, Elsewhere0
  <2>3. /\ \A id : HostFileOpenIsActive(id)' => HostFileOpenIsActive(id)
        /\ \A id : ActiveUser(id)' => ActiveUser(id)
    BY <1>6 DEF HostFileOpenIsActive, ActiveUser, IsActiveRequest
  <2> QED BY SMTT(30), <1>1, <1>2, <1>4, <1>5, <1>6, <2>1, <2>2, <2>3, AnswerKeeps
<1>7. CASE /\ toMain' = toMain \o <<>>
           /\ view' = [view EXCEPT !.asking = TRUE]
  <2>1. toMain' = toMain
    BY <1>5, <1>7, SameSequence
  <2>2. /\ view' \in ViewType
        /\ UNCHANGED <<view.request, view.event, view.eventRequest, view.calls>>
    BY <1>5, <1>7 DEF ViewType
  <2>3. Channels' /\ Elsewhere'
    BY <1>1, <1>3, <1>5, <2>1, TokenMoves DEF NoneMain, Elsewhere0
  <2>4. Requests'
    BY <1>1, <2>2 DEF IInv, Requests
  <2>5. /\ \A id : HostFileOpenIsActive(id)' => HostFileOpenIsActive(id)
        /\ \A id : ActiveUser(id)' => ActiveUser(id)
    BY <2>2 DEF HostFileOpenIsActive, ActiveUser, IsActiveRequest
  <2> QED BY <1>1, <1>3, <1>5, <2>1, <2>2, <2>3, <2>4, <2>5, QuietKeeps
<1> QED BY <1>1, <1>6, <1>7

LEMMA DecideKeeps ==
  ASSUME IInv, Decide, UNCHANGED user
  PROVE  IInv'
<1>1. PICK type \in {"authorized", "denied"} :
        /\ view.asking /\ view' = [view EXCEPT !.asking = FALSE]
        /\ toMain' = toMain \o <<Message(type, 0, Refused)>>
        /\ UNCHANGED <<host, session, work, toView, seen, user>>
  BY DEF Decide, Signal
<1> DEFINE m == Message(type, 0, Refused)
<1>2. m \in ToMain /\ m.type = type
  BY MessageFields, Constants DEF ToMainType
<1> HIDE DEF m
<1>3. /\ view \in ViewType /\ toMain \in Seq(ToMain) /\ OneMain(toMain)
      /\ toView \in Seq(ToView) /\ OneView(toView) /\ view.request \in Nat
  BY Types DEF IInv, Channels, ViewType
<1>4. host.at = "authorize" /\ NoneMain(toMain) /\ NoneView(toView)
  BY <1>1 DEF IInv, Elsewhere
<1>5. toMain' = toMain \o <<m>>
  BY <1>1 DEF m
<1>6. /\ toMain' \in Seq(ToMain) /\ OneMain(toMain')
      /\ Msgs(toMain') = Msgs(toMain) \cup {m}
  BY <1>2, <1>3, <1>4, <1>5, MainSent
<1>7. /\ view' \in ViewType /\ ~view'.asking
      /\ UNCHANGED <<view.request, view.event, view.eventRequest, view.calls>>
  BY <1>1, <1>3 DEF ViewType
<1>8. Channels' /\ Elsewhere'
  <2>1. \A x \in Msgs(toMain') : DispatchMain(x) => host.at = Phase(x)
    BY <1>2, <1>4, <1>6 DEF NoneMain, Phase
  <2>2. /\ \A w \in work' : ~Loading(w)
        /\ \A o \in session.opens : o.caller # 0
    BY <1>1, <1>4 DEF IInv, Elsewhere
  <2> QED BY <1>1, <1>3, <1>4, <1>6, <1>7, <2>1, <2>2, TokenMoves
<1>9. MainSays(m)'
  BY <1>2 DEF MainSays, Asks
<1>10. Requests'
  BY <1>1, <1>7 DEF IInv, Requests
<1>11. /\ \A id : HostFileOpenIsActive(id)' => HostFileOpenIsActive(id)
       /\ \A id : ActiveUser(id)' => ActiveUser(id)
  BY <1>7 DEF HostFileOpenIsActive, ActiveUser, IsActiveRequest
<1> QED
  BY <1>1, <1>3, <1>6, <1>7, <1>8, <1>9, <1>10, <1>11, QuietKeeps

LEMMA BeginHostFileOpenKeeps ==
  ASSUME IInv, BeginHostFileOpen, UNCHANGED user
  PROVE  IInv'
<1>1. /\ toView # <<>> /\ Head(toView).type = "begin"
      /\ toView' = Tail(toView)
      /\ toMain' = toMain \o Signal("begun", Head(toView).id)
      /\ view' = [view EXCEPT !.request = @ + 1, !.event = Head(toView).id,
                              !.eventRequest = view.request + 1]
      /\ UNCHANGED <<host, session, work, seen, user>>
  BY DEF BeginHostFileOpen, ViewReceives
<1>2. DispatchView(Head(toView)) /\ Phase(Head(toView)) = "begin"
  BY <1>1 DEF DispatchView, Phase
<1>3. /\ host.at = "begin" /\ Head(toView).id = HeadId /\ HeadId \in Nat
      /\ host.queue # <<>> /\ Elsewhere0
  BY <1>1, <1>2, CallReceived
<1>4. PICK m \in ToMain :
        m.type = "begun" /\ Signal("begun", Head(toView).id) = <<m>>
  BY <1>3, MessageFields, Constants DEF ToMainType, Signal
<1>5. MainSays(m)' /\ Phase(m) = host.at /\ toMain' = toMain \o <<m>>
  BY <1>1, <1>3, <1>4 DEF MainSays, Asks, Phase
<1>6. view \in ViewType /\ view.request \in Nat /\ HeadId \in 0 .. MaxEvents
  BY <1>3, HeadOfQueue, Constants, Types DEF IInv, ViewType, HeadId
<1>7. /\ view' \in ViewType /\ view'.request = view.request + 1
      /\ view'.eventRequest = view.request + 1
      /\ UNCHANGED <<view.asking, view.calls>>
  <2>1. view.request + 1 \in Nat
    BY <1>6
  <2>2. view' = [view EXCEPT !.request = view.request + 1, !.event = HeadId,
                             !.eventRequest = view.request + 1]
    BY <1>1, <1>3
  <2> QED BY <1>6, <2>1, <2>2 DEF ViewType
<1>8. \A c \in view.calls : c.id \in 1 .. view.request
  BY DEF IInv, Requests
<1>9. Requests'
  BY <1>1, <1>6, <1>7, <1>8 DEF IInv, Requests
<1>10. \A id \in 1 .. view.request : ActiveUser(id)' => ActiveUser(id)
  BY <1>6, <1>7 DEF ActiveUser, IsActiveRequest
<1>11. ~view'.asking /\ view.request <= view'.request
  BY <1>3, <1>6, <1>7 DEF Elsewhere0
<1> QED
  BY <1>1, <1>2, <1>3, <1>5, <1>7, <1>9, <1>10, <1>11, AnswerKeeps

LEMMA CompleteHostFileOpenKeeps ==
  ASSUME IInv, CompleteHostFileOpen, UNCHANGED user
  PROVE  IInv'
<1>1. /\ toView # <<>> /\ Head(toView).type = "complete"
      /\ toView' = Tail(toView)
      /\ \E type \in {"consume", "rejected"} :
           toMain' = toMain \o Signal(type, Head(toView).id)
      /\ UNCHANGED <<host, session, view, work, seen, user>>
  BY DEF CompleteHostFileOpen, ViewReceives
<1>2. DispatchView(Head(toView)) /\ Phase(Head(toView)) = "complete"
  BY <1>1 DEF DispatchView, Phase
<1>3. /\ host.at = "complete" /\ Head(toView).id = HeadId /\ HeadId \in Nat
      /\ host.queue # <<>> /\ Elsewhere0
  BY <1>1, <1>2, CallReceived
<1>4. PICK type \in {"consume", "rejected"} :
        toMain' = toMain \o Signal(type, Head(toView).id)
  BY <1>1
<1>5. PICK m \in ToMain :
        m.type = type /\ m.id = HeadId /\ Signal(type, Head(toView).id) = <<m>>
  BY <1>3, MessageFields, Constants DEF ToMainType, Signal
<1>6. HeadId # 0 /\ HeadId' = HeadId
  BY <1>1, <1>3, HeadOfQueue, Types DEF IInv, HeadId
<1>7. MainSays(m)' /\ Phase(m) = host.at /\ toMain' = toMain \o <<m>>
  BY <1>3, <1>4, <1>5, <1>6 DEF MainSays, Asks, Phase
<1>8. view' \in ViewType /\ ~view'.asking /\ Requests'
      /\ view.request <= view'.request
  BY <1>1, <1>3, Types DEF IInv, Requests, Elsewhere0, ViewType
<1>9. /\ \A id : HostFileOpenIsActive(id)' => HostFileOpenIsActive(id)
      /\ \A id : ActiveUser(id)' => ActiveUser(id)
  BY <1>1 DEF HostFileOpenIsActive, ActiveUser, IsActiveRequest
<1> QED BY <1>1, <1>2, <1>3, <1>7, <1>8, <1>9, AnswerKeeps

\* A step of the user, or one the main process has no part in: it may send a
\* call, and take a call or an answer that is none of the dispatch.
LEMMA UserKeeps ==
  ASSUME IInv, UNCHANGED <<host, session, work, seen, user>>,
         toView' \in Seq(ToView), OneView(toView'),
         Msgs(toView') \subseteq Msgs(toView),
         \A m \in Msgs(toView) \ Msgs(toView') : m.type # "committed",
         toMain' \in Seq(ToMain), OneMain(toMain'),
         Msgs(toMain) \subseteq Msgs(toMain'),
         \A m \in Msgs(toMain') \ Msgs(toMain) : ~DispatchMain(m) /\ MainSays(m)',
         view' \in ViewType, Requests', view'.asking => view.asking,
         view.request <= view'.request,
         \A id : HostFileOpenIsActive(id)' => HostFileOpenIsActive(id),
         \A id \in 1 .. view.request : ActiveUser(id)' => ActiveUser(id)
  PROVE  IInv'
<1>1. Channels' /\ Elsewhere'
  BY SameLoads, TokenStays
<1> QED BY <1>1, QuietKeeps

LEMMA CancelledKeeps ==
  ASSUME IInv, Cancelled, UNCHANGED user
  PROVE  IInv'
<1>1. /\ toView # <<>> /\ Head(toView).type = "cancelled"
      /\ toView' = Tail(toView) /\ toMain' = toMain \o <<>>
      /\ view' = [view EXCEPT
                !.calls = {c \in @ : c.id # Head(toView).id}]
      /\ UNCHANGED <<host, session, work, seen, user>>
  BY DEF Cancelled, ViewReceives
<1>2. view \in ViewType /\ toMain \in Seq(ToMain) /\ OneMain(toMain)
      /\ view.request \in Nat
  BY Types DEF IInv, Channels, ViewType
<1>3. toMain' = toMain
  BY <1>1, <1>2, SameSequence
<1>4. /\ view' \in ViewType
      /\ UNCHANGED <<view.request, view.event, view.eventRequest, view.asking>>
      /\ view'.calls \subseteq view.calls
  BY <1>1, <1>2 DEF ViewType
<1>5. Requests'
  BY <1>1, <1>4 DEF IInv, Requests
<1>6. /\ \A id : HostFileOpenIsActive(id)' => HostFileOpenIsActive(id)
      /\ \A id : ActiveUser(id)' => ActiveUser(id)
  BY <1>4 DEF HostFileOpenIsActive, ActiveUser, IsActiveRequest
<1> QED BY <1>1, <1>2, <1>3, <1>4, <1>5, <1>6, CallReceived, UserKeeps

LEMMA Clears ==
  ASSUME NEW v \in ViewType
  PROVE  /\ Cleared(v) \in ViewType
         /\ Cleared(v).request = v.request /\ Cleared(v).event = v.event
         /\ Cleared(v).eventRequest = v.eventRequest
         /\ Cleared(v).asking = v.asking /\ Cleared(v).calls = v.calls
BY Constants DEF Cleared, ViewType

\* What the dispatch and the answers look at is left alone.
LEMMA SameRequests ==
  ASSUME IInv, UNCHANGED session,
         UNCHANGED <<view.request, view.event, view.eventRequest>>,
         view'.calls \subseteq view.calls
  PROVE  /\ Requests' /\ view.request <= view'.request
         /\ \A id : HostFileOpenIsActive(id)' => HostFileOpenIsActive(id)
         /\ \A id : ActiveUser(id)' => ActiveUser(id)
<1>1. view.request \in Nat
  BY Types DEF IInv, ViewType
<1>2. Requests' /\ view.request <= view'.request
  BY <1>1 DEF IInv, Requests
<1> QED BY <1>2 DEF HostFileOpenIsActive, ActiveUser, IsActiveRequest

LEMMA ClosedKeeps ==
  ASSUME IInv, Closed, UNCHANGED user
  PROVE  IInv'
<1>1. /\ toView # <<>> /\ Head(toView).type = "closed"
      /\ toView' = Tail(toView) /\ toMain' = toMain \o <<>>
      /\ view' = Cleared(view)
      /\ UNCHANGED <<host, session, work, seen, user>>
  BY DEF Closed, ViewReceives
<1>2. view \in ViewType /\ toMain \in Seq(ToMain) /\ OneMain(toMain)
  BY Types DEF IInv, Channels
<1>3. toMain' = toMain
  BY <1>1, <1>2, SameSequence
<1> QED BY <1>1, <1>2, <1>3, Clears, SameRequests, CallReceived, UserKeeps

LEMMA CloseSvgaKeeps ==
  ASSUME IInv, CloseSvga, UNCHANGED user
  PROVE  IInv'
<1>1. /\ view' = Cleared(view)
      /\ UNCHANGED <<host, session, work, toMain, toView, seen, user>>
  BY DEF CloseSvga
<1>2. view \in ViewType /\ toMain \in Seq(ToMain) /\ OneMain(toMain)
      /\ toView \in Seq(ToView) /\ OneView(toView)
  BY Types DEF IInv, Channels
<1> QED BY <1>1, <1>2, Clears, SameRequests, UserKeeps

\* The user's next request.
LEMMA NextRequest ==
  ASSUME IInv, UNCHANGED session,
         view'.request = view.request + 1,
         UNCHANGED <<view.event, view.eventRequest>>,
         \A c \in view'.calls : c \in view.calls \/ c.id = view.request + 1
  PROVE  /\ Requests' /\ view.request <= view'.request
         /\ \A id : HostFileOpenIsActive(id)' => HostFileOpenIsActive(id)
         /\ \A id \in 1 .. view.request : ActiveUser(id)' => ActiveUser(id)
<1>1. view.request \in Nat /\ view.eventRequest \in Nat
  BY Types DEF IInv, ViewType
<1>2. view.eventRequest <= view.request /\ view.eventRequest # view.request + 1
  BY <1>1 DEF IInv, Requests
<1>3. \A c \in view'.calls : c.id \in 1 .. view'.request
  BY <1>1 DEF IInv, Requests
<1>4. session'.pickers \subseteq 1 .. view'.request
  BY <1>1 DEF IInv, Requests
<1>5. view'.eventRequest <= view'.request /\ view'.eventRequest # view'.request
  BY <1>1, <1>2
<1>6. Requests'
  BY <1>3, <1>4, <1>5 DEF Requests
<1>7. \A id : ~HostFileOpenIsActive(id)'
  BY <1>5 DEF HostFileOpenIsActive, IsActiveRequest
<1>8. \A id \in 1 .. view.request : ~ActiveUser(id)'
  BY <1>1 DEF ActiveUser, IsActiveRequest
<1> QED BY <1>1, <1>6, <1>7, <1>8

LEMMA AskedFor ==
  ASSUME IInv, NEW picker \in BOOLEAN
  PROVE  /\ Asked(picker) \in ViewType
         /\ Asked(picker).request = view.request + 1
         /\ Asked(picker).event = view.event
         /\ Asked(picker).eventRequest = view.eventRequest
         /\ Asked(picker).asking = view.asking
         /\ \A c \in Asked(picker).calls :
              c \in view.calls \/ c.id = view.request + 1
<1> DEFINE c == [id |-> view.request + 1, picker |-> picker]
<1>1. view \in ViewType /\ view.request + 1 \in Nat
  BY Types DEF IInv, ViewType
<1>2. c \in [id : Nat, picker : BOOLEAN] /\ c.id = view.request + 1
  BY <1>1
<1>3. Asked(picker) = [view EXCEPT !.request = view.request + 1,
                                   !.calls = view.calls \cup {c}]
  BY <1>1 DEF Asked, ViewType
<1> HIDE DEF c
<1>4. /\ Asked(picker).request = view.request + 1
      /\ Asked(picker).calls = view.calls \cup {c}
  BY <1>1, <1>3 DEF ViewType
<1>5. /\ Asked(picker).event = view.event
      /\ Asked(picker).eventRequest = view.eventRequest
      /\ Asked(picker).asking = view.asking
  BY <1>1, <1>3 DEF ViewType
<1>6. Asked(picker) \in ViewType
  <2>1. view.calls \cup {c} \in SUBSET [id : Nat, picker : BOOLEAN]
    BY <1>1, <1>2 DEF ViewType
  <2> QED BY <1>1, <1>3, <2>1 DEF ViewType
<1> QED BY <1>2, <1>4, <1>5, <1>6

\* The call the user's step sends.
LEMMA UserSends ==
  ASSUME IInv, NEW m \in ToMain, ~DispatchMain(m), MainSays(m)',
         toMain' = toMain \o <<m>>
  PROVE  /\ toMain' \in Seq(ToMain) /\ OneMain(toMain')
         /\ Msgs(toMain) \subseteq Msgs(toMain')
         /\ \A x \in Msgs(toMain') \ Msgs(toMain) :
              ~DispatchMain(x) /\ MainSays(x)'
<1>1. toMain \in Seq(ToMain) /\ OneMain(toMain)
  BY Types DEF IInv, Channels
<1>2. /\ toMain' \in Seq(ToMain) /\ OneMain(toMain')
      /\ Msgs(toMain') = Msgs(toMain) \cup {m}
  BY <1>1, MainSent
<1> QED BY <1>2

LEMMA Sent ==
  ASSUME NEW type \in ToMainType, NEW id \in Nat, NEW result \in Result
  PROVE  \E m \in ToMain :
           /\ m = Message(type, id, result)
           /\ m.type = type /\ m.id = id /\ m.result = result
<1> DEFINE m == Message(type, id, result)
<1>1. m \in ToMain /\ m.type = type /\ m.id = id /\ m.result = result
  BY MessageFields
<1> HIDE DEF m
<1>2. m = Message(type, id, result)
  BY DEF m
<1> QED BY <1>1, <1>2

LEMMA SameToView ==
  ASSUME IInv, UNCHANGED toView
  PROVE  /\ toView' \in Seq(ToView) /\ OneView(toView')
         /\ Msgs(toView') = Msgs(toView)
BY Types DEF IInv, Channels

LEMMA OpenByPathKeeps ==
  ASSUME IInv, NEW file \in Files, NEW type \in {"open", "recent"},
         OpenByPath(file, type), UNCHANGED user
  PROVE  IInv'
<1> DEFINE result == [src |-> [NoSource EXCEPT !.file = file], ok |-> "refused"]
<1>1. /\ view' = [Asked(FALSE) EXCEPT !.loading = @ \/ type = "open"]
      /\ toMain' = Append(toMain, Message(type, view.request + 1, result))
      /\ UNCHANGED <<host, session, work, toView, seen, user>>
  BY DEF OpenByPath
<1>2. view.request \in Nat /\ toMain \in Seq(ToMain)
  BY Types DEF IInv, ViewType
<1>3. result \in Result /\ result.src.file = file
  BY Constants DEF Result, Source, NoSource, Outcome
<1> HIDE DEF result
<1>4. PICK m \in ToMain :
        /\ m = Message(type, view.request + 1, result)
        /\ m.type = type /\ m.id = view.request + 1 /\ m.result = result
  BY <1>2, <1>3, Sent DEF ToMainType
<1>5. toMain' = toMain \o <<m>>
  BY <1>1, <1>2, <1>4, AppendMsgs
<1>6. /\ view' \in ViewType /\ view'.request = view.request + 1
      /\ UNCHANGED <<view.event, view.eventRequest, view.asking>>
      /\ \A c \in view'.calls : c \in view.calls \/ c.id = view.request + 1
  BY <1>1, AskedFor DEF ViewType
<1>7. m.id \in 1 .. view'.request
  BY <1>2, <1>4, <1>6
<1>8. ~DispatchMain(m) /\ MainSays(m)'
  BY <1>3, <1>4, <1>7 DEF DispatchMain, MainSays, Asks
<1> QED
  BY <1>1, <1>6, <1>8, <1>5, NextRequest, UserSends, SameToView, UserKeeps

LEMMA OpenFromHostDialogKeeps ==
  ASSUME IInv, OpenFromHostDialog, UNCHANGED user
  PROVE  IInv'
<1>1. /\ view' = Asked(TRUE)
      /\ toMain' = toMain \o Signal("choose", view.request + 1)
      /\ UNCHANGED <<host, session, work, toView, seen, user>>
  BY DEF OpenFromHostDialog
<1>2. view.request \in Nat /\ view.request + 1 \in Nat
  BY Types DEF IInv, ViewType
<1>3. PICK m \in ToMain :
        /\ m = Message("choose", view.request + 1, Refused)
        /\ m.type = "choose" /\ m.id = view.request + 1
  BY <1>2, Constants, Sent DEF ToMainType
<1>4. toMain' = toMain \o <<m>>
  BY <1>1, <1>3 DEF Signal
<1>5. /\ view' \in ViewType /\ view'.request = view.request + 1
      /\ UNCHANGED <<view.event, view.eventRequest, view.asking>>
      /\ \A c \in view'.calls : c \in view.calls \/ c.id = view.request + 1
  BY <1>1, AskedFor
<1>6. m.id \in 1 .. view'.request
  BY <1>2, <1>3, <1>5
<1>7. ~DispatchMain(m) /\ MainSays(m)'
  BY <1>3, <1>6 DEF DispatchMain, MainSays, Asks
<1> QED
  BY <1>1, <1>5, <1>7, <1>4, NextRequest, UserSends, SameToView, UserKeeps

LEMMA CloseFileKeeps ==
  ASSUME IInv, CloseFile, UNCHANGED user
  PROVE  IInv'
<1>1. /\ view' = [view EXCEPT !.request = @ + 1]
      /\ toMain' = toMain \o Signal("close", 0)
      /\ UNCHANGED <<host, session, work, toView, seen, user>>
  BY DEF CloseFile
<1>2. view \in ViewType /\ view.request \in Nat /\ view.request + 1 \in Nat
  BY Types DEF IInv, ViewType
<1>3. PICK m \in ToMain : m = Message("close", 0, Refused) /\ m.type = "close"
  BY Constants, Sent DEF ToMainType
<1>4. toMain' = toMain \o <<m>>
  BY <1>1, <1>3 DEF Signal
<1>5. /\ view' \in ViewType /\ view'.request = view.request + 1
      /\ UNCHANGED <<view.event, view.eventRequest, view.asking, view.calls>>
  BY <1>1, <1>2 DEF ViewType
<1>6. ~DispatchMain(m) /\ MainSays(m)'
  BY <1>3 DEF DispatchMain, MainSays, Asks
<1> QED
  BY <1>1, <1>5, <1>6, <1>4, NextRequest, UserSends, SameToView, UserKeeps

-----------------------------------------------------------------------------
(* What an answered open does to the view *)

\* The dispatch of the event, if there is one, is in the hands of this step.
Gone(event) ==
  /\ event \in 0 .. MaxEvents
  /\ toView' \in Seq(ToView) /\ OneView(toView')
  /\ Msgs(toView') \subseteq Msgs(toView)
  /\ \A m \in Msgs(toView) \ Msgs(toView') : m.type # "committed"
  /\ event # 0 => /\ host.at = "complete" /\ event = HeadId
                  /\ NoneView(toView') /\ NoneMain(toMain) /\ Elsewhere0

\* The view before the outcome is applied: nothing is asked for anew,
Continues(v) ==
  /\ v \in ViewType
  /\ v.request = view.request /\ v.asking = view.asking
  /\ v.calls \subseteq view.calls /\ v.eventRequest <= v.request
  /\ v.eventRequest = v.request => \A c \in v.calls : c.id # v.request
  /\ \A id : id # 0 /\ v.event = id /\ v.request = v.eventRequest =>
               HostFileOpenIsActive(id)

\* and the one request that was active has its answer.
Settled(v) ==
  /\ \A id : id # 0 => ~(v.event = id /\ v.request = v.eventRequest)
  /\ \A c \in v.calls : c.id # v.request

SameAsked(v) ==
  /\ view'.request = v.request /\ view'.event = v.event
  /\ view'.eventRequest = v.eventRequest /\ view'.asking = v.asking
  /\ view'.calls = v.calls

Brings(result, event) ==
  /\ result \in Result
  /\ result.ok = "source" =>
       result.src.n \in 1 .. session.latest /\ result.src.by = event

LEMMA ContinuesRequests ==
  ASSUME IInv, UNCHANGED session, NEW v, Continues(v), SameAsked(v)
  PROVE  /\ Requests' /\ view.request <= view'.request
         /\ view'.asking => view.asking
         /\ \A id : id # 0 /\ HostFileOpenIsActive(id)' => HostFileOpenIsActive(id)
         /\ \A id : ActiveUser(id)' => ActiveUser(id)
         /\ Settled(v) => /\ \A id : id # 0 => ~HostFileOpenIsActive(id)'
                          /\ \A id : ~ActiveUser(id)'
<1>1. view.request \in Nat
  BY Types DEF IInv, ViewType
<1>2. Requests' /\ view.request <= view'.request /\ (view'.asking => view.asking)
  BY <1>1 DEF IInv, Requests, Continues, SameAsked
<1>3. \A id : id # 0 /\ HostFileOpenIsActive(id)' => HostFileOpenIsActive(id)
  BY DEF Continues, SameAsked, HostFileOpenIsActive, IsActiveRequest
<1>4. \A id : ActiveUser(id)' => ActiveUser(id)
  BY DEF Continues, SameAsked, ActiveUser, IsActiveRequest
<1>5. Settled(v) => /\ \A id : id # 0 => ~HostFileOpenIsActive(id)'
                    /\ \A id : ~ActiveUser(id)'
  BY DEF Settled, SameAsked, HostFileOpenIsActive, ActiveUser, IsActiveRequest
<1> QED BY <1>2, <1>3, <1>4, <1>5

Superseded(w) == [w EXCEPT !.fresh = FALSE]

\* Loads that lose their authority are the loads they were otherwise.
LEMMA Supersedes ==
  ASSUME IInv, NEW W, W = work \/ W = {Superseded(w) : w \in work}
  PROVE  /\ W \subseteq WorkType
         /\ \A w \in W : \E y \in work :
              w.src = y.src /\ w.event = y.event /\ w.at = y.at
         /\ \A w, x \in W : Loading(w) /\ Loading(x) => w = x
         /\ \A w \in W : Loading(w) => \E y \in work :
              Loading(y) /\ y.event = w.event
         /\ \A w \in W : w.at # "commit" => w.src \in seen /\ w.src.by = w.event
<1>1. work \subseteq WorkType
  BY Types DEF IInv
<1>2. \A w \in work : w.at # "commit" => w.src \in seen /\ w.src.by = w.event
  BY DEF IInv, Sources
<1>3. \A w, x \in work : Loading(w) /\ Loading(x) => w = x
  BY DEF IInv, Elsewhere
<1>4. CASE W = work
  BY <1>1, <1>2, <1>3, <1>4
<1>5. CASE W = {Superseded(w) : w \in work}
  <2>1. \A w \in work :
          /\ Superseded(w) \in WorkType
          /\ Superseded(w).src = w.src /\ Superseded(w).event = w.event
          /\ Superseded(w).at = w.at
    BY <1>1 DEF Superseded, WorkType
  <2>2. \A w \in W : \E y \in work :
          /\ w = Superseded(y)
          /\ w.src = y.src /\ w.event = y.event /\ w.at = y.at
    BY <1>5, <2>1
  <2>3. W \subseteq WorkType
    BY <1>5, <2>1
  <2>4. \A w \in W : Loading(w) => \E y \in work :
              Loading(y) /\ y.event = w.event
    BY <2>2 DEF Loading
  <2>5. ASSUME NEW w \in W, NEW x \in W, Loading(w), Loading(x)
        PROVE  w = x
    <3>1. PICK y \in work : w = Superseded(y) /\ w.event = y.event /\ w.at = y.at
      BY <2>2
    <3>2. PICK z \in work : x = Superseded(z) /\ x.event = z.event /\ x.at = z.at
      BY <2>2
    <3>3. y = z
      BY <1>3, <2>5, <3>1, <3>2 DEF Loading
    <3> QED BY <3>1, <3>2, <3>3
  <2>6. \A w \in W : w.at # "commit" => w.src \in seen /\ w.src.by = w.event
    BY <1>2, <2>2
  <2> QED BY <2>2, <2>3, <2>4, <2>5, <2>6
<1> QED BY <1>4, <1>5

LEMMA TokenStep ==
  ASSUME IInv, UNCHANGED <<host, session>>, NEW event, Gone(event),
         OneMain(toMain'), view'.asking => view.asking,
         \A m \in Msgs(toMain') \ Msgs(toMain) :
           DispatchMain(m) => event # 0 /\ Phase(m) = "complete",
         \A w, x \in work' : Loading(w) /\ Loading(x) => w = x,
         \A w \in work' : Loading(w) =>
           \/ \E y \in work : Loading(y) /\ y.event = w.event
           \/ event # 0 /\ w.event = HeadId /\ NoneMain(toMain')
  PROVE  Channels' /\ Elsewhere'
<1>1. CASE event = 0
  BY <1>1, TokenStays DEF Gone
<1>2. CASE event # 0
  <2>1. /\ host.at = "complete" /\ NoneView(toView') /\ NoneMain(toMain)
        /\ Elsewhere0 /\ OneView(toView')
    BY <1>2 DEF Gone
  <2>2. \A m \in Msgs(toMain') : DispatchMain(m) => host.at = Phase(m)
    BY <2>1 DEF NoneMain
  <2> QED BY <2>1, <2>2, TokenMoves DEF Elsewhere0
<1> QED BY <1>1, <1>2

LEMMA AcceptSent ==
  ASSUME NEW s \in Seq(ToMain), OneMain(s), NEW event \in Nat,
         event = 0 \/ NoneMain(s), NEW t, t = s \o Accept(event)
  PROVE  /\ t \in Seq(ToMain) /\ OneMain(t) /\ Msgs(s) \subseteq Msgs(t)
         /\ \A m \in Msgs(t) \ Msgs(s) : event # 0 /\ m.type = "accepted"
<1>1. CASE event = 0
  <2>1. t = s
    BY <1>1, SameSequence DEF Accept
  <2> QED BY <2>1
<1>2. CASE event # 0
  <2>1. PICK m \in ToMain :
          m = Message("accepted", event, Refused) /\ m.type = "accepted"
    BY Constants, Sent DEF ToMainType
  <2>2. t = s \o <<m>>
    BY <1>2, <2>1 DEF Accept, Signal
  <2>3. t = Append(s, m) /\ t \in Seq(ToMain) /\ Msgs(t) = Msgs(s) \cup {m}
        /\ OneMain(t)
    BY <1>2, <2>2, MainSent
  <2> QED BY <1>2, <2>1, <2>3
<1> QED BY <1>1, <1>2

LEMMA RevokeKeeps ==
  ASSUME IInv, UNCHANGED <<host, session, user>>,
         NEW event, Gone(event), NEW v, Continues(v),
         Revoke(v, Accept(event))
  PROVE  IInv'
<1>1. /\ view' = Cleared(v) /\ work' = Deactivated /\ seen' = seen
      /\ toMain' = (toMain \o Signal("dispose", 0)) \o Accept(event)
  BY DEF Revoke
<1>2. /\ toMain \in Seq(ToMain) /\ OneMain(toMain) /\ seen \subseteq Source
      /\ event \in Nat
  BY Types, Constants DEF IInv, Channels, Gone
<1>3. PICK d \in ToMain :
        d = Message("dispose", 0, Refused) /\ d.type = "dispose" /\ d.id = 0
  BY Constants, Sent DEF ToMainType
<1>4. ~DispatchMain(d) /\ MainSays(d)'
  BY <1>3 DEF DispatchMain, MainSays, Asks
<1> DEFINE s == toMain \o <<d>>
<1>5. /\ s \in Seq(ToMain) /\ OneMain(s) /\ Msgs(s) = Msgs(toMain) \cup {d}
  BY <1>2, <1>4, MainSent
<1>6. event = 0 \/ NoneMain(s)
  BY <1>4, <1>5 DEF Gone, NoneMain
<1>7. toMain' = s \o Accept(event)
  BY <1>1, <1>3 DEF Signal
<1> HIDE DEF s
<1>8. /\ toMain' \in Seq(ToMain) /\ OneMain(toMain')
      /\ Msgs(s) \subseteq Msgs(toMain')
      /\ \A m \in Msgs(toMain') \ Msgs(s) : event # 0 /\ m.type = "accepted"
  BY <1>2, <1>5, <1>6, <1>7, AcceptSent
<1>9. \A m \in Msgs(toMain') \ Msgs(toMain) :
        /\ DispatchMain(m) => event # 0 /\ Phase(m) = "complete"
        /\ MainSays(m)'
  <2>1. ASSUME NEW m \in Msgs(toMain') \ Msgs(toMain), m # d
        PROVE  /\ DispatchMain(m) => event # 0 /\ Phase(m) = "complete"
               /\ MainSays(m)'
    <3>1. event # 0 /\ m.type = "accepted"
      BY <1>5, <1>8, <2>1
    <3> QED BY <3>1 DEF Phase, MainSays, Asks
  <2> QED BY <1>4, <2>1
<1>10. work' = work \/ work' = {Superseded(w) : w \in work}
  BY <1>1 DEF Deactivated, Superseded
<1>11. view' \in ViewType /\ SameAsked(v)
  BY <1>1, Clears DEF Continues, SameAsked
<1>12. Channels' /\ Elsewhere'
  BY <1>8, <1>9, <1>10, <1>11, ContinuesRequests, Supersedes, TokenStep
<1>13. Acknowledged => Acknowledged'
  BY <1>5, <1>8 DEF Acknowledged, Gone
<1>14. \A t \in seen' : t.n \in 1 .. session.latest
  BY <1>1 DEF IInv, Sources
<1>15. /\ work' \subseteq WorkType
       /\ \A w \in work' :
            w.at # "commit" => w.src \in seen' /\ w.src.by = w.event
  BY <1>1, <1>10, Supersedes
<1> QED
  BY <1>1, <1>2, <1>8, <1>9, <1>11, <1>12, <1>13, <1>14, <1>15,
     ContinuesRequests, ViewKeeps DEF Gone

LEMMA KeepOrRevokeKeeps ==
  ASSUME IInv, UNCHANGED <<host, session, user>>,
         NEW event, Gone(event), NEW v, Continues(v),
         KeepOrRevoke(v, Accept(event))
  PROVE  IInv'
<1>1. CASE Revoke(v, Accept(event))
  BY <1>1, RevokeKeeps
<1>2. CASE ~Revoke(v, Accept(event))
  <2>1. /\ view' = [v EXCEPT !.loading = FALSE]
        /\ toMain' = toMain \o Accept(event) /\ UNCHANGED <<work, seen>>
    BY <1>2 DEF KeepOrRevoke
  <2>2. /\ toMain \in Seq(ToMain) /\ OneMain(toMain) /\ event \in Nat
        /\ seen \subseteq Source
    BY Types, Constants DEF IInv, Channels, Gone
  <2>3. /\ toMain' \in Seq(ToMain) /\ OneMain(toMain')
        /\ Msgs(toMain) \subseteq Msgs(toMain')
        /\ \A m \in Msgs(toMain') \ Msgs(toMain) :
             event # 0 /\ m.type = "accepted"
    BY ZenonT(40), <2>1, <2>2, AcceptSent DEF Gone
  <2>4. \A m \in Msgs(toMain') \ Msgs(toMain) :
          Phase(m) = "complete" /\ MainSays(m)'
    BY <2>3 DEF Phase, MainSays, Asks
  <2>5. view' \in ViewType /\ SameAsked(v)
    BY <2>1 DEF Continues, SameAsked, ViewType
  <2>6. Channels' /\ Elsewhere'
    BY <2>1, <2>3, <2>4, <2>5, ContinuesRequests, Supersedes, TokenStep
  <2>7. Acknowledged => Acknowledged'
    BY <2>3 DEF Acknowledged, Gone
  <2>8. /\ work' \subseteq WorkType
        /\ \A w \in work' :
             w.at # "commit" => w.src \in seen' /\ w.src.by = w.event
        /\ \A t \in seen' : t.n \in 1 .. session.latest
    BY <2>1, Types DEF IInv, Sources
  <2> QED
    BY <2>1, <2>2, <2>3, <2>4, <2>5, <2>6, <2>7, <2>8, ContinuesRequests,
       ViewKeeps DEF Gone
<1> QED BY <1>1, <1>2

LEMMA ShowPlayerKeeps ==
  ASSUME IInv, UNCHANGED <<host, session, user>>,
         NEW event, Gone(event), NEW v, Continues(v), Settled(v),
         NEW result, Brings(result, event), ShowPlayer(v, result, event)
  PROVE  IInv'
<1> DEFINE held == result.ok = "source"
           k == [src |-> result.src, event |-> event, held |-> held,
                 at |-> "commit", fresh |-> TRUE]
<1>1. /\ \E shown \in {result.src, NoSource, v.shown},
            player \in {NoSource, v.player} :
           view' = [v EXCEPT !.shown = shown, !.model = result.src,
                             !.svga = FALSE, !.player = player,
                             !.loading = FALSE]
      /\ work' = Deactivated \cup {k}
      /\ toMain' = Append(toMain, Message("commit", event, result))
      /\ seen' = IF held THEN seen \cup {result.src} ELSE seen
  BY DEF ShowPlayer
<1>2. /\ toMain \in Seq(ToMain) /\ OneMain(toMain) /\ seen \subseteq Source
      /\ event \in Nat /\ event \in 0 .. MaxEvents
      /\ result \in Result /\ result.src \in Source
  BY Types, Constants DEF IInv, Channels, Gone, Brings, Result
<1>3. k \in WorkType /\ k.at = "commit"
  BY <1>2 DEF WorkType
<1> HIDE DEF k
<1>4. PICK m \in ToMain :
        /\ m = Message("commit", event, result)
        /\ m.type = "commit" /\ m.id = event /\ m.result = result
  BY <1>2, Sent DEF ToMainType
<1>5. DispatchMain(m) <=> event # 0
  BY <1>4 DEF DispatchMain
<1>6. toMain' = toMain \o <<m>>
  BY <1>1, <1>2, <1>4, AppendMsgs
<1>7. /\ toMain' \in Seq(ToMain) /\ OneMain(toMain')
      /\ Msgs(toMain') = Msgs(toMain) \cup {m}
  BY <1>2, <1>5, <1>6, MainSent DEF Gone
<1>8. seen \subseteq seen' /\ seen' \subseteq Source
      /\ (held => result.src \in seen')
  BY <1>1, <1>2
<1>9. MainSays(m)'
  BY <1>4, <1>8 DEF MainSays, Asks, Gone, HeadId, Brings
<1>10. view' \in ViewType /\ SameAsked(v)
  <2>1. PICK shown \in {result.src, NoSource, v.shown},
             player \in {NoSource, v.player} :
           view' = [v EXCEPT !.shown = shown, !.model = result.src,
                             !.svga = FALSE, !.player = player,
                             !.loading = FALSE]
    BY <1>1
  <2>2. v \in ViewType
    BY DEF Continues
  <2>3. shown \in Source /\ player \in Source
    BY <1>2, <2>2, Constants DEF ViewType
  <2>4. SameAsked(v)
    BY <2>1, <2>2 DEF SameAsked, ViewType
  <2> QED BY <1>2, <2>1, <2>2, <2>3, <2>4 DEF ViewType
<1>11. PICK W : /\ W = work \/ W = {Superseded(w) : w \in work}
                /\ work' = W \cup {k}
  <2>1. Deactivated = work \/ Deactivated = {Superseded(w) : w \in work}
    BY DEF Deactivated, Superseded
  <2> QED BY <1>1, <2>1
<1>12. ~Loading(k)
  BY <1>3 DEF Loading
<1>13. Channels' /\ Elsewhere'
  <2>1. \A x \in Msgs(toMain') \ Msgs(toMain) :
          DispatchMain(x) => event # 0 /\ Phase(x) = "complete"
    BY <1>4, <1>5, <1>7 DEF Phase
  <2>2. \A w, x \in work' : Loading(w) /\ Loading(x) => w = x
    BY <1>11, <1>12, Supersedes
  <2>3. \A w \in work' : Loading(w) =>
          \E y \in work : Loading(y) /\ y.event = w.event
    BY <1>11, <1>12, Supersedes
  <2> QED BY <1>7, <1>10, <2>1, <2>2, <2>3, ContinuesRequests, TokenStep
<1>14. Acknowledged => Acknowledged'
  BY <1>7 DEF Acknowledged, Gone
<1>15. \A t \in seen' : t.n \in 1 .. session.latest
  BY <1>1 DEF IInv, Sources, Brings
<1>16. /\ work' \subseteq WorkType
       /\ \A w \in work' :
            w.at # "commit" => w.src \in seen' /\ w.src.by = w.event
  BY <1>3, <1>8, <1>11, Supersedes
<1> QED
  BY <1>7, <1>8, <1>9, <1>10, <1>13, <1>14, <1>15, <1>16, ContinuesRequests,
     ViewKeeps DEF Gone

LEMMA LoadSvgaKeeps ==
  ASSUME IInv, UNCHANGED <<host, session, user>>,
         NEW event, Gone(event), NEW v, Continues(v), Settled(v),
         NEW result, Brings(result, event), result.ok = "source",
         LoadSvga(v, result, event)
  PROVE  IInv'
<1> DEFINE k == [src |-> result.src, event |-> event, held |-> TRUE,
                 at |-> "inspect", fresh |-> TRUE]
           W == {Superseded(w) : w \in work}
<1>1. /\ view' = [v EXCEPT !.shown = result.src, !.svga = TRUE,
                           !.loading = TRUE]
      /\ work' = W \cup {k} /\ seen' = seen \cup {result.src}
      /\ toMain' = toMain
  BY DEF LoadSvga, Superseded
<1>2. /\ toMain \in Seq(ToMain) /\ OneMain(toMain) /\ seen \subseteq Source
      /\ event \in 0 .. MaxEvents
      /\ result.src \in Source /\ result.src.by = event
      /\ result.src.n \in 1 .. session.latest
  BY Types DEF IInv, Channels, Gone, Brings, Result
<1>3. /\ k \in WorkType /\ k.src = result.src /\ k.event = event
  BY <1>2 DEF WorkType
<1> HIDE DEF k
<1>4. view' \in ViewType /\ SameAsked(v)
  BY <1>1, <1>2 DEF Continues, SameAsked, ViewType
<1>5. W = {Superseded(w) : w \in work}
  OBVIOUS
<1> HIDE DEF W
<1>6. /\ W \subseteq WorkType
      /\ \A w, x \in W : Loading(w) /\ Loading(x) => w = x
      /\ \A w \in W : Loading(w) => \E y \in work :
              Loading(y) /\ y.event = w.event
      /\ \A w \in W : w.at # "commit" => w.src \in seen /\ w.src.by = w.event
  BY <1>5, Supersedes
<1>7. /\ Loading(k) => event # 0 /\ k.event = HeadId /\ NoneMain(toMain')
      /\ event # 0 => \A w \in W : ~Loading(w)
  BY <1>1, <1>3, <1>6 DEF Loading, Gone, Elsewhere0
<1>8. Channels' /\ Elsewhere'
  <2>1. \A w, x \in work' : Loading(w) /\ Loading(x) => w = x
    BY <1>1, <1>6, <1>7
  <2>2. \A w \in work' : Loading(w) =>
          \/ \E y \in work : Loading(y) /\ y.event = w.event
          \/ event # 0 /\ w.event = HeadId /\ NoneMain(toMain')
    BY <1>1, <1>6, <1>7
  <2> QED BY <1>1, <1>2, <1>4, <2>1, <2>2, ContinuesRequests, TokenStep
<1>9. Acknowledged => Acknowledged'
  BY <1>1 DEF Acknowledged, Gone
<1>10. \A t \in seen' : t.n \in 1 .. session.latest
  BY <1>1, <1>2 DEF IInv, Sources
<1>11. /\ work' \subseteq WorkType
       /\ \A w \in work' :
            w.at # "commit" => w.src \in seen' /\ w.src.by = w.event
  BY <1>1, <1>2, <1>3, <1>6
<1>12. seen \subseteq seen' /\ seen' \subseteq Source
  BY <1>1, <1>2
<1> QED
  BY <1>1, <1>2, <1>4, <1>8, <1>9, <1>10, <1>11, <1>12, ContinuesRequests,
     ViewKeeps DEF Gone

LEMMA OutcomeKeeps ==
  ASSUME IInv, UNCHANGED <<host, session, user>>,
         NEW event, Gone(event), NEW v, Continues(v), Settled(v),
         NEW result, Brings(result, event), ApplyOpenOutcome(v, result, event)
  PROVE  IInv'
<1>1. \/ Revoke(v, Accept(event))
      \/ ShowPlayer(v, result, event)
      \/ result.ok = "source" /\ LoadSvga(v, result, event)
      \/ KeepOrRevoke(v, Accept(event))
  BY DEF ApplyOpenOutcome
<1> QED
  BY <1>1, RevokeKeeps, ShowPlayerKeeps, LoadSvgaKeeps, KeepOrRevokeKeeps

LEMMA HostResultConsumedKeeps ==
  ASSUME IInv, HostResultConsumed, UNCHANGED user
  PROVE  IInv'
<1>1. PICK m \in ToView :
        /\ m = Head(toView) /\ m.type = "consumed"
        /\ toView # <<>> /\ toView' = Tail(toView)
        /\ IF HostFileOpenIsActive(m.id)
           THEN ApplyOpenOutcome(ClearHostFileOpen(view), m.result, m.id)
           ELSE /\ toMain' = toMain \o Signal("rejected", m.id)
                /\ UNCHANGED <<view, work, seen>>
        /\ UNCHANGED <<host, session, user>>
  BY ViewReceived DEF HostResultConsumed
<1>2. DispatchView(m) /\ Phase(m) = "complete"
  BY <1>1 DEF DispatchView, Phase
<1>3. /\ toView' \in Seq(ToView) /\ OneView(toView')
      /\ Msgs(toView') \subseteq Msgs(toView)
      /\ \A x \in Msgs(toView) \ Msgs(toView') : x = m
      /\ m.result \in Result /\ ViewSays(m) /\ m.id \in Nat
      /\ host.at = "complete" /\ m.id = HeadId /\ host.queue # <<>>
      /\ NoneView(toView') /\ NoneMain(toMain) /\ Elsewhere0
  BY <1>1, <1>2, CallReceived
<1>4. view \in ViewType /\ m.id \in 0 .. MaxEvents /\ view.request \in Nat
  BY <1>3, HeadOfQueue, Constants, Types DEF IInv, ViewType, HeadId
<1>5. CASE HostFileOpenIsActive(m.id)
  <2>1. PICK v : v = ClearHostFileOpen(view)
    OBVIOUS
  <2>2. /\ v \in ViewType /\ v.request = view.request
        /\ v.asking = view.asking /\ v.calls = view.calls
        /\ v.event = 0 /\ v.eventRequest = 0
    <3>1. v = [view EXCEPT !.event = 0, !.eventRequest = 0]
      BY <2>1 DEF ClearHostFileOpen
    <3>2. 0 \in 0 .. MaxEvents
      BY Constants
    <3> QED BY <1>4, <3>1, <3>2 DEF ViewType
  <2>3. \A c \in view.calls : c.id # view.request
    BY <1>5 DEF IInv, Requests, HostFileOpenIsActive, IsActiveRequest
  <2>4. Continues(v) /\ Settled(v)
    BY <1>4, <2>2, <2>3 DEF Continues, Settled
  <2>5. Gone(m.id)
    BY <1>1, <1>3, <1>4 DEF Gone
  <2>6. Brings(m.result, m.id)
    BY <1>1, <1>3 DEF Brings, ViewSays
  <2>7. ApplyOpenOutcome(v, m.result, m.id)
    BY <1>1, <1>5, <2>1
  <2> QED BY <1>1, <2>4, <2>5, <2>6, <2>7, OutcomeKeeps
<1>6. CASE ~HostFileOpenIsActive(m.id)
  <2>1. PICK r \in ToMain :
          r = Message("rejected", m.id, Refused) /\ r.type = "rejected"
    BY <1>3, Constants, Sent DEF ToMainType
  <2>2. /\ toMain' = toMain \o <<r>> /\ UNCHANGED <<view, work, seen>>
    BY <1>1, <1>6, <2>1 DEF Signal
  <2>3. MainSays(r)' /\ Phase(r) = host.at
    BY <1>3, <2>1 DEF MainSays, Asks, Phase
  <2>4. UNCHANGED <<view.request, view.event, view.eventRequest>>
        /\ view'.calls \subseteq view.calls /\ view' \in ViewType /\ ~view'.asking
    BY <1>3, <1>4, <2>2 DEF Elsewhere0
  <2> QED BY <1>1, <1>2, <2>2, <2>3, <2>4, SameRequests, AnswerKeeps
<1> QED BY <1>5, <1>6

LEMMA AnsweredKeeps ==
  ASSUME IInv, Answered, UNCHANGED user
  PROVE  IInv'
<1>1. PICK m \in ToView :
        /\ m = Head(toView) /\ m.type = "answered"
        /\ toView # <<>> /\ toView' = Tail(toView)
        /\ UNCHANGED <<host, session, user>>
  BY ViewReceived DEF Answered
<1> DEFINE call == {c \in view.calls : c.id = m.id}
<1>2. PICK v : v = [view EXCEPT !.calls = @ \ call]
  OBVIOUS
<1>3. IF call # {} /\ IsActiveRequest(m.id)
      THEN ApplyOpenOutcome(v, m.result, 0)
      ELSE view' = v /\ UNCHANGED <<work, toMain, seen>>
  BY <1>1, <1>2 DEF Answered
<1>4. /\ toView' \in Seq(ToView) /\ OneView(toView')
      /\ Msgs(toView') \subseteq Msgs(toView)
      /\ \A x \in Msgs(toView) \ Msgs(toView') : x = m
      /\ m.result \in Result /\ ViewSays(m)
  BY <1>1, CallReceived
<1>5. view \in ViewType /\ toMain \in Seq(ToMain) /\ OneMain(toMain)
  BY Types DEF IInv, Channels
<1>6. /\ v \in ViewType /\ v.request = view.request /\ v.event = view.event
      /\ v.eventRequest = view.eventRequest /\ v.asking = view.asking
      /\ v.calls = view.calls \ call
  BY <1>2, <1>5 DEF ViewType
<1>7. CASE call # {} /\ IsActiveRequest(m.id)
  <2>1. /\ view.request = m.id
        /\ \A c \in v.calls : c.id # v.request
    BY <1>6, <1>7 DEF IsActiveRequest
  <2>2. view.eventRequest # view.request /\ view.eventRequest <= view.request
    BY <1>7, <2>1 DEF IInv, Requests
  <2>3. Continues(v) /\ Settled(v)
    BY <1>6, <2>1, <2>2 DEF Continues, Settled
  <2>4. Gone(0)
    BY <1>1, <1>4, Constants DEF Gone
  <2>5. Brings(m.result, 0)
    BY <1>1, <1>4 DEF Brings, ViewSays
  <2> QED BY <1>1, <1>3, <1>7, <2>3, <2>4, <2>5, OutcomeKeeps
<1>8. CASE ~(call # {} /\ IsActiveRequest(m.id))
  <2>1. view' = v /\ UNCHANGED <<work, toMain, seen>>
    BY <1>3, <1>8
  <2>2. /\ UNCHANGED <<view.request, view.event, view.eventRequest, view.asking>>
        /\ view'.calls \subseteq view.calls /\ view' \in ViewType
    BY <1>6, <2>1
  <2> QED BY <1>1, <1>4, <1>5, <2>1, <2>2, SameRequests, UserKeeps
<1> QED BY <1>7, <1>8

LEMMA OpenTimedOutKeeps ==
  ASSUME IInv, NEW call \in view.calls, OpenTimedOut(call), UNCHANGED user
  PROVE  IInv'
<1>1. PICK v : v = [view EXCEPT !.calls = @ \ {call}]
  OBVIOUS
<1>2. /\ UNCHANGED <<host, session, toView, user>>
      /\ IF IsActiveRequest(call.id)
         THEN Revoke(v, <<>>)
         ELSE view' = v /\ UNCHANGED <<work, toMain, seen>>
  BY <1>1 DEF OpenTimedOut
<1>3. /\ view \in ViewType /\ toMain \in Seq(ToMain) /\ OneMain(toMain)
      /\ toView \in Seq(ToView) /\ OneView(toView)
  BY Types DEF IInv, Channels
<1>4. /\ v \in ViewType /\ v.request = view.request /\ v.event = view.event
      /\ v.eventRequest = view.eventRequest /\ v.asking = view.asking
      /\ v.calls \subseteq view.calls
  BY <1>1, <1>3 DEF ViewType
<1>5. CASE IsActiveRequest(call.id)
  <2>1. Continues(v)
    BY <1>4 DEF IInv, Requests, Continues, HostFileOpenIsActive, IsActiveRequest
  <2>2. Gone(0)
    BY <1>2, <1>3, Constants DEF Gone
  <2>3. Revoke(v, Accept(0))
    BY <1>2, <1>5 DEF Accept
  <2> QED BY <1>2, <2>1, <2>2, <2>3, RevokeKeeps
<1>6. CASE ~IsActiveRequest(call.id)
  <2>1. view' = v /\ UNCHANGED <<work, toMain, seen>>
    BY <1>2, <1>6
  <2>2. /\ UNCHANGED <<view.request, view.event, view.eventRequest, view.asking>>
        /\ view'.calls \subseteq view.calls /\ view' \in ViewType
    BY <1>4, <2>1
  <2> QED BY <1>2, <1>3, <2>1, <2>2, SameRequests, UserKeeps
<1> QED BY <1>5, <1>6

\* commitAcceptedOpen is through: the dispatch that waits hears of it.
LEMMA CommitAnsweredKeeps ==
  ASSUME IInv, NEW type \in {"committed", "uncommitted"},
         CommitAnswered(type), UNCHANGED user
  PROVE  IInv'
<1>1. PICK m \in ToView :
        /\ m = Head(toView) /\ m.type = type
        /\ toView # <<>> /\ toView' = Tail(toView)
        /\ toMain' = toMain \o IF type = "committed" THEN Accept(m.id)
                                                     ELSE Reject(m.id)
        /\ work' \subseteq work
        /\ UNCHANGED <<host, session, view, seen, user>>
  BY ViewReceived DEF CommitAnswered, ViewReceives
<1>2. DispatchView(m) <=> m.id # 0
  BY <1>1 DEF DispatchView
<1>3. /\ toView' \in Seq(ToView) /\ OneView(toView')
      /\ Msgs(toView') \subseteq Msgs(toView)
      /\ \A x \in Msgs(toView) \ Msgs(toView') : x = m
      /\ m.id \in Nat
      /\ m.id # 0 => /\ host.at = "complete"
                     /\ NoneView(toView') /\ NoneMain(toMain) /\ Elsewhere0
  BY <1>1, <1>2, CallReceived DEF Phase
<1>4. /\ toMain \in Seq(ToMain) /\ OneMain(toMain) /\ view \in ViewType
      /\ work \subseteq WorkType /\ seen \subseteq Source
  BY Types DEF IInv, Channels
<1>5. /\ toMain' \in Seq(ToMain) /\ OneMain(toMain')
      /\ Msgs(toMain) \subseteq Msgs(toMain')
      /\ \A x \in Msgs(toMain') \ Msgs(toMain) :
           m.id # 0 /\ x.type \in {"accepted", "rejected"}
      /\ m.id # 0 /\ type = "committed" =>
           \E x \in Msgs(toMain') : x.type = "accepted"
  <2>1. CASE m.id = 0
    <3>1. toMain' = toMain \o <<>>
      BY <1>1, <2>1 DEF Accept, Reject
    <3>2. toMain' = toMain
      BY <1>4, <3>1, SameSequence
    <3> QED BY <1>4, <2>1, <3>2
  <2>2. CASE m.id # 0
    <3>1. PICK r \in {"accepted", "rejected"} :
            /\ toMain' = toMain \o Signal(r, m.id)
            /\ type = "committed" => r = "accepted"
      BY <1>1, <2>2 DEF Accept, Reject
    <3>2. PICK x \in ToMain : x = Message(r, m.id, Refused) /\ x.type = r
      BY <1>3, Constants, Sent DEF ToMainType
    <3>3. toMain' = toMain \o <<x>>
      BY <3>1, <3>2 DEF Signal
    <3>4. /\ toMain' \in Seq(ToMain) /\ OneMain(toMain')
          /\ Msgs(toMain') = Msgs(toMain) \cup {x}
      BY <1>3, <1>4, <2>2, <3>3, MainSent
    <3> QED BY <2>2, <3>1, <3>2, <3>4
  <2> QED BY <2>1, <2>2
<1>6. \A x \in Msgs(toMain') \ Msgs(toMain) :
        Phase(x) = "complete" /\ MainSays(x)'
  BY <1>5 DEF Phase, MainSays, Asks
<1>7. \A w, x \in work' : Loading(w) => /\ w \in work
                                        /\ Loading(x) => w = x
  BY <1>1 DEF IInv, Elsewhere
<1>8. Channels' /\ Elsewhere'
  <2>1. CASE m.id = 0
    <3>1. \A x \in Msgs(toMain') \ Msgs(toMain) : ~DispatchMain(x)
      BY <1>5, <2>1
    <3> QED BY <1>1, <1>3, <1>5, <1>7, <3>1, TokenStays
  <2>2. CASE m.id # 0
    <3>1. \A x \in Msgs(toMain') : DispatchMain(x) => host.at = Phase(x)
      BY <1>3, <1>6, <2>2 DEF NoneMain
    <3>2. /\ ~view'.asking /\ \A w \in work' : ~Loading(w)
          /\ \A o \in session.opens : o.caller # 0
      BY <1>1, <1>3, <2>2 DEF Elsewhere0
    <3> QED BY <1>1, <1>3, <1>5, <2>2, <3>1, <3>2, TokenMoves
  <2> QED BY <2>1, <2>2
<1>9. Acknowledged => Acknowledged'
  <2>1. CASE m.id # 0 /\ type = "committed"
    BY <1>5, <2>1 DEF Acknowledged
  <2>2. CASE ~(m.id # 0 /\ type = "committed")
    BY <1>1, <1>3, <1>5, <2>2 DEF Acknowledged
  <2> QED BY <2>1, <2>2
<1>10. /\ work' \subseteq WorkType
       /\ \A w \in work' :
            w.at # "commit" => w.src \in seen' /\ w.src.by = w.event
       /\ \A t \in seen' : t.n \in 1 .. session.latest
  BY <1>1, <1>4 DEF IInv, Sources
<1>11. /\ UNCHANGED <<view.request, view.event, view.eventRequest>>
       /\ view'.calls \subseteq view.calls /\ view' \in ViewType
       /\ seen \subseteq seen' /\ seen' \subseteq Source /\ seen' = seen
  BY <1>1, <1>4
<1> QED
  BY <1>1, <1>3, <1>5, <1>6, <1>8, <1>9, <1>10, <1>11, SameRequests, ViewKeeps

\* A load that is inspected or mounted, and the dispatch it may hold.
LEMMA LoadHolds ==
  ASSUME IInv, NEW w \in work, w.at # "commit"
  PROVE  /\ w \in WorkType /\ w.src \in Source /\ w.event \in Nat
         /\ w.src \in seen /\ w.src.by = w.event
         /\ w.event # 0 =>
              /\ Loading(w) /\ host.at = "complete" /\ w.event = HeadId
              /\ NoneMain(toMain) /\ NoneView(toView) /\ ~view.asking
              /\ \A o \in session.opens : o.caller # 0
              /\ \A x \in work : Loading(x) => x = w
<1>1. w \in WorkType
  BY Types DEF IInv
<1>2. w.src \in Source /\ w.event \in Nat
  BY <1>1, Constants DEF WorkType
<1>3. w.src \in seen /\ w.src.by = w.event
  BY DEF IInv, Sources
<1>4. w.event # 0 => Loading(w)
  BY DEF Loading
<1> QED BY <1>1, <1>2, <1>3, <1>4 DEF IInv, Elsewhere

LEMMA LoadEnds ==
  ASSUME IInv, NEW w \in work, w.at # "commit",
         LoadFailed(w) \/ LoadCommits(w),
         UNCHANGED <<host, session, toView, seen, user>>,
         view' \in ViewType,
         UNCHANGED <<view.request, view.event, view.eventRequest, view.asking,
                     view.calls>>
  PROVE  IInv'
<1> DEFINE k == [w EXCEPT !.at = "commit"]
           result == [src |-> w.src, ok |-> "source"]
<1>1. /\ w \in WorkType /\ w.src \in Source /\ w.event \in Nat
      /\ w.src \in seen /\ w.src.by = w.event
      /\ w.event # 0 =>
           /\ host.at = "complete" /\ w.event = HeadId
           /\ NoneMain(toMain) /\ NoneView(toView) /\ ~view.asking
           /\ \A o \in session.opens : o.caller # 0
           /\ \A x \in work : Loading(x) => x = w
  BY LoadHolds
<1>2. /\ toMain \in Seq(ToMain) /\ OneMain(toMain)
      /\ toView \in Seq(ToView) /\ OneView(toView)
      /\ work \subseteq WorkType /\ seen \subseteq Source
  BY Types DEF IInv, Channels
<1>3. k \in WorkType /\ k.at = "commit"
  BY <1>1 DEF WorkType
<1>4. result \in Result /\ result.ok = "source" /\ result.src = w.src
  BY <1>1 DEF Result, Outcome
<1>5. PICK c \in ToMain :
        /\ c = Message("commit", w.event, result)
        /\ c.type = "commit" /\ c.id = w.event /\ c.result = result
  BY <1>1, <1>4, Sent DEF ToMainType
<1>6. PICK r \in ToMain :
        r = Message("rejected", w.event, Refused) /\ r.type = "rejected"
  BY <1>1, Constants, Sent DEF ToMainType
<1>7. \/ /\ w.event # 0 /\ work' = work \ {w} /\ toMain' = toMain \o <<r>>
      \/ /\ work' = (work \ {w}) \cup {k} /\ toMain' = Append(toMain, c)
  BY <1>5, <1>6 DEF LoadFailed, LoadCommits, Signal
<1> HIDE DEF k, result
<1>8. Append(toMain, c) = toMain \o <<c>>
  BY <1>2, AppendMsgs
<1>9. PICK m \in {c, r} : /\ toMain' = toMain \o <<m>>
                          /\ m = r => w.event # 0
  BY <1>5, <1>6, <1>7, <1>8
<1>10. MainSays(m)' /\ Phase(m) = "complete"
  BY <1>1, <1>4, <1>5, <1>6, <1>9 DEF MainSays, Asks, Phase, HeadId
<1>11. w.event = 0 => ~DispatchMain(m)
  BY <1>5, <1>6, <1>9 DEF DispatchMain
<1>12. /\ toMain' \in Seq(ToMain) /\ OneMain(toMain')
       /\ Msgs(toMain') = Msgs(toMain) \cup {m}
  BY <1>1, <1>2, <1>5, <1>6, <1>9, <1>11, MainSent
<1>13. \A x \in work' : x = k \/ (x \in work /\ x # w)
  BY <1>7
<1>14. Channels' /\ Elsewhere'
  <2>1. CASE w.event = 0
    <3>1. \A x, y \in work' : Loading(x) => /\ x \in work
                                            /\ Loading(y) => x = y
      BY <1>3, <1>13 DEF IInv, Elsewhere, Loading
    <3>2. \A x \in Msgs(toMain') \ Msgs(toMain) : ~DispatchMain(x)
      BY <1>11, <1>12, <2>1
    <3> QED BY <1>2, <1>12, <3>1, <3>2, TokenStays
  <2>2. CASE w.event # 0
    <3>1. \A x \in work' : ~Loading(x)
      BY <1>1, <1>3, <1>13, <2>2 DEF Loading
    <3>2. \A x \in Msgs(toMain') : DispatchMain(x) => host.at = Phase(x)
      BY <1>1, <1>10, <1>12, <2>2 DEF NoneMain
    <3> QED BY <1>1, <1>2, <1>12, <2>2, <3>1, <3>2, TokenMoves
  <2> QED BY <2>1, <2>2
<1>15. Acknowledged => Acknowledged'
  BY <1>12 DEF Acknowledged
<1>16. /\ work' \subseteq WorkType
       /\ \A x \in work' :
            x.at # "commit" => x.src \in seen' /\ x.src.by = x.event
       /\ \A t \in seen' : t.n \in 1 .. session.latest
  BY <1>2, <1>3, <1>13 DEF IInv, Sources
<1> QED
  BY <1>2, <1>10, <1>12, <1>14, <1>15, <1>16, SameRequests, ViewKeeps

LEMMA MountBegins ==
  ASSUME IInv, NEW w \in work, w.at # "commit",
         work' = (work \ {w}) \cup {[w EXCEPT !.at = "mount"]},
         UNCHANGED <<host, session, toMain, toView, seen, user>>,
         view' \in ViewType,
         UNCHANGED <<view.request, view.event, view.eventRequest, view.asking,
                     view.calls>>
  PROVE  IInv'
<1> DEFINE k == [w EXCEPT !.at = "mount"]
<1>1. w \in WorkType /\ w.src \in seen /\ w.src.by = w.event
  BY LoadHolds
<1>2. /\ toMain \in Seq(ToMain) /\ OneMain(toMain)
      /\ toView \in Seq(ToView) /\ OneView(toView)
      /\ work \subseteq WorkType /\ seen \subseteq Source
  BY Types DEF IInv, Channels
<1>3. /\ k \in WorkType /\ k.at = "mount" /\ k.src = w.src
      /\ k.event = w.event
  BY <1>1 DEF WorkType
<1>4. work' = (work \ {w}) \cup {k}
  OBVIOUS
<1> HIDE DEF k
<1>5. Loading(k) => Loading(w)
  BY <1>3 DEF Loading
<1>6. \A x, y \in work : Loading(x) /\ Loading(y) => x = y
  BY DEF IInv, Elsewhere
<1>7. \A x, y \in work' :
        Loading(x) => /\ \E z \in work : Loading(z) /\ z.event = x.event
                      /\ Loading(y) => x = y
  BY <1>3, <1>4, <1>5, <1>6
<1>8. Channels' /\ Elsewhere'
  BY <1>2, <1>7, TokenStays
<1>9. Acknowledged => Acknowledged'
  BY DEF Acknowledged
<1>10. /\ work' \subseteq WorkType
       /\ \A x \in work' :
            x.at # "commit" => x.src \in seen' /\ x.src.by = x.event
       /\ \A t \in seen' : t.n \in 1 .. session.latest
  BY <1>1, <1>2, <1>3, <1>4 DEF IInv, Sources
<1> QED BY <1>2, <1>8, <1>9, <1>10, SameRequests, ViewKeeps

\* What a load does to the view concerns the picture only.
LEMMA LoadView ==
  ASSUME IInv, NEW w \in work,
         \/ view' = view
         \/ view' = [view EXCEPT !.model = w.src, !.loading = FALSE]
         \/ view' = [view EXCEPT !.model = w.src, !.player = NoSource,
                                 !.loading = FALSE]
         \/ view' = [view EXCEPT !.player = w.src]
         \/ view' = [view EXCEPT !.player = NoSource]
         \/ view' = [Cleared(view) EXCEPT !.svga = view.svga]
  PROVE  /\ view' \in ViewType
         /\ UNCHANGED <<view.request, view.event, view.eventRequest,
                        view.asking, view.calls>>
<1>1. view \in ViewType /\ w \in WorkType
  BY Types DEF IInv
<1>2. w.src \in Source
  BY <1>1 DEF WorkType
<1> QED BY ZenonT(60), <1>1, <1>2, Constants DEF ViewType, Cleared

LEMMA InspectedKeeps ==
  ASSUME IInv, NEW w \in work, NEW ok \in BOOLEAN, Inspected(w, ok),
         UNCHANGED user
  PROVE  IInv'
<1>1. w.at # "commit" /\ UNCHANGED <<host, session, toView, seen, user>>
  BY DEF Inspected
<1>2. \/ /\ view' = [view EXCEPT !.model = w.src, !.player = NoSource,
                                 !.loading = FALSE]
         /\ work' = (work \ {w}) \cup {[w EXCEPT !.at = "mount"]}
         /\ UNCHANGED toMain
      \/ /\ \/ view' = [view EXCEPT !.model = w.src, !.loading = FALSE]
            \/ view' = [Cleared(view) EXCEPT !.svga = view.svga]
            \/ view' = view
         /\ LoadFailed(w) \/ LoadCommits(w)
  BY DEF Inspected
<1>3. /\ view' \in ViewType
      /\ UNCHANGED <<view.request, view.event, view.eventRequest,
                     view.asking, view.calls>>
  BY Zenon, <1>2, LoadView
<1> QED BY <1>1, <1>2, <1>3, LoadEnds, MountBegins

LEMMA MountedKeeps ==
  ASSUME IInv, NEW w \in work, NEW ok \in BOOLEAN, Mounted(w, ok),
         UNCHANGED user
  PROVE  IInv'
<1>1. /\ w.at # "commit" /\ UNCHANGED <<host, session, toView, seen, user>>
      /\ LoadFailed(w) \/ LoadCommits(w)
      /\ \/ view' = view \/ view' = [view EXCEPT !.player = w.src]
         \/ view' = [view EXCEPT !.player = NoSource]
  BY SMTT(30) DEF Mounted
<1>2. /\ view' \in ViewType
      /\ UNCHANGED <<view.request, view.event, view.eventRequest,
                     view.asking, view.calls>>
  BY Zenon, <1>1, LoadView
<1> QED BY <1>1, <1>2, LoadEnds

-----------------------------------------------------------------------------
(* The invariant *)

LEMMA StutterKeeps ==
  ASSUME IInv, UNCHANGED vars
  PROVE  IInv'
<1>1. TypeOK'
  BY DEF IInv, TypeOK, vars
<1>2. Channels' /\ Elsewhere' /\ Queue'
  BY DEF IInv, Channels, Elsewhere, Queue, IdleQueueWasTried, HeadId, vars
<1>3. Messages' /\ Requests'
  BY DEF IInv, Messages, MainSays, ViewSays, Requests, Newer, ActiveUser,
     HostFileOpenIsActive, IsActiveRequest, HeadId, vars
<1>4. Sources' /\ Recents'
  BY DEF IInv, Sources, OpenSays, ResultSays, Recents, Acknowledged, Newer,
     ActiveUser, HostFileOpenIsActive, IsActiveRequest, HeadId, vars
<1> QED BY <1>1, <1>2, <1>3, <1>4 DEF IInv

LEMMA NextKeeps ==
  ASSUME IInv, Next
  PROVE  IInv'
<1>1. Step /\ UNCHANGED user
  BY DEF Next
<1>2. CASE RendererReady
  BY <1>1, <1>2, RendererReadyKeeps
<1>3. CASE EventStep
  BY <1>1, <1>3, EventDeniedKeeps, EventAuthorizedKeeps, EventBegunKeeps,
     EventAcceptedKeeps, EventRejectedKeeps DEF EventStep
<1>4. CASE SessionStep
  <2>1. CASE OpenRequested("open") \/ OpenRequested("recent")
    BY <1>1, <2>1, OpenRequestedKeeps
  <2>2. ConsumeResult => toMain # <<>>
    BY DEF ConsumeResult, MainReceives
  <2>3. CASE ~(OpenRequested("open") \/ OpenRequested("recent"))
    BY <1>1, <1>4, <2>2, <2>3, ConsumeResultKeeps, RecentMissingKeeps,
       PickerRequestedKeeps, CommitOpenKeeps, DisposeSessionKeeps
       DEF SessionStep
  <2> QED BY <2>1, <2>3
<1>5. CASE SessionAnswers
  BY <1>1, <1>5, SessionAnswersKeeps
<1>6. CASE ViewStep
  BY <1>1, <1>6, AuthorizeKeeps, BeginHostFileOpenKeeps,
     CompleteHostFileOpenKeeps, HostResultConsumedKeeps, AnsweredKeeps,
     CancelledKeeps, ClosedKeeps, CommitAnsweredKeeps DEF ViewStep
<1>7. CASE Decide
  BY <1>1, <1>7, DecideKeeps
<1>8. CASE LoadStep
  BY <1>1, <1>8, InspectedKeeps, MountedKeeps DEF LoadStep
<1>9. CASE \E call \in view.calls : OpenTimedOut(call)
  BY <1>1, <1>9, OpenTimedOutKeeps
<1>10. CASE UserStep
  <2>1. CASE \E request \in session.pickers :
               \/ PickerEnded(request, Message("cancelled", request, Refused))
               \/ \E failure \in {Refused, Unopened} :
                    PickerEnded(request, Message("answered", request, failure))
    BY <1>1, <2>1, PickerEndedKeeps
  <2>2. CASE \E request \in session.pickers, file \in Files :
               Picked(request, file)
    BY <1>1, <2>2, PickedKeeps
  <2>3. CASE \/ \E file \in Files : OpenFileEvent(file)
             \/ \E file \in Files, type \in {"open", "recent"} :
                  OpenByPath(file, type)
             \/ OpenFromHostDialog \/ CloseFile \/ CloseSvga
    BY <1>1, <2>3, OpenFileEventKeeps, OpenByPathKeeps,
       OpenFromHostDialogKeeps, CloseFileKeeps, CloseSvgaKeeps
  <2> QED BY <1>10, <2>1, <2>2, <2>3 DEF UserStep
<1> QED
  BY <1>1, <1>2, <1>3, <1>4, <1>5, <1>6, <1>7, <1>8, <1>9, <1>10 DEF Step

\* The invariant holds of every reachable state.
THEOREM Invariance == Spec => []IInv
<1>1. IInv /\ [Next]_vars => IInv'
  BY NextKeeps, StutterKeeps
<1> QED BY InitIInv, <1>1, PTL DEF Spec

\* Every state the two processes and the channels reach is of its type.
THEOREM TypeCorrect == Spec => []TypeOK
<1>1. IInv => TypeOK
  BY DEF IInv
<1> QED BY Invariance, <1>1, PTL

\* The Recent list names only files the renderer took, and an open-file event
\* at most once, whatever is lost to a newer request in between.
THEOREM OnlyShownIsRecorded == Spec => []RecordedWasShown
<1>1. IInv => RecordedWasShown
  BY DEF IInv, Recents, RecordedWasShown
<1> QED BY Invariance, <1>1, PTL

\* With the renderer ready, the flush of the open-file queue stands still only
\* at a head whose dispatch failed: no event is forgotten behind it.
THEOREM NoEventWaitsUntried == Spec => []IdleQueueWasTried
<1>1. IInv => IdleQueueWasTried
  BY DEF IInv, Queue
<1> QED BY Invariance, <1>1, PTL

-----------------------------------------------------------------------------
(* The order in which sources are shown *)

LEMMA OutcomeShows ==
  ASSUME NEW v, NEW result, NEW event, ApplyOpenOutcome(v, result, event)
  PROVE  \/ seen' = seen
         \/ result.ok = "source" /\ seen' = seen \cup {result.src}
BY DEF ApplyOpenOutcome, Revoke, KeepOrRevoke, ShowPlayer, LoadSvga

LEMMA ShowsNewer ==
  ASSUME IInv, HostResultConsumed \/ Answered, NEW s \in seen' \ seen
  PROVE  Newer(s)
<1>1. PICK m \in ToView : m = Head(toView) /\ m \in Msgs(toView) /\ ViewSays(m)
  BY ViewReceived DEF HostResultConsumed, Answered, IInv, Messages
<1>2. CASE HostResultConsumed
  <2>1. /\ m.type = "consumed" /\ HostFileOpenIsActive(m.id)
        /\ ApplyOpenOutcome(ClearHostFileOpen(view), m.result, m.id)
    BY <1>1, <1>2 DEF HostResultConsumed
  <2>2. m.result.ok = "source" /\ s = m.result.src
    BY <2>1, OutcomeShows
  <2> QED BY <1>1, <2>1, <2>2 DEF ViewSays
<1>3. CASE Answered
  <2>1. /\ m.type = "answered" /\ ActiveUser(m.id)
        /\ \E v : ApplyOpenOutcome(v, m.result, 0)
    BY <1>1, <1>3 DEF Answered, ActiveUser
  <2>2. m.result.ok = "source" /\ s = m.result.src
    BY <2>1, OutcomeShows
  <2> QED BY <1>1, <2>1, <2>2 DEF ViewSays
<1> QED BY <1>2, <1>3

\* Only an answer that is applied shows a source.
LEMMA OnlyAnswersShow ==
  ASSUME Next, seen' # seen
  PROVE  HostResultConsumed \/ Answered \/ \E call \in view.calls : OpenTimedOut(call)
<1>1. ~RendererReady /\ ~EventStep /\ ~SessionAnswers /\ ~SessionStep /\ ~Decide
  BY ZenonT(40) DEF RendererReady, EventStep, EventDenied, EventAuthorized, EventBegun,
     EventAccepted, EventRejected, SessionAnswers, SessionStep, ConsumeResult,
     OpenRequested, RecentMissing, PickerRequested, CommitOpen, DisposeSession,
     Decide
<1>2. ~LoadStep
  BY Zenon DEF LoadStep, Inspected, Mounted
<1>3. ~UserStep
  BY DEF UserStep, OpenFileEvent, OpenByPath, OpenFromHostDialog, PickerEnded,
     Picked, CloseFile, CloseSvga
<1>4. ViewStep => HostResultConsumed \/ Answered
  BY DEF ViewStep, Authorize, BeginHostFileOpen, CompleteHostFileOpen,
     Cancelled, Closed, CommitAnswered
<1> QED BY SMTT(30), <1>1, <1>2, <1>3, <1>4 DEF Next, Step

\* Sources are shown in the order in which the session opened them: an answer
\* the renderer has moved on from never comes back on screen.
THEOREM SourcesShownInOrder == Spec => ShownInOrder
<1>1. IInv /\ [Next]_vars =>
        [\A s \in seen' \ seen, t \in seen : s.n > t.n]_vars
  <2>1. SUFFICES ASSUME IInv, Next, NEW s \in seen' \ seen, NEW t \in seen
                 PROVE  s.n > t.n
    OBVIOUS
  <2>2. ~\E call \in view.calls : OpenTimedOut(call)
    BY <2>1 DEF OpenTimedOut, Revoke
  <2>3. Newer(s)
    BY <2>1, <2>2, OnlyAnswersShow, ShowsNewer
  <2>4. s.n \in Nat /\ t.n \in Nat
    <3>1. IInv'
      BY <2>1, NextKeeps
    <3>2. s \in Source /\ t \in Source
      BY <2>1, <3>1, Types DEF IInv, TypeOK
    <3> QED BY <3>2, SourceFields
  <2> QED BY <2>1, <2>3, <2>4 DEF Newer
<1> QED BY Invariance, <1>1, PTL DEF Spec, ShownInOrder

-----------------------------------------------------------------------------
(* A user who opens files by path: what is shown is held                    *)

\* What will change the session's newest open or its active source, once the
\* main process receives it.
Disturbs(m) == m.type \in {"open", "recent", "choose", "begun", "dispose", "close"}

Undisturbed(s) == \A i \in DOMAIN s : ~Disturbs(s[i])

\* The call of a request, and the answer that an event's open may begin, are
\* the last of these in the channel.
AskedLast(s, r) ==
  \A i, j \in DOMAIN s :
    Asks(s[i]) /\ s[i].id = r /\ i < j => ~Disturbs(s[j])
BegunLast(s) ==
  \A i, j \in DOMAIN s : s[i].type = "begun" /\ i < j => ~Disturbs(s[j])

\* Nothing is on its way that could change the session's active source.
Calm ==
  /\ Undisturbed(toMain)
  /\ \A o \in session.opens : o.src.n # session.latest

\* An answer that agrees with the session: what it accepted is active.
Agrees(result) ==
  \/ result.ok = "source" /\ result.src = session.active
  \/ result.ok = "refused"

\* The newest request is a call, or the open of an event, without its answer.
CallPends == \E c \in view.calls : c.id = view.request
EventPends == view.event # 0 /\ view.eventRequest = view.request

OnlyPaths ==
  /\ session.pickers = {} /\ \A c \in view.calls : ~c.picker
  /\ \A m \in Msgs(toMain) : m.type \notin {"choose", "close"}
  /\ \A m \in Msgs(toView) : m.type \notin {"cancelled", "closed"}
  /\ \A o, p \in session.opens : o.src.n = p.src.n => o = p

\* A request is a call, then an open of the session, then an answer.
CallIsSomewhere ==
  \/ \E m \in Msgs(toMain) : Asks(m) /\ m.id = view.request
  \/ \E o \in session.opens : o.caller = view.request
  \/ \E m \in Msgs(toView) : m.type = "answered" /\ m.id = view.request

CallHeld ==
  CallPends =>
    /\ AskedLast(toMain, view.request)
    /\ \A o \in session.opens : o.caller = view.request =>
         o.src.n = session.latest /\ Undisturbed(toMain)
    /\ \A m \in Msgs(toView) : m.type = "answered" /\ m.id = view.request =>
         Calm /\ Agrees(m.result)
    /\ CallIsSomewhere

EventIsHead ==
  /\ host.queue # <<>> /\ view.event = HeadId
  /\ host.at \in {"begin", "open", "complete"}
  /\ \A m \in Msgs(toMain) : DispatchMain(m) => m.type \in {"begun", "consume"}
  /\ \A m \in Msgs(toView) : DispatchView(m) => m.type \in {"complete", "consumed"}
  /\ \A w \in work : ~Loading(w)

EventHeld ==
  EventPends =>
    /\ EventIsHead
    /\ BegunLast(toMain)
    /\ \A o \in session.opens : o.caller = 0 =>
         o.src.n = session.latest /\ Undisturbed(toMain)
    /\ host.at = "complete" =>
         /\ Calm
         /\ \A r \in host.results : Agrees(r.result)
         /\ \A m \in Msgs(toView) : m.type = "consumed" => Agrees(m.result)

RestHeld ==
  ~CallPends /\ ~EventPends /\ view.shown # NoSource =>
    Calm /\ session.active = view.shown

\* A load with authority is the only one, and its file is on screen.
Loads(w) == w.fresh /\ w.at # "commit"

LoadsHeld ==
  /\ \A w, x \in work : Loads(w) =>
       view.svga /\ view.shown = w.src /\ (Loads(x) => w = x)
  /\ \/ view.model \in {NoSource, view.shown} /\ view.player \in {NoSource, view.shown}
     \/ \E w \in work : Loads(w) /\ w.at = "inspect"
  /\ ~view.svga => view.player = NoSource

PathParts == OnlyPaths /\ CallHeld /\ EventHeld /\ RestHeld /\ LoadsHeld

PathInv == user = {} => PathParts

LEMMA InitPath == Init => PathInv
<1>1. Msgs(<<>>) = {}
  BY DEF Msgs
<1> QED
  BY <1>1 DEF Init, PathInv, PathParts, OnlyPaths, CallHeld, CallPends, EventHeld, EventPends,
         RestHeld, LoadsHeld

\* A change of the channel to the main process that disturbs nothing.
Quietly(s, t) ==
  /\ Undisturbed(s) => Undisturbed(t)
  /\ \A r \in Nat : AskedLast(s, r) => AskedLast(t, r)
  /\ BegunLast(s) => BegunLast(t)

LEMMA UndisturbedTail ==
  ASSUME NEW S, NEW s \in Seq(S), s # <<>>
  PROVE  /\ Quietly(s, Tail(s))
         /\ \A r \in Nat : AskedLast(s, r) /\ Asks(Head(s)) /\ Head(s).id = r =>
              Undisturbed(Tail(s))
         /\ BegunLast(s) /\ Head(s).type = "begun" => Undisturbed(Tail(s))
<1> DEFINE t == Tail(s)
<1>1. \A i \in DOMAIN t : i + 1 \in DOMAIN s /\ i \in Nat /\ t[i] = s[i + 1]
  BY TailIndex
<1>2. 1 \in DOMAIN s /\ Head(s) = s[1]
  BY TailOf
<1>3. \A i \in DOMAIN t : 1 < i + 1
  BY <1>1
<1>4. \A i, j \in DOMAIN t : i < j => i + 1 < j + 1
  BY <1>1
<1> HIDE DEF t
<1>5. Undisturbed(s) => Undisturbed(t)
  BY <1>1 DEF Undisturbed
<1>6. \A r \in Nat : AskedLast(s, r) => AskedLast(t, r)
  <2> SUFFICES ASSUME NEW r \in Nat, AskedLast(s, r), NEW i \in DOMAIN t,
                      NEW j \in DOMAIN t, Asks(t[i]), t[i].id = r, i < j
               PROVE  ~Disturbs(t[j])
    BY DEF AskedLast
  <2>1. i + 1 \in DOMAIN s /\ j + 1 \in DOMAIN s /\ i + 1 < j + 1
    BY <1>1, <1>4
  <2>2. t[i] = s[i + 1] /\ t[j] = s[j + 1]
    BY <1>1
  <2> QED BY <2>1, <2>2 DEF AskedLast
<1>7. BegunLast(s) => BegunLast(t)
  <2> SUFFICES ASSUME BegunLast(s), NEW i \in DOMAIN t,
                      NEW j \in DOMAIN t, t[i].type = "begun", i < j
               PROVE  ~Disturbs(t[j])
    BY DEF BegunLast
  <2>1. i + 1 \in DOMAIN s /\ j + 1 \in DOMAIN s /\ i + 1 < j + 1
    BY <1>1, <1>4
  <2>2. t[i] = s[i + 1] /\ t[j] = s[j + 1]
    BY <1>1
  <2> QED BY <2>1, <2>2 DEF BegunLast
<1>8. \A r \in Nat : AskedLast(s, r) /\ Asks(Head(s)) /\ Head(s).id = r =>
        Undisturbed(t)
  BY <1>1, <1>2, <1>3 DEF AskedLast, Undisturbed
<1>9. BegunLast(s) /\ Head(s).type = "begun" => Undisturbed(t)
  BY <1>1, <1>2, <1>3 DEF BegunLast, Undisturbed
<1> QED
  BY <1>5, <1>6, <1>7, <1>8, <1>9 DEF Quietly, t

LEMMA UndisturbedAppend ==
  ASSUME NEW S, NEW s \in Seq(S), NEW m \in S
  PROVE  /\ ~Disturbs(m) => Quietly(s, Append(s, m))
         /\ \A r \in Nat : (\A k \in Msgs(s) : Asks(k) => k.id # r) =>
              AskedLast(Append(s, m), r)
         /\ (\A k \in Msgs(s) : k.type # "begun") => BegunLast(Append(s, m))
<1> DEFINE t == Append(s, m)  n == Len(s) + 1
<1>1. DOMAIN t = DOMAIN s \cup {n} /\ t[n] = m /\ \A i \in DOMAIN s : t[i] = s[i]
  BY AppendOf
<1>2. \A i \in DOMAIN t : i \in Nat /\ i <= n
  OBVIOUS
<1> HIDE DEF t
<1>3. \A i, j \in DOMAIN t : i < j => i \in DOMAIN s
  <2> SUFFICES ASSUME NEW i \in DOMAIN t, NEW j \in DOMAIN t, i < j
               PROVE  i # n
    BY <1>1
  <2>1. j <= n /\ i \in Nat /\ j \in Nat
    BY <1>2
  <2> QED BY <2>1
<1> HIDE DEF n
<1>4. ASSUME ~Disturbs(m) PROVE Quietly(s, t)
  <2>1. Undisturbed(s) => Undisturbed(t)
    BY <1>1, <1>4 DEF Undisturbed
  <2>2. \A r \in Nat : AskedLast(s, r) => AskedLast(t, r)
    BY <1>1, <1>3, <1>4 DEF AskedLast
  <2>3. BegunLast(s) => BegunLast(t)
    BY <1>1, <1>3, <1>4 DEF BegunLast
  <2> QED BY <2>1, <2>2, <2>3 DEF Quietly
<1>5. \A r \in Nat : (\A k \in Msgs(s) : Asks(k) => k.id # r) => AskedLast(t, r)
  BY <1>1, <1>3 DEF AskedLast, Msgs
<1>6. (\A k \in Msgs(s) : k.type # "begun") => BegunLast(t)
  BY <1>1, <1>3 DEF BegunLast, Msgs
<1> QED
  BY <1>4, <1>5, <1>6 DEF t

\* The channels when nothing that disturbs is sent or received, and no answer.
MainIsQuiet ==
  /\ Quietly(toMain, toMain')
  /\ \A m \in Msgs(toMain') : m \in Msgs(toMain) \/ ~Disturbs(m)
  /\ \A m \in Msgs(toMain) : Disturbs(m) => m \in Msgs(toMain')

Answers(m) == m.type \in {"answered", "cancelled", "closed"}

ViewIsQuiet ==
  /\ \A m \in Msgs(toView') : m \in Msgs(toView) \/ ~Answers(m)
  /\ CallPends => \A m \in Msgs(toView) :
       m.type = "answered" /\ m.id = view.request => m \in Msgs(toView')

\* Nothing the newest request is told by changes, but that it may be unshown.
ViewIsSame ==
  /\ view'.request = view.request /\ view'.calls \subseteq view.calls
  /\ \A c : c.id = view.request => (c \in view'.calls <=> c \in view.calls)
  /\ view'.event = view.event /\ view'.eventRequest = view.eventRequest
  /\ view'.shown \in {view.shown, NoSource}

LEMMA QuietReceive ==
  ASSUME IInv, toMain # <<>>, toMain' = Tail(toMain), ~Disturbs(Head(toMain))
  PROVE  MainIsQuiet
<1>1. toMain \in Seq(ToMain)
  BY Types DEF IInv
<1>2. Quietly(toMain, Tail(toMain))
  BY <1>1, UndisturbedTail
<1> QED BY <1>2, MainReceived DEF MainIsQuiet

LEMMA QuietSend ==
  ASSUME IInv, NEW m \in ToMain, ~Disturbs(m),
         toMain' = Append(toMain, m) \/ toMain' = toMain \o <<m>>
  PROVE  MainIsQuiet
<1>1. toMain \in Seq(ToMain)
  BY Types DEF IInv
<1>2. Quietly(toMain, Append(toMain, m))
  BY <1>1, UndisturbedAppend
<1>3. /\ toMain \o <<m>> = Append(toMain, m)
      /\ Msgs(Append(toMain, m)) = Msgs(toMain) \cup {m}
  BY <1>1, AppendMsgs
<1>4. toMain' = Append(toMain, m)
  BY <1>3
<1> QED BY <1>2, <1>3, <1>4 DEF MainIsQuiet

LEMMA QuietSame ==
  (toMain' = toMain => MainIsQuiet) /\ (toView' = toView => ViewIsQuiet)
BY DEF MainIsQuiet, ViewIsQuiet, Quietly

LEMMA QuietViewSend ==
  ASSUME IInv, NEW m \in ToView, ~Answers(m),
         toView' = Append(toView, m) \/ toView' = toView \o <<m>>
  PROVE  ViewIsQuiet /\ Msgs(toView') = Msgs(toView) \cup {m}
<1>1. toView \in Seq(ToView)
  BY Types DEF IInv
<1>2. /\ toView \o <<m>> = Append(toView, m)
      /\ Msgs(Append(toView, m)) = Msgs(toView) \cup {m}
  BY <1>1, AppendMsgs
<1>3. toView' = Append(toView, m)
  BY <1>2
<1> QED BY <1>2, <1>3 DEF ViewIsQuiet, Answers

LEMMA QuietViewReceive ==
  ASSUME IInv, toView # <<>>, toView' = Tail(toView), ~Answers(Head(toView))
  PROVE  ViewIsQuiet
BY ViewReceived DEF ViewIsQuiet, Answers

LEMMA PathFrame ==
  ASSUME IInv, OnlyPaths, CallHeld, RestHeld,
         session' = session, ViewIsSame, MainIsQuiet, ViewIsQuiet
  PROVE  OnlyPaths' /\ CallHeld' /\ RestHeld'
<1>1. OnlyPaths'
  BY DEF OnlyPaths, MainIsQuiet, ViewIsQuiet, ViewIsSame, Disturbs, Answers
<1>2. (CallPends' <=> CallPends) /\ (EventPends' <=> EventPends)
  BY DEF ViewIsSame, CallPends, EventPends
<1>3. Calm => Calm'
  BY DEF Calm, MainIsQuiet, Quietly
<1>4. RestHeld'
  BY <1>2, <1>3 DEF RestHeld, ViewIsSame
<1>5. ASSUME CallPends PROVE CallHeld'
  <2>1. view.request \in Nat
    BY Types DEF IInv, ViewType
  <2>2. AskedLast(toMain, view.request) /\ CallIsSomewhere
    BY <1>5 DEF CallHeld
  <2>3. AskedLast(toMain, view.request)'
    BY <2>1, <2>2 DEF MainIsQuiet, Quietly, ViewIsSame
  <2>4. CallIsSomewhere'
    BY <1>5, <2>2 DEF CallIsSomewhere, MainIsQuiet, ViewIsQuiet, ViewIsSame, Asks,
                Disturbs, Answers
  <2>5. \A o \in session'.opens : o.caller = view'.request =>
          o.src.n = session'.latest /\ Undisturbed(toMain')
    BY <1>5 DEF CallHeld, ViewIsSame, MainIsQuiet, Quietly
  <2>6. \A m \in Msgs(toView') : m.type = "answered" /\ m.id = view'.request =>
          Calm' /\ Agrees(m.result)'
    BY <1>3, <1>5 DEF CallHeld, ViewIsSame, ViewIsQuiet, Answers, Agrees
  <2> QED BY <2>3, <2>4, <2>5, <2>6 DEF CallHeld
<1> QED BY <1>1, <1>2, <1>4, <1>5 DEF CallHeld

LEMMA EventFrame ==
  ASSUME EventHeld, session' = session, ViewIsSame, MainIsQuiet,
         host'.at = host.at, host'.results \subseteq host.results,
         EventPends => EventIsHead',
         \A m \in Msgs(toView') : m.type = "consumed" => m \in Msgs(toView)
  PROVE  EventHeld'
<1>1. EventPends' <=> EventPends
  BY DEF ViewIsSame, EventPends
<1>2. Calm => Calm'
  BY DEF Calm, MainIsQuiet, Quietly
<1> SUFFICES ASSUME EventPends PROVE EventHeld'
  BY <1>1 DEF EventHeld
<1>3. BegunLast(toMain')
  BY DEF EventHeld, MainIsQuiet, Quietly
<1>4. \A o \in session'.opens : o.caller = 0 =>
        o.src.n = session'.latest /\ Undisturbed(toMain')
  BY DEF EventHeld, MainIsQuiet, Quietly
<1>5. host'.at = "complete" =>
         /\ Calm'
         /\ \A r \in host'.results : Agrees(r.result)'
         /\ \A m \in Msgs(toView') : m.type = "consumed" => Agrees(m.result)'
  BY <1>2 DEF EventHeld, Agrees
<1> QED BY <1>3, <1>4, <1>5 DEF EventHeld

LEMMA LoadsFrame ==
  ASSUME LoadsHeld, work' = work, view'.shown = view.shown,
         view'.svga = view.svga, view'.model = view.model,
         view'.player = view.player
  PROVE  LoadsHeld'
BY DEF LoadsHeld, Loads

LEMMA AnySend ==
  ASSUME NEW S, NEW s \in Seq(S), NEW m
  PROVE  Msgs(s \o <<m>>) = Msgs(s) \cup {m}
<1> DEFINE T == S \cup {m}
<1>1. m \in T /\ S \subseteq T
  OBVIOUS
<1>2. s \in [1 .. Len(s) -> S] /\ Len(s) \in Nat
  OBVIOUS
<1> HIDE DEF T
<1>3. s \in [1 .. Len(s) -> T]
  BY <1>1, <1>2
<1>4. s \in Seq(T)
  BY <1>2, <1>3
<1>5. /\ s \o <<m>> = Append(s, m)
      /\ Msgs(Append(s, m)) = Msgs(s) \cup {m}
  BY <1>1, <1>4, AppendMsgs
<1> QED BY <1>5

LEMMA SignalIsQuiet ==
  ASSUME IInv, NEW type, type \notin {"answered", "cancelled", "closed"},
         NEW id, toView' = toView \o Signal(type, id)
  PROVE  /\ ViewIsQuiet
         /\ \A m \in Msgs(toView') : m \in Msgs(toView) \/ m.type = type
<1> DEFINE m == Message(type, id, Refused)
<1>1. m.type = type
  BY MessageFields
<1>2. toView' = toView \o <<m>> /\ toView \in Seq(ToView)
  BY Types DEF IInv, Signal
<1> HIDE DEF m
<1>3. Msgs(toView') = Msgs(toView) \cup {m}
  BY <1>2, AnySend
<1> QED BY <1>1, <1>3 DEF ViewIsQuiet, Answers

LEMMA FlushIsQuiet ==
  ASSUME IInv, NEW h, toView' = toView \o FirstCall(h)
  PROVE  ViewIsQuiet
<1>1. CASE Flushes(h)
  BY <1>1, SignalIsQuiet DEF FirstCall
<1>2. CASE ~Flushes(h)
  <2>1. toView' = toView
    BY <1>2, SameSequence, Types DEF IInv, FirstCall
  <2> QED BY <2>1, QuietSame
<1> QED BY <1>1, <1>2

LEMMA NoEventHeld ==
  ASSUME ~EventPends, ViewIsSame
  PROVE  EventHeld'
BY DEF EventHeld, EventPends, ViewIsSame

\* The main process takes a message that disturbs nothing and ends or starts a
\* dispatch that the renderer has not begun.
LEMMA DispatchTurns ==
  ASSUME IInv, PathParts, ~EventPends, UNCHANGED <<session, view, work>>,
         MainIsQuiet, ViewIsQuiet
  PROVE  PathParts'
<1>1. ViewIsSame
  BY DEF ViewIsSame
<1> QED
  BY <1>1, PathFrame, NoEventHeld, LoadsFrame DEF PathParts

LEMMA TakenByMain ==
  ASSUME IInv, PathParts, toMain # <<>>,
         Head(toMain).type \in {"authorized", "denied", "accepted", "rejected"}
  PROVE  ~EventPends /\ ~Disturbs(Head(toMain))
<1>1. Head(toMain) \in Msgs(toMain) /\ DispatchMain(Head(toMain))
  <2>1. toMain \in Seq(ToMain)
    BY Types DEF IInv
  <2> QED BY <2>1, TailMsgs DEF DispatchMain
<1> QED
  BY <1>1 DEF PathParts, EventHeld, EventIsHead, Disturbs

LEMMA EventEndsPath ==
  ASSUME IInv, PathParts, EventDenied \/ EventAuthorized \/ EventAccepted \/ EventRejected
  PROVE  PathParts'
<1>1. /\ UNCHANGED <<session, view, work>>
      /\ toMain # <<>> /\ toMain' = Tail(toMain)
      /\ Head(toMain).type \in {"authorized", "denied", "accepted", "rejected"}
  BY DEF EventDenied, EventAuthorized, EventAccepted, EventRejected, MainReceives
<1>2. ~EventPends /\ ~Disturbs(Head(toMain))
  BY <1>1, TakenByMain
<1>3. MainIsQuiet
  BY <1>1, <1>2, QuietReceive
<1>4. ViewIsQuiet
  <2>1. CASE EventDenied \/ EventAccepted
    BY <2>1, FlushIsQuiet DEF EventDenied, EventAccepted, MainReceives
  <2>2. CASE EventAuthorized
    BY <2>2, SignalIsQuiet DEF EventAuthorized, MainReceives
  <2>3. CASE EventRejected
    <3>1. toView' = toView
      BY <2>3, SameSequence, Types DEF IInv, EventRejected, MainReceives
    <3> QED BY <3>1, QuietSame
  <2> QED BY <2>1, <2>2, <2>3
<1> QED BY <1>1, <1>2, <1>3, <1>4, DispatchTurns

LEMMA RendererReadyPath ==
  ASSUME IInv, PathParts, RendererReady
  PROVE  PathParts'
<1> DEFINE h == [host EXCEPT !.ready = TRUE]
<1>1. /\ toView' = toView \o FirstCall(h)
      /\ UNCHANGED <<session, view, work, toMain>> /\ ~host.ready
  BY DEF RendererReady
<1> HIDE DEF h
<1>2. ~EventPends
  BY <1>1 DEF IInv, Queue, PathParts, EventHeld, EventIsHead
<1>3. ViewIsQuiet
  BY <1>1, FlushIsQuiet
<1> QED BY <1>1, <1>2, <1>3, QuietSame, DispatchTurns

LEMMA OpenFileEventPath ==
  ASSUME IInv, PathParts, NEW file \in Files, OpenFileEvent(file)
  PROVE  PathParts'
<1> DEFINE event == [id |-> host.events + 1, file |-> file]
           h == [host EXCEPT !.events = @ + 1, !.queue = Append(@, event)]
<1>1. UNCHANGED <<session, view, work, toMain>>
  BY DEF OpenFileEvent
<1>2. CASE host.at = "idle"
  <2>1. toView' = toView \o FirstCall(h)
    BY <1>2 DEF OpenFileEvent
  <2>2. ~EventPends
    BY <1>2 DEF PathParts, EventHeld, EventIsHead
  <2> HIDE DEF h
  <2>3. ViewIsQuiet
    BY <2>1, FlushIsQuiet
  <2> QED BY <1>1, <2>2, <2>3, QuietSame, DispatchTurns
<1>3. CASE host.at # "idle"
  <2>1. host' = h /\ toView' = toView
    BY <1>3 DEF OpenFileEvent
  <2>2. host \in HostType
    BY Types DEF IInv
  <2>3. /\ h.at = host.at /\ h.results = host.results
        /\ h.queue = Append(host.queue, event)
    BY <2>2 DEF HostType
  <2>4. host.queue # <<>> => h.queue # <<>> /\ Head(h.queue) = Head(host.queue)
    <3> HIDE DEF event
    <3>1. host.queue \in Seq([id : 1 .. MaxEvents, file : Files])
      BY <2>2 DEF HostType
    <3> QED BY <2>3, <3>1
  <2> HIDE DEF h
  <2>5. ViewIsSame /\ MainIsQuiet /\ ViewIsQuiet
    BY <1>1, <2>1, QuietSame DEF ViewIsSame
  <2>6. EventPends => EventIsHead'
    BY <1>1, <2>1, <2>3, <2>4 DEF PathParts, EventHeld, EventIsHead, HeadId
  <2>7. EventHeld'
    BY <1>1, <2>1, <2>3, <2>5, <2>6, EventFrame DEF PathParts
  <2> QED
    BY <1>1, <2>5, <2>7, PathFrame, LoadsFrame DEF PathParts
<1> QED BY <1>2, <1>3

LEMMA CommitOpenPath ==
  ASSUME IInv, PathParts, CommitOpen
  PROVE  PathParts'
<1> DEFINE m == Head(toMain)
           yes == Message("committed", m.id, m.result)
           no == Message("uncommitted", m.id, m.result)
           h == Record(host, m.result.src)
<1>1. /\ toMain # <<>> /\ m.type = "commit" /\ toMain' = Tail(toMain)
      /\ \/ toView' = toView \o <<yes>> /\ host' = h
         \/ toView' = toView \o <<no>> /\ host' = host
      /\ UNCHANGED <<session, view, work, seen>>
  BY DEF CommitOpen, MainReceives, Record
<1>2. m \in ToMain /\ m \in Msgs(toMain) /\ Msgs(toMain') \subseteq Msgs(toMain)
  BY <1>1, MainReceived
<1>3. \E k \in ToView :
        /\ toView' = toView \o <<k>> /\ k.id = m.id
        /\ k.type \in {"committed", "uncommitted"}
  <2>1. m.id \in Nat /\ m.result \in Result
    BY <1>2 DEF ToMain
  <2>2. yes \in ToView /\ yes.id = m.id /\ yes.type = "committed"
    BY <2>1, MessageFields DEF ToViewType
  <2>3. no \in ToView /\ no.id = m.id /\ no.type = "uncommitted"
    BY <2>1, MessageFields DEF ToViewType
  <2> HIDE DEF m, yes, no
  <2> QED BY <1>1, <2>2, <2>3
<1>4. PICK k \in ToView :
        /\ toView' = toView \o <<k>> /\ k.id = m.id
        /\ k.type \in {"committed", "uncommitted"}
  BY <1>3
<1>5. host'.at = host.at /\ host'.results = host.results /\ host'.queue = host.queue
  <2>1. host \in HostType
    BY Types DEF IInv
  <2>2. h.at = host.at /\ h.results = host.results /\ h.queue = host.queue
    BY <2>1 DEF Record, HostType
  <2> QED BY <1>1, <2>2
<1> HIDE DEF m, yes, no, h
<1>6. ViewIsQuiet /\ Msgs(toView') = Msgs(toView) \cup {k}
  BY <1>4, QuietViewSend DEF Answers
<1>7. MainIsQuiet
  BY <1>1, QuietReceive DEF Disturbs, m
<1>8. ViewIsSame
  BY <1>1 DEF ViewIsSame
<1>9. EventPends => m.id = 0
  BY <1>1, <1>2 DEF PathParts, EventHeld, EventIsHead, DispatchMain
<1>10. EventPends => EventIsHead'
  BY <1>1, <1>2, <1>4, <1>5, <1>6, <1>9
     DEF PathParts, EventHeld, EventIsHead, HeadId, DispatchView
<1>11. EventHeld'
  BY <1>1, <1>4, <1>5, <1>6, <1>7, <1>8, <1>10, EventFrame DEF PathParts
<1> QED
  BY <1>1, <1>6, <1>7, <1>8, <1>11, PathFrame, LoadsFrame DEF PathParts

LEMMA ConsumeResultPath ==
  ASSUME IInv, PathParts, ConsumeResult
  PROVE  PathParts'
<1> DEFINE id == Head(toMain).id
           found == {r \in host.results : r.id = id}
           result == IF found = {} THEN Refused
                     ELSE (CHOOSE r \in found : TRUE).result
           m == Message("consumed", id, result)
<1>1. /\ toMain # <<>> /\ Head(toMain).type = "consume" /\ toMain' = Tail(toMain)
      /\ toView' = toView \o <<m>>
      /\ host' = [host EXCEPT !.results = @ \ found]
      /\ UNCHANGED <<session, view, work, seen>>
  BY DEF ConsumeResult, MainReceives
<1>2. /\ Head(toMain) \in Msgs(toMain) /\ DispatchMain(Head(toMain))
      /\ Msgs(toMain') \subseteq Msgs(toMain) /\ NoneMain(toMain')
  BY <1>1, MainReceived DEF DispatchMain
<1>3. host.at = "complete" /\ NoneView(toView)
  BY <1>1, <1>2, TokenInMain DEF Phase
<1>4. host'.at = host.at /\ host'.results \subseteq host.results
      /\ host'.queue = host.queue
  BY <1>1, Types DEF IInv, HostType
<1>5. m.type = "consumed" /\ m.result = result
  BY MessageFields
<1>6. \/ result = Refused
      \/ \E r \in host.results : result = r.result
  OBVIOUS
<1> HIDE DEF m, result, found, id
<1>7. Msgs(toView') = Msgs(toView) \cup {m}
  BY <1>1, AnySend, Types DEF IInv
<1>8. MainIsQuiet /\ ViewIsQuiet /\ ViewIsSame
  BY <1>1, <1>5, <1>7, QuietReceive DEF Disturbs, ViewIsSame, ViewIsQuiet, Answers
<1>9. Calm => Calm'
  BY <1>1, <1>8 DEF Calm, MainIsQuiet, Quietly
<1>10. ASSUME EventPends PROVE EventHeld'
  <2>1. EventIsHead'
    BY <1>1, <1>2, <1>3, <1>4, <1>5, <1>7, <1>10
       DEF PathParts, EventHeld, EventIsHead, HeadId, NoneMain, NoneView
  <2>2. BegunLast(toMain')
    BY <1>8, <1>10 DEF PathParts, EventHeld, MainIsQuiet, Quietly
  <2>3. \A o \in session'.opens : o.caller = 0 =>
          o.src.n = session'.latest /\ Undisturbed(toMain')
    BY <1>1, <1>8, <1>10 DEF PathParts, EventHeld, MainIsQuiet, Quietly
  <2>4. Calm /\ \A r \in host.results : Agrees(r.result)
    BY <1>3, <1>10 DEF PathParts, EventHeld
  <2>5. Agrees(result)
    BY <1>6, <2>4, Constants DEF Agrees
  <2>6. \A k \in Msgs(toView) : k.type # "consumed"
    BY <1>3 DEF NoneView, DispatchView
  <2>7. \A k \in Msgs(toView') : k.type = "consumed" => k = m
    BY <1>7, <2>6
  <2>8. \A k \in Msgs(toView') : k.type = "consumed" => Agrees(k.result)'
    BY <1>1, <1>5, <2>5, <2>7 DEF Agrees
  <2>9. \A r \in host'.results : Agrees(r.result)'
    BY <1>1, <1>4, <2>4 DEF Agrees
  <2> QED BY <1>9, <2>1, <2>2, <2>3, <2>4, <2>8, <2>9 DEF EventHeld
<1>11. EventHeld'
  BY <1>8, <1>10, NoEventHeld
<1> QED
  BY <1>1, <1>8, <1>11, PathFrame, LoadsFrame DEF PathParts

\* While something that disturbs is at the head of the channel, no answer to the
\* newest request can be under way.
LEMMA DisturbedAtHead ==
  ASSUME IInv, PathParts, toMain # <<>>, toMain' = Tail(toMain),
         Disturbs(Head(toMain))
  PROVE  /\ ~Undisturbed(toMain) /\ ~Calm
         /\ CallPends =>
              /\ \A o \in session.opens : o.caller # view.request
              /\ \A m \in Msgs(toView) : m.type = "answered" => m.id # view.request
         /\ EventPends => /\ \A o \in session.opens : o.caller # 0
                          /\ host.at # "complete"
         /\ Quietly(toMain, toMain')
         /\ \A r \in Nat : AskedLast(toMain, r) /\ Asks(Head(toMain)) /\ Head(toMain).id = r =>
              Undisturbed(toMain')
         /\ BegunLast(toMain) /\ Head(toMain).type = "begun" => Undisturbed(toMain')
         /\ ~CallPends /\ ~EventPends => view.shown = NoSource
<1>1. toMain \in Seq(ToMain)
  BY Types DEF IInv
<1>2. ~Undisturbed(toMain) /\ ~Calm
  BY <1>1, TailOf DEF Undisturbed, Calm
<1>3. CallPends =>
         /\ \A o \in session.opens : o.caller # view.request
         /\ \A m \in Msgs(toView) : m.type = "answered" => m.id # view.request
  BY <1>2 DEF PathParts, CallHeld
<1>4. EventPends => /\ \A o \in session.opens : o.caller # 0
                    /\ host.at # "complete"
  BY <1>2 DEF PathParts, EventHeld
<1>5. ~CallPends /\ ~EventPends => view.shown = NoSource
  BY <1>2 DEF PathParts, RestHeld
<1> QED BY <1>1, <1>2, <1>3, <1>4, <1>5, UndisturbedTail

\* The session begins an open, for a call or for the event of the dispatch.
LEMMA OpenPathPath ==
  ASSUME IInv, PathParts, toMain # <<>>, toMain' = Tail(toMain),
         toView' = toView, UNCHANGED <<view, work>>,
         NEW caller \in Nat, NEW o \in session'.opens,
         session'.opens = session.opens \cup {o},
         session'.latest = session.latest + 1, session'.active = session.active,
         session'.pickers = session.pickers \ {caller},
         o.src.n = session'.latest, o.caller = caller,
         \/ caller = 0 /\ Head(toMain).type = "begun"
         \/ caller # 0 /\ Asks(Head(toMain)) /\ Head(toMain).id = caller,
         EventPends => EventIsHead',
         host'.at = host.at \/ host'.at # "complete"
  PROVE  PathParts'
<1>1. Disturbs(Head(toMain))
  BY DEF Disturbs, Asks
<1>2. /\ Msgs(toMain) = Msgs(toMain') \cup {Head(toMain)}
      /\ Quietly(toMain, toMain')
  BY <1>1, MainReceived, DisturbedAtHead
<1>3. \A p \in session.opens : p.src.n # o.src.n
  <2>1. session.latest \in Nat
    BY Types DEF IInv, SessionType
  <2>2. \A p \in session.opens : p.src.n <= session.latest /\ p.src.n \in Nat
    BY <2>1 DEF IInv, Sources, OpenSays
  <2> QED BY <2>1, <2>2
<1>4. OnlyPaths'
  BY <1>2, <1>3 DEF PathParts, OnlyPaths
<1>5. (CallPends' <=> CallPends) /\ (EventPends' <=> EventPends)
  BY DEF CallPends, EventPends
<1>6. ASSUME CallPends PROVE CallHeld'
  <2>1. view.request \in Nat /\ view.request # 0
    BY <1>6, Types DEF IInv, Requests, CallPends, ViewType
  <2>2. /\ AskedLast(toMain, view.request) /\ CallIsSomewhere
        /\ \A p \in session.opens : p.caller # view.request
        /\ \A m \in Msgs(toView) : m.type = "answered" => m.id # view.request
    BY <1>1, <1>6, DisturbedAtHead DEF PathParts, CallHeld
  <2>3. AskedLast(toMain', view.request)
    BY <1>2, <2>1, <2>2 DEF Quietly
  <2>4. caller = view.request => Undisturbed(toMain')
    BY <1>1, <2>1, <2>2, DisturbedAtHead
  <2>5. PICK m \in Msgs(toMain) : Asks(m) /\ m.id = view.request
    BY <2>2 DEF CallIsSomewhere
  <2>6. CASE m \in Msgs(toMain')
    BY <2>2, <2>3, <2>4, <2>5, <2>6 DEF CallHeld, CallIsSomewhere
  <2>7. CASE m = Head(toMain)
    <3>1. caller = view.request
      BY <2>5, <2>7 DEF Asks
    <3>2. CallIsSomewhere'
      BY <3>1 DEF CallIsSomewhere
    <3> QED BY <2>2, <2>3, <2>4, <3>2 DEF CallHeld
  <2> QED BY <1>2, <2>6, <2>7
<1>7. ASSUME EventPends PROVE EventHeld'
  <2>1. /\ BegunLast(toMain) /\ host.at # "complete"
        /\ \A p \in session.opens : p.caller # 0
    BY <1>1, <1>7, DisturbedAtHead DEF PathParts, EventHeld
  <2>2. BegunLast(toMain')
    BY <1>2, <2>1 DEF Quietly
  <2>3. caller = 0 => Undisturbed(toMain')
    BY <1>1, <2>1, DisturbedAtHead
  <2> QED BY <1>7, <2>1, <2>2, <2>3 DEF EventHeld
<1>8. CallHeld' /\ EventHeld'
  BY <1>5, <1>6, <1>7 DEF CallHeld, EventHeld
<1>9. RestHeld'
  BY <1>1, <1>5, DisturbedAtHead DEF RestHeld
<1>10. LoadsHeld'
  BY SMTT(30), LoadsFrame DEF PathParts
<1> QED BY <1>4, <1>8, <1>9, <1>10 DEF PathParts

LEMMA EventBegunPath ==
  ASSUME IInv, PathParts, EventBegun
  PROVE  PathParts'
<1>1. /\ toMain # <<>> /\ Head(toMain).type = "begun"
      /\ toMain' = Tail(toMain) /\ toView' = toView \o <<>>
      /\ host' = [host EXCEPT !.at = "open", !.staged = {}]
      /\ session' = OpenPath(Head(host.queue).file, Head(host.queue).id, 0)
      /\ UNCHANGED <<view, work, seen>>
  BY DEF EventBegun, MainReceives
<1>2. /\ host.at = "begin" /\ host.queue # <<>>
      /\ NoneView(toView) /\ Elsewhere0
      /\ NoneMain(toMain')
  BY <1>1, MainReceived, TokenInMain DEF DispatchMain, Phase
<1>3. host \in HostType /\ toView' = toView
  BY <1>1, Types, SameSequence DEF IInv
<1>4. host'.at = "open" /\ host'.queue = host.queue
  BY <1>1, <1>3 DEF HostType
<1>5. /\ Head(host.queue).id \in 0 .. MaxEvents
      /\ Head(host.queue).file \in Files /\ 0 \in Nat
  BY <1>2, <1>3, HeadOfQueue, Constants
<1>6. PICK o \in session'.opens :
           /\ session'.opens = session.opens \cup {o}
           /\ session'.latest = session.latest + 1
           /\ session'.active = session.active
           /\ session'.pickers = session.pickers \ {0}
           /\ o.src.n = session'.latest /\ o.caller = 0
  BY <1>1, <1>5, PathOpened
<1>7. EventPends => EventIsHead'
  BY SMTT(30), <1>1, <1>2, <1>3, <1>4
     DEF PathParts, EventHeld, EventIsHead, HeadId, NoneMain, NoneView
<1> QED BY <1>1, <1>3, <1>4, <1>5, <1>6, <1>7, OpenPathPath

LEMMA OpenRequestedPath ==
  ASSUME IInv, PathParts, NEW type \in {"open", "recent"}, OpenRequested(type)
  PROVE  PathParts'
<1>1. /\ toMain # <<>> /\ Head(toMain).type = type
      /\ toMain' = Tail(toMain) /\ toView' = toView \o <<>>
      /\ host' = [host EXCEPT !.staged = {}]
      /\ session' = OpenPath(Head(toMain).result.src.file, 0, Head(toMain).id)
      /\ UNCHANGED <<view, work, seen>>
  BY DEF OpenRequested, MainReceives
<1>2. Msgs(toMain) = Msgs(toMain') \cup {Head(toMain)}
  BY <1>1, MainReceived
<1>3. MainSays(Head(toMain))
  BY <1>2 DEF IInv, Messages
<1>4. /\ Head(toMain).result.src.file \in Files /\ Asks(Head(toMain))
      /\ Head(toMain).id \in Nat /\ Head(toMain).id # 0 /\ 0 \in 0 .. MaxEvents
  BY <1>1, <1>3, Types, Constants DEF MainSays, Asks, IInv, ViewType
<1>5. toView' = toView /\ host \in HostType
  BY <1>1, Types, SameSequence DEF IInv
<1>6. host'.at = host.at /\ host'.queue = host.queue
  BY <1>1, <1>5 DEF HostType
<1>7. PICK o \in session'.opens :
           /\ session'.opens = session.opens \cup {o}
           /\ session'.latest = session.latest + 1
           /\ session'.active = session.active
           /\ session'.pickers = session.pickers \ {Head(toMain).id}
           /\ o.src.n = session'.latest /\ o.caller = Head(toMain).id
  BY <1>1, <1>4, PathOpened
<1>8. EventPends => EventIsHead'
  BY <1>1, <1>2, <1>5, <1>6 DEF PathParts, EventHeld, EventIsHead, HeadId
<1> QED BY Zenon, <1>1, <1>4, <1>5, <1>6, <1>7, <1>8, OpenPathPath

LEMMA DisposeSessionPath ==
  ASSUME IInv, PathParts, DisposeSession
  PROVE  PathParts'
<1>1. /\ toMain # <<>> /\ Head(toMain).type \in {"dispose", "close"}
      /\ toMain' = Tail(toMain)
      /\ session' = [session EXCEPT !.active = NoSource]
      /\ UNCHANGED <<host, view, work, seen>>
  BY DEF DisposeSession, MainReceives
<1>2. Msgs(toMain) = Msgs(toMain') \cup {Head(toMain)}
  BY <1>1, MainReceived
<1>3. Head(toMain).type = "dispose"
  BY <1>1, <1>2 DEF PathParts, OnlyPaths
<1>4. toView' = toView
  BY <1>1, <1>3, SameSequence, Types DEF DisposeSession, MainReceives, IInv
<1>5. Disturbs(Head(toMain))
  BY <1>3 DEF Disturbs
<1>6. UNCHANGED <<session.opens, session.latest, session.pickers>>
  BY <1>1, Types DEF IInv, SessionType
<1>7. Quietly(toMain, toMain')
  BY <1>1, <1>5, DisturbedAtHead
<1>8. (CallPends' <=> CallPends) /\ (EventPends' <=> EventPends)
  BY <1>1 DEF CallPends, EventPends
<1>9. OnlyPaths'
  BY <1>1, <1>2, <1>4, <1>6 DEF PathParts, OnlyPaths
<1>10. ASSUME CallPends PROVE CallHeld'
  <2>1. view.request \in Nat
    BY Types DEF IInv, ViewType
  <2>2. /\ AskedLast(toMain, view.request) /\ CallIsSomewhere
        /\ \A p \in session.opens : p.caller # view.request
        /\ \A m \in Msgs(toView) : m.type = "answered" => m.id # view.request
    BY <1>1, <1>5, <1>10, DisturbedAtHead DEF PathParts, CallHeld
  <2>3. AskedLast(toMain', view.request)
    BY <1>7, <2>1, <2>2 DEF Quietly
  <2>4. \E m \in Msgs(toMain') : Asks(m) /\ m.id = view.request
    BY <1>2, <1>3, <2>2 DEF CallIsSomewhere, Asks
  <2> QED BY <1>1, <1>4, <1>6, <2>2, <2>3, <2>4 DEF CallHeld, CallIsSomewhere
<1>11. ASSUME EventPends PROVE EventHeld'
  <2>1. /\ BegunLast(toMain) /\ host.at # "complete"
        /\ \A p \in session.opens : p.caller # 0
    BY <1>1, <1>5, <1>11, DisturbedAtHead DEF PathParts, EventHeld
  <2>2. BegunLast(toMain')
    BY <1>7, <2>1 DEF Quietly
  <2>3. EventIsHead'
    BY <1>1, <1>2, <1>4, <1>11 DEF PathParts, EventHeld, EventIsHead, HeadId
  <2> QED BY <1>1, <1>6, <2>1, <2>2, <2>3 DEF EventHeld
<1>12. RestHeld'
  BY <1>1, <1>5, <1>8, DisturbedAtHead DEF RestHeld
<1>13. LoadsHeld'
  BY <1>1, LoadsFrame DEF PathParts
<1> QED
  BY <1>8, <1>9, <1>10, <1>11, <1>12, <1>13 DEF PathParts, CallHeld, EventHeld

LEMMA SessionAnswersPath ==
  ASSUME IInv, PathParts, SessionAnswers
  PROVE  PathParts'
<1>1. PICK o \in session.opens, accepted \in BOOLEAN :
    LET result == Outcomes(o.src, accepted)
    IN /\ session' = [session EXCEPT !.opens = @ \ {o},
                                     !.active = Activate(o.src, accepted)]
       /\ IF o.caller = 0
          THEN /\ host' = [Stage(host, result) EXCEPT
                             !.at = "complete",
                             !.results = @ \cup
                               {[id |-> o.src.by, result |-> result]}]
               /\ toView' = toView \o Signal("complete", o.src.by)
          ELSE /\ host' = Stage(host, result)
               /\ toView' = Append(toView,
                              Message("answered", o.caller, result))
       /\ UNCHANGED <<view, work, toMain, seen>>
  BY DEF SessionAnswers
<1>a. PICK result : result = Outcomes(o.src, accepted)
  OBVIOUS
<1>b. PICK r : r = [id |-> o.src.by, result |-> result]
  OBVIOUS
<1>c. PICK k : k = IF o.caller = 0 THEN Message("complete", o.src.by, Refused)
                   ELSE Message("answered", o.caller, result)
  OBVIOUS
<1> DEFINE h == Stage(host, result)
<1>2. /\ session'.opens = session.opens \ {o}
      /\ session'.active = Activate(o.src, accepted)
      /\ session'.latest = session.latest /\ session'.pickers = session.pickers
      /\ o.caller \in Nat
      /\ UNCHANGED <<view, work, toMain, seen>>
  BY <1>1, Types DEF IInv, SessionType
<1>3. result \in Result
  BY <1>a, OutcomeOf
<1>4. /\ o.src.n = session.latest => Agrees(result)'
      /\ o.src.n # session.latest => session'.active = session.active
  <2>1. CASE o.src.n # session.latest
    BY <1>2, <2>1 DEF Activate, IsLatest
  <2>2. CASE o.src.n = session.latest /\ accepted
    <3>1. result = [src |-> o.src, ok |-> "source"]
      BY <1>a, <2>2 DEF Outcomes, IsLatest
    <3>2. session'.active = o.src
      BY <1>2, <2>2 DEF Activate, IsLatest
    <3> QED BY <2>2, <3>1, <3>2 DEF Agrees
  <2>3. CASE ~accepted
    <3>1. result.ok = "refused"
      BY <1>a, <2>3, Constants DEF Outcomes
    <3> QED BY <2>1, <3>1 DEF Agrees
  <2> QED BY <2>1, <2>2, <2>3
<1>5. /\ host'.queue = host.queue
      /\ o.caller = 0 => host'.at = "complete" /\ host'.results = host.results \cup {r}
      /\ o.caller # 0 => host'.at = host.at /\ host'.results = host.results
  <2>1. h \in HostType /\ h.at = host.at /\ h.queue = host.queue
        /\ h.results = host.results
    BY <1>3, Staged, Types DEF IInv
  <2>2. o.caller = 0 => host' = [h EXCEPT !.at = "complete", !.results = @ \cup {r}]
    BY <1>1, <1>a, <1>b
  <2>3. o.caller # 0 => host' = h
    BY <1>1, <1>a
  <2> HIDE DEF h
  <2> QED BY <2>1, <2>2, <2>3 DEF HostType
<1>6. /\ r.result = result
      /\ o.caller = 0 => k.type = "complete"
      /\ o.caller # 0 => k.type = "answered" /\ k.id = o.caller /\ k.result = result
  BY <1>b, <1>c, MessageFields
<1>7. Msgs(toView') = Msgs(toView) \cup {k}
  <2>1. toView \in Seq(ToView)
    BY Types DEF IInv
  <2>2. CASE o.caller = 0
    <3>1. toView' = toView \o <<k>>
      BY <1>1, <1>c, <2>2 DEF Signal
    <3> QED BY <2>1, <3>1, AnySend
  <2>3. CASE o.caller # 0
    <3>1. o.caller \in Nat /\ toView' = Append(toView, k)
      BY <1>1, <1>a, <1>c, <2>3, Types DEF IInv, SessionType
    <3>2. k \in ToView
      BY <1>3, <1>c, <2>3, <3>1, MessageFields DEF ToViewType
    <3> QED BY <2>1, <3>1, <3>2, AppendMsgs
  <2> QED BY <2>2, <2>3
<1> HIDE DEF h
<1>8. Calm => Calm' /\ session'.active = session.active
  BY <1>2, <1>4 DEF Calm
<1>9. o.src.n = session.latest /\ Undisturbed(toMain) => Calm'
  BY <1>2 DEF Calm, PathParts, OnlyPaths
<1>10. (CallPends' <=> CallPends) /\ (EventPends' <=> EventPends)
  BY <1>2 DEF CallPends, EventPends
<1>11. OnlyPaths'
  BY <1>2, <1>6, <1>7 DEF PathParts, OnlyPaths
<1>12. ASSUME CallPends PROVE CallHeld'
  <2>1. view.request # 0
    BY <1>12, Types DEF IInv, Requests, CallPends, ViewType
  <2>2. \A m \in Msgs(toView') : m.type = "answered" /\ m.id = view'.request =>
          Calm' /\ Agrees(m.result)'
    <3>1. ASSUME NEW m \in Msgs(toView), m.type = "answered", m.id = view.request
          PROVE  Calm' /\ Agrees(m.result)'
      BY <1>8, <1>12, <3>1 DEF PathParts, CallHeld, Agrees
    <3>2. ASSUME k.type = "answered", k.id = view.request
          PROVE  Calm' /\ Agrees(k.result)'
      BY <1>4, <1>6, <1>9, <1>12, <3>2 DEF PathParts, CallHeld
    <3> QED BY <1>2, <1>7, <3>1, <3>2
  <2>3. CallIsSomewhere'
    BY <1>2, <1>6, <1>7, <1>12, <2>1 DEF PathParts, CallHeld, CallIsSomewhere
  <2> QED BY <1>2, <1>12, <2>2, <2>3 DEF PathParts, CallHeld
<1>13. ASSUME EventPends PROVE EventHeld'
  <2>1. EventIsHead'
    BY <1>2, <1>5, <1>6, <1>7, <1>13
       DEF PathParts, EventHeld, EventIsHead, HeadId, DispatchView
  <2>2. CASE o.caller # 0
    BY <1>2, <1>5, <1>6, <1>7, <1>8, <1>13, <2>1, <2>2
       DEF PathParts, EventHeld, Agrees
  <2>3. CASE o.caller = 0
    <3>1. host.at = "open" /\ host.results = {}
      BY <2>3 DEF IInv, Elsewhere, Queue
    <3>2. \A m \in Msgs(toView) : m.type # "consumed"
      BY <3>1 DEF IInv, Channels, DispatchView, Phase
    <3>3. Calm' /\ Agrees(result)'
      BY <1>4, <1>9, <1>13, <2>3 DEF PathParts, EventHeld
    <3> QED BY <1>2, <1>5, <1>6, <1>7, <1>13, <2>1, <2>3, <3>1, <3>2, <3>3
            DEF PathParts, EventHeld
  <2> QED BY <2>2, <2>3
<1>14. RestHeld'
  BY <1>2, <1>8, <1>10 DEF PathParts, RestHeld
<1>15. LoadsHeld'
  BY <1>2, LoadsFrame DEF PathParts
<1> QED
  BY <1>10, <1>11, <1>12, <1>13, <1>14, <1>15 DEF PathParts, CallHeld, EventHeld

LEMMA MainSignal ==
  ASSUME IInv, NEW type \in ToMainType, NEW id \in Nat,
         type \notin {"open", "recent", "choose", "begun", "dispose", "close"},
         toMain' = toMain \o Signal(type, id)
  PROVE  /\ MainIsQuiet
         /\ \E m \in ToMain : /\ m.type = type /\ m.id = id
                              /\ Msgs(toMain') = Msgs(toMain) \cup {m}
<1>1. PICK m \in ToMain :
        m = Message(type, id, Refused) /\ m.type = type /\ m.id = id
  BY Constants, Sent
<1>2. toMain' = toMain \o <<m>> /\ toMain \in Seq(ToMain)
  BY <1>1, Types DEF Signal, IInv
<1>3. Msgs(toMain') = Msgs(toMain) \cup {m}
  BY <1>2, AnySend
<1>4. MainIsQuiet
  BY <1>1, <1>2, QuietSend DEF Disturbs
<1> QED BY <1>1, <1>3, <1>4

LEMMA AuthorizePath ==
  ASSUME IInv, PathParts, Authorize
  PROVE  PathParts'
<1>1. /\ toView # <<>> /\ Head(toView).type = "authorize"
      /\ toView' = Tail(toView)
      /\ UNCHANGED <<host, session, work, seen>>
      /\ \/ /\ toMain' = toMain \o Signal("authorized", Head(toView).id)
            /\ UNCHANGED view
         \/ /\ toMain' = toMain \o <<>>
            /\ view' = [view EXCEPT !.asking = TRUE]
  BY DEF Authorize, ViewReceives
<1>2. Head(toView) \in Msgs(toView) /\ Head(toView).id \in Nat
  BY <1>1, CallReceived
<1>3. ~EventPends
  BY <1>1, <1>2 DEF PathParts, EventHeld, EventIsHead, DispatchView
<1>4. ViewIsQuiet
  BY <1>1, QuietViewReceive DEF Answers
<1>5. MainIsQuiet
  BY <1>1, <1>2, MainSignal, SameSequence, QuietSame, Types DEF IInv, ToMainType
<1>6. /\ ViewIsSame
      /\ view'.shown = view.shown /\ view'.svga = view.svga
      /\ view'.model = view.model /\ view'.player = view.player
  BY <1>1, Types DEF IInv, ViewType, ViewIsSame
<1> QED
  BY <1>1, <1>3, <1>4, <1>5, <1>6, PathFrame, NoEventHeld, LoadsFrame DEF PathParts

LEMMA DecidePath ==
  ASSUME IInv, PathParts, Decide
  PROVE  PathParts'
<1>1. /\ view.asking /\ view' = [view EXCEPT !.asking = FALSE]
      /\ UNCHANGED <<host, session, work, toView, seen>>
      /\ \E type \in {"authorized", "denied"} : toMain' = toMain \o Signal(type, 0)
  BY DEF Decide
<1>2. ~EventPends
  BY <1>1 DEF IInv, Elsewhere, PathParts, EventHeld, EventIsHead
<1>3. MainIsQuiet
  BY <1>1, MainSignal DEF ToMainType
<1>4. /\ ViewIsSame /\ ViewIsQuiet
      /\ view'.shown = view.shown /\ view'.svga = view.svga
      /\ view'.model = view.model /\ view'.player = view.player
  BY <1>1, QuietSame, Types DEF IInv, ViewType, ViewIsSame
<1> QED
  BY <1>1, <1>2, <1>3, <1>4, PathFrame, NoEventHeld, LoadsFrame DEF PathParts

LEMMA BeginHostFileOpenPath ==
  ASSUME IInv, PathParts, BeginHostFileOpen
  PROVE  PathParts'
<1>1. /\ toView # <<>> /\ Head(toView).type = "begin"
      /\ toView' = Tail(toView)
      /\ toMain' = toMain \o Signal("begun", Head(toView).id)
      /\ view' = [view EXCEPT !.request = @ + 1, !.event = Head(toView).id,
                              !.eventRequest = view.request + 1]
      /\ UNCHANGED <<host, session, work, seen>>
  BY DEF BeginHostFileOpen, ViewReceives
<1>2. DispatchView(Head(toView)) /\ Phase(Head(toView)) = "begin"
  BY <1>1 DEF DispatchView, Phase
<1>3. /\ host.at = "begin" /\ Head(toView).id = HeadId /\ Head(toView).id \in Nat
      /\ host.queue # <<>> /\ Elsewhere0 /\ NoneMain(toMain) /\ NoneView(toView')
      /\ Msgs(toView') \subseteq Msgs(toView)
  BY <1>1, <1>2, CallReceived
<1>4. PICK m \in ToMain :
        m.type = "begun" /\ Signal("begun", Head(toView).id) = <<m>>
  BY <1>3, MessageFields, Constants DEF ToMainType, Signal
<1>5. toMain \in Seq(ToMain) /\ toMain \o <<m>> = Append(toMain, m)
  BY Types, AppendMsgs DEF IInv
<1>6. toMain' = Append(toMain, m) /\ Msgs(toMain') = Msgs(toMain) \cup {m}
  <2>1. toMain' = toMain \o <<m>>
    BY <1>1, <1>4
  <2>2. Msgs(toMain') = Msgs(toMain) \cup {m}
    BY <1>5, <2>1, AnySend
  <2> QED BY <1>5, <2>1, <2>2
<1>7. /\ view'.request = view.request + 1 /\ view'.eventRequest = view.request + 1
      /\ view'.event = HeadId /\ view.request \in Nat
      /\ UNCHANGED <<view.calls, view.shown, view.svga, view.model, view.player>>
  BY <1>1, <1>3, Types DEF IInv, ViewType
<1>8. BegunLast(toMain')
  <2>1. \A k \in Msgs(toMain) : k.type # "begun"
    BY <1>3 DEF NoneMain, DispatchMain
  <2> QED BY <1>5, <1>6, <2>1, UndisturbedAppend
<1>9. ~CallPends'
  BY <1>7 DEF CallPends, IInv, Requests
<1>10. EventIsHead'
  BY <1>1, <1>3, <1>4, <1>6, <1>7
     DEF EventIsHead, HeadId, NoneMain, NoneView, Elsewhere0
<1>11. EventHeld' /\ CallHeld'
  BY <1>1, <1>3, <1>8, <1>9, <1>10 DEF EventHeld, CallHeld, Elsewhere0
<1>12. RestHeld'
  <2>1. HeadId # 0
    BY <1>3, HeadOfQueue, Types DEF IInv, HeadId
  <2> QED BY <1>7, <2>1 DEF RestHeld, EventPends
<1>13. OnlyPaths'
  BY <1>1, <1>3, <1>4, <1>6, <1>7 DEF PathParts, OnlyPaths
<1> QED BY <1>1, <1>7, <1>11, <1>12, <1>13, LoadsFrame DEF PathParts

LEMMA CompleteHostFileOpenPath ==
  ASSUME IInv, PathParts, CompleteHostFileOpen
  PROVE  PathParts'
<1>1. /\ toView # <<>> /\ Head(toView).type = "complete"
      /\ toView' = Tail(toView)
      /\ toMain' = toMain \o (IF HostFileOpenIsActive(Head(toView).id)
                              THEN Signal("consume", Head(toView).id)
                              ELSE Signal("rejected", Head(toView).id))
      /\ UNCHANGED <<host, session, view, work, seen>>
  BY DEF CompleteHostFileOpen, ViewReceives
<1>2. DispatchView(Head(toView))
  BY <1>1 DEF DispatchView
<1>3. /\ Head(toView).id = HeadId /\ Head(toView).id \in Nat
      /\ Elsewhere0 /\ NoneView(toView')
      /\ Msgs(toView') \subseteq Msgs(toView)
  BY <1>1, <1>2, CallReceived
<1>4. PICK type \in {"consume", "rejected"} :
        /\ toMain' = toMain \o Signal(type, Head(toView).id)
        /\ HostFileOpenIsActive(Head(toView).id) => type = "consume"
  BY <1>1
<1>5. /\ MainIsQuiet
      /\ \E m \in ToMain : m.type = type /\ Msgs(toMain') = Msgs(toMain) \cup {m}
  <2>1. type \in ToMainType
        /\ type \notin {"open", "recent", "choose", "begun", "dispose", "close"}
    BY DEF ToMainType
  <2> QED BY <1>3, <1>4, <2>1, MainSignal
<1>6. ViewIsQuiet /\ ViewIsSame
  BY <1>1, QuietViewReceive DEF Answers, ViewIsSame
<1>7. EventPends => type = "consume"
  BY <1>3, <1>4 DEF PathParts, EventHeld, EventIsHead, EventPends,
     HostFileOpenIsActive, IsActiveRequest
<1>8. EventPends => EventIsHead'
  BY <1>1, <1>3, <1>5, <1>7 DEF PathParts, EventHeld, EventIsHead, HeadId
<1>9. EventHeld'
  BY <1>1, <1>3, <1>5, <1>6, <1>8, EventFrame DEF PathParts
<1> QED BY <1>1, <1>5, <1>6, <1>9, PathFrame, LoadsFrame DEF PathParts

LEMMA OpenByPathPath ==
  ASSUME IInv, PathParts, NEW file \in Files, NEW type \in {"open", "recent"},
         OpenByPath(file, type)
  PROVE  PathParts'
<1> DEFINE result == [src |-> [NoSource EXCEPT !.file = file], ok |-> "refused"]
<1>1. /\ view' = [Asked(FALSE) EXCEPT !.loading = @ \/ type = "open"]
      /\ toMain' = Append(toMain, Message(type, view.request + 1, result))
      /\ UNCHANGED <<host, session, work, toView, seen>>
  BY DEF OpenByPath
<1>2. view.request \in Nat /\ toMain \in Seq(ToMain) /\ view \in ViewType
  BY Types DEF IInv, ViewType
<1>3. result \in Result
  BY Constants DEF Result, Source, NoSource, Outcome
<1> HIDE DEF result
<1>4. PICK m \in ToMain :
        /\ m = Message(type, view.request + 1, result)
        /\ m.type = type /\ m.id = view.request + 1
  BY <1>2, <1>3, Sent DEF ToMainType
<1>5. toMain' = Append(toMain, m) /\ Msgs(toMain') = Msgs(toMain) \cup {m}
  <2>1. toMain' = Append(toMain, m)
    BY <1>1, <1>4
  <2>2. Msgs(Append(toMain, m)) = Msgs(toMain) \cup {m}
    BY <1>2, AppendMsgs
  <2> QED BY <2>1, <2>2
<1>6. /\ view'.request = view.request + 1
      /\ view'.calls = view.calls \cup {[id |-> view.request + 1, picker |-> FALSE]}
      /\ UNCHANGED <<view.event, view.eventRequest, view.shown, view.svga,
                     view.model, view.player>>
  BY <1>1, <1>2 DEF ViewType, Asked
<1>7. CallPends' /\ ~EventPends'
  <2>1. [id |-> view.request + 1, picker |-> FALSE] \in view'.calls
    BY <1>6
  <2>2. CallPends'
    BY <1>6, <2>1 DEF CallPends
  <2>3. view.eventRequest \in Nat /\ view.eventRequest <= view.request
    BY <1>2 DEF IInv, Requests, ViewType
  <2>4. view'.eventRequest # view'.request
    BY <1>2, <1>6, <2>3
  <2> QED BY <2>2, <2>4 DEF EventPends
<1>8. AskedLast(toMain', view'.request)
  <2>1. \A k \in Msgs(toMain) : Asks(k) => k.id # view.request + 1
    BY <1>2 DEF IInv, Messages, MainSays
  <2>2. view.request + 1 \in Nat
    BY <1>2
  <2>3. AskedLast(Append(toMain, m), view.request + 1)
    BY <1>2, <2>1, <2>2, UndisturbedAppend
  <2> QED BY <1>5, <1>6, <2>3
<1>9. CallHeld'
  <2>1. \A o \in session'.opens : o.caller # view'.request
    <3>1. \A o \in session.opens : o.caller \in Nat /\ o.caller <= view.request
      BY Types DEF IInv, Sources, OpenSays, SessionType
    <3>2. \A o \in session.opens : o.caller # view.request + 1
      BY <1>2, <3>1
    <3> QED BY <1>1, <1>6, <3>2
  <2>2. \A k \in Msgs(toView') : k.type = "answered" => k.id # view'.request
    <3>1. \A k \in Msgs(toView) : k.type = "answered" => k.id \in 1 .. view.request
      BY DEF IInv, Messages, ViewSays
    <3>2. \A k \in Msgs(toView) : k.type = "answered" => k.id # view.request + 1
      BY <1>2, <3>1
    <3> QED BY <1>1, <1>6, <3>2
  <2>3. CallIsSomewhere'
    BY <1>4, <1>5, <1>6 DEF CallIsSomewhere, Asks
  <2> QED BY <1>8, <2>1, <2>2, <2>3 DEF CallHeld
<1>10. OnlyPaths'
  <2>1. \A c \in view'.calls : ~c.picker
    BY <1>6 DEF PathParts, OnlyPaths
  <2> QED BY <1>1, <1>4, <1>5, <2>1 DEF PathParts, OnlyPaths
<1>11. EventHeld' /\ RestHeld'
  BY <1>7 DEF EventHeld, RestHeld
<1> QED BY <1>1, <1>6, <1>9, <1>10, <1>11, LoadsFrame DEF PathParts

LEMMA CommitAnsweredPath ==
  ASSUME IInv, PathParts, NEW type \in {"committed", "uncommitted"},
         CommitAnswered(type)
  PROVE  PathParts'
<1>1. PICK m \in ToView :
        /\ m = Head(toView) /\ m \in Msgs(toView) /\ m.type = type
        /\ toView # <<>> /\ toView' = Tail(toView)
        /\ toMain' = toMain \o IF type = "committed" THEN Accept(m.id)
                                                     ELSE Reject(m.id)
        /\ work' = {w \in work : w.at # "commit" \/ w.src # m.result.src}
        /\ UNCHANGED <<host, session, view, seen>>
  BY ViewReceived DEF CommitAnswered, ViewReceives
<1>2. m.id \in Nat /\ Msgs(toView') \subseteq Msgs(toView)
  BY <1>1, CallReceived
<1>3. EventPends => m.id = 0
  BY <1>1 DEF PathParts, EventHeld, EventIsHead, DispatchView
<1>4. MainIsQuiet /\ (m.id = 0 => toMain' = toMain)
  <2>1. CASE m.id = 0
    <3>1. toMain' = toMain \o <<>>
      BY <1>1, <2>1 DEF Accept, Reject
    <3>2. toMain' = toMain
      BY <3>1, SameSequence, Types DEF IInv
    <3> QED BY <3>2, QuietSame
  <2>2. CASE m.id # 0
    <3>1. \E t \in {"accepted", "rejected"} : toMain' = toMain \o Signal(t, m.id)
      BY <1>1, <2>2 DEF Accept, Reject
    <3> QED BY <1>2, <2>2, <3>1, MainSignal DEF ToMainType
  <2> QED BY <2>1, <2>2
<1>5. ViewIsSame /\ ViewIsQuiet
  BY <1>1, QuietViewReceive DEF Answers, ViewIsSame
<1>6. EventPends => EventIsHead'
  BY <1>1, <1>2, <1>3, <1>4 DEF PathParts, EventHeld, EventIsHead, HeadId
<1>7. EventHeld'
  BY <1>1, <1>2, <1>4, <1>5, <1>6, EventFrame DEF PathParts
<1>8. LoadsHeld'
  BY <1>1 DEF PathParts, LoadsHeld, Loads
<1> QED BY <1>1, <1>4, <1>5, <1>7, <1>8, PathFrame DEF PathParts

\* A load that loses or keeps its authority when the SVGA workflow is left.
LEMMA NoLoadsLeft ==
  ASSUME IInv, LoadsHeld, NEW w \in Deactivated
  PROVE  ~Loads(w)
<1>1. CASE view.svga
  <2>1. PICK y \in work : w = [y EXCEPT !.fresh = FALSE]
    BY <1>1 DEF Deactivated
  <2>2. y \in WorkType
    BY Types DEF IInv
  <2> QED BY <2>1, <2>2 DEF Loads, WorkType
<1>2. CASE ~view.svga
  BY <1>2 DEF Deactivated, LoadsHeld
<1> QED BY <1>1, <1>2

\* The view without the newest request, which has its answer.
WithoutNewest(v) ==
  /\ v \in ViewType /\ v.request = view.request /\ v.calls \subseteq view.calls
  /\ v.event = 0 \/ v.eventRequest # v.request
  /\ \A c \in v.calls : c.id # v.request
  /\ v.shown = view.shown /\ v.svga = view.svga
  /\ v.model = view.model /\ v.player = view.player

LEMMA AtRest ==
  ASSUME NEW v, WithoutNewest(v), UNCHANGED session,
         view'.request = v.request, view'.event = v.event,
         view'.eventRequest = v.eventRequest, view'.calls = v.calls,
         OnlyPaths', LoadsHeld',
         view'.shown # NoSource => Calm' /\ session.active = view'.shown
  PROVE  PathParts'
<1>1. ~CallPends' /\ ~EventPends'
  BY DEF WithoutNewest, CallPends, EventPends
<1> QED BY <1>1 DEF PathParts, CallHeld, EventHeld, RestHeld

LEMMA AcceptIsQuiet ==
  ASSUME NEW s \in Seq(ToMain), NEW event, NEW t, t = s \o Accept(event)
  PROVE  \A m \in Msgs(t) : m \in Msgs(s) \/ m.type = "accepted"
<1>1. CASE event = 0
  <2>1. t = s
    BY <1>1, SameSequence DEF Accept
  <2> QED BY <2>1
<1>2. CASE event # 0
  <2>1. PICK m : m = Message("accepted", event, Refused)
    OBVIOUS
  <2>2. m.type = "accepted"
    BY <2>1, MessageFields
  <2>3. t = s \o <<m>>
    BY <1>2, <2>1 DEF Accept, Signal
  <2>4. Msgs(t) = Msgs(s) \cup {m}
    BY <2>3, AnySend
  <2> QED BY <2>2, <2>4
<1> QED BY <1>1, <1>2

LEMMA RevokePath ==
  ASSUME IInv, PathParts, UNCHANGED <<host, session>>, NEW v, WithoutNewest(v),
         Msgs(toView') \subseteq Msgs(toView), NEW event,
         Revoke(v, Accept(event))
  PROVE  PathParts'
<1>1. /\ view' = Cleared(v) /\ work' = Deactivated
      /\ toMain' = (toMain \o Signal("dispose", 0)) \o Accept(event)
  BY DEF Revoke
<1>2. PICK d \in ToMain :
        d = Message("dispose", 0, Refused) /\ d.type = "dispose"
  BY Constants, Sent DEF ToMainType
<1>3. toMain \in Seq(ToMain)
  BY Types DEF IInv
<1>4. PICK s : s = toMain \o <<d>>
  OBVIOUS
<1>5. s \in Seq(ToMain) /\ Msgs(s) = Msgs(toMain) \cup {d}
  BY <1>3, <1>4, AppendMsgs, AnySend
<1>6. toMain' = s \o Accept(event)
  BY <1>1, <1>2, <1>4 DEF Signal
<1>7. \A m \in Msgs(toMain') : m \in Msgs(toMain) \/ m.type \in {"dispose", "accepted"}
  BY <1>2, <1>5, <1>6, AcceptIsQuiet
<1>8. /\ view'.request = v.request /\ view'.event = v.event
      /\ view'.eventRequest = v.eventRequest /\ view'.calls = v.calls
      /\ view'.shown = NoSource /\ view'.model = NoSource
      /\ view'.player = NoSource
  BY <1>1 DEF Cleared, WithoutNewest, ViewType
<1>9. OnlyPaths'
  BY <1>7, <1>8 DEF PathParts, OnlyPaths, WithoutNewest
<1>10. LoadsHeld'
  BY <1>1, <1>8, NoLoadsLeft DEF PathParts, LoadsHeld
<1> QED BY <1>8, <1>9, <1>10, AtRest

LEMMA ShowPlayerPath ==
  ASSUME IInv, PathParts, UNCHANGED <<host, session>>, NEW v, WithoutNewest(v),
         Msgs(toView') \subseteq Msgs(toView), NEW event \in 0 .. MaxEvents,
         NEW result \in Result, result.ok = "source",
         result.src = session.active, Calm,
         ShowPlayer(v, result, event)
  PROVE  PathParts'
<1> DEFINE k == [src |-> result.src, event |-> event, held |-> TRUE,
                 at |-> "commit", fresh |-> TRUE]
<1>1. /\ view' = [v EXCEPT !.shown = result.src, !.model = result.src,
                           !.svga = FALSE,
                           !.player = IF v.svga THEN NoSource ELSE @,
                           !.loading = FALSE]
      /\ work' = Deactivated \cup {k}
      /\ toMain' = Append(toMain, Message("commit", event, result))
  BY DEF ShowPlayer
<1>2. k.at = "commit"
  OBVIOUS
<1> HIDE DEF k
<1>3. PICK m \in ToMain :
        m = Message("commit", event, result) /\ m.type = "commit"
  BY Constants, Sent DEF ToMainType
<1>4. toMain' = Append(toMain, m)
  BY <1>1, <1>3
<1>5. MainIsQuiet
  BY <1>3, <1>4, QuietSend DEF Disturbs
<1>6. /\ view'.request = v.request /\ view'.event = v.event
      /\ view'.eventRequest = v.eventRequest /\ view'.calls = v.calls
      /\ view'.shown = result.src /\ view'.model = result.src
      /\ ~view'.svga /\ view'.player = IF v.svga THEN NoSource ELSE v.player
  BY <1>1 DEF WithoutNewest, ViewType
<1>7. view'.player = NoSource
  BY <1>6 DEF WithoutNewest, PathParts, LoadsHeld
<1>8. \A w \in work' : ~Loads(w)
  BY <1>1, <1>2, NoLoadsLeft DEF PathParts, Loads
<1>9. LoadsHeld'
  BY <1>6, <1>7, <1>8 DEF LoadsHeld
<1>10. OnlyPaths'
  BY <1>5, <1>6 DEF PathParts, OnlyPaths, MainIsQuiet, Disturbs, WithoutNewest
<1>11. Calm'
  BY <1>5 DEF Calm, MainIsQuiet, Quietly
<1> QED BY <1>6, <1>9, <1>10, <1>11, AtRest

LEMMA LoadSvgaPath ==
  ASSUME IInv, PathParts, UNCHANGED <<host, session>>, NEW v, WithoutNewest(v),
         Msgs(toView') \subseteq Msgs(toView), NEW event,
         NEW result, result.src = session.active, Calm,
         LoadSvga(v, result, event)
  PROVE  PathParts'
<1> DEFINE k == [src |-> result.src, event |-> event, held |-> TRUE,
                 at |-> "inspect", fresh |-> TRUE]
           W == {[w EXCEPT !.fresh = FALSE] : w \in work}
<1>1. /\ view' = [v EXCEPT !.shown = result.src, !.svga = TRUE, !.loading = TRUE]
      /\ work' = W \cup {k} /\ toMain' = toMain
  BY DEF LoadSvga
<1>2. k.src = result.src /\ Loads(k) /\ k.at = "inspect"
  BY DEF Loads
<1> HIDE DEF k
<1>3. \A w \in W : ~Loads(w)
  <2>1. work \subseteq WorkType
    BY Types DEF IInv
  <2> QED BY <2>1 DEF Loads, WorkType
<1> HIDE DEF W
<1>4. /\ view'.request = v.request /\ view'.event = v.event
      /\ view'.eventRequest = v.eventRequest /\ view'.calls = v.calls
      /\ view'.shown = result.src /\ view'.svga
  BY <1>1 DEF WithoutNewest, ViewType
<1>5. LoadsHeld'
  BY <1>1, <1>2, <1>3, <1>4 DEF LoadsHeld
<1>6. OnlyPaths' /\ Calm'
  BY <1>1, <1>4 DEF PathParts, OnlyPaths, Calm, WithoutNewest
<1> QED BY <1>4, <1>5, <1>6, AtRest

\* The newest request has its answer, and the answer agrees with the session.
LEMMA OutcomePath ==
  ASSUME IInv, PathParts, UNCHANGED <<host, session>>, NEW v, WithoutNewest(v),
         Msgs(toView') \subseteq Msgs(toView), NEW event \in 0 .. MaxEvents,
         NEW result \in Result, Agrees(result), Calm,
         ApplyOpenOutcome(v, result, event)
  PROVE  PathParts'
<1>1. CASE result.ok = "refused"
  BY <1>1, RevokePath DEF ApplyOpenOutcome
<1>2. CASE result.ok = "source"
  <2>1. result.src = session.active
    BY <1>2 DEF Agrees
  <2>2. ShowPlayer(v, result, event) \/ LoadSvga(v, result, event)
    BY <1>2 DEF ApplyOpenOutcome
  <2> QED BY <1>2, <2>1, <2>2, ShowPlayerPath, LoadSvgaPath
<1> QED BY <1>1, <1>2 DEF Agrees

LEMMA HostResultConsumedPath ==
  ASSUME IInv, PathParts, HostResultConsumed
  PROVE  PathParts'
<1>1. PICK m \in ToView :
        /\ m = Head(toView) /\ m \in Msgs(toView) /\ m.type = "consumed"
        /\ toView # <<>> /\ toView' = Tail(toView)
        /\ IF HostFileOpenIsActive(m.id)
           THEN ApplyOpenOutcome(ClearHostFileOpen(view), m.result, m.id)
           ELSE /\ toMain' = toMain \o Signal("rejected", m.id)
                /\ UNCHANGED <<view, work, seen>>
        /\ UNCHANGED <<host, session>>
  BY ViewReceived DEF HostResultConsumed
<1>2. DispatchView(m) /\ Phase(m) = "complete"
  BY <1>1 DEF DispatchView, Phase
<1>3. /\ Msgs(toView') \subseteq Msgs(toView)
      /\ m.result \in Result /\ m.id \in Nat
      /\ host.at = "complete" /\ m.id = HeadId /\ host.queue # <<>>
  BY <1>1, <1>2, CallReceived
<1>4. view \in ViewType /\ m.id \in 0 .. MaxEvents /\ m.id # 0
  BY <1>3, HeadOfQueue, Constants, Types DEF IInv, HeadId
<1>5. CASE HostFileOpenIsActive(m.id)
  <2>1. EventPends
    BY <1>4, <1>5 DEF EventPends, HostFileOpenIsActive, IsActiveRequest
  <2>2. Calm /\ Agrees(m.result)
    BY <1>1, <1>3, <2>1 DEF PathParts, EventHeld
  <2>3. PICK v : v = ClearHostFileOpen(view)
    OBVIOUS
  <2>4. /\ v \in ViewType /\ v.request = view.request /\ v.calls = view.calls
        /\ v.event = 0 /\ v.shown = view.shown /\ v.svga = view.svga
        /\ v.model = view.model /\ v.player = view.player
    <3>1. v = [view EXCEPT !.event = 0, !.eventRequest = 0]
      BY <2>3 DEF ClearHostFileOpen
    <3>2. 0 \in 0 .. MaxEvents
      BY Constants
    <3> QED BY <1>4, <3>1, <3>2 DEF ViewType
  <2>5. \A c \in view.calls : c.id # view.request
    BY <2>1 DEF IInv, Requests, EventPends
  <2>6. WithoutNewest(v)
    BY <2>4, <2>5 DEF WithoutNewest
  <2>7. ApplyOpenOutcome(v, m.result, m.id)
    BY <1>1, <1>5, <2>3
  <2> QED BY <1>1, <1>3, <1>4, <2>2, <2>6, <2>7, OutcomePath
<1>6. CASE ~HostFileOpenIsActive(m.id)
  <2>1. toMain' = toMain \o Signal("rejected", m.id) /\ UNCHANGED <<view, work>>
    BY <1>1, <1>6
  <2>2. ~EventPends
    BY <1>3, <1>6 DEF PathParts, EventHeld, EventIsHead, EventPends,
       HostFileOpenIsActive, IsActiveRequest
  <2>3. MainIsQuiet
    BY <1>3, <2>1, MainSignal DEF ToMainType
  <2>4. ViewIsQuiet
    BY <1>1, QuietViewReceive DEF Answers
  <2> QED BY <1>1, <2>1, <2>2, <2>3, <2>4, DispatchTurns
<1> QED BY <1>5, <1>6

LEMMA AnsweredPath ==
  ASSUME IInv, PathParts, Answered
  PROVE  PathParts'
<1>1. PICK m \in ToView :
        /\ m = Head(toView) /\ m \in Msgs(toView) /\ m.type = "answered"
        /\ toView # <<>> /\ toView' = Tail(toView)
        /\ UNCHANGED <<host, session>>
  BY ViewReceived DEF Answered
<1> DEFINE call == {c \in view.calls : c.id = m.id}
<1>2. PICK v : v = [view EXCEPT !.calls = @ \ call]
  OBVIOUS
<1>3. IF call # {} /\ IsActiveRequest(m.id)
      THEN ApplyOpenOutcome(v, m.result, 0)
      ELSE view' = v /\ UNCHANGED <<work, toMain, seen>>
  BY <1>1, <1>2 DEF Answered
<1>4. /\ Msgs(toView') \subseteq Msgs(toView) /\ m.result \in Result
      /\ \A x \in Msgs(toView) \ Msgs(toView') : x = m
  BY <1>1, CallReceived
<1>5. view \in ViewType
  BY Types DEF IInv
<1>6. /\ v \in ViewType /\ v.request = view.request /\ v.event = view.event
      /\ v.eventRequest = view.eventRequest /\ v.calls = view.calls \ call
      /\ v.shown = view.shown /\ v.svga = view.svga
      /\ v.model = view.model /\ v.player = view.player
  BY <1>2, <1>5 DEF ViewType
<1>7. CASE call # {} /\ IsActiveRequest(m.id)
  <2>1. CallPends /\ m.id = view.request
    BY <1>7 DEF CallPends, IsActiveRequest
  <2>2. Calm /\ Agrees(m.result)
    BY <1>1, <2>1 DEF PathParts, CallHeld
  <2>3. \A c \in v.calls : c.id # v.request
    BY <1>6, <2>1
  <2>4. view.eventRequest # view.request
    BY <2>1 DEF IInv, Requests, CallPends
  <2>5. WithoutNewest(v)
    BY <1>6, <2>3, <2>4 DEF WithoutNewest
  <2>6. ApplyOpenOutcome(v, m.result, 0) /\ 0 \in 0 .. MaxEvents
    BY <1>3, <1>7, Constants
  <2> QED BY <1>1, <1>4, <2>2, <2>5, <2>6, OutcomePath
<1>8. CASE ~(call # {} /\ IsActiveRequest(m.id))
  <2>1. view' = v /\ UNCHANGED <<work, toMain>>
    BY <1>3, <1>8
  <2>2. ViewIsSame
    BY <1>6, <1>8, <2>1 DEF ViewIsSame, IsActiveRequest
  <2>3. CallPends => m.id # view.request
    BY <1>8 DEF CallPends, IsActiveRequest
  <2>4. ViewIsQuiet
    BY <1>4, <2>3 DEF ViewIsQuiet
  <2>5. MainIsQuiet
    BY <2>1, QuietSame
  <2>6. EventPends => EventIsHead'
    BY <1>1, <1>4, <1>6, <2>1 DEF PathParts, EventHeld, EventIsHead, HeadId
  <2>7. EventHeld'
    BY <1>1, <1>4, <2>2, <2>5, <2>6, EventFrame DEF PathParts
  <2>8. LoadsHeld'
    BY <1>6, <2>1, LoadsFrame DEF PathParts
  <2> QED BY <1>1, <2>2, <2>4, <2>5, <2>7, <2>8, PathFrame DEF PathParts
<1> QED BY <1>7, <1>8

LEMMA OpenTimedOutPath ==
  ASSUME IInv, PathParts, NEW call \in view.calls, OpenTimedOut(call)
  PROVE  PathParts'
<1>1. PICK v : v = [view EXCEPT !.calls = @ \ {call}]
  OBVIOUS
<1>2. /\ UNCHANGED <<host, session, toView>>
      /\ IF IsActiveRequest(call.id)
         THEN Revoke(v, <<>>)
         ELSE view' = v /\ UNCHANGED <<work, toMain, seen>>
  BY <1>1 DEF OpenTimedOut
<1>3. view \in ViewType
  BY Types DEF IInv
<1>4. /\ v \in ViewType /\ v.request = view.request /\ v.event = view.event
      /\ v.eventRequest = view.eventRequest /\ v.calls = view.calls \ {call}
      /\ v.shown = view.shown /\ v.svga = view.svga
      /\ v.model = view.model /\ v.player = view.player
  BY <1>1, <1>3 DEF ViewType
<1>5. CASE IsActiveRequest(call.id)
  <2>1. call.id = view.request
    BY <1>5 DEF IsActiveRequest
  <2>2. \A c \in view.calls : c.id = call.id => c = call
    <3>1. \A c \in view.calls : c = [id |-> c.id, picker |-> FALSE]
      <4>1. \A c \in view.calls : c \in [id : Nat, picker : BOOLEAN] /\ ~c.picker
        BY <1>3 DEF ViewType, PathParts, OnlyPaths
      <4> QED BY <4>1
    <3> QED BY <3>1
  <2>3. view.eventRequest # view.request
    BY <2>1 DEF IInv, Requests
  <2>4. WithoutNewest(v)
    BY <1>4, <2>1, <2>2, <2>3 DEF WithoutNewest
  <2>5. Revoke(v, Accept(0))
    BY <1>2, <1>5 DEF Accept
  <2> QED BY <1>2, <2>4, <2>5, RevokePath
<1>6. CASE ~IsActiveRequest(call.id)
  <2>1. view' = v /\ UNCHANGED <<work, toMain>>
    BY <1>2, <1>6
  <2>2. ViewIsSame
    BY <1>4, <1>6, <2>1 DEF ViewIsSame, IsActiveRequest
  <2>3. MainIsQuiet /\ ViewIsQuiet
    BY <1>2, <2>1, QuietSame
  <2>4. EventPends => EventIsHead'
    BY <1>2, <1>4, <2>1 DEF PathParts, EventHeld, EventIsHead, HeadId
  <2>5. EventHeld'
    BY <1>2, <2>2, <2>3, <2>4, EventFrame DEF PathParts
  <2>6. LoadsHeld'
    BY <1>4, <2>1, LoadsFrame DEF PathParts
  <2> QED BY <1>2, <2>2, <2>3, <2>5, <2>6, PathFrame DEF PathParts
<1> QED BY <1>5, <1>6

\* What a load sends when it ends: nothing that disturbs, and nothing of the
\* dispatch of an event the renderer waits for.
LEMMA LoadSends ==
  ASSUME IInv, PathParts, NEW w \in work, w.at # "commit",
         LoadFailed(w) \/ LoadCommits(w)
  PROVE  /\ MainIsQuiet
         /\ EventPends => \A m \in Msgs(toMain') : m \in Msgs(toMain) \/ ~DispatchMain(m)
         /\ \A x \in work' : x.at # "commit" => x \in work /\ x # w
         /\ \A x \in work : x # w => x \in work'
<1> DEFINE result == [src |-> w.src, ok |-> "source"]
<1>1. w \in WorkType /\ w.src \in Source /\ w.event \in Nat
  BY LoadHolds
<1>2. result \in Result
  BY <1>1 DEF Result, Outcome
<1>3. PICK c \in ToMain :
        c = Message("commit", w.event, result) /\ c.type = "commit" /\ c.id = w.event
  BY <1>1, <1>2, Sent DEF ToMainType
<1>4. PICK r \in ToMain :
        r = Message("rejected", w.event, Refused) /\ r.type = "rejected"
  BY <1>1, Constants, Sent DEF ToMainType
<1>5. PICK k : k = [w EXCEPT !.at = "commit"]
  OBVIOUS
<1>6. k.at = "commit"
  BY <1>1, <1>5 DEF WorkType
<1>7. \/ /\ w.event # 0 /\ work' = work \ {w} /\ toMain' = toMain \o <<r>>
      \/ /\ work' = (work \ {w}) \cup {k} /\ toMain' = Append(toMain, c)
  BY <1>3, <1>4, <1>5 DEF LoadFailed, LoadCommits, Signal
<1> HIDE DEF result
<1>8. toMain \in Seq(ToMain) /\ Append(toMain, c) = toMain \o <<c>>
  BY AppendMsgs, Types DEF IInv
<1>9. PICK m \in {c, r} : toMain' = toMain \o <<m>>
  BY <1>7, <1>8
<1>10. Msgs(toMain') = Msgs(toMain) \cup {m}
  BY <1>8, <1>9, AnySend
<1>11. MainIsQuiet
  BY <1>3, <1>4, <1>9, QuietSend DEF Disturbs
<1>12. EventPends => w.event = 0
  BY DEF PathParts, EventHeld, EventIsHead, Loading
<1>13. EventPends => \A x \in Msgs(toMain') : x \in Msgs(toMain) \/ ~DispatchMain(x)
  <2> SUFFICES ASSUME EventPends, NEW x \in Msgs(toMain'), x \notin Msgs(toMain)
               PROVE  ~DispatchMain(x)
    OBVIOUS
  <2>1. toMain' = toMain \o <<c>>
    BY <1>7, <1>8, <1>12
  <2>2. Msgs(toMain') = Msgs(toMain) \cup {c}
    BY <1>8, <2>1, AnySend
  <2> QED BY <1>3, <1>12, <2>2 DEF DispatchMain
<1> QED BY <1>6, <1>7, <1>11, <1>13

LEMMA LoadTurns ==
  ASSUME IInv, PathParts, UNCHANGED <<host, session, toView>>, ViewIsSame,
         MainIsQuiet,
         EventPends => \A m \in Msgs(toMain') : m \in Msgs(toMain) \/ ~DispatchMain(m),
         EventPends => \A w \in work' : ~Loading(w),
         LoadsHeld'
  PROVE  PathParts'
<1>1. ViewIsQuiet
  BY QuietSame
<1>2. EventPends => EventIsHead'
  BY DEF PathParts, EventHeld, EventIsHead, HeadId, ViewIsSame
<1>3. EventHeld'
  BY <1>2, EventFrame DEF PathParts
<1> QED BY <1>1, <1>3, PathFrame DEF PathParts

LEMMA InspectedPath ==
  ASSUME IInv, PathParts, NEW w \in work, NEW ok \in BOOLEAN, Inspected(w, ok)
  PROVE  PathParts'
<1>1. w.at = "inspect" /\ UNCHANGED <<host, session, toView, seen>>
  BY DEF Inspected
<1>2. w \in WorkType /\ view \in ViewType
  BY Types DEF IInv
<1>3. EventPends => \A x \in work : ~Loading(x)
  BY DEF PathParts, EventHeld, EventIsHead
<1>4. w.fresh => /\ Loads(w) /\ view.svga /\ view.shown = w.src
                 /\ \A x \in work : Loads(x) => x = w
  BY <1>1 DEF PathParts, LoadsHeld, Loads
<1>5. CASE w.fresh /\ ok
  <2>1. PICK k : k = [w EXCEPT !.at = "mount"]
    OBVIOUS
  <2>2. /\ view' = [view EXCEPT !.model = w.src, !.player = NoSource,
                                !.loading = FALSE]
        /\ work' = (work \ {w}) \cup {k}
        /\ toMain' = toMain
    BY <1>4, <1>5, <2>1 DEF Inspected
  <2>3. k.src = w.src /\ k.at = "mount" /\ (Loading(k) => Loading(w))
    BY <1>1, <1>2, <2>1 DEF WorkType, Loading
  <2>4. ViewIsSame /\ MainIsQuiet
    BY <1>2, <2>2, QuietSame DEF ViewIsSame, ViewType
  <2>5. EventPends => \A x \in work' : ~Loading(x)
    BY <1>3, <2>2, <2>3
  <2>6. /\ view'.shown = w.src /\ view'.model = w.src
        /\ view'.player = NoSource /\ view'.svga
    BY <1>2, <1>4, <1>5, <2>2 DEF ViewType
  <2>7. \A x \in work' : Loads(x) => x = k
    BY <1>4, <1>5, <2>2
  <2>8. LoadsHeld'
    BY <2>3, <2>6, <2>7 DEF LoadsHeld
  <2> QED BY <1>1, <2>2, <2>4, <2>5, <2>8, LoadTurns
<1>6. CASE ~(w.fresh /\ ok)
  <2>1. /\ LoadFailed(w)
        /\ w.fresh => view' = [Cleared(view) EXCEPT !.svga = view.svga]
        /\ ~w.fresh => view' = view
    BY <1>6 DEF Inspected
  <2>2. /\ MainIsQuiet
        /\ EventPends => \A m \in Msgs(toMain') : m \in Msgs(toMain) \/ ~DispatchMain(m)
        /\ \A x \in work' : x.at # "commit" => x \in work /\ x # w
        /\ \A x \in work : x # w => x \in work'
    BY <1>1, <2>1, LoadSends
  <2>3. EventPends => \A x \in work' : ~Loading(x)
    BY <1>3, <2>2 DEF Loading
  <2>4. CASE w.fresh
    <3>1. view' = [Cleared(view) EXCEPT !.svga = view.svga]
      BY <2>1, <2>4
    <3>2. /\ ViewIsSame
          /\ view'.shown = NoSource /\ view'.model = NoSource
          /\ view'.player = NoSource
      BY <1>2, <3>1 DEF ViewIsSame, ViewType, Cleared
    <3>3. \A x \in work' : ~Loads(x)
      BY <1>4, <2>2, <2>4 DEF Loads
    <3>4. LoadsHeld'
      BY <3>2, <3>3 DEF LoadsHeld
    <3> QED BY <1>1, <2>2, <2>3, <3>2, <3>4, LoadTurns
  <2>5. CASE ~w.fresh
    <3>1. view' = view /\ ViewIsSame
      BY <2>1, <2>5 DEF ViewIsSame
    <3>2. /\ \A x \in work' : Loads(x) => x \in work
          /\ \A x \in work : Loads(x) => x \in work'
      BY <2>2, <2>5 DEF Loads
    <3>3. LoadsHeld'
      BY <3>1, <3>2 DEF PathParts, LoadsHeld
    <3> QED BY <1>1, <2>2, <2>3, <3>1, <3>3, LoadTurns
  <2> QED BY <2>4, <2>5
<1> QED BY <1>5, <1>6

LEMMA MountedPath ==
  ASSUME IInv, PathParts, NEW w \in work, NEW ok \in BOOLEAN, Mounted(w, ok)
  PROVE  PathParts'
<1>1. /\ w.at = "mount" /\ UNCHANGED <<host, session, toView, seen>>
      /\ LoadFailed(w) \/ LoadCommits(w)
      /\ \/ w.fresh /\ ok /\ view' = [view EXCEPT !.player = w.src]
         \/ view' = [view EXCEPT !.player = NoSource]
         \/ ~w.fresh /\ view' = view
  BY DEF Mounted
<1>2. w \in WorkType /\ view \in ViewType
  BY Types DEF IInv
<1>3. w.fresh => /\ Loads(w) /\ view.svga /\ view.shown = w.src
                 /\ \A x \in work : Loads(x) => x = w
  BY <1>1 DEF PathParts, LoadsHeld, Loads
<1>4. /\ MainIsQuiet
      /\ EventPends => \A m \in Msgs(toMain') : m \in Msgs(toMain) \/ ~DispatchMain(m)
      /\ \A x \in work' : x.at # "commit" => x \in work /\ x # w
      /\ \A x \in work : x # w => x \in work'
  BY <1>1, LoadSends
<1>5. EventPends => \A x \in work' : ~Loading(x)
  BY <1>4 DEF Loading, PathParts, EventHeld, EventIsHead
<1>6. /\ ViewIsSame /\ view'.shown = view.shown /\ view'.svga = view.svga
      /\ view'.model = view.model
      /\ \/ w.fresh /\ view'.player = w.src
         \/ view'.player = NoSource
         \/ ~w.fresh /\ view'.player = view.player
  BY <1>1, <1>2 DEF ViewIsSame, ViewType
<1>7. /\ \A x \in work' : Loads(x) => x \in work /\ x # w
      /\ \A x \in work : Loads(x) /\ x.at = "inspect" => x \in work'
  BY <1>1, <1>4 DEF Loads
<1>8. LoadsHeld'
  <2>1. CASE w.fresh
    <3>1. \A x \in work' : ~Loads(x)
      BY <1>3, <1>7, <2>1
    <3>2. view.model \in {NoSource, view.shown}
      BY <1>1, <1>3, <2>1 DEF PathParts, LoadsHeld
    <3> QED BY <1>3, <1>6, <2>1, <3>1, <3>2 DEF LoadsHeld
  <2>2. CASE ~w.fresh
    BY <1>6, <1>7, <2>2 DEF PathParts, LoadsHeld
  <2> QED BY <2>1, <2>2
<1> QED BY <1>1, <1>4, <1>5, <1>6, <1>8, LoadTurns

LEMMA NextPath ==
  ASSUME IInv, PathParts, user = {}, Next
  PROVE  PathParts'
<1>1. Step
  BY DEF Next
<1>2. CASE RendererReady
  BY <1>2, RendererReadyPath
<1>3. CASE EventStep
  BY <1>3, EventBegunPath, EventEndsPath DEF EventStep
<1>4. CASE SessionStep
  <2>1. ~RecentMissing
    BY DEF RecentMissing
  <2>2. ~PickerRequested
    <3>1. PickerRequested => toMain # <<>> /\ Head(toMain).type = "choose"
      BY DEF PickerRequested, MainReceives
    <3>2. toMain # <<>> => Head(toMain) \in Msgs(toMain)
      BY TailMsgs, Types DEF IInv
    <3> QED BY <3>1, <3>2 DEF PathParts, OnlyPaths
  <2>3. CASE OpenRequested("open") \/ OpenRequested("recent")
    BY <2>3, OpenRequestedPath
  <2>4. CASE ConsumeResult \/ CommitOpen \/ DisposeSession
    BY <2>4, ConsumeResultPath, CommitOpenPath, DisposeSessionPath
  <2> QED BY <1>4, <2>1, <2>2, <2>3, <2>4 DEF SessionStep
<1>5. CASE SessionAnswers
  BY <1>5, SessionAnswersPath
<1>6. CASE ViewStep
  <2>1. ~Cancelled /\ ~Closed
    <3>1. Cancelled \/ Closed =>
            toView # <<>> /\ Head(toView).type \in {"cancelled", "closed"}
      BY DEF Cancelled, Closed, ViewReceives
    <3>2. toView # <<>> => Head(toView) \in Msgs(toView)
      BY TailMsgs, Types DEF IInv
    <3> QED BY <3>1, <3>2 DEF PathParts, OnlyPaths
  <2>2. CASE CommitAnswered("committed") \/ CommitAnswered("uncommitted")
    BY <2>2, CommitAnsweredPath
  <2>3. CASE Authorize \/ BeginHostFileOpen \/ CompleteHostFileOpen
    BY <2>3, AuthorizePath, BeginHostFileOpenPath, CompleteHostFileOpenPath
  <2>4. CASE HostResultConsumed \/ Answered
    BY <2>4, HostResultConsumedPath, AnsweredPath
  <2> QED BY <1>6, <2>1, <2>2, <2>3, <2>4 DEF ViewStep
<1>7. CASE Decide
  BY <1>7, DecidePath
<1>8. CASE LoadStep
  BY <1>8, InspectedPath, MountedPath DEF LoadStep
<1>9. CASE \E call \in view.calls : OpenTimedOut(call)
  BY <1>9, OpenTimedOutPath
<1>10. CASE UserStep
  <2>1. session.pickers = {}
    BY DEF PathParts, OnlyPaths
  <2>2. ~OpenFromHostDialog /\ ~CloseFile /\ ~CloseSvga
    BY DEF OpenFromHostDialog, CloseFile, CloseSvga
  <2>3. \/ \E file \in Files : OpenFileEvent(file)
        \/ \E file \in Files, type \in {"open", "recent"} : OpenByPath(file, type)
    BY <1>10, <2>1, <2>2 DEF UserStep
  <2> QED BY <2>3, OpenFileEventPath, OpenByPathPath
<1> QED
  BY <1>1, <1>2, <1>3, <1>4, <1>5, <1>6, <1>7, <1>8, <1>9, <1>10 DEF Step

\* While the user opens files by path only, every request that is not answered
\* is under way, and every answer to the newest request agrees with the session.
THEOREM PathInvariance == Spec => []PathInv
<1>1. Init => PathInv
  BY InitPath
<1>2. IInv /\ PathInv /\ [Next]_vars => PathInv'
  <2> SUFFICES ASSUME IInv, PathInv, [Next]_vars, user' = {}
               PROVE  PathParts'
    BY DEF PathInv
  <2>1. user = {}
    BY DEF Next, vars
  <2>2. PathParts
    BY <2>1 DEF PathInv
  <2>3. CASE Next
    BY <2>1, <2>2, <2>3, NextPath
  <2>4. CASE UNCHANGED vars
    <3>1. ViewIsSame /\ MainIsQuiet /\ ViewIsQuiet
      BY <2>4, QuietSame DEF vars, ViewIsSame
    <3>2. EventPends => EventIsHead'
      BY <2>2, <2>4 DEF PathParts, EventHeld, EventIsHead, HeadId, vars
    <3>3. EventHeld'
      BY <2>2, <2>4, <3>1, <3>2, EventFrame DEF PathParts, vars
    <3> QED BY <2>2, <2>4, <3>1, <3>3, PathFrame, LoadsFrame DEF PathParts, vars
  <2> QED BY <2>3, <2>4
<1> QED BY Invariance, <1>1, <1>2, PTL DEF Spec

\* A quiet state has no request without its answer.
LEMMA QuietIsAnswered ==
  ASSUME PathParts, Quiet
  PROVE  ~CallPends /\ ~EventPends
<1>1. Msgs(toMain) = {} /\ Msgs(toView) = {}
  BY DEF Quiet, Msgs
<1>2. ~CallPends
  BY <1>1 DEF Quiet, PathParts, CallHeld, CallIsSomewhere
<1>3. ~EventPends
  BY DEF Quiet, PathParts, EventHeld, EventIsHead
<1> QED BY <1>2, <1>3

\* For a user who opens files by path and through open-file events, whatever is
\* shown once everything has been answered is the session's active source:
\* play, seek and replacements reach the file on screen.
THEOREM ShownPathsAreHeld == Spec => []PathsAreHeld
<1>1. PathInv => PathsAreHeld
  BY QuietIsAnswered DEF PathInv, PathsAreHeld, ShownIsHeld, PathParts, RestHeld
<1> QED BY PathInvariance, <1>1, PTL

\* For that user, what superseded inspections and mounts leave in the renderer
\* is nothing: model and player belong to the file that is shown.
THEOREM SupersededLoadsLeaveNothing == Spec => []LoadsLeaveNothing
<1>1. PathInv => LoadsLeaveNothing
  BY DEF PathInv, LoadsLeaveNothing, PathParts, LoadsHeld, Quiet
<1> QED BY PathInvariance, <1>1, PTL
-----------------------------------------------------------------------------
(* The session's promise                                                   *)

\* Every open has a number of its own.
Numbered ==
  \A o, p \in session.opens : o.src.n = p.src.n => o = p

\* What a step may do to the session's sources: leave them, give the active
\* one up, begin an open with a new number, or end one.
Opened ==
  \E o : /\ session'.latest = session.latest + 1
         /\ session'.opens = session.opens \cup {o}
         /\ o.src.n = session.latest + 1
         /\ session'.active = session.active

Answering(o, accepted) ==
  /\ session'.latest = session.latest
  /\ session'.opens = session.opens \ {o}
  /\ session'.active = Activate(o.src, accepted)

SessionMoves ==
  \/ /\ session'.latest = session.latest /\ session'.opens = session.opens
     /\ session'.active \in {session.active, NoSource}
  \/ Opened
  \/ \E o \in session.opens, accepted \in BOOLEAN : Answering(o, accepted)

LEMMA OpenPathOpens ==
  ASSUME TypeOK, NEW file, NEW event, NEW caller,
         session' = OpenPath(file, event, caller)
  PROVE  Opened
<1> DEFINE o == [src |-> [n |-> session.latest + 1, file |-> file, by |-> event],
                 caller |-> caller]
<1>1. /\ session'.latest = session.latest + 1
      /\ session'.opens = session.opens \cup {o}
      /\ session'.active = session.active
  BY DEF OpenPath, TypeOK
<1>2. o.src.n = session.latest + 1
  OBVIOUS
<1> HIDE DEF o
<1> QED BY <1>1, <1>2 DEF Opened

LEMMA StepMovesSession ==
  ASSUME TypeOK, [Next]_vars
  PROVE  SessionMoves
<1> SUFFICES ASSUME session' # session PROVE SessionMoves
  BY DEF SessionMoves
<1>1. CASE EventBegun
  BY <1>1, OpenPathOpens DEF EventBegun, SessionMoves
<1>2. ASSUME NEW type \in {"open", "recent"}, OpenRequested(type)
      PROVE  SessionMoves
  BY <1>2, OpenPathOpens DEF OpenRequested, SessionMoves
<1>3. ASSUME NEW request \in session.pickers, NEW file \in Files,
             Picked(request, file)
      PROVE  SessionMoves
  BY <1>3, OpenPathOpens DEF Picked, SessionMoves
<1>4. CASE SessionAnswers
  <2>1. PICK o \in session.opens, accepted \in BOOLEAN :
          LET result == Outcomes(o.src, accepted)
          IN /\ session' = [session EXCEPT !.opens = @ \ {o},
                                           !.active = Activate(o.src, accepted)]
             /\ IF o.caller = 0
                THEN /\ host' = [Stage(host, result) EXCEPT
                                   !.at = "complete",
                                   !.results = @ \cup
                                     {[id |-> o.src.by, result |-> result]}]
                     /\ toView' = toView \o Signal("complete", o.src.by)
                ELSE /\ host' = Stage(host, result)
                     /\ toView' = Append(toView,
                                    Message("answered", o.caller, result))
             /\ UNCHANGED <<view, work, toMain, seen>>
    BY <1>4 DEF SessionAnswers
  <2>2. Answering(o, accepted)
    BY <2>1 DEF Answering, TypeOK
  <2> QED BY <2>2 DEF SessionMoves
<1>5. CASE DisposeSession
  BY <1>5 DEF DisposeSession, SessionMoves, TypeOK
<1>6. CASE PickerRequested
  BY <1>6 DEF PickerRequested, SessionMoves, TypeOK
<1>7. ASSUME NEW request \in session.pickers, NEW answer,
             PickerEnded(request, answer)
      PROVE  SessionMoves
  BY <1>7 DEF PickerEnded, SessionMoves, TypeOK
<1>8. CASE RendererReady \/ EventDenied \/ EventAuthorized \/ EventAccepted
           \/ EventRejected \/ ConsumeResult \/ RecentMissing \/ CommitOpen
           \/ \E file \in Files : OpenFileEvent(file)
  <2>1. ASSUME NEW file \in Files, OpenFileEvent(file) PROVE session' = session
    BY <2>1 DEF OpenFileEvent
  <2>2. RendererReady => session' = session
    BY DEF RendererReady
  <2>3. EventDenied => session' = session
    BY DEF EventDenied
  <2>4. EventAuthorized => session' = session
    BY DEF EventAuthorized
  <2>5. EventAccepted => session' = session
    BY DEF EventAccepted
  <2>6. EventRejected => session' = session
    BY DEF EventRejected
  <2>7. ConsumeResult => session' = session
    BY DEF ConsumeResult
  <2>8. RecentMissing => session' = session
    BY DEF RecentMissing
  <2>9. CommitOpen => session' = session
    BY DEF CommitOpen
  <2> QED BY <1>8, <2>1, <2>2, <2>3, <2>4, <2>5, <2>6, <2>7, <2>8, <2>9
<1>9. CASE ViewStep \/ Decide \/ LoadStep
           \/ \E call \in view.calls : OpenTimedOut(call)
  <2>1. ASSUME NEW call \in view.calls, OpenTimedOut(call)
        PROVE  session' = session
    BY <2>1 DEF OpenTimedOut
  <2>2. ASSUME NEW type, CommitAnswered(type) PROVE session' = session
    BY <2>2 DEF CommitAnswered
  <2>3. ASSUME NEW w, NEW ok, Inspected(w, ok) PROVE session' = session
    BY <2>3 DEF Inspected
  <2>4. ASSUME NEW w, NEW ok, Mounted(w, ok) PROVE session' = session
    BY <2>4 DEF Mounted
  <2>5. LoadStep => session' = session
    BY <2>3, <2>4 DEF LoadStep
  <2>6. Authorize => session' = session
    BY DEF Authorize
  <2>7. BeginHostFileOpen => session' = session
    BY DEF BeginHostFileOpen
  <2>8. CompleteHostFileOpen => session' = session
    BY DEF CompleteHostFileOpen
  <2>9. HostResultConsumed => session' = session
    BY DEF HostResultConsumed
  <2>10. Answered => session' = session
    BY DEF Answered
  <2>11. Cancelled => session' = session
    BY DEF Cancelled
  <2>12. Closed => session' = session
    BY DEF Closed
  <2>13. Decide => session' = session
    BY DEF Decide
  <2>14. ViewStep => session' = session
    BY <2>2, <2>6, <2>7, <2>8, <2>9, <2>10, <2>11, <2>12 DEF ViewStep
  <2> QED BY <1>9, <2>1, <2>5, <2>13, <2>14
<1>10. CASE \/ \E file \in Files, type \in {"open", "recent"} :
                 OpenByPath(file, type)
            \/ OpenFromHostDialog \/ CloseFile \/ CloseSvga
  BY <1>10 DEF OpenByPath, OpenFromHostDialog, CloseFile, CloseSvga
<1>11. CASE UserStep
  BY <1>3, <1>7, <1>8, <1>10, <1>11 DEF UserStep
<1>12. CASE UNCHANGED vars
  BY <1>12 DEF vars
<1> QED BY <1>1, <1>2, <1>4, <1>5, <1>6, <1>8, <1>9, <1>11, <1>12
       DEF Next, Step, EventStep, SessionStep

\* Numbers are used once.
LEMMA NumbersAreUsedOnce == Spec => []Numbered
<1>1. Init => Numbered
  BY DEF Init, Numbered
<1>2. IInv /\ Numbered /\ [Next]_vars => Numbered'
  <2> SUFFICES ASSUME IInv, Numbered, [Next]_vars PROVE Numbered'
    OBVIOUS
  <2>1. SessionMoves
    BY StepMovesSession DEF IInv
  <2>2. CASE session'.opens \subseteq session.opens
    BY <2>2 DEF Numbered
  <2>3. CASE Opened
    <3>1. PICK o : /\ session'.opens = session.opens \cup {o}
                   /\ o.src.n = session.latest + 1
      BY <2>3 DEF Opened
    <3>2. \A p \in session.opens : p.src.n \in 1 .. session.latest
      BY DEF IInv, Sources, OpenSays
    <3>3. session.latest \in Nat
      BY DEF IInv, TypeOK
    <3>4. \A p \in session.opens : p.src.n # o.src.n
      BY <3>1, <3>2, <3>3
    <3> QED BY <3>1, <3>4 DEF Numbered
  <2> QED BY <2>1, <2>2, <2>3 DEF SessionMoves, Answering
<1> QED BY Invariance, <1>1, <1>2, PTL DEF Spec

\* Whatever the user does and by whichever path a file is opened: the session
\* grants authority to the newest open only, once, and what was taken back
\* never returns.
THEOREM SessionKeepsItsPromise == Spec => AuthorityMovesForward
<1> DEFINE asking == \E o \in session.opens : o.src.n = session.latest
           held == <<session.latest, asking, session.active.n>>
<1>1. Init => Authority!Init
  BY DEF Init, Authority!Init, NoSource
<1>2. IInv /\ Numbered /\ [Next]_vars => [Authority!Next]_held
  <2> SUFFICES ASSUME IInv, Numbered, [Next]_vars PROVE [Authority!Next]_held
    OBVIOUS
  <2> USE DEF Authority!Next
  <2>1. SessionMoves
    BY StepMovesSession DEF IInv
  <2>2. CASE /\ session'.latest = session.latest /\ session'.opens = session.opens
             /\ session'.active \in {session.active, NoSource}
    BY <2>2 DEF NoSource, Authority!Revoke
  <2>3. CASE Opened
    <3>1. PICK o : /\ session'.latest = session.latest + 1
                   /\ session'.opens = session.opens \cup {o}
                   /\ o.src.n = session.latest + 1
                   /\ session'.active = session.active
      BY <2>3 DEF Opened
    <3>2. session.latest \in Nat
      BY DEF IInv, TypeOK
    <3>3. asking'
      BY <3>1
    <3> QED BY <3>1, <3>2, <3>3 DEF Authority!Request
  <2>4. ASSUME NEW o \in session.opens, NEW accepted \in BOOLEAN,
               Answering(o, accepted)
        PROVE  [Authority!Next]_held
    <3>1. CASE ~IsLatest(o.src)
      <4>1. session'.active = session.active /\ session'.latest = session.latest
        BY <2>4, <3>1 DEF Answering, Activate
      <4>2. asking' <=> asking
        BY <2>4, <3>1 DEF Answering, IsLatest
      <4> QED BY <4>1, <4>2
    <3>2. CASE IsLatest(o.src)
      <4>1. asking /\ ~asking'
        BY <2>4, <3>2 DEF Answering, IsLatest, Numbered
      <4>2. session'.active.n = IF accepted THEN session.latest ELSE 0
        BY <2>4, <3>2 DEF Answering, Activate, IsLatest, NoSource
      <4> QED BY <2>4, <4>1, <4>2
              DEF Answering, Authority!Grant, Authority!Revoke
    <3> QED BY <3>1, <3>2
  <2> QED BY <2>1, <2>2, <2>3, <2>4 DEF SessionMoves
<1> QED BY Invariance, NumbersAreUsedOnce, <1>1, <1>2, PTL
       DEF Spec, AuthorityMovesForward, Authority!Spec
=============================================================================
