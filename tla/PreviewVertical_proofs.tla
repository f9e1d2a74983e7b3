----------------------- MODULE PreviewVertical_proofs -----------------------
(***************************************************************************)
(* Proofs about PreviewVertical: for any number of opens and playback      *)
(* sessions, what plays is what was opened last, object URLs are accounted *)
(* for, and the vertical implements LatestRequestPreview.                  *)
(***************************************************************************)
EXTENDS PreviewVertical, TLAPS

\* Sessions are created one after the other, each for an open that prepared
\* its resources; a session that was not created yet is blank.
History ==
  /\ session \in 0 .. created
  /\ \A s \in Sessions :
       IF s <= created
       THEN /\ life[s] # "none"
            /\ owner[s] \in 1 .. gen /\ stage[owner[s]] = "done"
       ELSE life[s] = "none" /\ owner[s] = 0 /\ answers[s] = "none"
  /\ \A g \in Opens : stage[g] # "none" => g <= gen
  /\ \A g \in Opens : url[g] # "none" => stage[g] = "done"

\* A session waits for the runtime library, then its answer for the vertical;
\* a stray player is there only while VAP's answer is awaited.
Waiting ==
  /\ \A s \in Sessions :
       /\ s \in loads =>
            s <= created /\ life[s] \notin WithPlayer /\ answers[s] = "none"
       /\ answers[s] = "value" => life[s] # "none"
       /\ life[s] = "stray" => format = "vap" /\ answers[s] = "value"

\* What was prepared and the session the vertical refers to belong to the
\* newest open, which no longer waits for its file; every other session is
\* disposed, whether it waits for the library or was mounted too late.
Newest ==
  /\ prepared \in {0, gen}
  /\ prepared # 0 => stage[prepared] = "done" /\ ~IsDisposed
  /\ session # 0 =>
       /\ prepared = gen /\ owner[session] = gen
       /\ life[session] \notin {"disposed", "stray"}
  /\ \A s \in Sessions : life[s] \in {"empty", "mounted"} => s = session
  /\ status \in Usable => session # 0

\* A VAP session is the only one of its open.
OneForEach ==
  format = "vap" =>
    \A s, t \in Sessions : owner[s] = owner[t] /\ owner[s] # 0 => s = t

IInv ==
  TypeOK /\ History /\ Waiting /\ Newest /\ OneForEach /\ UrlsAccounted

LEMMA InitIInv == Init => IInv
<1> SUFFICES ASSUME Init PROVE IInv
  OBVIOUS
<1>1. TypeOK
  <2>1. 0 \in 0 .. MaxGen /\ 0 \in 0 .. MaxSess
    BY BoundsAssumption
  <2> QED BY <2>1 DEF Init, TypeOK, Status, Lives
<1>2. History /\ Waiting
  BY DEF Init, History, Waiting, Opens, Sessions
<1>3. Newest /\ OneForEach
  BY DEF Init, Newest, OneForEach, Usable, Sessions
<1>4. UrlsAccounted
  BY DEF Init, UrlsAccounted, WithPlayer
<1> QED BY <1>1, <1>2, <1>3, <1>4 DEF IInv

-----------------------------------------------------------------------------
(* Disposing sessions.                                                     *)

LEMMA ReleasingType ==
  ASSUME IInv, NEW S \in SUBSET Sessions
  PROVE  /\ Releasing(S) \in [Opens -> {"none", "live", "revoked"}]
         /\ \A g \in Opens : Releasing(S)[g] # "none" <=> url[g] # "none"
BY DEF IInv, TypeOK, Releasing

\* A player that is destroyed releases its URL, and only its own.
LEMMA ReleaseAccounts ==
  ASSUME IInv, NEW S \in SUBSET Sessions, UNCHANGED <<format, owner, loads>>,
         life' \in [Sessions -> Lives],
         \A s \in Sessions : life'[s] \in WithPlayer <=>
                               life[s] \in WithPlayer /\ s \notin S,
         url' = Releasing(Mounted(S))
  PROVE  UrlsAccounted'
<1> SUFFICES ASSUME NEW g \in Opens
             PROVE  url'[g] = "live" <=>
                      /\ format = "vap"
                      /\ \E s \in Sessions :
                           /\ owner[s] = g
                           /\ s \in loads \/ life'[s] \in WithPlayer
  BY DEF UrlsAccounted
<1>1. url'[g] = "live" <=>
        url[g] = "live" /\ ~ \E s \in S : life[s] \in WithPlayer /\ owner[s] = g
  BY DEF Releasing, Mounted, IInv, TypeOK
<1>2. url[g] = "live" <=>
        /\ format = "vap"
        /\ \E s \in Sessions :
             owner[s] = g /\ (s \in loads \/ life[s] \in WithPlayer)
  BY DEF IInv, UrlsAccounted
<1>3. CASE \E s \in S : life[s] \in WithPlayer /\ owner[s] = g
  <2>1. PICK s \in S : life[s] \in WithPlayer /\ owner[s] = g
    BY <1>3
  <2>2. s \notin loads /\ g # 0
    BY <2>1 DEF IInv, Waiting, Opens
  <2>3. format = "vap" => \A t \in Sessions : owner[t] = g => t = s
    BY <2>1, <2>2 DEF IInv, OneForEach
  <2> QED BY <1>1, <2>1, <2>2, <2>3
<1>4. CASE ~ \E s \in S : life[s] \in WithPlayer /\ owner[s] = g
  BY <1>1, <1>2, <1>4
<1> QED BY <1>3, <1>4

LEMMA DisposeSessionsKeeps ==
  ASSUME IInv, NEW S \in SUBSET Sessions, DisposeSessions(S),
         UNCHANGED <<format, owner, loads>>,
         \A s \in S : s <= created
  PROVE  /\ UrlsAccounted'
         /\ life' \in [Sessions -> Lives]
         /\ url' \in [Opens -> {"none", "live", "revoked"}]
         /\ \A g \in Opens : url'[g] # "none" <=> url[g] # "none"
         /\ \A s \in Sessions :
              /\ life'[s] = "none" <=> life[s] = "none"
              /\ s \in S => life'[s] = "disposed"
              /\ s \notin S => life'[s] = life[s]
<1>1. life' = [s \in Sessions |-> IF s \in S THEN "disposed" ELSE life[s]]
  BY DEF DisposeSessions
<1>2. life' \in [Sessions -> Lives]
  BY <1>1 DEF IInv, TypeOK, Lives
<1>3. \A s \in Sessions :
        /\ s \in S => life'[s] = "disposed"
        /\ s \notin S => life'[s] = life[s]
  BY <1>1
<1>4. \A s \in Sessions : life'[s] = "none" <=> life[s] = "none"
  BY <1>3 DEF IInv, History
<1>5. url' = Releasing(Mounted(S)) /\ Mounted(S) \in SUBSET Sessions
  BY DEF DisposeSessions, Mounted
<1>6. UrlsAccounted'
  BY <1>2, <1>3, <1>5, ReleaseAccounts DEF WithPlayer
<1> QED BY <1>2, <1>3, <1>4, <1>5, <1>6, ReleasingType

LEMMA CurrentType ==
  ASSUME IInv
  PROVE  Current \in SUBSET Sessions /\ \A s \in Current : s <= created
BY DEF IInv, TypeOK, Current, History, Sessions

\* The vertical lets go of its session.
LEMMA DropsCurrent ==
  ASSUME IInv, DisposePlaybackSession, UNCHANGED <<format, owner, loads>>
  PROVE  /\ UrlsAccounted' /\ session' = 0
         /\ life' \in [Sessions -> Lives]
         /\ url' \in [Opens -> {"none", "live", "revoked"}]
         /\ \A g \in Opens : url'[g] # "none" <=> url[g] # "none"
         /\ \A s \in Sessions :
              /\ life'[s] = "none" <=> life[s] = "none"
              /\ life'[s] = "stray" => life[s] = "stray"
              /\ life'[s] \notin {"empty", "mounted"}
<1>1. DisposeSessions(Current) /\ session' = 0
  BY DEF DisposePlaybackSession
<1>2. \A s \in Sessions : life[s] \in {"empty", "mounted"} => s \in Current
  BY DEF IInv, Newest, Current, Sessions
<1> QED BY <1>1, <1>2, CurrentType, DisposeSessionsKeeps

LEMMA FailPlaybackKeeps ==
  ASSUME IInv, FailPlayback, UNCHANGED <<loads, mounting>>,
         \/ answers' = answers
         \/ answers' = [answers EXCEPT ![session] = "none"] /\ session # 0,
         plays' \subseteq plays
  PROVE  IInv'
<1> USE DEF FailPlayback, request, SetStatus
<1>1. /\ UrlsAccounted' /\ session' = 0
      /\ life' \in [Sessions -> Lives]
      /\ url' \in [Opens -> {"none", "live", "revoked"}]
      /\ \A g \in Opens : url'[g] # "none" <=> url[g] # "none"
      /\ \A s \in Sessions :
           /\ life'[s] \notin {"empty", "mounted"}
           /\ life'[s] = "none" <=> life[s] = "none"
           /\ life'[s] = "stray" => life[s] = "stray"
  BY DropsCurrent
<1>2. /\ answers' \in [Sessions -> {"none", "value", "failed", "superseded"}]
      /\ \A s \in Sessions :
           answers'[s] \in {answers[s], "none"} /\
           (life[s] = "stray" => answers'[s] = answers[s])
  BY DEF IInv, TypeOK, Newest
<1>3. TypeOK'
  BY <1>1, <1>2, BoundsAssumption DEF IInv, TypeOK, Status, Lives
<1>4. History' /\ Waiting'
  BY <1>1, <1>2 DEF IInv, History, Waiting, TypeOK, WithPlayer, Newest
<1>5. Newest' /\ OneForEach'
  BY <1>1 DEF IInv, Newest, OneForEach, Usable, IsDisposed
<1> QED BY <1>1, <1>3, <1>4, <1>5 DEF IInv

-----------------------------------------------------------------------------
(* Opening, disposing and recovering.                                      *)

LEMMA BeginKeeps ==
  ASSUME IInv, BeginOpenRequest,
         \/ stage' = stage
         \/ \E to \in {"done", "reading"} :
              stage' = [stage EXCEPT ![gen + 1] = to],
         status' \in {"failed", "loading", "disposed"}, author' = gen + 1,
         reopens' \in BOOLEAN
  PROVE  IInv'
<1> USE DEF BeginOpenRequest
<1>1. /\ UrlsAccounted' /\ session' = 0
      /\ life' \in [Sessions -> Lives]
      /\ url' \in [Opens -> {"none", "live", "revoked"}]
      /\ \A g \in Opens : url'[g] # "none" <=> url[g] # "none"
      /\ \A s \in Sessions :
           /\ life'[s] \notin {"empty", "mounted"}
           /\ life'[s] = "none" <=> life[s] = "none"
           /\ life'[s] = "stray" => life[s] = "stray"
  BY DropsCurrent
<1>2. gen' \in Opens /\ gen' \in 0 .. MaxGen /\ gen < gen'
  BY BoundsAssumption DEF IInv, TypeOK, Opens
<1>3. stage[gen'] = "none" /\ stage[gen'] # "done"
  BY <1>2 DEF IInv, TypeOK, History
<1>4. /\ stage' \in [Opens -> {"none", "reading", "resources", "done",
                              "rejected"}]
      /\ \A g \in Opens : g # gen' => stage'[g] = stage[g]
  BY <1>2 DEF IInv, TypeOK
<1>5. TypeOK'
  BY <1>1, <1>2, <1>4, BoundsAssumption DEF IInv, TypeOK, Status
<1>6. History'
  <2>1. \A s \in Sessions : s <= created =>
          owner[s] \in 1 .. gen' /\ owner[s] # gen' /\ owner[s] \in Opens
    BY <1>2 DEF IInv, TypeOK, History, Opens
  <2>2. \A s \in Sessions : s <= created => stage'[owner[s]] = "done"
    BY <1>4, <2>1 DEF IInv, History
  <2>3. \A g \in Opens : stage'[g] # "none" => g <= gen'
    BY <1>2, <1>4 DEF IInv, TypeOK, History, Opens
  <2>4. \A g \in Opens : url'[g] # "none" => stage'[g] = "done"
    BY <1>1, <1>3, <1>4 DEF IInv, History
  <2> QED BY <1>1, <2>1, <2>2, <2>3, <2>4 DEF IInv, TypeOK, History
<1>7. Waiting'
  BY <1>1 DEF IInv, Waiting, WithPlayer
<1>8. Newest' /\ OneForEach'
  BY <1>1 DEF IInv, Newest, OneForEach, Usable
<1> QED BY <1>1, <1>5, <1>6, <1>7, <1>8 DEF IInv

\* Lottie loads what it has prepared into a session of its own.
LEMMA LottieRecoveryKeeps ==
  ASSUME IInv, ~IsDisposed, format = "lottie", prepared # 0, StartLoad(gen),
         life' = [s \in Sessions |->
             IF s = created + 1 THEN "empty"
             ELSE IF s \in Current THEN "disposed" ELSE life[s]],
         KeepStatus,
         UNCHANGED <<format, gen, request, url, mounting, answers, plays>>
  PROVE  IInv'
<1> USE DEF StartLoad, KeepStatus, request
<1>1. /\ created + 1 \in Sessions /\ created' = created + 1
      /\ prepared = gen /\ gen \in Opens /\ stage[gen] = "done"
  BY BoundsAssumption DEF IInv, TypeOK, Newest, Sessions, Opens
<1>2. \A s \in Sessions :
        /\ owner'[s] = IF s = created + 1 THEN gen ELSE owner[s]
        /\ life'[s] \in Lives
        /\ life'[s] # "mounted"
        /\ life'[s] = "empty" => s = created + 1
        /\ life'[s] = "none" <=> life[s] = "none" /\ s # created + 1
  BY DEF IInv, TypeOK, Newest, Current, History, Sessions, Lives, WithPlayer
<1>3. life'[created + 1] = "empty"
  BY <1>1
<1>4. TypeOK'
  <2>1. life' \in [Sessions -> Lives]
    BY <1>2
  <2>2. /\ session' \in 0 .. MaxSess /\ created' \in 0 .. MaxSess
        /\ owner' \in [Sessions -> 0 .. MaxGen]
    BY <1>1 DEF IInv, TypeOK, Opens, Sessions
  <2>3. loads' \subseteq Sessions /\ mounting' \subseteq loads'
    BY <1>1 DEF IInv, TypeOK
  <2> QED BY <2>1, <2>2, <2>3 DEF IInv, TypeOK
<1>5. History'
  <2>1. \A s \in Sessions : s <= created' <=> s <= created \/ s = created + 1
    BY <1>1 DEF IInv, TypeOK, Sessions
  <2> QED
    BY <1>1, <1>2, <2>1 DEF IInv, TypeOK, History, Opens
<1>6. Waiting'
  BY <1>1, <1>2, <1>3
  DEF IInv, TypeOK, History, Waiting, Sessions, Lives, WithPlayer
<1>7. Newest'
  BY <1>1, <1>2, <1>3 DEF IInv, TypeOK, Newest, IsDisposed, Sessions
<1>8. OneForEach' /\ UrlsAccounted'
  BY DEF IInv, OneForEach, UrlsAccounted
<1> QED BY <1>4, <1>5, <1>6, <1>7, <1>8 DEF IInv

-----------------------------------------------------------------------------
(* The steps of an open.                                                   *)

LEMMA OpenStepKeeps ==
  ASSUME IInv, NEW g \in Opens,
         Superseded(g) \/ ReadFailed(g) \/ Inspected(g) \/ ResourcesFailed(g)
  PROVE  IInv'
<1> USE DEF Superseded, ReadFailed, Inspected, ResourcesFailed, At, SetStatus,
      KeepStatus, players
<1>1. /\ stage[g] \in {"reading", "resources"}
      /\ \E to \in {"done", "resources", "rejected"} :
           stage' = [stage EXCEPT ![g] = to]
  OBVIOUS
<1>2. /\ stage' \in [Opens -> {"none", "reading", "resources", "done",
                              "rejected"}]
      /\ \A h \in Opens : h # g => stage'[h] = stage[h]
  BY <1>1 DEF IInv, TypeOK
<1>3. url[g] = "none" /\ g <= gen
  BY <1>1 DEF IInv, TypeOK, History
<1>4. /\ url' \in [Opens -> {"none", "live", "revoked"}]
      /\ \A h \in Opens : h # g => url'[h] = url[h]
      /\ url'[g] \in {"none", "revoked"}
      /\ url'[g] = "revoked" => stage'[g] = "done"
  BY <1>1, <1>2, <1>3 DEF IInv, TypeOK
<1>5. gen # g \/ (session = 0 /\ prepared = 0)
  <2>1. g # 0
    BY BoundsAssumption DEF Opens
  <2> QED BY <1>1, <2>1 DEF IInv, Newest
<1>6. \A s \in Sessions : owner[s] # g
  BY <1>1 DEF IInv, TypeOK, History, Opens
<1>7. /\ UNCHANGED <<format, gen, prepared, session, owner, life, created,
                     loads, answers, plays, reopens>>
      /\ UNCHANGED <<status, author>> \/
           (~IsDisposed /\ gen = g /\ author' = g
              /\ status' \in {"failed", "playbackBlocked", "inspectionReady"})
  BY DEF IsActiveRequest
<1>8. TypeOK'
  BY <1>2, <1>4, <1>7, BoundsAssumption DEF IInv, TypeOK, Status, Opens
<1>9. History'
  BY <1>1, <1>2, <1>3, <1>4, <1>6, <1>7 DEF IInv, TypeOK, History, Opens
<1>10. Newest'
  BY <1>1, <1>2, <1>5, <1>7 DEF IInv, TypeOK, Newest, Usable, IsDisposed, Opens
<1>11. UrlsAccounted'
  BY <1>3, <1>4, <1>6, <1>7 DEF IInv, UrlsAccounted
<1>12. Waiting' /\ OneForEach'
  BY <1>7 DEF IInv, Waiting, OneForEach
<1> QED BY <1>8, <1>9, <1>10, <1>11, <1>12 DEF IInv

LEMMA ResourcesReadyKeeps ==
  ASSUME IInv, NEW g \in Opens, ResourcesReady(g)
  PROVE  IInv'
<1> USE DEF ResourcesReady, IsActiveRequest, At, StartLoad, KeepStatus
<1>1. /\ created + 1 \in Sessions /\ created' = created + 1 /\ gen = g
      /\ stage[g] = "resources" /\ url[g] = "none"
  BY BoundsAssumption DEF IInv, TypeOK, History, Sessions
<1>2. session = 0
  BY <1>1 DEF IInv, Newest, Opens
<1>3. \A s \in Sessions : owner[s] # g
  BY <1>1 DEF IInv, TypeOK, History, Opens
<1>4. \A s \in Sessions :
        /\ owner'[s] = IF s = created + 1 THEN g ELSE owner[s]
        /\ life'[s] = IF s = created + 1 THEN "empty" ELSE life[s]
        /\ life[s] \notin {"empty", "mounted"}
  BY <1>2 DEF IInv, TypeOK, Newest, Sessions
<1>5. \A h \in Opens :
        /\ h # g => stage'[h] = stage[h] /\ url'[h] = url[h]
        /\ stage'[g] = "done"
        /\ url'[g] = IF format = "vap" THEN "live" ELSE "none"
  BY <1>1 DEF IInv, TypeOK
<1>6. TypeOK'
  BY <1>1 DEF IInv, TypeOK, Opens, Sessions, Lives, WithPlayer
<1>7. History'
  <2>1. \A s \in Sessions : s <= created' <=> s <= created \/ s = created + 1
    BY <1>1 DEF IInv, TypeOK, Sessions
  <2> QED
    BY <1>1, <1>4, <1>5, <2>1 DEF IInv, TypeOK, History, Opens
<1>8. Waiting'
  BY <1>1, <1>4 DEF IInv, TypeOK, History, Waiting, Sessions, WithPlayer
<1>9. Newest'
  BY <1>1, <1>4, <1>5 DEF IInv, TypeOK, Newest, IsDisposed, Sessions, Opens
<1>10. OneForEach'
  BY <1>3, <1>4 DEF IInv, OneForEach
<1>11. UrlsAccounted'
  <2> SUFFICES ASSUME NEW h \in Opens
               PROVE  url'[h] = "live" <=>
                        /\ format = "vap"
                        /\ \E s \in Sessions : owner'[s] = h /\
                             (s \in loads' \/ life'[s] \in WithPlayer)
    BY DEF UrlsAccounted
  <2>1. CASE h = g
    BY <1>1, <1>4, <1>5, <2>1
  <2>2. CASE h # g
    <3>1. \A s \in Sessions : owner'[s] = h => owner[s] = h
      BY <1>4, <2>2
    <3>2. \A s \in Sessions : owner[s] = h =>
            owner'[s] = h /\ (s \in loads' <=> s \in loads)
      BY <1>1, <1>4, <2>2 DEF IInv, TypeOK, History, Opens, Sessions
    <3> QED
      BY <1>4, <1>5, <2>2, <3>1, <3>2 DEF IInv, UrlsAccounted, WithPlayer
  <2> QED BY <2>1, <2>2
<1> QED BY <1>6, <1>7, <1>8, <1>9, <1>10, <1>11 DEF IInv

-----------------------------------------------------------------------------
(* The steps of a load.                                                    *)

LEMMA AnswerKeeps ==
  ASSUME IInv, NEW s \in Sessions, NEW a \in {"value", "failed", "superseded"},
         Answer(s, a), UNCHANGED format,
         life' \in [Sessions -> Lives],
         \A t \in Sessions : t # s => life'[t] = life[t],
         \/ life'[s] = life[s]
         \/ life'[s] = "mounted" /\ s = session
         \/ life'[s] = "stray" /\ s # session /\ format = "vap" /\ a = "value",
         url' \in [Opens -> {"none", "live", "revoked"}],
         \A g \in Opens : url'[g] # "none" <=> url[g] # "none"
  PROVE  TypeOK' /\ History' /\ Waiting' /\ Newest' /\ OneForEach'
<1> USE DEF Answer, KeepStatus, request, WithPlayer
<1>1. /\ loads' = loads \ {s} /\ s \in loads /\ mounting' = mounting \ {s}
      /\ \A t \in Sessions : answers'[t] = IF t = s THEN a ELSE answers[t]
  BY DEF IInv, TypeOK
<1>2. s <= created /\ life[s] # "none" /\ life[s] \notin WithPlayer
  BY <1>1 DEF IInv, Waiting, History
<1>3. TypeOK'
  BY <1>1 DEF IInv, TypeOK
<1>4. History'
  BY <1>1, <1>2 DEF IInv, TypeOK, History
<1>5. Waiting'
  BY <1>1, <1>2 DEF IInv, Waiting
<1>6. Newest'
  BY <1>2 DEF IInv, TypeOK, Newest, IsDisposed, Sessions
<1>7. OneForEach'
  BY DEF IInv, OneForEach
<1> QED BY <1>3, <1>4, <1>5, <1>6, <1>7

LEMMA LastLookKeeps ==
  ASSUME IInv, NEW s \in Sessions, LastLook(s)
  PROVE  IInv'
<1> USE DEF LastLook, KeepStatus, request
<1>1. TypeOK'
  BY DEF IInv, TypeOK
<1>2. History' /\ Waiting' /\ OneForEach' /\ UrlsAccounted'
  BY DEF IInv, History, Waiting, OneForEach, UrlsAccounted
<1>3. Newest'
  BY DEF IInv, Newest, IsDisposed, Usable
<1> QED BY <1>1, <1>2, <1>3 DEF IInv

\* What is mounted is the session the vertical refers to, or a stray of VAP.
LEMMA MountKeeps ==
  ASSUME IInv, NEW s \in Sessions, Mount(s)
  PROVE  IInv'
<1> USE DEF Mount
<1>1. /\ s \in loads /\ s <= created /\ life[s] \in {"empty", "disposed"}
      /\ \A t \in Sessions : t # s => life'[t] = life[t]
      /\ life'[s] = IF life[s] = "disposed" THEN "stray" ELSE "mounted"
      /\ life' \in [Sessions -> Lives]
  <2>1. s \in loads /\ s <= created /\ life[s] \in Lives
    BY DEF Answer, IInv, TypeOK, Waiting
  <2>2. life[s] \in {"empty", "disposed"}
    BY <2>1 DEF IInv, History, Waiting, Lives
  <2>3. life' = [life EXCEPT ![s] =
                   IF life[s] = "disposed" THEN "stray" ELSE "mounted"]
    OBVIOUS
  <2> QED BY <2>1, <2>2, <2>3 DEF IInv, TypeOK, Lives, WithPlayer
<1>2. life[s] = "empty" => s = session
  BY DEF IInv, Newest
<1>3. life[s] = "disposed" => s # session /\ format = "vap"
  BY DEF IInv, Newest, MayMount, Sessions
<1>4. TypeOK' /\ History' /\ Waiting' /\ Newest' /\ OneForEach'
  <2>1. UNCHANGED <<format, url>> /\ Answer(s, "value")
    BY DEF Answer
  <2>2. \/ life'[s] = "mounted" /\ s = session
        \/ life'[s] = "stray" /\ s # session /\ format = "vap"
    BY <1>1, <1>2, <1>3
  <2> QED BY <1>1, <2>1, <2>2, AnswerKeeps DEF IInv, TypeOK
<1>5. UrlsAccounted'
  <2>1. /\ UNCHANGED <<format, url, owner>> /\ loads' = loads \ {s}
    BY DEF Answer
  <2>2. \A t \in Sessions :
          (t \in loads' \/ life'[t] \in WithPlayer) <=>
          (t \in loads \/ life[t] \in WithPlayer)
    BY <1>1, <2>1 DEF WithPlayer
  <2> QED BY <2>1, <2>2 DEF IInv, UrlsAccounted
<1> QED BY <1>4, <1>5 DEF IInv

LEMMA NotMountedKeeps ==
  ASSUME IInv, NEW s \in Sessions, NotMounted(s)
  PROVE  IInv'
<1>1. PICK a \in {"failed", "superseded"} : Answer(s, a)
  BY DEF NotMounted
<1>2. /\ url' = Releasing({s}) /\ life' = life /\ {s} \in SUBSET Sessions
      /\ UNCHANGED <<format, owner>> /\ loads' = loads \ {s} /\ s \in loads
  BY <1>1 DEF NotMounted, Answer
<1>3. TypeOK' /\ History' /\ Waiting' /\ Newest' /\ OneForEach'
  <2>1. life[s] \notin WithPlayer
    BY <1>2 DEF IInv, Waiting
  <2> QED BY <1>1, <1>2, <2>1, AnswerKeeps, ReleasingType DEF IInv, TypeOK
<1>4. UrlsAccounted'
  <2> SUFFICES ASSUME NEW g \in Opens
               PROVE  url'[g] = "live" <=>
                        /\ format = "vap"
                        /\ \E t \in Sessions :
                             /\ owner[t] = g
                             /\ t \in loads' \/ life[t] \in WithPlayer
    BY <1>2 DEF UrlsAccounted
  <2>1. url'[g] = "live" <=> url[g] = "live" /\ owner[s] # g
    BY <1>2 DEF Releasing, IInv, TypeOK
  <2>2. url[g] = "live" <=>
          /\ format = "vap"
          /\ \E t \in Sessions :
               owner[t] = g /\ (t \in loads \/ life[t] \in WithPlayer)
    BY DEF IInv, UrlsAccounted
  <2>3. g # 0 /\ life[s] \notin WithPlayer
    BY <1>2, BoundsAssumption DEF IInv, Waiting, Opens
  <2>4. format = "vap" /\ owner[s] = g =>
          \A t \in Sessions : owner[t] = g => t = s
    BY <2>3 DEF IInv, OneForEach
  <2> QED BY <1>2, <2>1, <2>2, <2>3, <2>4
<1> QED BY <1>3, <1>4 DEF IInv

LEMMA LoadAnsweredKeeps ==
  ASSUME IInv, NEW s \in Sessions, LoadAnswered(s)
  PROVE  IInv'
<1> USE DEF LoadAnswered, Answered
<1>1. /\ answers[s] # "none" /\ answers' = [answers EXCEPT ![s] = "none"]
      /\ UNCHANGED <<loads, mounting, plays>>
  OBVIOUS
<1>2. /\ answers' \in [Sessions -> {"none", "value", "failed", "superseded"}]
      /\ \A t \in Sessions : answers'[t] \in {answers[t], "none"}
  BY <1>1 DEF IInv, TypeOK
<1>3. s <= created /\ owner[s] # 0
  BY <1>1 DEF IInv, TypeOK, History, Sessions
<1>4. CASE /\ ~IsActivePlaybackSession(s, owner[s]) \/ prepared # owner[s]
           /\ DisposeSessions({s})
           /\ KeepStatus
           /\ UNCHANGED <<format, gen, request, session, owner, created>>
  <2>1. s # session
    <3>1. CASE session = 0
      BY <3>1 DEF Sessions
    <3>2. CASE session # 0
      BY <1>3, <1>4, <3>2
      DEF IInv, Newest, IsActivePlaybackSession, IsActiveRequest
    <3> QED BY <3>1, <3>2
  <2>2. /\ UrlsAccounted'
        /\ life' \in [Sessions -> Lives]
        /\ url' \in [Opens -> {"none", "live", "revoked"}]
        /\ \A g \in Opens : url'[g] # "none" <=> url[g] # "none"
        /\ \A t \in Sessions :
             /\ life'[t] = "none" <=> life[t] = "none"
             /\ life'[t] = IF t = s THEN "disposed" ELSE life[t]
    BY <1>1, <1>3, <1>4, DisposeSessionsKeeps
  <2> USE DEF KeepStatus, request
  <2>3. TypeOK'
    BY <1>1, <1>2, <1>4, <2>2 DEF IInv, TypeOK
  <2>4. History' /\ Waiting'
    <3>1. History' BY <1>2, <1>4, <2>2 DEF IInv, History
    <3>2. Waiting' BY <1>1, <1>2, <1>4, <2>2 DEF IInv, Waiting
    <3> QED BY <3>1, <3>2
  <2>5. Newest' /\ OneForEach'
    <3>1. session \in Sessions \/ session = 0
      BY DEF IInv, TypeOK, Sessions
    <3> QED
      BY <1>4, <2>1, <2>2, <3>1 DEF IInv, Newest, OneForEach, IsDisposed
  <2> QED BY <2>2, <2>3, <2>4, <2>5 DEF IInv
<1>5. CASE /\ IsActivePlaybackSession(s, owner[s])
           /\ answers[s] = "failed" /\ FailPlayback
  <2>1. s = session /\ session # 0
    BY <1>5 DEF IsActivePlaybackSession, Sessions
  <2> QED BY <1>1, <1>5, <2>1, FailPlaybackKeeps
<1>6. CASE /\ answers[s] = "value" /\ IsActivePlaybackSession(s, owner[s])
           /\ SetStatus("ready", owner[s])
           /\ UNCHANGED <<format, gen, request, url, session, owner, life,
                          created>>
  <2> USE DEF SetStatus, request
  <2>1. session = s /\ owner[s] \in 0 .. MaxGen /\ session # 0
    BY <1>3, <1>6 DEF IsActivePlaybackSession, IInv, TypeOK, Sessions
  <2>2. TypeOK'
    BY <1>1, <1>2, <1>6, <2>1 DEF IInv, TypeOK, Status
  <2>3. History'
    BY <1>2, <1>6 DEF IInv, History
  <2>4. Waiting'
    BY <1>1, <1>2, <1>6, <2>1 DEF IInv, Waiting, Newest
  <2>5. Newest' /\ OneForEach' /\ UrlsAccounted'
    BY <1>1, <1>6, <2>1
    DEF IInv, Newest, IsDisposed, OneForEach, UrlsAccounted
  <2> QED BY <2>2, <2>3, <2>4, <2>5 DEF IInv
<1> QED BY <1>4, <1>5, <1>6

LEMMA RuntimeErrorKeeps ==
  ASSUME IInv, NEW s \in Sessions, RuntimeError(s)
  PROVE  IInv'
<1> USE DEF RuntimeError, KeepStatus, request
<1>1. /\ life' \in [Sessions -> Lives]
      /\ \A t \in Sessions : life'[t] = IF t = s THEN "empty" ELSE life[t]
      /\ life[s] = "mounted" /\ {s} \in SUBSET Sessions
      /\ Mounted({s}) = {s}
  BY DEF IInv, TypeOK, Mounted, Lives, WithPlayer
<1>2. UrlsAccounted'
  BY <1>1, ReleaseAccounts DEF WithPlayer
<1>3. TypeOK' /\ History'
  BY <1>1, ReleasingType DEF IInv, TypeOK, History
<1>4. Waiting' /\ OneForEach'
  BY <1>1 DEF IInv, Waiting, OneForEach, WithPlayer, TypeOK
<1>5. Newest'
  BY <1>1 DEF IInv, TypeOK, Newest, IsDisposed, Sessions
<1> QED BY <1>2, <1>3, <1>4, <1>5 DEF IInv

-----------------------------------------------------------------------------
(* Controls that keep the session, and the step as a whole.                *)

LEMMA StatusKeeps ==
  ASSUME IInv, UNCHANGED <<format, gen, request, url, players>>,
         plays' \subseteq [sess : Sessions, gen : Opens, ok : BOOLEAN],
         \/ UNCHANGED <<status, author>>
         \/ ~IsDisposed /\ author' = gen /\ status' = "playbackFailed"
         \/ /\ ~IsDisposed /\ author' = gen /\ session # 0
            /\ status' \in {"playing", "paused"}
  PROVE  IInv'
<1> USE DEF request, players
<1>1. TypeOK'
  BY DEF IInv, TypeOK, Status
<1>2. History' /\ Waiting' /\ OneForEach' /\ UrlsAccounted'
  BY DEF IInv, History, Waiting, OneForEach, UrlsAccounted
<1>3. Newest'
  BY DEF IInv, Newest, IsDisposed, Usable
<1> QED BY <1>1, <1>2, <1>3 DEF IInv

LEMMA ControlsKeep ==
  ASSUME IInv,
         Play \/ (\E p \in plays : PlaySettled(p)) \/ Control
  PROVE  IInv'
<1> USE DEF SetStatus, KeepStatus, HasSession, Unavailable
<1>1. plays \subseteq [sess : Sessions, gen : Opens, ok : BOOLEAN]
  BY DEF IInv, TypeOK
<1>2. CASE Play
  <2>1. CASE ~HasSession /\ Unavailable
    BY <1>1, <1>2, <2>1, StatusKeeps DEF Play
  <2>2. CASE HasSession
    <3>1. session \in Sessions /\ gen \in Opens
      BY <2>2 DEF HasSession, IInv, TypeOK, History, Newest, Sessions, Opens
    <3>2. plays' \subseteq [sess : Sessions, gen : Opens, ok : BOOLEAN]
      BY <1>1, <1>2, <2>2, <3>1 DEF Play
    <3> QED BY <1>2, <2>2, <3>2, StatusKeeps DEF Play
  <2> QED BY <1>2, <2>1, <2>2 DEF Play
<1>3. CASE Control
  <2>1. CASE FailPlayback
    BY <1>3, <2>1, FailPlaybackKeeps DEF Control, FailPlayback, players
  <2> QED BY <1>1, <1>3, <2>1, StatusKeeps DEF Control
<1>4. ASSUME NEW p \in plays, PlaySettled(p) PROVE IInv'
  <2>1. plays' \subseteq plays
    BY <1>4 DEF PlaySettled
  <2>2. CASE FailPlayback
    BY <1>4, <2>1, <2>2, FailPlaybackKeeps DEF PlaySettled
  <2>3. CASE ~FailPlayback
    <3>1. UNCHANGED <<format, gen, request, url, players>>
      BY <1>4, <2>3 DEF PlaySettled, players
    <3>2. \/ UNCHANGED <<status, author>>
          \/ /\ ~IsDisposed /\ author' = gen /\ session # 0
             /\ status' = "playing"
      BY <1>1, <1>4, <2>3
      DEF PlaySettled, IsActivePlaybackSession, IsActiveRequest, Sessions
    <3> QED BY <1>1, <2>1, <3>1, <3>2, StatusKeeps
  <2> QED BY <2>2, <2>3
<1> QED BY <1>2, <1>3, <1>4

LEMMA NextKeeps == IInv /\ [Next]_vars => IInv'
<1> SUFFICES ASSUME IInv, [Next]_vars PROVE IInv'
  OBVIOUS
<1>1. CASE OpenRefused
  BY <1>1, BeginKeeps DEF OpenRefused, SetStatus, IInv, TypeOK
<1>2. CASE OpenLocalCandidate
  BY <1>2, BeginKeeps DEF OpenLocalCandidate, SetStatus
<1>3. CASE Dispose
  BY <1>3, BeginKeeps DEF Dispose, SetStatus, IInv, TypeOK
<1>4. ASSUME NEW g \in Opens, OpenStep(g) PROVE IInv'
  BY <1>4, OpenStepKeeps, ResourcesReadyKeeps DEF OpenStep
<1>5. ASSUME NEW s \in Sessions, LoadStep(s) \/ RuntimeError(s) PROVE IInv'
  BY <1>5, LastLookKeeps, MountKeeps, NotMountedKeeps, LoadAnsweredKeeps,
    RuntimeErrorKeeps
  DEF LoadStep
<1>6. CASE Play \/ (\E p \in plays : PlaySettled(p)) \/ Control
  BY <1>6, ControlsKeep
<1>7. CASE RecoverPlayback
  <2>1. CASE Unavailable
    BY <1>7, <2>1, StatusKeeps
    DEF RecoverPlayback, Unavailable, SetStatus, IInv, TypeOK
  <2>2. CASE OpenLocalCandidate
    BY <1>2, <2>2
  <2> QED
    BY <1>7, <2>1, <2>2, LottieRecoveryKeeps DEF RecoverPlayback
<1>8. CASE UNCHANGED vars
  BY <1>8, StatusKeeps DEF vars, IInv, TypeOK
<1> QED BY <1>1, <1>2, <1>3, <1>4, <1>5, <1>6, <1>7, <1>8 DEF Next

-----------------------------------------------------------------------------
(* Theorems.                                                               *)

\* The strengthened invariant holds of any number of opens and sessions.
THEOREM Invariance == Spec => []IInv
BY InitIInv, NextKeeps, PTL DEF Spec

LEMMA IInvMeansSafety ==
  IInv => TypeOK /\ PlaybackIsCurrent /\ UrlsAccounted
<1> SUFFICES ASSUME IInv PROVE PlaybackIsCurrent
  BY DEF IInv
<1>1. session # 0 => session \in Sessions
  BY DEF IInv, TypeOK, Sessions
<1>2. UsableIsHeld
  BY DEF IInv, Newest, UsableIsHeld
<1>3. PlayerIsCurrent
  <2> SUFFICES ASSUME NEW s \in Sessions, life[s] \in WithPlayer
               PROVE  \/ s = session /\ owner[s] = gen /\ prepared = gen
                      \/ format = "vap" /\ s # session /\ answers[s] = "value"
    BY DEF PlayerIsCurrent, Mounted
  <2>1. CASE life[s] = "mounted"
    BY <2>1 DEF IInv, Newest, Sessions
  <2>2. CASE life[s] = "stray"
    BY <2>2 DEF IInv, Newest, Waiting, Sessions
  <2> QED BY <2>1, <2>2 DEF WithPlayer
<1> QED BY <1>2, <1>3 DEF PlaybackIsCurrent

\* Every variable keeps its type, whatever awaits are overtaken.
THEOREM TypeCorrect == Spec => []TypeOK
BY Invariance, IInvMeansSafety, PTL

\* The controls the model offers and the player on screen both belong to the
\* newest open, however many opens overlap while the library is imported; a
\* player that VAP mounts too late goes with the answer of its load.
THEOREM PlaybackIsTheNewest == Spec => []PlaybackIsCurrent
BY Invariance, IInvMeansSafety, PTL

\* An object URL is alive exactly while a load or a player needs it: none
\* leaks, none is revoked under a player.
THEOREM ObjectUrlsAreAccounted == Spec => []UrlsAccounted
BY Invariance, IInvMeansSafety, PTL

\* The vertical implements LatestRequestPreview: its model on view speaks for
\* the newest request only, and a disposed one speaks again after an open only.
THEOREM ImplementsContract == Spec => RefinesContract
<1>1. Init => Contract!Init
  BY DEF Init, Contract!Init
<1>2. IInv /\ [Next]_vars =>
        [Contract!Next]_<<gen, [of |-> author, status |-> status]>>
  <2> SUFFICES ASSUME IInv, [Next]_vars
      PROVE  [Contract!Next]_<<gen, [of |-> author, status |-> status]>>
    OBVIOUS
  <2> USE DEF Contract!Next
  <2>1. CASE OpenRefused \/ OpenLocalCandidate
    BY <2>1 DEF OpenRefused, OpenLocalCandidate, BeginOpenRequest, SetStatus,
      Contract!Request
  <2>2. CASE Dispose
    BY <2>2 DEF Dispose, BeginOpenRequest, SetStatus, Contract!Dispose
  <2>3. CASE gen' = gen /\ UNCHANGED <<status, author>>
    BY <2>3
  <2>4. CASE /\ gen' = gen /\ ~IsDisposed /\ author' = gen
             /\ status' \in Status \ {"idle", "disposed"}
    BY <2>4 DEF IsDisposed, Status, Contract!Show, Contract!LiveStatus
  <2>5. ASSUME FailPlayback, ~IsDisposed
        PROVE  [Contract!Next]_<<gen, [of |-> author, status |-> status]>>
    BY <2>4, <2>5 DEF FailPlayback, SetStatus, Status
  <2>6. ASSUME Unavailable, ~IsDisposed
        PROVE  [Contract!Next]_<<gen, [of |-> author, status |-> status]>>
    BY <2>4, <2>6 DEF Unavailable, SetStatus, Status
  <2>7. ASSUME NEW g \in Opens, OpenStep(g)
        PROVE  [Contract!Next]_<<gen, [of |-> author, status |-> status]>>
    BY <2>3, <2>4, <2>7
    DEF OpenStep, Superseded, ReadFailed, Inspected, ResourcesFailed,
      ResourcesReady, SetStatus, KeepStatus, IsActiveRequest, Status
  <2>8. ASSUME NEW s \in Sessions, LoadStep(s) \/ RuntimeError(s)
        PROVE  [Contract!Next]_<<gen, [of |-> author, status |-> status]>>
    <3>1. CASE LastLook(s) \/ Mount(s) \/ NotMounted(s) \/ RuntimeError(s)
      BY <2>3, <3>1
      DEF LastLook, Mount, NotMounted, RuntimeError, Answer, KeepStatus
    <3>2. CASE LoadAnswered(s)
      BY <2>3, <2>4, <2>5, <3>2
      DEF LoadAnswered, SetStatus, KeepStatus, IsActivePlaybackSession,
        IsActiveRequest, Status
    <3> QED BY <2>8, <3>1, <3>2 DEF LoadStep
  <2>9. CASE Play \/ Control
    BY <2>3, <2>4, <2>5, <2>6, <2>9
    DEF Play, Control, SetStatus, KeepStatus, Status
  <2>10. ASSUME NEW p \in plays, PlaySettled(p)
         PROVE  [Contract!Next]_<<gen, [of |-> author, status |-> status]>>
    BY <2>3, <2>4, <2>5, <2>10
    DEF PlaySettled, SetStatus, KeepStatus, IsActivePlaybackSession,
      IsActiveRequest, Status
  <2>11. CASE RecoverPlayback
    BY <2>1, <2>3, <2>6, <2>11 DEF RecoverPlayback, KeepStatus
  <2>12. CASE UNCHANGED vars
    BY <2>3, <2>12 DEF vars
  <2> QED
    BY <2>1, <2>2, <2>7, <2>8, <2>9, <2>10, <2>11, <2>12 DEF Next
<1> QED
  BY <1>1, <1>2, Invariance, PTL DEF Spec, RefinesContract, Contract!Spec
=============================================================================
