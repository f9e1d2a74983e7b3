----------------------- MODULE PreviewWorkspace_proofs -----------------------
(***************************************************************************)
(* Proofs about PreviewWorkspace, for every bound on requests and players. *)
(***************************************************************************)
EXTENDS PreviewWorkspace, TLAPS

-----------------------------------------------------------------------------
(* The inductive invariant.                                                *)

\* Nothing exists before it is created.
Births ==
  /\ \A g \in Opens : g > gen => stage[g] = "none" /\ vertical[g] = "none"
  /\ \A s \in Sessions : s > created => sess[s] = "none"
  /\ \A l \in loads : l.sess <= created /\ l.gen <= gen

\* The newest open has no child before its format is known.
NoChildBeforeRoute ==
  \A g \in Opens :
    gen = g /\ stage[g] \in {"source", "probe", "parse"} =>
      delegate = 0 /\ svga = 0 /\ prepared = 0

\* What the workspace refers to belongs to the newest request and is live.
DelegateIsCurrent ==
  delegate # 0 =>
    /\ delegate = gen /\ vertical[delegate] = "live"
    /\ svga = 0 /\ prepared = 0 /\ status # "disposed"

SvgaIsCurrent ==
  svga # 0 =>
    /\ sess[svga] = "live" /\ svga <= created
    /\ prepared = gen /\ prepared # 0

PreparedHolds ==
  /\ PreparedIsCurrent
  /\ prepared # 0 => status # "disposed"

\* A suspended load of the session in use is a load of the newest open.
LoadsMatch == \A l \in loads : l.sess = svga => l.gen = gen

IInv ==
  /\ TypeOK
  /\ Births
  /\ NoChildBeforeRoute
  /\ DelegateIsCurrent
  /\ SvgaIsCurrent
  /\ PreparedHolds
  /\ LoadsMatch
  /\ NewestWins
  /\ OneLiveChild
  /\ UsableHasChild

LEMMA RejectOpenInputKeeps ==
  ASSUME IInv, RejectOpenInput
  PROVE  IInv'
<1> USE BoundsAssumption
    DEF IInv, TypeOK, Opens, Sessions, Stage, Status, Usable, Call,
        children, pending, RejectOpenInput, Supersede,
        DisposeActiveDelegate, DisposeSvgaPlaybackSession, SetModel, At
<1>1. TypeOK'
  OBVIOUS
<1>2. Births'
  BY DEF Births, DelegateIsCurrent, SvgaIsCurrent
<1>3. NoChildBeforeRoute'
  BY DEF NoChildBeforeRoute
<1>4. DelegateIsCurrent'
  BY DEF DelegateIsCurrent
<1>5. SvgaIsCurrent'
  BY DEF SvgaIsCurrent
<1>6. PreparedHolds'
  BY DEF PreparedHolds, PreparedIsCurrent
<1>7. LoadsMatch'
  BY DEF LoadsMatch
<1>8. NewestWins'
  BY DEF NewestWins
<1>9. OneLiveChild'
  BY DEF OneLiveChild
<1>10. UsableHasChild'
  BY DEF UsableHasChild
<1> QED
  BY <1>1, <1>2, <1>3, <1>4, <1>5, <1>6, <1>7, <1>8, <1>9, <1>10

LEMMA OpenLocalCandidateKeeps ==
  ASSUME IInv, OpenLocalCandidate
  PROVE  IInv'
<1> USE BoundsAssumption
    DEF IInv, TypeOK, Opens, Sessions, Stage, Status, Usable, Call,
        children, pending, OpenLocalCandidate, Supersede,
        DisposeActiveDelegate, DisposeSvgaPlaybackSession, SetModel, At
<1>1. TypeOK'
  OBVIOUS
<1>2. Births'
  BY DEF Births, DelegateIsCurrent, SvgaIsCurrent
<1>3. NoChildBeforeRoute'
  BY DEF NoChildBeforeRoute
<1>4. DelegateIsCurrent'
  BY DEF DelegateIsCurrent
<1>5. SvgaIsCurrent'
  BY DEF SvgaIsCurrent
<1>6. PreparedHolds'
  BY DEF PreparedHolds, PreparedIsCurrent
<1>7. LoadsMatch'
  BY DEF LoadsMatch
<1>8. NewestWins'
  BY DEF NewestWins
<1>9. OneLiveChild'
  BY DEF OneLiveChild
<1>10. UsableHasChild'
  BY DEF UsableHasChild
<1> QED
  BY <1>1, <1>2, <1>3, <1>4, <1>5, <1>6, <1>7, <1>8, <1>9, <1>10

LEMMA DisposeWorkspaceKeeps ==
  ASSUME IInv, DisposeWorkspace
  PROVE  IInv'
<1> USE BoundsAssumption
    DEF IInv, TypeOK, Opens, Sessions, Stage, Status, Usable, Call,
        children, pending, DisposeWorkspace, Supersede,
        DisposeActiveDelegate, DisposeSvgaPlaybackSession, SetModel
<1>1. TypeOK'
  OBVIOUS
<1>2. Births'
  BY DEF Births, DelegateIsCurrent, SvgaIsCurrent
<1>3. NoChildBeforeRoute'
  BY DEF NoChildBeforeRoute
<1>4. DelegateIsCurrent'
  BY DEF DelegateIsCurrent
<1>5. SvgaIsCurrent'
  BY DEF SvgaIsCurrent
<1>6. PreparedHolds'
  BY DEF PreparedHolds, PreparedIsCurrent
<1>7. LoadsMatch'
  BY DEF LoadsMatch
<1>8. NewestWins'
  BY DEF NewestWins
<1>9. OneLiveChild'
  BY DEF OneLiveChild
<1>10. UsableHasChild'
  BY DEF UsableHasChild
<1> QED
  BY <1>1, <1>2, <1>3, <1>4, <1>5, <1>6, <1>7, <1>8, <1>9, <1>10

LEMMA SourceReadKeeps ==
  ASSUME IInv, NEW g \in Opens, SourceRead(g)
  PROVE  IInv'
<1> USE BoundsAssumption
    DEF IInv, TypeOK, Opens, Sessions, Stage, Status, Usable, Call,
        children, pending, SourceRead, Leave, SetModel, At, IsActiveRequest,
        IsDisposed
<1>1. TypeOK'
  OBVIOUS
<1>2. Births'
  BY DEF Births
<1>3. NoChildBeforeRoute'
  BY DEF NoChildBeforeRoute
<1>4. DelegateIsCurrent'
  BY DEF DelegateIsCurrent
<1>5. SvgaIsCurrent'
  BY DEF SvgaIsCurrent
<1>6. PreparedHolds'
  BY DEF PreparedHolds, PreparedIsCurrent
<1>7. LoadsMatch'
  BY DEF LoadsMatch
<1>8. NewestWins'
  BY DEF NewestWins
<1>9. OneLiveChild'
  BY DEF OneLiveChild
<1>10. UsableHasChild'
  BY DEF UsableHasChild
<1> QED
  BY <1>1, <1>2, <1>3, <1>4, <1>5, <1>6, <1>7, <1>8, <1>9, <1>10

LEMMA ProbeAnsweredKeeps ==
  ASSUME IInv, NEW g \in Opens, ProbeAnswered(g)
  PROVE  IInv'
<1> USE BoundsAssumption
    DEF IInv, TypeOK, Opens, Sessions, Stage, Status, Usable, Call,
        children, pending, ProbeAnswered, OpenVertical, Leave, SetModel, At,
        IsActiveRequest, IsDisposed
<1>1. TypeOK'
  OBVIOUS
<1>2. Births'
  BY DEF Births
<1>3. NoChildBeforeRoute'
  BY DEF NoChildBeforeRoute
<1>4. DelegateIsCurrent'
  BY DEF DelegateIsCurrent, NoChildBeforeRoute, PreparedHolds,
         PreparedIsCurrent
<1>5. SvgaIsCurrent'
  BY DEF SvgaIsCurrent
<1>6. PreparedHolds'
  BY DEF PreparedHolds, PreparedIsCurrent
<1>7. LoadsMatch'
  BY DEF LoadsMatch
<1>8. NewestWins'
  BY DEF NewestWins
<1>9. OneLiveChild'
  BY DEF OneLiveChild, NoChildBeforeRoute, DelegateIsCurrent, SvgaIsCurrent,
         Births
<1>10. UsableHasChild'
  BY DEF UsableHasChild
<1> QED
  BY <1>1, <1>2, <1>3, <1>4, <1>5, <1>6, <1>7, <1>8, <1>9, <1>10

LEMMA ProbeSupersededKeeps ==
  ASSUME IInv, NEW g \in Opens, ProbeSuperseded(g)
  PROVE  IInv'
<1> USE BoundsAssumption
    DEF IInv, TypeOK, Opens, Sessions, Stage, Status, Usable, Call,
        children, pending, ProbeSuperseded, At
<1>1. TypeOK'
  OBVIOUS
<1>2. Births'
  BY DEF Births
<1>3. NoChildBeforeRoute'
  BY DEF NoChildBeforeRoute
<1>4. DelegateIsCurrent'
  BY DEF DelegateIsCurrent
<1>5. SvgaIsCurrent'
  BY DEF SvgaIsCurrent
<1>6. PreparedHolds'
  BY DEF PreparedHolds, PreparedIsCurrent
<1>7. LoadsMatch'
  BY DEF LoadsMatch
<1>8. NewestWins'
  BY DEF NewestWins
<1>9. OneLiveChild'
  BY DEF OneLiveChild
<1>10. UsableHasChild'
  BY DEF UsableHasChild
<1> QED
  BY <1>1, <1>2, <1>3, <1>4, <1>5, <1>6, <1>7, <1>8, <1>9, <1>10

LEMMA VerticalOpenedKeeps ==
  ASSUME IInv, NEW g \in Opens, VerticalOpened(g)
  PROVE  IInv'
<1> USE BoundsAssumption
    DEF IInv, TypeOK, Opens, Sessions, Stage, Status, Usable, Call,
        children, pending, VerticalOpened, VerticalAnswers, VerticalStatus,
        SetModel, At, IsActiveDelegate, IsActiveRequest, IsDisposed
<1>1. TypeOK'
  OBVIOUS
<1>2. Births'
  BY DEF Births
<1>3. NoChildBeforeRoute'
  BY DEF NoChildBeforeRoute
<1>4. DelegateIsCurrent'
  BY DEF DelegateIsCurrent
<1>5. SvgaIsCurrent'
  BY DEF SvgaIsCurrent
<1>6. PreparedHolds'
  BY DEF PreparedHolds, PreparedIsCurrent
<1>7. LoadsMatch'
  BY DEF LoadsMatch
<1>8. NewestWins'
  BY DEF NewestWins
<1>9. OneLiveChild'
  BY DEF OneLiveChild
<1>10. UsableHasChild'
  BY DEF UsableHasChild, DelegateIsCurrent, SvgaIsCurrent, PreparedHolds,
         LoadsMatch, Births, PreparedIsCurrent
<1> QED
  BY <1>1, <1>2, <1>3, <1>4, <1>5, <1>6, <1>7, <1>8, <1>9, <1>10

LEMMA VerticalRejectedKeeps ==
  ASSUME IInv, NEW g \in Opens, VerticalRejected(g)
  PROVE  IInv'
<1> USE BoundsAssumption
    DEF IInv, TypeOK, Opens, Sessions, Stage, Status, Usable, Call,
        children, pending, VerticalRejected, At
<1>1. TypeOK'
  OBVIOUS
<1>2. Births'
  BY DEF Births
<1>3. NoChildBeforeRoute'
  BY DEF NoChildBeforeRoute
<1>4. DelegateIsCurrent'
  BY DEF DelegateIsCurrent
<1>5. SvgaIsCurrent'
  BY DEF SvgaIsCurrent
<1>6. PreparedHolds'
  BY DEF PreparedHolds, PreparedIsCurrent
<1>7. LoadsMatch'
  BY DEF LoadsMatch
<1>8. NewestWins'
  BY DEF NewestWins
<1>9. OneLiveChild'
  BY DEF OneLiveChild
<1>10. UsableHasChild'
  BY DEF UsableHasChild
<1> QED
  BY <1>1, <1>2, <1>3, <1>4, <1>5, <1>6, <1>7, <1>8, <1>9, <1>10

LEMMA SvgaParsedKeeps ==
  ASSUME IInv, NEW g \in Opens, SvgaParsed(g)
  PROVE  IInv'
<1> USE BoundsAssumption
    DEF IInv, TypeOK, Opens, Sessions, Stage, Status, Usable, Call,
        children, pending, SvgaParsed, LoadSvgaPlayback, Leave, SetModel,
        At, IsActiveRequest, IsDisposed
<1>1. TypeOK'
  <2>1. loads' \subseteq Call /\ created' \in 0 .. MaxSess /\ svga' \in 0 .. MaxSess
    OBVIOUS
  <2>2. stage' \in [Opens -> Stage] /\ prepared' \in 0 .. MaxGen
    OBVIOUS
  <2>3. sess' \in [Sessions -> {"none", "live", "disposed"}]
    OBVIOUS
  <2>4. status' \in Status /\ author' \in 0 .. MaxGen
    OBVIOUS
  <2> QED
    BY <2>1, <2>2, <2>3, <2>4
<1>2. Births'
  BY DEF Births
<1>3. NoChildBeforeRoute'
  BY DEF NoChildBeforeRoute
<1>4. DelegateIsCurrent'
  BY DEF DelegateIsCurrent, NoChildBeforeRoute, PreparedHolds,
         PreparedIsCurrent
<1>5. SvgaIsCurrent'
  BY DEF SvgaIsCurrent
<1>6. PreparedHolds'
  BY DEF PreparedHolds, PreparedIsCurrent
<1>7. LoadsMatch'
  BY DEF LoadsMatch, Births
<1>8. NewestWins'
  BY DEF NewestWins
<1>9. OneLiveChild'
  BY DEF OneLiveChild, NoChildBeforeRoute, DelegateIsCurrent, SvgaIsCurrent,
         Births
<1>10. UsableHasChild'
  BY DEF UsableHasChild
<1> QED
  BY <1>1, <1>2, <1>3, <1>4, <1>5, <1>6, <1>7, <1>8, <1>9, <1>10

LEMMA LoadSettledKeeps ==
  ASSUME IInv, NEW l \in loads, LoadSettled(l)
  PROVE  IInv'
<1> USE BoundsAssumption
    DEF IInv, TypeOK, Opens, Sessions, Stage, Status, Usable, Call,
        children, pending, LoadSettled, LoadIsCurrent,
        IsActiveSvgaPlaybackSession, IsActiveRequest, IsDisposed,
        DisposeSvgaPlaybackSession, SetModel
<1>1. TypeOK'
  OBVIOUS
<1>2. Births'
  BY DEF Births
<1>3. NoChildBeforeRoute'
  BY DEF NoChildBeforeRoute, SvgaIsCurrent
<1>4. DelegateIsCurrent'
  BY DEF DelegateIsCurrent
<1>5. SvgaIsCurrent'
  BY DEF SvgaIsCurrent, NoChildBeforeRoute, DelegateIsCurrent,
         PreparedHolds, LoadsMatch, Births, PreparedIsCurrent
<1>6. PreparedHolds'
  BY DEF PreparedHolds, PreparedIsCurrent
<1>7. LoadsMatch'
  BY DEF LoadsMatch
<1>8. NewestWins'
  BY DEF NewestWins
<1>9. OneLiveChild'
  BY DEF OneLiveChild
<1>10. UsableHasChild'
  BY DEF UsableHasChild, DelegateIsCurrent, SvgaIsCurrent, PreparedHolds,
         LoadsMatch, Births, PreparedIsCurrent
<1> QED
  BY <1>1, <1>2, <1>3, <1>4, <1>5, <1>6, <1>7, <1>8, <1>9, <1>10

LEMMA PauseOrSeekKeeps ==
  ASSUME IInv, PauseOrSeek
  PROVE  IInv'
<1> USE BoundsAssumption
    DEF IInv, TypeOK, Opens, Sessions, Stage, Status, Usable, Call,
        children, pending, PauseOrSeek, Control, CopyVertical,
        VerticalAnswers, VerticalStatus, PlaybackOperationFailed,
        DisposeSvgaPlaybackSession, SetModel, IsActiveDelegate,
        IsActiveRequest, IsDisposed
<1>1. TypeOK'
  OBVIOUS
<1>2. Births'
  BY DEF Births, DelegateIsCurrent, SvgaIsCurrent
<1>3. NoChildBeforeRoute'
  BY DEF NoChildBeforeRoute
<1>4. DelegateIsCurrent'
  BY DEF DelegateIsCurrent
<1>5. SvgaIsCurrent'
  BY DEF SvgaIsCurrent
<1>6. PreparedHolds'
  BY DEF PreparedHolds, PreparedIsCurrent
<1>7. LoadsMatch'
  BY DEF LoadsMatch
<1>8. NewestWins'
  BY DEF NewestWins
<1>9. OneLiveChild'
  BY DEF OneLiveChild
<1>10. UsableHasChild'
  BY DEF UsableHasChild, DelegateIsCurrent, SvgaIsCurrent, PreparedHolds,
         LoadsMatch, Births, PreparedIsCurrent
<1> QED
  BY <1>1, <1>2, <1>3, <1>4, <1>5, <1>6, <1>7, <1>8, <1>9, <1>10

LEMMA SetLoopKeeps ==
  ASSUME IInv, SetLoop
  PROVE  IInv'
<1> USE BoundsAssumption
    DEF IInv, TypeOK, Opens, Sessions, Stage, Status, Usable, Call,
        children, pending, SetLoop, Control, CopyVertical, VerticalAnswers,
        VerticalStatus, PlaybackOperationFailed, DisposeSvgaPlaybackSession,
        SetModel, IsActiveDelegate, IsActiveRequest, IsDisposed
<1>1. TypeOK'
  OBVIOUS
<1>2. Births'
  BY DEF Births, DelegateIsCurrent, SvgaIsCurrent
<1>3. NoChildBeforeRoute'
  BY DEF NoChildBeforeRoute
<1>4. DelegateIsCurrent'
  BY DEF DelegateIsCurrent
<1>5. SvgaIsCurrent'
  BY DEF SvgaIsCurrent
<1>6. PreparedHolds'
  BY DEF PreparedHolds, PreparedIsCurrent
<1>7. LoadsMatch'
  BY DEF LoadsMatch
<1>8. NewestWins'
  BY DEF NewestWins
<1>9. OneLiveChild'
  BY DEF OneLiveChild
<1>10. UsableHasChild'
  BY DEF UsableHasChild, DelegateIsCurrent, SvgaIsCurrent, PreparedHolds,
         LoadsMatch, Births, PreparedIsCurrent
<1> QED
  BY <1>1, <1>2, <1>3, <1>4, <1>5, <1>6, <1>7, <1>8, <1>9, <1>10

LEMMA PlayKeeps ==
  ASSUME IInv, Play
  PROVE  IInv'
<1> USE BoundsAssumption
    DEF IInv, TypeOK, Opens, Sessions, Stage, Status, Usable, Call,
        children, pending, Play, PlaybackOperationFailed, SetModel,
        IsDisposed
<1>1. TypeOK'
  BY DEF SvgaIsCurrent, PreparedHolds, PreparedIsCurrent
<1>2. Births'
  BY DEF Births
<1>3. NoChildBeforeRoute'
  BY DEF NoChildBeforeRoute
<1>4. DelegateIsCurrent'
  BY DEF DelegateIsCurrent
<1>5. SvgaIsCurrent'
  BY DEF SvgaIsCurrent
<1>6. PreparedHolds'
  BY DEF PreparedHolds, PreparedIsCurrent
<1>7. LoadsMatch'
  BY DEF LoadsMatch
<1>8. NewestWins'
  BY DEF NewestWins
<1>9. OneLiveChild'
  BY DEF OneLiveChild
<1>10. UsableHasChild'
  BY DEF UsableHasChild
<1> QED
  BY <1>1, <1>2, <1>3, <1>4, <1>5, <1>6, <1>7, <1>8, <1>9, <1>10

LEMMA RecoverPlaybackKeeps ==
  ASSUME IInv, RecoverPlayback
  PROVE  IInv'
<1> USE BoundsAssumption
    DEF IInv, TypeOK, Opens, Sessions, Stage, Status, Usable, Call,
        children, pending, RecoverPlayback, LoadSvgaPlayback,
        PlaybackOperationFailed, SetModel, IsDisposed
<1>1. TypeOK'
  BY DEF SvgaIsCurrent, PreparedHolds, PreparedIsCurrent
<1>2. Births'
  BY DEF Births, DelegateIsCurrent, SvgaIsCurrent
<1>3. NoChildBeforeRoute'
  BY DEF NoChildBeforeRoute
<1>4. DelegateIsCurrent'
  BY DEF DelegateIsCurrent
<1>5. SvgaIsCurrent'
  BY DEF SvgaIsCurrent, NoChildBeforeRoute, DelegateIsCurrent,
         PreparedHolds, LoadsMatch, Births, PreparedIsCurrent
<1>6. PreparedHolds'
  BY DEF PreparedHolds, PreparedIsCurrent
<1>7. LoadsMatch'
  BY DEF LoadsMatch, Births
<1>8. NewestWins'
  BY DEF NewestWins
<1>9. OneLiveChild'
  BY DEF OneLiveChild
<1>10. UsableHasChild'
  BY DEF UsableHasChild, DelegateIsCurrent, SvgaIsCurrent, PreparedHolds,
         LoadsMatch, Births, PreparedIsCurrent
<1> QED
  BY <1>1, <1>2, <1>3, <1>4, <1>5, <1>6, <1>7, <1>8, <1>9, <1>10

LEMMA SvgaPlayedKeeps ==
  ASSUME IInv, NEW p \in plays, SvgaPlayed(p)
  PROVE  IInv'
<1> USE BoundsAssumption
    DEF IInv, TypeOK, Opens, Sessions, Stage, Status, Usable, Call,
        children, pending, SvgaPlayed, IsActiveSvgaPlaybackSession,
        IsActiveRequest, IsDisposed, DisposeSvgaPlaybackSession, SetModel
<1>1. TypeOK'
  OBVIOUS
<1>2. Births'
  BY DEF Births, DelegateIsCurrent, SvgaIsCurrent
<1>3. NoChildBeforeRoute'
  BY DEF NoChildBeforeRoute
<1>4. DelegateIsCurrent'
  BY DEF DelegateIsCurrent
<1>5. SvgaIsCurrent'
  BY DEF SvgaIsCurrent
<1>6. PreparedHolds'
  BY DEF PreparedHolds, PreparedIsCurrent
<1>7. LoadsMatch'
  BY DEF LoadsMatch
<1>8. NewestWins'
  BY DEF NewestWins
<1>9. OneLiveChild'
  BY DEF OneLiveChild
<1>10. UsableHasChild'
  BY DEF UsableHasChild, DelegateIsCurrent, SvgaIsCurrent, PreparedHolds,
         LoadsMatch, Births, PreparedIsCurrent
<1> QED
  BY <1>1, <1>2, <1>3, <1>4, <1>5, <1>6, <1>7, <1>8, <1>9, <1>10

LEMMA VerticalCallSettledKeeps ==
  ASSUME IInv, NEW c \in calls, VerticalCallSettled(c)
  PROVE  IInv'
<1> USE BoundsAssumption
    DEF IInv, TypeOK, Opens, Sessions, Stage, Status, Usable, Call,
        children, pending, VerticalCallSettled, CopyVertical,
        VerticalAnswers, VerticalStatus, SetModel, IsActiveDelegate,
        IsActiveRequest, IsDisposed
<1>1. TypeOK'
  OBVIOUS
<1>2. Births'
  BY DEF Births
<1>3. NoChildBeforeRoute'
  BY DEF NoChildBeforeRoute
<1>4. DelegateIsCurrent'
  BY DEF DelegateIsCurrent
<1>5. SvgaIsCurrent'
  BY DEF SvgaIsCurrent
<1>6. PreparedHolds'
  BY DEF PreparedHolds, PreparedIsCurrent
<1>7. LoadsMatch'
  BY DEF LoadsMatch
<1>8. NewestWins'
  BY DEF NewestWins
<1>9. OneLiveChild'
  BY DEF OneLiveChild
<1>10. UsableHasChild'
  BY DEF UsableHasChild, DelegateIsCurrent, SvgaIsCurrent, PreparedHolds,
         LoadsMatch, Births, PreparedIsCurrent
<1> QED
  BY <1>1, <1>2, <1>3, <1>4, <1>5, <1>6, <1>7, <1>8, <1>9, <1>10

-----------------------------------------------------------------------------
(* The theorems.                                                           *)

LEMMA InitKeeps == Init => IInv
<1> SUFFICES ASSUME Init PROVE IInv
  OBVIOUS
<1> USE BoundsAssumption
    DEF Init, IInv, TypeOK, Opens, Sessions, Stage, Status, Call
<1>1. TypeOK
  OBVIOUS
<1>2. Births /\ NoChildBeforeRoute
  BY DEF Births, NoChildBeforeRoute
<1>3. DelegateIsCurrent /\ SvgaIsCurrent /\ PreparedHolds /\ LoadsMatch
  BY DEF DelegateIsCurrent, SvgaIsCurrent, PreparedHolds, PreparedIsCurrent,
         LoadsMatch
<1>4. NewestWins /\ OneLiveChild /\ UsableHasChild
  BY DEF NewestWins, OneLiveChild, UsableHasChild, Usable
<1> QED
  BY <1>1, <1>2, <1>3, <1>4

LEMMA StepKeeps == IInv /\ [Next]_vars => IInv'
<1> SUFFICES ASSUME IInv, [Next]_vars PROVE IInv'
  OBVIOUS
<1>1. CASE RejectOpenInput \/ OpenLocalCandidate \/ DisposeWorkspace
  BY <1>1, RejectOpenInputKeeps, OpenLocalCandidateKeeps, DisposeWorkspaceKeeps
<1>2. ASSUME NEW g \in Opens, OpenStep(g) PROVE IInv'
  BY <1>2, SourceReadKeeps, ProbeAnsweredKeeps, ProbeSupersededKeeps,
     VerticalOpenedKeeps, VerticalRejectedKeeps, SvgaParsedKeeps DEF OpenStep
<1>3. ASSUME NEW l \in loads, LoadSettled(l) PROVE IInv'
  BY <1>3, LoadSettledKeeps
<1>4. CASE PauseOrSeek \/ SetLoop \/ Play \/ RecoverPlayback
  BY <1>4, PauseOrSeekKeeps, SetLoopKeeps, PlayKeeps, RecoverPlaybackKeeps
<1>5. ASSUME NEW p \in plays, SvgaPlayed(p) PROVE IInv'
  BY <1>5, SvgaPlayedKeeps
<1>6. ASSUME NEW c \in calls, VerticalCallSettled(c) PROVE IInv'
  BY <1>6, VerticalCallSettledKeeps
<1>7. CASE UNCHANGED vars
  BY <1>7 DEF vars, children, pending, IInv, TypeOK, Births,
     NoChildBeforeRoute, DelegateIsCurrent, SvgaIsCurrent, PreparedHolds,
     PreparedIsCurrent, LoadsMatch, NewestWins, OneLiveChild, UsableHasChild
<1> QED
  BY <1>1, <1>2, <1>3, <1>4, <1>5, <1>6, <1>7 DEF Next

\* The inductive invariant holds in every reachable state.
THEOREM InductiveInvariant == Spec => []IInv
<1>1. Init => IInv
  BY InitKeeps
<1>2. IInv /\ [Next]_vars => IInv'
  BY StepKeeps
<1> QED
  BY <1>1, <1>2, PTL DEF Spec

\* Every variable keeps its type, whatever the number of requests.
THEOREM TypeCorrect == Spec => []TypeOK
BY InductiveInvariant, PTL DEF IInv

\* No overtaken open, load, play or delegate call ever writes the model.
THEOREM NewestAlwaysWins == Spec => []NewestWins
BY InductiveInvariant, PTL DEF IInv

\* No superseded vertical or SVGA player stays alive.
THEOREM NoOrphanChild == Spec => []OneLiveChild
BY InductiveInvariant, PTL DEF IInv

\* A model that offers a usable preview has a live current child behind it.
THEOREM UsablePreviewIsBacked == Spec => []UsableHasChild
BY InductiveInvariant, PTL DEF IInv

\* Recovery can only reload the source of the newest request.
THEOREM RecoveryIsCurrent == Spec => []PreparedIsCurrent
BY InductiveInvariant, PTL DEF IInv, PreparedHolds

-----------------------------------------------------------------------------
(* The refinement of LatestRequestPreview.                                 *)

\* What every step but an open or a disposal does to the view.
Quiet == UNCHANGED <<gen, status, author>>

Speaks ==
  /\ gen' = gen
  /\ status # "disposed"
  /\ status' \in VerticalStatus
  /\ author' = gen

LEMMA InternalSteps ==
  ASSUME IInv, [Next]_vars,
         ~RejectOpenInput, ~OpenLocalCandidate, ~DisposeWorkspace
  PROVE  Quiet \/ Speaks
<1> USE DEF IInv, NewestWins, Quiet, Speaks, VerticalStatus, Status, SetModel,
        IsActiveRequest, IsDisposed
<1>1. ASSUME NEW g \in Opens, SourceRead(g) PROVE Quiet \/ Speaks
  BY <1>1 DEF SourceRead, Leave
<1>2. ASSUME NEW g \in Opens, ProbeAnswered(g) PROVE Quiet \/ Speaks
  BY <1>2 DEF ProbeAnswered, OpenVertical, Leave
<1>3. ASSUME NEW g \in Opens, ProbeSuperseded(g) PROVE Quiet \/ Speaks
  BY <1>3 DEF ProbeSuperseded
<1>4. ASSUME NEW g \in Opens, VerticalOpened(g) PROVE Quiet \/ Speaks
  BY <1>4 DEF VerticalOpened, VerticalAnswers, IsActiveDelegate
<1>5. ASSUME NEW g \in Opens, VerticalRejected(g) PROVE Quiet \/ Speaks
  BY <1>5 DEF VerticalRejected
<1>6. ASSUME NEW g \in Opens, SvgaParsed(g) PROVE Quiet \/ Speaks
  BY <1>6 DEF SvgaParsed, LoadSvgaPlayback, Leave
<1>7. ASSUME NEW l \in loads, LoadSettled(l) PROVE Quiet \/ Speaks
  BY <1>7 DEF LoadSettled, LoadIsCurrent, IsActiveSvgaPlaybackSession,
         DisposeSvgaPlaybackSession, PreparedHolds
<1>8. CASE PauseOrSeek
  BY <1>8 DEF PauseOrSeek, Control, CopyVertical, VerticalAnswers,
         PlaybackOperationFailed, DisposeSvgaPlaybackSession,
         IsActiveDelegate, SvgaIsCurrent, DelegateIsCurrent, TypeOK
<1>9. CASE SetLoop
  BY <1>9 DEF SetLoop, Control, CopyVertical, VerticalAnswers,
         PlaybackOperationFailed, DisposeSvgaPlaybackSession,
         IsActiveDelegate, SvgaIsCurrent, DelegateIsCurrent, TypeOK
<1>10. CASE Play
  BY <1>10 DEF Play, PlaybackOperationFailed
<1>11. CASE RecoverPlayback
  BY <1>11 DEF RecoverPlayback, LoadSvgaPlayback, PlaybackOperationFailed,
         PreparedHolds
<1>12. ASSUME NEW p \in plays, SvgaPlayed(p) PROVE Quiet \/ Speaks
  BY <1>12 DEF SvgaPlayed, IsActiveSvgaPlaybackSession,
         DisposeSvgaPlaybackSession
<1>13. ASSUME NEW c \in calls, VerticalCallSettled(c) PROVE Quiet \/ Speaks
  BY <1>13 DEF VerticalCallSettled, CopyVertical, VerticalAnswers,
         IsActiveDelegate
<1>14. CASE UNCHANGED vars
  BY <1>14 DEF vars
<1> QED
  BY <1>1, <1>2, <1>3, <1>4, <1>5, <1>6, <1>7, <1>8, <1>9, <1>10, <1>11, <1>12, <1>13, <1>14 DEF Next, OpenStep

\* Opening takes the view over, later results speak under the newest number
\* only, and a disposed view stays disposed: the workspace implements the
\* contract of LatestRequestPreview.
THEOREM ImplementsContract == Spec => RefinesContract
<1>1. Init => Contract!Init
  BY DEF Init, Contract!Init
<1>2. ASSUME IInv, [Next]_vars
      PROVE  [Contract!Next]_<<gen, [of |-> author, status |-> status]>>
  <2> USE DEF Contract!Next
  <2>1. CASE RejectOpenInput \/ OpenLocalCandidate
    BY <2>1 DEF RejectOpenInput, OpenLocalCandidate, Supersede, SetModel,
                Contract!Request
  <2>2. CASE DisposeWorkspace
    BY <2>2 DEF DisposeWorkspace, Supersede, SetModel, Contract!Dispose
  <2>3. CASE Quiet
    BY <2>3 DEF Quiet
  <2>4. CASE Speaks
    BY <2>4 DEF Speaks, VerticalStatus, Status, Contract!Show,
                Contract!LiveStatus
  <2> QED
    BY <1>2, <2>1, <2>2, <2>3, <2>4, InternalSteps
<1> QED
  BY <1>1, <1>2, InductiveInvariant, PTL DEF Spec, RefinesContract, Contract!Spec

\* A late answer never brings a disposed workspace back; only an open does.
THEOREM DisposedStaysDisposed == Spec => DisposedUntilReopened
<1>1. ASSUME IInv, [Next]_vars
      PROVE  [status = "disposed" /\ status' # "disposed" => gen' > gen]_vars
  <2>1. CASE RejectOpenInput \/ OpenLocalCandidate \/ DisposeWorkspace
    BY <1>1, <2>1 DEF RejectOpenInput, OpenLocalCandidate, DisposeWorkspace,
                      Supersede, IInv, TypeOK
  <2>2. CASE Quiet \/ Speaks
    BY <2>2 DEF Quiet, Speaks
  <2> QED
    BY <1>1, <2>1, <2>2, InternalSteps
<1> QED
  BY <1>1, InductiveInvariant, PTL DEF Spec, DisposedUntilReopened
=============================================================================
