# Auto SVGA: a TLA+ verification of the desktop preview and its release tooling

This directory specifies, model-checks and partly proves the concurrent and
crash-exposed core of Auto SVGA: the desktop application that opens motion
files (SVGA, Lottie, VAP), plays them and lets the user replace their images
and texts, and the command line tool that installs, rolls back and repairs that
application. `PROJECT.json` holds the exact correspondence between TLA+
definitions and source lines, the list of runs, mutants, hazards, findings and
theorems; this file explains them. Paths are relative to the repository.
`EXP` stands for `tools/electron-prototype/experiments/svga-web`.

1. The system
2. What is modelled, module by module
3. The runs: questions, bounds, fairness
4. What is proved
5. What the checks found
6. What is not modelled, and what is only model-checked
7. The plan

## 1. The system

### Layers

```
 macOS open-file events        user: drop, recent, dialog, close, play, replace
            |                                   |
            v                                   v
  EXP/main.cjs  (main process)  <-- IPC -->  EXP/web/*  (renderer)
   queue of events, Recent list               multiformat-desktop-preview-controller
   placement of the window                    short-term-macos-file-surface (SVGA)
            |                                 short-term-macos-controller   (SVGA)
            v
  EXP/multiformat-desktop-session.cjs
   active source, staged sessions, bindings, module cache
            |
            v
  src/workbench/multiformat-owner-preview-candidate.ts   replacement record
            |
            v
  src/workbench/multiformat-preview-workspace.ts         one open at a time
            |                         |
            v                         v
  lottie / vap preview verticals   SVGA playback session
```

Beside this stack, sharing only the installed bundles with it:
`tools/svga-workbench/promote-local-stable-app.mjs` and
`local-stable-recovery.mjs`, which replace, roll back and repair the installed
application under a journal.

Everything above runs on JavaScript event loops. Within one process the atomic
unit is the code between two `await`s; between the main process and the
renderer there are ordered messages; the release tooling is one sequential
process that can die anywhere; the preference file of the window is written by
synchronous system calls that several processes may interleave.

### Components

**Multi-format preview workspace** (`multiformat-preview-workspace.ts`).
State: `activeRequestGeneration`, the model, `activeDelegate`, the SVGA playback
session, `svgaPrepared`. Operations: `openLocalCandidate`, `play`, `pause`,
`seek`, `setLoop`, `recoverPlayback`, `dispose`. It calls the host (read, probe,
parse), the verticals and the SVGA playback adapter, each behind an `await`
during which any other operation may run. Hard: late answers; two players
alive; a recovery under an unchanged generation. Correct when only the newest
request writes the model, at most one child lives, a usable model has a live
player behind it, and an open does not stay at loading.

**VAP and Lottie verticals** (`vap-preview-vertical.ts`,
`lottie-preview-vertical.ts` and their playback adapters). State: the request
generation, the model, what was prepared, the playback session, the mounted
player; for VAP the object URL of the video and the input to open again. Hard:
the adapters wait for a runtime library that is loaded once per page, so a
superseded load may still mount, and the VAP adapter waits once more after its
last look; a URL must outlive every load that uses it and no longer. Correct
when the player that stays on screen is the newest open's, and every URL is
released exactly when nobody needs it.

**Owner preview candidate** (`multiformat-owner-preview-candidate.ts`). State:
`activeGeneration`, `currentOpen`, the replacement record with its revision,
the published model. Operations: open (with autoplay), controls, apply a
replacement, reset one target or all (with a preflight and, on failure, a
rollback), dispose. Hard: an apply is a reload of the whole file and its answer
may arrive after another open; a reset that fails must restore runtime and
record together. Correct when no edit reaches another file, the revision in a
binding token names one record, and at rest the runtime shows the record.

**Desktop preview session** (`EXP/multiformat-desktop-session.cjs`). State: the
latest request, the active source, staged sessions, source and replacement
bindings, the SVGA replacement under preparation, the cached import of the
built modules. Operations: choose and open, open by path, play controls,
replacement commands, dispose. Hard: overlapping opens, an open deadline,
sessions created after they were given up, handles that outlive their source.
Correct when authority over preview, replacement and Recent moves forward only,
every session is owned until it is disposed, an edit lands on the file and the
record of edits it was chosen for, and every open is answered.

**Desktop main process** (`EXP/main.cjs`). State used here: the open-file event
queue, its flush flag, the ready flag, results waiting for the renderer, the
files staged for the Recent list and the list itself; the bounds, mode and
timers of the window. Hard: events arrive at any time, the head stays queued
while its dispatch is awaited, and the renderer decides; what moves a window
may be the owner, the program or the system.

**Window placement store** (`EXP/short-term-window-placement-store.cjs`,
`short-term-window-bounds-policy.cjs`). State: one preference file, its
temporary names. Operations: read, write (create, fill, flush, recheck, publish
by link or rename, unlink, flush the directory, read back), and the functions
that choose where a window goes. Hard: processes that share the file, a crash
or power loss between two system calls, displays that come, go and shrink.
Correct when what is read is a whole record of a placement that was on a
screen, a record once there stays, and a launch is on a screen.

**Renderer preview controller** and **SVGA renderer workflow**
(`EXP/web/multiformat-desktop-preview-controller.mjs`,
`short-term-macos-file-surface.mjs`, `short-term-macos-controller.mjs`). State:
the active request, the event being opened, the shown source, model and
player, loading views; a queue of text edits per text, the newest intent of
each, the values the player is mounted with. Hard: two request numbers (user
and event), several authorities for SVGA loads, mounts on one key; edits,
resets, opens and closings that overlap. Correct when sources are shown in the
order they were opened, what was typed last is on record and in the player, and
nothing of one file reaches the next.

**Promotion, rollback and recovery** (`promote-local-stable-app.mjs`,
`local-stable-recovery.mjs`). State: two application bundles in two roles, a
legacy place of the second, a staged copy, a journal with a `.next` file, a
manifest, the quarantine attribute, the LaunchServices registration. Hard: a
crash between any two durable effects, or inside one; a command that starts
while an interrupted one is not yet recovered. Correct when an exchange
is all or nothing, the disk neither forgets nor invents one, no residue loses
the journal that entitles recovery to remove it, no build is lost, and an
identifier is used for one exchange.

**Short-term host session and workbench core** (`short-term-host-session.ts`
and the state, action, save and recent-file modules): a promise queue that
serialises actions over a state machine of views and dirty output.

**Image edit history** (`svga/image-edit-history.ts`): undo, redo, a cap and a
saved revision. **AEB native preview session**
(`EXP/aeb-native-preview-session.cjs`): opens packages through a desktop
session of its own; `main.cjs` does not load it. **AEB retained bake**
(`src/hosts/aeb-*`): one-use results, a bounded child process, file publication.

**Pure code**: SVGA inspection, editing, optimisation; VAP and Lottie
inspection, diagnostics, reports; the command line exporter. **Other**: the
older web product and player preview; the review, design and process scripts.

### How they interact

* *Calls down, answers up.* Each layer numbers its own requests and compares
  the number after each `await`: `activeRequestGeneration` in the verticals and
  the workspace, `activeGeneration` in the owner candidate, the latest request
  in the session, `request` and the host file event in the renderer, the intent
  of each text. Most of what can go wrong is a place where the number is not
  compared, or where two layers disagree on which request is the newest.
* *Messages.* Main process and renderer exchange calls and answers over IPC,
  in order in each direction. An open-file event is a dialogue of four calls
  (authorize, begin, complete, consume) that the renderer may decline at each
  step; a user's open is one call.
* *Shared state.* The session's active source is shared by every control call;
  the SVGA primary player key is shared by every mount; the two bundle
  directories are shared by promotion, rollback and recovery; the preference
  file by every process of the application.

## 2. What is modelled, module by module

A model `X.tla` has its TLC instance in `MCX.tla` and `MCX.cfg` and its proofs
in `X_proofs.tla`. `DesktopSession` and `RuntimeEdits` share both
(`MCDesktopEdits`, `DesktopEdits_proofs`); `MCRuntimeEdits` serves a finding. Steps of the models are the runs of code
between two awaits, one durable effect on the disk, one system call, or the
handling of one message.

Which module speaks of which other:

```
 LatestRequestPreview <---implements--- PreviewWorkspace, PreviewVertical
 PreviewWorkspace  <---its promise is--- the workspace part of OwnerPreview
 OwnerPreview      <---its promise is--- the candidate part of DesktopSession
 SourceAuthority   <---implements------- DesktopSession
 WindowBoundsPolicy <---extended by----- WindowPlacement
```

### LatestRequestPreview and SourceAuthority

Two abstract specifications, mapped to no code; they state what modules below
are shown to implement.

`LatestRequestPreview` is the promise of a preview session, in three actions: a
request takes the view over at once; the newest request may show a status; a
disposal takes the view and only a new request brings it back.
`PreviewWorkspace` and `PreviewVertical` implement it.

`SourceAuthority` is the promise of the desktop session to the rest of the
host: at most one opened file holds the authority over preview, replacement and
Recent; the newest request may be granted it once, no older one ever is, and
what was revoked is not given again. `DesktopSession` implements it.

### PreviewWorkspace

| TLA+ | code (`multiformat-preview-workspace.ts`) |
| --- | --- |
| `gen`, `status` | `activeRequestGeneration`, `model.status` |
| `author` | ghost: the request whose code set the status last |
| `stage[g]` | the `await` at which call `g` of `openLocalCandidate` stands |
| `delegate`, `vertical[g]` | `activeDelegate`, the life of each vertical session created |
| `svga`, `sess`, `created` | `svgaPlaybackSession` and the life of each session created |
| `prepared` | `svgaPrepared`, by the open that set it |
| `loads`, `plays`, `calls` | suspended `loadSvgaPlayback`, SVGA `play`, delegate `play` / `recoverPlayback` |

Actions: `RejectOpenInput`, `OpenLocalCandidate`; its continuations `SourceRead`,
`ProbeAnswered`, `ProbeSuperseded`, `VerticalOpened`, `VerticalRejected`,
`SvgaParsed`, `LoadSettled`; the controls `PauseOrSeek`, `SetLoop`, `Play`,
`RecoverPlayback` with `SvgaPlayed` and `VerticalCallSettled`;
`DisposeWorkspace`. A superseded probe, a vertical's open and the adapter's parse
may also reject the promise of the open. `IsActiveRequest`, `IsActiveDelegate` and
`IsActiveSvgaPlaybackSession` are the code's own checks after an await, at the
places where the code makes them and nowhere else. `Init` leaves open whether
an SVGA playback adapter is configured.

Abstracted: a vertical's answers are arbitrary statuses (it may be loading only
while one of its calls is suspended); facts, issues and the playback record are
left out; a vertical's answer and the copy of its model are one step, which
they are for the event loop (consecutive microtasks).

### PreviewVertical

One module for both verticals; `format` is chosen in `Init` and never changes.

| TLA+ | code (`lottie-preview-vertical.ts`, `vap-preview-vertical.ts`) |
| --- | --- |
| `gen`, `status`, `author` | as in `PreviewWorkspace` |
| `stage[g]`, `prepared` | the await where open `g` stands; `this.prepared` |
| `reopens` | VAP: `lastInput` is set, so recovery opens again |
| `url[g]` | VAP: the object URL of open `g`: none, live, revoked |
| `session`, `owner`, `life`, `created` | the playback session and the player it has mounted (the two playback adapters); "stray": a player made for a session already disposed |
| `loads`, `answers` | sessions that wait for the runtime library; their results not yet seen |
| `mounting` | VAP sessions between their last look and their mount |
| `plays` | suspended `play` calls |

Actions: `OpenRefused`, `OpenLocalCandidate`; `ReadFailed`, `Inspected`,
`ResourcesFailed`, `ResourcesReady`; in the adapter `LastLook`, `Mount`,
`NotMounted`; back in the vertical `LoadAnswered`; `RuntimeError`; `Play` with `PlaySettled`,
`Control`, `RecoverPlayback` (VAP opens `lastInput` again, Lottie reloads what
is prepared), `Dispose`.

The adapters differ where the library has arrived. Lottie looks at the request
and the session and mounts in one turn (`lottie-svg-playback-adapter.ts:257`).
VAP looks (`vap-web-playback-adapter.ts:259`), awaits a cancellation check
(`:289`) and then makes its player without looking again: that is `LastLook`
and a later `Mount`, and what runs in between may dispose the session.

Abstracted: the awaits for reading, probing and inspecting are one, as each of
them only returns early; revoking a URL succeeds.

### OwnerPreview

| TLA+ | code (`multiformat-owner-preview-candidate.ts`) |
| --- | --- |
| `gen` | `activeGeneration` |
| `open` | `currentOpen`, by the open that set it |
| `replacements` | the replacement record: edits by target, revision |
| `model` | the published model: status, the file it is about, format known |
| `stage[g]`, `job[g]` | where operation `g` stands and the locals it has computed |
| `calls` | suspended `play` / `recoverPlayback` |
| `ws` | the workspace below: newest request, file, edits, status |
| `serial` | whether the caller awaits each command before the next; fixed by `Init` |

Actions: `RejectOpenInput`, `OpenLocalCandidate` with `Opened` and `Autoplayed`;
`PauseSeekOrLoop`, `PlayOrRecover` with `CallSettled`; `ApplyByReload` with
`Applied`; `ResetByReload` with `Preflighted`, `ResetAnswered` and `RolledBack`;
`ApplySvga` with `SvgaApplied`, and `ResetSvga`, for SVGA files whose edits go
through the replacement controller; `BlockReplacement`; `Dispose`; `Rejected`,
a promise of the workspace that is rejected. An edit's value is the generation
of the apply that brought it, so that an edit carries with it which file it was
meant for (`EditsBelongToFile` compares the two).

The workspace appears through what section 4 proves of `PreviewWorkspace`: it
changes its model only for its newest request, and a disposed one stays
disposed (`WorkspaceAnswers`, `DisposeWorkspace`). The desktop renderer does
not always await a command before the next, so both callers are checked and the
proofs cover both.

### DesktopSession

| TLA+ | code (`EXP/multiformat-desktop-session.cjs`, `EXP/main.cjs`) |
| --- | --- |
| `modules` | `modulesPromise`, the one import of the built modules |
| `made`, `latest`, `opens` | opens and sessions so far, `latestOpenRequestId`, opens not yet answered |
| `life[s]`, `promise` | the candidate session number `s`; `sessionPromise` |
| `doomed`, `disposals` | sessions to be disposed when they are created; dispose commands that wait for theirs |
| `active`, `bindings` | `activeSourceId` with its binding; `sourceBindings` and the host's source store |
| `record` | the replacement record of the active candidate |
| `preview`, `edits` | `svgaReplacementPreview`; replacements under preparation |
| `picks` | image dialogs that are up |

Actions: `ModulesSettle`; `OpenRefused`, `OpenLocalFilePath`, `OpenAnswered`,
`OpenTimesOut` (the deadline of `openLocalCandidate`), `CreationFailed`;
`ControlIdle` (a control with nothing open builds a session), `Dispose`,
`DisposeResumes`; `ApplyImage`, `ChooseImage` with `ImagePicked` and
`PickDropped`, `EditPrepared`, `EditRefused`, `ResetImage`. `Serial` says
whether a replacement command waits for the one under preparation, as the
renderer's controls do. `edits` carry an auxiliary field, `seen`: the revision
of the record their caller looked at, when the dialog went up or the command
was given.

Abstracted: a file that is missing, unsafe or changed is an open or an edit
that fails; play, seek and loop do no more than build a missing session.

### HostFileOpen

The whole way of an open, in two processes that share nothing: `host` and
`session` change only in actions of the main process, `view` and `work` only in
actions of the renderer; `toMain` and `toView` are the channels.

| TLA+ | code |
| --- | --- |
| `host.queue`, `host.at`, `host.ready` | the pending open-file events, the flush in progress, renderer ready (`EXP/main.cjs`) |
| `host.tried` | auxiliary: the event whose dispatch was tried last |
| `host.results`, `host.staged`, `host.recent` | results waiting to be consumed, opens staged for Recent, the Recent list (`EXP/main.cjs`) |
| `session.latest`, `.active`, `.opens`, `.pickers` | request counter, active source, opens and dialogs under way (`multiformat-desktop-session.cjs`, `multiformat-native-picker.cjs`) |
| `view.request`, `.event`, `.eventRequest` | the active request and the host file open of the preview controller |
| `view.shown`, `.model`, `.player`, `.svga`, `.loading` | what the window shows, and in which workflow |
| `work` | SVGA loads at inspection or mount, and commits under way (`short-term-macos-file-surface.mjs`, `short-term-macos-controller.mjs`) |
| `seen` | ghost: sources that were ever shown |
| `user` | which user this is: `{}` opens files by path and by events only, `Uses` also does what `Uses` says ("dialog", "close", "gone"); fixed by `Init` |

A source is one open of one file, named by its number in the session. Event
actions are `OpenFileEvent`, `RendererReady`, `EventDenied`, `EventAuthorized`,
`EventBegun`, `EventAccepted`, `EventRejected`, and on the other side
`Authorize` (with the discard question, `Decide`), `BeginHostFileOpen`,
`CompleteHostFileOpen`, `HostResultConsumed`. A user's open is `OpenByPath`
(drop or recent) or `OpenFromHostDialog`, with `OpenRequested`, `RecentMissing`
(the listed file is gone), `PickerRequested`, `Picked`, `PickerEnded` and the
answers `Answered`, `Cancelled`, `OpenTimedOut`. Every answer ends in
`ApplyOpenOutcome`, whose branches are those of `applyOpenedHostResult`; an
SVGA file is then inspected and mounted (`Inspected`, `Mounted`) and committed
to Recent (`CommitOpen`). `CloseFile`, `CloseSvga` and `DisposeSession` close.

Abstracted: the `.aep` handoff is a refused open (it leaves a source on neither
side); a drop without a path and a reload of the window are left out; the
user's controls and replacements are not in this module.

### RuntimeEdits

The text edits of a Lottie or VAP preview, renderer and main process, with an
ordered channel each way (`toHost`, `toWindow`). The key of a text stands for
its id and for its runtime target.

| TLA+ | code |
| --- | --- |
| `shown`, `view`, `model`, `mounted` | `state.sourceId`, `.view`, `.model`; what the player was prepared with |
| `asked`, `waiting`, `closing` | opens asked for; the answer, or the disposal of `closeFile`, is awaited |
| `typed`, `intents[k]` | `runtimeTextMutationSequence`; `runtimeTextMutationIntents`, with how the intent ended |
| `queues[k]`, `sent[k]` | the intents that wait in `runtimeTextMutationQueues`; the one whose command is under way |
| `mayHave`, `values[k]` | `runtimeTextMutationMayHaveAuthority`; `runtimeReplacementValues`, with the file each is for |
| `opening`, `hosted`, `edited` | the open the main process works on, the session's active source, its record |
| `dropped` | auxiliary: texts whose last accepted answer was not taken in |

Actions: `AskOpen`, `CloseFile`, `UpdateRuntimeText` (every keystroke makes an
intent), `ShowPreview`, `ApplyIntent` (the head of a queue sends its command,
unless a newer intent exists), `HostTakes` (`HostApplies`, `HostResets` or a
disposal), `HostOpens`, `WindowTakes` (`TakeOpened`, `TakeDisposed`,
`TakeEdited`). The main process answers a command within one turn of its event
loop, since a replaced text is validated and stored without an await that
waits; that is why commands and answers keep their order and why a reset cannot
overtake an apply there. An answer may come without a model ("bare"): the
source or the target is no longer what the command names, which `HostDeclines`
allows at any time, or the binding of an accepted edit is found malformed, which
`MayBeUnusable` allows where the answer is taken.

Abstracted: opens that overlap (the subject of `HostFileOpen` and
`DesktopSession`), and images, which have no queue.

### WindowBoundsPolicy and WindowPlacement

`WindowBoundsPolicy` is the geometry, as operators without state: the work area
a placement belongs to, clamping, centring, and the four ways a launch is given
bounds (restored, clamped, centred, default). It translates
`short-term-window-bounds-policy.cjs` and `chooseMacosWindowBounds`.

| TLA+ (`WindowPlacement`) | code (`EXP/main.cjs`, `short-term-window-placement-store.cjs`) |
| --- | --- |
| `screen` | what Electron's `screen` reports: displays with work areas, the primary one |
| `process[p]` | whether process `p` runs and how it was launched |
| `bounds[p]`, `mode`, `launchSize`, `ordinary`, `held` | the window, its mode, `shortTermLaunchWindowSize`, whether it is in an ordinary state, whether the owner holds its title bar |
| `applying`, `settling` | `applyingShortTermWindowBounds`, `shortTermWindowBoundsTimer` |
| `dirty`, `saving` | `ownerWindowPlacementDirty`, `ownerWindowPlacementSaveTimer` |
| `step[p]`, `seen[p]`, `own[p]`, `writes[p]`, `closing[p]` | the write under way: its next system call, the target it began with, its temporary file, its record, whether the process ends with it |
| `names`, `file`, `made` | the directory, and the files as inodes |
| `past` | the directories a power loss may leave |
| `orphans` | auxiliary: temporary files whose writer is gone |

Actions: `LaunchNormal`, `LaunchAcceptance` (which looks at the displays twice
in one turn, `main.cjs:7283` to `:7313`); `OwnerGrabs`,
`OwnerDrags`, `OwnerResizes`, `OwnerChangesState`, `SettleTimer`,
`SetWindowMode`, `DisplaysChange`; `SaveTimer` and `Close`, which begin a
write; `CreateTemporary`, `FillTemporary`, `Recheck`, `Publish`,
`UnlinkTemporary`, `SyncDirectory`, `FinalCheck`, and `CallFails` at each of
them; `Crash`, `PowerLoss`. A process that writes does nothing else meanwhile
(the calls are synchronous), but another process may. A power loss keeps what
was flushed and any prefix of the directory changes made since.

Abstracted: the checks of the parent directory, of file size and mode are calls
that may fail; removing a file of one's own succeeds.

### RollbackTransaction

| TLA+ | file or code (`local-stable-recovery.mjs`) |
| --- | --- |
| `roles`, `grown` | installed and previous bundle; bundles to which files were added |
| `stage[i]` | the staged copy of rollback `i`: none, partial or a copy |
| `journal[i]`, `next[i]` | the journal and its `.next` file; "torn" is unreadable, "bound" has a `manifestSha256` |
| `before[i]`, `manifest[i]`, `recorded[i]` | the journal's bindings; the manifest and the catalogs it describes |
| `registered` | what LaunchServices was last told |
| `pc`, `cur`, `seen` | the running command: next effect, its identifier, what it inspected |
| `exchanged`, `disturbed` | history: rollbacks whose exchange took place; rollbacks whose bundles another rollback or a promotion moved while their journal was left |

One action is one durable effect with the reads before it: `StartRollback`
(`NoCollision`), `WriteJournal`, `CopyStage`, `Recheck`, `AtomicSwap`,
`Postcheck`, `RegisterApp`, `PublishManifest`, `UpdateJournal` at each phase,
the removals; and `StartRecovery` (`RecoveryRoute`, which is
`classifyRollbackState` with the checks after it), the same effects, `Cleanup`.
`Stop` ends a command at any of them; `Tear` leaves an effect half done: a file
created and not written, a `.next` not renamed, a bundle partly copied or
removed. `Grow` changes a bundle without changing the hashes that name it.
`Promote` is the promotion tool as one step. Both a rollback and a promotion may
start while the journal of an interrupted rollback is left: a rollback looks at
files of its own identifier only (`:1388`), a promotion at staged copies only
(`promote-local-stable-app.mjs:444`).

### PromotionTransaction

| TLA+ | file or code (`promote-local-stable-app.mjs`) |
| --- | --- |
| `place` | the bundle at the target, the backup, the legacy backup and the stage |
| `quarantine`, `registered` | the attribute of the parent directory; the build LaunchServices was last told about |
| `journal`, `next`, `manifest` | the journal with its bindings, its `.next` file, the exchange manifest |
| `pc`, `stops` | the running command's next effect; interruptions so far |

Actions: `StageCandidate`, `WriteJournal`, `ClearQuarantine`, `MigrateLegacy`,
`FirstExchange`, `SecondExchange`, `RegisterApp`, `Publish`, `RemoveStage`,
`RemoveJournal`, with a journal update after each effect; `StartRecovery`
(the classification by bundles: `OriginalRoles`, `AfterFirstExchange`,
`Complete`), `RestoreLegacy`, `RestoreRename`, `RestoreQuarantine` and the
effects it shares; `Stop` and `Tear` as above; `Throw`, an effect refused by
the tool's own checks.

Abstracted: one command runs at a time (they are started by hand); a bundle is
its build, which is all `appPayloadMatches` compares; stale LaunchServices
records appear through their refusals only.

## 3. The runs: questions, bounds, fairness

Eight runs show properties, four show findings. Bounds cap counters in guards
only: the bound is on how many requests, events, commands or interruptions
occur, never on how their steps interleave. Type correctness is proved for
eight modules (section 4), so the runs spend their properties on other things.

`CHECK_DEADLOCK FALSE` is set in all runs but one for one reason: these systems
may really stop. With the bounds used up and nothing under way no step is left,
and an idle application that nobody touches is a correct one. In `placement`
the displays may always change and processes start again, so deadlock is
checked.

**workspace** (`MaxGen = 3`, `MaxSess = 2`, `FairSpec`, 185,920 states). Three
requests, each an open or a disposal, and two SVGA players. Two requests make
"old and new"; the third lets a disposal or a failed open stand between them;
the second player is what recovery creates. Shows `OneLiveChild`,
`UsableHasChild`, the refinement of `LatestRequestPreview` (`RefinesContract`),
and `OpenSettles`: the silent return after an await is taken only by calls that
were really superseded. Fairness: weak fairness of each suspended continuation,
load and delegate call. The host answers each read and the event loop runs each
continuation; new opens and controls are the user's and are not fair. A
rejected promise ends the obligation, because the caller is told.

**vertical_safety** (`MaxGen = 3`, `MaxSess = 2`, `FairSpec`, 81,418 states).
The same questions one layer down, for both formats: `PlaybackIsCurrent`,
`UrlsAccounted`, `OpenSettles`, `RefinesContract`. Fairness: each step of an
open, and each step of a load (the runtime library arrives or fails).
`PlaybackIsCurrent` has one exception, which the code makes: a VAP player made
after its load was superseded may be there until the vertical sees the answer of
that load, and is disposed then.

**owner** ({t1, t2} symmetric, `MaxGen = 5`, `MaxOverlapping = 3`, about 1.75
million states). Both callers in one instance. For one whose commands overlap,
three operations are open - edit - open or open - edit - reset with every
interleaving of their answers, controls and disposals; for one that awaits
each, five are an open, an edit of each of two targets, a targeted reset that
fails and rolls back, and another command. Shows `EditsBelongToFile`,
`ShowsTheOpenFile`, `RevisionNamesRecord` for both, and `SettledAtRest` and
`SiblingsSurvive` for the caller that awaits. The symmetry is sound: the two
targets are interchangeable and only safety is checked.

**desktop_edits** (`MCSpec`, 310,774 states) checks two modules that share no
variable, the session and the window's text edits, each with the other at rest:
`side` says whose steps are taken.

* `DesktopSession` (targets a and b, `Serial = TRUE`, `MaxSessions = 3`,
  `MaxCommands = 3`, `MaxPicks = 1`). Three sessions are an older open, a newer
  one, and one that a command built or that a disposal waits for. Two keys and
  three commands are an edit, an edit of the other key, and a reset. Shows
  `SourcesAccounted`, `PreviewIsRecord`, `RecordedAsSeen`,
  `AuthorityMovesForward` (the refinement of `SourceAuthority`) and
  `OpensSettle`. `RecordedAsSeen` compares what a caller saw, before a dialog
  and the preparation of a patched copy, with the record the edit lands on; two
  checks keep it, one in the main process when the dialog is down and one in
  the session when the copy is ready, and it fails without either. Fairness:
  the import ends, the deadline fires, a failed creation is seen, a waiting
  disposal goes on. The candidate's answer is not fair: the deadline must do
  without it.
* `RuntimeEdits` (two texts, one value besides the empty and the original one,
  any closings, `MaxTyped = 3`, `MaxOpens = 2`, together at most `MaxInputs =
  4`). Three edits are what a reset in flight between two edits of one text
  takes, and two edits of one text beside one of another; with three edits
  there is one open, with two there are two. Shows `RecordIsTyped`,
  `PlayerIsRecord`, `NothingInherited` and `EditsSettle`. Fairness: both
  processes take the messages that reach them and each queue goes on; nothing
  makes the user type or open, and nothing makes an open end, since no queue
  waits for one.

**open** (two events, two user requests of any kind, one SVGA file the renderer
may fail to play and one Lottie file, `Uses = {"dialog", "close", "gone"}`,
2,518,918 states). Two events and two requests give four sources, of which any may
supersede any other. `RecordedWasShown`, `IdleQueueWasTried` and `ShownInOrder`
hold for any user. `PathsAreHeld` and `LoadsLeaveNothing` say of themselves for
which user they are (`user = {}`, who opens files by path, and whose recent
files are there): section 5 has the traces of the other one. Two requests are
enough for everything but (b'), which takes three; the proofs are for any
number.

**placement** (two symmetric processes, the two displays of the tests, a screen
that may lose one of them and shrink the other, two rectangles the owner may
choose, `MaxGestures = 2`, `MaxWrites = 2`, `MaxStops = 1`, about 490,000 states).
Two writes, of one process or of two at once, suffice for a first publication
by link, a replacement by rename, and one of each in a race; one stop leaves a
temporary name or a directory half changed for the other process to find. Shows
`StoredIsSound`, `TempsAccounted`, `LaunchesOnScreen`, `RestoresWhatWasSaved`,
`StaysReadable`.

**rollback_crash_safe** (two identifiers, three symmetric builds, 2,249,864
states). Two identifiers for a rollback that is finished or interrupted beside
one under way, three builds so that a promotion can bring a third one in
between; rollbacks, recoveries and promotions start at any moment no command
runs, whatever the last one left. Shows `ResidueHasAuthority`,
`ExchangeOnRecord`, `OutsideIsTold` and `OnceUnlessDisturbed` with a stop or a
torn effect at every step. The symmetry is sound: builds are interchangeable,
and the one temporal property is about single steps. `ResidueHasAuthority` and
`RegistrationIsCurrent` hold whatever is started; the others are about rollbacks
that nothing else disturbed, which are those the code can tell the truth about
(section 5, finding 4).

**promotion_crash_safe** (three builds, two interruptions, `FairSpec`, 31,264
states). Any number of promotions: the installed build, the previous one and a
candidate are three. Two interruptions are one of the promotion and one of its
recovery. Shows `AllOrNothing`, `NothingLost`, `InterruptedIsRecoverable` and
`RecoveryFinishes`. Fairness: a command that runs goes on or fails, and the
operator starts recovery; interruptions are not fair and are bounded, since one
that is interrupted for ever cannot end.

The `violation` runs **event_blocked** (two events, `FairSpec`),
**recovery_meets_residue**, **identifier_reused** (two identifiers, two builds)
and **reset_unavailable** show the findings of
section 5 on the smallest bounds that reach them. Fairness of the first: both
processes handle the messages that reach them, opens and loads end, and the
user answers the discard question, since nothing else can be done while it is
up. Nothing makes the user open, close or pick a file.

Each property of a passing run has a mutant in `PROJECT.json`: a small change
of one mapped definition, such as a check after an await that is dropped, under
which TLC finds the property violated. The mutated forms stand before the
definitions they change, under comments that start with "Mutant:".

## 4. What is proved

TLAPS proves 63 theorems, with 577 lemmas, for every value of the constants.

| module | for every | assumptions |
| --- | --- | --- |
| `PreviewWorkspace_proofs` | number of requests and players | `BoundsAssumption`: both bounds are naturals |
| `PreviewVertical_proofs` | format, number of opens and sessions | `BoundsAssumption`, likewise |
| `OwnerPreview_proofs` | set of targets, number of operations, serial or overlapping caller | `ParametersAssumption`: 0 (all targets) is not itself a target; the bounds are naturals |
| `DesktopEdits_proofs`, on `DesktopSession` | set of targets, number of sessions, commands and dialogs | `ParametersAssumption`: "none" is not a target; bounds and flag have their types |
| `DesktopEdits_proofs`, on `RuntimeEdits` | set of texts and values, number of intents and opens | `BoundsAssumption`: both bounds are naturals; `NoneIsNoValue`: the mark for "no value" is not something a user types |
| `HostFileOpen_proofs` | set of files, of playable and broken ones, of uses; number of events and requests | `ParametersAssumption`: types of the constants |
| `WindowPlacement_proofs` | set of processes, screens with a primary display, rectangles, ids | `ParametersAssumption`: types of the constants, and that a screen has its primary display |
| `RollbackTransaction_proofs` | set of identifiers and builds | none |
| `PromotionTransaction_proofs` | set of builds, number of interruptions | `BuildsAreNoStates`: "none" and "torn" are not builds; `StopsAssumption`: the bound is a natural |

Each module has the same layout: facts about helpers, the inductive invariant
`IInv` (`Inv` for `RuntimeEdits`) as a conjunction of named parts, one lemma per
action (for the larger modules one per action and part), the invariance theorem,
and the theorems that follow from it. Type correctness is a part of every
invariant. `DesktopEdits_proofs` holds the proofs about two modules, whose
definitions have distinct names for this.

Every invariant and every action property that a passing run checks is a
theorem; what the runs alone show is liveness (section 6).

**PreviewWorkspace.** `NewestWins`, `OneLiveChild` and `UsableHasChild` are not
inductive. The reasons are the parts of `IInv`: `Births` (a request or player
not yet created has no suspended call and no child), `NoChildBeforeRoute` (an
open that has not yet found its format has no child: without it a vertical
could be stored over a live player), `DelegateIsCurrent` and `SvgaIsCurrent`
(what the workspace refers to belongs to the newest request and is live),
`PreparedHolds`, and `LoadsMatch` (a suspended load of the player in use is one
of the newest open: recovery loads again under the same generation). Theorems:
`NewestAlwaysWins`, `NoOrphanChild`, `UsablePreviewIsBacked`,
`RecoveryIsCurrent`, `DisposedStaysDisposed`, and `ImplementsContract`, the
refinement `Spec => Contract!Spec` under `newest <- gen`,
`view <- [of |-> author, status |-> status]`.

**PreviewVertical.** `History` (sessions are created one after the other, each
for an open whose resources are ready), `Waiting` (a session waits for the
library before its answer), `Newest` (prepared resources and session are the
newest open's, and every other session is disposed), `OneForEach` (a VAP open
has one session, so its URL has one owner) and the property `UrlsAccounted`
itself. `Waiting` also says that a stray player is there only while the
answer of its load is on its way. Theorems: `PlaybackIsTheNewest`, `ObjectUrlsAreAccounted`,
`ImplementsContract`.

**OwnerPreview.** `NewestOp` is the heart: a suspended command of the newest
generation still finds the file it began with, its prepared record holds only
edits applied since that file was opened and has a higher revision than the
current one, and what it would roll back to is the current record. `SvgaOp`
says the same of an edit the SVGA controller is preparing, also when it is no
longer the newest. `Disposal` says that a disposed workspace has no request
that may still answer. Theorems: `EditsStayWithTheirFile`, `OpenFileIsShown`,
`RevisionIsAName`, `DisposedStaysDisposed`.

For the caller that awaits each command there is a second invariant,
`SerialInv`, since `SettledAtRest` speaks of a moment at which nothing is left
to remember how it came about. `OneAtATime`: a suspended command is the newest,
and nothing else is under way. `FindsItsLoad`: what each suspended command finds
when it goes on, such as, for a rollback, a runtime that already has the edits
on record. `LeftByTheLast`: between two commands model, workspace and record are
as the last operation that reached the runtime has left them, and operations
that did not reach it (blocked, or answered by the preflight) do not count.
`SvgaInStep`: an SVGA source shows what is on record at every moment. Theorems:
`SerialInvariant`, `RestIsSettled`, `SiblingsAreKept`.

**DesktopSession.** `Fresh` (numbers are given out in order), `Imported` (the
import limits the states of the sessions that need it), `Roles` (an open under
way is not yet anything else; nobody is accepted while a dispose command
waits), `OneEdit` (one edit under preparation at a time, and it is the newest
operation: this is where `Serial` enters), `Seen` (whatever `Serial` is, edits
of the active file have operations of their own, and the newest one was begun at
the revision its user saw), with `SourcesAccounted` and
`PreviewFollowsSource`. Theorems: `NothingIsLost`, `PreviewStaysWithSource`,
`SerialPreviewIsRecord`, `NothingIsEditedUnseen`, and `ImplementsAuthority`, the
refinement `Spec => Authority!Spec` under `newest <- latest`,
`asking <- latest \in opens`, `holder <- active`.

**HostFileOpen.** An event under dispatch is one token: a call or an answer in
a channel, the question on screen, an open of the session or a load of the
renderer, and never two of them (`Channels`, `Elsewhere`). `Queue` orders the
events, `Messages` and `Requests` say that what is in a channel is about a
request that was made, `Sources` that no number in a channel, an open or a load
exceeds the session's and that nothing shown is newer than what was answered,
`Recents` that what is staged or committed was shown. Theorems:
`OnlyShownIsRecorded`, `NoEventWaitsUntried`, `SourcesShownInOrder`.

`PathsAreHeld` compares the two processes at rest; the second invariant,
`PathInv`, says how they come to agree, for the user who opens by path only.
The renderer's newest request is a call, or the open of an event, that is still
somewhere on its way (`CallHeld`, `EventHeld`), or it is over (`RestHeld`). While
it is on its way nothing behind it in the channel can change the session's
active source; once the session has answered it, the answer agrees with that
source (`Agrees`) and nothing that could change it is on its way at all
(`Calm`). So when the answer is taken in, or the renderer had nothing to wait
for, what is shown is what the session holds. `LoadsHeld` says that one load at
most has authority, that its file is on screen, and that model and player are
those of the file on screen unless an inspection with authority is under way.
Theorems: `PathInvariance`, `ShownPathsAreHeld`, `SupersededLoadsLeaveNothing`.
TLC confirmed `PathInv` before the proof on an instance with three requests.

`SessionKeepsItsPromise` is about any user: the session of `HostFileOpen`, which
is a few lines, implements `SourceAuthority`, as does `DesktopSession`, which
models the same code in detail. The mapping is `newest <- session.latest`,
`asking <-` the newest open is under way, `holder <-` the number of the active
source. What the composition of the processes relies on is thus what the
detailed session is proved to promise. Besides `IInv` it takes that numbers are
used once (`Numbered`).

**RuntimeEdits.** `RecordIsTyped` and `PlayerIsRecord` are about a moment at
which both channels are empty; `Inv` says what holds of the messages until then.
`Turns` (one open or closing at a time), `Counted` (nothing has a sequence number
or a file that was not given out), `Queued` and `Behind` (a queue is in order,
and whatever is under way was typed before what waits for its text), `Closings`
(while a file is closed nothing of it is left in the window, and nothing typed
since overtakes the disposal), `Chained` (for a text of the file on screen one
command at most is under way, as a command or as an answer, and it is the one
its queue waits for), `Kept` (an accepted intent is on record), `Revisions` (the
records the window is told of are ever newer, and what is accepted makes a new
one: an answer that was accepted is never taken for one that changed nothing),
and `Knows`: the record, every record on its way and the player differ from what
the window knows of a text only by the accepted answers in between. Texts in
`dropped` are excepted from the last one. Theorems: `EditsInvariance`,
`TheLastEditIsKept`, `ThePlayerShowsTheRecord`, `NothingReachesAnotherFile`. TLC
confirmed `Inv` before the proof with two texts, three intents and two opens.

**WindowPlacement.** First the geometry, for all integers: `Clamp` stays in its
limits, a fitted rectangle lies in its work area, and one that lies in it
already is kept. Then the disk: `Writers` and `Owners` (a write keeps the place
of a window that was on a screen, in a temporary file of its own), `Flushed`
and `Unpublished` (it is flushed before any directory a power loss may leave
names it), `Withdrawn`, `Targets`, with `StoredIsSound` and `TempsAccounted`.
Theorems: `PreferenceIsSound`, `TemporariesAccounted`, `LaunchIsOnScreen`,
`PlacementIsRestored`, `RecordStaysReadable`, `FirstIsKept`.

**RollbackTransaction.** `JournalTells` ties a readable journal to the roles on
disk (unless the rollback was disturbed they are the journal's, or its reverse
exactly if the exchange took place), `TornJournal` says that nothing ever
followed a journal that cannot be read, `OwnJournal` that a running command has
the journal of its rollback, `ManifestTells` relates the manifest, and
`Position` says what is known at each program point. `RegistrationTells` takes
no exception: a registration that is out of date is always owed by some journal
whose recovery will make it, also when rollbacks have started over each other's
journals. Theorems: `ResidueIsOwned`, `ExchangeIsRecorded`,
`ManifestTellsTheTruth`, `RegistrationFollows`, `OutsideIsToldTheTruth` (the
two together), `ReuseNeedsDisturbance`. They hold for every order of commands:
no discipline of the operator is assumed.

**PromotionTransaction.** `Layout` lists where the bundles can be while a
journal is open (at home, half done, finished) and after it, `Evidence` ties
manifest, registration and quarantine to them, `Roles` says what the journal's
bindings can be, `Position` what is known at each program point. The invariant
needs no assumption that builds differ; `InterruptedIsRecoverable` makes it
itself. Theorems: `PromotionIsAllOrNothing`, `NoBuildIsLost`,
`InterruptedPromotionIsRecoverable`.

`NewestWins`, `PreparedIsCurrent`, `DisposedUntilReopened` (workspace),
`DisposedUntilOpened` (owner), `PreviewFollowsSource` (session),
`ManifestIsHonest`, `RegistrationIsCurrent` (rollback),
`FirstIsNotOverwritten` (placement) and, in `HostFileOpen`,
`AuthorityMovesForward` are stated and proved without a run of their
own: the refinements and the properties of the runs contain or imply most of
them, and a proof says more than a run.

## 5. What the checks found

Findings, each with its run and the line of the repository it contradicts
(quoted in `PROJECT.json`):

1. **event_blocked**: an SVGA file that the session accepts and the renderer
   cannot inspect or play stays at the head of the event queue, since the
   failure is answered with `false`. No timer or later step retries it, and
   every later event waits behind it. With playable files and a user who only
   watches, `EventsAreServed` holds (three events, 701 states).
2. **recovery_meets_residue**: a rollback stopped between writing the journal's
   `.next` file and renaming it, after the exchange, cannot be recovered:
   recovery writes the manifest, fails to bind the journal to it, and every
   later recovery refuses the manifest that is not bound.
3. **reset_unavailable**: a failed reset of a text forgets that the text may be
   replaced, and the test that remains calls a function that does not exist
   (`multiformat-desktop-preview-controller.mjs:549`). From then on every reset
   of that text fails inside the window.
4. **identifier_reused**: rollback `r1` exchanges and is stopped; rollback `r2`
   exchanges back and is stopped; recovery of `r1` finds the original roles,
   takes it for one that never exchanged and deletes its journal; `r1` may then
   be started, and exchanges, again, although
   `docs/product/SHORT_TERM_DISTRIBUTION_PREP.md:179` calls it single-use.
   `OnceUnlessDisturbed` is what the code keeps: it takes another rollback or a
   promotion between the interruption and the recovery.

Observations, reproduced with the models but without a run of their own. The
names in parentheses are definitions of the module in question that state the
expectation.

*Opening files (HostFileOpen)*
* (a) *Closing an SVGA file while it is inspected.* `CloseSvga` begins no new
  source authority (`short-term-macos-controller.mjs:342`), so the inspection
  that ends afterwards shows the closed file's model again, with no file
  behind it. `LoadsLeaveNothing` fails for a user who closes files.
* (b) *A file picked in the dialog after an event.* It becomes the session's
  active source even when an event has shown another file while the dialog was
  up (`main.cjs:5616`). The renderer ignores the answer; the window shows one
  file and the controls reach the other (`ShownIsHeld`).
* (b') *A recent file that is gone.* A Lottie file is shown. The user opens a
  second one by path, and, before it is answered, a recent file that no longer
  exists. That last request is refused without an open (`main.cjs:3925`), and
  the renderer keeps what it shows (`multiformat-desktop-preview-controller.mjs:2002`);
  the answer to the second request is ignored as superseded, although the
  session has made its file the active one. As in (b), the window shows one file
  and the controls reach the other. It takes three requests, so TLC needs
  `MaxRequests = 3`; the proof of `PathsAreHeld` met it first. `PathsAreHeld` is
  therefore about a user whose recent files are there ("gone" is one of `Uses`).
* (c) *A drop superseded by a cancelled dialog.* The drop shows the loading
  view; the dialog opened meanwhile takes a newer request, so the drop's answer
  is ignored; the dialog is cancelled and nothing replaces the loading view
  (`multiformat-desktop-preview-controller.mjs:156`, `:172`, `:696`).
* (d) *Two SVGA mounts that end in the other order* leave the file on screen
  without its player (`ShownHasPlayer`, `short-term-macos-controller.mjs:142`).
* (e) *A user's request that supersedes an event.* The event's dispatch is
  rejected and its entry stays at the head; the next event of another file
  dispatches the old one first.

*Rollback and promotion*
* (f) *A promotion before recovery.* A rollback is stopped before it copies
  anything; the previous build is promoted again, which reverses the roles; and
  recovery takes this for the exchange and writes its manifest. `OutsideIsTold`
  is therefore about rollbacks that were not disturbed, as is
  `ExchangeOnRecord`: finding 4 is also an exchange of which the disk keeps no
  record.
* (g) *Roles told from bundles that do not differ.* After a first install the
  place of the previous build is empty, and two absent payloads match
  (`promote-local-stable-app.mjs:409`), so the finished exchange looks as if it
  had not finished (`:1011`; `ExchangeIsRecognised`): publication throws
  (`:1159`), and so does recovery (`:1295`). The same happens when the
  installed and the previous app are one build.
* (h) *Residue that recovery cannot read* (`Unreadable`): recovery in original
  roles removes the stage before the journal (`:1277`), after which the state
  is no longer classified; the manifest is written before the journal has its
  hash (`:1191`), which a test wants recovery to refuse
  (`promote-local-stable-app.test.mjs:1865`); a `.next` file makes every update
  throw; a stage torn by a crash in its removal is ambiguous. A crash while the
  stage is copied leaves a stage without a journal, which blocks the next
  promotion. In all of these `AllOrNothing` and `NothingLost` hold.

*The window*
* (i) *A first publication that is cut.* The preference is published by `link`
  and then `unlink` (`short-term-window-placement-store.cjs:219`); a crash in
  between leaves a file with two names, and a file with two names is refused
  from then on (`:18`), for reading and for writing (`PublicationIsAtomic`).
* (j) *Placements that no owner chose are saved.* Bounds that the program set
  for the workbench (`main.cjs:708`, `:716`, `:782`) are written by the timer
  of an earlier gesture (`OnlyOwnerPlacements`).
* (k) A size restored at launch is lost again when the mode changes, since
  `shortTermLaunchWindowSize` starts at 640 by 640 (`main.cjs:445`, `:735`); a
  save during a drag clears `dirty`, and the rest of the drag, which is
  announced once, is not saved; a save that is refused is not retried
  (`:709`); between the last look at the target and the rename another process
  may publish (`short-term-window-placement-store.cjs:228`, `:231`), and its
  record is replaced, though by a whole one.

*Edits*
* (l) *A text restored while its reset is in flight.* The first answer is
  ignored as late, the second reset answers `replacement_reset_not_needed`, and
  the old value stays in the player although the record is empty. This is the
  exception (`dropped`) of `PlayerIsRecord`.
  `docs/reviews/2026-07-16-codex-multiformat-runtime-uiux-combined.md:34`
  promises otherwise.
* (m) Clearing a text to nothing is accepted by the host and shown as a
  failure; typing the source's own text where nothing is applied shows one too
  (`multiformat-desktop-preview-controller.mjs:549`).
* (n) *Overlapping owner commands.* A replacement command takes a generation
  before it is validated, so one that is blocked supersedes an open under way
  and leaves the model at loading. The desktop host offers replacements only
  for an opened file, so `SettledAtRest` is for the serial caller. A refused
  apply leaves the runtime with the refused edits; no source says which of the
  two the runtime should show, and `SettledAtRest` excludes it.
* (o) *Overlapping image commands.* With `Serial = FALSE` two edits of one
  SVGA file may end in the other order, and the patched copy that is shown is
  not the one on record: `PreviewIsRecord` fails.

*Verticals*
* (p) VAP recovery opens `lastInput` again also after an open that was refused
  in between, and so shows the file before it. When creating the object URL is
  rejected, the model stays at `inspectionReady` and the caller gets the
  rejection.
* (q) *A VAP player of a superseded load.* The adapter's last look is followed
  by an await (`vap-web-playback-adapter.ts:289`); a newer open or a disposal
  that runs there disposes the session, and the adapter makes its player all
  the same (`:290`). The vertical sees that the load is superseded when it
  answers and stops that player; until then it is in the container, with its
  URL. A test of the vertical is named after the opposite
  (`src/tests/vap-preview-vertical.test.ts:208`: "prevents stale runtime
  construction"); it supersedes the load while the object URL is made, not
  here. The property without its exception, that every player is `session`'s,
  fails for VAP and holds for Lottie.

## 6. What is not modelled, and what is only model-checked

*Only model-checked*: `OpenSettles` (workspace and verticals), `OpensSettle`,
`RecoveryFinishes`, `EditsSettle` and, where it holds, `EventsAreServed`:
liveness under fairness is out of the proof system's reach, as is ENABLED.
Nothing here is defined by recursion, so induction over data, the third thing
the prover cannot do, is not needed. What the four violation runs refute is no
theorem, of course; neither are the expectations named in section 5.

*Left out of modelled components*: the payloads of `prepareRuntimePreview` and
the writing of dropped bytes (session); DOM mounts, layout, image edits'
presentation and the SVGA views for optimisation, rename, compare and save
(renderer); menus, settings, smoke and acceptance proofs (main process).

*Not modelled at all*:
* the short-term host session with the workbench core: its queue
  (`short-term-host-session.ts:268`) finishes each action before the next
  begins, which leaves a sequential reducer;
* the image edit history: a synchronous list with one caller;
* the AEB native preview session: at this commit nothing starts it, so no
  caller fixes in which order its operations run;
* the AEB retained bake: it surrounds an external renderer whose behaviour only
  its own acceptance scripts pin down, and the application does not load it;
* SVGA parsing and editing, optimisation, VAP and Lottie inspection,
  diagnostics, reports, the exporter: stateless code on large data, where a
  model checker reaches nothing a unit test does not;
* the older web product, the player preview, and the scripts that check
  documents and build review packages: by size most of the repository, and not
  part of the program.

Faults not modelled: a crash of the main process or the renderer during an open
(nothing of it is persistent except the Recent list), a message lost between
the two (Electron's IPC is reliable and ordered), a disk that loses what was
synced.

## 7. The plan

Done, in the order of the layers: `PreviewWorkspace`, `PreviewVertical`,
`OwnerPreview`, `DesktopSession`, `HostFileOpen`, `RuntimeEdits`,
`WindowPlacement`, `RollbackTransaction`, `PromotionTransaction`.

Next, in this order:

1. The composition that is so far made by hand, through what one module proves
   and the next assumes: `PreviewVertical` in place of the arbitrary child of
   `PreviewWorkspace`. For the session the two modules meet in
   `SourceAuthority`.
2. What is true of the users that `PathsAreHeld` leaves out: after the next open
   by path that is accepted the two processes agree again.
3. `ShortTermHostSession` and `ImageEditHistory`, when operations of theirs
   begin to overlap; the one-use check before an await of the retained bake
   (`aeb-retained-bake-panel-host.ts:472`) and the AEB preview session, when the
   application loads them.
