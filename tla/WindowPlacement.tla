--------------------------- MODULE WindowPlacement ---------------------------
(***************************************************************************)
(* The placement of the desktop window, from launch to the file it is kept *)
(* in: main.cjs (resolveInitialMultiFormatWindowPlacement, the bounds      *)
(* policy of the window, persistOwnerWindowPlacement) and                  *)
(* short-term-window-placement-store.cjs.                                  *)
(*                                                                         *)
(* Processes of the application share one preference file.  A write is a   *)
(* synchronous call: inside its process nothing else runs, but another     *)
(* process may, and the process may be killed, or the machine lose power,  *)
(* between any two of its system calls.                                    *)
(*                                                                         *)
(* Simplifications: files are inodes, numbered as they are made; the       *)
(* directory itself is not replaced; removing a file of its own succeeds;  *)
(* a power loss keeps what was flushed and any prefix of the directory     *)
(* changes made since.                                                     *)
(***************************************************************************)
EXTENDS WindowBoundsPolicy

CONSTANTS
  Procs,        \* processes of the application that may run
  Screens,      \* what the screen may report: [displays, primary]
  OwnerRects,   \* where the owner may put the window
  Acceptance,   \* ids of the displays an acceptance run may ask for
  MaxGestures,  \* bound on what the owner and the renderer do to the windows
  MaxWrites,    \* bound on writes of the preference
  MaxStops      \* bound on crashes and power losses

ASSUME ParametersAssumption ==
  /\ Screens \subseteq [displays : SUBSET Display, primary : Nat]
  /\ \A s \in Screens : TheDisplay(s.primary, s.displays) \in s.displays
  /\ OwnerRects \subseteq Rect /\ Acceptance \subseteq Nat
  /\ MaxGestures \in Nat /\ MaxWrites \in Nat /\ MaxStops \in Nat

VARIABLES
  screen,     \* what the screen module reports
  process,    \* process[p]: whether it runs, and how it was launched
  bounds,     \* bounds[p]: window.getBounds()
  mode,       \* shortTermWindowMode
  launchSize, \* shortTermLaunchWindowSize
  ordinary,   \* the window is not minimized, fullscreen or maximized
  held,       \* the owner holds the window by its title bar
  applying,   \* applyingShortTermWindowBounds
  settling,   \* shortTermWindowBoundsTimer is set
  dirty,      \* ownerWindowPlacementDirty
  saving,     \* ownerWindowPlacementSaveTimer is set
  step,       \* step[p]: where its write stands
  seen,       \* seen[p]: the target its write began with, 0 if missing
  own,        \* own[p]: the temporary file of its write
  writes,     \* writes[p]: the record of its write
  closing,    \* closing[p]: the write is the last thing it does
  names,      \* the directory: the target, the temporary names
  past,       \* directories a power loss may leave
  made,       \* inodes made so far
  file,       \* file[i]: what is in inode i
  orphans,    \* auxiliary: temporary files whose writer is gone
  gestures,   \* bounds spent
  stops

screenVars == <<screen, gestures>>
windowVars == <<bounds, mode, launchSize, ordinary, held, applying, settling>>
saveVars == <<dirty, saving>>
writeVars == <<step, seen, own, writes, closing>>
diskVars == <<names, past, made, file, orphans>>
vars == <<screenVars, process, windowVars, saveVars, writeVars, diskVars,
          stops>>

-----------------------------------------------------------------------------
(* macosWorkbenchWindowSizing.                                             *)

LaunchSize == [width |-> 640, height |-> 640]
WorkbenchSize == [width |-> 1280, height |-> 800]
MinimumLaunch == [width |-> 640, height |-> 640]
MinimumSupported == [width |-> 1180, height |-> 760]

Files == 1 .. MaxWrites
Running == {"normal", "acceptance"}
Steps == {"idle", "create", "fill", "recheck", "publish", "unlink", "sync",
          "check"}

TypeOK ==
  /\ screen \in Screens
  /\ process \in [Procs -> Running \cup {"down"}]
  /\ bounds \in [Procs -> Rect \cup {None}]
  /\ \A p \in Procs : process[p] \in Running => bounds[p] \in Rect
  /\ mode \in [Procs -> {"launch", "workbench"}]
  /\ launchSize \in [Procs -> Size]
  /\ ordinary \in [Procs -> BOOLEAN]
  /\ held \in [Procs -> BOOLEAN]
  /\ applying \in [Procs -> BOOLEAN]
  /\ settling \in [Procs -> BOOLEAN]
  /\ dirty \in [Procs -> BOOLEAN]
  /\ saving \in [Procs -> BOOLEAN]
  /\ closing \in [Procs -> BOOLEAN]
  /\ step \in [Procs -> Steps]
  /\ seen \in [Procs -> 0 .. MaxWrites]
  /\ own \in [Procs -> 0 .. MaxWrites]
  /\ writes \in [Procs -> Record \cup {None}]
  /\ \A p \in Procs : step[p] /= "idle" => writes[p] \in Record
  /\ past \subseteq [target : 0 .. MaxWrites, temps : SUBSET Files]
  /\ names \in past
  /\ made \in 0 .. MaxWrites
  /\ file \in [Files -> [state : {"none", "partial", "written", "synced"},
                         record : Record \cup {None}]]
  /\ orphans \subseteq Files
  /\ gestures \in 0 .. MaxGestures
  /\ stops \in 0 .. MaxStops

Nowhere == [target |-> 0, temps |-> {}]

Init ==
  /\ screen \in Screens
  /\ process = [p \in Procs |-> "down"]
  /\ bounds = [p \in Procs |-> None]
  /\ mode = [p \in Procs |-> "launch"]
  /\ launchSize = [p \in Procs |-> LaunchSize]
  /\ ordinary = [p \in Procs |-> TRUE]
  /\ held = [p \in Procs |-> FALSE]
  /\ applying = [p \in Procs |-> FALSE]
  /\ settling = [p \in Procs |-> FALSE]
  /\ dirty = [p \in Procs |-> FALSE]
  /\ saving = [p \in Procs |-> FALSE]
  /\ step = [p \in Procs |-> "idle"]
  /\ seen = [p \in Procs |-> 0]
  /\ own = [p \in Procs |-> 0]
  /\ writes = [p \in Procs |-> None]
  /\ closing = [p \in Procs |-> FALSE]
  /\ names = Nowhere
  /\ past = {Nowhere}
  /\ made = 0
  /\ file = [i \in Files |-> [state |-> "none", record |-> None]]
  /\ orphans = {}
  /\ gestures = 0
  /\ stops = 0

-----------------------------------------------------------------------------
(* The preference file.                                                    *)

\* safeRegularFile: a file with one name only.
IsSafe(d) == d.target \notin d.temps

Writing == {p \in Procs : step[p] \notin {"idle", "create"}}

\* What readWindowPlacementPreference makes of directory d.
Stored(d) ==
  IF d.target = 0 THEN Missing
  ELSE IF IsSafe(d) /\ file[d.target].state /= "partial"
       THEN file[d.target].record
       ELSE Malformed

\* A write of another process may show as a change during the read.
ReadWindowPlacementPreference ==
  {Stored(names)} \cup {Malformed : p \in Writing}

\* A change of the directory, not yet flushed.
Rename(d) == names' = d /\ past' = past \cup {d}

WithoutOwn(p) == [names EXCEPT !.temps = @ \ {own[p]}]

-----------------------------------------------------------------------------
(* The end of a process.                                                   *)

\* What a process keeps in memory, and the values it starts with.
Fresh(f, P, value) == [p \in Procs |-> IF p \in P THEN value ELSE f[p]]

NoWrites(P) ==
  /\ step' = Fresh(step, P, "idle")
  /\ seen' = Fresh(seen, P, 0)
  /\ own' = Fresh(own, P, 0)
  /\ writes' = Fresh(writes, P, None)
  /\ closing' = Fresh(closing, P, FALSE)

\* Processes end; what they left half done on disk stays.
Gone(P) ==
  /\ process' = Fresh(process, P, "down")
  /\ bounds' = Fresh(bounds, P, None)
  /\ mode' = Fresh(mode, P, "launch")
  /\ launchSize' = Fresh(launchSize, P, LaunchSize)
  /\ ordinary' = Fresh(ordinary, P, TRUE)
  /\ held' = Fresh(held, P, FALSE)
  /\ applying' = Fresh(applying, P, FALSE)
  /\ settling' = Fresh(settling, P, FALSE)
  /\ dirty' = Fresh(dirty, P, FALSE)
  /\ saving' = Fresh(saving, P, FALSE)
  /\ NoWrites(P)
  /\ UNCHANGED screenVars

-----------------------------------------------------------------------------
(* Launch.                                                                 *)

\* A window of process p is constructed at b.
ConstructWindow(p, how, b) ==
  /\ process' = [process EXCEPT ![p] = how]
  /\ bounds' = [bounds EXCEPT ![p] = b]
  /\ UNCHANGED <<screenVars, mode, launchSize, ordinary, held, applying,
                 settling, saveVars, writeVars, diskVars, stops>>

\* A rejected placement ends the launch.
LaunchNormal(p) ==
  /\ process[p] = "down"
  /\ \E stored \in ReadWindowPlacementPreference :
       LET placement == ResolveNormalLaunchPlacement(stored, screen.displays,
                          screen.primary, LaunchSize, MinimumLaunch)
       IN /\ placement.status /= "rejected"
          /\ ConstructWindow(p, "normal", placement.bounds)

\* createExperimentWindow looks at the displays a second time, in the turn
\* in which the placement was chosen.
LaunchAcceptance(p, id) ==
  /\ process[p] = "down"
  /\ LET first == ResolveAcceptanceLaunchPlacement(id, screen.displays,
                    LaunchSize, MinimumLaunch)
         again == RevalidateAcceptanceLaunchPlacement(first, screen.displays,
                    MinimumLaunch)
     IN /\ first.status /= "rejected"
        /\ again.status /= "rejected"
        /\ ConstructWindow(p, "acceptance", again.bounds)

-----------------------------------------------------------------------------
(* The window.                                                             *)

\* The process can run its event handlers.
Idle(p) == process[p] \in Running /\ step[p] = "idle"

Gesture == gestures < MaxGestures /\ gestures' = gestures + 1

MayMark(p) == process[p] = "normal" /\ ~applying[p]

\* markOwnerWindowPlacementDirty
Marked(p) == dirty[p] \/ MayMark(p)

\* The handlers of move, moved, resize and resized: both timers restart,
\* the second only for a dirty placement of a normal launch.
Moved(p, unsaved) ==
  /\ settling' = [settling EXCEPT ![p] = @ \/ mode'[p] = "launch"]
  /\ saving' = [saving EXCEPT ![p] = @ \/ (unsaved /\ process[p] = "normal")]

\* will-move
OwnerGrabs(p) ==
  /\ Idle(p) /\ ~held[p] /\ Gesture
  /\ held' = [held EXCEPT ![p] = TRUE]
  /\ dirty' = [dirty EXCEPT ![p] = Marked(p)]
  /\ UNCHANGED <<screen, process, bounds, mode, launchSize, ordinary,
                 applying, settling, saving, writeVars, diskVars, stops>>

\* move and moved, while the owner drags the window or as he lets go of it.
OwnerDrags(p) ==
  /\ Idle(p) /\ held[p] /\ Gesture
  /\ \E r \in OwnerRects :
       bounds' = [bounds EXCEPT ![p].x = r.x, ![p].y = r.y]
  /\ \E on \in BOOLEAN : held' = [held EXCEPT ![p] = on]
  /\ UNCHANGED mode
  /\ Moved(p, dirty[p])
  /\ UNCHANGED <<screen, process, launchSize, ordinary, applying, dirty,
                 writeVars, diskVars, stops>>

MinimumOf(p) == IF mode[p] = "launch" THEN MinimumLaunch ELSE MinimumSupported

\* will-resize, then resize and resized.
OwnerResizes(p) ==
  /\ Idle(p) /\ Gesture
  /\ \E r \in OwnerRects :
       /\ MinimumFitsWorkArea(MinimumOf(p), r)
       /\ bounds' = [bounds EXCEPT ![p] = r]
       /\ launchSize' = IF mode[p] = "launch" /\ ~applying[p]
                        THEN [launchSize EXCEPT ![p].width = r.width,
                                                ![p].height = r.height]
                        ELSE launchSize
  /\ dirty' = [dirty EXCEPT ![p] = Marked(p)]
  /\ UNCHANGED mode
  /\ Moved(p, Marked(p))
  /\ UNCHANGED <<screen, process, ordinary, held, applying, writeVars,
                 diskVars, stops>>

\* Minimizing, zooming and entering full screen, and back.
OwnerChangesState(p) ==
  /\ Idle(p) /\ Gesture
  /\ ordinary' = [ordinary EXCEPT ![p] = ~@]
  /\ UNCHANGED <<bounds, mode>>
  /\ Moved(p, dirty[p])
  /\ UNCHANGED <<screen, process, launchSize, held, applying, dirty,
                 writeVars, diskVars, stops>>

\* setWindowBoundsWithoutRecordingUserResize; a window that does not move
\* has no events.
SetBounds(p, b) ==
  /\ bounds' = [bounds EXCEPT ![p] = b]
  /\ applying' = [applying EXCEPT ![p] = TRUE]
  /\ IF b = bounds[p] THEN UNCHANGED <<settling, saving>>
     ELSE Moved(p, dirty[p])

\* setImmediate
ImmediateRuns(p) ==
  /\ Idle(p) /\ applying[p]
  /\ applying' = [applying EXCEPT ![p] = FALSE]
  /\ UNCHANGED <<screenVars, process, bounds, mode, launchSize, ordinary,
                 held, settling, saveVars, writeVars, diskVars, stops>>

\* screen.getDisplayMatching(window.getBounds()).workArea
WorkAreaForWindow(p) ==
  LET over == SelectDisplayForPlacement(bounds[p], screen.displays)
      home == TheDisplay(screen.primary, screen.displays)
  IN IF over = None THEN home.workArea ELSE over.workArea

Preserved(p) ==
  PreserveWindowSizeAcrossDisplay(bounds[p], launchSize[p],
                                  WorkAreaForWindow(p), MinimumLaunch)

\* preserveShortTermLaunchWindowBounds, 80 ms after the last move.
SettleTimer(p) ==
  /\ Idle(p) /\ settling[p]
  /\ UNCHANGED mode
  /\ IF mode[p] = "launch" /\ Preserved(p) /= bounds[p]
     THEN SetBounds(p, Preserved(p))
     ELSE /\ settling' = [settling EXCEPT ![p] = FALSE]
          /\ UNCHANGED <<bounds, applying, saving>>
  /\ UNCHANGED <<screenVars, process, launchSize, ordinary, held, dirty,
                 writeVars, diskVars, stops>>

WorkbenchBounds(p) ==
  ChooseMacosWindowBounds(WorkbenchSize, WorkAreaForWindow(p), MinimumSupported,
                          TRUE)

\* setShortTermWindowMode, as the renderer asks for it with each view.
SetWindowMode(p, m) ==
  /\ Idle(p) /\ Gesture
  /\ mode' = [mode EXCEPT ![p] = m]
  /\ LET b == IF m = "workbench" THEN WorkbenchBounds(p)
              ELSE IF mode[p] = "launch" THEN Preserved(p)
              ELSE ChooseMacosWindowBounds(LaunchSize, WorkAreaForWindow(p),
                                           MinimumLaunch, FALSE)
     IN /\ SetBounds(p, b)
        /\ launchSize' = IF m = "launch"
                         THEN [launchSize EXCEPT ![p].width = b.width,
                                                 ![p].height = b.height]
                         ELSE launchSize
  /\ UNCHANGED <<screen, process, ordinary, held, dirty, writeVars,
                 diskVars, stops>>

\* Displays come, go or change; display-metrics-changed tells of the last.
DisplaysChange ==
  /\ Gesture
  /\ screen' \in Screens \ {screen}
  /\ \E told \in SUBSET {p \in Procs : process[p] \in Running /\ mode[p] = "launch"} :
       settling' = [p \in Procs |-> settling[p] \/ p \in told]
  /\ UNCHANGED <<process, bounds, mode, launchSize, ordinary, held, applying,
                 saveVars, writeVars, diskVars, stops>>

-----------------------------------------------------------------------------
(* Saving.                                                                 *)

DisplayOf(p) == SelectDisplayForPlacement(bounds[p], screen.displays)

\* The placement persistOwnerWindowPlacement would write, Malformed if none.
Placement(p) ==
  IF ~dirty[p] \/ process[p] /= "normal" \/ DisplayOf(p) = None THEN Malformed
  ELSE WindowPlacementRecordFromBounds(bounds[p], DisplayOf(p), ordinary[p])

MayWrite(p) ==
  /\ Placement(p) /= Malformed
  /\ names.target = 0 \/ IsSafe(names)

\* The write has begun: bindParentDirectory and the first lstat are done.
BeginWrite(p, last) ==
  /\ step' = [step EXCEPT ![p] = "create"]
  /\ seen' = [seen EXCEPT ![p] = names.target]
  /\ writes' = [writes EXCEPT ![p] = Placement(p)]
  /\ closing' = [closing EXCEPT ![p] = last]
  /\ saving' = [saving EXCEPT ![p] = FALSE]
  /\ UNCHANGED <<screenVars, process, windowVars, dirty, own, diskVars, stops>>

\* 300 ms after the last move.
SaveTimer(p) ==
  /\ Idle(p) /\ saving[p]
  /\ \/ MayWrite(p) /\ BeginWrite(p, FALSE)
     \/ /\ ~MayWrite(p)
        /\ saving' = [saving EXCEPT ![p] = FALSE]
        /\ UNCHANGED <<screenVars, process, windowVars, dirty, writeVars,
                       diskVars, stops>>

\* The close event of the window; the process then ends.
Close(p) ==
  /\ Idle(p)
  /\ \/ MayWrite(p) /\ BeginWrite(p, TRUE)
     \/ ~MayWrite(p) /\ Gone({p}) /\ UNCHANGED <<diskVars, stops>>

At(p, here) == process[p] \in Running /\ step[p] = here

GoTo(p, next) ==
  /\ step' = [step EXCEPT ![p] = next]
  /\ UNCHANGED <<screenVars, process, windowVars, saveVars, seen, writes,
                 closing, stops>>

\* The call returns.
Return(p, saved) ==
  IF closing[p] THEN Gone({p}) /\ UNCHANGED stops
  ELSE /\ NoWrites({p})
       /\ dirty' = [dirty EXCEPT ![p] = @ /\ ~saved]
       /\ UNCHANGED <<screenVars, process, windowVars, saving, stops>>

\* Mutant: the temporary file is removed only where the code throws.
ReturnsAtOnce(p) == Return(p, FALSE) /\ UNCHANGED diskVars

\* A failure, and the finally block.
Failed(p) ==
  /\ Return(p, FALSE)
  /\ IF own[p] \in names.temps THEN Rename(WithoutOwn(p)) ELSE UNCHANGED <<names, past>>
  /\ UNCHANGED <<made, file, orphans>>

\* openSync with O_CREAT and O_EXCL.
CreateTemporary(p) ==
  /\ At(p, "create")
  /\ made < MaxWrites
  /\ made' = made + 1
  /\ own' = [own EXCEPT ![p] = made']
  /\ file' = [file EXCEPT ![made'] = [state |-> "partial", record |-> writes[p]]]
  /\ Rename([names EXCEPT !.temps = @ \cup {made'}])
  /\ GoTo(p, "fill")
  /\ UNCHANGED orphans

\* Mutant: fsync of the file is left out.
WriteOnly(p) == file' = [file EXCEPT ![own[p]].state = "written"]

\* writeSync until all is written, then fsyncSync.
WriteAndSync(p) == file' = [file EXCEPT ![own[p]].state = "synced"]

FillTemporary(p) ==
  /\ At(p, "fill")
  /\ WriteAndSync(p)
  /\ GoTo(p, "recheck")
  /\ UNCHANGED <<names, past, made, orphans, own>>

\* fileIdentityUnchanged of the target.
TargetUnchanged(p) == names.target = seen[p] /\ (seen[p] = 0 \/ IsSafe(names))

\* Mutant: the old preference is removed before the new one is put there.
RemovesFirst(p) ==
  /\ At(p, "recheck") /\ TargetUnchanged(p)
  /\ Rename([names EXCEPT !.target = 0])
  /\ GoTo(p, "publish")
  /\ UNCHANGED <<own, made, file, orphans>>

Recheck(p) ==
  /\ At(p, "recheck")
  /\ IF TargetUnchanged(p)
     THEN GoTo(p, "publish") /\ UNCHANGED <<own, diskVars>>
     ELSE Failed(p)

\* linkSync for a missing target, which fails if there is one by now;
\* renameSync over the target otherwise.
PublishAs(p) ==
  \/ /\ seen[p] = 0 /\ names.target = 0
     /\ Rename([names EXCEPT !.target = own[p]])
     /\ GoTo(p, "unlink")
     /\ UNCHANGED <<own, made, file, orphans>>
  \/ seen[p] = 0 /\ names.target /= 0 /\ Failed(p)
  \/ /\ seen[p] /= 0
     /\ Rename([target |-> own[p], temps |-> names.temps \ {own[p]}])
     /\ GoTo(p, "sync")
     /\ UNCHANGED <<own, made, file, orphans>>

Publish(p) == At(p, "publish") /\ PublishAs(p)

UnlinkTemporary(p) ==
  /\ At(p, "unlink")
  /\ Rename(WithoutOwn(p))
  /\ GoTo(p, "sync")
  /\ UNCHANGED <<own, made, file, orphans>>

\* fsyncSync of the directory.
SyncDirectory(p) ==
  /\ At(p, "sync")
  /\ past' = {names}
  /\ GoTo(p, "check")
  /\ UNCHANGED <<own, names, made, file, orphans>>

\* The target is a file of the size written; a file of another process may
\* have that size too.
FinalCheck(p) ==
  /\ At(p, "check")
  /\ \/ IsSafe(names) /\ Return(p, TRUE)
     \/ (names.target /= own[p] \/ ~IsSafe(names)) /\ Return(p, FALSE)
  /\ UNCHANGED diskVars

\* A system call of the write fails.
CallFails(p) ==
  /\ process[p] \in Running
  /\ step[p] \in Steps \ {"idle"}
  /\ Failed(p)

-----------------------------------------------------------------------------
(* Crashes.                                                                *)

Stop == stops < MaxStops /\ stops' = stops + 1

Crash(p) ==
  /\ process[p] /= "down" /\ Stop
  /\ Gone({p})
  /\ orphans' = orphans \cup (names.temps \cap {own[p]})
  /\ UNCHANGED <<names, past, made, file>>

\* What was not flushed may be lost.
PowerLoss ==
  /\ Stop
  /\ Gone(Procs)
  /\ \E d \in past : names' = d /\ past' = {d} /\ orphans' = orphans \cup d.temps
  /\ file' = [i \in Files |->
                IF file[i].state = "written" THEN [file[i] EXCEPT !.state = "partial"]
                ELSE file[i]]
  /\ UNCHANGED made

-----------------------------------------------------------------------------
Launches(p) ==
  \/ LaunchNormal(p)
  \/ \E id \in Acceptance : LaunchAcceptance(p, id)

WindowStep(p) ==
  \/ OwnerGrabs(p)
  \/ OwnerDrags(p)
  \/ OwnerResizes(p)
  \/ OwnerChangesState(p)
  \/ ImmediateRuns(p)
  \/ SettleTimer(p)
  \/ \E m \in {"launch", "workbench"} : SetWindowMode(p, m)

WriteStep(p) ==
  \/ CreateTemporary(p)
  \/ FillTemporary(p)
  \/ Recheck(p)
  \/ Publish(p)
  \/ UnlinkTemporary(p)
  \/ SyncDirectory(p)
  \/ FinalCheck(p)

Next ==
  \/ \E p \in Procs :
       \/ Launches(p)
       \/ WindowStep(p)
       \/ SaveTimer(p)
       \/ Close(p)
       \/ WriteStep(p)
       \/ CallFails(p)
       \/ Crash(p)
  \/ DisplaysChange
  \/ PowerLoss

Spec == Init /\ [][Next]_vars

-----------------------------------------------------------------------------
(* Properties.                                                             *)

Sound(r) ==
  \E s \in Screens : \E d \in s.displays :
    d.id = r.displayId /\ IsWindowContainedInWorkArea(r.bounds, d.workArea)

\* Whatever is found under the name of the preference, also after a power
\* loss, is a whole record of a window that was inside a screen.
StoredIsSound ==
  \A d \in past : d.target /= 0 =>
    file[d.target].state = "synced" /\ Sound(file[d.target].record)

\* A temporary file belongs to a write under way or to one that was cut off.
TempsAccounted ==
  names.temps \subseteq orphans \cup {own[p] : p \in Writing}

\* A window is first shown inside a screen that is there, whatever is stored
\* and whatever has become of the screens since.
LaunchesOnScreen ==
  [][\A p \in Procs : process[p] \notin Running /\ process'[p] \in Running =>
       \E d \in screen.displays :
         IsWindowContainedInWorkArea(bounds'[p], d.workArea)]_vars

\* A placement that still fits is restored to the pixel.
RestoresWhatWasSaved ==
  [][\A p \in Procs :
       /\ process[p] = "down" /\ process'[p] = "normal"
       /\ Writing = {} /\ Stored(names) \notin {Missing, Malformed}
       /\ MinimumFitsWorkArea(MinimumLaunch, Stored(names).bounds)
       /\ \E d \in screen.displays :
            IsWindowContainedInWorkArea(Stored(names).bounds, d.workArea)
       => bounds'[p] = Stored(names).bounds]_vars

Readable(d) ==
  d.target /= 0 /\ IsSafe(d) /\ file[d.target].state = "synced"

\* Once a record is safely on disk there is one at every later moment,
\* whatever is cut off or fails.
StaysReadable ==
  [][(\A d \in past : Readable(d)) => (\A d \in past : Readable(d))']_vars

\* A write that found no preference never replaces one.
FirstIsNotOverwritten ==
  [][\A p \in Procs :
       seen[p] = 0 /\ step[p] = "publish" /\ names'.target = own[p]
       => names.target = 0]_vars

-----------------------------------------------------------------------------
(* Expectations of the documents that the code does not meet.              *)

\* short-term-window-placement-store.test.mjs: "placement preference uses a
\* bounded mode-0600 atomic file": with no write under way a reader finds no
\* preference or a whole one.
PublicationIsAtomic == Writing = {} => Stored(names) /= Malformed

\* 2026-07-15-codex-multiformat-window-placement-successor.md: "Only owner
\* move or resize of a normal [...] window can write the preference": where
\* the program puts the workbench is not written.
OnlyOwnerPlacements ==
  [][\A p \in Procs : step[p] = "idle" /\ step'[p] = "create" =>
       bounds[p] /= WorkbenchBounds(p)]_vars
=============================================================================
