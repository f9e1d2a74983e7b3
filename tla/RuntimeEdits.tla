----------------------------- MODULE RuntimeEdits -----------------------------
(***************************************************************************)
(* Text edits of a Lottie or VAP preview: the mutation queues of           *)
(* web/multiformat-desktop-preview-controller.mjs and the commands they    *)
(* send to the main process (main.cjs) and its preview session.            *)
(*                                                                         *)
(* Every keystroke makes an intent; the intents of one text are applied    *)
(* one after the other, each only if no newer one exists, and what comes   *)
(* back is taken in only if that is still so.  The main process answers a  *)
(* command within one turn of its event loop, so commands and answers keep *)
(* their order; an open of another file takes as long as it takes.         *)
(*                                                                         *)
(* Simplifications: the id of a text and its runtime target are one key;   *)
(* one open, or one closing, at a time (opens that overlap are the subject *)
(* of HostFileOpen and DesktopSession); images, which have no queue, are   *)
(* left out.                                                               *)
(*                                                                         *)
(* Names differ from those of DesktopSession (EditsInit, editsVars and so  *)
(* on), so that one module can prove theorems about both.                  *)
(***************************************************************************)
EXTENDS Naturals, Sequences

CONSTANTS
  Keys,      \* texts of a file
  Values,    \* what may be typed, besides nothing and the text of the source
  MaxTyped,  \* bound on intents
  MaxOpens   \* bound on files opened

ASSUME BoundsAssumption == MaxTyped \in Nat /\ MaxOpens \in Nat

Source == "source"   \* the text as the file has it
Empty == "empty"     \* no text at all
None == "none"
NoPlayer == [none |-> TRUE]

Edits == Values \cup {Empty, Source}

\* None says that there is no value; what is typed is a value, if empty.
ASSUME NoneIsNoValue == None \notin Values

VARIABLES
  shown,     \* state.sourceId, 0 if no file is shown
  view,      \* state.view
  model,     \* state.model.replacement and whether the model is mountable
  asked,     \* opens asked for; their number is the id of the file
  waiting,   \* the answer of the last one is awaited
  closing,   \* closeFile waits for the disposal
  typed,     \* runtimeTextMutationSequence
  intents,   \* intents[k]: runtimeTextMutationIntents, and how the intent ended
  queues,    \* queues[k]: intents that wait in runtimeTextMutationQueues
  sent,      \* sent[k]: the intent whose command is under way, 0 if none
  mayHave,   \* runtimeTextMutationMayHaveAuthority
  values,    \* values[k]: runtimeReplacementValues, with the file it is for
  mounted,   \* what the player was prepared with
  toHost,    \* commands, in order
  toWindow,  \* answers, in order
  opening,   \* the open the main process works on, 0 if none
  hosted,    \* activeSourceId of the session
  edited,    \* its record of replacements
  dropped    \* auxiliary: texts whose last accepted answer was not taken in

intentVars == <<typed, intents, queues, sent, mayHave, values>>
windowVars == <<shown, view, model, asked, waiting, closing, mounted>>
hostVars == <<opening, hosted, edited>>
editsVars == <<intentVars, windowVars, hostVars, toHost, toWindow, dropped>>

NoIntent == [sequence |-> 0, value |-> Source, state |-> "none"]
NoValue == [source |-> 0, value |-> None]
Untouched == [revision |-> 0, edits |-> [k \in Keys |-> Source], ready |-> TRUE]

EditsInit ==
  /\ shown = 0 /\ view = "launch" /\ model = Untouched
  /\ asked = 0 /\ waiting = FALSE /\ closing = FALSE
  /\ typed = 0
  /\ intents = [k \in Keys |-> NoIntent]
  /\ queues = [k \in Keys |-> <<>>]
  /\ sent = [k \in Keys |-> 0]
  /\ mayHave = {}
  /\ values = [k \in Keys |-> NoValue]
  /\ mounted = NoPlayer
  /\ toHost = <<>> /\ toWindow = <<>>
  /\ opening = 0 /\ hosted = 0 /\ edited = Untouched
  /\ dropped = {}

-----------------------------------------------------------------------------
(* The renderer.                                                           *)

\* invalidateRuntimeTextMutations and clearRuntimeReplacementValues: what is
\* still queued finds itself out of date and does nothing.
Invalidate ==
  /\ intents' = [k \in Keys |-> NoIntent]
  /\ queues' = [k \in Keys |-> <<>>]
  /\ sent' = [k \in Keys |-> 0]
  /\ mayHave' = {}
  /\ values' = [k \in Keys |-> NoValue]
  /\ dropped' = {}
  /\ UNCHANGED typed

AskOpen ==
  /\ ~waiting /\ ~closing /\ asked < MaxOpens
  /\ asked' = asked + 1
  /\ waiting' = TRUE
  /\ toHost' = Append(toHost, [kind |-> "open", file |-> asked'])
  /\ UNCHANGED <<intentVars, shown, view, model, closing, mounted, hostVars,
                 toWindow, dropped>>

\* closeFile, up to the disposal it awaits.
CloseFile ==
  /\ shown /= 0 /\ ~waiting /\ ~closing
  /\ Invalidate
  /\ closing' = TRUE
  /\ mounted' = NoPlayer
  /\ toHost' = Append(toHost, [kind |-> "dispose"])
  /\ UNCHANGED <<shown, view, model, asked, waiting, hostVars, toWindow>>

\* updateRuntimeText, resetRuntimeText and beginRuntimeTextMutationIntent.
UpdateRuntimeText(k, v) ==
  /\ view = "preview" /\ typed < MaxTyped
  /\ typed' = typed + 1
  /\ intents' = [intents EXCEPT ![k] =
                   [sequence |-> typed', value |-> v, state |-> "pending"]]
  /\ queues' = [queues EXCEPT ![k] =
                  Append(@, [sequence |-> typed', value |-> v, source |-> shown])]
  /\ UNCHANGED <<sent, mayHave, values, windowVars, hostVars, toHost, toWindow,
                 dropped>>

\* setMode: the preview is left in the background of a failure.
ShowPreview ==
  /\ view = "failed" /\ shown /= 0
  /\ view' = "preview"
  /\ UNCHANGED <<intentVars, shown, model, asked, waiting, closing, mounted, hostVars,
                 toHost, toWindow, dropped>>

\* runtimeTextMutationIntentIsCurrent
IntentIsCurrent(k, intent) ==
  intent.source = shown /\ intents[k].sequence = intent.sequence

\* showFailure
ShowFailure == view' = "failed" /\ mounted' = NoPlayer

Ended(k, how) == intents' = [intents EXCEPT ![k].state = how]

Send(k, intent, kind) ==
  /\ toHost' = Append(toHost, [kind |-> kind, key |-> k, intent |-> intent])
  /\ sent' = [sent EXCEPT ![k] = intent.sequence]
  /\ UNCHANGED <<intents, view, mounted>>

\* Mutant: the chain of a text ends with an intent that throws.
ChainBreaks(k, intent) ==
  /\ ShowFailure
  /\ Ended(k, "failed")
  /\ sent' = [sent EXCEPT ![k] = intent.sequence]
  /\ UNCHANGED toHost

\* Line 549 calls a function that does not exist; the catch of the queue
\* takes the error for a failed replacement.
ResetNotKnownToBeNeeded(k, intent) ==
  /\ ShowFailure
  /\ Ended(k, "failed")
  /\ UNCHANGED <<sent, toHost>>

\* applyRuntimeTextMutationIntent, up to the answer it awaits.
ApplyIntent(k) ==
  /\ sent[k] = 0 /\ queues[k] /= <<>>
  /\ queues' = [queues EXCEPT ![k] = Tail(@)]
  /\ LET intent == Head(queues[k])
     IN \/ /\ ~IntentIsCurrent(k, intent)
           /\ UNCHANGED <<intents, sent, mayHave, view, mounted, toHost>>
        \/ /\ IntentIsCurrent(k, intent) /\ intent.value = Source
           /\ IF k \in mayHave THEN Send(k, intent, "reset")
              ELSE ResetNotKnownToBeNeeded(k, intent)
           /\ UNCHANGED mayHave
        \/ /\ IntentIsCurrent(k, intent) /\ intent.value /= Source
           /\ mayHave' = mayHave \cup {k}
           /\ Send(k, intent, "apply")
  /\ UNCHANGED <<typed, values, shown, model, asked, waiting, closing, hostVars,
                 toWindow, dropped>>

-----------------------------------------------------------------------------
(* The main process and its session.                                       *)

\* A "bare" answer comes without a model.
Replies(message, status) ==
  toWindow' = Append(toWindow,
    [kind |-> message.kind, key |-> message.key, intent |-> message.intent,
     status |-> status, model |-> edited'])

\* The record after an edit was accepted.
Accepted(k, v) ==
  edited' = [revision |-> edited.revision + 1,
             edits |-> [edited.edits EXCEPT ![k] = v], ready |-> TRUE]

\* The file is not the active one, or its text cannot be selected any more.
HostDeclines(message) == UNCHANGED edited /\ Replies(message, "bare")

\* applyMultiFormatReplacement: blocked, or rejected by the format, whose
\* player is then gone.
HostApplies(message) ==
  \/ HostDeclines(message)
  \/ /\ message.intent.source = hosted
     /\ \/ Accepted(message.key, message.intent.value) /\ Replies(message, "accepted")
        \/ UNCHANGED edited /\ Replies(message, "refused")
        \/ edited' = [edited EXCEPT !.ready = FALSE] /\ Replies(message, "refused")

\* Mutant: a reset loads the file again and forgets the edits of other texts.
ForgetsOthers(message) ==
  /\ message.intent.source = hosted
  /\ edited' = [Untouched EXCEPT !.revision = edited.revision + 1]
  /\ Replies(message, "accepted")

\* resetMultiFormatReplacement: not needed; done; or failed, at once or after
\* the previous edits were loaded again.
HostResets(message) ==
  LET k == message.key
  IN \/ HostDeclines(message)
     \/ /\ message.intent.source = hosted
        /\ \/ UNCHANGED edited /\ Replies(message, "refused")
           \/ /\ edited.edits[k] /= Source
              /\ \/ Accepted(k, Source) /\ Replies(message, "accepted")
                 \/ /\ \E ready \in BOOLEAN : edited' = [edited EXCEPT !.ready = ready]
                    /\ Replies(message, "refused")

HostTakes ==
  /\ toHost /= <<>>
  /\ toHost' = Tail(toHost)
  /\ LET message == Head(toHost)
     IN \/ message.kind = "apply" /\ HostApplies(message) /\ UNCHANGED <<opening, hosted>>
        \/ message.kind = "reset" /\ HostResets(message) /\ UNCHANGED <<opening, hosted>>
        \/ /\ message.kind = "open"
           /\ opening' = message.file
           /\ UNCHANGED <<hosted, edited, toWindow>>
        \/ /\ message.kind \in {"dispose", "revoke"}
           /\ hosted' = 0 /\ edited' = Untouched
           /\ toWindow' = IF message.kind = "revoke" THEN toWindow
                          ELSE Append(toWindow, [kind |-> "disposed"])
           /\ UNCHANGED opening
  /\ UNCHANGED <<intentVars, windowVars, dropped>>

\* openLocalFilePath ends: accepted, or failed, which takes the active file
\* away.  It is not even called when the dialog is cancelled, or when there
\* is nothing to open ("unopened").
HostOpens ==
  /\ opening /= 0
  /\ opening' = 0
  /\ \E outcome \in {"accepted", "failed", "unopened", "cancelled"} :
       /\ hosted' = CASE outcome = "accepted" -> opening
                      [] outcome = "failed" -> 0
                      [] OTHER -> hosted
       /\ edited' = IF outcome \in {"accepted", "failed"} THEN Untouched ELSE edited
       /\ toWindow' = Append(toWindow, [kind |-> "opened", file |-> opening,
                                        outcome |-> outcome])
  /\ UNCHANGED <<intentVars, windowVars, toHost, dropped>>

-----------------------------------------------------------------------------
(* What the renderer makes of the answers.                                 *)

\* runtimePreviewReplacementPayload over the record of model m, as
\* normalizeRuntimePreviewReplacements merges them.
Payload(m, known) ==
  [k \in Keys |-> IF known[k].value /= None THEN known[k].value ELSE m.edits[k]]

\* mountRuntimePreview: the player is kept if it was prepared for the same
\* record, and gone if the model cannot be mounted.
MountRuntimePreview(m, known) ==
  mounted' = IF ~m.ready THEN NoPlayer
             ELSE IF /\ mounted /= NoPlayer
                     /\ mounted.revision = m.revision /\ mounted.edits = m.edits
                  THEN mounted
             ELSE [revision |-> m.revision, edits |-> m.edits,
                   texts |-> Payload(m, known)]

\* applyHostResult
ApplyHostResult(m, known) ==
  /\ model' = m
  /\ view' = "preview"
  /\ MountRuntimePreview(m, known)

\* Mutant: an accepted open does not clear what belonged to the last file.
KeepsValues(answer) ==
  /\ shown' = answer.file
  /\ ApplyHostResult(Untouched, values)
  /\ UNCHANGED <<intentVars, dropped>>

\* applyOpenedHostResult
TakeAcceptedOpen(answer) ==
  /\ Invalidate
  /\ shown' = answer.file
  /\ ApplyHostResult(Untouched, values')

\* revokeActiveDocumentAuthority: it does not wait for the disposal.
Revoke ==
  /\ Invalidate
  /\ shown' = 0
  /\ view' = "failed"
  /\ model' = Untouched
  /\ mounted' = NoPlayer
  /\ toHost' = Append(toHost, [kind |-> "revoke"])

\* showOpenFailure, where the file that was shown stays.
StayInPreview ==
  /\ view' = "preview"
  /\ UNCHANGED <<intentVars, shown, model, mounted, toHost, dropped>>

TakeOpened(answer) ==
  /\ answer.kind = "opened"
  /\ waiting' = FALSE
  /\ \/ /\ answer.outcome = "accepted"
        /\ TakeAcceptedOpen(answer)
        /\ UNCHANGED toHost
     \/ answer.outcome = "failed" /\ Revoke
     \/ answer.outcome = "unopened" /\ shown = 0 /\ Revoke
     \/ answer.outcome = "unopened" /\ shown /= 0 /\ StayInPreview
     \/ /\ answer.outcome = "cancelled"
        /\ UNCHANGED <<intentVars, shown, view, model, mounted, toHost, dropped>>
  /\ UNCHANGED closing

\* The rest of closeFile.
TakeDisposed(answer) ==
  /\ answer.kind = "disposed"
  /\ shown' = 0
  /\ view' = "launch"
  /\ model' = Untouched
  /\ closing' = FALSE
  /\ UNCHANGED <<intentVars, waiting, mounted, toHost, dropped>>

\* The chain goes on whatever became of the intent.
ChainContinues(k, intent) ==
  sent' = [sent EXCEPT ![k] = IF @ = intent.sequence THEN 0 ELSE @]

\* The answer of an intent that is out of date.
TakeLate(k, answer) ==
  /\ ~IntentIsCurrent(k, answer.intent)
  /\ dropped' = IF answer.status = "accepted" /\ answer.intent.source = shown
                THEN dropped \cup {k} ELSE dropped
  /\ UNCHANGED <<intents, mayHave, values, view, model, mounted>>

\* No model to show, or no runtime value: acceptedRuntimeReplacementValue has
\* none for a text without a character.
IsUnusable(answer) ==
  \/ answer.status = "bare"
  \/ answer.status = "accepted" /\ answer.kind = "apply" /\ answer.intent.value = Empty

\* The main process may also find the binding of what was accepted malformed,
\* and keeps the model to itself.
MayBeUnusable(answer) == IsUnusable(answer) \/ answer.status = "accepted"

TakeFailure(k, answer) ==
  /\ ShowFailure
  /\ Ended(k, "failed")
  /\ dropped' = IF answer.status = "accepted" THEN dropped \cup {k} ELSE dropped
  /\ UNCHANGED <<values, model>>

\* Mutant: the value of a text outlives its reset.
ResetKeepsValue(k, answer) ==
  /\ Ended(k, answer.status)
  /\ values' = IF answer.status = "accepted" /\ answer.kind = "apply"
               THEN [values EXCEPT ![k] = [source |-> shown, value |-> answer.intent.value]]
               ELSE values
  /\ dropped' = IF answer.status = "accepted" THEN dropped \ {k} ELSE dropped
  /\ ApplyHostResult(answer.model, values')

TakeResult(k, answer) ==
  /\ Ended(k, answer.status)
  /\ values' = IF answer.status /= "accepted" THEN values
               ELSE [values EXCEPT ![k] =
                       IF answer.kind = "reset" THEN NoValue
                       ELSE [source |-> shown, value |-> answer.intent.value]]
  /\ dropped' = IF answer.status = "accepted" THEN dropped \ {k} ELSE dropped
  /\ ApplyHostResult(answer.model, values')

TakeEdited(answer) ==
  /\ answer.kind \in {"apply", "reset"}
  /\ LET k == answer.key
     IN /\ ChainContinues(k, answer.intent)
        /\ \/ TakeLate(k, answer)
           \/ /\ IntentIsCurrent(k, answer.intent)
              /\ mayHave' = IF answer.kind = "reset" THEN mayHave \ {k} ELSE mayHave
              /\ \/ MayBeUnusable(answer) /\ TakeFailure(k, answer)
                 \/ ~IsUnusable(answer) /\ TakeResult(k, answer)
  /\ UNCHANGED <<typed, queues, shown, waiting, closing, toHost>>

WindowTakes ==
  /\ toWindow /= <<>>
  /\ toWindow' = Tail(toWindow)
  /\ LET answer == Head(toWindow)
     IN TakeOpened(answer) \/ TakeDisposed(answer) \/ TakeEdited(answer)
  /\ UNCHANGED <<asked, hostVars>>

-----------------------------------------------------------------------------
EditsNext ==
  \/ AskOpen
  \/ CloseFile
  \/ ShowPreview
  \/ \E k \in Keys : ApplyIntent(k) \/ \E v \in Edits : UpdateRuntimeText(k, v)
  \/ HostTakes
  \/ HostOpens
  \/ WindowTakes

EditsSpec == EditsInit /\ [][EditsNext]_editsVars

\* The event loops of both processes take what waits for them.
EditsFairness ==
  /\ WF_editsVars(HostTakes)
  /\ WF_editsVars(WindowTakes)
  /\ \A k \in Keys : WF_editsVars(ApplyIntent(k))

EditsFairSpec == EditsSpec /\ EditsFairness

-----------------------------------------------------------------------------
(* Properties.                                                             *)

\* Nothing is typed, under way or about to be answered for k.
NothingQueued(k) == queues[k] = <<>> /\ sent[k] = 0

\* The file in the window is the file of the session, and no answer about
\* it is on its way.
Together == shown /= 0 /\ shown = hosted /\ ~closing /\ toHost = <<>> /\ toWindow = <<>>

\* When the last edit of a text was taken, the record holds what was typed
\* last, however the intents, resets and answers before it overlapped.
RecordIsTyped ==
  \A k \in Keys :
    Together /\ NothingQueued(k) /\ intents[k].state = "accepted"
    => edited.edits[k] = intents[k].value

\* When nothing is under way the player shows the record, except for a text
\* whose last accepted edit was answered after it was out of date.
PlayerIsRecord ==
  Together /\ (\A k \in Keys : NothingQueued(k)) /\ mounted /= NoPlayer =>
    \A k \in Keys \ dropped : mounted.texts[k] = edited.edits[k]

\* Nothing of one file reaches another: what the renderer keeps for the
\* player was typed for the file it shows.
NothingInherited == \A k \in Keys : values[k].value /= None => values[k].source = shown

\* Every edit is settled in the end: no error keeps the ones behind it.
EditsSettle == \A k \in Keys : (queues[k] /= <<>>) ~> (queues[k] = <<>>)

-----------------------------------------------------------------------------
(* An expectation of the documents that the code does not meet.            *)

\* 2026-07-11-codex-0.2-multiformat-owner-preview-wp5.md: a failed reset
\* "keeps dirty replacement context, keeps reset available": an intent to
\* reset a text that the model in the window says is replaced reaches the
\* main process, as long as the file is not being closed.
ResetStaysAvailable ==
  [][\A k \in Keys :
       /\ ~closing
       /\ queues[k] /= <<>> /\ queues'[k] = Tail(queues[k])
       /\ Head(queues[k]).value = Source /\ IntentIsCurrent(k, Head(queues[k]))
       /\ model.edits[k] /= Source
       => toHost' /= toHost]_editsVars
=============================================================================
