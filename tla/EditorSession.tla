--------------------------- MODULE EditorSession ---------------------------
(***************************************************************************)
(* What a user does with one hand on the NVDA key, and with the clipboard, *)
(* in terminals that are already bound to their connections:               *)
(*                                                                         *)
(*   exploration  NVDA+h/j/k/l reads on from the cursor; the position lives *)
(*                in Neovim, NVDA numbers the steps and matches the results;*)
(*   context      NVDA+space shows parameters or diagnostics of the place  *)
(*                the cursor is at for as long as the key is held;         *)
(*   choice       NVDA+j/k/Enter walks over a prompt Neovim has open;      *)
(*   clipboard    a copy asks Neovim for a text and writes it to Windows.  *)
(*                                                                         *)
(* Four parties run concurrently: the keyboard hook (keys and gestures, it *)
(* queues handlers), the main thread (handlers, focus events, events of    *)
(* the connections), the dispatcher with the transports (may lose a control*)
(* and then reports it), and one Neovim per terminal.  Every terminal keeps*)
(* its own connection here: bindings that change are ConnectionGate's.     *)
(***************************************************************************)
EXTENDS Naturals, Sequences, FiniteSets, SequencesExt

CONSTANTS
  Terminals,     \* terminals of one Windows Terminal process
  Away,          \* the focus is in another application
  None,
  FeatureSets,   \* which of the four uses a behaviour exercises together
  MaxPending,    \* ExplorationController: max_pending_requests
  Items,         \* length of a prompt's list
  MaxGestures, MaxPeriods, MaxPlaces, MaxPrompts, MaxLosses    \* bounds

(* _ActiveExploration: its id, its terminal, its place and its last step.  *)
Explorations == [id : Nat, term : Terminals, origin : Nat, index : Nat]

ASSUME SessionAssumption ==
  /\ Away \notin Terminals /\ None \notin Terminals /\ None \notin Explorations
  /\ FeatureSets \subseteq SUBSET {"exploration", "context", "choice", "clipboard"}
  /\ MaxPending \in Nat \ {0} /\ Items \in Nat \ {0}
  /\ {MaxGestures, MaxPeriods, MaxPlaces, MaxPrompts, MaxLosses} \subseteq Nat

VARIABLES
  features,     \* the uses this behaviour exercises
  focus,        \* gate.focused and the focused object: a terminal or Away
  confirmed,    \* the gate is open for focus and its runtime is selected
  active,       \* active_instance_id: the terminal whose runtime is selected
  online,       \* per terminal: the runtime is connected
  known,        \* per terminal: the place current_state describes
  period,       \* number of the current focus: stands for the request ids
  held,         \* _heldNvdaModifiers is not empty
  flags,        \* _explorationActive, _developerContextActive, _numberedChoiceActive
  calls,        \* NVDA's queue of handlers
  script,       \* a script between reading the held keys and setting its flag
  gestures,     \* gestures made so far
  exploration,  \* the controller's active exploration, or None
  explorations, \* _nextExplorationId
  pending,      \* its requests without an answer, oldest first
  spoken,       \* the last result that was spoken
  context,      \* per terminal: the held context's location and request, or None
  view,         \* the developer context shown in Braille, or None
  choice,       \* per terminal: the prompt known to NVDA, or None
  requests,     \* clipboard requests without an answer
  written,      \* clipboard requests whose text was written to Windows
  place,        \* per Neovim: buffer, window, changedtick, mode and cursor
  moves,        \* changes of a place made so far
  far,          \* per Neovim: its virtual position, or None
  prompt,       \* per Neovim: the open prompt, or 0
  prompts,      \* prompts opened so far
  copied,       \* per bridge: the state copied for a request it is answering, or None
  outbox,       \* per terminal: controls on their way to Neovim
  inbox,        \* per terminal: events on their way to the main thread
  losses        \* controls refused or lost, events and transports lost so far

focusVars   == <<focus, confirmed, active, online, known, period>>
keyVars     == <<held, flags, calls, script, gestures>>
exploreVars == <<exploration, explorations, pending, spoken>>
contextVars == <<context, view>>
clipVars    == <<requests, written>>
editorVars  == <<place, moves, far, prompt, prompts, copied>>
linkVars    == <<outbox, inbox, losses>>
vars == <<features, focusVars, keyVars, exploreVars, contextVars, choice, clipVars,
          editorVars, linkVars>>

----------------------------------------------------------------------------
(* What is asked before anything is done for the focused terminal.         *)

(* is_active_neovim_context, and the selected runtime being connected too. *)
InNeovim(t)  == focus = t /\ confirmed /\ active = t
Available(t) == InNeovim(t) /\ online[t]

Idle == script = None

Call(kind) == [kind |-> kind, term |-> focus, number |-> gestures]

NextCall(kind) == Idle /\ calls # <<>> /\ Head(calls).kind = kind

Send(t, control) == outbox' = [outbox EXCEPT ![t] = Append(@, control)]

(* ControlDispatcher.submit returns False: its queue is full.              *)
Refused == losses < MaxLosses /\ losses' = losses + 1 /\ UNCHANGED outbox

Tell(t, event) == inbox' = [inbox EXCEPT ![t] = Append(@, event)]

(* A mistake the checks must notice: the requests outlive the exploration. *)
ForgetButRequests == exploration' = None /\ UNCHANGED pending

(* ExplorationController.invalidate *)
Forget == exploration' = None /\ pending' = <<>>

(* The developer context in Braille and speech, and its end.               *)
Show(t, at) == view' = [term |-> t, at |-> at]
Dismiss     == view' = None

(* cancel_held_context for the selected runtime: forget and dismiss.       *)
CancelContext ==
  IF active # None /\ context[active] # None
    THEN context' = [context EXCEPT ![active] = None] /\ Dismiss
    ELSE UNCHANGED contextVars

----------------------------------------------------------------------------
Init ==
  /\ features \in FeatureSets
  /\ focus = Away /\ confirmed = FALSE /\ active = None /\ period = 0
  /\ online = [t \in Terminals |-> TRUE] /\ known = [t \in Terminals |-> 0]
  /\ held = FALSE /\ flags = {} /\ calls = <<>> /\ script = None /\ gestures = 0
  /\ exploration = None /\ explorations = 0 /\ pending = <<>> /\ spoken = None
  /\ context = [t \in Terminals |-> None] /\ view = None
  /\ choice = [t \in Terminals |-> None]
  /\ requests = {} /\ written = {}
  /\ place = [t \in Terminals |-> 0] /\ moves = 0 /\ far = [t \in Terminals |-> None]
  /\ prompt = [t \in Terminals |-> 0] /\ prompts = 0 /\ copied = [t \in Terminals |-> None]
  /\ outbox = [t \in Terminals |-> <<>>] /\ inbox = [t \in Terminals |-> <<>>]
  /\ losses = 0

----------------------------------------------------------------------------
(* Focus.                                                                  *)

(* _discardTransientFocusContext: the exploration and the held context of  *)
(* the selected runtime, and every request of the two reply channels.  A   *)
(* numbered choice only loses its view.                                    *)
DiscardTransient == Forget /\ CancelContext /\ requests' = {}

(* event_gainFocus of a pane: a new identity closes the gate and asks the  *)
(* pane's Neovim for its place; the answer has to carry this request's id. *)
GainFocus(t) ==
  /\ Idle /\ focus # t /\ period < MaxPeriods
  /\ DiscardTransient
  /\ focus' = t /\ confirmed' = FALSE /\ period' = period + 1
  /\ IF online[t] THEN Send(t, [kind |-> "focus", period |-> period'])
                  ELSE UNCHANGED outbox
  /\ UNCHANGED <<features, active, online, known, keyVars, explorations, spoken, choice,
                 written, editorVars, inbox, losses>>

(* event_appModule_loseFocus: the keys are forgotten, the exploration, the *)
(* held context and the selected runtime's choice are cancelled.           *)
LoseFocus ==
  /\ Idle /\ focus # Away
  /\ held' = FALSE /\ flags' = {}
  /\ choice' = IF active = None THEN choice ELSE [choice EXCEPT ![active] = None]
  /\ DiscardTransient
  /\ focus' = Away /\ confirmed' = FALSE
  /\ UNCHANGED <<features, active, online, known, period, calls, script, gestures,
                 explorations, spoken, written, editorVars, linkVars>>

----------------------------------------------------------------------------
(* The keyboard hook.                                                      *)

PressKey ==
  /\ ~held /\ held' = TRUE
  /\ UNCHANGED <<features, focusVars, flags, calls, script, gestures, exploreVars,
                 contextVars, choice, clipVars, editorVars, linkVars>>

(* The handler of a flag that is set.                                      *)
Flagged(flag, kind) == IF flag \in flags THEN <<Call(kind)>> ELSE <<>>

(* _observeRawKey: the last NVDA key goes up, one handler per flag.        *)
ReleaseKey ==
  /\ held /\ held' = FALSE /\ flags' = {}
  /\ calls' = calls \o Flagged("exploration", "endExploration")
                    \o Flagged("choice", "endChoice") \o Flagged("context", "endContext")
  /\ UNCHANGED <<features, focusVars, script, gestures, exploreVars, contextVars, choice,
                 clipVars, editorVars, linkVars>>

Gesture(feature, kind) ==
  /\ feature \in features /\ gestures < MaxGestures
  /\ focus # Away /\ Available(focus)
  /\ gestures' = gestures + 1
  /\ calls' = Append(calls, Call(kind))

ChoiceOpen(t) == choice[t] # None

(* getScript: an exploration chord while an NVDA key is held.              *)
ExploreGesture ==
  /\ held /\ Gesture("exploration", "explore")
  /\ UNCHANGED <<features, focusVars, held, flags, script, exploreVars, contextVars,
                 choice, clipVars, editorVars, linkVars>>

ContextGesture ==
  /\ held /\ Gesture("context", "context") /\ ~ChoiceOpen(focus)
  /\ UNCHANGED <<features, focusVars, held, flags, script, exploreVars, contextVars,
                 choice, clipVars, editorVars, linkVars>>

(* _decideExecuteGesture: NVDA+j/k while a choice is available.            *)
NavigateGesture ==
  /\ held /\ Gesture("choice", "navigate") /\ ChoiceOpen(focus)
  /\ flags' = flags \cup {"choice"}
  /\ UNCHANGED <<features, focusVars, held, script, exploreVars, contextVars, choice,
                 clipVars, editorVars, linkVars>>

AcceptGesture ==
  /\ held /\ Gesture("choice", "accept") /\ ChoiceOpen(focus)
  /\ UNCHANGED <<features, focusVars, held, flags, script, exploreVars, contextVars,
                 choice, clipVars, editorVars, linkVars>>

CopyGesture ==
  /\ Gesture("clipboard", "copy")
  /\ UNCHANGED <<features, focusVars, held, flags, script, exploreVars, contextVars,
                 choice, clipVars, editorVars, linkVars>>

----------------------------------------------------------------------------
(* Exploration on the main thread.                                         *)

(* An exploration of this terminal, still where it began.                  *)
Underway(t) ==
  exploration # None /\ exploration.term = t /\ exploration.origin = known[t]

(* A mistake the checks must notice: a release at another place is skipped.*)
ReleaseInPlace(t) ==
  IF Underway(t) THEN Forget /\ Send(t, [kind |-> "end", id |-> exploration.id])
                 ELSE UNCHANGED <<exploration, pending, outbox>>

(* ExplorationController.release for the focused terminal, and the         *)
(* clean-up control for Neovim; any mismatch invalidates and says nothing. *)
Release(t) ==
  /\ Forget
  /\ IF Underway(t) THEN Send(t, [kind |-> "end", id |-> exploration.id])
                    ELSE UNCHANGED outbox

(* plan_step: a first step starts an exploration at the known place, a     *)
(* later one has to find the terminal and the place unchanged.             *)
NextStep(t) ==
  IF exploration = None
    THEN [id |-> explorations + 1, term |-> t, origin |-> known[t], index |-> 1]
    ELSE [exploration EXCEPT !.index = @ + 1]

Misplaced(t) == exploration # None /\ ~Underway(t)

Request(step) == [id |-> step.id, index |-> step.index]

(* A mistake the checks must notice: the table of requests grows.          *)
RememberedAll(queue) == queue

(* More than max_pending_requests: the oldest are forgotten.               *)
Remembered(queue) ==
  SubSeq(queue, IF Len(queue) > MaxPending THEN Len(queue) - MaxPending + 1 ELSE 1, Len(queue))

PlanStep(t) ==
  LET step == NextStep(t) IN
  /\ exploration' = step
  /\ explorations' = step.id
  /\ pending' = Remembered(Append(pending, Request(step)))
  /\ Send(t, [kind |-> "step", id |-> step.id, index |-> step.index, origin |-> step.origin])

(* _executeExploration up to the flag: explore_text, then the held keys    *)
(* are read.  A step the dispatcher refuses ends the exploration, and the  *)
(* script with it; the number of a new exploration is used up.             *)
RunExplore ==
  /\ NextCall("explore") /\ calls' = Tail(calls)
  /\ LET t == Head(calls).term IN
     IF Available(t) /\ ~Misplaced(t)
       THEN \/ /\ PlanStep(t) /\ UNCHANGED losses
               /\ script' = [kind |-> "exploration", term |-> t, held |-> held]
            \/ Refused /\ Forget /\ explorations' = NextStep(t).id /\ UNCHANGED script
       ELSE Forget /\ UNCHANGED <<explorations, outbox, script, losses>>
  /\ UNCHANGED <<features, focusVars, held, flags, gestures, spoken, contextVars, choice,
                 clipVars, editorVars, inbox>>

(* _executeExploration from the flag on: with no key held it releases.     *)
FinishExplore ==
  /\ script # None /\ script.kind = "exploration" /\ script' = None
  /\ IF script.held
       THEN flags' = flags \cup {"exploration"} /\ UNCHANGED <<exploreVars, outbox>>
       ELSE /\ flags' = flags \ {"exploration"}
            /\ IF Available(script.term) THEN Release(script.term)
                                         ELSE Forget /\ UNCHANGED outbox
            /\ UNCHANGED <<explorations, spoken>>
  /\ UNCHANGED <<features, focusVars, held, calls, gestures, contextVars, choice, clipVars,
                 editorVars, inbox, losses>>

(* _handleExplorationModifierRelease                                       *)
EndExploration ==
  /\ NextCall("endExploration") /\ calls' = Tail(calls)
  /\ IF focus # Away /\ Available(focus) THEN Release(focus) ELSE Forget /\ UNCHANGED outbox
  /\ UNCHANGED <<features, focusVars, held, flags, script, gestures, explorations, spoken,
                 contextVars, choice, clipVars, editorVars, inbox, losses>>

(* _handleControlDispatched: a step that could not be sent.                *)
StepFailed ==
  /\ NextCall("failed") /\ calls' = Tail(calls)
  /\ IF Contains(pending, Head(calls).request) THEN Forget ELSE UNCHANGED <<exploration, pending>>
  /\ UNCHANGED <<features, focusVars, held, flags, script, gestures, explorations, spoken,
                 contextVars, choice, clipVars, editorVars, linkVars>>

----------------------------------------------------------------------------
(* The held context on the main thread.                                    *)

(* HeldContextController.begin: the location and the request it waits for. *)
Begin(t, id) == context' = [context EXCEPT ![t] = [id |-> id, at |-> known[t]]]

(* start_held_context: a new location replaces what was held; the request  *)
(* goes out and an exploration ends.  When the dispatcher refuses it, only *)
(* what was held is gone.                                                  *)
RunContext ==
  /\ NextCall("context") /\ calls' = Tail(calls)
  /\ LET t == Head(calls).term IN
     IF Available(t) /\ ~ChoiceOpen(t)
       THEN /\ view' = IF context[t] = None THEN view ELSE None
            /\ \/ /\ Begin(t, Head(calls).number)
                  /\ Send(t, [kind |-> "query", id |-> Head(calls).number])
                  /\ Forget
                  /\ script' = [kind |-> "context", term |-> t, held |-> held]
                  /\ UNCHANGED losses
               \/ /\ Refused /\ context' = [context EXCEPT ![t] = None]
                  /\ UNCHANGED <<exploration, pending, script>>
       ELSE UNCHANGED <<contextVars, outbox, exploration, pending, script, losses>>
  /\ UNCHANGED <<features, focusVars, held, flags, gestures, explorations, spoken, choice,
                 clipVars, editorVars, inbox>>

(* _startDeveloperContext from the flag on.                                *)
FinishContext ==
  /\ script # None /\ script.kind = "context" /\ script' = None
  /\ IF script.held
       THEN flags' = flags \cup {"context"} /\ UNCHANGED contextVars
       ELSE flags' = flags \ {"context"} /\ CancelContext
  /\ UNCHANGED <<features, focusVars, held, calls, gestures, exploreVars, choice, clipVars,
                 editorVars, linkVars>>

(* _handleDeveloperContextModifierRelease: release_held_context only acts  *)
(* for an active terminal.                                                 *)
EndContext ==
  /\ NextCall("endContext") /\ calls' = Tail(calls)
  /\ IF focus = Away \/ InNeovim(focus) THEN CancelContext ELSE UNCHANGED contextVars
  /\ UNCHANGED <<features, focusVars, held, flags, script, gestures, exploreVars, choice,
                 clipVars, editorVars, linkVars>>

----------------------------------------------------------------------------
(* The numbered choice on the main thread.                                 *)

(* NumberedChoiceController.navigate, next and previous wrap around.       *)
Neighbours(item) == {(item % Items) + 1, IF item < 2 THEN Items ELSE item - 1}

RunNavigate ==
  /\ NextCall("navigate") /\ calls' = Tail(calls)
  /\ IF focus # Away /\ Available(focus) /\ ChoiceOpen(focus)
       THEN \E item \in Neighbours(choice[focus].item) :
              choice' = [choice EXCEPT ![focus].item = item]
       ELSE UNCHANGED choice
  /\ UNCHANGED <<features, focusVars, held, flags, script, gestures, exploreVars,
                 contextVars, clipVars, editorVars, linkVars>>

(* NumberedChoiceController.accept_plan: an item has to be selected.       *)
Acceptable(t) == ChoiceOpen(t) /\ choice[t].item # 0

Discard(t) == choice' = [choice EXCEPT ![t].item = 0]

(* complete_numbered_choice_accept: only in the terminal that authorised it;*)
(* the selection stays when the dispatcher refuses.                        *)
RunAccept ==
  /\ NextCall("accept") /\ calls' = Tail(calls)
  /\ LET t == Head(calls).term IN
     IF Available(t) /\ Acceptable(t)
       THEN \/ /\ Send(t, [kind |-> "accept", id |-> choice[t].id, item |-> choice[t].item])
               /\ Discard(t) /\ UNCHANGED losses
            \/ Refused /\ UNCHANGED choice
       ELSE UNCHANGED <<outbox, choice, losses>>
  /\ UNCHANGED <<features, focusVars, held, flags, script, gestures, exploreVars,
                 contextVars, clipVars, editorVars, inbox>>

(* _handleNumberedChoiceModifierRelease: the selection of the focused      *)
(* terminal is discarded, the prompt stays.                                *)
EndChoice ==
  /\ NextCall("endChoice") /\ calls' = Tail(calls)
  /\ IF focus # Away /\ Available(focus) /\ ChoiceOpen(focus)
       THEN Discard(focus) ELSE UNCHANGED choice
  /\ UNCHANGED <<features, focusVars, held, flags, script, gestures, exploreVars,
                 contextVars, clipVars, editorVars, linkVars>>

----------------------------------------------------------------------------
(* The clipboard on the main thread.                                       *)

(* plan_clipboard_request: the request, as the table of replies keeps it.  *)
CopyRequest(call) == [id |-> call.number, term |-> call.term, period |-> period]

Await(request) == requests' = requests \cup {request}

(* _requestNeovimCopy and send_control, which the transport may refuse.*)
RunCopy ==
  /\ NextCall("copy") /\ calls' = Tail(calls)
  /\ LET t == Head(calls).term
         request == CopyRequest(Head(calls)) IN
     IF Available(t)
       THEN \/ Send(t, [kind |-> "copy", request |-> request]) /\ Await(request)
            \/ UNCHANGED <<outbox, requests>>
       ELSE UNCHANGED <<outbox, requests>>
  /\ UNCHANGED <<features, focusVars, held, flags, script, gestures, exploreVars,
                 contextVars, choice, written, editorVars, inbox, losses>>

----------------------------------------------------------------------------
(* The dispatcher and the transports.                                      *)

(* The worker could not send a control and reports it; only a step is      *)
(* followed up.                                                            *)
ControlLost(t) ==
  /\ losses < MaxLosses /\ losses' = losses + 1
  /\ \E k \in DOMAIN outbox[t] :
       LET control == outbox[t][k] IN
       /\ control.kind \in {"step", "end", "query", "accept"}
       /\ outbox' = [outbox EXCEPT ![t] = RemoveAt(@, k)]
       /\ calls' = IF control.kind = "step"
                     THEN Append(calls, [kind |-> "failed", request |-> Request(control)])
                     ELSE calls
  /\ UNCHANGED <<features, focusVars, held, flags, script, gestures, exploreVars,
                 contextVars, choice, clipVars, editorVars, inbox>>

(* mark_disconnected of the selected runtime.                              *)
MarkDisconnected(t) == Forget /\ choice' = [choice EXCEPT ![t] = None]

(* _onManagedState in the transport thread: for the selected runtime the   *)
(* gate opens and mark_disconnected runs at once, the rest is queued.      *)
TransportLost(t) ==
  /\ losses < MaxLosses /\ losses' = losses + 1
  /\ online[t]
  /\ online' = [online EXCEPT ![t] = FALSE]
  /\ outbox' = [outbox EXCEPT ![t] = <<>>] /\ copied' = [copied EXCEPT ![t] = None]
  /\ \E k \in 0..Len(inbox[t]) :
       inbox' = [inbox EXCEPT ![t] = Append(SubSeq(@, 1, k), [kind |-> "lost"])]
  /\ IF active = t
       THEN confirmed' = FALSE /\ MarkDisconnected(t)
       ELSE UNCHANGED <<confirmed, exploration, pending, choice>>
  /\ UNCHANGED <<features, focus, active, known, period, keyVars, explorations, spoken,
                 contextVars, clipVars, place, moves, far, prompt, prompts>>

(* The client missed an event and asks for the full state.                 *)
Resync(t) ==
  /\ losses < MaxLosses /\ losses' = losses + 1
  /\ online[t] /\ Send(t, [kind |-> "resync"])
  /\ UNCHANGED <<features, focusVars, keyVars, exploreVars, contextVars, choice, clipVars,
                 editorVars, inbox>>

----------------------------------------------------------------------------
(* Neovim: the plugin handles one control at a time.                       *)

EditorMoves(t) ==
  /\ moves < MaxPlaces /\ moves' = moves + 1 /\ prompt[t] = 0
  /\ place' = [place EXCEPT ![t] = @ + 1]
  /\ IF online[t] THEN Tell(t, [kind |-> "state", at |-> place'[t]]) ELSE UNCHANGED inbox
  /\ UNCHANGED <<features, focusVars, keyVars, exploreVars, contextVars, choice, clipVars,
                 far, prompt, prompts, copied, outbox, losses>>

NextControl(t, kind) == outbox[t] # <<>> /\ Head(outbox[t]).kind = kind

Handled(t) == outbox' = [outbox EXCEPT ![t] = Tail(@)]

(* The bridge answers these two itself: it copies the state it keeps, and  *)
(* writes the copy behind whatever was published meanwhile.                *)
CopyState(t) ==
  /\ NextControl(t, "focus") \/ NextControl(t, "resync")
  /\ copied[t] = None /\ copied' = [copied EXCEPT ![t] = place[t]]
  /\ UNCHANGED <<features, focusVars, keyVars, exploreVars, contextVars, choice, clipVars,
                 place, moves, far, prompt, prompts, linkVars>>

AnswerState(t) ==
  /\ copied[t] # None /\ copied' = [copied EXCEPT ![t] = None] /\ Handled(t)
  /\ LET asked == Head(outbox[t]) IN
     Tell(t, IF asked.kind = "focus"
               THEN [kind |-> "focus", period |-> asked.period, at |-> copied[t]]
               ELSE [kind |-> "state", at |-> copied[t]])
  /\ UNCHANGED <<features, focusVars, keyVars, exploreVars, contextVars, choice, clipVars,
                 place, moves, far, prompt, prompts, losses>>

(* A mistake the checks must notice: a missing step goes unnoticed.        *)
InPlace(t, control) == control.origin = place[t]

(* exploration.step: the place is still the origin, a new exploration      *)
(* starts with step 1, a known one goes on with the next number.           *)
InOrder(t, control) ==
  /\ control.origin = place[t]
  /\ control.index = IF far[t] # None /\ far[t].id = control.id THEN far[t].index + 1 ELSE 1

TakeStep(t) ==
  /\ NextControl(t, "step") /\ Handled(t)
  /\ LET control == Head(outbox[t])
         moved == IF far[t] # None /\ far[t].id = control.id THEN far[t].moved + 1 ELSE 1 IN
     /\ far' = [far EXCEPT ![t] = IF InOrder(t, control)
                                    THEN [id |-> control.id, index |-> control.index,
                                          moved |-> moved]
                                    ELSE None]
     /\ Tell(t, [kind |-> "result", id |-> control.id, index |-> control.index,
                 ok |-> InOrder(t, control), at |-> place[t],
                 moved |-> IF InOrder(t, control) THEN moved ELSE 0])
  /\ UNCHANGED <<features, focusVars, keyVars, exploreVars, contextVars, choice, clipVars,
                 place, moves, prompt, prompts, copied, losses>>

(* exploration.finish                                                      *)
TakeEnd(t) ==
  /\ NextControl(t, "end") /\ Handled(t)
  /\ far' = IF far[t] # None /\ far[t].id = Head(outbox[t]).id
              THEN [far EXCEPT ![t] = None] ELSE far
  /\ UNCHANGED <<features, focusVars, keyVars, exploreVars, contextVars, choice, clipVars,
                 place, moves, prompt, prompts, copied, inbox, losses>>

AnswerQuery(t) ==
  /\ NextControl(t, "query") /\ Handled(t)
  /\ Tell(t, [kind |-> "answer", id |-> Head(outbox[t]).id, at |-> place[t]])
  /\ UNCHANGED <<features, focusVars, keyVars, exploreVars, contextVars, choice, clipVars,
                 editorVars, losses>>

AnswerCopy(t) ==
  /\ NextControl(t, "copy") /\ Handled(t)
  /\ Tell(t, [kind |-> "text", request |-> Head(outbox[t]).request, at |-> place[t]])
  /\ UNCHANGED <<features, focusVars, keyVars, exploreVars, contextVars, choice, clipVars,
                 editorVars, losses>>

OpenPrompt(t) ==
  /\ "choice" \in features /\ prompts < MaxPrompts /\ prompt[t] = 0
  /\ prompts' = prompts + 1
  /\ prompt' = [prompt EXCEPT ![t] = prompts']
  /\ IF online[t] THEN Tell(t, [kind |-> "opened", id |-> prompts']) ELSE UNCHANGED inbox
  /\ UNCHANGED <<features, focusVars, keyVars, exploreVars, contextVars, choice, clipVars,
                 place, moves, far, copied, outbox, losses>>

ClosePrompt(t) ==
  /\ prompt[t] # 0
  /\ prompt' = [prompt EXCEPT ![t] = 0]
  /\ IF online[t] THEN Tell(t, [kind |-> "closed", id |-> prompt[t]]) ELSE UNCHANGED inbox
  /\ UNCHANGED <<features, focusVars, keyVars, exploreVars, contextVars, choice, clipVars,
                 place, moves, far, prompts, copied, outbox, losses>>

(* An accepted choice answers exactly the prompt it was made for.          *)
TakeAccept(t) ==
  /\ NextControl(t, "accept") /\ Handled(t)
  /\ IF prompt[t] = Head(outbox[t]).id
       THEN prompt' = [prompt EXCEPT ![t] = 0] /\ Tell(t, [kind |-> "closed", id |-> prompt[t]])
       ELSE UNCHANGED <<prompt, inbox>>
  /\ UNCHANGED <<features, focusVars, keyVars, exploreVars, contextVars, choice, clipVars,
                 place, moves, far, prompts, copied, losses>>

----------------------------------------------------------------------------
(* Events of the connections, one at a time on the main thread.            *)

NextEvent(t, kind) == Idle /\ inbox[t] # <<>> /\ Head(inbox[t]).kind = kind

Taken(t) == inbox' = [inbox EXCEPT ![t] = Tail(@)]

(* select_instance: another runtime becomes current, an exploration ends.  *)
Select(t) ==
  /\ active' = t
  /\ IF active = t THEN UNCHANGED <<exploration, pending>> ELSE Forget

(* HeldContextLocation.matches_state                                       *)
Stale(t, at) == context[t] # None /\ context[t].at # at

(* A mistake the checks must notice: a held context is never stale.        *)
LearnOnly(t, at) ==
  /\ known' = [known EXCEPT ![t] = at]
  /\ UNCHANGED contextVars

(* _handleEvent: the event's place becomes known, and a held context that  *)
(* is not about this place is dismissed (cancel_stale_held_context).       *)
Learn(t, at) ==
  /\ known' = [known EXCEPT ![t] = at]
  /\ IF Stale(t, at) THEN context' = [context EXCEPT ![t] = None] /\ Dismiss
                     ELSE UNCHANGED contextVars

(* The answer to this focus opens the gate for the pane.                   *)
TakeFocus(t) ==
  /\ NextEvent(t, "focus") /\ Taken(t)
  /\ LET event == Head(inbox[t]) IN
     IF focus = t /\ event.period = period
       THEN confirmed' = TRUE /\ Select(t) /\ Learn(t, event.at)
       ELSE UNCHANGED <<confirmed, active, exploration, pending, known, contextVars>>
  /\ UNCHANGED <<features, focus, online, period, keyVars, explorations, spoken, choice,
                 clipVars, editorVars, outbox, losses>>

(* An event of a pane that is not confirmed is ignored.                    *)
TakeState(t) ==
  /\ NextEvent(t, "state") /\ Taken(t)
  /\ IF InNeovim(t) THEN Learn(t, Head(inbox[t]).at) ELSE UNCHANGED <<known, contextVars>>
  /\ UNCHANGED <<features, focus, confirmed, active, online, period, keyVars, exploreVars,
                 choice, clipVars, editorVars, outbox, losses>>

(* ExplorationController.consume_result: the answer belongs to the present *)
(* exploration and was given where it began, whatever is known by now.     *)
Fits(t, event) ==
  /\ event.ok
  /\ exploration # None /\ exploration.term = t /\ exploration.id = event.id
  /\ exploration.origin = event.at

(* handle_exploration_result: only the answer to a request of this exploration, at its*)
(* origin, is spoken; any other answer to a known request ends it.         *)
TakeResult(t) ==
  /\ NextEvent(t, "result") /\ Taken(t)
  /\ LET event == Head(inbox[t])
         request == [id |-> event.id, index |-> event.index] IN
     IF ~Available(t) \/ ~Contains(pending, request)
       THEN UNCHANGED <<exploration, pending, spoken>>
     ELSE IF Fits(t, event)
       THEN /\ \E k \in DOMAIN pending : pending[k] = request /\ pending' = RemoveAt(pending, k)
            /\ spoken' = [id |-> event.id, index |-> event.index, moved |-> event.moved,
                          at |-> event.at, term |-> t]
            /\ UNCHANGED exploration
       ELSE Forget /\ UNCHANGED spoken
  /\ UNCHANGED <<features, focusVars, keyVars, explorations, contextVars, choice, clipVars,
                 editorVars, outbox, losses>>

(* HeldContextController.consume                                           *)
Accepts(t, event) ==
  context[t] = [id |-> event.id, at |-> event.at] /\ event.at = known[t]

(* handle_held_context_result: the answer to the request that is held, at  *)
(* its place and at the known one, is shown; any other one ends the view.  *)
TakeAnswer(t) ==
  /\ NextEvent(t, "answer") /\ Taken(t)
  /\ LET event == Head(inbox[t]) IN
     IF ~InNeovim(t) \/ context[t] = None THEN UNCHANGED contextVars
     ELSE IF Accepts(t, event) THEN Show(t, event.at) /\ UNCHANGED context
       ELSE CancelContext
  /\ UNCHANGED <<features, focusVars, keyVars, exploreVars, choice, clipVars, editorVars,
                 outbox, losses>>

(* handle_numbered_choice_event; open() replaces whatever was open.        *)
TakeOpened(t) ==
  /\ NextEvent(t, "opened") /\ Taken(t)
  /\ choice' = IF Available(t) THEN [choice EXCEPT ![t] = [id |-> Head(inbox[t]).id, item |-> 0]]
                               ELSE choice
  /\ UNCHANGED <<features, focusVars, keyVars, exploreVars, contextVars, clipVars,
                 editorVars, outbox, losses>>

TakeClosed(t) ==
  /\ NextEvent(t, "closed") /\ Taken(t)
  /\ choice' = IF Available(t) /\ choice[t] # None /\ choice[t].id = Head(inbox[t]).id
                 THEN [choice EXCEPT ![t] = None] ELSE choice
  /\ UNCHANGED <<features, focusVars, keyVars, exploreVars, contextVars, clipVars,
                 editorVars, outbox, losses>>

(* A mistake the checks must notice: a reply is matched by its terminal.   *)
AwaitedByTerminal(t, request) == request.term = t

(* A reply counts in the confirmed pane only, and while it is awaited.     *)
Awaited(t, request) == InNeovim(t) /\ request \in requests

(* consume_clipboard_reply: the request is awaited no longer.              *)
Consume(request) == requests' = requests \ {request}

(* _handleClipboardResult: a reply that is still awaited is written, then  *)
(* handled as any event of the pane.                                       *)
TakeText(t) ==
  /\ NextEvent(t, "text") /\ Taken(t)
  /\ LET event == Head(inbox[t]) IN
     IF Awaited(t, event.request)
       THEN /\ Consume(event.request)
            /\ written' = written \cup {event.request}
            /\ Learn(t, event.at)
       ELSE UNCHANGED <<clipVars, known, contextVars>>
  /\ UNCHANGED <<features, focus, confirmed, active, online, period, keyVars, exploreVars,
                 choice, editorVars, outbox, losses>>

(* reset_disconnected_instance, selected or saved.                         *)
Reset(t) == choice' = [choice EXCEPT ![t] = None]

(* _handleManagedState("disconnected"): the instance's requests are given  *)
(* up; the runtime of the focused pane, or the saved one, is reset, and the*)
(* announcement of the loss takes the place of what Braille shows.         *)
TakeLost(t) ==
  /\ NextEvent(t, "lost") /\ Taken(t)
  /\ requests' = {r \in requests : r.term # t}
  /\ Reset(t)
  /\ IF focus = t THEN active' = t /\ Forget /\ Dismiss
                  ELSE UNCHANGED <<active, exploration, pending, view>>
  /\ UNCHANGED <<features, focus, confirmed, online, known, period, keyVars, explorations,
                 spoken, context, written, editorVars, outbox, losses>>

(* A new connection's first full state, for the pane in the foreground.    *)
Reconnect(t) ==
  /\ Idle /\ ~online[t] /\ focus = t /\ inbox[t] = <<>>
  /\ online' = [online EXCEPT ![t] = TRUE]
  /\ confirmed' = TRUE /\ Select(t) /\ Learn(t, place[t])
  /\ UNCHANGED <<features, focus, period, keyVars, explorations, spoken, choice, clipVars,
                 editorVars, outbox, inbox, losses>>

----------------------------------------------------------------------------
Keyboard == \/ PressKey \/ ReleaseKey
            \/ ExploreGesture \/ ContextGesture \/ NavigateGesture \/ AcceptGesture
            \/ CopyGesture

Handlers == \/ RunExplore \/ FinishExplore \/ EndExploration \/ StepFailed
            \/ RunContext \/ FinishContext \/ EndContext
            \/ RunNavigate \/ RunAccept \/ EndChoice \/ RunCopy

Events(t) == \/ TakeFocus(t) \/ TakeState(t) \/ TakeResult(t) \/ TakeAnswer(t)
             \/ TakeOpened(t) \/ TakeClosed(t) \/ TakeText(t) \/ TakeLost(t)

Editor(t) == \/ EditorMoves(t) \/ CopyState(t) \/ AnswerState(t)
             \/ TakeStep(t) \/ TakeEnd(t) \/ AnswerQuery(t) \/ AnswerCopy(t)
             \/ OpenPrompt(t) \/ ClosePrompt(t) \/ TakeAccept(t)

Next ==
  \/ Keyboard \/ Handlers \/ LoseFocus
  \/ \E t \in Terminals : \/ GainFocus(t) \/ Events(t) \/ Editor(t)
                          \/ ControlLost(t) \/ TransportLost(t) \/ Resync(t) \/ Reconnect(t)

(* NVDA's main thread goes on with its handlers.                           *)
Spec == Init /\ [][Next]_vars /\ WF_vars(Handlers)

----------------------------------------------------------------------------
Places  == 0..MaxPlaces
Numbers == 0..MaxGestures

TypeOK ==
  /\ features \in FeatureSets
  /\ focus \in Terminals \cup {Away} /\ active \in Terminals \cup {None}
  /\ confirmed \in BOOLEAN /\ held \in BOOLEAN
  /\ online \in [Terminals -> BOOLEAN] /\ known \in [Terminals -> Places]
  /\ flags \subseteq {"exploration", "context", "choice"}
  /\ exploration \in [id : 1..MaxGestures, term : Terminals, origin : Places,
                      index : 1..MaxGestures] \cup {None}
  /\ Len(pending) <= MaxPending
  /\ \A i \in DOMAIN pending : pending[i] \in [id : Numbers, index : Numbers]
  /\ context \in [Terminals -> [id : Numbers, at : Places] \cup {None}]
  /\ view \in [term : Terminals, at : Places] \cup {None}
  /\ choice \in [Terminals -> [id : 1..MaxPrompts, item : 0..Items] \cup {None}]
  /\ written \cup requests \subseteq [id : Numbers, term : Terminals, period : 1..MaxPeriods]
  /\ place \in [Terminals -> Places] /\ copied \in [Terminals -> Places \cup {None}]
  /\ prompt \in [Terminals -> 0..MaxPrompts]

(* A result is spoken only while its terminal is in the foreground, and    *)
(* only when Neovim has made every step of the exploration up to it: a step*)
(* lost on the way, a second exploration and a late answer never let NVDA  *)
(* speak a position the user did not ask for.                              *)
SpokenIsReached ==
  [][spoken' # spoken => /\ focus' = spoken'.term /\ confirmed'
                         /\ spoken'.moved = spoken'.index]_vars

(* The developer context in Braille belongs to the focused terminal's      *)
(* selected runtime, was asked for there, and is about the known place:    *)
(* it never outlives a change of focus or of the cursor.                   *)
ViewIsCurrent ==
  view # None => /\ focus = view.term /\ active = view.term
                 /\ context[view.term] # None
                 /\ view.at = context[view.term].at /\ view.at = known[view.term]

(* A text reaches the Windows clipboard only during the very focus in which*)
(* it was asked for, and only for the terminal it was asked for: leaving   *)
(* the pane, or losing its connection, gives the request up for good.      *)
ClipboardOnlyWhereAsked ==
  [][\A r \in written' \ written : r.period = period /\ r.term = focus]_vars

(* At most one exploration is under way, in the pane that is focused,      *)
(* confirmed, selected and connected, whatever moved the focus or broke a  *)
(* connection since it began; and its requests are its own: what NVDA still*)
(* waits for was asked in this exploration, in the order asked.            *)
PendingIsOwn ==
  /\ exploration # None => Available(exploration.term)
  /\ exploration = None => pending = <<>>
  /\ \A i \in DOMAIN pending : /\ pending[i].id = exploration.id
                               /\ pending[i].index <= exploration.index
                               /\ \A j \in 1..(i - 1) : pending[j].index < pending[i].index

(* The key is up and the flag of an exploration is set.                    *)
Orphaned == ~held /\ "exploration" \in flags

(* A script that read the key as held, and the key has gone up since.      *)
Overtaken == script # None /\ script.kind = "exploration" /\ script.held /\ ~held

(* With the NVDA key up an exploration comes to its end by itself, unless  *)
(* its flag was left set; and the one thing that leaves it set is a script *)
(* whose key went up between its reading the held keys and its setting the *)
(* flag.  That exploration stays until the next key or focus.              *)
ReleaseEndsExploration ==
  /\ (exploration # None /\ ~held) ~> (exploration = None \/ held \/ Orphaned)
  /\ [][Orphaned' => Orphaned \/ Overtaken]_vars
=============================================================================
