--------------------------- MODULE BrailleSession ---------------------------
(***************************************************************************)
(* A Braille display on one Neovim: panning from line to line, in cursor   *)
(* mode (the real cursor moves) or in exploration mode (a virtual line does*)
(* and the cursor stays), routing keys that put the cursor where the finger*)
(* is, and the editing actions of two or three presses of one routing key. *)
(*                                                                         *)
(* NVDA plans from the state it last heard of and never waits: the plan,   *)
(* the control on its way, the buffer that changes meanwhile, the answer   *)
(* and the cells under the finger are five views of one text.  Neovim      *)
(* checks an editing action and then only queues its keys: whatever it     *)
(* handles before it reads them moves the place they are typed at.         *)
(*                                                                         *)
(* A text is the changedtick at which its line last changed.  All routing  *)
(* keys stand for one column: the cursor keeps its column between lines.   *)
(***************************************************************************)
EXTENDS Naturals, Sequences, FiniteSets, SequencesExt

CONSTANTS
  None,
  Buffers, FirstBuffer,
  Lines,          \* lines of a buffer before any is cut
  Settings,       \* subsets of {"word", "line"}: the actions that are configured
  MaxPresses,     \* keys of the display, and toggles
  MaxChanges,     \* edits, cuts, movements and mode changes made in Neovim
  MaxPeriods,     \* times the pane gets the focus
  MaxLosses       \* controls and connections that are lost

ASSUME BrailleAssumption ==
  /\ FirstBuffer \in Buffers /\ None \notin Buffers
  /\ Lines \in Nat \ {0} /\ Settings \subseteq SUBSET {"word", "line"}
  /\ {MaxPresses, MaxChanges, MaxPeriods, MaxLosses} \subseteq Nat

VARIABLES
  actions,     \* BrailleRoutingActions
  here,        \* the pane has the focus
  confirmed,   \* its gate is open
  online,      \* its runtime is connected
  period,      \* number of the focus: stands for the request id
  known,       \* current_state
  enabled,     \* exploration mode is selected
  view,        \* the controller's active exploration, or None
  views,       \* _nextExplorationId
  pending,     \* its requests without an answer
  cells,       \* what the display shows: line and text
  repeat,      \* BrailleRoutingRepeatController, or None
  deferred,    \* _pendingBrailleRoutingAction, or None
  timers,      \* tokens whose delayed call has not come yet
  tokens, bursts, presses,
  acted,       \* the bursts that have had an editing action
  calls,       \* failures the dispatcher has reported
  place,       \* Neovim: buffer, cursor line and mode
  ticks, text, count,   \* per buffer: changedtick, text of the lines, line count
  far,         \* Neovim's virtual line, or None
  changes,
  typed,       \* actions whose keys Neovim has fed and not read yet
  done,        \* the last route or action Neovim carried out
  outbox, inbox, losses

focusVars  == <<actions, here, confirmed, online, period>>
viewVars   == <<enabled, view, views, pending, cells>>
repeatVars == <<repeat, deferred, timers, tokens, bursts, presses, acted>>
nvimVars   == <<place, ticks, text, count, far, changes, typed>>
vars == <<focusVars, known, viewVars, repeatVars, calls, nvimVars, done, outbox, inbox, losses>>

----------------------------------------------------------------------------
(* The state Neovim publishes with every event.                            *)
Published(p, tk, tx, n) ==
  [buffer |-> p.buffer, line |-> p.line, mode |-> p.mode, tick |-> tk[p.buffer],
   text |-> tx[p.buffer][p.line], count |-> n[p.buffer]]

Current == Published(place, ticks, text, count)

(* _origin_from_state: the identity of an editor state.                    *)
Origin(s) == [buffer |-> s.buffer, line |-> s.line, mode |-> s.mode, tick |-> s.tick]

Confirmed == here /\ confirmed
Routable  == Confirmed /\ online

Submit(control) == outbox' = Append(outbox, control)
Tell(event)     == inbox' = Append(inbox, event)

----------------------------------------------------------------------------
(* BrailleExplorationController                                            *)

(* _reconcile: another buffer starts again at the real cursor; otherwise   *)
(* the tick is adopted, and the snapshot is refreshed only where the real  *)
(* cursor is on the displayed line.                                        *)
Restarts(v, s) == v = None \/ v.buffer # s.buffer

Started(s) ==
  [id |-> views + 1, index |-> 0, accepted |-> 0, buffer |-> s.buffer, mode |-> s.mode,
   origin |-> s.line, tick |-> s.tick, planned |-> s.line,
   line |-> s.line, text |-> s.text, shown |-> s.tick]

(* A mistake the checks must notice: the tick is adopted with an old text. *)
RefreshedTick(v, s) == [v EXCEPT !.tick = s.tick, !.shown = s.tick]

Refreshed(v, s) ==
  IF v.line = s.line THEN [v EXCEPT !.tick = s.tick, !.text = s.text, !.shown = s.tick]
                     ELSE [v EXCEPT !.tick = s.tick]

Reconciled(v, s) == IF Restarts(v, s) THEN Started(s) ELSE Refreshed(v, s)

Reconcile(v, asked, s) ==
  /\ view' = Reconciled(v, s)
  /\ views' = IF Restarts(v, s) THEN views + 1 ELSE views
  /\ pending' = IF Restarts(v, s) THEN {} ELSE asked

(* plan_braille: the line the display is to show.                          *)
Displayed(at) == cells' = [line |-> at.line, text |-> at.text]

(* A refresh of the display: the region asks for a plan, which reconciles. *)
Refresh(v, asked, s) ==
  IF enabled
    THEN Reconcile(v, asked, s) /\ Displayed(view')
    ELSE Displayed(s) /\ view' = v /\ pending' = asked /\ UNCHANGED views

Clear == view' = None /\ pending' = {}

----------------------------------------------------------------------------
Init ==
  /\ actions \in Settings
  /\ here = FALSE /\ confirmed = FALSE /\ online = TRUE /\ period = 0
  /\ place = [buffer |-> FirstBuffer, line |-> 1, mode |-> "n"]
  /\ ticks = [b \in Buffers |-> 0] /\ text = [b \in Buffers |-> [l \in 1..Lines |-> 0]]
  /\ count = [b \in Buffers |-> Lines] /\ far = None /\ changes = 0 /\ typed = <<>>
  /\ known = Current
  /\ enabled = FALSE /\ view = None /\ views = 0 /\ pending = {} /\ cells = None
  /\ repeat = None /\ deferred = None /\ timers = {} /\ tokens = 0 /\ bursts = 0
  /\ presses = 0 /\ acted = {} /\ calls = <<>> /\ done = None /\ outbox = <<>> /\ inbox = <<>>
  /\ losses = 0

----------------------------------------------------------------------------
(* Focus and connection.                                                   *)

(* prepare_focus and its answer, which carries this focus's request id.    *)
GainFocus ==
  /\ ~here /\ period < MaxPeriods
  /\ here' = TRUE /\ period' = period + 1
  /\ IF online THEN Submit([kind |-> "focus", period |-> period']) ELSE UNCHANGED outbox
  /\ UNCHANGED <<actions, confirmed, online, known, viewVars, repeatVars, calls, nvimVars,
                 done, inbox, losses>>

(* A mistake the checks must notice: presses survive a change of focus.    *)
KeepPresses == UNCHANGED <<repeat, deferred>>

ForgetPresses == repeat' = None /\ deferred' = None

(* discard_transient_focus_context: presses never go on in another control;*)
(* the exploration stays with its instance.                                *)
LoseFocus ==
  /\ here /\ here' = FALSE /\ confirmed' = FALSE
  /\ ForgetPresses /\ cells' = None
  /\ UNCHANGED <<actions, online, period, known, enabled, view, views, pending, timers,
                 tokens, bursts, presses, acted, calls, nvimVars, done, outbox, inbox,
                 losses>>

(* _onManagedState("disconnected"): the gate opens, the mode is disabled.  *)
ConnectionLost ==
  /\ online /\ losses < MaxLosses /\ losses' = losses + 1
  /\ online' = FALSE /\ confirmed' = FALSE /\ enabled' = FALSE /\ Clear /\ cells' = None
  /\ outbox' = <<>> /\ inbox' = <<>>
  /\ UNCHANGED <<actions, here, period, known, views, repeatVars, calls, nvimVars, done>>

(* The first full state of a new connection, for the focused pane.         *)
Reconnect ==
  /\ ~online /\ here /\ online' = TRUE /\ confirmed' = TRUE
  /\ known' = Current /\ Refresh(view, pending, Current)
  /\ UNCHANGED <<actions, here, period, enabled, repeatVars, calls, nvimVars, done, outbox,
                 inbox, losses>>

----------------------------------------------------------------------------
(* Keys of the display.                                                    *)

Press == presses < MaxPresses /\ presses' = presses + 1

(* _cleanup: Neovim is told only of an exploration it may know.            *)
EndControl ==
  IF view # None /\ view.index > 0 /\ online
    THEN Submit([kind |-> "end", id |-> view.id]) ELSE UNCHANGED outbox

(* BrailleExplorationController.toggle                                     *)
Leave == enabled' = FALSE /\ Clear /\ UNCHANGED views /\ EndControl
Enter == enabled' = TRUE /\ Reconcile(None, pending, known) /\ UNCHANGED outbox

(* toggle_braille_exploration, then a refresh.                             *)
Toggle ==
  /\ Press /\ Confirmed
  /\ IF enabled THEN Leave /\ Displayed(known) ELSE Enter /\ Displayed(view')
  /\ UNCHANGED <<focusVars, known, repeat, deferred, timers, tokens, bursts, acted, calls,
                 nvimVars, done, inbox, losses>>

(* A mistake the checks must notice: off by one at the first line.         *)
ReachableFromZero(line) == line \in 0..known.count

Reachable(line) == line \in 1..known.count

(* plan_step: the target is reckoned from the line the earlier presses will*)
(* have reached, whether or not their results are known.                   *)
PanExploring(delta) ==
  LET v == Reconciled(view, known)
      step == [kind |-> "step", id |-> v.id, index |-> v.index + 1, delta |-> delta,
               source |-> v.planned, target |-> v.planned + delta - 1,
               origin |-> [buffer |-> v.buffer, line |-> v.origin, mode |-> v.mode,
                           tick |-> v.tick]]
      earlier == IF Restarts(view, known) THEN {} ELSE pending IN
  /\ views' = IF Restarts(view, known) THEN views + 1 ELSE views
  /\ IF ~Reachable(step.target)
       THEN view' = v /\ pending' = earlier /\ UNCHANGED <<outbox, losses>>
     ELSE \/ /\ view' = [v EXCEPT !.index = @ + 1, !.planned = step.target]
             /\ pending' = earlier \cup {step}
             /\ Submit(step) /\ UNCHANGED losses
          \/ /\ losses < MaxLosses /\ losses' = losses + 1   \* the dispatcher is full
             /\ Clear /\ UNCHANGED outbox

(* plan_braille_line_navigation                                            *)
PanCursor(delta) ==
  /\ IF Reachable(known.line + delta - 1)
       THEN Submit([kind |-> "move", at |-> Origin(known), delta |-> delta])
       ELSE UNCHANGED outbox
  /\ UNCHANGED <<view, views, pending, losses>>

(* navigate_braille_line; delta 0 is a line up and 2 a line down.          *)
Pan ==
  /\ Press /\ Routable
  /\ \E delta \in {0, 2} : IF enabled THEN PanExploring(delta) ELSE PanCursor(delta)
  /\ UNCHANGED <<focusVars, known, enabled, cells, repeat, deferred, timers, tokens, bursts,
                 acted, calls, nvimVars, done, inbox>>

(* plan_braille_route: while exploring, the displayed line is routable only*)
(* if its text belongs to the known changedtick.                           *)
RouteState == IF enabled THEN Reconciled(view, known) ELSE known

(* A mistake the checks must notice: an old text is routed from.           *)
RouteAlways == TRUE

RouteReady == enabled => RouteState.shown = known.tick

RouteTarget == [buffer |-> known.buffer, line |-> RouteState.line, mode |-> known.mode,
                tick |-> known.tick]

(* What a press sends; beside the payload it records the text the plan was *)
(* made from, and the cells, the focus and the burst of the press.         *)
Routed(kind, burst, token) ==
  [kind |-> kind, at |-> RouteTarget, text |-> RouteState.text,
   cells |-> cells, period |-> period, burst |-> burst, token |-> token]

Same == repeat # None /\ ~repeat.late /\ repeat.at = RouteTarget

Burst(n, token) == [at |-> RouteTarget, number |-> n, token |-> token, late |-> FALSE]

(* BrailleRoutingRepeatController.press: a first press routes at once.     *)
FirstPress ==
  /\ actions # {} /\ ~Same
  /\ repeat' = Burst(1, 0) /\ bursts' = bursts + 1
  /\ deferred' = None /\ Submit(Routed("route", bursts + 1, 0)) /\ UNCHANGED <<timers, tokens, acted>>

PlainPress ==
  /\ actions = {} /\ repeat' = None /\ bursts' = bursts + 1
  /\ deferred' = None /\ Submit(Routed("route", bursts + 1, 0)) /\ UNCHANGED <<timers, tokens, acted>>

SecondPress ==
  /\ actions # {} /\ Same /\ repeat.number = 1 /\ UNCHANGED bursts
  /\ IF "line" \in actions
       THEN /\ tokens' = tokens + 1 /\ timers' = timers \cup {tokens'}
            /\ repeat' = Burst(2, tokens') /\ UNCHANGED <<acted, outbox>>
            /\ deferred' = IF "word" \in actions
                             THEN Routed("word", bursts, tokens') ELSE None
       ELSE /\ repeat' = None /\ deferred' = None
            /\ Submit(Routed("word", bursts, 0)) /\ acted' = acted \cup {bursts}
            /\ UNCHANGED <<timers, tokens>>

(* A mistake the checks must notice: the third press leaves the timer's    *)
(* action waiting.                                                         *)
ThirdPressTwice ==
  /\ actions # {} /\ Same /\ repeat.number = 2 /\ UNCHANGED bursts
  /\ Submit(Routed("line", bursts, 0)) /\ acted' = acted \cup {bursts}
  /\ UNCHANGED <<repeat, deferred, timers, tokens>>

ThirdPress ==
  /\ actions # {} /\ Same /\ repeat.number = 2 /\ UNCHANGED bursts
  /\ repeat' = None /\ deferred' = None
  /\ Submit(Routed("line", bursts, 0)) /\ acted' = acted \cup {bursts}
  /\ UNCHANGED <<timers, tokens>>

(* route_braille_cursor                                                    *)
Route ==
  /\ Press /\ Confirmed
  /\ IF enabled THEN Reconcile(view, pending, known) ELSE UNCHANGED <<view, views, pending>>
  /\ IF RouteReady /\ online
       THEN PlainPress \/ FirstPress \/ SecondPress \/ ThirdPress
       ELSE UNCHANGED <<repeat, deferred, timers, tokens, bursts, acted, outbox>>
  /\ UNCHANGED <<focusVars, known, enabled, cells, calls, nvimVars, done, inbox, losses>>

(* The time for a further press is over.                                   *)
Deadline ==
  /\ repeat # None /\ ~repeat.late
  /\ repeat' = [repeat EXCEPT !.late = TRUE]
  /\ UNCHANGED <<focusVars, known, viewVars, deferred, timers, tokens, bursts, presses, acted,
                 calls, nvimVars, done, outbox, inbox, losses>>

(* BrailleRoutingRepeatController.expire: no third press came.             *)
Due(token) == repeat # None /\ repeat.token = token /\ repeat.number = 2

(* _complete_braille_routing_repeat: the word action of a double press that*)
(* no third one replaced is planned anew, from the state known by now.     *)
Expire(token) ==
  /\ token \in timers /\ timers' = timers \ {token}
  /\ LET mine == deferred # None /\ deferred.token = token IN
     /\ repeat' = IF Due(token) THEN None ELSE repeat
     /\ deferred' = IF mine THEN None ELSE deferred
     /\ IF Due(token) /\ mine /\ online
          THEN /\ IF enabled THEN Reconcile(view, pending, known)
                             ELSE UNCHANGED <<view, views, pending>>
               /\ IF RouteReady
                    THEN /\ Submit([deferred EXCEPT !.at = RouteTarget,
                                                    !.text = RouteState.text])
                         /\ acted' = acted \cup {deferred.burst}
                    ELSE UNCHANGED <<acted, outbox>>
          ELSE UNCHANGED <<view, views, pending, acted, outbox>>
  /\ UNCHANGED <<focusVars, known, enabled, cells, tokens, bursts, presses, calls, nvimVars,
                 done, inbox, losses>>

----------------------------------------------------------------------------
(* The dispatcher.                                                         *)

ControlLost ==
  /\ losses < MaxLosses /\ losses' = losses + 1
  /\ \E k \in DOMAIN outbox :
       /\ outbox[k].kind = "step" /\ outbox' = RemoveAt(outbox, k)
       /\ calls' = Append(calls, outbox[k])
  /\ UNCHANGED <<focusVars, known, viewVars, repeatVars, nvimVars, done, inbox>>

(* fail_request: the next step starts again at the real cursor.            *)
StepFailed ==
  /\ calls # <<>> /\ calls' = Tail(calls)
  /\ IF Head(calls) \in pending THEN Clear ELSE UNCHANGED <<view, pending>>
  /\ UNCHANGED <<focusVars, known, enabled, views, cells, repeatVars, nvimVars, done, outbox,
                 inbox, losses>>

----------------------------------------------------------------------------
(* Neovim.                                                                 *)

Publish(p, tk, tx, n) ==
  IF online THEN Tell([kind |-> "state", at |-> Published(p, tk, tx, n)]) ELSE UNCHANGED inbox

Change ==
  /\ changes < MaxChanges /\ changes' = changes + 1
  /\ UNCHANGED <<focusVars, known, viewVars, repeatVars, calls, far, typed, done, outbox,
                 losses>>

Edited(l) ==
  /\ ticks' = [ticks EXCEPT ![place.buffer] = @ + 1]
  /\ text' = [text EXCEPT ![place.buffer][l] = ticks'[place.buffer]]

Edit ==
  /\ Change
  /\ \E l \in 1..count[place.buffer] : Edited(l)
  /\ Publish(place, ticks', text', count) /\ UNCHANGED <<place, count>>

(* Everything below the cursor's line is deleted.                          *)
Cut ==
  /\ Change /\ count[place.buffer] > place.line
  /\ count' = [count EXCEPT ![place.buffer] = place.line]
  /\ ticks' = [ticks EXCEPT ![place.buffer] = @ + 1]
  /\ Publish(place, ticks', text, count') /\ UNCHANGED <<place, text>>

Move ==
  /\ Change
  /\ \E l \in 1..count[place.buffer] \ {place.line} : place' = [place EXCEPT !.line = l]
  /\ Publish(place', ticks, text, count) /\ UNCHANGED <<ticks, text, count>>

SwitchMode ==
  /\ Change /\ place' = [place EXCEPT !.mode = IF @ = "n" THEN "i" ELSE "n"]
  /\ Publish(place', ticks, text, count) /\ UNCHANGED <<ticks, text, count>>

SwitchBuffer ==
  /\ Change
  /\ \E b \in Buffers \ {place.buffer} : place' = [buffer |-> b, line |-> 1, mode |-> place.mode]
  /\ Publish(place', ticks, text, count) /\ UNCHANGED <<ticks, text, count>>

Control(kinds) == outbox # <<>> /\ Head(outbox).kind \in kinds /\ outbox' = Tail(outbox)

Answered == UNCHANGED <<focusVars, known, viewVars, repeatVars, calls, changes, losses>>

AnswerFocus ==
  /\ Control({"focus"}) /\ Answered
  /\ Tell([kind |-> "focus", period |-> Head(outbox).period, at |-> Current])
  /\ UNCHANGED <<place, ticks, text, count, far, typed, done>>

(* exploration.step(payload, "braille"): buffer and changedtick are the    *)
(* current ones; a first step also has to find the cursor and the mode of  *)
(* its origin, a later one the exploration and its next number.            *)
Follows(step) == far # None /\ far.id = step.id

(* A mistake the checks must notice: a missing step goes unnoticed.        *)
InOrderButCount(step) ==
  /\ step.origin.buffer = place.buffer /\ step.origin.tick = ticks[place.buffer]
  /\ Follows(step) \/ step.origin = Origin(Current)

InOrder(step) ==
  /\ step.origin.buffer = place.buffer /\ step.origin.tick = ticks[place.buffer]
  /\ IF Follows(step) THEN step.index = far.index + 1
     ELSE step.index = 1 /\ step.origin = Origin(Current)

TakeStep ==
  /\ Control({"step"}) /\ Answered
  /\ LET step == Head(outbox)
         from == IF Follows(step) THEN far.line ELSE step.origin.line
         moved == from + step.delta - 1 \in 1..count[place.buffer]
         line == IF moved THEN from + step.delta - 1 ELSE from IN
     IF InOrder(step)
       THEN /\ far' = [id |-> step.id, index |-> step.index, line |-> line]
            /\ Tell([kind |-> "result", step |-> step, ok |-> TRUE, moved |-> moved,
                     line |-> line, text |-> text[place.buffer][line], at |-> Origin(Current)])
       ELSE /\ far' = None
            /\ Tell([kind |-> "result", step |-> step, ok |-> FALSE, moved |-> FALSE,
                     line |-> 0, text |-> 0, at |-> Origin(Current)])
  /\ UNCHANGED <<place, ticks, text, count, typed, done>>

TakeEnd ==
  /\ Control({"end"}) /\ Answered
  /\ far' = IF far # None /\ far.id = Head(outbox).id THEN None ELSE far
  /\ UNCHANGED <<place, ticks, text, count, typed, done, inbox>>

(* Every control that touches the cursor or the text names the buffer, the *)
(* changedtick and the mode it was planned for.                            *)
Valid(at) == /\ at.buffer = place.buffer /\ at.tick = ticks[place.buffer]
             /\ at.mode = place.mode

(* request_move_braille_line                                               *)
TakeMove ==
  /\ Control({"move"}) /\ Answered
  /\ LET move == Head(outbox)
         target == move.at.line + move.delta - 1 IN
     IF Valid(move.at) /\ move.at.line = place.line /\ target \in 1..count[place.buffer]
       THEN /\ place' = [place EXCEPT !.line = target]
            /\ Publish(place', ticks, text, count)
       ELSE UNCHANGED <<place, inbox>>
  /\ UNCHANGED <<ticks, text, count, far, typed, done>>

(* request_route_cursor                                                    *)
TakeRoute ==
  /\ Control({"route"}) /\ Answered
  /\ LET route == Head(outbox) IN
     IF Valid(route.at) /\ route.at.line <= count[place.buffer]
       THEN /\ place' = [place EXCEPT !.line = route.at.line]
            /\ done' = route
            /\ Publish(place', ticks, text, count)
       ELSE UNCHANGED <<place, done, inbox>>
  /\ UNCHANGED <<ticks, text, count, far, typed>>

(* request_braille_route_action: the cursor has to be where it acts.  The  *)
(* keys are not typed at once: nvim_feedkeys puts them behind those that   *)
(* are waiting.                                                            *)
TakeAction ==
  /\ Control({"word", "line"}) /\ Answered
  /\ LET action == Head(outbox) IN
     typed' = IF Valid(action.at) /\ action.at.line = place.line
                THEN Append(typed, action) ELSE typed
  /\ UNCHANGED <<place, ticks, text, count, far, done, inbox>>

(* Neovim reads the keys: they change the line the cursor is on by now, and*)
(* those of a change action leave it in Insert mode.                       *)
RunKeys ==
  /\ typed # <<>> /\ typed' = Tail(typed) /\ done' = Head(typed)
  /\ Edited(place.line)
  /\ \E mode \in {place.mode, "i"} : place' = [place EXCEPT !.mode = mode]
  /\ Publish(place', ticks', text', count)
  /\ Answered /\ UNCHANGED <<count, far, outbox>>

----------------------------------------------------------------------------
(* Events on the main thread.                                              *)

Event(kind) == inbox # <<>> /\ Head(inbox).kind = kind /\ inbox' = Tail(inbox)

(* The answer to the present focus opens the gate and rebuilds the display.*)
TakeFocus ==
  /\ Event("focus")
  /\ IF here /\ Head(inbox).period = period
       THEN /\ confirmed' = TRUE /\ known' = Head(inbox).at
            /\ Refresh(view, pending, Head(inbox).at)
       ELSE UNCHANGED <<confirmed, known, view, views, pending, cells>>
  /\ UNCHANGED <<actions, here, online, period, enabled, repeatVars, calls, nvimVars, done,
                 outbox, losses>>

TakeState ==
  /\ Event("state")
  /\ IF Confirmed
       THEN known' = Head(inbox).at /\ Refresh(view, pending, Head(inbox).at)
       ELSE UNCHANGED <<known, view, views, pending, cells>>
  /\ UNCHANGED <<focusVars, enabled, repeatVars, calls, nvimVars, done, outbox, losses>>

(* consume_result: an answer to a pending step of this exploration, given  *)
(* in the very state that is known, at the line that was reckoned.         *)
Expected(result) ==
  /\ view # None /\ view.buffer = known.buffer
  /\ result.at = Origin(known)
  /\ result.ok /\ result.line = IF result.moved THEN result.step.target ELSE result.step.source

TakeResult ==
  /\ Event("result")
  /\ LET result == Head(inbox)
         others == pending \ {result.step}
         later == IF result.moved THEN others ELSE {} IN
     IF ~(enabled /\ Routable /\ result.step \in pending)
       THEN UNCHANGED <<view, views, pending, cells>>
     ELSE IF ~Expected(result)
       THEN Clear /\ UNCHANGED <<views, cells>>
     ELSE IF result.step.index <= view.accepted
       THEN pending' = others /\ UNCHANGED <<view, views, cells>>
     ELSE Refresh([view EXCEPT !.accepted = result.step.index, !.line = result.line,
                               !.text = result.text, !.shown = known.tick,
                               !.planned = IF result.moved THEN @ ELSE result.line],
                  later, known)
  /\ UNCHANGED <<focusVars, known, enabled, repeatVars, calls, nvimVars, done, outbox, losses>>

----------------------------------------------------------------------------
Display == Toggle \/ Pan \/ Route \/ Deadline \/ \E token \in timers : Expire(token)
Editor  == \/ Edit \/ Cut \/ Move \/ SwitchMode \/ SwitchBuffer
           \/ AnswerFocus \/ TakeStep \/ TakeEnd \/ TakeMove \/ TakeRoute \/ TakeAction
           \/ RunKeys
Events  == TakeFocus \/ TakeState \/ TakeResult

Next == \/ GainFocus \/ LoseFocus \/ ConnectionLost \/ Reconnect
        \/ Display \/ ControlLost \/ StepFailed \/ Editor \/ Events

Spec == Init /\ [][Next]_vars

----------------------------------------------------------------------------
States == [buffer : Buffers, line : 1..Lines, mode : {"n", "i"}, tick : Nat, text : Nat,
           count : 1..Lines]

TypeOK ==
  /\ here \in BOOLEAN /\ confirmed \in BOOLEAN /\ online \in BOOLEAN /\ enabled \in BOOLEAN
  /\ known \in States /\ Current \in States
  /\ view # None => view.line \in 1..Lines /\ view.planned \in 1..Lines
                    /\ view.accepted <= view.index
  /\ cells \in [line : 1..Lines, text : Nat] \cup {None}
  /\ repeat # None => repeat.number \in 1..2

(* The virtual line's text, where it is marked as belonging to the tick of *)
(* Neovim's buffer, is the text of that line: what makes routing from an   *)
(* explored line safe while the buffer changes under the reader.           *)
SnapshotIsCurrent ==
  view # None /\ view.shown = ticks[view.buffer] => view.text = text[view.buffer][view.line]

(* A route Neovim carries out puts the cursor into the very text NVDA      *)
(* planned it from; the keys of an action are fed only where that text is  *)
(* under the cursor, and they edit it.  The keys wait, though: the property*)
(* speaks of those that find the place that was checked, for a movement or *)
(* another action Neovim handles before it reads them takes them elsewhere *)
(* (init.lua:909).  What a delayed word action is planned from is what NVDA*)
(* knows when its time is over, not what was under the finger.             *)
PlannedTextIsHit ==
  [][/\ Len(typed') > Len(typed) => Last(typed').text = text[place.buffer][place.line]
     /\ done' # done /\ (done'.kind # "route" => Valid(done'.at) /\ done'.at.line = place.line)
          => done'.text = text[place.buffer][done'.at.line] /\ place'.line = done'.at.line]_vars

(* However many steps are under way, an answered step is at the line that  *)
(* NVDA reckoned when the key was pressed: no lost or refused step lets the*)
(* planned line and Neovim's virtual line drift apart.                     *)
AnswersAsPlanned ==
  \A k \in DOMAIN inbox :
    inbox[k].kind = "result" /\ inbox[k].ok /\ inbox[k].step \in pending
      => inbox[k].moved /\ inbox[k].line = inbox[k].step.target

(* Presses of one routing key end in at most one editing action: the       *)
(* delayed word action and the line action of a third press exclude each   *)
(* other, whichever comes first.                                           *)
OneActionPerBurst ==
  [][\A k \in DOMAIN outbox' \ DOMAIN outbox :
       outbox'[k].kind \in {"word", "line"} => outbox'[k].burst \notin acted]_vars

(* An editing action is sent only during the focus in which its keys were  *)
(* pressed: a delayed word action never follows the user to another window.*)
NoActionAfterLeaving ==
  [][\A k \in DOMAIN outbox' \ DOMAIN outbox :
       outbox'[k].kind \in {"word", "line"} => here /\ outbox'[k].period = period]_vars
=============================================================================
