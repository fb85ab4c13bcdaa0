# Verification of Neovim Access Link

Neovim Access Link makes Neovim in a terminal accessible through NVDA. An
add-on in NVDA (`nvda-addon/`) talks to a Lua plugin in Neovim
(`neovim-plugin/`), through a bridge process reached over ssh
(`bridge/`, `protocol/`) or through a local TCP channel. While the add-on
presents Neovim itself, it **silences** NVDA's ordinary handling of the terminal.
That silence is the dangerous thing in this program: a user whose terminal is
silenced for the wrong reason hears nothing at all. The documents promise that
every doubt *fails open* (`docs/en/development/adr/0004-...md:49`).

This directory holds TLA+ models of the code, the TLC runs that check them and
the TLAPS proofs about them.

## 1. The system: inventory

| component | state it keeps | operations | talks to |
|---|---|---|---|
| session gate (`core/gate.py`) | manual, authenticated, active, passthrough, focused and bound terminal | disconnect, disable, `suppression_active` | read by every NVDA event, written by handlers and by transport threads |
| connection instances (`core/connection_instances.py`) | live clients, terminal bindings, next id | add, bind, unbind, detach, remove, stop all | global plugin, claims, focus service |
| connection coordinator (`core/connection_coordinator.py`) | selected runtime and client, saved runtimes, and per instance: authentication, passthrough, deferred full state, awaited replies | select, confirm foreground, capture/activate runtime, discard | all services of the add-on |
| terminal focus service (`terminal_focus.py`) | the decision between *prepare* and *finish* | prepare, finish, lose, refresh for action, prune closed controls | app module, gate, coordinator |
| global plugin (`__init__.py`) | event queue of main-thread callbacks, delayed calls, one-shot offers | handle managed events and states, request states with retries, mode on/off | everything |
| session claims (`session_claim.py`) | inventory generation, baselines, observed gesture, offers | inventory, resolution, connect, reuse, disconnect, remember, forget | instances, coordinator, ssh and registry lookups on threads |
| editor session (`editor_session.py`) | the active runtime: context, connection flag, exploration, choices, requests | present events, start and finish requests | coordinator, speech, braille |
| stdio client, tracker (`protocol/stdio_client.py`, `session.py`) | process, sequence tracker, authentication | run, receive, send control, stop | bridge over a pipe; posts callbacks |
| local TCP client (`local_client.py`, `reconnect.py`) | cached state, authentication, open prompt | hand over events, answer from the cache, send control, stop | RPC client; posts callbacks |
| bridge (`bridge.py`, `stdio.py`, `messages.py`) | cached editor state, readiness, sequence counter | publish from three threads, answer controls | Neovim by RPC, add-on by pipe |
| RPC client (`nvim_rpc.py`) | socket under its lock, notifications kept for later, stop event | connect, check the identity, register, hand over, notify, reconnect, stop | Neovim; used by the local client and the bridge |
| session registry (`session_registry.py`, `session.lua`, `local_sessions.py`) | one file per Neovim with a claim counter | register, claim, list, clean | claims |
| exploration, braille exploration, routing repeats, numbered choice, held context (`core/*_state.py`) | generation, awaited request, viewport, open choice, held key | begin, accept a result, invalidate | editor session and plugin by correlated requests |
| control dispatcher, add-on runtime (`control_dispatcher.py`, `addon_runtime.py`) | worker queue; started services | submit, stop; start, roll back, stop | global plugin |
| plugin (`lua/nvim_nvda/*.lua`) | last published state, timers | notify on editor events, answer requests | bridge or local client |
| presentation (`speech.py`, `braille.py`), settings, UI, installation, diagnostics, codec | none that decides who is silenced | pure planning, dialogs, files | NVDA |

What makes it hard:

* **Three kinds of actors share the gate and the coordinator.** NVDA's main thread
  runs handlers one at a time; each connection has a transport thread that posts
  callbacks to the main thread's queue, and on a loss also writes the gate and
  the active runtime itself; the far end answers late, twice, or not at all.
* **The focus moves in the middle of things.** A `gainFocus` event is two steps
  with NVDA's own `nextHandler` in between, where another focus event may run.
* **Results are correlated, not ordered.** A reply may arrive after the focus
  left and came back, after the connection was replaced, or after the mode
  was switched off.
* **The bridge publishes from three threads** through a counter without a lock.
* **Keys are not handlers.** The keyboard hook decides on a gesture from flags the
  main thread sets, and queues a handler that runs later, in another focus perhaps.
* **NVDA reckons ahead.** Steps of an exploration and presses on a Braille display are
  sent without waiting; the plan, the control on its way, the changing buffer and the
  answer are four views of one text.
* **The endpoint may be somebody else's.** A port of this computer that belonged to one
  Neovim may belong to another when the client reconnects.

What makes the parts correct:

* gate and coordinator: a terminal is silenced only while its bound instance is
  the selected, authenticated one, confirmed after the last focus change; no
  table outlives its instance; off means off; a loss is heard;
* delayed requests: bounded retries, and yet a remembered terminal is confirmed
  in the end;
* stream: the first accepted frame is a full state; a gap always leads to a new
  full state and never to a client that waits for ever;
* claims: an older lookup never overrides a newer one, and a session is claimed
  by the gesture that asked for it;
* explorations, held context, choices, copies: what is spoken, shown or written
  belongs to the terminal, the place and the focus it was asked for in;
* Braille: a routing key hits the very text under the finger, and an editing action is typed once,
  where that text is;
* local client: only the Neovim of the record is listened to, all of it in order; a
  lost connection is made again, and a stopped one ends.

## 2. Modules and the code they model

| module | models | proofs |
|---|---|---|
| `ConnectionGate` | the decision to silence: gate, instances, coordinator, focus service, the global plugin's handlers and delayed calls, connect/reuse/disconnect/remember, and the transports as the add-on sees them | `ConnectionGate_proofs` |
| `Silencing` | what the add-on promises about silence, without the machinery: the abstract specification that `ConnectionGate` implements | in `ConnectionGate_proofs` |
| `SessionGate` | the gate's single assignments by the main thread and by transport threads | `SessionGate_proofs` |
| `StdioStream` | one stdio session: three publishing threads of the bridge, the sequence stamp, the client's tracker and its requests for full states | `StdioStream_proofs` |
| `SessionClaims` | the way from a press of F12 to a connection: authorization, inventory and resolution lookups on threads, the counters in the sessions' records, reuse and start of connections | `SessionClaims_proofs` |
| `EditorSession` | what a user does in terminals that are bound: text exploration, held context, numbered choice and the clipboard, from the keyboard hook to Neovim and back | `EditorSession_proofs` |
| `BrailleSession` | a Braille display on one Neovim: panning, exploration of lines, routing keys and the editing actions of repeated presses | `BrailleSession_proofs` |
| `LocalClient` | the client of a Neovim on this computer: its thread, the threads that send through it, the control dispatcher, and Neovim behind a port | `LocalClient_proofs` |
| `SshClient` | the ssh processes behind one connection: their start, the marker, protocol errors, losses, `stop()`, and who keeps the pipes of a process open | `SshClient_proofs` |
| `Pairing` | which connection each terminal shows, and when one begins, moves and ends: the abstract specification that `ConnectionGate` and `SessionClaims` both implement | in these two proof modules |
| `ClientLink` | what a client of one Neovim tells the add-on and in which order, whatever carries it: the abstract specification that both clients implement and that `ConnectionGate` takes its transports for | in the three proof modules |
| `MCConnectionGate`, `MCSessionGate`, `MCSessionClaims`, `MCEditorSession`, `MCBrailleSession` | values of the constants, symmetry, and state constraints | |

The modules meet at their edges and not in one state space. `ConnectionGate` takes a
transport as a link that is up or down and posts callbacks; `SshClient`, with `StdioStream` for
what one of its connections carries, and `LocalClient` are the two transports it may be; `ClientLink` is what
they have in common. `SessionClaims` has the connections
without the gate, `ConnectionGate` the gate over connections that come and go, and `Pairing` is the table of
connections of both.
`EditorSession` and `BrailleSession` begin where `ConnectionGate` has bound and
confirmed a terminal, and let the confirmation be lost and come again with every change of focus.

### ConnectionGate

One action is one main-thread handler run to its end, one step of a transport
thread, or one step of the far end.

* *State.* `manual, confirmed, bound, focused, gatePass` are the gate's fields
  (`authenticated` and `nvim_active` are always assigned together and are one
  variable here; `SessionGate` takes them apart). `live, bind, nextId` are the
  instance manager. `active, client, connected, saved` are the coordinator's
  selected instance, its client, and the `connected` flag of the active and of
  the captured runtimes, the only field of a runtime that a modelled decision
  reads. `known, passOf, deferred, pending` are `authenticated_instances`,
  `terminal_passthrough`, `pending_full_states` and the awaited focus
  contexts; `remembered` is `remembered_terminal_bindings`. `decision` is what
  `prepare_focus` hands to `finish_focus`. `calls` counts the delayed calls of
  `_requestRememberedBindingState` by terminal, instance and attempt; `queue` is
  NVDA's event queue. `link, editor, sent, asked, closing` describe the
  transports: state of the link, whether Neovim is attached behind it, requests
  under way, and threads between reading `active_instance_id` and acting on it.
* *Main thread.* `HandleManagedEvent` and `HandleManagedState` take the head of
  the queue; `CallSkipped`, `RequestFullState`, `RequestFocusContext` are the
  delayed call with its retry; `PrepareFocus`, `FinishFocus`, `LoseFocus`,
  `FailOpenTerminalEvent`, `RefreshForAction` are the focus paths; `ToggleOn`,
  `ToggleOff`, `StartConnection`, `StartFails`, `ReuseConnection`,
  `DisconnectConnection`, `RememberBinding`, `ForgetBinding` and
  `PruneClosedBinding` the gestures and the sweep. Between `PrepareFocus` and
  `FinishFocus` only focus events run on the main thread (`MainIdle`).
* *Transport threads.* `TransportLost` reads `active_instance_id`;
  `TransportFailsOpen` acts on what was read, opens the gate and queues the
  loss. `Connecting`, `FirstFullState` and the far end's `EditorRegisters`,
  `EditorNotifies`, `EditorLost`, `AnswerFullState`, `AnswerFocusContext`,
  `DropFocusContext` post to the queue; `ClientStopped` ends a detached client.
* *Data.* A message is its kind, instance, request id and whether Neovim is in
  direct terminal input. Request ids are a small set: the code counts modulo
  2^31, so the next id is any id without a reply under way (`Outstanding`).
* *Hazards.* The constant `Hazards` turns on environment behaviour:
  `transportLoss`, `editorLoss`, `frontendFailure` (a focus path raises),
  `closedTerminal` (the sweep finds a control gone), `silentRefocus` (a gesture
  is dispatched from a terminal that had no `gainFocus`, so `refresh_for_action`
  moves `focused` and nothing else).
* *Not in it.* `_bindManagedInstance` and `select_connection` are reached by
  tests only. The offer dialog is one action, the accepted offer; its
  recovery of the focus is a `PrepareFocus` and a `FinishFocus`.

### Silencing

Four variables: the mode is *on*, one terminal has the *focus*, an instance *serves* each
terminal, and one is the *speaker*, who withholds NVDA's own speech. Silence begins
only in a step of its own, for the instance that serves the focused terminal; every change of
focus and of the mode ends it. The mapping from `ConnectionGate` is `on <- manual`,
`focus <- focused`, `serves <- bind`, `speaker <- Speaker`, where the speaker is the selected
instance while `suppression_active` holds. `KeepsContract` is `Contract!Spec`.

### ClientLink

Two variables: the *link* as the add-on was told of it (new, connecting, up, down, or gone after `stop()`), and the
last *state* handed over, which exists while the link is up. Three modules are tied by it. `KeepsLink` of `LocalClient` and of
`SshClient` is `Contract!Spec`, with `link <- Link` read off `told` and the place of the thread, and `state <- cache` (of the local
client, once `connected` is told: a first state that is cached ahead of that is not yet one of the link, `LinkState`; for
ssh, whose frames have no content, whether one was told). `TransportsAreClients` of `ConnectionGate` says that the
transport of each instance makes steps of `ClientLink` only. The other direction, that the gate allows its
transports every step that `ClientLink` has, is seen by inspection: `Connect` is `Connecting`, `Open` is
`DeliverFullState` and `FirstFullState`, `Deliver` the far end's reports, `Lose` is `TransportLost` (not between the two
halves of `Open`, which are one callback of the same thread; with `transportLoss` in `Hazards`), `Stop` is
`ClientStopped` or the switch-off, for a client the add-on has let go.

### Pairing

Five variables: the mode is *on*, one terminal has the *focus*, some instances are *live*, each terminal shows the one that
*serves* it, and the *heard* ones have authenticated themselves. A connection begins in the focused terminal while the mode is
on and replaces what that terminal showed, one that lives moves to the focused terminal, and one that ends leaves all tables
in the same step. The mapping from `ConnectionGate` is `on <- manual`, `focus <- focused`, `serves <- bind`, `heard <- known`;
from `SessionClaims`, where `inst` says which session an instance has, it is the same with `live <- {i : inst[i] # None}` and
`heard <- auth`. So the requests, threads and dialogs of the one and the callbacks of the other, each left out of the other
module, meet in the same five tables. `KeepsPairing` is `Pairs!Spec` in both. `Pairing` allows either module more than
it does; what is shown is that neither does anything else to these tables.

### SessionGate

`disconnect` holds the gate's lock; the handlers that open the gate assign its
fields without it. Every assignment is an action: `CloseAuth` ... `CloseBound`
of a transport thread or of the main thread, `Confirm` ... `ConfirmPass` of
`confirm_foreground_instance` (which binds first) and `HandleFullState` ...
`FullBound` of `_handleEvent` (which binds last). `overtaken` remembers the
opening in the middle of which a disconnect began; a disconnect between the assignment of the passthrough and the
first of `authenticated` comes before the opening as this module counts it, and what follows from that order is `gate_loss`.

### StdioStream

`Check`, `Stamp`, `Count`, `Store`, `Write` are the steps of `publish()` in each of
the bridge's threads: the readiness test, the read of the counter for the frame, its increment, which
reads it again and stores it without a lock, and the write, the only step under the write lock. `NeovimConnection` is
the report of a connection to Neovim that is made, lost, or not made; `EditorReports` a report of
Neovim, the first of a connection a full state; `AnswerControl` the reader's answer from the cache, whether or not there is a
Neovim; `Heartbeat` the third thread. `Receive` is the client's receiver with `SessionTracker.observe`; `Ask` is a
request made by the add-on. A frame has its kind and number and no content: which state a frame carries is
left out, and what a late one means to the add-on is in `EditorSession`.

### SessionClaims

A press of F12 is seen twice: NVDA's gesture handler authorizes it for the focused
terminal, and the Neovim that gets the key adds one to the counter in its registry
record. The claim service later compares the counters with those of an
inventory (automatic route), or looks at the times of the claims (a terminal
paired before, or a target picked by hand).

* *State.* `manual, focused` are the gate's fields. `observed, pendingTarget, ready,
  baselines, eligible, invGen, disGen` are fields of `SessionClaimService`;
  `handlers`, `calls`, `workers` and `choices` are what is under way: authorized
  gestures in NVDA's queue, delayed calls, lookups, and dialogs over several candidates.
  `inst, bind, auth` are the instance manager and `authenticated_instances`,
  `alive, claim, keys` the sessions with their records and the keys on their way.
  `offs` counts how often the mode was switched off; no action reads it
  except to note it in a lookup.
* *A press.* `Press` decides on the gesture, then lets the key pass, in whatever
  Neovim the terminal shows (`Home`), or none; `HandleClaim` is the queued
  handler; `DelayedCall` the timer that begins the lookup. `Claim` is the
  scheduled callback in Neovim.
* *A lookup.* `Scan` lists one target, or fails to; the automatic one lists this
  computer first and goes on to ssh targets only without a change there
  (`NextStage`). A worker with nothing left to list is a result in the event queue;
  `Finish` handles it. NVDA's queue is first in, first out, but workers end in any
  order; the model lets results be handled in any order, which includes every
  order of the code.
* *Connections.* `Reuse` moves the instance a session has to the terminal; `Start`
  makes a new one and retires the terminal's former. `Authenticate` and `Lose`
  stand for the transports of `ConnectionGate`.
* *Simplified.* A poll of the local registry is its last listing. The dialog that
  picks a target is one action. The profiles do not change: an edit of the saved
  connections is a new inventory (`ConnectionsChanged`). A process id is not used
  twice. A session that opens later looks like one that has not claimed. What the
  gate does with a connection, and remembered bindings, are in `ConnectionGate`.

### EditorSession

* *State.* `focus, confirmed, active, online, known` are what the gate, the coordinator
  and the runtimes say of each terminal; a focus is counted in `period`, which stands for the
  request ids and the deadlines that end with it. `held, flags, calls, script` are the keyboard
  hook's held NVDA keys, the three flags it decides by, NVDA's queue of handlers, and the
  point in `_executeExploration` and its fellows between reading the held keys and
  setting the flag. `exploration, pending` are `ExplorationController`; `context, view` the held
  context and what of it is shown; `choice` the open prompt with the selected item;
  `requests` the clipboard channel of the pending requests. `place, far, prompt` are each Neovim's cursor (with
  its buffer, window, changedtick and mode: one number), its virtual position and its open prompt; `copied` is
  the state the bridge has copied from its cache and not written yet.
* *Actions.* `PressKey`, `ReleaseKey` and the `...Gesture` actions run on the hook's thread;
  `RunExplore`/`FinishExplore`, `RunContext`/`FinishContext`, `RunNavigate`, `RunAccept`,
  `RunCopy`, `End...` and `StepFailed` are handlers of the main thread; `Take...` of
  the events handle one event of a connection whole (`_handleManagedEvent` with all it calls);
  `TakeStep`, `TakeEnd`, `AnswerQuery`, `AnswerCopy`, `TakeAccept` are Neovim's side.
  `CopyState` and `AnswerState` are the bridge's answers, a copy of the cache and a write with anything in between:
  the known place may go back. `Fits` is what `consume_result` compares, and the known place is not among it.
  `Refused` (the dispatcher's queue is full), `ControlLost`, `Resync` (a frame was missed), `TransportLost` and
  `Reconnect` are the faults.
* *Simplified.* Every terminal keeps its connection. A step's motion (character, word, line) is
  one step of the virtual position. The direct selection by number and the steps inside a shown context are
  left out. The end of an exploration that the dispatcher refuses is like one that is lost (`ControlLost`).

### BrailleSession

A text is the changedtick at which its line last changed, and all routing keys stand for
one column. `known` is the state NVDA last heard of, `view` and `pending` are
`BrailleExplorationController`, `cells` the display, `repeat` is
`BrailleRoutingRepeatController`, `deferred` and `timers` the word action that waits for a third
press and the delayed calls that carry it. `Pan`, `Route` (with `FirstPress`, `SecondPress`, `ThirdPress`,
`PlainPress`), `Toggle` and `Expire` are the scripts and the timer; `TakeFocus`, `TakeState`, `TakeResult`
the events; `TakeStep`, `TakeEnd`, `TakeMove`, `TakeRoute`, `TakeAction` Neovim's handlers with all
their checks; `Edit`, `Cut`, `Move`, `SwitchMode`, `SwitchBuffer` what happens in Neovim meanwhile.
`request_braille_route_action` checks and then only feeds keys: `TakeAction` puts the action behind those in `typed`, and
`RunKeys` is Neovim reading the keys, at the place the cursor is at by then, after whatever else it handled in between.
That `display_state` ends a speech exploration whose origin differs is left out here, as is the speech exploration itself;
the `gi` after a delete in Insert mode stays on the line.

### LocalClient

* *The source's thread.* `pc` and `at` say where it is in `_run` and in `_request`: `Begin`,
  `Connect`, `Assign` (the socket is published under its lock), then three requests, each
  `SendRequest` and a loop of `Block`, `Feed`, `KeepNotification`, `TakeReply`; then `Dispatch`, which puts a report into
  the cache (`CacheReport`), and `HandOver`, which authenticates, tells `connected` and hands the report over, once the
  lock of the cache is free for others;
  `Close` is the `finally` clause, `Tell` the callback of a loss, `Wait` the backoff.
  `TakeReply` of the identity's reply decides whether this is the Neovim of the record.
* *stop().* `Stop` sets the event, `CloseSocket` shuts the socket down under its lock; the join is
  the property `ShutdownEnds`.
* *Senders.* The main thread sends some controls itself (`SendControl`), answers its own requests
  for a state from the cache (`CopyState`, `PublishState`: copied under the lock, published after it),
  and submits others to the dispatcher (`Submit`, `CloseDispatcher`, `DrainJobs`), whose worker is
  `WorkerLooks`, `WorkerTakes`. `TakeSocket` and `Write` are `notify`: the write waits for room in the
  connection while it holds the lock.
* *Neovim.* `Read` takes one request or control, and reports a full state ahead of the reply to
  a registration; `Notify` reports a change. `Break`, `End` and `Reuse` are a lost
  connection, the end of Neovim, and another Neovim at its port.
* *Simplified.* A report is its kind, its Neovim and a number that Neovim counts up; the payloads'
  validation is left out, and with it the reports that it rejects: "all of it" is said of valid reports. One control is
  enough for the lock to be held at any point of the source's thread and of `stop()`; two senders that contend are in the
  proofs and not in the run. A connection takes `Room` messages before its
  reader has read. Backoffs have any length. What a connection still carried when it is lost
  arrives as a whole or not at all.

### SshClient

* *The client's thread.* `pc` says where it is in `_run` and `_receive`: `Begin`, `Spawn` (Popen),
  `Publish` (`_process`, and the thread for the errors), `LookForMarker`, `LookForFrame` and `Read`, then
  `WaitForExit` after a stop, `Clear` (the `finally` clause), `Tell`, `Wake`. `"fail"` is the `ValueError` of
  `prefix.index` that `_run` does not catch.
* *References.* The client closes the pipes of a process only in `stop()`. Otherwise they are closed with the last
  reference to the Popen object: the thread's variable (`local`), `_process` (`handle`), `stop()`'s variable (`grip`)
  and the argument of `_read_stderr` (`errors`). `Referenced` is what the bridge sees of it: the end of its
  input, or a failed write.
* *stop().* `Stop`, `TakeProcess`, `Terminate`, `Join` are its statements, which the thread's steps come between.
* *The far end.* `BridgeStarts` is the point at which the bridge has found its session and its `start()` writes the
  marker, behind what the shell wrote before; `BridgePublishes` is a frame, `BridgeEnds`
  the reader's end with `main()` and the bridge's `stop()`, `SshEnds` the end of ssh with its command. `SshFails`, `SpawnFails` and
  `Garble` (output that is a protocol error, ahead of the marker or behind it) are the faults.
* *Simplified.* A process is a slot that is used again when nothing of it is left. A frame has no content, since
  sequence numbers and resynchronisation are in `StdioStream`, as are the controls. What the thread does not read any
  more, because it went on to another process, is left out (`ReadFrom`). `process.wait(timeout=2.0)` of the thread does not
  time out before `stop()` went from one of its statements to the next.

## 3. Runs

Bounds are constants of the modules and are named in each `.cfg`.

| run | bounds | question |
|---|---|---|
| `gate_terminals` | 2 terminals, 1 connection, 2 requests, 1 retry, queue of 2, all hazards | Do the tables, the switch-off, a loss and every opening of the gate stay right for two terminals, whatever the environment does? `TrackingOfLive`, `OffMeansOff`, `LostIsForgotten`, `OpensForSelected`, `ReopensOnAnswer` |
| `gate_sharing` | 2 terminals, 2 connections, both values of terminal input, closed controls, one callback, delayed call or request at a time (`FewCalls`) | Is a silenced terminal's instance always the selected one, also across terminals that take connections from each other, and terminal input always heard? And does each step of the gate keep the contracts of `Silencing` and of `Pairing`? `SuppressionRouted`, `TerminalInputFailsOpen`, `NoForeignPending`, `KeepsContract`, `KeepsPairing` |
| `gate_restore` | 2 terminals, 1 connection, 2 requests, queue of 1, losses, fairness, no symmetry | Is a remembered terminal that keeps the focus confirmed in the end? `FocusRestoresSession` |
| `session_gate` | 2 terminals, 2 transport threads | Does a disconnect in the middle of an opening win? `DisconnectWins` |
| `stream_resync` | 4 events: reports, connections made or lost, heartbeats and requests in any mix, fairness | Is the first accepted frame a full state, and does the client always come back into sequence? `TypeOK`, `FirstAcceptedIsFull`, `ResyncUnderWay`, `ResyncEnds` |
| `session_claims` | 2 terminals, a local session in one and two ssh sessions in the other, at most 2 presses, 2 inventories and 1 picked target and three of them together, or four around a switch-off, two gestures or lookups at a time; a session that quits, a target picked by hand and the claim that leads to a dialog each come in behaviours of their own (`FewPending`) | Does a session keep one connection, does no late result undo a newer counter, is a terminal connected only where and while it asked, and does every step keep the contract of `Pairing`? `OneConnectionPerSession`, `KeepsPairing`, `BaselinesNeverGoBack`, `ConnectsWhereAsked` |
| `editor_session` | 2 terminals, each of the four uses alone and exploration with held context, 2 gestures (3 for exploration, whose table of requests holds 2), 2 periods of focus, 1 movement in Neovim, 1 prompt of 2 items, 1 loss, which may be a refused control, a lost one, a missed frame or a lost connection (`FewDisturbances`: not all of them at once) | Is what is spoken reached and in the foreground, does what is shown or written belong to the terminal, place and focus it was asked for in, and does the release of the key end every exploration but the one whose script it overtakes? `TypeOK`, `ViewIsCurrent`, `PendingIsOwn`, `SpokenIsReached`, `ClipboardOnlyWhereAsked`, `ReleaseEndsExploration` |
| `braille_session` | 2 buffers of 3 lines, no action, the word action, or both, 3 keys, 2 changes, 2 periods, 1 loss (`FewDisturbances`) | Do routes hit the text they were planned from, are the keys of an edit fed only there and do they change it if nothing overtook them, do steps arrive where they were reckoned, and does a burst of presses edit once? `TypeOK`, `SnapshotIsCurrent`, `AnswersAsPlanned`, `PlannedTextIsHit`, `OneActionPerBurst`, `NoActionAfterLeaving` |
| `local_client` | reports up to number 2, 1 break, 1 control, a queue of 1, room for 1 message, the end of Neovim and the reuse of its port, fairness | Is only the own Neovim heard, all of it and in order; does what is shut down end; is a lost connection made again; and is the add-on told all this in the order of `ClientLink`? `DeliversOwnInOrder`, `KeepsLink`, `ShutdownEnds`, `Reconnects` |
| `ssh_client` | 3 processes, 2 faults, pipes of 1 frame, fairness | Does the thread end wherever it is stopped, what may outlive it, is an ssh ever forgotten, is every failure made good, and is the add-on told all this in the order of `ClientLink`? `NoneForgotten`, `KeepsLink`, `StopEndsAll`, `Reconnects` |
| `gate_loss`, `claims_own` | the smallest instance that shows it | statements of the documents that the code does not keep (section 5) |

*Why the bounds are enough.* The decisions of the gate compare at most two
terminals (the focused one and another) and two instances (the selected one and
another): `gate_terminals` has the first pair with every trouble, `gate_sharing` both pairs, with
one thing under way at a time. A loss with two connections is in no run; what matters of it is proved. A queue of two
holds the order that matters: a callback posted before a loss and the loss; in `gate_restore` it
holds one, and the transports keep the next. Two
request ids tell a late answer from the awaited one. `MaxCalls` merges identical
delayed calls: a second identical call finds the first one's request pending. What
the runs check of `TrackingOfLive`, `OffMeansOff`, `SuppressionRouted`,
`TerminalInputFailsOpen`, `NoForeignPending`, `OpensForSelected`, `KeepsContract` and `KeepsPairing` is
proved for all values. In the stream, three frames are enough for a duplicate,
a gap and the answer to it, four events are one more than that, and its safety properties are proved as well. In
`session_claims` two lookups at a time are an older and a newer one, two inventories
are one before and one after a switch-off, and the local and the ssh session take the
two branches of every route; all four properties are proved for any
number of each. The third session is there for the dialog: two candidates have to be on
one target, because a change on this computer ends the automatic lookup.
In `editor_session` two gestures are an old request and a new one, and a third overflows the
table of two; what is asked in one terminal can only meet what happens in one other.
`braille_session` has the three presses that one burst can have, and so a route or a second action behind one whose keys
were not read yet, a line on either side
of a third to drift to, and a buffer to switch to and back from. Both constraints only forbid that
many kinds of trouble come in one behaviour, each is there alone and in pairs. In `local_client` one
break is a connection before and one after; with two reports there is one to be kept ahead of the
reply of a registration and one behind it; `Room` of one makes every second write wait. In `ssh_client` two faults
leave at most two processes behind, and the third slot is for the next. All safety properties of these
four runs, as of those before, are proved for all values; what the bounds limit is the liveness.

*Symmetry.* Terminals and request ids are interchangeable in the safety runs;
the liveness runs use none.

*Deadlock* is checked in every gate run: focus events are always possible. The
other runs switch it off: the stream and the two clients may come to an end, and `SessionClaims`,
`EditorSession` and `BrailleSession` may use up their bounds. That nothing in `LocalClient` waits for
ever is `ShutdownEnds` and `Reconnects`.

*Fairness.* `ConnectionGate`: strong fairness of the queue and of each delayed
call, weak fairness of `FinishFocus`: the main thread's loop returns to its
queue and its due timers again and again, and focus events only come between
(strong, because an open focus decision disables both for a while). Strong
fairness of the bridge's answers: a bridge that stays connected answers every
control, and only a full queue delays it in the model. Nothing is assumed of the
user, of Neovim, or of a reconnect. `StdioStream`: weak fairness of the bridge's
reader and publishing threads and of the receiver, and none of Neovim, of the
heartbeat and of the add-on. `EditorSession`: weak fairness of `Handlers`, the main thread goes on
with its queue; nothing of the user or of Neovim. `LocalClient`: weak fairness of its thread,
of the dispatcher's worker, of a call the main thread has begun, of `CloseSocket`, and
of `Read`: a Neovim that lives reads what it was sent. Weak fairness is enough for the lock they share because `MaxControls`
bounds how often it is taken; for controls without end the lock would have to be fair as well. Nothing makes a Neovim report, end
or break a connection, or anybody call `stop()` or `close()`. `SshClient`: weak fairness of the client's threads and of
`stop()` once it is called, of ssh's attempt to connect (`ConnectTimeout`), and of the ends of the bridge and of ssh; none of faults, of
frames, of lines of errors.

## 4. Proofs

All theorems hold for every value of the constants that satisfies the modules'
assumptions (`BoundsAssumption`, `NoneAssumption` and so on: bounds are natural
numbers, `None` is none of the ids and no record of a request); nothing else is assumed.

* **Types.** `TypeCorrect` of each module. In `ConnectionGate` typing
  is not inductive alone: `FinishFocus` reads `deferred[decision.inst]`, so the
  invariant is `TypeOK /\ DecisionSound`, a decision with a deferred state
  names an instance. Each group of variables has its own type predicate
  (`GateType`, `RuntimesType`, ...), and each action only has to look at the
  groups it changes. In `EditorSession` the bounds of the type are the content: that an exploration has no
  more steps than it had gestures needs `CallsGood`, the gestures in NVDA's queue are numbered in turn and
  what was already planned is below the first of them (`Reached`, `InTurn`); `Remembered` keeps the table
  of requests within `max_pending_requests`. In `SshClient`, `Named`
  says where the thread and `stop()` have a process in hand.
* **`TrackingNamesLive`** (`TrackingOfLive`). The inductive invariant `OfLive` adds
  `LiveStarted`, live instances have ids below `nextId`: without it a new
  instance might inherit the tables of an older one. `ForgetOfLive` and
  `DropSelectedOfLive` say once what forgetting an instance leaves behind.
* **`OffStaysOff`** (`OffMeansOff`). While the mode is off no instance is live, so
  no event can select one and no state callback can find one (`OffStep`); only
  `ToggleOn` ends the state (`ManualStep`).
* **`SuppressionAlwaysRouted`, `TerminalInputIsHeard`.** Both follow from
  `HeldRouted`: whenever the gate is held for the focused terminal, passthrough or
  not, the bound instance is the selected one, its client is selected and the
  gate's passthrough is that instance's. The strengthening drops `manual` and the
  passthrough from the premise, since either may change back by itself.
* **`GateOpensForSelected`** (`OpensForSelected`, an action property): every action
  but the two that present an event leaves `confirmed` or clears it, and
  `ToggleOn`'s branch that sets it cannot be taken because `OffMeansOff`
  keeps `connected` false.
* **`PendingIsForFocused`** (`NoForeignPending`).
* **`LostTransportIsForgotten`** (`LostIsForgotten`). Of an instance whose transport is down, either nothing is
  trusted and nothing is queued, or the last of its queued callbacks is the loss, which takes the trust away
  (`EndsLost`, `DownEnds`); of one that has not connected yet nothing is trusted or queued (`FreshUnheard`). The second
  half is needed because a new instance must not inherit what a callback of an earlier one left.
* **`GateReopensOnAnswer`** (`ReopensOnAnswer`): `Answered`, a reply is queued once, its request is not under way any
  more, and no new request takes its id.
* **`GateKeepsContract`** (`KeepsContract`): the initial states map to those of `Silencing`,
  and every action maps to one of its steps or to a stutter (`NextContract`). `QuietStep` does it
  once for all the actions that leave mode, focus and bindings alone: `HeldRouted` says that
  the speaker is then the instance that serves the focused terminal, before and after. The
  focus paths are `MoveFocus`, and the gestures of connecting are `Replace`, `Take` and `Leave`.
* **`GateKeepsPairing`** (`KeepsPairing`), with the corollary **`ShownOnce`**: under every hazard, each step maps to
  one of `Pairing` or to a stutter (`NextPairs`). The mapping alone is not enough: the sweep that finds a control
  closed ends its connection only if no other terminal shows it, and a connection replaced by another is unbound
  everywhere, so that the proof needs `PairsStaySound`, no two terminals show the same connection, for the steps
  that read one binding and change all. That an event of an instance is believed only while it lives (`EventHears`)
  is what keeps a queued callback from bringing back one that ended.
* **`ClaimsKeepPairing`** (`KeepsPairing` of `SessionClaims`). A result or a dialog may end in any order and
  long after its press; `ResultPairs` says that whichever comes, it changes the tables only through `Connect`, for
  the terminal that has the focus then, in a mode that is on then. `OneConnection`'s `Sound` gives that what is
  replaced lives and what begins does not.
* **`DisconnectAlwaysWins`** (`DisconnectWins`), by an invariant `Wins` over the
  remaining assignments of the overtaken opening.
* **`FirstAccepted`** (`FirstAcceptedIsFull`): before authentication the tracker
  is still out of sequence, so that only a full state is accepted.
* **`ResyncAlwaysUnderWay`** (`ResyncUnderWay`): a request moves from the
  controls to the reader, from the reader through its four steps to the wire; a
  full state at the head of the wire ends the resynchronisation.

* **`OneConnection`, `NeverBack`, `WhereAsked`** of `SessionClaims` follow from one
  invariant in three parts. `Sound`: the types, and the tables of connections
  (a paired terminal's target is read through both tables, so neither part is
  inductive alone). `Ordered`: counters only grow, what a lookup read is never
  above the record, and the lookup of the current generation, of which there
  is one, read nothing below the remembered counters and missed no living session of a
  target it listed. That the remembered counters change only by the current lookup's
  own result, after which none is current, is what keeps it. `Phased`: a
  lookup or a dialog of the current generation was begun since the last
  switch-off, because switching off moves both generations on.

* **`ViewStaysCurrent`, `PendingStaysOwn`, `SpeaksWhatIsReached`, `ClipboardStaysWhereAsked`**
  of `EditorSession`. The invariant `Good` keeps focus and selection (`FocusGood`), places
  (`PlacesGood`), Neovim's virtual position and the controls on their way (`FarGood`) and the events on
  their way back (`EventsGood`) in step; `HonestQueue` says that a result in the queue was made by
  the steps up to it, which is all that `SpokenIsReached` rests on: nothing is assumed of the place NVDA knows, which an answer
  from the bridge's cache may set back. `ContextGood` (a shown context is the held one's), `AwaitedHere` (requests of the clipboard
  are of the current focus) and `ExplorationGood` with `Own` (the requests are of
  the exploration under way, in order) are kept beside it.
* **`SnapshotStaysCurrent`, `RoutesHitTheirText`, `BurstActsOnce`, `ActionsStayInTheirFocus`** of
  `BrailleSession`. The invariant `Fresh` says of every copy of a text (the known state, the view, the
  steps, the answers, the planned presses) that it is the line's text if it carries the buffer's current
  changedtick; a changedtick only grows (`Monotone`), so an edit cannot make an old copy current. The actions in `typed` are
  among these copies, so that keys which find buffer, tick, mode and line as they were checked find the text too; of other keys
  nothing is claimed. `BurstFree` says
  that the burst whose presses are still counted, or whose word action waits, has not acted.
* **`PlannedStepsAreAnswered`** (`AnswersAsPlanned` of `BrailleSession`). `Chain` says that Neovim's virtual line, the
  steps in the queue and NVDA's view follow one another: of two neighbours with the same id and the next
  index the later one begins where the earlier one ends. A step that is lost breaks the numbering and not
  the chain, so that what comes after it is refused. `Sized` is the other half: a number of lines known at the buffer's
  changedtick is the buffer's, so that a step planned at this tick is not cut off at the end of the buffer.
* **`DeliversOwn`** (`DeliversOwnInOrder` of `LocalClient`). The invariant follows a connection from the
  registration on. `Linked`: where the thread is tells whether there is a connection, and past the
  identity it is the own Neovim's. `OneRequest`: at most one request is under way, and before its answer
  nothing else of it. `Answered`: the replies ahead of the registration come alone. `Stream`: what is kept and
  what is under way, together, are the full state of the registration, its reply, and changes numbered one by one up
  to what Neovim reported last, whichever part of that has been taken. `Handed`: nothing handed over is newer than what
  was reported, and a new connection begins unauthenticated. That a report is never left out, and that
  a former connection's never follows, is read off `Stream` when the loop takes the next one (`Dispatched`).

* **`NoSshForgotten`** (`NoneForgotten` of `SshClient`), with the corollary `StoppedLeavesOnlyGivenUp`. An ssh that runs
  is the one the thread serves, the one `stop()` is about to terminate, or one the thread gave up alive. The wait
  after a stop may time out, so the invariant has to know that `stop()` dealt with the process before: `Attended`
  (while the thread works on a published process, that is what `stop()` finds, and while `stop()` has it in hand the
  thread starts no other) and `Terminated` (what a thread past its marker works on after the terminate has ended).
  That the bridge behind it ends as well is a matter of fairness, and stays with TLC (`StopEndsAll`).

* **`KeepsToItsLink`** of `LocalClient` and of `SshClient` (`KeepsLink`). The mapping alone is not inductive:
  `Telling` ties what was told to the place of the thread. Before it begins again a loss was told, or nothing
  yet; past the clean-up it is connecting or connected; and it is connected exactly when a state authenticated it,
  which is what makes the first full state of a connection an `Open` and a later report a `Deliver` (in `LocalClient`
  a report between `CacheReport` and `HandOver` is followed through, since anything may come in between). A stop silences the
  thread, so that `Begin` and `Tell` then change nothing of the link until the thread ends.
* **`LinksAreClients`** (`TransportsAreClients` of `ConnectionGate`). An id is given out once, and until then has no
  transport (`Unborn`), so that a new connection begins a new link and never takes up an old one; all
  other steps move one link one stage, or, at the switch-off, stop them all.

`SuppressionAlwaysRouted`, `TerminalInputIsHeard`, `PendingIsForFocused` and `GateKeepsContract` assume
`"silentRefocus" \notin Hazards`: `refresh_for_action` moves the focus without closing
the gate or discarding awaited replies, and the properties do not hold then. The
app module sends `gainFocus` for every terminal that gains the focus, so this is
the path of a missed event only. The other theorems hold under every hazard.

*Model-checked only:* the liveness properties (`FocusRestoresSession`,
`ResyncEnds`, `ReleaseEndsExploration`, `ShutdownEnds`, `Reconnects`, `StopEndsAll`), which the
provers cannot treat (of `ReleaseEndsExploration` this includes its second half, that only an overtaken script leaves
an exploration behind). Every other invariant and action property of a passing run is a theorem. The other way round,
the type invariants of `ConnectionGate`, `SessionClaims`, `SessionGate`, `LocalClient` and `SshClient`,
`TransportsAreClients` and the invariant of `ShownOnce` are proved, and no run checks them.

## 5. What the runs found

* `gate_loss`: a first full state queued before the transport broke is handled after
  the transport's thread opened the gate. It authenticates and silences the
  terminal again, and the queued loss behind it does not open the gate.
* `claims_own`: F12 pressed in one terminal while the inventory runs is not
  authorized, but the Neovim there counts it. If its target was listed before, the
  inventory remembers the old counter, and F12 in another terminal, where
  no Neovim counts it (a shell, or Neovim in a Replace mode), connects that other
  terminal to the session of the first.

Seen while modelling, without a run of its own:

*The gate.* Neovim's disappearance behind a living bridge arrives as an
ordinary event; the terminal stays silenced. A new connection in a terminal whose gate
is open has the open gate before its first full state. `discard_instance_tracking` keeps
`active_client` of a removed instance when a state callback had moved
`active_instance_id` to another one (a later selection replaces it). A transport
thread that read `active_instance_id` opens the gate of an instance confirmed in
between, and marks that runtime disconnected. `ToggleOn`'s branch for a connected
runtime cannot be reached. A full state deferred for an unfocused terminal is
replayed over later events that were ignored.

*The stream.* A full state copied from the cache before a newer event is
published may be stamped after it; the client then shows the older state with
no gap to notice. `requestFullState` is answered from an empty cache before Neovim has
registered. Two publishing threads may
stamp one number twice or write theirs in the other order, because the sequence
counter has no lock, and the client resynchronises (`ResyncEnds`).

*The SSH client.* A protocol error (a malformed frame, a bridge of another version, more than 64 KiB of output
before the marker) ends the reading and nothing else. The thread in `_read_stderr` holds the process, its pipes stay open,
ssh and the bridge go on, and every attempt after it may add another pair. `protocol.md:61` says that the
transport instance is terminated. A later `stop()` does not know the old processes.
And `stop()` sets the event and then reads `_process`: while the marker is read, the thread may see the event,
fail with a `ValueError` nobody catches and clear `_process` in between. Nothing is terminated, and ssh stays, against "the SSH
process ends on deactivation" (`component-installation.md:17`). `StopEndsAll` says that these two ways are all there are.

*The claims.* The delayed call of a press is not stopped by switching the mode off, and its automatic
lookup outdates an inventory begun by switching on again, or by an edit of the
connections, within its 250 milliseconds, so that the service does not become ready.
A local or remote discovery leaves the remembered counters as they were, so
that its press is a candidate of the next automatic lookup. The explicit
remote route takes any claim of the last fifteen seconds. A lookup reads the clock for the press in the queued
handler, after the key went on to Neovim.

*The editor session.* The NVDA key may go up on the hook's thread between the reading of the held keys in
`_executeExploration` and the setting of its flag (`windowsterminal.py:827-853` against `:362-405`): no
handler is queued, and the exploration stays until the next key or focus change, against "releasing the NVDA key
ends speech exploration mode" (`manual/speech-exploration.md:39`). `ReleaseEndsExploration` names this
release (`Overtaken`) and says that no other way leads there (`Orphaned`). A full state that was copied from the cache and
overtaken by newer events sets the known place back; the result of a step that was made at the newer place is still
spoken, since `consume_result` compares it with the exploration's own origin only. A prompt that closes in
a pane that is not confirmed stays open in NVDA (`protocol.md:383`); an answer to it is refused. The location of a
held context is kept after its connection was lost.

*Braille.* The word action of a double press that waits for a third is planned anew when its time is
over (`terminal_integration.py:1232`), with the pressed column but from the line, text and mode known by then: if
the cursor moved or the text changed meanwhile it edits a word that was not pressed, against "every press must use
the same routing key at the same text position" (`manual/braille.md:154`). Neovim checks an editing action and then feeds
its keys (`init.lua:909`), which it reads after the controls it has at hand: a route, a move or another action among these
passes the same checks, and the keys change other text. `PlannedTextIsHit` is said of keys that find the place they were checked at;
without that premise TLC shows a word action, a move, and the keys, in this order. A step that failed does not refresh the display
(`braille.md:199`). After the last lines of a buffer were cut, panning further does nothing until the display
is refreshed.

*The local client.* NVDA's main thread sends the text of the clipboard, a copy and the end of terminal input
itself (`__init__.py:957`), under a lock that another write may hold until Neovim reads, although "NVDA's main
thread never waits for ... socket I/O" (`latency.md:16`). A control of another thread goes out as soon as the
socket is set, before the identity of Neovim is checked. A state that was copied from the cache
is published although the loss was told in between; the gate then takes it for the first one of a
connection. The first full state of a connection is in the cache before `connected` is told (`local_client.py:353`), so that
an answer from the cache may come ahead of both. `stop()` waits for the same lock, and forever if Neovim does not read: `ShutdownEnds` rests on a
Neovim that does. The backoff of the SSH client, unlike this one's, is never reset.

## 6. What is left

In order of importance.

1. **Transports**: what `StdioStream` carries as the states of `ClientLink` (its frames are authenticated and in
   sequence, `SshClient`'s have no content); writes that block, which `SshClient` leaves out.
2. **Temporary bindings** (`_offerTemporaryTerminalBinding`, `TerminalFocusService`):
   one-shot offers, the dialog that owns the focus, the timer that recovers the focus.
   `ConnectionGate` has the accepted offer and the focus events of the recovery.
3. **Claims**: readiness as a liveness property (an inventory begun in a
   mode that stays on ends ready, unless another lookup outdates it).
4. **`SessionGate`** shown to implement the gate that `ConnectionGate` assumes.
5. **Sessions** (`session_registry.py`, `session.lua`, `local_sessions.py`): registry
   files, crashed owners, reused process ids.
6. **Start and stop** (`addon_runtime.py`, `service_registrar.py`): rollback in reverse order.

## 7. Not modelled

* *Presentation* (`speech.py`, `braille.py`, `nvda_presentation.py`, `nvda_braille.py`, the presenting half of
  `editor_session.py`): a pure function of one event over unbounded text.
* *Codec and validation* (`codec.py`, `text.py`, the `valid_...` functions): framing and shapes of payloads; the
  models have whole, valid messages.
* *Settings, dialogs, sounds, connection profiles, targets, installation, packaging, build scripts*: no modelled
  decision reads what they keep, except the list of targets, which is a constant.
* *Diagnostics*: a bounded log that no decision reads. *Frontend policy*: a table.
* *The plugin's collection of state* (`init.lua`, `state.lua`, `menu.lua`, `selection.lua`, language-server and
  file-manager helpers): Neovim is single-threaded, and what it reports is an input here; its handlers of
  controls, its registration and its prompts are modelled.
* *NVDA's event dispatch and wx timers*: environment. The models assume only that the main thread
  runs one handler at a time and returns to its queue.
