--------------------------- MODULE ConnectionGate ---------------------------
(***************************************************************************)
(* The add-on's decision to silence a terminal: the SessionGate, the       *)
(* ConnectionInstanceManager, the ConnectionCoordinator, the focus service *)
(* and the handlers of the global plugin that move them, together with     *)
(* what the transport threads do to the same state.                        *)
(*                                                                         *)
(* Three kinds of actor take steps:                                        *)
(*  - NVDA's main thread runs one handler at a time: a focus event, a      *)
(*    gesture, a delayed call, or the callback at the head of the event    *)
(*    queue.  A gainFocus event is two steps (prepare and finish) with     *)
(*    NVDA's own nextHandler between them; only a nested focus event can   *)
(*    run on the main thread in that gap.                                  *)
(*  - One transport thread per connection instance posts callbacks to that *)
(*    queue, and on a loss opens the gate itself, outside the main thread. *)
(*  - The far end (bridge and Neovim) publishes states, answers requests   *)
(*    and disappears.                                                      *)
(*                                                                         *)
(* gate.authenticated and gate.nvim_active are assigned together wherever  *)
(* either is assigned, so one variable, confirmed, stands for both;        *)
(* module SessionGate takes them apart.                                    *)
(***************************************************************************)
EXTENDS Integers, Sequences, FiniteSets

CONSTANTS
    Terminals,      \* terminal identities of the supported frontend
    MaxInstances,   \* how many connection instances are ever started
    ReqIds,         \* focusContext request ids
    Retries,        \* retries of a delayed state request
    MaxQueue,       \* bound on NVDA's event queue
    MaxCalls,       \* identical delayed calls told apart
    Tty,            \* values of "Neovim is in a terminal buffer's input mode"
    Hazards,        \* which of HazardKinds the environment shows
    None

ASSUME TerminalsAssumption == None \notin Terminals
ASSUME BoundsAssumption ==
    /\ MaxInstances \in Nat \ {0}
    /\ Retries \in Nat
    /\ MaxQueue \in Nat \ {0}
    /\ MaxCalls \in Nat \ {0}
ASSUME TtyAssumption == Tty \subseteq BOOLEAN

\* silentRefocus: a gesture arrives from a terminal that had no gainFocus.
\* transportLoss: a transport breaks and reconnects.  editorLoss: Neovim leaves
\* the bridge.  frontendFailure: a focus or event path raises.  closedTerminal:
\* the sweep finds a control gone.
HazardKinds == {"silentRefocus", "transportLoss", "editorLoss", "frontendFailure",
                "closedTerminal"}
ASSUME HazardsAssumption == Hazards \subseteq HazardKinds

Instances == 1 .. MaxInstances
ASSUME NoneAssumption ==
    /\ None \notin Instances /\ None \notin BOOLEAN /\ None \notin ReqIds
    /\ None \notin [req : ReqIds \cup {None}, term : Terminals]

EventKinds == {"full", "context", "event"}
StateKinds == {"status", "lost"}
Message == [kind : EventKinds \cup StateKinds, inst : Instances,
            req : ReqIds \cup {None}, tty : BOOLEAN]
Calls == Terminals \X Instances \X (0 .. Retries)

VARIABLES
    \* SessionGate
    manual, confirmed, bound, focused, gatePass,
    \* ConnectionInstanceManager
    live, bind, nextId,
    \* ConnectionCoordinator: the selected instance and its client, the
    \* connected flag of the active runtime and of the saved ones, and the
    \* tracking kept per instance
    active, client, connected, saved, known, passOf, deferred, pending,
    remembered,
    \* TerminalFocusService: the decision between prepare and finish
    decision,
    \* delayed main-thread calls and the event queue
    calls, queue,
    \* transports: link state, whether Neovim is attached behind it, requests
    \* under way, and threads about to open the gate
    link, editor, sent, asked, closing

gate == <<manual, confirmed, bound, focused, gatePass>>
manager == <<live, bind, nextId>>
runtimes == <<active, client, connected, saved>>
tracking == <<known, passOf, deferred, pending, remembered>>
transports == <<link, editor, sent, asked, closing>>
vars == <<gate, manager, runtimes, tracking, decision, calls, queue, transports>>

-----------------------------------------------------------------------------
Suppressing ==
    /\ manual
    /\ confirmed
    /\ ~gatePass
    /\ focused # None
    /\ focused = bound

\* Mutant: any event is taken for the focused terminal's instance.
SelectedByFocus(i) == focused # None

Selected(i) == focused # None /\ bind[focused] = i

Foreground(i) == confirmed /\ bound = focused /\ active = i

CanSend(i) == link[i] \in {"connecting", "greeted", "up"}

Awaited(i, t) == pending[i] # None /\ pending[i].term = t

\* Mutant: a reply is correlated by its terminal only.
ExpectedByTerminal(i, r) == pending[i] # None /\ pending[i].term = focused

Expected(i, r) == pending[i] = [req |-> r, term |-> focused]

SavedAfter(i) ==
    IF i = active THEN saved
    ELSE [j \in Instances |->
            IF j = i THEN "none"
            ELSE IF j = active THEN (IF connected THEN "up" ELSE "down")
            ELSE saved[j]]

ConnectedAfter(i) == IF i = active THEN connected ELSE saved[i] = "up"

\* Mutant: a disconnect resets the passthrough only.
CloseGatePassthroughOnly ==
    /\ gatePass' = FALSE
    /\ UNCHANGED <<confirmed, bound>>

CloseGate ==
    /\ confirmed' = FALSE
    /\ bound' = None
    /\ gatePass' = FALSE

\* Mutant: awaited replies outlive a focus change.
KeepTransientContext == UNCHANGED pending

DiscardTransientContext == pending' = [i \in Instances |-> None]

\* Mutant: the delayed state request is never scheduled.
BumpLost(c) == calls

Bump(c) == [calls EXCEPT ![c] = IF @ < MaxCalls THEN @ + 1 ELSE @]

Init ==
    /\ manual = FALSE /\ confirmed = FALSE /\ bound = None
    /\ focused = None /\ gatePass = FALSE
    /\ live = {} /\ bind = [t \in Terminals |-> None] /\ nextId = 1
    /\ active = None /\ client = None /\ connected = FALSE
    /\ saved = [i \in Instances |-> "none"]
    /\ known = {} /\ passOf = [i \in Instances |-> FALSE]
    /\ deferred = [i \in Instances |-> None]
    /\ pending = [i \in Instances |-> None]
    /\ remembered = {}
    /\ decision = None
    /\ calls = [c \in Calls |-> 0] /\ queue = << >>
    /\ link = [i \in Instances |-> "none"]
    /\ editor = [i \in Instances |-> "away"]
    /\ sent = [i \in Instances |-> {}]
    /\ asked = {} /\ closing = {}

-----------------------------------------------------------------------------
(* What a main-thread handler does with a managed event of instance i.      *)
(* dfr is the deferred-state map the handler starts from.                   *)

\* Mutant: the gate keeps the passthrough it had.
TerminalInputRemembered(i, tty) ==
    /\ passOf' = [passOf EXCEPT ![i] = tty]
    /\ UNCHANGED gatePass

TerminalInput(i, tty) ==
    /\ passOf' = [passOf EXCEPT ![i] = tty]
    /\ gatePass' = tty

Present(i, kind, tty) ==
    /\ active' = i
    /\ client' = i
    /\ saved' = SavedAfter(i)
    /\ connected' = (kind \in {"full", "context"} \/ ConnectedAfter(i))
    /\ TerminalInput(i, tty)
    /\ known' = IF kind = "full" THEN known \cup {i} ELSE known
    /\ IF kind = "context" \/ (kind = "full" /\ manual)
       THEN confirmed' = TRUE /\ bound' = focused
       ELSE UNCHANGED <<confirmed, bound>>
    /\ UNCHANGED <<manual, focused>>

Ignored == UNCHANGED <<gate, runtimes, known, passOf>>

ConfirmForeground(i, kind, req, tty, dfr) ==
    /\ kind = "context"
    /\ Expected(i, req) /\ Selected(i) /\ i \in known
    /\ pending' = [pending EXCEPT ![i] = None]
    /\ Present(i, kind, tty)
    /\ deferred' = dfr

IgnoreContext(i, kind, req, dfr) ==
    /\ kind = "context"
    /\ ~(Expected(i, req) /\ Selected(i) /\ i \in known)
    /\ Ignored
    /\ deferred' = dfr
    /\ UNCHANGED pending

DeferFullState(i, kind, tty, dfr) ==
    /\ kind = "full" /\ ~Selected(i) /\ i \in live
    /\ deferred' = [dfr EXCEPT ![i] = tty]
    /\ Ignored
    /\ UNCHANGED pending

IgnoreEvent(i, kind, dfr) ==
    /\ kind # "context"
    /\ \/ ~Selected(i) /\ ~(kind = "full" /\ i \in live)
       \/ Selected(i) /\ i \in known /\ ~Foreground(i)
    /\ Ignored
    /\ deferred' = dfr
    /\ UNCHANGED pending

PresentEvent(i, kind, tty, dfr) ==
    /\ kind # "context"
    /\ Selected(i)
    /\ i \in known => Foreground(i)
    /\ Present(i, kind, tty)
    /\ deferred' = dfr
    /\ UNCHANGED pending

ManagedEvent(i, kind, req, tty, dfr) ==
    \/ ConfirmForeground(i, kind, req, tty, dfr)
    \/ IgnoreContext(i, kind, req, dfr)
    \/ DeferFullState(i, kind, tty, dfr)
    \/ IgnoreEvent(i, kind, dfr)
    \/ PresentEvent(i, kind, tty, dfr)

-----------------------------------------------------------------------------
(* The event queue, drained by the main thread.                             *)

MainIdle == decision = None

\* Mutants: the authentication, or the deferred state, survives.
ForgetButTrust(r) ==
    /\ passOf' = [i \in Instances |-> i # r /\ passOf[i]]
    /\ deferred' = [i \in Instances |-> IF i = r THEN None ELSE deferred[i]]
    /\ pending' = [i \in Instances |-> IF i = r THEN None ELSE pending[i]]
    /\ UNCHANGED known
ForgetButDefer(r) ==
    /\ known' = known \ {r}
    /\ passOf' = [i \in Instances |-> i # r /\ passOf[i]]
    /\ pending' = [i \in Instances |-> IF i = r THEN None ELSE pending[i]]
    /\ UNCHANGED deferred

\* What is kept per instance is dropped for instance r (r may be None).  The
\* caller says what it does to the runtimes.
ForgetInstance(r) ==
    /\ known' = known \ {r}
    /\ passOf' = [i \in Instances |-> i # r /\ passOf[i]]
    /\ deferred' = [i \in Instances |-> IF i = r THEN None ELSE deferred[i]]
    /\ pending' = [i \in Instances |-> IF i = r THEN None ELSE pending[i]]

HandleManagedEvent ==
    /\ MainIdle
    /\ queue # << >>
    /\ LET m == Head(queue) IN
        /\ m.kind \in EventKinds
        /\ ManagedEvent(m.inst, m.kind, m.req, m.tty, deferred)
    /\ queue' = Tail(queue)
    /\ UNCHANGED <<manager, remembered, decision, calls, transports>>

HandleManagedState ==
    /\ MainIdle
    /\ queue # << >>
    /\ LET i == Head(queue).inst
           lost == Head(queue).kind = "lost"
       IN
        /\ Head(queue).kind \in StateKinds
        /\ IF lost
           THEN ForgetInstance(i)
           ELSE UNCHANGED <<known, passOf, deferred, pending>>
        /\ IF Selected(i)
           THEN /\ active' = i
                /\ saved' = SavedAfter(i)
                /\ connected' = ConnectedAfter(i)
           ELSE /\ connected' = (connected /\ ~(lost /\ active = i))
                /\ saved' = IF lost /\ saved[i] = "up" THEN [saved EXCEPT ![i] = "down"] ELSE saved
                /\ UNCHANGED active
    /\ queue' = Tail(queue)
    /\ UNCHANGED <<gate, manager, client, remembered, decision, calls, transports>>

-----------------------------------------------------------------------------
(* Delayed calls: the state request that follows the activation of a        *)
(* remembered binding, and its bounded retries.                             *)

Activate(t, i, tracked) ==
    /\ active' = i
    /\ client' = i
    /\ saved' = SavedAfter(i)
    /\ connected' = (i \in tracked)
    /\ calls' = Bump(<<t, i, 0>>)

\* Mutant: a gate open for the terminal is taken as open for the instance.
AlreadyOpen(t, i) == bound = t /\ confirmed

AlreadyActive(t, i) == bound = t /\ client = i /\ confirmed /\ active = i

CallReady(t, i, a) ==
    /\ MainIdle
    /\ calls[<<t, i, a>>] > 0

\* The calls left after this one, with its retry when nothing could be sent.
CallsAfter(t, i, a, delivered) ==
    LET left == [calls EXCEPT ![<<t, i, a>>] = @ - 1]
    IN IF delivered \/ a = Retries THEN left
       ELSE [left EXCEPT ![<<t, i, a + 1>>] = IF @ < MaxCalls THEN @ + 1 ELSE @]

CallObsolete(t, i) ==
    \/ Foreground(i) /\ focused = t
    \/ focused # t
    \/ bind[t] # i

CallSkipped(t, i, a) ==
    /\ CallReady(t, i, a)
    /\ CallObsolete(t, i) \/ (i \in known /\ Awaited(i, t))
    /\ calls' = CallsAfter(t, i, a, TRUE)
    /\ UNCHANGED <<gate, manager, runtimes, tracking, decision, queue, transports>>

RequestFullState(t, i, a) ==
    /\ CallReady(t, i, a)
    /\ ~CallObsolete(t, i)
    /\ i \notin known
    /\ calls' = CallsAfter(t, i, a, CanSend(i))
    /\ asked' = IF CanSend(i) THEN asked \cup {i} ELSE asked
    /\ UNCHANGED <<gate, manager, runtimes, tracking, decision, queue,
                   link, editor, sent, closing>>

\* The code counts request ids modulo 2^31, so none is issued again while a
\* reply to it may still be under way: any such id stands for the next one.
Outstanding(r) ==
    \/ \E j \in Instances : r \in sent[j]
    \/ \E n \in 1 .. Len(queue) : queue[n].req = r

RequestFocusContext(t, i, a) ==
    /\ CallReady(t, i, a)
    /\ ~CallObsolete(t, i)
    /\ i \in known
    /\ ~Awaited(i, t)
    /\ calls' = CallsAfter(t, i, a, CanSend(i))
    /\ IF CanSend(i)
       THEN \E r \in ReqIds :
            /\ ~Outstanding(r)
            /\ pending' = [pending EXCEPT ![i] = [req |-> r, term |-> t]]
            /\ sent' = [sent EXCEPT ![i] = @ \cup {r}]
       ELSE /\ pending' = [pending EXCEPT ![i] = None]
            /\ UNCHANGED sent
    /\ UNCHANGED <<gate, manager, runtimes, known, passOf, deferred, remembered,
                   decision, queue, link, editor, asked, closing>>
-----------------------------------------------------------------------------
(* Focus events.                                                            *)

PrepareFocus(t) ==
    LET changed == focused # t
        i == IF t = None THEN None ELSE bind[t]
        activated == t \in remembered /\ i # None /\ (changed \/ ~AlreadyActive(t, i))
    IN
    /\ focused' = t
    /\ IF changed THEN DiscardTransientContext ELSE UNCHANGED pending
    /\ IF changed \/ activated THEN CloseGate ELSE UNCHANGED <<confirmed, bound, gatePass>>
    /\ remembered' = IF i = None THEN remembered \ {t} ELSE remembered
    /\ decision' = [term |-> t, inst |-> i,
                    full |-> IF i = None THEN None ELSE deferred[i]]
    /\ IF activated THEN Activate(t, i, known) ELSE UNCHANGED <<runtimes, calls>>
    /\ UNCHANGED <<manual, manager, known, passOf, deferred, queue, transports>>

\* A decision that a later focus event overtook, or without a deferred state,
\* completes without effect; one whose terminal still holds the focus resumes
\* the state deferred for it.
Resumable ==
    /\ decision.term = focused
    /\ decision.full # None
    /\ deferred[decision.inst] = decision.full

FinishFocus ==
    /\ decision # None
    /\ decision' = None
    /\ IF Resumable
       THEN /\ ManagedEvent(decision.inst, "full", None, decision.full,
                            [deferred EXCEPT ![decision.inst] = None])
       ELSE UNCHANGED <<gate, runtimes, known, passOf, deferred, pending>>
    /\ UNCHANGED <<manager, remembered, calls, queue, transports>>

LoseFocus ==
    /\ focused' = None
    /\ CloseGate
    /\ DiscardTransientContext
    /\ UNCHANGED <<manual, manager, runtimes, known, passOf, deferred, remembered,
                   decision, calls, queue, transports>>

\* An exception in a focus or event path, or a service replaced while a
\* decision is open.
FailOpenTerminalEvent ==
    /\ "frontendFailure" \in Hazards
    /\ CloseGate
    /\ client' = None
    /\ decision' = None
    /\ UNCHANGED <<manual, focused, manager, active, connected, saved, tracking,
                   calls, queue, transports>>

-----------------------------------------------------------------------------
(* Gestures and the periodic sweep, all on the main thread.                 *)

\* A gesture dispatched from terminal t without a preceding gainFocus.
RefreshForAction(t) ==
    /\ "silentRefocus" \in Hazards
    /\ MainIdle
    /\ focused # t
    /\ focused' = t
    /\ UNCHANGED <<manual, confirmed, bound, gatePass, manager, runtimes, tracking,
                   decision, calls, queue, transports>>

ToggleOn ==
    /\ MainIdle
    /\ ~manual
    /\ focused # None
    /\ manual' = TRUE
    /\ IF connected
       THEN confirmed' = TRUE /\ bound' = focused
       ELSE UNCHANGED <<confirmed, bound>>
    /\ UNCHANGED <<focused, gatePass, manager, runtimes, tracking, decision,
                   calls, queue, transports>>

\* Mutant: the bindings survive the switch.
StopAllKeepsBindings == live' = {} /\ UNCHANGED bind

StopAll ==
    /\ live' = {}
    /\ bind' = [t \in Terminals |-> None]

ClearRuntimes ==
    /\ active' = None /\ client' = None /\ connected' = FALSE
    /\ saved' = [i \in Instances |-> "none"]

\* Clients are stopped and joined here; those detached earlier stop on a
\* thread of their own (ClientStopped).
ToggleOff ==
    /\ MainIdle
    /\ manual
    /\ manual' = FALSE
    /\ CloseGate
    /\ StopAll
    /\ ClearRuntimes
    /\ known' = {}
    /\ passOf' = [i \in Instances |-> FALSE]
    /\ deferred' = [i \in Instances |-> None]
    /\ DiscardTransientContext
    /\ remembered' = {}
    /\ link' = [i \in Instances |-> IF i \in live THEN "none" ELSE link[i]]
    /\ editor' = [i \in Instances |-> IF i \in live THEN "away" ELSE editor[i]]
    /\ sent' = [i \in Instances |-> IF i \in live THEN {} ELSE sent[i]]
    /\ asked' = asked \ live
    /\ UNCHANGED <<focused, nextId, decision, calls, queue, closing>>

Without(s, r) == [i \in Instances |-> IF i = r THEN "none" ELSE s[i]]

DropSelected(r) ==
    /\ saved' = Without(saved, r)
    /\ IF active = r
       THEN active' = None /\ client' = None /\ connected' = FALSE
       ELSE UNCHANGED <<active, client, connected>>

\* Mutant: an instance that is moved or removed stays bound where it was.
UnboundNowhere(r) == bind

Unbound(r) == [t \in Terminals |-> IF bind[t] = r THEN None ELSE bind[t]]

\* A new client for terminal t, which replaces the instance bound to t.
StartConnection(t) ==
    LET i == nextId
        r == bind[t]
    IN
    /\ MainIdle
    /\ manual /\ focused = t
    /\ nextId <= MaxInstances
    /\ nextId' = nextId + 1
    /\ live' = (live \cup {i}) \ {r}
    /\ bind' = [Unbound(r) EXCEPT ![t] = i]
    /\ active' = i /\ client' = i
    /\ connected' = ConnectedAfter(i)
    /\ saved' = Without(SavedAfter(i), r)
    /\ ForgetInstance(r)
    /\ link' = [link EXCEPT ![i] = "new"]
    /\ UNCHANGED <<gate, remembered, decision, calls, queue,
                   editor, sent, asked, closing>>

\* The client's start() raised: the id is spent, nothing else changed.
StartFails(t) ==
    /\ MainIdle
    /\ manual /\ focused = t
    /\ nextId <= MaxInstances
    /\ nextId' = nextId + 1
    /\ UNCHANGED <<gate, live, bind, runtimes, tracking, decision, calls, queue, transports>>

\* The claimed session already has instance i: t takes it over.  When t shows it
\* already, a fullState may be asked for, to make the offer to remember it.
ReuseConnection(t, i) ==
    LET displaced == {x \in Terminals \ {t} : bind[x] = i} IN
    /\ MainIdle
    /\ manual /\ focused = t
    /\ i \in live
    /\ bind' = [Unbound(i) EXCEPT ![t] = i]
    /\ remembered' = remembered \ displaced
    /\ IF AlreadyActive(t, i)
       THEN /\ asked' \in {asked, IF CanSend(i) THEN asked \cup {i} ELSE asked}
            /\ UNCHANGED <<confirmed, bound, gatePass, runtimes, calls>>
       ELSE CloseGate /\ Activate(t, i, known) /\ UNCHANGED asked
    /\ UNCHANGED <<manual, focused, live, nextId, known, passOf, deferred, pending,
                   decision, queue, link, editor, sent, closing>>

DisconnectConnection(t) ==
    LET i == bind[t] IN
    /\ MainIdle
    /\ focused = t
    /\ i # None
    /\ live' = live \ {i}
    /\ bind' = Unbound(i)
    /\ remembered' = remembered \ {t}
    /\ ForgetInstance(i)
    /\ DropSelected(i)
    /\ IF active = i THEN CloseGate ELSE UNCHANGED <<confirmed, bound, gatePass>>
    /\ UNCHANGED <<manual, focused, nextId, decision, calls, queue, transports>>

\* The user accepts the offer to remember t's connection.  While the question
\* is open the terminal may have lost the focus, so its state is asked for anew.
RememberBinding(t) ==
    /\ MainIdle
    /\ focused \in {t, None}
    /\ bind[t] # None
    /\ remembered' = remembered \cup {t}
    /\ calls' = Bump(<<t, bind[t], 0>>)
    /\ UNCHANGED <<gate, manager, runtimes, known, passOf, deferred, pending,
                   decision, queue, transports>>

ForgetBinding(t) ==
    /\ MainIdle
    /\ focused = t
    /\ t \in remembered
    /\ remembered' = remembered \ {t}
    /\ UNCHANGED <<gate, manager, runtimes, known, passOf, deferred, pending,
                   decision, calls, queue, transports>>

\* The sweep finds the control of terminal t gone.
PruneClosedBinding(t) ==
    LET i == bind[t]
        last == \A x \in Terminals \ {t} : bind[x] # i
    IN
    /\ "closedTerminal" \in Hazards
    /\ MainIdle
    /\ focused # t
    /\ i # None
    /\ bind' = [bind EXCEPT ![t] = None]
    /\ remembered' = remembered \ {t}
    /\ IF last
       THEN live' = live \ {i} /\ ForgetInstance(i) /\ DropSelected(i)
       ELSE UNCHANGED <<live, known, passOf, deferred, pending, runtimes>>
    /\ UNCHANGED <<gate, nextId, decision, calls, queue, transports>>

-----------------------------------------------------------------------------
(* Transport threads and the far end.                                       *)

Post(i, kind, req, tty) ==
    /\ Len(queue) < MaxQueue
    /\ queue' = Append(queue, [kind |-> kind, inst |-> i, req |-> req, tty |-> tty])

\* Everything but the queue and the transports is left alone by a far end.
LeavesAddOn == UNCHANGED <<gate, manager, runtimes, tracking, decision, calls>>

Connecting(i) ==
    /\ link[i] \in {"new", "down"} /\ i \notin closing
    /\ link' = [link EXCEPT ![i] = "connecting"]
    /\ Post(i, "status", None, FALSE)
    /\ LeavesAddOn
    /\ UNCHANGED <<editor, sent, asked, closing>>

\* A full state arrives.  The first one of a connection authenticates it: the
\* transport reports "connected" before it hands the state itself on.
DeliverFullState(i) ==
    \/ /\ link[i] = "connecting"
       /\ link' = [link EXCEPT ![i] = "greeted"]
       /\ Post(i, "status", None, FALSE)
    \/ /\ link[i] = "up"
       /\ \E tty \in Tty : Post(i, "full", None, tty)
       /\ UNCHANGED link

FirstFullState(i) ==
    /\ link[i] = "greeted"
    /\ link' = [link EXCEPT ![i] = "up"]
    /\ \E tty \in Tty : Post(i, "full", None, tty)
    /\ LeavesAddOn
    /\ UNCHANGED <<editor, sent, asked, closing>>

\* Neovim registers the channel, at first, after a gap or after a restart.
EditorRegisters(i) ==
    /\ DeliverFullState(i)
    /\ editor' = [editor EXCEPT ![i] = "there"]
    /\ LeavesAddOn
    /\ UNCHANGED <<sent, asked, closing>>

EditorNotifies(i) ==
    /\ link[i] = "up" /\ editor[i] = "there"
    /\ \E tty \in Tty : Post(i, "event", None, tty)
    /\ LeavesAddOn
    /\ UNCHANGED transports

\* Neovim goes away behind a transport that stays: the bridge reports it in an
\* ordinary event that carries the last state.
EditorLost(i) ==
    /\ "editorLoss" \in Hazards
    /\ link[i] = "up" /\ editor[i] = "there"
    /\ editor' = [editor EXCEPT ![i] = "gone"]
    /\ \E tty \in Tty : Post(i, "event", None, tty)
    /\ LeavesAddOn
    /\ UNCHANGED <<link, sent, asked, closing>>

\* The bridge answers from its cached state, whether or not Neovim is there.
AnswerFullState(i) ==
    /\ i \in asked
    /\ asked' = asked \ {i}
    /\ DeliverFullState(i)
    /\ LeavesAddOn
    /\ UNCHANGED <<editor, sent, closing>>

AnswerFocusContext(i) ==
    /\ link[i] = "up"
    /\ \E r \in sent[i], tty \in Tty :
        /\ sent' = [sent EXCEPT ![i] = @ \ {r}]
        /\ Post(i, "context", r, tty)
    /\ LeavesAddOn
    /\ UNCHANGED <<link, editor, asked, closing>>

\* Before its first full state the bridge publishes nothing else.
DropFocusContext(i) ==
    /\ link[i] = "connecting"
    /\ \E r \in sent[i] : sent' = [sent EXCEPT ![i] = @ \ {r}]
    /\ LeavesAddOn
    /\ UNCHANGED <<queue, link, editor, asked, closing>>

\* The transport thread sees the loss and reads active_instance_id ...
TransportLost(i) ==
    /\ "transportLoss" \in Hazards
    /\ link[i] \in {"connecting", "up"} /\ i \notin closing
    /\ link' = [link EXCEPT ![i] = "down"]
    /\ editor' = [editor EXCEPT ![i] = "away"]
    /\ sent' = [sent EXCEPT ![i] = {}]
    /\ asked' = asked \ {i}
    /\ IF active = i
       THEN closing' = closing \cup {i} /\ UNCHANGED queue
       ELSE Post(i, "lost", None, FALSE) /\ UNCHANGED closing
    /\ LeavesAddOn

\* ... and acts on what it read: opens the gate, then reports to the main thread.
TransportFailsOpen(i) ==
    /\ i \in closing
    /\ closing' = closing \ {i}
    /\ CloseGate
    /\ connected' = FALSE
    /\ Post(i, "lost", None, FALSE)
    /\ UNCHANGED <<manual, focused, manager, active, client, saved, tracking, decision,
                   calls, link, editor, sent, asked>>

\* The thread that stops a detached client is done with it.
ClientStopped(i) ==
    /\ i \notin live /\ link[i] # "none" /\ i \notin closing
    /\ link' = [link EXCEPT ![i] = "none"]
    /\ editor' = [editor EXCEPT ![i] = "away"]
    /\ sent' = [sent EXCEPT ![i] = {}]
    /\ asked' = asked \ {i}
    /\ LeavesAddOn
    /\ UNCHANGED <<queue, closing>>

-----------------------------------------------------------------------------
DrainQueue == HandleManagedEvent \/ HandleManagedState

DelayedCall(t, i, a) ==
    CallSkipped(t, i, a) \/ RequestFullState(t, i, a) \/ RequestFocusContext(t, i, a)

MainStep ==
    \/ DrainQueue
    \/ \E t \in Terminals, i \in Instances, a \in 0 .. Retries : DelayedCall(t, i, a)
    \/ FinishFocus

FocusStep ==
    \/ \E t \in Terminals \cup {None} : PrepareFocus(t) \/ RefreshForAction(t)
    \/ LoseFocus \/ FailOpenTerminalEvent

GestureStep ==
    \/ ToggleOn \/ ToggleOff
    \/ \E t \in Terminals :
        \/ StartConnection(t) \/ StartFails(t) \/ DisconnectConnection(t)
        \/ RememberBinding(t) \/ ForgetBinding(t) \/ PruneClosedBinding(t)
        \/ \E i \in Instances : ReuseConnection(t, i)

FarStep == \E i \in Instances :
    \/ Connecting(i) \/ FirstFullState(i) \/ EditorRegisters(i) \/ EditorNotifies(i) \/ EditorLost(i)
    \/ AnswerFullState(i) \/ AnswerFocusContext(i) \/ DropFocusContext(i)

TransportStep == \E i \in Instances :
    TransportLost(i) \/ TransportFailsOpen(i) \/ ClientStopped(i)

Next == MainStep \/ FocusStep \/ GestureStep \/ FarStep \/ TransportStep

Spec == Init /\ [][Next]_vars

\* The main thread serves its queue and its due calls in turn with the focus
\* events between them, and a bridge that stays connected answers: its answer is
\* only ever delayed by a full queue.
Fairness ==
    /\ SF_vars(DrainQueue)
    /\ WF_vars(FinishFocus)
    /\ \A t \in Terminals, i \in Instances, a \in 0 .. Retries : SF_vars(DelayedCall(t, i, a))
    /\ \A i \in Instances : SF_vars(AnswerFullState(i)) /\ SF_vars(AnswerFocusContext(i))

FairSpec == Spec /\ Fairness

-----------------------------------------------------------------------------
TypeOK ==
    /\ manual \in BOOLEAN /\ confirmed \in BOOLEAN /\ gatePass \in BOOLEAN
    /\ bound \in Terminals \cup {None} /\ focused \in Terminals \cup {None}
    /\ live \subseteq Instances
    /\ bind \in [Terminals -> Instances \cup {None}]
    /\ nextId \in 1 .. (MaxInstances + 1)
    /\ active \in Instances \cup {None} /\ client \in Instances \cup {None}
    /\ connected \in BOOLEAN
    /\ saved \in [Instances -> {"none", "up", "down"}]
    /\ known \subseteq Instances
    /\ passOf \in [Instances -> BOOLEAN]
    /\ deferred \in [Instances -> BOOLEAN \cup {None}]
    /\ pending \in [Instances -> [req : ReqIds, term : Terminals] \cup {None}]
    /\ remembered \subseteq Terminals
    /\ decision \in [term : Terminals \cup {None}, inst : Instances \cup {None},
                     full : BOOLEAN \cup {None}] \cup {None}
    /\ calls \in [Calls -> 0 .. MaxCalls]
    /\ queue \in Seq(Message)
    /\ link \in [Instances -> {"none", "new", "connecting", "greeted", "up", "down"}]
    /\ editor \in [Instances -> {"away", "there", "gone"}]
    /\ sent \in [Instances -> SUBSET ReqIds]
    /\ asked \subseteq Instances /\ closing \subseteq Instances

\* No trace of an instance outlives it: bindings, the selected runtime, the
\* saved runtimes and every per-instance table name live instances only.
TrackingOfLive ==
    /\ \A t \in Terminals : bind[t] # None => bind[t] \in live
    /\ active # None => active \in live
    /\ known \subseteq live
    /\ \A i \in Instances \ live :
        saved[i] = "none" /\ deferred[i] = None /\ pending[i] = None /\ ~passOf[i]

\* While Neovim mode is off nothing is connected, selected, bound or
\* authenticated, whatever callbacks and calls of stopped clients still arrive.
OffMeansOff ==
    ~manual => /\ live = {} /\ known = {} /\ active = None /\ client = None
               /\ ~connected /\ ~confirmed /\ bound = None

\* A focus-context reply is only ever awaited for the focused terminal, from the
\* instance bound to it or from one it was taken from.
NoForeignPending ==
    \A i \in Instances : pending[i] # None => pending[i].term = focused

\* A silenced terminal is the one whose bound instance is the selected one,
\* and commands go to that instance's client.
SuppressionRouted ==
    Suppressing => /\ active # None
                   /\ bind[focused] = active
                   /\ client = active

\* A terminal is never silenced while the last presented state of the selected
\* instance was direct terminal input.
TerminalInputFailsOpen == Suppressing => ~passOf[active]

Handled(i) == i \notin closing /\ \A n \in 1 .. Len(queue) : queue[n].inst # i

\* Once the callbacks of a lost transport are handled, the add-on trusts nothing
\* of it any more: no authentication, no deferred state, no awaited reply.
LostIsForgotten ==
    \A i \in Instances : link[i] \in {"new", "down"} /\ Handled(i) =>
        i \notin known /\ deferred[i] = None /\ pending[i] = None

\* The gate opens only for the focused terminal, on an event of the instance
\* bound to it, which is authenticated and selected by the same step.
OpensForSelected ==
    [][~confirmed /\ confirmed' =>
        /\ manual' /\ focused' # None /\ bound' = focused'
        /\ bind'[focused'] = active' /\ client' = active' /\ active' \in known']_vars

\* An authenticated instance reopens the gate only with the answer to the request
\* made for the terminal that has the focus now: not with a late answer to an
\* earlier request, and not with a request made for another terminal.
ReopensOnAnswer ==
    [][~confirmed /\ confirmed' /\ active' \in known =>
        /\ Awaited(active', focused)
        /\ pending[active'].req \notin sent[active']]_vars

\* What the user is promised about silence: see module Silencing.  A terminal is
\* spoken for by the selected instance while the gate suppresses it.
Speaker == IF Suppressing THEN active ELSE None
Contract == INSTANCE Silencing WITH
    on <- manual, focus <- focused, serves <- bind, speaker <- Speaker

\* Where every focus change is reported, the gate keeps that promise: silence
\* begins only in a step of its own, for the instance bound to the focused
\* terminal, and every change of focus or of the mode ends it.
KeepsContract == Contract!Spec

\* Which terminal shows which connection, and which is believed, goes as in module
\* Pairing, which SessionClaims implements too, whatever callbacks of a connection
\* that ended or moved are still to come (ConnectionInstanceManager, discard_instance_tracking).
Pairs == INSTANCE Pairing WITH
    on <- manual, focus <- focused, serves <- bind, heard <- known
KeepsPairing == Pairs!Spec

\* What the client of instance i has told: "greeted" is in the middle of one
\* callback.  An id that is not given out yet has a client to come.
LinkOf(i) ==
    IF i >= nextId THEN "new" ELSE IF link[i] = "greeted" THEN "connecting" ELSE link[i]
Client(i) == INSTANCE ClientLink WITH
    link <- LinkOf(i), state <- IF LinkOf(i) = "up" THEN "state" ELSE None, States <- {"state"}

\* The transports are taken to be what LocalClient and SshClient promise.
TransportsAreClients ==
    /\ \A i \in Instances : Client(i)!Init
    /\ [][\A i \in Instances : [Client(i)!Next]_(Client(i)!vars)]_vars

Restorable(t, i) ==
    /\ manual /\ focused = t /\ bind[t] = i /\ t \in remembered
    /\ link[i] = "up" /\ editor[i] = "there"

\* A remembered terminal that keeps the focus, with its Neovim attached, does not
\* stay unconfirmed for ever, whichever requests were lost or overtaken before.
FocusRestoresSession ==
    \A t \in Terminals, i \in Instances :
        []<>(Restorable(t, i) => Foreground(i))
-----------------------------------------------------------------------------
(* What the documents promise and the code does not keep.                   *)

\* "Errors, disconnects ... immediately fail open": a lost transport whose
\* callbacks have all been handled silences nothing.
LossFailsOpen ==
    Suppressing /\ active # None /\ Handled(active) => link[active] # "down"
=============================================================================
