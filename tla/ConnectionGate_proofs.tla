------------------------ MODULE ConnectionGate_proofs ------------------------
(***************************************************************************)
(* What is proved of ConnectionGate for any terminals, instances, requests, *)
(* retries, queue length and hazards: its types, its safety invariants and  *)
(* action properties, and that it implements Silencing and Pairing.         *)
(***************************************************************************)
EXTENDS ConnectionGate, TLAPS

(* The type invariant in the parts the actions touch together. *)
GateType ==
    /\ manual \in BOOLEAN /\ confirmed \in BOOLEAN /\ gatePass \in BOOLEAN
    /\ bound \in Terminals \cup {None} /\ focused \in Terminals \cup {None}
ManagerType ==
    /\ live \subseteq Instances
    /\ bind \in [Terminals -> Instances \cup {None}]
    /\ nextId \in 1 .. (MaxInstances + 1)
RuntimesType ==
    /\ active \in Instances \cup {None} /\ client \in Instances \cup {None}
    /\ connected \in BOOLEAN
    /\ saved \in [Instances -> {"none", "up", "down"}]
Pending == [req : ReqIds, term : Terminals] \cup {None}
TrackingType ==
    /\ known \subseteq Instances
    /\ passOf \in [Instances -> BOOLEAN]
    /\ deferred \in [Instances -> BOOLEAN \cup {None}]
    /\ pending \in [Instances -> Pending]
    /\ remembered \subseteq Terminals
Decision == [term : Terminals \cup {None}, inst : Instances \cup {None},
             full : BOOLEAN \cup {None}]
DecisionType == decision \in Decision \cup {None}
CallsType == calls \in [Calls -> 0 .. MaxCalls]
QueueType == queue \in Seq(Message)
LinkType ==
    /\ link \in [Instances -> {"none", "new", "connecting", "greeted", "up", "down"}]
    /\ editor \in [Instances -> {"away", "there", "gone"}]
    /\ sent \in [Instances -> SUBSET ReqIds]
    /\ asked \subseteq Instances /\ closing \subseteq Instances

(* A focus decision with a deferred state names the instance it came from. *)
DecisionSound == decision # None /\ decision.full # None => decision.inst # None

LEMMA Parts ==
    TypeOK <=> /\ GateType /\ ManagerType /\ RuntimesType /\ TrackingType
               /\ DecisionType /\ CallsType /\ QueueType /\ LinkType
  BY DEF TypeOK, GateType, ManagerType, RuntimesType, TrackingType, Pending,
         DecisionType, Decision, CallsType, QueueType, LinkType

LEMMA PartsNext ==
    /\ GateType' /\ ManagerType' /\ RuntimesType' /\ TrackingType'
    /\ DecisionType' /\ CallsType' /\ QueueType' /\ LinkType'
    => TypeOK'
  BY DEF TypeOK, GateType, ManagerType, RuntimesType, TrackingType, Pending,
         DecisionType, Decision, CallsType, QueueType, LinkType

LEMMA CanSendType == \A i : CanSend(i) \in BOOLEAN
  BY DEF CanSend

(* What an action leaves alone keeps its type. *)
LEMMA Kept ==
    /\ GateType /\ UNCHANGED gate => GateType'
    /\ ManagerType /\ UNCHANGED manager => ManagerType'
    /\ RuntimesType /\ UNCHANGED runtimes => RuntimesType'
    /\ TrackingType /\ UNCHANGED tracking => TrackingType'
    /\ DecisionType /\ UNCHANGED decision => DecisionType'
    /\ CallsType /\ UNCHANGED calls => CallsType'
    /\ QueueType /\ UNCHANGED queue => QueueType'
    /\ LinkType /\ UNCHANGED transports => LinkType'
  BY DEF gate, manager, runtimes, tracking, transports, GateType, ManagerType, RuntimesType,
         TrackingType, DecisionType, CallsType, QueueType, LinkType

-----------------------------------------------------------------------------
(* The operators the actions are built from.                                *)

LEMMA CloseGateType ==
    ASSUME GateType, CloseGate, manual' \in BOOLEAN, focused' \in Terminals \cup {None}
    PROVE  GateType'
  BY DEF GateType, CloseGate

LEMMA SavedType ==
    ASSUME RuntimesType, NEW i \in Instances
    PROVE  /\ SavedAfter(i) \in [Instances -> {"none", "up", "down"}]
           /\ ConnectedAfter(i) \in BOOLEAN
<1>1. SavedAfter(i) \in [Instances -> {"none", "up", "down"}]
  BY DEF RuntimesType, SavedAfter
<1>2. ConnectedAfter(i) \in BOOLEAN
  BY DEF RuntimesType, ConnectedAfter
<1>3. QED
  BY <1>1, <1>2

LEMMA DropSelectedType ==
    ASSUME RuntimesType, NEW r, DropSelected(r)
    PROVE  RuntimesType'
  BY DEF RuntimesType, DropSelected, Without

LEMMA ForgetType ==
    ASSUME TrackingType, NEW r, ForgetInstance(r), remembered' \subseteq Terminals
    PROVE  TrackingType'
<1>1. known' \subseteq Instances
  BY DEF TrackingType, ForgetInstance
<1>2. passOf' \in [Instances -> BOOLEAN]
  BY DEF TrackingType, ForgetInstance
<1>3. deferred' \in [Instances -> BOOLEAN \cup {None}]
  BY DEF TrackingType, ForgetInstance
<1>4. pending' \in [Instances -> Pending]
  BY DEF TrackingType, ForgetInstance, Pending
<1>5. QED
  BY <1>1, <1>2, <1>3, <1>4 DEF TrackingType

LEMMA DiscardType ==
    ASSUME DiscardTransientContext
    PROVE  pending' \in [Instances -> Pending]
  BY DEF DiscardTransientContext, Pending

LEMMA BumpType ==
    ASSUME CallsType, NEW c \in Calls
    PROVE  Bump(c) \in [Calls -> 0 .. MaxCalls]
  BY BoundsAssumption DEF CallsType, Bump

LEMMA CallsAfterType ==
    ASSUME CallsType, NEW t \in Terminals, NEW i \in Instances, NEW a \in 0 .. Retries,
           calls[<<t, i, a>>] > 0, NEW delivered \in BOOLEAN
    PROVE  CallsAfter(t, i, a, delivered) \in [Calls -> 0 .. MaxCalls]
<1> DEFINE left == [calls EXCEPT ![<<t, i, a>>] = @ - 1]
<1>1. <<t, i, a>> \in Calls
  BY DEF Calls
<1>2. left \in [Calls -> 0 .. MaxCalls]
  BY <1>1, BoundsAssumption DEF CallsType
<1>3. a # Retries => <<t, i, a + 1>> \in Calls
  BY BoundsAssumption DEF Calls
<1>4. QED
  BY <1>2, <1>3, BoundsAssumption DEF CallsAfter

LEMMA ActivateType ==
    ASSUME RuntimesType, CallsType, NEW t \in Terminals, NEW i \in Instances, NEW tracked,
           Activate(t, i, tracked)
    PROVE  RuntimesType' /\ CallsType'
<1>1. <<t, i, 0>> \in Calls
  BY BoundsAssumption DEF Calls
<1>2. CallsType'
  BY <1>1, BumpType DEF Activate, CallsType
<1>3. active' = i /\ client' = i /\ saved' = SavedAfter(i) /\ connected' \in BOOLEAN
  BY DEF Activate
<1>4. RuntimesType'
  BY <1>3, SavedType DEF RuntimesType
<1>5. QED
  BY <1>2, <1>4

LEMMA PostType ==
    ASSUME QueueType, NEW i \in Instances, NEW kind \in EventKinds \cup StateKinds,
           NEW req \in ReqIds \cup {None}, NEW tty \in BOOLEAN, Post(i, kind, req, tty)
    PROVE  QueueType'
<1>1. [kind |-> kind, inst |-> i, req |-> req, tty |-> tty] \in Message
  BY DEF Message
<1>2. QED
  BY <1>1 DEF QueueType, Post

(* Whatever a handler does with an event keeps the add-on's types.            *)
LEMMA PresentType ==
    ASSUME GateType, RuntimesType, TrackingType, NEW i \in Instances, NEW kind,
           NEW tty \in BOOLEAN, Present(i, kind, tty)
    PROVE  /\ GateType' /\ RuntimesType'
           /\ known' \subseteq Instances
           /\ passOf' \in [Instances -> BOOLEAN]
<1>1. GateType'
  BY DEF GateType, Present, TerminalInput
<1>2. active' = i /\ client' = i /\ saved' = SavedAfter(i)
  BY DEF Present
<1>3. connected' \in BOOLEAN
  BY DEF Present
<1>4. RuntimesType'
  BY <1>2, <1>3, SavedType DEF RuntimesType
<1>5. known' \subseteq Instances /\ passOf' \in [Instances -> BOOLEAN]
  BY DEF Present, TerminalInput, TrackingType
<1>6. QED
  BY <1>1, <1>4, <1>5

LEMMA ManagedEventType ==
    ASSUME GateType, RuntimesType, TrackingType, NEW i \in Instances, NEW kind, NEW req,
           NEW tty \in BOOLEAN, NEW dfr \in [Instances -> BOOLEAN \cup {None}],
           ManagedEvent(i, kind, req, tty, dfr), UNCHANGED remembered
    PROVE  GateType' /\ RuntimesType' /\ TrackingType'
<1>1. pending' \in [Instances -> Pending]
  BY DEF ManagedEvent, ConfirmForeground, IgnoreContext, DeferFullState, IgnoreEvent,
         PresentEvent, TrackingType, Pending
<1>2. deferred' \in [Instances -> BOOLEAN \cup {None}]
  BY DEF ManagedEvent, ConfirmForeground, IgnoreContext, DeferFullState, IgnoreEvent,
         PresentEvent
<1>3. \/ Present(i, kind, tty)
      \/ Ignored
  BY DEF ManagedEvent, ConfirmForeground, IgnoreContext, DeferFullState, IgnoreEvent,
         PresentEvent
<1>4. CASE Present(i, kind, tty)
  BY <1>1, <1>2, <1>4, PresentType DEF TrackingType
<1>5. CASE Ignored
  <2>1. GateType' /\ RuntimesType'
    BY <1>5, Kept DEF Ignored
  <2>2. known' = known /\ passOf' = passOf
    BY <1>5 DEF Ignored
  <2>3. QED
    BY <1>1, <1>2, <2>1, <2>2 DEF TrackingType
<1>6. QED
  BY <1>3, <1>4, <1>5

-----------------------------------------------------------------------------
(* The steps of the main thread.                                            *)

LEMMA HeadMessage ==
    ASSUME QueueType, queue # << >>
    PROVE  /\ Head(queue) \in Message
           /\ queue' = Tail(queue) => QueueType'
<1>1. \A S, s : s \in Seq(S) /\ s # << >> => Head(s) \in S /\ Tail(s) \in Seq(S)
  OBVIOUS
<1>2. QED
  BY <1>1 DEF QueueType

LEMMA MainStepType ==
    ASSUME TypeOK, DecisionSound, MainStep
    PROVE  TypeOK'
<1> USE Parts, PartsNext
<1>1. CASE HandleManagedEvent
  <2>1. PICK m \in Message : ManagedEvent(m.inst, m.kind, m.req, m.tty, deferred)
    BY <1>1, HeadMessage DEF HandleManagedEvent
  <2>2. m.inst \in Instances /\ m.tty \in BOOLEAN
    BY DEF Message
  <2>3. GateType' /\ RuntimesType' /\ TrackingType'
    BY <1>1, <2>1, <2>2, ManagedEventType DEF HandleManagedEvent, TrackingType
  <2>4. QueueType'
    BY <1>1, HeadMessage DEF HandleManagedEvent
  <2>5. QED
    BY <1>1, <2>3, <2>4, Kept DEF HandleManagedEvent
<1>2. CASE HandleManagedState
  <2> DEFINE i == Head(queue).inst
             lost == Head(queue).kind = "lost"
  <2>1. i \in Instances /\ QueueType'
    BY <1>2, HeadMessage DEF HandleManagedState, Message
  <2>2. TrackingType'
    <3>1. CASE lost
      BY <1>2, <3>1, ForgetType DEF HandleManagedState, TrackingType
    <3>2. CASE ~lost
      BY <1>2, <3>2, Kept DEF HandleManagedState, tracking
    <3>3. QED
      BY <3>1, <3>2
  <2>3. RuntimesType'
    <3>1. CASE Selected(i)
      BY <1>2, <2>1, <3>1, SavedType DEF HandleManagedState, RuntimesType
    <3>2. CASE ~Selected(i)
      <4>1. connected' \in BOOLEAN
        BY <1>2, <3>2 DEF HandleManagedState, RuntimesType
      <4>2. saved' \in [Instances -> {"none", "up", "down"}]
        BY <1>2, <3>2 DEF HandleManagedState, RuntimesType
      <4>3. QED
        BY <1>2, <3>2, <4>1, <4>2 DEF HandleManagedState, RuntimesType
    <3>3. QED
      BY <3>1, <3>2
  <2>4. QED
    BY <1>2, <2>1, <2>2, <2>3, Kept DEF HandleManagedState
<1>3. ASSUME NEW t \in Terminals, NEW i \in Instances, NEW a \in 0 .. Retries,
             DelayedCall(t, i, a)
      PROVE  TypeOK'
  <2>1. CASE CallSkipped(t, i, a)
    <3>1. CallsType'
      BY <2>1, CallsAfterType DEF CallSkipped, CallReady, CallsType
    <3>2. QED
      BY <2>1, <3>1, Kept DEF CallSkipped
  <2>2. CASE RequestFullState(t, i, a)
    <3>1. CallsType'
      BY <2>2, CallsAfterType, CanSendType DEF RequestFullState, CallReady, CallsType
    <3>2. LinkType'
      BY <2>2 DEF RequestFullState, LinkType
    <3>3. QED
      BY <2>2, <3>1, <3>2, Kept DEF RequestFullState
  <2>3. CASE RequestFocusContext(t, i, a)
    <3>1. CallsType'
      BY <2>3, CallsAfterType, CanSendType DEF RequestFocusContext, CallReady, CallsType
    <3>2. pending' \in [Instances -> Pending] /\ sent' \in [Instances -> SUBSET ReqIds]
      BY <2>3 DEF RequestFocusContext, TrackingType, LinkType, Pending
    <3>3. TrackingType' /\ LinkType'
      BY <2>3, <3>2 DEF RequestFocusContext, TrackingType, LinkType
    <3>4. QED
      BY <2>3, <3>1, <3>3, Kept DEF RequestFocusContext
  <2>4. QED
    BY <1>3, <2>1, <2>2, <2>3 DEF DelayedCall
<1>4. CASE FinishFocus
  <2>1. GateType' /\ RuntimesType' /\ TrackingType'
    <3>1. CASE Resumable
      <4>1. decision \in Decision /\ decision.inst \in Instances /\ decision.full \in BOOLEAN
        BY <1>4, <3>1 DEF FinishFocus, Resumable, DecisionType, Decision, DecisionSound
      <4>2. [deferred EXCEPT ![decision.inst] = None] \in [Instances -> BOOLEAN \cup {None}]
        BY DEF TrackingType
      <4>3. PICK i \in Instances, tty \in BOOLEAN, dfr \in [Instances -> BOOLEAN \cup {None}] :
                ManagedEvent(i, "full", None, tty, dfr)
        BY <1>4, <3>1, <4>1, <4>2 DEF FinishFocus
      <4>4. UNCHANGED remembered
        BY <1>4 DEF FinishFocus
      <4>5. QED
        BY <4>3, <4>4, ManagedEventType
    <3>2. CASE ~Resumable
      BY <1>4, <3>2, Kept DEF FinishFocus, tracking
    <3>3. QED
      BY <3>1, <3>2
  <2>2. DecisionType'
    BY <1>4 DEF FinishFocus, DecisionType
  <2>3. QED
    BY <1>4, <2>1, <2>2, Kept DEF FinishFocus
<1>5. QED
  BY <1>1, <1>2, <1>3, <1>4 DEF MainStep, DrainQueue

-----------------------------------------------------------------------------
(* Focus events.                                                            *)

LEMMA FocusStepType ==
    ASSUME TypeOK, FocusStep
    PROVE  TypeOK'
<1> USE Parts, PartsNext
<1>1. ASSUME NEW t \in Terminals \cup {None}, PrepareFocus(t)
      PROVE  TypeOK'
  <2> DEFINE i == IF t = None THEN None ELSE bind[t]
             activated == t \in remembered /\ i # None /\ (focused # t \/ ~AlreadyActive(t, i))
  <2>1. i \in Instances \cup {None}
    BY DEF ManagerType
  <2>2. GateType'
    <3>1. focused' \in Terminals \cup {None} /\ manual' \in BOOLEAN
      BY <1>1 DEF PrepareFocus, GateType
    <3>2. CASE CloseGate
      BY <3>1, <3>2, CloseGateType
    <3>3. CASE UNCHANGED <<confirmed, bound, gatePass>>
      BY <3>1, <3>3 DEF GateType
    <3>4. QED
      BY <1>1, <3>2, <3>3 DEF PrepareFocus
  <2>3. TrackingType'
    <3>1. pending' \in [Instances -> Pending]
      BY <1>1, DiscardType DEF PrepareFocus, TrackingType
    <3>2. remembered' \subseteq Terminals
      BY <1>1 DEF PrepareFocus, TrackingType
    <3>3. QED
      BY <1>1, <3>1, <3>2 DEF PrepareFocus, TrackingType
  <2>4. DecisionType'
    <3>1. (IF i = None THEN None ELSE deferred[i]) \in BOOLEAN \cup {None}
      BY <2>1 DEF TrackingType
    <3>2. decision' = [term |-> t, inst |-> i,
                       full |-> IF i = None THEN None ELSE deferred[i]]
      BY <1>1 DEF PrepareFocus
    <3>3. QED
      BY <2>1, <3>1, <3>2 DEF DecisionType, Decision
  <2>5. RuntimesType' /\ CallsType'
    <3>1. CASE activated
      <4>1. t \in Terminals /\ i \in Instances /\ Activate(t, i, known)
        BY <1>1, <2>1, <3>1 DEF PrepareFocus, TrackingType
      <4>2. QED
        BY <4>1, ActivateType
    <3>2. CASE ~activated
      BY <1>1, <3>2, Kept DEF PrepareFocus
    <3>3. QED
      BY <3>1, <3>2
  <2>6. QED
    BY <1>1, <2>2, <2>3, <2>4, <2>5, Kept DEF PrepareFocus
<1>2. ASSUME NEW t \in Terminals \cup {None}, RefreshForAction(t)
      PROVE  TypeOK'
  <2>1. GateType'
    BY <1>2 DEF RefreshForAction, GateType
  <2>2. QED
    BY <1>2, <2>1, Kept DEF RefreshForAction
<1>3. CASE LoseFocus
  <2>1. GateType'
    BY <1>3, CloseGateType DEF LoseFocus, GateType
  <2>2. TrackingType'
    BY <1>3, DiscardType DEF LoseFocus, TrackingType
  <2>3. QED
    BY <1>3, <2>1, <2>2, Kept DEF LoseFocus
<1>4. CASE FailOpenTerminalEvent
  <2>1. GateType'
    BY <1>4, CloseGateType DEF FailOpenTerminalEvent, GateType
  <2>2. RuntimesType' /\ DecisionType'
    BY <1>4 DEF FailOpenTerminalEvent, RuntimesType, DecisionType
  <2>3. QED
    BY <1>4, <2>1, <2>2, Kept DEF FailOpenTerminalEvent
<1>5. QED
  BY <1>1, <1>2, <1>3, <1>4 DEF FocusStep

-----------------------------------------------------------------------------
(* Gestures and the sweep.                                                  *)

LEMMA UnboundType ==
    ASSUME ManagerType, NEW r
    PROVE  Unbound(r) \in [Terminals -> Instances \cup {None}]
  BY DEF ManagerType, Unbound

LEMMA GestureStepType ==
    ASSUME TypeOK, GestureStep
    PROVE  TypeOK'
<1> USE Parts, PartsNext
<1>1. CASE ToggleOn
  <2>1. GateType'
    BY <1>1 DEF ToggleOn, GateType
  <2>2. QED
    BY <1>1, <2>1, Kept DEF ToggleOn
<1>2. CASE ToggleOff
  <2>1. GateType'
    BY <1>2, CloseGateType DEF ToggleOff, GateType
  <2>2. ManagerType' /\ RuntimesType'
    BY <1>2 DEF ToggleOff, StopAll, ClearRuntimes, ManagerType, RuntimesType
  <2>3. TrackingType'
    BY <1>2, DiscardType DEF ToggleOff, TrackingType
  <2>4. LinkType'
    <3>1. link' \in [Instances -> {"none", "new", "connecting", "greeted", "up", "down"}]
      BY <1>2 DEF ToggleOff, LinkType
    <3>2. editor' \in [Instances -> {"away", "there", "gone"}]
      BY <1>2 DEF ToggleOff, LinkType
    <3>3. sent' \in [Instances -> SUBSET ReqIds]
      BY <1>2 DEF ToggleOff, LinkType
    <3>4. QED
      BY <1>2, <3>1, <3>2, <3>3 DEF ToggleOff, LinkType
  <2>5. QED
    BY <1>2, <2>1, <2>2, <2>3, <2>4, Kept DEF ToggleOff
<1>3. ASSUME NEW t \in Terminals, StartConnection(t)
      PROVE  TypeOK'
  <2>1. nextId \in Instances /\ nextId' \in 1 .. (MaxInstances + 1)
    BY <1>3, BoundsAssumption DEF StartConnection, ManagerType, Instances
  <2>2. ManagerType'
    BY <1>3, <2>1, UnboundType DEF StartConnection, ManagerType
  <2>3. RuntimesType'
    <3>1. saved' \in [Instances -> {"none", "up", "down"}]
      BY <1>3, <2>1, SavedType DEF StartConnection, Without
    <3>2. QED
      BY <1>3, <2>1, <3>1, SavedType DEF StartConnection, RuntimesType
  <2>4. TrackingType'
    BY <1>3, ForgetType DEF StartConnection, TrackingType
  <2>5. LinkType'
    BY <1>3 DEF StartConnection, LinkType
  <2>6. QED
    BY <1>3, <2>2, <2>3, <2>4, <2>5, Kept DEF StartConnection
<1>4. ASSUME NEW t \in Terminals, StartFails(t)
      PROVE  TypeOK'
  <2>1. ManagerType'
    BY <1>4, BoundsAssumption DEF StartFails, ManagerType
  <2>2. QED
    BY <1>4, <2>1, Kept DEF StartFails
<1>5. ASSUME NEW t \in Terminals, DisconnectConnection(t)
      PROVE  TypeOK'
  <2>1. GateType'
    BY <1>5, CloseGateType DEF DisconnectConnection, GateType
  <2>2. ManagerType'
    BY <1>5, UnboundType DEF DisconnectConnection, ManagerType
  <2>3. RuntimesType'
    BY <1>5, DropSelectedType DEF DisconnectConnection
  <2>4. TrackingType'
    BY <1>5, ForgetType DEF DisconnectConnection, TrackingType
  <2>5. QED
    BY <1>5, <2>1, <2>2, <2>3, <2>4, Kept DEF DisconnectConnection
<1>6. ASSUME NEW t \in Terminals, RememberBinding(t)
      PROVE  TypeOK'
  <2>1. <<t, bind[t], 0>> \in Calls
    BY <1>6, BoundsAssumption DEF RememberBinding, ManagerType, Calls
  <2>2. TrackingType' /\ CallsType'
    BY <1>6, <2>1, BumpType DEF RememberBinding, TrackingType, CallsType
  <2>3. QED
    BY <1>6, <2>2, Kept DEF RememberBinding
<1>7. ASSUME NEW t \in Terminals, ForgetBinding(t)
      PROVE  TypeOK'
  <2>1. TrackingType'
    BY <1>7 DEF ForgetBinding, TrackingType
  <2>2. QED
    BY <1>7, <2>1, Kept DEF ForgetBinding
<1>8. ASSUME NEW t \in Terminals, PruneClosedBinding(t)
      PROVE  TypeOK'
  <2> DEFINE i == bind[t]
             last == \A x \in Terminals \ {t} : bind[x] # i
  <2>1. bind' \in [Terminals -> Instances \cup {None}] /\ remembered' \subseteq Terminals
    BY <1>8 DEF PruneClosedBinding, ManagerType, TrackingType
  <2>2. CASE last
    <3>1. ManagerType'
      BY <1>8, <2>1, <2>2 DEF PruneClosedBinding, ManagerType
    <3>2. RuntimesType'
      BY <1>8, <2>2, DropSelectedType DEF PruneClosedBinding
    <3>3. TrackingType'
      BY <1>8, <2>1, <2>2, ForgetType DEF PruneClosedBinding
    <3>4. QED
      BY <1>8, <3>1, <3>2, <3>3, Kept DEF PruneClosedBinding
  <2>3. CASE ~last
    <3>1. ManagerType'
      BY <1>8, <2>1, <2>3 DEF PruneClosedBinding, ManagerType
    <3>2. TrackingType'
      BY <1>8, <2>1, <2>3 DEF PruneClosedBinding, TrackingType
    <3>3. QED
      BY <1>8, <2>3, <3>1, <3>2, Kept DEF PruneClosedBinding
  <2>4. QED
    BY <2>2, <2>3
<1>9. ASSUME NEW t \in Terminals, NEW i \in Instances, ReuseConnection(t, i)
      PROVE  TypeOK'
  <2>1. bind' \in [Terminals -> Instances \cup {None}] /\ remembered' \subseteq Terminals
    BY <1>9, UnboundType DEF ReuseConnection, TrackingType
  <2>2. ManagerType' /\ TrackingType' /\ LinkType'
    BY <1>9, <2>1 DEF ReuseConnection, ManagerType, TrackingType, LinkType
  <2>3. GateType' /\ RuntimesType' /\ CallsType'
    <3>1. CASE AlreadyActive(t, i)
      <4>1. UNCHANGED gate
        BY <1>9, <3>1 DEF ReuseConnection, gate
      <4>2. QED
        BY <1>9, <3>1, <4>1, Kept DEF ReuseConnection
    <3>2. CASE ~AlreadyActive(t, i)
      <4>1. RuntimesType' /\ CallsType'
        BY <1>9, <3>2, ActivateType DEF ReuseConnection
      <4>2. GateType'
        BY <1>9, <3>2, CloseGateType DEF ReuseConnection, GateType
      <4>3. QED
        BY <4>1, <4>2
    <3>3. QED
      BY <3>1, <3>2
  <2>4. QED
    BY <1>9, <2>2, <2>3, Kept DEF ReuseConnection
<1>10. QED
  BY <1>1, <1>2, <1>3, <1>4, <1>5, <1>6, <1>7, <1>8, <1>9 DEF GestureStep

-----------------------------------------------------------------------------
(* The transports and the far end.                                          *)

LEMMA DeliverType ==
    ASSUME QueueType, LinkType, NEW i \in Instances, DeliverFullState(i)
    PROVE  /\ QueueType'
           /\ link' \in [Instances -> {"none", "new", "connecting", "greeted", "up", "down"}]
<1>1. \A tty \in Tty : tty \in BOOLEAN
  BY TtyAssumption
<1>2. "status" \in EventKinds \cup StateKinds /\ "full" \in EventKinds \cup StateKinds
  BY DEF EventKinds, StateKinds
<1>3. QueueType'
  BY <1>1, <1>2, PostType DEF DeliverFullState
<1>4. QED
  BY <1>3 DEF DeliverFullState, LinkType

LEMMA FarStepType ==
    ASSUME TypeOK, NEW i \in Instances,
           \/ Connecting(i) \/ FirstFullState(i) \/ EditorRegisters(i) \/ EditorNotifies(i)
           \/ EditorLost(i) \/ AnswerFullState(i) \/ AnswerFocusContext(i) \/ DropFocusContext(i)
    PROVE  TypeOK'
<1> USE Parts
<1> SUFFICES QueueType' /\ LinkType'
  BY PartsNext, Kept DEF Connecting, FirstFullState, EditorRegisters, EditorNotifies, EditorLost,
     AnswerFullState, AnswerFocusContext, DropFocusContext, LeavesAddOn
<1>1. /\ \A tty \in Tty : tty \in BOOLEAN
      /\ EventKinds \cup StateKinds = {"full", "context", "event", "status", "lost"}
  BY TtyAssumption DEF EventKinds, StateKinds
<1>2. CASE Connecting(i)
  BY <1>1, <1>2, PostType DEF Connecting, LinkType
<1>3. CASE FirstFullState(i)
  BY <1>1, <1>3, PostType DEF FirstFullState, LinkType
<1>4. CASE EditorRegisters(i)
  BY <1>4, DeliverType DEF EditorRegisters, LinkType
<1>5. CASE EditorNotifies(i)
  BY <1>1, <1>5, PostType, Kept DEF EditorNotifies
<1>6. CASE EditorLost(i)
  <2>1. QueueType'
    BY <1>1, <1>6, PostType DEF EditorLost
  <2>2. LinkType'
    BY <1>6 DEF EditorLost, LinkType
  <2>3. QED
    BY <2>1, <2>2
<1>7. CASE AnswerFullState(i)
  BY <1>7, DeliverType DEF AnswerFullState, LinkType
<1>8. CASE AnswerFocusContext(i)
  <2>1. PICK r \in sent[i], tty \in Tty :
          /\ sent' = [sent EXCEPT ![i] = @ \ {r}]
          /\ Post(i, "context", r, tty)
    BY <1>8 DEF AnswerFocusContext
  <2>2. r \in ReqIds
    BY DEF LinkType
  <2>3. QueueType'
    BY <1>1, <2>1, <2>2, PostType
  <2>4. LinkType'
    BY <1>8, <2>1 DEF AnswerFocusContext, LinkType
  <2>5. QED
    BY <2>3, <2>4
<1>9. CASE DropFocusContext(i)
  BY <1>9, Kept DEF DropFocusContext, LinkType
<1>10. QED
  BY <1>2, <1>3, <1>4, <1>5, <1>6, <1>7, <1>8, <1>9

LEMMA LostLinkType ==
    ASSUME LinkType, NEW i \in Instances, TransportLost(i)
    PROVE  LinkType'
<1>1. /\ link' = [link EXCEPT ![i] = "down"] /\ editor' = [editor EXCEPT ![i] = "away"]
      /\ sent' = [sent EXCEPT ![i] = {}]
  BY DEF TransportLost
<1>2. asked' \subseteq asked /\ closing' \subseteq closing \cup {i}
  BY DEF TransportLost
<1>3. link' \in [Instances -> {"none", "new", "connecting", "greeted", "up", "down"}]
  BY <1>1 DEF LinkType
<1>4. editor' \in [Instances -> {"away", "there", "gone"}] /\ sent' \in [Instances -> SUBSET ReqIds]
  BY <1>1 DEF LinkType
<1>5. asked' \subseteq Instances /\ closing' \subseteq Instances
  BY <1>2 DEF LinkType
<1>6. QED
  BY <1>3, <1>4, <1>5 DEF LinkType

LEMMA TransportStepType ==
    ASSUME TypeOK, NEW i \in Instances,
           TransportLost(i) \/ TransportFailsOpen(i) \/ ClientStopped(i)
    PROVE  TypeOK'
<1> USE Parts, PartsNext
<1>1. "lost" \in EventKinds \cup StateKinds
  BY DEF EventKinds, StateKinds
<1>2. CASE TransportLost(i)
  <2>1. QueueType'
    BY <1>1, <1>2, PostType, Kept DEF TransportLost
  <2>2. LinkType'
    BY <1>2, LostLinkType
  <2>3. QED
    BY <1>2, <2>1, <2>2, Kept DEF TransportLost, LeavesAddOn
<1>3. CASE TransportFailsOpen(i)
  <2>1. QueueType'
    BY <1>1, <1>3, PostType DEF TransportFailsOpen
  <2>2. GateType'
    BY <1>3, CloseGateType DEF TransportFailsOpen, GateType
  <2>3. RuntimesType' /\ LinkType'
    BY <1>3 DEF TransportFailsOpen, RuntimesType, LinkType
  <2>4. QED
    BY <1>3, <2>1, <2>2, <2>3, Kept DEF TransportFailsOpen
<1>4. CASE ClientStopped(i)
  <2>1. LinkType'
    BY <1>4 DEF ClientStopped, LinkType
  <2>2. QED
    BY <1>4, <2>1, Kept DEF ClientStopped, LeavesAddOn
<1>5. QED
  BY <1>2, <1>3, <1>4

-----------------------------------------------------------------------------
(* What a delayed call leaves alone.                                       *)
LEMMA DelayedCallKeeps ==
    ASSUME NEW t, NEW i, NEW a, DelayedCall(t, i, a)
    PROVE  UNCHANGED <<gate, manager, runtimes, known, passOf, deferred, queue, decision>>
<1>1. CASE CallSkipped(t, i, a)
  BY <1>1 DEF CallSkipped, tracking
<1>2. CASE RequestFullState(t, i, a)
  BY <1>2 DEF RequestFullState, tracking
<1>3. CASE RequestFocusContext(t, i, a)
  BY <1>3 DEF RequestFocusContext
<1>4. QED
  BY <1>1, <1>2, <1>3 DEF DelayedCall

(* A focus decision that carries a deferred state names its instance: only  *)
(* a bound terminal's prepare reads the deferred states.                    *)
LEMMA DecisionStep ==
    ASSUME DecisionSound, [Next]_vars
    PROVE  DecisionSound'
<1>1. CASE \E t \in Terminals \cup {None} : PrepareFocus(t)
  BY <1>1 DEF PrepareFocus, DecisionSound
<1>2. CASE decision' = None
  BY <1>2 DEF DecisionSound
<1>3. CASE UNCHANGED decision
  BY <1>3 DEF DecisionSound
<1>4. CASE GestureStep
  <2>1. CASE ToggleOn \/ ToggleOff
    BY <1>3, <2>1 DEF ToggleOn, ToggleOff
  <2>2. ASSUME NEW t \in Terminals, StartConnection(t) \/ StartFails(t)
        PROVE  UNCHANGED decision
    BY <2>2 DEF StartConnection, StartFails
  <2>3. ASSUME NEW t \in Terminals, DisconnectConnection(t) \/ PruneClosedBinding(t)
        PROVE  UNCHANGED decision
    BY <2>3 DEF DisconnectConnection, PruneClosedBinding
  <2>4. ASSUME NEW t \in Terminals, RememberBinding(t) \/ ForgetBinding(t)
        PROVE  UNCHANGED decision
    BY <2>4 DEF RememberBinding, ForgetBinding
  <2>5. ASSUME NEW t \in Terminals, NEW i \in Instances, ReuseConnection(t, i)
        PROVE  UNCHANGED decision
    BY <2>5 DEF ReuseConnection
  <2>6. QED
    BY <1>3, <1>4, <2>1, <2>2, <2>3, <2>4, <2>5 DEF GestureStep
<1>5. CASE MainStep
  <2>1. decision' = None \/ UNCHANGED decision
    BY <1>5, DelayedCallKeeps
       DEF MainStep, DrainQueue, HandleManagedEvent, HandleManagedState, FinishFocus
  <2>2. QED
    BY <1>2, <1>3, <2>1
<1>6. CASE FocusStep
  BY <1>1, <1>2, <1>3, <1>6 DEF FocusStep, RefreshForAction, LoseFocus, FailOpenTerminalEvent
<1>7. CASE FarStep \/ TransportStep
  <2>1. UNCHANGED decision
    BY <1>7 DEF FarStep, TransportStep, Connecting, FirstFullState, EditorRegisters,
       EditorNotifies, EditorLost, AnswerFullState, AnswerFocusContext, DropFocusContext,
       TransportLost, TransportFailsOpen, ClientStopped, LeavesAddOn
  <2>2. QED
    BY <1>3, <2>1
<1>8. CASE UNCHANGED vars
  BY <1>3, <1>8 DEF vars
<1>9. QED
  BY <1>4, <1>5, <1>6, <1>7, <1>8 DEF Next

LEMMA InitType == Init => TypeOK /\ DecisionSound
<1> SUFFICES ASSUME Init PROVE TypeOK /\ DecisionSound
  OBVIOUS
<1>1. DecisionSound
  BY DEF Init, DecisionSound
<1>2. GateType /\ RuntimesType /\ DecisionType /\ LinkType
  BY DEF Init, GateType, RuntimesType, DecisionType, LinkType
<1>3. ManagerType /\ CallsType
  BY BoundsAssumption DEF Init, ManagerType, CallsType
<1>4. TrackingType
  BY DEF Init, TrackingType, Pending
<1>5. QueueType
  BY DEF Init, QueueType
<1>6. QED
  BY <1>1, <1>2, <1>3, <1>4, <1>5, Parts

LEMMA NextType ==
    ASSUME TypeOK, DecisionSound, [Next]_vars
    PROVE  TypeOK'
<1>1. CASE Next
  BY <1>1, MainStepType, FocusStepType, GestureStepType, FarStepType, TransportStepType
     DEF Next, FarStep, TransportStep
<1>2. CASE UNCHANGED vars
  BY <1>2, Parts, PartsNext, Kept DEF vars
<1>3. QED
  BY <1>1, <1>2

(* Every variable of the gate, its managers and its transports keeps its    *)
(* type, whatever the terminals, instances, bounds and hazards.             *)
THEOREM TypeCorrect == Spec => []TypeOK
<1>1. Init => TypeOK /\ DecisionSound
  BY InitType
<1>2. TypeOK /\ DecisionSound /\ [Next]_vars => (TypeOK /\ DecisionSound)'
  BY NextType, DecisionStep
<1>3. QED
  BY <1>1, <1>2, PTL DEF Spec

-----------------------------------------------------------------------------
(* What the managers and the runtimes name is live.                         *)

(* TrackingOfLive in the parts the actions touch together, with what makes  *)
(* it inductive: a new instance id names no earlier instance.               *)
BindOfLive == \A t \in Terminals : bind[t] # None => bind[t] \in live
ActiveOfLive == active # None => active \in live
SavedOfLive == \A i \in Instances \ live : saved[i] = "none"
TrackOfLive ==
    /\ known \subseteq live
    /\ \A i \in Instances \ live : deferred[i] = None /\ pending[i] = None /\ ~passOf[i]
LiveStarted == live \subseteq 1 .. (nextId - 1)

OfLive == BindOfLive /\ ActiveOfLive /\ SavedOfLive /\ TrackOfLive /\ LiveStarted

LEMMA OfLiveTracking == OfLive => TrackingOfLive
  BY DEF OfLive, BindOfLive, ActiveOfLive, SavedOfLive, TrackOfLive, TrackingOfLive

LEMMA KeptOfLive ==
    /\ BindOfLive /\ LiveStarted /\ UNCHANGED manager => BindOfLive' /\ LiveStarted'
    /\ ActiveOfLive /\ SavedOfLive /\ UNCHANGED live /\ UNCHANGED runtimes
        => ActiveOfLive' /\ SavedOfLive'
    /\ TrackOfLive /\ UNCHANGED <<live, known, passOf, deferred, pending>> => TrackOfLive'
  BY DEF manager, runtimes, BindOfLive, LiveStarted, ActiveOfLive, SavedOfLive, TrackOfLive

LEMMA ForgetOfLive ==
    ASSUME TrackOfLive, NEW r, ForgetInstance(r), live \ {r} \subseteq live'
    PROVE  TrackOfLive'
<1>1. known' \subseteq live'
  BY DEF TrackOfLive, ForgetInstance
<1>2. ASSUME NEW i \in Instances \ live'
      PROVE  deferred'[i] = None /\ pending'[i] = None /\ ~passOf'[i]
  <2>1. i = r \/ i \in Instances \ live
    OBVIOUS
  <2>2. ~passOf'[i]
    BY <2>1 DEF TrackOfLive, ForgetInstance
  <2>3. deferred'[i] = None /\ pending'[i] = None
    BY <2>1 DEF TrackOfLive, ForgetInstance
  <2>4. QED
    BY <2>2, <2>3
<1>3. QED
  BY <1>1, <1>2 DEF TrackOfLive

LEMMA SavedAfterOfLive ==
    ASSUME ActiveOfLive, SavedOfLive, NEW i
    PROVE  \A j \in Instances \ live : SavedAfter(i)[j] = "none"
  BY NoneAssumption DEF ActiveOfLive, SavedOfLive, SavedAfter

LEMMA SelectedLive ==
    ASSUME GateType, ManagerType, BindOfLive, NEW i \in Instances, Selected(i)
    PROVE  i \in live
  BY NoneAssumption DEF GateType, ManagerType, BindOfLive, Selected

LEMMA ActivateOfLive ==
    ASSUME ActiveOfLive, SavedOfLive, NEW t, NEW i \in live, NEW tracked,
           Activate(t, i, tracked), UNCHANGED live
    PROVE  ActiveOfLive' /\ SavedOfLive'
<1>1. active' = i /\ saved' = SavedAfter(i)
  BY DEF Activate
<1>2. QED
  BY <1>1, SavedAfterOfLive DEF ActiveOfLive, SavedOfLive

LEMMA DropSelectedOfLive ==
    ASSUME ActiveOfLive, SavedOfLive, NEW r, DropSelected(r), live' = live \ {r}
    PROVE  ActiveOfLive' /\ SavedOfLive'
  BY DEF ActiveOfLive, SavedOfLive, DropSelected, Without

LEMMA ManagedEventOfLive ==
    ASSUME TypeOK, BindOfLive, ActiveOfLive, SavedOfLive, TrackOfLive,
           NEW i \in Instances, NEW kind, NEW req, NEW tty \in BOOLEAN, NEW dfr,
           \A j \in Instances \ live : dfr[j] = None,
           dfr \in [Instances -> BOOLEAN \cup {None}],
           ManagedEvent(i, kind, req, tty, dfr), UNCHANGED manager
    PROVE  ActiveOfLive' /\ SavedOfLive' /\ TrackOfLive'
<1> USE Parts
<1>1. live' = live
  BY DEF manager
<1>2. CASE Selected(i) /\ Present(i, kind, tty) /\ deferred' = dfr
                       /\ (pending' = pending \/ pending' = [pending EXCEPT ![i] = None])
  <2>1. i \in live
    BY <1>2, SelectedLive
  <2>2. active' = i /\ saved' = SavedAfter(i)
    BY <1>2 DEF Present
  <2>3. ActiveOfLive' /\ SavedOfLive'
    BY <1>1, <2>1, <2>2, SavedAfterOfLive DEF ActiveOfLive, SavedOfLive
  <2>4. TrackOfLive'
    BY <1>1, <1>2, <2>1 DEF Present, TerminalInput, TrackOfLive, TrackingType
  <2>5. QED
    BY <2>3, <2>4
<1>3. CASE Ignored /\ UNCHANGED pending
           /\ (deferred' = dfr \/ (i \in live /\ deferred' = [dfr EXCEPT ![i] = tty]))
  <2>1. ActiveOfLive' /\ SavedOfLive'
    BY <1>1, <1>3, KeptOfLive DEF Ignored
  <2>2. known' = known /\ passOf' = passOf
    BY <1>3 DEF Ignored
  <2>3. TrackOfLive'
    BY <1>1, <1>3, <2>2 DEF TrackOfLive, TrackingType
  <2>4. QED
    BY <2>1, <2>3
<1>4. QED
  BY <1>2, <1>3 DEF ManagedEvent, ConfirmForeground, IgnoreContext, DeferFullState,
     IgnoreEvent, PresentEvent

-----------------------------------------------------------------------------
(* What the handlers of the main thread leave alone.                        *)
LEMMA ManagedEventKeeps ==
    ASSUME NEW i, NEW kind, NEW req, NEW tty, NEW dfr, ManagedEvent(i, kind, req, tty, dfr)
    PROVE  UNCHANGED <<manual, focused>>
<1>1. CASE Ignored
  BY <1>1 DEF Ignored, gate
<1>2. CASE Present(i, kind, tty)
  BY <1>2 DEF Present
<1>3. QED
  BY <1>1, <1>2 DEF ManagedEvent, ConfirmForeground, IgnoreContext, DeferFullState,
     IgnoreEvent, PresentEvent

LEMMA MainStepKeeps ==
    ASSUME MainStep
    PROVE  UNCHANGED <<manual, focused>> /\ UNCHANGED manager
<1>1. CASE HandleManagedEvent
  BY <1>1, ManagedEventKeeps DEF HandleManagedEvent
<1>2. CASE HandleManagedState
  BY <1>2 DEF HandleManagedState, gate
<1>3. CASE \E t \in Terminals, i \in Instances, a \in 0 .. Retries : DelayedCall(t, i, a)
  BY <1>3, DelayedCallKeeps DEF gate
<1>4. CASE FinishFocus
  BY <1>4, ManagedEventKeeps DEF FinishFocus, gate
<1>5. QED
  BY <1>1, <1>2, <1>3, <1>4 DEF MainStep, DrainQueue

-----------------------------------------------------------------------------
LEMMA MainStepOfLive ==
    ASSUME TypeOK, DecisionSound, OfLive, MainStep
    PROVE  OfLive'
<1> USE Parts DEF OfLive
<1>1. CASE HandleManagedEvent
  <2>1. PICK m \in Message : ManagedEvent(m.inst, m.kind, m.req, m.tty, deferred)
    BY <1>1, HeadMessage DEF HandleManagedEvent
  <2>2. m.inst \in Instances /\ m.tty \in BOOLEAN
    BY DEF Message
  <2>3. /\ deferred \in [Instances -> BOOLEAN \cup {None}]
        /\ \A j \in Instances \ live : deferred[j] = None
    BY DEF TrackingType, TrackOfLive
  <2>4. ActiveOfLive' /\ SavedOfLive' /\ TrackOfLive'
    BY <1>1, <2>1, <2>2, <2>3, ManagedEventOfLive DEF HandleManagedEvent
  <2>5. QED
    BY <1>1, <2>4, KeptOfLive DEF HandleManagedEvent, manager
<1>2. CASE HandleManagedState
  <2> DEFINE i == Head(queue).inst
             lost == Head(queue).kind = "lost"
  <2>1. i \in Instances /\ live' = live
    BY <1>2, HeadMessage DEF HandleManagedState, Message, manager
  <2>2. TrackOfLive'
    <3>1. CASE lost
      BY <1>2, <2>1, <3>1, ForgetOfLive DEF HandleManagedState
    <3>2. CASE ~lost
      BY <1>2, <2>1, <3>2, KeptOfLive DEF HandleManagedState
    <3>3. QED
      BY <3>1, <3>2
  <2>3. ActiveOfLive' /\ SavedOfLive'
    <3>1. CASE Selected(i)
      <4>1. i \in live
        BY <2>1, <3>1, SelectedLive
      <4>2. active' = i /\ saved' = SavedAfter(i)
        BY <1>2, <3>1 DEF HandleManagedState
      <4>3. QED
        BY <2>1, <4>1, <4>2, SavedAfterOfLive DEF ActiveOfLive, SavedOfLive
    <3>2. CASE ~Selected(i)
      <4>1. /\ active' = active
            /\ saved' = saved \/ (saved[i] = "up" /\ saved' = [saved EXCEPT ![i] = "down"])
        BY <1>2, <3>2 DEF HandleManagedState
      <4>2. QED
        BY <2>1, <4>1 DEF ActiveOfLive, SavedOfLive, RuntimesType
    <3>3. QED
      BY <3>1, <3>2
  <2>4. QED
    BY <1>2, <2>2, <2>3, KeptOfLive DEF HandleManagedState
<1>3. ASSUME NEW t \in Terminals, NEW i \in Instances, NEW a \in 0 .. Retries,
             DelayedCall(t, i, a)
      PROVE  OfLive'
  <2>1. CASE CallSkipped(t, i, a) \/ RequestFullState(t, i, a)
    BY <2>1, KeptOfLive DEF CallSkipped, RequestFullState, manager, tracking
  <2>2. CASE RequestFocusContext(t, i, a)
    <3>1. i \in live
      BY <2>2 DEF RequestFocusContext, TrackOfLive
    <3>2. pending' \in [Instances -> Pending] /\ \A j \in Instances \ {i} : pending'[j] = pending[j]
      BY <2>2 DEF RequestFocusContext, TrackingType, Pending
    <3>3. live' = live /\ UNCHANGED <<known, passOf, deferred>>
      BY <2>2 DEF RequestFocusContext, manager
    <3>4. TrackOfLive'
      BY <3>1, <3>2, <3>3 DEF TrackOfLive
    <3>5. QED
      BY <2>2, <3>3, <3>4, KeptOfLive DEF RequestFocusContext
  <2>3. QED
    BY <1>3, <2>1, <2>2 DEF DelayedCall
<1>4. CASE FinishFocus
  <2>1. ActiveOfLive' /\ SavedOfLive' /\ TrackOfLive'
    <3>1. CASE Resumable
      <4>1. decision \in Decision /\ decision.inst \in Instances /\ decision.full \in BOOLEAN
        BY <1>4, <3>1 DEF FinishFocus, Resumable, DecisionType, Decision, DecisionSound
      <4> DEFINE dfr == [deferred EXCEPT ![decision.inst] = None]
      <4>2. dfr \in [Instances -> BOOLEAN \cup {None}]
        BY DEF TrackingType
      <4>3. \A j \in Instances \ live : dfr[j] = None
        BY DEF TrackingType, TrackOfLive
      <4>4. ManagedEvent(decision.inst, "full", None, decision.full, dfr) /\ UNCHANGED manager
        BY <1>4, <3>1 DEF FinishFocus
      <4> HIDE DEF dfr
      <4>5. QED
        BY <4>1, <4>2, <4>3, <4>4, ManagedEventOfLive
    <3>2. CASE ~Resumable
      BY <1>4, <3>2, KeptOfLive DEF FinishFocus, manager
    <3>3. QED
      BY <3>1, <3>2
  <2>2. QED
    BY <1>4, <2>1, KeptOfLive DEF FinishFocus
<1>5. QED
  BY <1>1, <1>2, <1>3, <1>4 DEF MainStep, DrainQueue

LEMMA FocusStepOfLive ==
    ASSUME TypeOK, OfLive, FocusStep
    PROVE  OfLive'
<1> USE Parts DEF OfLive
<1>1. live' = live /\ UNCHANGED <<manager, known, passOf, deferred>>
  BY DEF FocusStep, PrepareFocus, RefreshForAction, LoseFocus, FailOpenTerminalEvent, manager,
     tracking
<1>2. BindOfLive' /\ LiveStarted'
  BY <1>1, KeptOfLive
<1>3. TrackOfLive'
  <2>1. DiscardTransientContext \/ UNCHANGED pending
    BY DEF FocusStep, PrepareFocus, RefreshForAction, LoseFocus, FailOpenTerminalEvent, tracking
  <2>2. CASE DiscardTransientContext
    BY <1>1, <2>2 DEF DiscardTransientContext, TrackOfLive
  <2>3. CASE UNCHANGED pending
    BY <1>1, <2>3, KeptOfLive
  <2>4. QED
    BY <2>1, <2>2, <2>3
<1>4. ActiveOfLive' /\ SavedOfLive'
  <2>1. ASSUME NEW t \in Terminals \cup {None}, PrepareFocus(t)
        PROVE  ActiveOfLive' /\ SavedOfLive'
    <3> DEFINE i == IF t = None THEN None ELSE bind[t]
               activated == t \in remembered /\ i # None /\ (focused # t \/ ~AlreadyActive(t, i))
    <3>1. CASE activated
      <4>1. t \in Terminals /\ i \in live /\ Activate(t, i, known)
        BY <2>1, <3>1 DEF PrepareFocus, TrackingType, BindOfLive
      <4>2. QED
        BY <1>1, <4>1, ActivateOfLive
    <3>2. CASE ~activated
      BY <1>1, <2>1, <3>2, KeptOfLive DEF PrepareFocus
    <3>3. QED
      BY <3>1, <3>2
  <2>2. CASE UNCHANGED active /\ UNCHANGED saved
    BY <1>1, <2>2 DEF ActiveOfLive, SavedOfLive
  <2>3. QED
    BY <2>1, <2>2 DEF FocusStep, RefreshForAction, LoseFocus, FailOpenTerminalEvent, runtimes
<1>5. QED
  BY <1>2, <1>3, <1>4

LEMMA GestureStepOfLive ==
    ASSUME TypeOK, OfLive, GestureStep
    PROVE  OfLive'
<1> USE Parts DEF OfLive
<1>1. CASE ToggleOn
  BY <1>1, KeptOfLive DEF ToggleOn, manager, tracking
<1>2. CASE ToggleOff
  <2>1. BindOfLive' /\ LiveStarted'
    BY <1>2 DEF ToggleOff, StopAll, BindOfLive, LiveStarted
  <2>2. ActiveOfLive' /\ SavedOfLive'
    BY <1>2 DEF ToggleOff, ClearRuntimes, ActiveOfLive, SavedOfLive
  <2>3. TrackOfLive'
    BY <1>2 DEF ToggleOff, DiscardTransientContext, TrackOfLive
  <2>4. QED
    BY <2>1, <2>2, <2>3
<1>3. ASSUME NEW t \in Terminals, StartConnection(t)
      PROVE  OfLive'
  <2> DEFINE i == nextId
             r == bind[t]
  <2>1. i \in Instances /\ i \notin live /\ i # r /\ i \in Nat \ {0}
    BY <1>3, NoneAssumption DEF StartConnection, ManagerType, LiveStarted, BindOfLive, Instances
  <2>2. live' = (live \cup {i}) \ {r} /\ nextId' = i + 1
    BY <1>3 DEF StartConnection
  <2>3. LiveStarted'
    <3>1. live \subseteq 1 .. (i - 1)
      BY DEF LiveStarted
    <3>2. \A j \in 1 .. (i - 1) : j \in 1 .. i
      BY <2>1
    <3>3. i \in 1 .. i
      BY <2>1
    <3>4. live' \subseteq 1 .. i
      BY <2>2, <3>1, <3>2, <3>3
    <3>5. nextId' - 1 = i
      BY <2>1, <2>2
    <3>6. QED
      BY <3>4, <3>5 DEF LiveStarted
  <2>4. BindOfLive'
    <3>1. bind' = [Unbound(r) EXCEPT ![t] = i]
      BY <1>3 DEF StartConnection
    <3>2. QED
      BY <2>1, <2>2, <3>1 DEF BindOfLive, Unbound
  <2>5. ActiveOfLive' /\ SavedOfLive'
    <3>1. active' = i /\ saved' = Without(SavedAfter(i), r)
      BY <1>3 DEF StartConnection
    <3>2. QED
      BY <2>1, <2>2, <3>1, SavedAfterOfLive DEF ActiveOfLive, SavedOfLive, Without
  <2>6. TrackOfLive'
    BY <1>3, <2>2, ForgetOfLive DEF StartConnection
  <2>7. QED
    BY <2>3, <2>4, <2>5, <2>6
<1>4. ASSUME NEW t \in Terminals, StartFails(t)
      PROVE  OfLive'
  <2>1. BindOfLive' /\ LiveStarted'
    BY <1>4 DEF StartFails, BindOfLive, LiveStarted, ManagerType
  <2>2. QED
    BY <1>4, <2>1, KeptOfLive DEF StartFails, tracking
<1>5. ASSUME NEW t \in Terminals, DisconnectConnection(t)
      PROVE  OfLive'
  <2>1. /\ live' = live \ {bind[t]} /\ nextId' = nextId
        /\ bind' = Unbound(bind[t])
        /\ ForgetInstance(bind[t]) /\ DropSelected(bind[t])
    BY <1>5 DEF DisconnectConnection
  <2>2. BindOfLive' /\ LiveStarted'
    BY <2>1 DEF BindOfLive, LiveStarted, Unbound
  <2>3. TrackOfLive' /\ ActiveOfLive' /\ SavedOfLive'
    BY <2>1, ForgetOfLive, DropSelectedOfLive
  <2>4. QED
    BY <2>2, <2>3
<1>6. ASSUME NEW t \in Terminals, RememberBinding(t) \/ ForgetBinding(t)
      PROVE  OfLive'
  BY <1>6, KeptOfLive DEF RememberBinding, ForgetBinding, manager
<1>7. ASSUME NEW t \in Terminals, PruneClosedBinding(t)
      PROVE  OfLive'
  <2> DEFINE i == bind[t]
             last == \A x \in Terminals \ {t} : bind[x] # i
  <2>1. bind' = [bind EXCEPT ![t] = None] /\ nextId' = nextId
    BY <1>7 DEF PruneClosedBinding
  <2>2. CASE last
    <3>1. live' = live \ {i} /\ ForgetInstance(i) /\ DropSelected(i)
      BY <1>7, <2>2 DEF PruneClosedBinding
    <3>2. BindOfLive' /\ LiveStarted'
      BY <2>1, <2>2, <3>1 DEF BindOfLive, LiveStarted, ManagerType
    <3>3. TrackOfLive' /\ ActiveOfLive' /\ SavedOfLive'
      BY <3>1, ForgetOfLive, DropSelectedOfLive
    <3>4. QED
      BY <3>2, <3>3
  <2>3. CASE ~last
    <3>1. UNCHANGED <<live, known, passOf, deferred, pending, runtimes>>
      BY <1>7, <2>3 DEF PruneClosedBinding
    <3>2. BindOfLive' /\ LiveStarted'
      BY <2>1, <3>1 DEF BindOfLive, LiveStarted, ManagerType
    <3>3. QED
      BY <3>1, <3>2, KeptOfLive
  <2>4. QED
    BY <2>2, <2>3
<1>8. ASSUME NEW t \in Terminals, NEW i \in Instances, ReuseConnection(t, i)
      PROVE  OfLive'
  <2>1. /\ i \in live /\ UNCHANGED <<live, nextId, known, passOf, deferred, pending>>
        /\ bind' = [Unbound(i) EXCEPT ![t] = i]
    BY <1>8 DEF ReuseConnection
  <2>2. BindOfLive' /\ LiveStarted'
    BY <2>1 DEF BindOfLive, LiveStarted, Unbound
  <2>3. ActiveOfLive' /\ SavedOfLive'
    <3>1. CASE AlreadyActive(t, i)
      BY <1>8, <2>1, <3>1, KeptOfLive DEF ReuseConnection
    <3>2. CASE ~AlreadyActive(t, i)
      BY <1>8, <2>1, <3>2, ActivateOfLive DEF ReuseConnection
    <3>3. QED
      BY <3>1, <3>2
  <2>4. QED
    BY <2>1, <2>2, <2>3, KeptOfLive
<1>9. QED
  BY <1>1, <1>2, <1>3, <1>4, <1>5, <1>6, <1>7, <1>8 DEF GestureStep

LEMMA FarAndTransportOfLive ==
    ASSUME OfLive, FarStep \/ TransportStep
    PROVE  OfLive'
<1>1. UNCHANGED <<manager, active, saved, tracking>>
  BY DEF FarStep, TransportStep, Connecting, FirstFullState, EditorRegisters, EditorNotifies,
     EditorLost, AnswerFullState, AnswerFocusContext, DropFocusContext, TransportLost,
     TransportFailsOpen, ClientStopped, LeavesAddOn, runtimes
<1>2. QED
  BY <1>1 DEF manager, tracking, OfLive, BindOfLive, ActiveOfLive, SavedOfLive, TrackOfLive,
     LiveStarted

LEMMA InitOfLive == Init => OfLive
  BY DEF Init, OfLive, BindOfLive, ActiveOfLive, SavedOfLive, TrackOfLive, LiveStarted

LEMMA NextOfLive ==
    ASSUME TypeOK, DecisionSound, OfLive, [Next]_vars
    PROVE  OfLive'
<1>1. CASE UNCHANGED vars
  BY <1>1, KeptOfLive DEF vars, OfLive, manager, tracking
<1>2. QED
  BY <1>1, MainStepOfLive, FocusStepOfLive, GestureStepOfLive, FarAndTransportOfLive DEF Next

(* Bindings, the selected runtime, the saved runtimes and the tables kept    *)
(* per instance never name an instance that was disconnected, replaced or    *)
(* pruned.                                                                   *)
THEOREM TrackingNamesLive == Spec => []TrackingOfLive
<1>1. Init => TypeOK /\ DecisionSound /\ OfLive
  BY InitType, InitOfLive
<1>2. TypeOK /\ DecisionSound /\ OfLive /\ [Next]_vars => (TypeOK /\ DecisionSound /\ OfLive)'
  BY NextType, DecisionStep, NextOfLive
<1>3. QED
  BY <1>1, <1>2, OfLiveTracking, PTL DEF Spec

-----------------------------------------------------------------------------
(* Neovim mode off.                                                         *)

Off == /\ live = {} /\ known = {} /\ active = None /\ client = None
       /\ ~connected /\ ~confirmed /\ bound = None

LEMMA QuietEvent ==
    ASSUME NEW i, ~Selected(i), i \notin live, NEW kind, NEW req, NEW tty, NEW dfr,
           ManagedEvent(i, kind, req, tty, dfr)
    PROVE  Ignored
  BY DEF ManagedEvent, ConfirmForeground, IgnoreContext, DeferFullState, IgnoreEvent, PresentEvent

LEMMA OffStep ==
    ASSUME TypeOK, DecisionSound, OfLive, ~manual, Off, [Next]_vars, ~manual'
    PROVE  Off'
<1> USE Parts
<1>1. \A t \in Terminals : bind[t] = None
  BY DEF OfLive, BindOfLive, Off
<1>2. \A i \in Instances : ~Selected(i) /\ i \notin live
  BY <1>1, NoneAssumption DEF Selected, Off, GateType
<1>3. CASE HandleManagedEvent
  <2>1. PICK m \in Message : ManagedEvent(m.inst, m.kind, m.req, m.tty, deferred)
    BY <1>3, HeadMessage DEF HandleManagedEvent
  <2>2. Ignored
    BY <1>2, <2>1, QuietEvent DEF Message
  <2>3. QED
    BY <1>3, <2>2 DEF HandleManagedEvent, Ignored, Off, gate, runtimes, manager
<1>4. CASE HandleManagedState
  <2>1. ~Selected(Head(queue).inst)
    BY <1>2, <1>4, HeadMessage DEF HandleManagedState, Message
  <2>2. active' = active /\ ~connected' /\ known' = {}
    BY <1>4, <2>1 DEF HandleManagedState, ForgetInstance, Off
  <2>3. QED
    BY <1>4, <2>2 DEF HandleManagedState, Off, gate, manager
<1>5. CASE FinishFocus
  <2>1. CASE Resumable
    <3>1. decision.inst \in Instances
      BY <1>5, <2>1 DEF FinishFocus, Resumable, DecisionType, Decision, DecisionSound
    <3>2. Ignored
      BY <1>2, <1>5, <2>1, <3>1, QuietEvent DEF FinishFocus
    <3>3. QED
      BY <1>5, <3>2 DEF FinishFocus, Ignored, Off, gate, runtimes, manager
  <2>2. CASE ~Resumable
    BY <1>5, <2>2 DEF FinishFocus, Off, gate, runtimes, manager
  <2>3. QED
    BY <2>1, <2>2
<1>6. CASE \E t \in Terminals, i \in Instances, a \in 0 .. Retries : DelayedCall(t, i, a)
  <2>1. UNCHANGED <<gate, manager, runtimes, known>>
    BY <1>6, DelayedCallKeeps
  <2>2. QED
    BY <2>1 DEF Off, gate, runtimes, manager
<1>7. ASSUME NEW t \in Terminals \cup {None}, PrepareFocus(t)
      PROVE  Off'
  <2>1. UNCHANGED runtimes /\ UNCHANGED <<manager, known>>
    BY <1>1, <1>7 DEF PrepareFocus, TrackingType
  <2>2. CloseGate \/ UNCHANGED <<confirmed, bound, gatePass>>
    BY <1>7 DEF PrepareFocus
  <2>3. QED
    BY <2>1, <2>2 DEF CloseGate, Off, runtimes, manager
<1>8. CASE (\E t \in Terminals \cup {None} : RefreshForAction(t)) \/ LoseFocus
           \/ FailOpenTerminalEvent
  BY <1>8 DEF RefreshForAction, LoseFocus, FailOpenTerminalEvent, CloseGate, Off, runtimes,
     manager, tracking
<1>9. CASE GestureStep
  <2>1. PICK t \in Terminals : StartFails(t) \/ RememberBinding(t) \/ ForgetBinding(t)
    BY <1>1, <1>9 DEF GestureStep, ToggleOn, ToggleOff, StartConnection, DisconnectConnection,
       PruneClosedBinding, ReuseConnection
  <2>2. QED
    BY <2>1 DEF StartFails, RememberBinding, ForgetBinding, Off, gate, runtimes, manager, tracking
<1>10. CASE FarStep \/ TransportStep
  <2>1. CASE \E i \in Instances : TransportFailsOpen(i)
    BY <2>1 DEF TransportFailsOpen, CloseGate, Off, manager, tracking
  <2>2. CASE LeavesAddOn
    BY <2>2 DEF LeavesAddOn, Off, gate, runtimes, manager, tracking
  <2>3. QED
    BY <1>10, <2>1, <2>2 DEF FarStep, TransportStep, Connecting, FirstFullState,
       EditorRegisters, EditorNotifies, EditorLost, AnswerFullState, AnswerFocusContext,
       DropFocusContext, TransportLost, ClientStopped
<1>11. CASE UNCHANGED vars
  BY <1>11 DEF vars, Off, gate, runtimes, manager, tracking
<1>12. QED
  BY <1>3, <1>4, <1>5, <1>6, <1>7, <1>8, <1>9, <1>10, <1>11
     DEF Next, MainStep, DrainQueue, FocusStep

(* Only the mode switch changes manual, and switching off clears everything. *)
LEMMA ManualStep ==
    ASSUME [Next]_vars, manual, ~manual'
    PROVE  ToggleOff
<1>1. CASE MainStep
  BY <1>1, MainStepKeeps
<1>2. CASE FocusStep
  BY <1>2 DEF FocusStep, PrepareFocus, RefreshForAction, LoseFocus, FailOpenTerminalEvent
<1>3. CASE GestureStep
  BY <1>3 DEF GestureStep, ToggleOn, StartConnection, StartFails, DisconnectConnection,
     RememberBinding, ForgetBinding, PruneClosedBinding, ReuseConnection, gate
<1>4. CASE FarStep \/ TransportStep
  BY <1>4 DEF FarStep, TransportStep, Connecting, FirstFullState, EditorRegisters,
     EditorNotifies, EditorLost, AnswerFullState, AnswerFocusContext, DropFocusContext,
     TransportLost, TransportFailsOpen, ClientStopped, LeavesAddOn, gate
<1>5. CASE UNCHANGED vars
  BY <1>5 DEF vars, gate
<1>6. QED
  BY <1>1, <1>2, <1>3, <1>4, <1>5 DEF Next

LEMMA OffNext ==
    ASSUME TypeOK, DecisionSound, OfLive, OffMeansOff, [Next]_vars
    PROVE  OffMeansOff'
<1> USE Parts
<1> SUFFICES ASSUME ~manual' PROVE Off'
  BY DEF OffMeansOff, Off
<1>1. CASE manual
  BY <1>1, ManualStep DEF ToggleOff, StopAll, ClearRuntimes, CloseGate, Off
<1>2. CASE ~manual
  <2>1. Off
    BY <1>2 DEF OffMeansOff, Off
  <2>2. QED
    BY <1>2, <2>1, OffStep
<1>3. QED
  BY <1>1, <1>2 DEF GateType

(* The gate's invariants that need no assumption on the environment. *)
Base == TypeOK /\ DecisionSound /\ OfLive /\ OffMeansOff

LEMMA BaseInvariant == Spec => []Base
<1>1. Init => Base
  BY InitType, InitOfLive DEF Base, Init, OffMeansOff
<1>2. Base /\ [Next]_vars => Base'
  BY NextType, DecisionStep, NextOfLive, OffNext DEF Base
<1>3. QED
  BY <1>1, <1>2, PTL DEF Spec

(* After the switch nothing that still arrives from a stopped client selects, *)
(* connects or authenticates anything.                                        *)
THEOREM OffStaysOff == Spec => []OffMeansOff
<1>1. Base => OffMeansOff
  BY DEF Base
<1>2. QED
  BY <1>1, BaseInvariant, PTL

-----------------------------------------------------------------------------
(* A gate held open for the focused terminal.  RefreshForAction moves the    *)
(* focus without closing the gate, so what follows is about frontends whose  *)
(* every focus change is reported.                                           *)

Held == confirmed /\ focused # None /\ focused = bound

Routed ==
    /\ active \in Instances
    /\ bind[focused] = active
    /\ client = active
    /\ passOf[active] => gatePass

HeldRouted == Held => Routed

LEMMA KeptRouted ==
    ASSUME HeldRouted, UNCHANGED <<confirmed, focused, bound, gatePass>>,
           UNCHANGED <<bind, active, client, passOf>>
    PROVE  HeldRouted'
  BY DEF HeldRouted, Held, Routed

LEMMA ClosedRouted ==
    ASSUME CloseGate \/ ~confirmed'
    PROVE  HeldRouted'
  BY DEF CloseGate, HeldRouted, Held

LEMMA RoutedEvent ==
    ASSUME TypeOK, HeldRouted, NEW i \in Instances, NEW kind, NEW req, NEW tty \in BOOLEAN,
           NEW dfr, ManagedEvent(i, kind, req, tty, dfr), UNCHANGED bind
    PROVE  HeldRouted'
<1> USE Parts
<1>1. CASE Selected(i) /\ Present(i, kind, tty)
  <2>1. active' = i /\ client' = i /\ focused' = focused /\ bind'[focused] = i
    BY <1>1 DEF Present, Selected
  <2>2. passOf' = [passOf EXCEPT ![i] = tty] /\ gatePass' = tty
    BY <1>1 DEF Present, TerminalInput
  <2>3. passOf'[i] => gatePass'
    BY <2>2 DEF TrackingType
  <2>4. QED
    BY <2>1, <2>3 DEF HeldRouted, Routed
<1>2. CASE Ignored
  BY <1>2, KeptRouted DEF Ignored, gate, runtimes
<1>3. QED
  BY <1>1, <1>2 DEF ManagedEvent, ConfirmForeground, IgnoreContext, DeferFullState, IgnoreEvent,
     PresentEvent

(* Dropping an instance that is not the selected one.                        *)
LEMMA ForgetRouted ==
    ASSUME TypeOK, Routed, NEW r, ForgetInstance(r)
    PROVE  passOf'[active] => passOf[active]
<1>1. active \in Instances
  BY DEF Routed
<1>2. passOf'[active] = (active # r /\ passOf[active])
  BY <1>1 DEF ForgetInstance
<1>3. QED
  BY <1>2

LEMMA MainStepRouted ==
    ASSUME TypeOK, DecisionSound, HeldRouted, MainStep
    PROVE  HeldRouted'
<1> USE Parts
<1>1. CASE HandleManagedEvent
  <2>1. PICK m \in Message : ManagedEvent(m.inst, m.kind, m.req, m.tty, deferred)
    BY <1>1, HeadMessage DEF HandleManagedEvent
  <2>2. QED
    BY <1>1, <2>1, RoutedEvent DEF HandleManagedEvent, Message, manager
<1>2. CASE HandleManagedState
  <2> DEFINE i == Head(queue).inst
  <2> SUFFICES ASSUME Held' PROVE Routed'
    BY DEF HeldRouted
  <2>1. UNCHANGED <<gate, manager, client>>
    BY <1>2 DEF HandleManagedState
  <2>2. Held /\ Routed
    BY <2>1 DEF gate, Held, HeldRouted
  <2>3. active' = active
    BY <1>2, <2>2 DEF HandleManagedState, Selected, Routed
  <2>4. passOf'[active] => passOf[active]
    BY <1>2, <2>2, ForgetRouted DEF HandleManagedState
  <2>5. QED
    BY <2>1, <2>2, <2>3, <2>4 DEF Routed, gate, manager
<1>3. CASE \E t \in Terminals, i \in Instances, a \in 0 .. Retries : DelayedCall(t, i, a)
  <2>1. UNCHANGED <<gate, manager, runtimes, passOf>>
    BY <1>3, DelayedCallKeeps
  <2>2. QED
    BY <2>1, KeptRouted DEF gate, manager, runtimes
<1>4. CASE FinishFocus
  <2>1. CASE Resumable
    <3>1. decision.inst \in Instances /\ decision.full \in BOOLEAN
      BY <1>4, <2>1 DEF FinishFocus, Resumable, DecisionType, Decision, DecisionSound
    <3>2. QED
      BY <1>4, <2>1, <3>1, RoutedEvent DEF FinishFocus, manager
  <2>2. CASE ~Resumable
    BY <1>4, <2>2, KeptRouted DEF FinishFocus, gate, runtimes, manager
  <2>3. QED
    BY <2>1, <2>2
<1>5. QED
  BY <1>1, <1>2, <1>3, <1>4 DEF MainStep, DrainQueue

LEMMA FocusStepRouted ==
    ASSUME "silentRefocus" \notin Hazards, HeldRouted, FocusStep
    PROVE  HeldRouted'
<1>1. ASSUME NEW t \in Terminals \cup {None}, PrepareFocus(t)
      PROVE  HeldRouted'
  <2>1. CASE CloseGate
    BY <2>1, ClosedRouted
  <2>2. CASE ~CloseGate
    BY <1>1, <2>2, KeptRouted DEF PrepareFocus, runtimes, manager
  <2>3. QED
    BY <2>1, <2>2
<1>2. QED
  BY <1>1, ClosedRouted DEF FocusStep, RefreshForAction, LoseFocus, FailOpenTerminalEvent

LEMMA GestureStepRouted ==
    ASSUME Base, HeldRouted, GestureStep
    PROVE  HeldRouted'
<1> USE Parts DEF Base
<1>1. CASE ToggleOn
  <2>1. UNCHANGED <<confirmed, bound>>
    BY <1>1 DEF ToggleOn, OffMeansOff
  <2>2. QED
    BY <1>1, <2>1, KeptRouted DEF ToggleOn, manager, runtimes, tracking
<1>2. CASE ToggleOff
  BY <1>2, ClosedRouted DEF ToggleOff
<1>3. ASSUME NEW t \in Terminals, StartConnection(t)
      PROVE  HeldRouted'
  <2>1. nextId \in Instances /\ nextId \notin live
    BY <1>3 DEF StartConnection, ManagerType, OfLive, LiveStarted, Instances
  <2>2. active' = nextId /\ client' = nextId /\ focused' = t /\ bind'[t] = nextId
    BY <1>3, UnboundType DEF StartConnection, gate
  <2>3. ~passOf[nextId]
    BY <2>1 DEF OfLive, TrackOfLive
  <2>4. ~passOf'[nextId]
    BY <1>3, <2>1, <2>3 DEF StartConnection, ForgetInstance
  <2>5. QED
    BY <2>1, <2>2, <2>4 DEF HeldRouted, Routed
<1>4. ASSUME NEW t \in Terminals, StartFails(t) \/ RememberBinding(t) \/ ForgetBinding(t)
      PROVE  HeldRouted'
  BY <1>4, KeptRouted DEF StartFails, RememberBinding, ForgetBinding, gate, manager, runtimes,
     tracking
<1>5. ASSUME NEW t \in Terminals, DisconnectConnection(t)
      PROVE  HeldRouted'
  <2>1. CASE active = bind[t]
    BY <1>5, <2>1, ClosedRouted DEF DisconnectConnection
  <2>2. CASE active # bind[t]
    <3>1. ~Held
      BY <1>5, <2>2 DEF DisconnectConnection, HeldRouted, Routed, Held
    <3>2. ~Held'
      BY <1>5, <2>2, <3>1 DEF DisconnectConnection, Held
    <3>3. QED
      BY <3>2 DEF HeldRouted
  <2>3. QED
    BY <2>1, <2>2
<1>6. ASSUME NEW t \in Terminals, PruneClosedBinding(t)
      PROVE  HeldRouted'
  <2> SUFFICES ASSUME Held' PROVE Routed'
    BY DEF HeldRouted
  <2>1. UNCHANGED gate /\ focused # t /\ bind' = [bind EXCEPT ![t] = None]
    BY <1>6 DEF PruneClosedBinding
  <2>2. Held /\ Routed
    BY <2>1 DEF gate, Held, HeldRouted
  <2>3. focused \in Terminals \ {t} /\ bind[focused] = active
    BY <2>1, <2>2 DEF Held, Routed, GateType
  <2>4. bind'[focused'] = active
    BY <2>1, <2>3 DEF gate, ManagerType
  <2>5. active' = active /\ client' = client /\ (passOf'[active] => passOf[active])
    <3>1. CASE \A x \in Terminals \ {t} : bind[x] # bind[t]
      <4>1. ForgetInstance(bind[t]) /\ DropSelected(bind[t]) /\ active # bind[t]
        BY <1>6, <2>3, <3>1 DEF PruneClosedBinding
      <4>2. QED
        BY <2>2, <4>1, ForgetRouted DEF DropSelected
    <3>2. CASE ~ \A x \in Terminals \ {t} : bind[x] # bind[t]
      BY <1>6, <3>2 DEF PruneClosedBinding, runtimes
    <3>3. QED
      BY <3>1, <3>2
  <2>6. QED
    BY <2>1, <2>2, <2>4, <2>5 DEF Routed, gate
<1>7. ASSUME NEW t \in Terminals, NEW i \in Instances, ReuseConnection(t, i)
      PROVE  HeldRouted'
  <2>1. CASE AlreadyActive(t, i)
    <3>1. /\ UNCHANGED <<confirmed, focused, bound, gatePass, active, client, passOf>>
          /\ bind' = [Unbound(i) EXCEPT ![t] = i]
          /\ focused = t /\ active = i
      BY <1>7, <2>1 DEF ReuseConnection, AlreadyActive, runtimes
    <3>2. bind'[t] = i
      BY <3>1, UnboundType
    <3>3. QED
      BY <3>1, <3>2 DEF HeldRouted, Held, Routed
  <2>2. CASE ~AlreadyActive(t, i)
    BY <1>7, <2>2, ClosedRouted DEF ReuseConnection
  <2>3. QED
    BY <2>1, <2>2
<1>8. QED
  BY <1>1, <1>2, <1>3, <1>4, <1>5, <1>6, <1>7 DEF GestureStep

LEMMA FarAndTransportRouted ==
    ASSUME HeldRouted, FarStep \/ TransportStep
    PROVE  HeldRouted'
<1>1. CASE \E i \in Instances : TransportFailsOpen(i)
  BY <1>1, ClosedRouted DEF TransportFailsOpen
<1>2. CASE LeavesAddOn
  BY <1>2, KeptRouted DEF LeavesAddOn, gate, manager, runtimes, tracking
<1>3. QED
  BY <1>1, <1>2 DEF FarStep, TransportStep, Connecting, FirstFullState,
     EditorRegisters, EditorNotifies, EditorLost, AnswerFullState, AnswerFocusContext,
     DropFocusContext, TransportLost, ClientStopped

LEMMA RoutedInvariant ==
    ASSUME "silentRefocus" \notin Hazards
    PROVE  Spec => [](Base /\ HeldRouted)
<1>1. Init => HeldRouted
  BY DEF Init, HeldRouted, Held
<1>2. Base /\ HeldRouted /\ [Next]_vars => HeldRouted'
  <2> SUFFICES ASSUME Base, HeldRouted, [Next]_vars PROVE HeldRouted'
    OBVIOUS
  <2>1. CASE UNCHANGED vars
    BY <2>1, KeptRouted DEF vars, gate, manager, runtimes, tracking
  <2>2. QED
    BY <2>1, MainStepRouted, FocusStepRouted, GestureStepRouted, FarAndTransportRouted
       DEF Next, Base
<1>3. QED
  BY <1>1, <1>2, BaseInvariant, PTL DEF Spec

(* A silenced terminal's commands go to the instance bound to it.            *)
THEOREM SuppressionAlwaysRouted ==
    ASSUME "silentRefocus" \notin Hazards
    PROVE  Spec => []SuppressionRouted
<1>1. Base /\ HeldRouted => SuppressionRouted
  BY NoneAssumption DEF Suppressing, HeldRouted, Held, Routed, SuppressionRouted
<1>2. QED
  BY <1>1, RoutedInvariant, PTL

(* A terminal whose Neovim was last seen in direct terminal input is not     *)
(* silenced.                                                                 *)
THEOREM TerminalInputIsHeard ==
    ASSUME "silentRefocus" \notin Hazards
    PROVE  Spec => []TerminalInputFailsOpen
<1>1. Base /\ HeldRouted => TerminalInputFailsOpen
  BY DEF Suppressing, HeldRouted, Held, Routed, TerminalInputFailsOpen
<1>2. QED
  BY <1>1, RoutedInvariant, PTL

-----------------------------------------------------------------------------
(* Opening the gate.                                                        *)

OpenedForSelected ==
    /\ manual' /\ focused' # None /\ bound' = focused'
    /\ bind'[focused'] = active' /\ client' = active' /\ active' \in known'

LEMMA EventOpens ==
    ASSUME Base, NEW i \in Instances, NEW kind, NEW req, NEW tty, NEW dfr,
           ManagedEvent(i, kind, req, tty, dfr), UNCHANGED bind, ~confirmed, confirmed'
    PROVE  OpenedForSelected
<1> USE Parts DEF Base
<1>1. CASE Ignored
  BY <1>1 DEF Ignored, gate
<1>2. CASE Selected(i) /\ Present(i, kind, tty) /\ (kind = "context" => i \in known)
  <2>1. i \in live
    BY <1>2, SelectedLive DEF OfLive
  <2>2. manual
    BY <2>1 DEF OffMeansOff
  <2>3. /\ active' = i /\ client' = i /\ UNCHANGED <<manual, focused>> /\ bound' = focused
        /\ i \in known'
    BY <1>2 DEF Present
  <2>4. QED
    BY <1>2, <2>2, <2>3 DEF Selected, OpenedForSelected
<1>3. QED
  BY <1>1, <1>2 DEF ManagedEvent, ConfirmForeground, IgnoreContext, DeferFullState,
     IgnoreEvent, PresentEvent

(* Only an event of an instance opens the gate: the switch finds nothing    *)
(* connected, and every other step closes the gate or leaves it alone.      *)
LEMMA OpeningStep ==
    ASSUME Base, [Next]_vars, ~confirmed, confirmed'
    PROVE  HandleManagedEvent \/ FinishFocus
<1> USE DEF Base
<1>1. CASE HandleManagedState \/ (\E t \in Terminals, i \in Instances, a \in 0 .. Retries :
                                   DelayedCall(t, i, a))
  BY <1>1, DelayedCallKeeps DEF HandleManagedState, gate
<1>2. CASE FocusStep
  BY <1>2 DEF FocusStep, PrepareFocus, RefreshForAction, LoseFocus, FailOpenTerminalEvent, CloseGate
<1>3. CASE ToggleOn
  BY <1>3 DEF ToggleOn, OffMeansOff
<1>4. CASE GestureStep /\ ~ToggleOn
  BY <1>4 DEF GestureStep, ToggleOff, StartConnection, StartFails, DisconnectConnection,
     RememberBinding, ForgetBinding, PruneClosedBinding, ReuseConnection, CloseGate, gate
<1>5. CASE \E i \in Instances : TransportFailsOpen(i)
  BY <1>5 DEF TransportFailsOpen, CloseGate
<1>6. CASE LeavesAddOn \/ UNCHANGED vars
  BY <1>6 DEF LeavesAddOn, vars, gate
<1>7. CASE FarStep \/ TransportStep
  BY <1>5, <1>6, <1>7 DEF FarStep, TransportStep, Connecting, FirstFullState,
     EditorRegisters, EditorNotifies, EditorLost, AnswerFullState, AnswerFocusContext,
     DropFocusContext, TransportLost, ClientStopped
<1>8. QED
  BY <1>1, <1>2, <1>3, <1>4, <1>6, <1>7 DEF Next, MainStep, DrainQueue

LEMMA NextOpens ==
    ASSUME Base, [Next]_vars, ~confirmed, confirmed'
    PROVE  OpenedForSelected
<1> USE Parts DEF Base
<1>1. CASE HandleManagedEvent
  <2>1. PICK m \in Message : ManagedEvent(m.inst, m.kind, m.req, m.tty, deferred)
    BY <1>1, HeadMessage DEF HandleManagedEvent
  <2>2. QED
    BY <1>1, <2>1, EventOpens DEF HandleManagedEvent, Message, manager
<1>2. CASE FinishFocus
  <2>1. CASE Resumable
    <3>1. decision.inst \in Instances
      BY <1>2, <2>1 DEF FinishFocus, Resumable, DecisionType, Decision, DecisionSound
    <3>2. QED
      BY <1>2, <2>1, <3>1, EventOpens DEF FinishFocus, manager
  <2>2. CASE ~Resumable
    BY <1>2, <2>2 DEF FinishFocus, gate
  <2>3. QED
    BY <2>1, <2>2
<1>3. QED
  BY <1>1, <1>2, OpeningStep

(* The gate opens only on an event of the instance bound to the focused       *)
(* terminal, which the same step authenticates and selects.                  *)
THEOREM GateOpensForSelected == Spec => OpensForSelected
<1>1. Base /\ [Next]_vars => [~confirmed /\ confirmed' => OpenedForSelected]_vars
  BY NextOpens
<1>2. [~confirmed /\ confirmed' => OpenedForSelected]_vars
      <=> [~confirmed /\ confirmed' =>
             /\ manual' /\ focused' # None /\ bound' = focused'
             /\ bind'[focused'] = active' /\ client' = active' /\ active' \in known']_vars
  BY DEF OpenedForSelected
<1>3. QED
  BY <1>1, <1>2, BaseInvariant, PTL DEF Spec, OpensForSelected

-----------------------------------------------------------------------------
(* Awaited replies.                                                         *)

LEMMA PendingKept ==
    ASSUME NoForeignPending, focused' = focused,
           \A i \in Instances : pending'[i] = pending[i] \/ pending'[i] = None
    PROVE  NoForeignPending'
  BY DEF NoForeignPending

LEMMA PendingDiscarded ==
    ASSUME DiscardTransientContext
    PROVE  NoForeignPending'
  BY DEF NoForeignPending, DiscardTransientContext

LEMMA PendingNext ==
    ASSUME "silentRefocus" \notin Hazards, TypeOK, DecisionSound, NoForeignPending, [Next]_vars
    PROVE  NoForeignPending'
<1> USE Parts
<1>0. \A i : ForgetInstance(i) =>
        \A j \in Instances : pending'[j] = pending[j] \/ pending'[j] = None
  BY DEF ForgetInstance
<1>1. ASSUME NEW i \in Instances, NEW kind, NEW req, NEW tty, NEW dfr,
             ManagedEvent(i, kind, req, tty, dfr)
      PROVE  /\ focused' = focused
             /\ \A j \in Instances : pending'[j] = pending[j] \/ pending'[j] = None
  <2>1. focused' = focused
    BY <1>1 DEF ManagedEvent, ConfirmForeground, IgnoreContext, DeferFullState, IgnoreEvent,
       PresentEvent, Present, Ignored, gate
  <2>2. pending' = pending \/ pending' = [pending EXCEPT ![i] = None]
    BY <1>1 DEF ManagedEvent, ConfirmForeground, IgnoreContext, DeferFullState, IgnoreEvent,
       PresentEvent
  <2>3. QED
    BY <2>1, <2>2 DEF TrackingType
<1>2. CASE HandleManagedEvent
  <2>1. PICK m \in Message : ManagedEvent(m.inst, m.kind, m.req, m.tty, deferred)
    BY <1>2, HeadMessage DEF HandleManagedEvent
  <2>2. QED
    BY <1>1, <2>1, PendingKept DEF Message
<1>3. CASE FinishFocus
  <2>1. CASE Resumable
    <3>1. decision.inst \in Instances
      BY <1>3, <2>1 DEF FinishFocus, Resumable, DecisionType, Decision, DecisionSound
    <3>2. QED
      BY <1>1, <1>3, <2>1, <3>1, PendingKept DEF FinishFocus
  <2>2. CASE ~Resumable
    BY <1>3, <2>2, PendingKept DEF FinishFocus, gate
  <2>3. QED
    BY <2>1, <2>2
<1>4. CASE HandleManagedState
  <2>1. focused' = focused
    BY <1>4 DEF HandleManagedState, gate
  <2>2. \A j \in Instances : pending'[j] = pending[j] \/ pending'[j] = None
    BY <1>0, <1>4 DEF HandleManagedState
  <2>3. QED
    BY <2>1, <2>2, PendingKept
<1>5. ASSUME NEW t \in Terminals, NEW i \in Instances, NEW a \in 0 .. Retries,
             DelayedCall(t, i, a)
      PROVE  NoForeignPending'
  <2>1. CASE CallSkipped(t, i, a) \/ RequestFullState(t, i, a)
    BY <2>1, PendingKept DEF CallSkipped, RequestFullState, gate, tracking
  <2>2. CASE RequestFocusContext(t, i, a)
    <3>1. focused = t /\ focused' = t
      BY <2>2 DEF RequestFocusContext, CallObsolete, gate
    <3>2. \/ \E r \in ReqIds : pending' = [pending EXCEPT ![i] = [req |-> r, term |-> t]]
          \/ pending' = [pending EXCEPT ![i] = None]
      BY <2>2 DEF RequestFocusContext
    <3>3. QED
      BY <3>1, <3>2 DEF NoForeignPending, TrackingType
  <2>3. QED
    BY <1>5, <2>1, <2>2 DEF DelayedCall
<1>6. ASSUME NEW t \in Terminals \cup {None}, PrepareFocus(t)
      PROVE  NoForeignPending'
  BY <1>6, PendingKept, PendingDiscarded DEF PrepareFocus
<1>7. CASE LoseFocus \/ FailOpenTerminalEvent
             \/ (\E t \in Terminals \cup {None} : RefreshForAction(t))
  BY <1>7, PendingKept, PendingDiscarded DEF LoseFocus, FailOpenTerminalEvent, RefreshForAction,
     tracking
<1>8. CASE GestureStep
  <2>1. CASE ToggleOff
    BY <2>1, PendingDiscarded DEF ToggleOff
  <2>2. CASE ~ToggleOff
    <3>1. focused' = focused
      BY <1>8, <2>2 DEF GestureStep, ToggleOn, StartConnection, StartFails, DisconnectConnection,
         RememberBinding, ForgetBinding, PruneClosedBinding, ReuseConnection, gate
    <3>2. pending' = pending \/ \E r : ForgetInstance(r)
      BY <1>8, <2>2 DEF GestureStep, ToggleOn, StartConnection, StartFails, DisconnectConnection,
         RememberBinding, ForgetBinding, PruneClosedBinding, ReuseConnection, tracking
    <3>3. QED
      BY <1>0, <3>1, <3>2, PendingKept
  <2>3. QED
    BY <2>1, <2>2
<1>9. CASE FarStep \/ TransportStep
  <2>1. focused' = focused /\ pending' = pending
    BY <1>9 DEF FarStep, TransportStep, Connecting, FirstFullState, EditorRegisters,
       EditorNotifies, EditorLost, AnswerFullState, AnswerFocusContext, DropFocusContext,
       TransportLost, TransportFailsOpen, ClientStopped, LeavesAddOn, gate, tracking
  <2>2. QED
    BY <2>1, PendingKept
<1>10. CASE UNCHANGED vars
  BY <1>10, PendingKept DEF vars, gate, tracking
<1>11. QED
  BY <1>2, <1>3, <1>4, <1>5, <1>6, <1>7, <1>8, <1>9, <1>10
     DEF Next, MainStep, DrainQueue, FocusStep

(* A reply is only ever awaited for the terminal that has the focus.          *)
THEOREM PendingIsForFocused ==
    ASSUME "silentRefocus" \notin Hazards
    PROVE  Spec => []NoForeignPending
<1>1. Init => TypeOK /\ DecisionSound /\ NoForeignPending
  BY InitType DEF Init, NoForeignPending
<1>2. TypeOK /\ DecisionSound /\ NoForeignPending /\ [Next]_vars
      => (TypeOK /\ DecisionSound /\ NoForeignPending)'
  BY NextType, DecisionStep, PendingNext
<1>3. QED
  BY <1>1, <1>2, PTL DEF Spec

-----------------------------------------------------------------------------
(* ConnectionGate implements Silencing where every change of focus is       *)
(* reported: its steps are steps of the contract or leave its state alone.  *)

ContractStep == Contract!Next \/ UNCHANGED Contract!vars

LEMMA InitContract == Init => Contract!Init
  BY DEF Init, Contract!Init, Speaker, Suppressing

(* A gate held open speaks for the instance that serves the terminal.       *)
LEMMA SpeakerRouted ==
    ASSUME TypeOK, HeldRouted, Suppressing
    PROVE  /\ manual /\ focused # None /\ Speaker = active
           /\ active \in Instances /\ active # None /\ bind[focused] = active
  BY NoneAssumption DEF Suppressing, Speaker, HeldRouted, Held, Routed

(* Whatever leaves the mode, the focus and the bindings alone starts or ends *)
(* the silence of one terminal, or changes nothing.                         *)
LEMMA QuietStep ==
    ASSUME TypeOK, HeldRouted, TypeOK', HeldRouted', UNCHANGED <<manual, focused, bind>>
    PROVE  ContractStep
<1>1. CASE Suppressing /\ Suppressing'
  <2>1. Speaker = active /\ bind[focused] = active
    BY <1>1, SpeakerRouted
  <2>2. Speaker' = active' /\ bind'[focused'] = active'
    BY <1>1, NoneAssumption DEF Suppressing, Speaker, HeldRouted, Held, Routed
  <2>3. QED
    BY <2>1, <2>2 DEF ContractStep, Contract!vars
<1>2. CASE ~Suppressing /\ Suppressing'
  <2>1. Speaker = None
    BY <1>2 DEF Speaker
  <2>2. /\ manual' /\ focused' # None /\ Speaker' = active'
        /\ active' # None /\ bind'[focused'] = active'
    BY <1>2, NoneAssumption DEF Suppressing, Speaker, HeldRouted, Held, Routed
  <2>3. Contract!Silence
    BY <2>1, <2>2 DEF Contract!Silence
  <2>4. QED
    BY <2>3 DEF ContractStep, Contract!Next
<1>3. CASE Suppressing /\ ~Suppressing'
  <2>1. Speaker # None /\ Speaker' = None
    BY <1>3, SpeakerRouted DEF Speaker
  <2>2. Contract!Release
    BY <2>1 DEF Contract!Release
  <2>3. QED
    BY <2>2 DEF ContractStep, Contract!Next
<1>4. CASE ~Suppressing /\ ~Suppressing'
  BY <1>4 DEF Speaker, ContractStep, Contract!vars
<1>5. QED
  BY <1>1, <1>2, <1>3, <1>4

LEMMA FocusStepContract ==
    ASSUME "silentRefocus" \notin Hazards, TypeOK, HeldRouted, TypeOK', HeldRouted', FocusStep
    PROVE  ContractStep
<1>1. ASSUME NEW t \in Terminals \cup {None}, t # focused, focused' = t, CloseGate,
             UNCHANGED <<manual, bind>>
      PROVE  ContractStep
  <2>1. Speaker' = None
    BY <1>1 DEF CloseGate, Suppressing, Speaker
  <2>2. Contract!MoveFocus(t)
    BY <1>1, <2>1 DEF Contract!MoveFocus
  <2>3. QED
    BY <2>2 DEF ContractStep, Contract!Next
<1>2. ASSUME NEW t \in Terminals \cup {None}, PrepareFocus(t)
      PROVE  ContractStep
  <2>1. focused' = t /\ UNCHANGED <<manual, bind>>
    BY <1>2 DEF PrepareFocus, manager
  <2>2. CASE focused = t
    BY <2>1, <2>2, QuietStep
  <2>3. CASE focused # t
    BY <1>1, <1>2, <2>1, <2>3 DEF PrepareFocus
  <2>4. QED
    BY <2>2, <2>3
<1>3. CASE LoseFocus
  <2>1. focused' = None /\ CloseGate /\ UNCHANGED <<manual, bind>>
    BY <1>3 DEF LoseFocus, manager
  <2>2. CASE focused = None
    BY <2>1, <2>2, QuietStep
  <2>3. CASE focused # None
    BY <1>1, <2>1, <2>3
  <2>4. QED
    BY <2>2, <2>3
<1>4. CASE FailOpenTerminalEvent
  BY <1>4, QuietStep DEF FailOpenTerminalEvent, manager
<1>5. QED
  BY <1>2, <1>3, <1>4 DEF FocusStep, RefreshForAction

LEMMA GestureStepContract ==
    ASSUME Base, HeldRouted, TypeOK', HeldRouted', GestureStep
    PROVE  ContractStep
<1> USE Parts DEF Base
<1>1. CASE ToggleOn
  <2>1. Speaker = None /\ Speaker' = None
    BY <1>1 DEF ToggleOn, OffMeansOff, Suppressing, Speaker
  <2>2. Contract!TurnOn
    BY <1>1, <2>1 DEF ToggleOn, Contract!TurnOn, manager
  <2>3. QED
    BY <2>2 DEF ContractStep, Contract!Next
<1>2. CASE ToggleOff
  <2>1. Speaker' = None
    BY <1>2 DEF ToggleOff, Suppressing, Speaker
  <2>2. Contract!TurnOff
    BY <1>2, <2>1 DEF ToggleOff, StopAll, Contract!TurnOff
  <2>3. QED
    BY <2>2 DEF ContractStep, Contract!Next
<1>3. ASSUME NEW t \in Terminals, StartConnection(t)
      PROVE  ContractStep
  <2>1. nextId \in Instances /\ nextId \notin live
    BY <1>3 DEF StartConnection, ManagerType, OfLive, LiveStarted, Instances
  <2>2. \A x \in Terminals : bind[x] # nextId
    BY <2>1, NoneAssumption DEF OfLive, BindOfLive
  <2>3. bind' = [x \in Terminals |-> IF x = t THEN nextId
                                     ELSE IF bind[x] = bind[t] THEN None ELSE bind[x]]
    BY <1>3 DEF StartConnection, Unbound
  <2>4. manual /\ focused = t /\ UNCHANGED gate /\ active' = nextId
    BY <1>3 DEF StartConnection
  <2>5. Speaker' = IF Speaker = None THEN None ELSE nextId
    BY <2>4, SpeakerRouted DEF Speaker, Suppressing, gate
  <2>6. Contract!Replace(t, nextId)
    BY <2>2, <2>3, <2>4, <2>5 DEF Contract!Replace, gate
  <2>7. QED
    BY <2>1, <2>6 DEF ContractStep, Contract!Next
<1>4. ASSUME NEW t \in Terminals, StartFails(t) \/ RememberBinding(t) \/ ForgetBinding(t)
      PROVE  ContractStep
  BY <1>4, QuietStep DEF StartFails, RememberBinding, ForgetBinding, gate, manager
<1>5. ASSUME NEW t \in Terminals, DisconnectConnection(t)
      PROVE  ContractStep
  <2> DEFINE ts == {x \in Terminals : bind[x] = bind[t]}
  <2>1. bind' = [x \in Terminals |-> IF x \in ts THEN None ELSE bind[x]]
    BY <1>5 DEF DisconnectConnection, Unbound
  <2>2. focused = t /\ UNCHANGED <<manual, focused>> /\ t \in ts
    BY <1>5 DEF DisconnectConnection
  <2>3. Speaker' = None
    <3>1. CASE active = bind[t]
      BY <1>5, <3>1 DEF DisconnectConnection, CloseGate, Suppressing, Speaker
    <3>2. CASE active # bind[t]
      <4>1. ~Suppressing
        BY <2>2, <3>2, SpeakerRouted
      <4>2. QED
        BY <1>5, <2>2, <3>2, <4>1 DEF DisconnectConnection, Suppressing, Speaker
    <3>3. QED
      BY <3>1, <3>2
  <2>4. Contract!Leave(ts)
    BY <2>1, <2>2, <2>3 DEF Contract!Leave
  <2>5. QED
    BY <2>4 DEF ContractStep, Contract!Next
<1>6. ASSUME NEW t \in Terminals, PruneClosedBinding(t)
      PROVE  ContractStep
  <2>1. focused # t /\ UNCHANGED gate /\ bind' = [bind EXCEPT ![t] = None]
    BY <1>6 DEF PruneClosedBinding
  <2>2. bind' = [x \in Terminals |-> IF x \in {t} THEN None ELSE bind[x]]
    BY <2>1 DEF ManagerType
  <2>3. Speaker' = Speaker
    <3>1. CASE Suppressing
      <4>1. Suppressing' /\ focused' = focused
        BY <2>1, <3>1 DEF gate, Suppressing
      <4>2. focused \in Terminals /\ Speaker = bind[focused]
        BY <3>1, SpeakerRouted DEF GateType
      <4>3. Speaker' = bind'[focused']
        BY <4>1 DEF Suppressing, Speaker, HeldRouted, Held, Routed
      <4>4. QED
        BY <2>1, <2>2, <4>1, <4>2, <4>3
    <3>2. CASE ~Suppressing
      BY <2>1, <3>2 DEF gate, Suppressing, Speaker
    <3>3. QED
      BY <3>1, <3>2
  <2>4. Contract!Leave({t})
    BY <2>1, <2>2, <2>3 DEF Contract!Leave, gate
  <2>5. QED
    BY <2>4 DEF ContractStep, Contract!Next
<1>7. ASSUME NEW t \in Terminals, NEW i \in Instances, ReuseConnection(t, i)
      PROVE  ContractStep
  <2>1. manual /\ focused = t /\ UNCHANGED <<manual, focused>>
    BY <1>7 DEF ReuseConnection
  <2>2. bind' = [x \in Terminals |-> IF x = t THEN i
                                     ELSE IF bind[x] = i THEN None ELSE bind[x]]
    BY <1>7 DEF ReuseConnection, Unbound
  <2>3. Speaker' \in {None, IF bind[t] = i THEN Speaker ELSE None}
    <3>1. CASE AlreadyActive(t, i)
      <4>1. UNCHANGED <<confirmed, bound, gatePass, active>>
        BY <1>7, <3>1 DEF ReuseConnection, runtimes
      <4>2. Speaker' = Speaker
        BY <2>1, <4>1 DEF Suppressing, Speaker
      <4>3. Speaker # None => bind[t] = i
        BY <2>1, <3>1, SpeakerRouted DEF AlreadyActive, Speaker
      <4>4. QED
        BY <4>2, <4>3
    <3>2. CASE ~AlreadyActive(t, i)
      BY <1>7, <3>2 DEF ReuseConnection, CloseGate, Suppressing, Speaker
    <3>3. QED
      BY <3>1, <3>2
  <2>4. Contract!Take(t, i)
    BY <2>1, <2>2, <2>3 DEF Contract!Take
  <2>5. QED
    BY <2>4 DEF ContractStep, Contract!Next
<1>8. QED
  BY <1>1, <1>2, <1>3, <1>4, <1>5, <1>6, <1>7 DEF GestureStep

LEMMA NextContract ==
    ASSUME "silentRefocus" \notin Hazards, Base, HeldRouted, Base', HeldRouted', [Next]_vars
    PROVE  [Contract!Next]_(Contract!vars)
<1> USE DEF Base
<1>1. CASE MainStep
  <2>1. UNCHANGED <<manual, focused, bind>>
    BY <1>1, MainStepKeeps DEF manager
  <2>2. QED
    BY <2>1, QuietStep DEF ContractStep
<1>2. CASE FarStep \/ TransportStep
  <2>1. UNCHANGED <<manual, focused, bind>>
    BY <1>2 DEF FarStep, TransportStep, Connecting, FirstFullState, EditorRegisters,
       EditorNotifies, EditorLost, AnswerFullState, AnswerFocusContext, DropFocusContext,
       TransportLost, TransportFailsOpen, ClientStopped, LeavesAddOn, gate, manager
  <2>2. QED
    BY <2>1, QuietStep DEF ContractStep
<1>3. CASE UNCHANGED vars
  BY <1>3, QuietStep DEF vars, gate, manager, ContractStep
<1>4. QED
  BY <1>1, <1>2, <1>3, FocusStepContract, GestureStepContract DEF Next, ContractStep

(* NVDA is silenced as the contract says: for the terminal and the instance  *)
(* that serves it, by a step of its own, and never across a change of focus. *)
THEOREM GateKeepsContract ==
    ASSUME "silentRefocus" \notin Hazards
    PROVE  Spec => KeepsContract
<1>1. Spec => [](Base /\ HeldRouted)
  BY RoutedInvariant
<1>2. Base /\ HeldRouted /\ (Base /\ HeldRouted)' /\ [Next]_vars
      => [Contract!Next]_(Contract!vars)
  BY NextContract
<1>3. QED
  BY <1>1, <1>2, InitContract, PTL DEF Spec, KeepsContract, Contract!Spec

-----------------------------------------------------------------------------
(* A transport that was lost.  Nothing is trusted of an instance whose      *)
(* client has not connected yet; of one whose transport is down, either     *)
(* nothing is any more and no callback of it is queued, or the last one     *)
(* queued reports the loss, and handling it takes the trust away.           *)

Unspoken(i) == \A n \in 1 .. Len(queue) : queue[n].inst # i
Untrusted(i) == i \notin known /\ deferred[i] = None /\ pending[i] = None
Unheard(i) == Untrusted(i) /\ Unspoken(i)

EndsLost(i) ==
    \E n \in 1 .. Len(queue) :
        /\ queue[n].inst = i /\ queue[n].kind = "lost"
        /\ \A m \in n + 1 .. Len(queue) : queue[m].inst # i

FreshUnheard(i) ==
    /\ i >= nextId => link[i] = "none"
    /\ i >= nextId \/ link[i] = "new" => Unheard(i) /\ i \notin closing
DownEnds(i) == link[i] = "down" /\ i \notin closing => EndsLost(i) \/ Unheard(i)

Forgets == \A i \in Instances : FreshUnheard(i) /\ DownEnds(i)

(* The queue as the callbacks of one instance see it.                       *)
LEMMA OthersPosted ==
    ASSUME QueueType, NEW m \in Message, queue' = Append(queue, m),
           NEW i, m.inst # i
    PROVE  (Unspoken(i) => Unspoken(i)') /\ (EndsLost(i) => EndsLost(i)')
<1>1. /\ Len(queue') = Len(queue) + 1 /\ Len(queue) \in Nat
      /\ queue'[Len(queue) + 1] = m
      /\ \A n \in 1 .. Len(queue) : queue'[n] = queue[n]
  BY DEF QueueType
<1>2. Unspoken(i) => Unspoken(i)'
  BY <1>1 DEF Unspoken
<1>3. ASSUME EndsLost(i) PROVE EndsLost(i)'
  <2>1. PICK n \in 1 .. Len(queue) :
            /\ queue[n].inst = i /\ queue[n].kind = "lost"
            /\ \A k \in n + 1 .. Len(queue) : queue[k].inst # i
    BY <1>3 DEF EndsLost
  <2>2. n \in 1 .. Len(queue') /\ queue'[n].inst = i /\ queue'[n].kind = "lost"
    BY <1>1, <2>1
  <2>3. ASSUME NEW k \in n + 1 .. Len(queue') PROVE queue'[k].inst # i
    <3>1. k \in n + 1 .. Len(queue) \/ k = Len(queue) + 1
      BY <1>1
    <3>2. QED
      BY <1>1, <2>1, <3>1
  <2>4. QED
    BY <2>2, <2>3 DEF EndsLost
<1>4. QED
  BY <1>2, <1>3

LEMMA LostPosted ==
    ASSUME QueueType, NEW i \in Instances, Post(i, "lost", None, FALSE)
    PROVE  EndsLost(i)'
<1> DEFINE m == [kind |-> "lost", inst |-> i, req |-> None, tty |-> FALSE]
<1>1. m \in Message /\ queue' = Append(queue, m) /\ m.inst = i /\ m.kind = "lost"
  BY DEF Post, Message, StateKinds
<1> HIDE DEF m
<1>2. Len(queue') = Len(queue) + 1 /\ Len(queue) \in Nat /\ queue'[Len(queue')] = m
  BY <1>1 DEF QueueType
<1>3. Len(queue') \in 1 .. Len(queue') /\ Len(queue') + 1 .. Len(queue') = {}
  BY <1>2
<1>4. QED
  BY <1>1, <1>2, <1>3 DEF EndsLost

LEMMA HeadHandled ==
    ASSUME QueueType, queue # << >>, queue' = Tail(queue), NEW i
    PROVE  /\ Unspoken(i) => Unspoken(i)' /\ Head(queue).inst # i
           /\ EndsLost(i) => \/ EndsLost(i)'
                             \/ Unspoken(i)' /\ Head(queue).inst = i /\ Head(queue).kind = "lost"
<1>1. /\ Len(queue) \in Nat \ {0} /\ Len(queue') = Len(queue) - 1 /\ Head(queue) = queue[1]
      /\ \A n \in 1 .. Len(queue') : n + 1 \in 1 .. Len(queue) /\ queue'[n] = queue[n + 1]
  BY DEF QueueType
<1>2. Unspoken(i) => Unspoken(i)' /\ Head(queue).inst # i
  BY <1>1 DEF Unspoken
<1>3. ASSUME NEW n \in 1 .. Len(queue), queue[n].inst = i, queue[n].kind = "lost",
             \A m \in n + 1 .. Len(queue) : queue[m].inst # i
      PROVE  \/ EndsLost(i)'
             \/ Unspoken(i)' /\ Head(queue).inst = i /\ Head(queue).kind = "lost"
  <2>1. CASE n = 1
    <3>1. \A k \in 1 .. Len(queue') : k + 1 \in n + 1 .. Len(queue)
      BY <1>1, <2>1
    <3>2. Unspoken(i)'
      BY <1>1, <1>3, <3>1 DEF Unspoken
    <3>3. QED
      BY <1>1, <1>3, <2>1, <3>2
  <2>2. CASE n # 1
    <3>1. n - 1 \in 1 .. Len(queue') /\ queue'[n - 1] = queue[n]
      BY <1>1, <2>2
    <3>2. \A k \in (n - 1) + 1 .. Len(queue') : k \in 1 .. Len(queue') /\ k + 1 \in n + 1 .. Len(queue)
      BY <1>1, <2>2
    <3>3. \A k \in (n - 1) + 1 .. Len(queue') : queue'[k].inst # i
      BY <1>1, <1>3, <3>2
    <3>4. QED
      BY <1>3, <3>1, <3>3 DEF EndsLost
  <2>3. QED
    BY <2>1, <2>2
<1>4. QED
  BY <1>2, <1>3 DEF EndsLost

(* Trust.                                                                   *)
LEMMA ForgottenUntrusted ==
    ASSUME NEW r, ForgetInstance(r), NEW i \in Instances, i = r \/ Untrusted(i)
    PROVE  Untrusted(i)'
  BY DEF ForgetInstance, Untrusted

LEMMA EventTrusts ==
    ASSUME TrackingType, NEW i \in Instances, NEW kind, NEW req, NEW tty, NEW dfr,
           NEW j \in Instances, j # i, Untrusted(j),
           dfr \in [Instances -> BOOLEAN \cup {None}], dfr[j] = None,
           ManagedEvent(i, kind, req, tty, dfr)
    PROVE  Untrusted(j)'
<1>1. known' = known \/ known' = known \cup {i}
  BY DEF ManagedEvent, ConfirmForeground, IgnoreContext, DeferFullState, IgnoreEvent,
     PresentEvent, Present, Ignored
<1>2. deferred' = dfr \/ deferred' = [dfr EXCEPT ![i] = tty]
  BY DEF ManagedEvent, ConfirmForeground, IgnoreContext, DeferFullState, IgnoreEvent,
     PresentEvent
<1>3. pending' = pending \/ pending' = [pending EXCEPT ![i] = None]
  BY DEF ManagedEvent, ConfirmForeground, IgnoreContext, DeferFullState, IgnoreEvent,
     PresentEvent
<1>4. QED
  BY <1>1, <1>2, <1>3 DEF Untrusted, TrackingType

LEMMA MainStepTrusts ==
    ASSUME TypeOK, DecisionSound, MainStep, NEW i \in Instances, Unheard(i)
    PROVE  Untrusted(i)'
<1> USE Parts DEF Unheard
<1>1. CASE HandleManagedEvent
  <2>1. /\ Head(queue) \in Message /\ Head(queue).inst # i
        /\ ManagedEvent(Head(queue).inst, Head(queue).kind, Head(queue).req, Head(queue).tty, deferred)
    BY <1>1, HeadMessage, HeadHandled DEF HandleManagedEvent
  <2>2. Head(queue).inst \in Instances /\ deferred[i] = None
    BY <2>1 DEF Message, Untrusted
  <2>3. QED
    BY <2>1, <2>2, EventTrusts DEF TrackingType
<1>2. CASE HandleManagedState
  <2>1. (\E r : ForgetInstance(r)) \/ UNCHANGED <<known, deferred, pending>>
    BY <1>2 DEF HandleManagedState
  <2>2. QED
    BY <2>1, ForgottenUntrusted DEF Untrusted
<1>3. ASSUME NEW t \in Terminals, NEW j \in Instances, NEW a \in 0 .. Retries,
             DelayedCall(t, j, a)
      PROVE  Untrusted(i)'
  <2>1. CASE RequestFocusContext(t, j, a)
    <3>1. j # i /\ UNCHANGED <<known, deferred>>
      BY <2>1 DEF RequestFocusContext, Untrusted
    <3>2. pending'[i] = pending[i]
      BY <2>1, <3>1 DEF RequestFocusContext, TrackingType
    <3>3. QED
      BY <3>1, <3>2 DEF Untrusted
  <2>2. CASE CallSkipped(t, j, a) \/ RequestFullState(t, j, a)
    BY <2>2 DEF CallSkipped, RequestFullState, tracking, Untrusted
  <2>3. QED
    BY <1>3, <2>1, <2>2 DEF DelayedCall
<1>4. CASE FinishFocus
  <2>1. CASE Resumable
    <3>1. decision.inst \in Instances /\ decision.inst # i
      BY <1>4, <2>1 DEF FinishFocus, Resumable, DecisionType, Decision, DecisionSound, Untrusted
    <3> DEFINE dfr == [deferred EXCEPT ![decision.inst] = None]
    <3>2. dfr \in [Instances -> BOOLEAN \cup {None}] /\ dfr[i] = None
      BY <3>1 DEF TrackingType, Untrusted
    <3>3. ManagedEvent(decision.inst, "full", None, decision.full, dfr)
      BY <1>4, <2>1 DEF FinishFocus
    <3> HIDE DEF dfr
    <3>4. QED
      BY <3>1, <3>2, <3>3, EventTrusts
  <2>2. CASE ~Resumable
    BY <1>4, <2>2 DEF FinishFocus, Untrusted
  <2>3. QED
    BY <2>1, <2>2
<1>5. QED
  BY <1>1, <1>2, <1>3, <1>4 DEF MainStep, DrainQueue

LEMMA FocusStepTrusts ==
    ASSUME FocusStep, NEW i \in Instances, Untrusted(i)
    PROVE  Untrusted(i)'
<1>1. UNCHANGED <<known, deferred>> /\ (DiscardTransientContext \/ UNCHANGED pending)
  BY DEF FocusStep, PrepareFocus, RefreshForAction, LoseFocus, FailOpenTerminalEvent, tracking
<1>2. QED
  BY <1>1 DEF DiscardTransientContext, Untrusted

LEMMA GestureStepTrusts ==
    ASSUME GestureStep, NEW i \in Instances, Untrusted(i)
    PROVE  Untrusted(i)'
<1>1. CASE ToggleOff
  BY <1>1 DEF ToggleOff, DiscardTransientContext, Untrusted
<1>2. CASE ToggleOn
  BY <1>2 DEF ToggleOn, tracking, Untrusted
<1>3. ASSUME NEW t \in Terminals, StartConnection(t) \/ DisconnectConnection(t)
      PROVE  Untrusted(i)'
  <2>1. \E r : ForgetInstance(r)
    BY <1>3 DEF StartConnection, DisconnectConnection
  <2>2. QED
    BY <2>1, ForgottenUntrusted
<1>4. ASSUME NEW t \in Terminals, PruneClosedBinding(t)
      PROVE  Untrusted(i)'
  <2>1. (\E r : ForgetInstance(r)) \/ UNCHANGED <<known, deferred, pending>>
    BY <1>4 DEF PruneClosedBinding
  <2>2. QED
    BY <2>1, ForgottenUntrusted DEF Untrusted
<1>5. ASSUME NEW t \in Terminals,
             StartFails(t) \/ RememberBinding(t) \/ ForgetBinding(t)
             \/ \E j \in Instances : ReuseConnection(t, j)
      PROVE  Untrusted(i)'
  <2>1. UNCHANGED <<known, deferred, pending>>
    BY <1>5 DEF StartFails, RememberBinding, ForgetBinding, ReuseConnection, tracking
  <2>2. QED
    BY <2>1 DEF Untrusted
<1>6. QED
  BY <1>1, <1>2, <1>3, <1>4, <1>5 DEF GestureStep

(* Where no callback is queued and no transport is lost, what was not heard  *)
(* of stays so.                                                             *)
LEMMA QuietForgets ==
    ASSUME ManagerType, Forgets, UNCHANGED <<queue, closing>>,
           nextId' \in {nextId, nextId + 1},
           \A i \in Instances : link'[i] \in {link[i], "none"},
           \A i \in Instances : Unheard(i) => Untrusted(i)'
    PROVE  Forgets'
<1>1. ASSUME NEW i \in Instances
      PROVE  /\ Unheard(i) => Unheard(i)'
             /\ EndsLost(i) => EndsLost(i)'
             /\ i >= nextId' => i >= nextId
  <2>1. Unspoken(i)' <=> Unspoken(i)
    BY DEF Unspoken
  <2>2. EndsLost(i)' <=> EndsLost(i)
    BY DEF EndsLost
  <2>3. i >= nextId' => i >= nextId
    BY DEF ManagerType, Instances
  <2>4. QED
    BY <2>1, <2>2, <2>3 DEF Unheard
<1>2. ASSUME NEW i \in Instances
      PROVE  FreshUnheard(i)' /\ DownEnds(i)'
  <2>1. FreshUnheard(i) /\ DownEnds(i)
    BY DEF Forgets
  <2>2. FreshUnheard(i)'
    BY <1>1, <2>1 DEF FreshUnheard
  <2>3. DownEnds(i)'
    BY <1>1, <2>1 DEF DownEnds
  <2>4. QED
    BY <2>2, <2>3
<1>3. QED
  BY <1>2 DEF Forgets

LEMMA MainStepForgets ==
    ASSUME TypeOK, DecisionSound, Forgets, MainStep
    PROVE  Forgets'
<1> USE Parts
<1>1. UNCHANGED <<link, closing, nextId>>
  <2>1. CASE DrainQueue
    BY <2>1 DEF DrainQueue, HandleManagedEvent, HandleManagedState, transports, manager
  <2>2. CASE FinishFocus
    BY <2>2 DEF FinishFocus, transports, manager
  <2>3. ASSUME NEW t \in Terminals, NEW i \in Instances, NEW a \in 0 .. Retries,
               DelayedCall(t, i, a)
        PROVE  UNCHANGED <<link, closing, nextId>>
    <3>1. CASE CallSkipped(t, i, a)
      BY <3>1 DEF CallSkipped, transports, manager
    <3>2. CASE RequestFullState(t, i, a) \/ RequestFocusContext(t, i, a)
      BY <3>2 DEF RequestFullState, RequestFocusContext, manager
    <3>3. QED
      BY <2>3, <3>1, <3>2 DEF DelayedCall
  <2>4. QED
    BY <2>1, <2>2, <2>3 DEF MainStep
<1>2. CASE queue' = queue
  BY <1>1, <1>2, MainStepTrusts, QuietForgets
<1>3. CASE DrainQueue
  <2>1. queue # << >> /\ queue' = Tail(queue)
    BY <1>3 DEF DrainQueue, HandleManagedEvent, HandleManagedState
  <2>2. ASSUME NEW i \in Instances, Unheard(i)
        PROVE  Unheard(i)'
    BY <2>1, <2>2, HeadHandled, MainStepTrusts DEF Unheard
  <2>3. ASSUME NEW i \in Instances, EndsLost(i)
        PROVE  EndsLost(i)' \/ Unheard(i)'
    <3>1. CASE Unspoken(i)' /\ Head(queue).inst = i /\ Head(queue).kind = "lost"
      <4>1. HandleManagedState
        BY <1>3, <3>1 DEF DrainQueue, HandleManagedEvent, EventKinds
      <4>2. ForgetInstance(i)
        BY <3>1, <4>1 DEF HandleManagedState
      <4>3. QED
        BY <3>1, <4>2, ForgottenUntrusted DEF Unheard
    <3>2. QED
      BY <2>1, <2>3, <3>1, HeadHandled
  <2>4. ASSUME NEW i \in Instances
        PROVE  FreshUnheard(i)' /\ DownEnds(i)'
    <3>1. FreshUnheard(i) /\ DownEnds(i)
      BY DEF Forgets
    <3>2. FreshUnheard(i)'
      BY <1>1, <2>2, <3>1 DEF FreshUnheard
    <3>3. DownEnds(i)'
      BY <1>1, <2>2, <2>3, <3>1 DEF DownEnds
    <3>4. QED
      BY <3>2, <3>3
  <2>5. QED
    BY <2>4 DEF Forgets
<1>4. QED
  BY <1>2, <1>3, DelayedCallKeeps DEF MainStep, FinishFocus

LEMMA GestureStepForgets ==
    ASSUME TypeOK, Forgets, GestureStep
    PROVE  Forgets'
<1> USE Parts
<1>1. \A i \in Instances : Unheard(i) => Untrusted(i)'
  BY GestureStepTrusts DEF Unheard
<1>2. ASSUME NEW t \in Terminals, StartConnection(t)
      PROVE  Forgets'
  <2>1. /\ nextId \in Instances /\ nextId' = nextId + 1
        /\ link' = [link EXCEPT ![nextId] = "new"] /\ UNCHANGED <<queue, closing>>
    BY <1>2 DEF StartConnection, ManagerType, Instances
  <2>2. ASSUME NEW i \in Instances
        PROVE  FreshUnheard(i)' /\ DownEnds(i)'
    <3>1. FreshUnheard(i) /\ DownEnds(i)
      BY DEF Forgets
    <3>2. (Unheard(i) => Unheard(i)') /\ (EndsLost(i) => EndsLost(i)')
      <4>1. Unspoken(i)' <=> Unspoken(i)
        BY <2>1 DEF Unspoken
      <4>2. EndsLost(i)' <=> EndsLost(i)
        BY <2>1 DEF EndsLost
      <4>3. QED
        BY <1>1, <4>1, <4>2 DEF Unheard
    <3>3. CASE i = nextId
      <4>1. link'[i] = "new" /\ ~(i >= nextId')
        BY <2>1, <3>3 DEF LinkType, ManagerType
      <4>2. Unheard(i) /\ i \notin closing
        BY <3>1, <3>3 DEF FreshUnheard, ManagerType
      <4>3. QED
        BY <2>1, <3>2, <4>1, <4>2 DEF FreshUnheard, DownEnds
    <3>4. CASE i # nextId
      <4>1. link'[i] = link[i] /\ (i >= nextId' => i >= nextId)
        BY <2>1, <3>4 DEF LinkType, ManagerType, Instances
      <4>2. QED
        BY <2>1, <3>1, <3>2, <4>1 DEF FreshUnheard, DownEnds
    <3>5. QED
      BY <3>3, <3>4
  <2>3. QED
    BY <2>2 DEF Forgets
<1>3. CASE ToggleOff
  <2>1. \A i \in Instances : link'[i] \in {link[i], "none"}
    BY <1>3 DEF ToggleOff
  <2>2. UNCHANGED <<queue, closing, nextId>>
    BY <1>3 DEF ToggleOff
  <2>3. QED
    BY <1>1, <2>1, <2>2, QuietForgets
<1>4. CASE GestureStep /\ ~ToggleOff /\ ~\E t \in Terminals : StartConnection(t)
  <2>1. UNCHANGED <<queue, link, closing>>
    <3>1. CASE ToggleOn
      BY <3>1 DEF ToggleOn, transports
    <3>2. ASSUME NEW t \in Terminals, StartFails(t) \/ DisconnectConnection(t)
          PROVE  UNCHANGED <<queue, link, closing>>
      BY <3>2 DEF StartFails, DisconnectConnection, transports
    <3>3. ASSUME NEW t \in Terminals, RememberBinding(t) \/ ForgetBinding(t) \/ PruneClosedBinding(t)
          PROVE  UNCHANGED <<queue, link, closing>>
      BY <3>3 DEF RememberBinding, ForgetBinding, PruneClosedBinding, transports
    <3>4. ASSUME NEW t \in Terminals, NEW i \in Instances, ReuseConnection(t, i)
          PROVE  UNCHANGED <<queue, link, closing>>
      BY <3>4 DEF ReuseConnection
    <3>5. QED
      BY <1>4, <3>1, <3>2, <3>3, <3>4 DEF GestureStep
  <2>2. nextId' \in {nextId, nextId + 1}
    <3>1. CASE ToggleOn
      BY <3>1 DEF ToggleOn, manager
    <3>2. ASSUME NEW t \in Terminals, StartFails(t) \/ DisconnectConnection(t)
          PROVE  nextId' \in {nextId, nextId + 1}
      BY <3>2 DEF StartFails, DisconnectConnection
    <3>3. ASSUME NEW t \in Terminals, RememberBinding(t) \/ ForgetBinding(t) \/ PruneClosedBinding(t)
          PROVE  nextId' = nextId
      BY <3>3 DEF RememberBinding, ForgetBinding, PruneClosedBinding, manager
    <3>4. ASSUME NEW t \in Terminals, NEW i \in Instances, ReuseConnection(t, i)
          PROVE  nextId' = nextId
      BY <3>4 DEF ReuseConnection
    <3>5. QED
      BY <1>4, <3>1, <3>2, <3>3, <3>4 DEF GestureStep
  <2>3. QED
    BY <1>1, <2>1, <2>2, QuietForgets
<1>5. QED
  BY <1>2, <1>3, <1>4

(* What one transport posts concerns its own instance.                      *)
LEMMA OthersForget ==
    ASSUME QueueType, Forgets, NEW i \in Instances, NEW j \in Instances \ {i},
           \/ UNCHANGED queue
           \/ \E m \in Message : m.inst = i /\ queue' = Append(queue, m),
           UNCHANGED <<tracking, nextId>>, link'[j] = link[j], j \in closing' <=> j \in closing
    PROVE  FreshUnheard(j)' /\ DownEnds(j)'
<1>1. (Unspoken(j) => Unspoken(j)') /\ (EndsLost(j) => EndsLost(j)')
  <2>1. CASE UNCHANGED queue
    BY <2>1 DEF Unspoken, EndsLost
  <2>2. CASE \E m \in Message : m.inst = i /\ queue' = Append(queue, m)
    BY <2>2, OthersPosted
  <2>3. QED
    BY <2>1, <2>2
<1>2. Untrusted(j) => Untrusted(j)'
  BY DEF tracking, Untrusted
<1>3. FreshUnheard(j) /\ DownEnds(j)
  BY DEF Forgets
<1>4. FreshUnheard(j)'
  BY <1>1, <1>2, <1>3 DEF FreshUnheard, Unheard
<1>5. DownEnds(j)'
  BY <1>1, <1>2, <1>3 DEF DownEnds, Unheard
<1>6. QED
  BY <1>4, <1>5

LEMMA PostMessage ==
    ASSUME NEW i \in Instances, NEW kind \in EventKinds \cup StateKinds,
           NEW req \in ReqIds \cup {None}, NEW tty \in BOOLEAN, Post(i, kind, req, tty)
    PROVE  \E m \in Message : m.inst = i /\ queue' = Append(queue, m)
<1> DEFINE m == [kind |-> kind, inst |-> i, req |-> req, tty |-> tty]
<1>1. m \in Message /\ m.inst = i
  BY DEF Message
<1>2. QED
  BY <1>1 DEF Post

LEMMA FarStepForgets ==
    ASSUME TypeOK, Forgets, FarStep
    PROVE  Forgets'
<1> USE Parts
<1> DEFINE Posts(i) == \E m \in Message : m.inst = i /\ queue' = Append(queue, m)
           Talks(i) == /\ link[i] # "none" /\ link'[i] \in {"connecting", "greeted", "up"}
                       /\ \A j \in Instances \ {i} : link'[j] = link[j]
           Speaks(i) == /\ UNCHANGED queue \/ Posts(i)
                        /\ Talks(i) /\ UNCHANGED closing /\ LeavesAddOn
<1>1. ASSUME NEW i \in Instances, DeliverFullState(i) PROVE Posts(i) /\ Talks(i)
  <2>1. CASE /\ link[i] = "connecting" /\ link' = [link EXCEPT ![i] = "greeted"]
             /\ Post(i, "status", None, FALSE)
    <3>1. Posts(i)
      BY <2>1, PostMessage DEF StateKinds
    <3>2. QED
      BY <2>1, <3>1 DEF LinkType
  <2>2. CASE link[i] = "up" /\ (\E tty \in Tty : Post(i, "full", None, tty)) /\ UNCHANGED link
    <3>1. Posts(i)
      BY <2>2, PostMessage, TtyAssumption DEF EventKinds
    <3>2. QED
      BY <2>2, <3>1
  <2>3. QED
    BY <1>1, <2>1, <2>2 DEF DeliverFullState
<1>2. ASSUME NEW i \in Instances, Connecting(i) PROVE Speaks(i)
  <2>1. Posts(i)
    BY <1>2, PostMessage DEF Connecting, StateKinds
  <2>2. QED
    BY <1>2, <2>1 DEF Connecting, LinkType
<1>3. ASSUME NEW i \in Instances, FirstFullState(i) PROVE Speaks(i)
  <2>1. Posts(i)
    BY <1>3, PostMessage, TtyAssumption DEF FirstFullState, EventKinds
  <2>2. QED
    BY <1>3, <2>1 DEF FirstFullState, LinkType
<1>4. ASSUME NEW i \in Instances, EditorRegisters(i) \/ AnswerFullState(i) PROVE Speaks(i)
  BY <1>1, <1>4 DEF EditorRegisters, AnswerFullState
<1>5. ASSUME NEW i \in Instances, EditorNotifies(i) \/ EditorLost(i) PROVE Speaks(i)
  <2>1. link[i] = "up" /\ UNCHANGED <<link, closing>> /\ LeavesAddOn
    BY <1>5 DEF EditorNotifies, EditorLost, transports
  <2>2. Posts(i)
    BY <1>5, PostMessage, TtyAssumption DEF EditorNotifies, EditorLost, EventKinds
  <2>3. QED
    BY <2>1, <2>2
<1>6. ASSUME NEW i \in Instances, AnswerFocusContext(i) PROVE Speaks(i)
  <2>1. PICK r \in sent[i], tty \in Tty : Post(i, "context", r, tty)
    BY <1>6 DEF AnswerFocusContext
  <2>2. r \in ReqIds
    BY <2>1 DEF LinkType
  <2>3. Posts(i)
    BY <2>1, <2>2, PostMessage, TtyAssumption DEF EventKinds
  <2>4. QED
    BY <1>6, <2>3 DEF AnswerFocusContext
<1>7. ASSUME NEW i \in Instances, DropFocusContext(i) PROVE Speaks(i)
  BY <1>7 DEF DropFocusContext
<1>8. PICK i \in Instances : Speaks(i)
  BY <1>2, <1>3, <1>4, <1>5, <1>6, <1>7 DEF FarStep
<1>9. UNCHANGED <<tracking, nextId>>
  BY <1>8 DEF LeavesAddOn, manager
<1>10. \A j \in Instances \ {i} : FreshUnheard(j)' /\ DownEnds(j)'
  BY <1>8, <1>9, OthersForget
<1>11. FreshUnheard(i)' /\ DownEnds(i)'
  <2>1. ~(i >= nextId)
    BY <1>8 DEF Forgets, FreshUnheard
  <2>2. QED
    BY <1>8, <1>9, <2>1 DEF FreshUnheard, DownEnds
<1>12. QED
  BY <1>10, <1>11 DEF Forgets

LEMMA TransportStepForgets ==
    ASSUME TypeOK, Forgets, TransportStep
    PROVE  Forgets'
<1> USE Parts
<1>1. ASSUME NEW i \in Instances, TransportLost(i) PROVE Forgets'
  <2>1. /\ link[i] \in {"connecting", "up"} /\ link' = [link EXCEPT ![i] = "down"]
        /\ UNCHANGED <<tracking, nextId>>
    BY <1>1 DEF TransportLost, LeavesAddOn, manager
  <2>2. \/ closing' = closing \cup {i} /\ UNCHANGED queue
        \/ UNCHANGED closing /\ Post(i, "lost", None, FALSE)
    BY <1>1 DEF TransportLost
  <2>3. UNCHANGED queue \/ \E m \in Message : m.inst = i /\ queue' = Append(queue, m)
    BY <2>2, PostMessage DEF StateKinds
  <2>4. ASSUME NEW j \in Instances \ {i} PROVE FreshUnheard(j)' /\ DownEnds(j)'
    <3>1. link'[j] = link[j] /\ (j \in closing' <=> j \in closing)
      BY <2>1, <2>2 DEF LinkType
    <3>2. QED
      BY <2>1, <2>3, <3>1, OthersForget
  <2>5. FreshUnheard(i)'
    <3>1. ~(i >= nextId) /\ link'[i] = "down"
      BY <2>1 DEF Forgets, FreshUnheard, LinkType
    <3>2. QED
      BY <2>1, <3>1 DEF FreshUnheard
  <2>6. DownEnds(i)'
    <3>1. i \in closing' \/ EndsLost(i)'
      BY <2>2, LostPosted
    <3>2. QED
      BY <3>1 DEF DownEnds
  <2>7. QED
    BY <2>4, <2>5, <2>6 DEF Forgets
<1>2. ASSUME NEW i \in Instances, TransportFailsOpen(i) PROVE Forgets'
  <2>1. /\ i \in closing /\ closing' = closing \ {i} /\ UNCHANGED link
        /\ UNCHANGED <<tracking, nextId>> /\ Post(i, "lost", None, FALSE)
    BY <1>2 DEF TransportFailsOpen, manager
  <2>2. \E m \in Message : m.inst = i /\ queue' = Append(queue, m)
    BY <2>1, PostMessage DEF StateKinds
  <2>3. \A j \in Instances \ {i} : FreshUnheard(j)' /\ DownEnds(j)'
    BY <2>1, <2>2, OthersForget
  <2>4. FreshUnheard(i)'
    BY <2>1 DEF Forgets, FreshUnheard
  <2>5. DownEnds(i)'
    BY <2>1, LostPosted DEF DownEnds
  <2>6. QED
    BY <2>3, <2>4, <2>5 DEF Forgets
<1>3. ASSUME NEW i \in Instances, ClientStopped(i) PROVE Forgets'
  <2>1. /\ link' = [link EXCEPT ![i] = "none"] /\ UNCHANGED <<queue, closing>>
        /\ UNCHANGED <<tracking, nextId>>
    BY <1>3 DEF ClientStopped, LeavesAddOn, manager
  <2>2. \A j \in Instances : link'[j] \in {link[j], "none"}
    BY <2>1 DEF LinkType
  <2>3. \A j \in Instances : Unheard(j) => Untrusted(j)'
    BY <2>1 DEF tracking, Unheard, Untrusted
  <2>4. QED
    BY <2>1, <2>2, <2>3, QuietForgets
<1>4. QED
  BY <1>1, <1>2, <1>3 DEF TransportStep

LEMMA InitForgets == Init => Forgets
  BY DEF Init, Forgets, FreshUnheard, DownEnds, Unheard, Untrusted, Unspoken

LEMMA NextForgets ==
    ASSUME TypeOK, DecisionSound, Forgets, [Next]_vars
    PROVE  Forgets'
<1> USE Parts
<1>1. CASE FocusStep
  <2>1. UNCHANGED <<queue, closing, link, nextId>>
    BY <1>1 DEF FocusStep, PrepareFocus, RefreshForAction, LoseFocus, FailOpenTerminalEvent,
       transports, manager
  <2>2. \A i \in Instances : Unheard(i) => Untrusted(i)'
    BY <1>1, FocusStepTrusts DEF Unheard
  <2>3. QED
    BY <2>1, <2>2, QuietForgets
<1>2. CASE UNCHANGED vars
  <2>1. UNCHANGED <<queue, closing, link, nextId, tracking>>
    BY <1>2 DEF vars, transports, manager
  <2>2. QED
    BY <2>1, QuietForgets DEF tracking, Unheard, Untrusted
<1>3. QED
  BY <1>1, <1>2, MainStepForgets, GestureStepForgets, FarStepForgets, TransportStepForgets
     DEF Next

(* Once the callbacks of a lost transport are handled, however they were      *)
(* interleaved with focus changes, delayed calls and the reconnection of      *)
(* other instances, the add-on trusts nothing of that instance: it has to     *)
(* authenticate again.                                                       *)
THEOREM LostTransportIsForgotten == Spec => []LostIsForgotten
<1>1. TypeOK /\ DecisionSound /\ Forgets /\ [Next]_vars => (TypeOK /\ DecisionSound /\ Forgets)'
  BY NextType, DecisionStep, NextForgets
<1>2. Forgets => LostIsForgotten
  <2> SUFFICES ASSUME Forgets, NEW i \in Instances, link[i] \in {"new", "down"}, Handled(i)
               PROVE  i \notin known /\ deferred[i] = None /\ pending[i] = None
    BY DEF LostIsForgotten
  <2>1. ~EndsLost(i)
    BY DEF Handled, EndsLost
  <2>2. Unheard(i)
    BY <2>1 DEF Forgets, FreshUnheard, DownEnds, Handled
  <2>3. QED
    BY <2>2 DEF Unheard, Untrusted
<1>3. QED
  BY <1>1, <1>2, InitType, InitForgets, PTL DEF Spec

-----------------------------------------------------------------------------
(* Answers.  A reply is queued once: while it is, its request is no longer  *)
(* under way, and no new request takes its id.                              *)

Answered == \A n \in 1 .. Len(queue) : queue[n].req \notin sent[queue[n].inst]

LEMMA MessageAt ==
    ASSUME QueueType, NEW n \in 1 .. Len(queue)
    PROVE  queue[n].inst \in Instances
<1>1. queue[n] \in Message
  BY DEF QueueType
<1>2. QED
  BY <1>1 DEF Message

LEMMA KeptAnswered ==
    ASSUME QueueType, LinkType, Answered,
           queue' = queue \/ (queue # << >> /\ queue' = Tail(queue)),
           \A i \in Instances : sent'[i] \subseteq sent[i]
    PROVE  Answered'
<1>1. \A n \in 1 .. Len(queue') : \E k \in 1 .. Len(queue) : queue'[n] = queue[k]
  <2>1. CASE queue' = queue
    BY <2>1
  <2>2. CASE queue # << >> /\ queue' = Tail(queue)
    BY <2>2 DEF QueueType
  <2>3. QED
    BY <2>1, <2>2
<1>2. \A k \in 1 .. Len(queue) : queue[k].inst \in Instances
  BY MessageAt
<1>3. ASSUME NEW n \in 1 .. Len(queue') PROVE queue'[n].req \notin sent'[queue'[n].inst]
  <2>1. PICK k \in 1 .. Len(queue) : queue'[n] = queue[k]
    BY <1>1
  <2>2. queue[k].req \notin sent[queue[k].inst]
    BY DEF Answered
  <2>3. QED
    BY <1>2, <2>1, <2>2
<1>4. QED
  BY <1>3 DEF Answered

LEMMA PostAnswered ==
    ASSUME QueueType, Answered, NEW i \in Instances, NEW kind, NEW req, NEW tty,
           Post(i, kind, req, tty), req \notin sent'[i],
           \A j \in Instances : sent'[j] \subseteq sent[j]
    PROVE  Answered'
<1> DEFINE m == [kind |-> kind, inst |-> i, req |-> req, tty |-> tty]
<1>1. /\ queue' = Append(queue, m) /\ m.inst = i /\ m.req = req
  BY DEF Post
<1> HIDE DEF m
<1>0. \A n \in 1 .. Len(queue) : queue[n].inst \in Instances
  BY MessageAt
<1>2. /\ Len(queue') = Len(queue) + 1 /\ Len(queue) \in Nat
      /\ queue'[Len(queue) + 1] = m
      /\ \A n \in 1 .. Len(queue) : queue'[n] = queue[n]
  BY <1>1 DEF QueueType
<1>3. ASSUME NEW n \in 1 .. Len(queue') PROVE queue'[n].req \notin sent'[queue'[n].inst]
  <2>1. n \in 1 .. Len(queue) \/ n = Len(queue) + 1
    BY <1>2
  <2>2. QED
    BY <1>0, <1>1, <1>2, <2>1 DEF Answered
<1>4. QED
  BY <1>3 DEF Answered

LEMMA MainStepAnswered ==
    ASSUME TypeOK, Answered, MainStep
    PROVE  Answered'
<1> USE Parts
<1>1. CASE DrainQueue
  <2>1. queue # << >> /\ queue' = Tail(queue) /\ sent' = sent
    BY <1>1 DEF DrainQueue, HandleManagedEvent, HandleManagedState, transports
  <2>2. QED
    BY <2>1, KeptAnswered
<1>2. CASE FinishFocus
  BY <1>2, KeptAnswered DEF FinishFocus, transports
<1>3. ASSUME NEW t \in Terminals, NEW i \in Instances, NEW a \in 0 .. Retries,
             DelayedCall(t, i, a)
      PROVE  Answered'
  <2>1. CASE CallSkipped(t, i, a) \/ RequestFullState(t, i, a)
    BY <2>1, KeptAnswered DEF CallSkipped, RequestFullState, transports
  <2>2. CASE RequestFocusContext(t, i, a)
    <3>1. queue' = queue
      BY <2>2 DEF RequestFocusContext
    <3>2. sent' = sent \/ \E r \in ReqIds : ~Outstanding(r) /\ sent' = [sent EXCEPT ![i] = @ \cup {r}]
      BY <2>2 DEF RequestFocusContext
    <3>3. CASE sent' = sent
      BY <3>1, <3>3, KeptAnswered
    <3>4. ASSUME NEW r \in ReqIds, ~Outstanding(r), sent' = [sent EXCEPT ![i] = @ \cup {r}]
          PROVE  Answered'
      <4>1. ASSUME NEW n \in 1 .. Len(queue) PROVE queue[n].req \notin sent'[queue[n].inst]
        <5>0. queue[n].inst \in Instances
          BY MessageAt
        <5>1. queue[n].inst \in Instances /\ queue[n].req # r
          BY <3>4, <5>0 DEF Outstanding
        <5>2. sent'[queue[n].inst] \subseteq sent[queue[n].inst] \cup {r}
          BY <3>4, <5>1 DEF LinkType
        <5>3. QED
          BY <5>1, <5>2 DEF Answered
      <4>2. QED
        BY <3>1, <4>1 DEF Answered
    <3>5. QED
      BY <3>2, <3>3, <3>4
  <2>3. QED
    BY <1>3, <2>1, <2>2 DEF DelayedCall
<1>4. QED
  BY <1>1, <1>2, <1>3 DEF MainStep

LEMMA DeliverAnswered ==
    ASSUME TypeOK, Answered, NEW i \in Instances, UNCHANGED sent,
           DeliverFullState(i) \/ \E kind, tty : Post(i, kind, None, tty)
    PROVE  Answered'
<1> USE Parts
<1>1. PICK kind, tty : Post(i, kind, None, tty)
  BY DEF DeliverFullState
<1>2. None \notin sent'[i]
  BY NoneAssumption DEF LinkType
<1>3. QED
  BY <1>1, <1>2, PostAnswered

LEMMA FarStepAnswered ==
    ASSUME TypeOK, Answered, FarStep
    PROVE  Answered'
<1> USE Parts
<1>1. ASSUME NEW i \in Instances, Connecting(i) \/ FirstFullState(i)
      PROVE  Answered'
  BY <1>1, DeliverAnswered DEF Connecting, FirstFullState
<1>2. ASSUME NEW i \in Instances, EditorRegisters(i) \/ AnswerFullState(i)
      PROVE  Answered'
  BY <1>2, DeliverAnswered DEF EditorRegisters, AnswerFullState
<1>3. ASSUME NEW i \in Instances, EditorNotifies(i) \/ EditorLost(i)
      PROVE  Answered'
  BY <1>3, DeliverAnswered DEF EditorNotifies, EditorLost, transports
<1>4. ASSUME NEW i \in Instances, AnswerFocusContext(i)
      PROVE  Answered'
  <2>1. PICK r \in sent[i], tty \in Tty :
            sent' = [sent EXCEPT ![i] = @ \ {r}] /\ Post(i, "context", r, tty)
    BY <1>4 DEF AnswerFocusContext
  <2>2. r \notin sent'[i] /\ \A j \in Instances : sent'[j] \subseteq sent[j]
    BY <2>1 DEF LinkType
  <2>3. QED
    BY <2>1, <2>2, PostAnswered
<1>5. ASSUME NEW i \in Instances, DropFocusContext(i)
      PROVE  Answered'
  <2>1. queue' = queue /\ \A j \in Instances : sent'[j] \subseteq sent[j]
    BY <1>5 DEF DropFocusContext, LinkType
  <2>2. QED
    BY <2>1, KeptAnswered
<1>6. QED
  BY <1>1, <1>2, <1>3, <1>4, <1>5 DEF FarStep

LEMMA TransportStepAnswered ==
    ASSUME TypeOK, Answered, TransportStep
    PROVE  Answered'
<1> USE Parts
<1>1. ASSUME NEW i \in Instances, TransportLost(i)
      PROVE  Answered'
  <2>1. sent' = [sent EXCEPT ![i] = {}]
    BY <1>1 DEF TransportLost
  <2>2. None \notin sent'[i] /\ \A j \in Instances : sent'[j] \subseteq sent[j]
    BY <2>1 DEF LinkType
  <2>3. queue' = queue \/ Post(i, "lost", None, FALSE)
    BY <1>1 DEF TransportLost
  <2>4. QED
    BY <2>2, <2>3, KeptAnswered, PostAnswered
<1>2. ASSUME NEW i \in Instances, TransportFailsOpen(i)
      PROVE  Answered'
  BY <1>2, DeliverAnswered DEF TransportFailsOpen
<1>3. ASSUME NEW i \in Instances, ClientStopped(i)
      PROVE  Answered'
  <2>1. queue' = queue /\ \A j \in Instances : sent'[j] \subseteq sent[j]
    BY <1>3 DEF ClientStopped, LinkType
  <2>2. QED
    BY <2>1, KeptAnswered
<1>4. QED
  BY <1>1, <1>2, <1>3 DEF TransportStep

LEMMA NextAnswered ==
    ASSUME TypeOK, Answered, [Next]_vars
    PROVE  Answered'
<1> USE Parts
<1>1. CASE FocusStep
  BY <1>1, KeptAnswered DEF FocusStep, PrepareFocus, RefreshForAction, LoseFocus,
     FailOpenTerminalEvent, transports
<1>2. CASE GestureStep
  <2>1. queue' = queue /\ \A j \in Instances : sent'[j] \subseteq sent[j]
    <3>1. CASE ToggleOn
      BY <3>1 DEF ToggleOn, transports
    <3>2. CASE ToggleOff
      BY <3>2 DEF ToggleOff
    <3>3. ASSUME NEW t \in Terminals, StartConnection(t) \/ StartFails(t)
          PROVE  UNCHANGED <<queue, sent>>
      BY <3>3 DEF StartConnection, StartFails, transports
    <3>4. ASSUME NEW t \in Terminals, DisconnectConnection(t) \/ PruneClosedBinding(t)
          PROVE  UNCHANGED <<queue, sent>>
      BY <3>4 DEF DisconnectConnection, PruneClosedBinding, transports
    <3>5. ASSUME NEW t \in Terminals, RememberBinding(t) \/ ForgetBinding(t)
          PROVE  UNCHANGED <<queue, sent>>
      BY <3>5 DEF RememberBinding, ForgetBinding, transports
    <3>6. ASSUME NEW t \in Terminals, NEW i \in Instances, ReuseConnection(t, i)
          PROVE  UNCHANGED <<queue, sent>>
      BY <3>6 DEF ReuseConnection
    <3>7. QED
      BY <1>2, <3>1, <3>2, <3>3, <3>4, <3>5, <3>6 DEF GestureStep
  <2>2. QED
    BY <2>1, KeptAnswered
<1>3. CASE UNCHANGED vars
  BY <1>3, KeptAnswered DEF vars, transports
<1>4. QED
  BY <1>1, <1>2, <1>3, MainStepAnswered, FarStepAnswered, TransportStepAnswered DEF Next

LEMMA AnsweredInvariant == Spec => [](Base /\ Answered)
<1>1. Init => Answered
  BY DEF Init, Answered
<1>2. Base /\ Answered /\ [Next]_vars => Answered'
  BY NextAnswered DEF Base
<1>3. QED
  BY <1>1, <1>2, BaseInvariant, PTL DEF Spec

(* An event that opens the gate for an authenticated instance is the answer *)
(* that is awaited.                                                         *)
Reopened ==
    /\ Awaited(active', focused)
    /\ pending[active'].req \notin sent[active']

LEMMA EventReopens ==
    ASSUME NEW i \in Instances, NEW kind, NEW req, NEW tty, NEW dfr,
           ManagedEvent(i, kind, req, tty, dfr), ~confirmed, confirmed', active' \in known
    PROVE  kind = "context" /\ Expected(i, req) /\ focused # None /\ active' = i
<1>1. CASE ConfirmForeground(i, kind, req, tty, dfr)
  BY <1>1 DEF ConfirmForeground, Selected, Present
<1>2. CASE PresentEvent(i, kind, tty, dfr)
  BY <1>2 DEF PresentEvent, Present, Foreground
<1>3. CASE Ignored
  BY <1>3 DEF Ignored, gate
<1>4. QED
  BY <1>1, <1>2, <1>3 DEF ManagedEvent, IgnoreContext, DeferFullState, IgnoreEvent

LEMMA NextReopens ==
    ASSUME Base, Answered, [Next]_vars, ~confirmed, confirmed', active' \in known
    PROVE  Reopened
<1> USE Parts DEF Base
<1>1. CASE HandleManagedEvent
  <2> DEFINE m == Head(queue)
  <2>1. /\ m \in Message /\ m = queue[1] /\ 1 \in 1 .. Len(queue)
        /\ ManagedEvent(m.inst, m.kind, m.req, m.tty, deferred)
    BY <1>1, HeadMessage DEF HandleManagedEvent, QueueType
  <2> HIDE DEF m
  <2>2. m.inst \in Instances /\ m.req \notin sent[m.inst]
    BY <2>1 DEF Message, Answered
  <2>3. pending[m.inst] = [req |-> m.req, term |-> focused] /\ focused # None /\ active' = m.inst
    BY <2>1, <2>2, EventReopens DEF Expected
  <2>4. m.req \in ReqIds \cup {None} /\ focused \in Terminals
    BY <2>1, <2>3 DEF Message, GateType
  <2>5. pending[m.inst] # None /\ pending[m.inst].term = focused /\ pending[m.inst].req = m.req
    BY <2>3, <2>4, NoneAssumption
  <2>6. QED
    BY <2>2, <2>3, <2>5 DEF Reopened, Awaited
<1>2. CASE FinishFocus
  <2>1. CASE Resumable
    <3>1. decision.inst \in Instances
      BY <1>2, <2>1 DEF FinishFocus, Resumable, DecisionType, Decision, DecisionSound
    <3>2. FALSE
      BY <1>2, <2>1, <3>1, EventReopens DEF FinishFocus
    <3>3. QED
      BY <3>2
  <2>2. CASE ~Resumable
    BY <1>2, <2>2 DEF FinishFocus, gate
  <2>3. QED
    BY <2>1, <2>2
<1>3. QED
  BY <1>1, <1>2, OpeningStep

(* An authenticated instance reopens the gate only with the answer awaited   *)
(* from it for the terminal that has the focus: a late answer to an earlier  *)
(* request, or to a request made for another terminal, opens nothing.        *)
THEOREM GateReopensOnAnswer == Spec => ReopensOnAnswer
<1>1. Base /\ Answered /\ [Next]_vars
      => [~confirmed /\ confirmed' /\ active' \in known => Reopened]_vars
  BY NextReopens
<1>2. [~confirmed /\ confirmed' /\ active' \in known => Reopened]_vars
      <=> [~confirmed /\ confirmed' /\ active' \in known =>
             /\ Awaited(active', focused)
             /\ pending[active'].req \notin sent[active']]_vars
  BY DEF Reopened
<1>3. QED
  BY <1>1, <1>2, AnsweredInvariant, PTL DEF Spec, ReopensOnAnswer

-----------------------------------------------------------------------------
(* The transports are the links that the clients promise.                   *)

\* An id that is not given out yet has no transport.
Unborn == \A i \in Instances : i >= nextId => link[i] = "none"

(* The link of one instance makes a step of ClientLink.                      *)
LEMMA LinkSteps ==
    ASSUME NEW i \in Instances,
           \/ LinkOf(i)' = LinkOf(i)
           \/ LinkOf(i) \in {"new", "down"} /\ LinkOf(i)' = "connecting"
           \/ LinkOf(i) = "connecting" /\ LinkOf(i)' = "up"
           \/ LinkOf(i) \in {"connecting", "up"} /\ LinkOf(i)' = "down"
           \/ LinkOf(i) # "none" /\ LinkOf(i)' = "none"
    PROVE  [Client(i)!Next]_(Client(i)!vars)
<1> DEFINE shown == IF LinkOf(i) = "up" THEN "state" ELSE None
<1>1. CASE LinkOf(i)' = LinkOf(i)
  <2>1. UNCHANGED Client(i)!vars
    BY <1>1 DEF Client!vars
  <2>2. QED
    BY <2>1
<1>2. CASE LinkOf(i) \in {"new", "down"} /\ LinkOf(i)' = "connecting"
  <2>1. Client(i)!Connect
    BY <1>2 DEF Client!Connect
  <2>2. QED
    BY <2>1 DEF Client!Next
<1>3. CASE LinkOf(i) = "connecting" /\ LinkOf(i)' = "up"
  <2>1. Client(i)!Open
    BY <1>3 DEF Client!Open
  <2>2. QED
    BY <2>1 DEF Client!Next
<1>4. CASE LinkOf(i) \in {"connecting", "up"} /\ LinkOf(i)' = "down"
  <2>1. Client(i)!Lose
    BY <1>4 DEF Client!Lose
  <2>2. QED
    BY <2>1 DEF Client!Next
<1>5. CASE LinkOf(i) # "none" /\ LinkOf(i)' = "none"
  <2>1. Client(i)!Stop
    BY <1>5 DEF Client!Stop
  <2>2. QED
    BY <2>1 DEF Client!Next
<1>6. QED
  BY <1>1, <1>2, <1>3, <1>4, <1>5

(* Only the start of a connection, the switch-off, the transports and the    *)
(* thread that stops a client touch a link.                                  *)
LEMMA LinksLeftAlone ==
    ASSUME MainStep \/ FocusStep \/ GestureStep \/ UNCHANGED vars
    PROVE  \/ UNCHANGED <<link, nextId>> \/ ToggleOff
           \/ \E t \in Terminals : StartConnection(t) \/ StartFails(t)
<1>1. CASE MainStep
  <2>1. CASE DrainQueue
    BY <2>1 DEF DrainQueue, HandleManagedEvent, HandleManagedState, manager, transports
  <2>2. CASE FinishFocus
    BY <2>2 DEF FinishFocus, manager, transports
  <2>3. ASSUME NEW t \in Terminals, NEW i \in Instances, NEW a \in 0 .. Retries,
               DelayedCall(t, i, a)
        PROVE  UNCHANGED <<link, nextId>>
    BY <2>3 DEF DelayedCall, CallSkipped, RequestFullState, RequestFocusContext, manager,
       transports
  <2>4. QED
    BY <1>1, <2>1, <2>2, <2>3 DEF MainStep
<1>2. CASE FocusStep
  BY <1>2 DEF FocusStep, PrepareFocus, RefreshForAction, LoseFocus, FailOpenTerminalEvent,
     manager, transports
<1>3. CASE ToggleOn
  BY <1>3 DEF ToggleOn, manager, transports
<1>4. ASSUME NEW t \in Terminals,
             \/ DisconnectConnection(t) \/ RememberBinding(t) \/ ForgetBinding(t)
             \/ PruneClosedBinding(t) \/ \E i \in Instances : ReuseConnection(t, i)
      PROVE  UNCHANGED <<link, nextId>>
  BY <1>4 DEF DisconnectConnection, RememberBinding, ForgetBinding, PruneClosedBinding,
     ReuseConnection, manager, transports
<1>5. CASE UNCHANGED vars
  BY <1>5 DEF vars, manager, transports
<1>6. QED
  BY <1>1, <1>2, <1>3, <1>4, <1>5 DEF GestureStep

(* What a transport step does to the links: to one of them, a step of a      *)
(* client.                                                                   *)
Stages == {"connecting", "greeted", "up", "down", "none"}

StageStep(i, stage) ==
    /\ link[i] # "none" /\ link' = [link EXCEPT ![i] = stage]
    /\ \/ link[i] \in {"new", "down"} /\ stage = "connecting"
       \/ link[i] = "connecting" /\ stage = "greeted"
       \/ link[i] = "greeted" /\ stage = "up"
       \/ link[i] \in {"connecting", "up"} /\ stage = "down"
       \/ stage = "none"

LEMMA LinkOfOne ==
    ASSUME FarStep \/ TransportStep
    PROVE  UNCHANGED nextId /\ (UNCHANGED link \/ \E i \in Instances, stage \in Stages :
                                   StageStep(i, stage))
<1>1. UNCHANGED nextId
  BY DEF FarStep, TransportStep, Connecting, FirstFullState, EditorRegisters, EditorNotifies,
     EditorLost, AnswerFullState, AnswerFocusContext, DropFocusContext, TransportLost,
     TransportFailsOpen, ClientStopped, LeavesAddOn, manager
<1>2. ASSUME NEW i \in Instances, DeliverFullState(i)
      PROVE  UNCHANGED link \/ StageStep(i, "greeted")
  BY <1>2 DEF DeliverFullState, StageStep
<1>3. ASSUME NEW i \in Instances, Connecting(i)
      PROVE  StageStep(i, "connecting")
  BY <1>3 DEF Connecting, StageStep
<1>4. ASSUME NEW i \in Instances, FirstFullState(i)
      PROVE  StageStep(i, "up")
  BY <1>4 DEF FirstFullState, StageStep
<1>5. ASSUME NEW i \in Instances, TransportLost(i)
      PROVE  StageStep(i, "down")
  BY <1>5 DEF TransportLost, StageStep
<1>6. ASSUME NEW i \in Instances, ClientStopped(i)
      PROVE  StageStep(i, "none")
  BY <1>6 DEF ClientStopped, StageStep
<1>7. ASSUME NEW i \in Instances,
             \/ EditorNotifies(i) \/ EditorLost(i) \/ AnswerFocusContext(i)
             \/ DropFocusContext(i) \/ TransportFailsOpen(i)
      PROVE  UNCHANGED link
  BY <1>7 DEF EditorNotifies, EditorLost, AnswerFocusContext, DropFocusContext,
     TransportFailsOpen, transports
<1>8. ASSUME NEW i \in Instances, EditorRegisters(i) \/ AnswerFullState(i)
      PROVE  UNCHANGED link \/ StageStep(i, "greeted")
  <2>1. DeliverFullState(i)
    BY <1>8 DEF EditorRegisters, AnswerFullState
  <2>2. QED
    BY <2>1, <1>2
<1>9. ASSUME NEW i \in Instances,
             \/ Connecting(i) \/ FirstFullState(i) \/ EditorRegisters(i) \/ EditorNotifies(i)
             \/ EditorLost(i) \/ AnswerFullState(i) \/ AnswerFocusContext(i)
             \/ DropFocusContext(i) \/ TransportLost(i) \/ TransportFailsOpen(i)
             \/ ClientStopped(i)
      PROVE  UNCHANGED link \/ \E stage \in Stages : StageStep(i, stage)
  <2>1. UNCHANGED link \/ StageStep(i, "connecting") \/ StageStep(i, "greeted")
        \/ StageStep(i, "up") \/ StageStep(i, "down") \/ StageStep(i, "none")
    <3>1. CASE Connecting(i)
      BY <3>1, <1>3
    <3>2. CASE FirstFullState(i)
      BY <3>2, <1>4
    <3>3. CASE EditorRegisters(i) \/ AnswerFullState(i)
      BY <3>3, <1>8
    <3>4. CASE TransportLost(i)
      BY <3>4, <1>5
    <3>5. CASE ClientStopped(i)
      BY <3>5, <1>6
    <3>6. CASE \/ EditorNotifies(i) \/ EditorLost(i) \/ AnswerFocusContext(i)
               \/ DropFocusContext(i) \/ TransportFailsOpen(i)
      BY <3>6, <1>7
    <3>7. QED
      BY <1>9, <3>1, <3>2, <3>3, <3>4, <3>5, <3>6
  <2>2. QED
    BY <2>1 DEF Stages
<1>10. QED
  BY <1>1, <1>9 DEF FarStep, TransportStep

LEMMA LinksStep ==
    ASSUME TypeOK, Unborn, [Next]_vars
    PROVE  Unborn' /\ \A i \in Instances : [Client(i)!Next]_(Client(i)!vars)
<1>1. /\ link \in [Instances -> {"none", "new", "connecting", "greeted", "up", "down"}]
      /\ nextId \in Nat
  BY BoundsAssumption DEF TypeOK
<1>2. CASE UNCHANGED <<link, nextId>>
  <2>1. Unborn'
    BY <1>2 DEF Unborn
  <2>2. \A i \in Instances : LinkOf(i)' = LinkOf(i)
    BY <1>2 DEF LinkOf
  <2>3. QED
    BY <2>1, <2>2, LinkSteps
<1>3. ASSUME NEW t \in Terminals, StartConnection(t) \/ StartFails(t)
      PROVE  Unborn' /\ \A i \in Instances : [Client(i)!Next]_(Client(i)!vars)
  <2>1. /\ nextId' = nextId + 1 /\ nextId \in Instances
        /\ link' = link \/ link' = [link EXCEPT ![nextId] = "new"]
    <3>1. /\ nextId' = nextId + 1 /\ nextId <= MaxInstances
          /\ link' = link \/ link' = [link EXCEPT ![nextId] = "new"]
      <4>1. CASE StartConnection(t)
        BY <4>1 DEF StartConnection
      <4>2. CASE StartFails(t)
        BY <4>2 DEF StartFails, transports
      <4>3. QED
        BY <1>3, <4>1, <4>2
    <3>2. nextId >= 1
      BY BoundsAssumption DEF TypeOK
    <3>3. QED
      BY <1>1, <3>1, <3>2, BoundsAssumption DEF Instances
  <2>2. \A i \in Instances : i \in Nat
    BY BoundsAssumption DEF Instances
  <2>3. Unborn'
    BY <1>1, <2>1, <2>2 DEF Unborn
  <2>4. ASSUME NEW i \in Instances
        PROVE  [Client(i)!Next]_(Client(i)!vars)
    <3>1. CASE i # nextId
      <4>1. LinkOf(i)' = LinkOf(i)
        BY <1>1, <2>1, <2>2, <3>1 DEF LinkOf
      <4>2. QED
        BY <4>1, LinkSteps
    <3>2. CASE i = nextId
      <4>1. LinkOf(i) = "new" /\ LinkOf(i)' \in {"new", "none"}
        BY <1>1, <2>1, <2>2, <3>2 DEF LinkOf, Unborn
      <4>2. QED
        BY <4>1, LinkSteps
    <3>3. QED
      BY <3>1, <3>2
  <2>5. QED
    BY <2>3, <2>4
<1>4. CASE FarStep \/ TransportStep
  <2>1. CASE UNCHANGED link
    BY <1>2, <1>4, <2>1, LinkOfOne
  <2>2. ASSUME NEW i \in Instances, NEW stage \in Stages, StageStep(i, stage), UNCHANGED nextId
        PROVE  Unborn' /\ \A j \in Instances : [Client(j)!Next]_(Client(j)!vars)
    <3>1. i < nextId /\ \A j \in Instances : j \in Nat
      BY <1>1, <2>2, BoundsAssumption DEF Unborn, Instances, StageStep
    <3>2. Unborn'
      BY <1>1, <2>2, <3>1 DEF Unborn, StageStep
    <3>3. ASSUME NEW j \in Instances
          PROVE  [Client(j)!Next]_(Client(j)!vars)
      <4>1. CASE j # i
        <5>1. LinkOf(j)' = LinkOf(j)
          BY <1>1, <2>2, <4>1 DEF LinkOf, StageStep
        <5>2. QED
          BY <5>1, LinkSteps
      <4>2. CASE j = i
        <5>1. /\ LinkOf(i) = IF link[i] = "greeted" THEN "connecting" ELSE link[i]
              /\ LinkOf(i)' = IF stage = "greeted" THEN "connecting" ELSE stage
          BY <1>1, <2>2, <3>1 DEF LinkOf, StageStep
        <5>2. QED
          BY <2>2, <4>2, <5>1, LinkSteps DEF StageStep
      <4>3. QED
        BY <4>1, <4>2
    <3>4. QED
      BY <3>2, <3>3
  <2>3. QED
    BY <1>4, <2>1, <2>2, LinkOfOne
<1>5. CASE ToggleOff
  <2>1. /\ nextId' = nextId
        /\ \A i \in Instances : link'[i] \in {link[i], "none"}
    BY <1>1, <1>5 DEF ToggleOff
  <2>2. Unborn'
    BY <2>1 DEF Unborn
  <2>3. ASSUME NEW i \in Instances
        PROVE  [Client(i)!Next]_(Client(i)!vars)
    <3>1. LinkOf(i)' = LinkOf(i) \/ (LinkOf(i) # "none" /\ LinkOf(i)' = "none")
      BY <2>1 DEF LinkOf
    <3>2. QED
      BY <3>1, LinkSteps
  <2>4. QED
    BY <2>2, <2>3
<1>6. QED
  <2>1. CASE MainStep \/ FocusStep \/ GestureStep \/ UNCHANGED vars
    <3>1. \/ UNCHANGED <<link, nextId>> \/ ToggleOff
          \/ \E t \in Terminals : StartConnection(t) \/ StartFails(t)
      BY <2>1, LinksLeftAlone
    <3>2. QED
      BY <1>2, <1>3, <1>5, <3>1
  <2>2. CASE FarStep \/ TransportStep
    BY <1>4, <2>2
  <2>3. QED
    BY <2>1, <2>2 DEF Next

(* Whatever the add-on and its transports do, the transport of an instance   *)
(* only ever makes the steps that LocalClient and SshClient are proved to    *)
(* make (KeepsToItsLink): announced, up, lost, and stopped for good.         *)
THEOREM LinksAreClients == Spec => TransportsAreClients
<1>1. Init => Unborn
  BY DEF Init, Unborn
<1>2. Init => \A i \in Instances : Client(i)!Init
  <2>1. Init => \A i \in Instances : LinkOf(i) = "new"
    BY BoundsAssumption DEF Init, LinkOf, Instances
  <2>2. QED
    BY <2>1 DEF Client!Init
<1>3. TypeOK /\ Unborn /\ [Next]_vars => Unborn'
  BY LinksStep
<1>4. TypeOK /\ Unborn /\ [Next]_vars
        => [\A i \in Instances : [Client(i)!Next]_(Client(i)!vars)]_vars
  BY LinksStep
<1>5. QED
  BY <1>1, <1>2, <1>3, <1>4, TypeCorrect, PTL DEF Spec, TransportsAreClients
-----------------------------------------------------------------------------
(* ConnectionGate implements Pairing under every hazard, and the tables of  *)
(* connections keep what Pairing says of them.                              *)

PairsStep == Pairs!Next \/ UNCHANGED Pairs!vars

LEMMA InitPairs == Init => Pairs!Init /\ Pairs!Sound
  BY DEF Init, Pairs!Init, Pairs!Sound

(* Only an event of the connection that is shown makes it believed.         *)
LEMMA EventHears ==
    ASSUME GateType, ManagerType, BindOfLive, NEW i \in Instances, NEW kind, NEW req,
           NEW tty, NEW dfr, ManagedEvent(i, kind, req, tty, dfr)
    PROVE  known' = known \/ (i \in live /\ known' = known \cup {i})
<1>1. CASE Ignored
  BY <1>1 DEF Ignored
<1>2. CASE Selected(i) /\ Present(i, kind, tty)
  BY <1>2, SelectedLive DEF Present
<1>3. QED
  BY <1>1, <1>2 DEF ManagedEvent, ConfirmForeground, IgnoreContext, DeferFullState,
     IgnoreEvent, PresentEvent

(* The main thread's callbacks and calls show nothing; what they hear and   *)
(* forget is a step of Pairing.                                             *)
LEMMA MainStepPairs ==
    ASSUME Base, MainStep
    PROVE  PairsStep
<1> USE Parts DEF Base
<1>1. UNCHANGED <<manual, focused, live, bind>>
  BY MainStepKeeps DEF manager
<1>2. ASSUME NEW i \in Instances, i \in live, known' = known \cup {i}
      PROVE  PairsStep
  <2>1. Pairs!Hear(i)
    BY <1>1, <1>2 DEF Pairs!Hear
  <2>2. QED
    BY <2>1 DEF PairsStep, Pairs!Next
<1>3. ASSUME NEW i \in Instances, known' = known \ {i}
      PROVE  PairsStep
  <2>1. Pairs!Unhear(i)
    BY <1>1, <1>3 DEF Pairs!Unhear
  <2>2. QED
    BY <2>1 DEF PairsStep, Pairs!Next
<1>4. CASE UNCHANGED known
  BY <1>1, <1>4 DEF PairsStep, Pairs!vars
<1>5. CASE HandleManagedEvent
  <2>1. PICK m \in Message : ManagedEvent(m.inst, m.kind, m.req, m.tty, deferred)
    BY <1>5, HeadMessage DEF HandleManagedEvent
  <2>2. m.inst \in Instances
    BY DEF Message
  <2>3. known' = known \/ (m.inst \in live /\ known' = known \cup {m.inst})
    BY <2>1, <2>2, EventHears DEF OfLive
  <2>4. QED
    BY <1>2, <1>4, <2>2, <2>3
<1>6. CASE HandleManagedState
  <2>1. Head(queue).inst \in Instances
    BY <1>6, HeadMessage DEF HandleManagedState, Message
  <2>2. known' = known \/ known' = known \ {Head(queue).inst}
    BY <1>6 DEF HandleManagedState, ForgetInstance
  <2>3. QED
    BY <1>3, <1>4, <2>1, <2>2
<1>7. CASE FinishFocus
  <2>1. CASE Resumable
    <3>1. decision.inst \in Instances
      BY <1>7, <2>1 DEF FinishFocus, Resumable, DecisionType, Decision, DecisionSound
    <3>2. ManagedEvent(decision.inst, "full", None, decision.full,
                       [deferred EXCEPT ![decision.inst] = None])
      BY <1>7, <2>1 DEF FinishFocus
    <3>3. known' = known \/ (decision.inst \in live /\ known' = known \cup {decision.inst})
      BY <3>1, <3>2, EventHears DEF OfLive
    <3>4. QED
      BY <1>2, <1>4, <3>1, <3>3
  <2>2. CASE ~Resumable
    BY <1>4, <1>7, <2>2 DEF FinishFocus
  <2>3. QED
    BY <2>1, <2>2
<1>8. CASE \E t \in Terminals, i \in Instances, a \in 0 .. Retries : DelayedCall(t, i, a)
  BY <1>4, <1>8, DelayedCallKeeps
<1>9. QED
  BY <1>5, <1>6, <1>7, <1>8 DEF MainStep, DrainQueue

(* The focus moves, whichever event reports it and wherever it raises.      *)
LEMMA FocusStepPairs ==
    ASSUME TypeOK, FocusStep
    PROVE  PairsStep
<1>1. UNCHANGED <<manual, live, bind, known>>
  BY DEF FocusStep, PrepareFocus, RefreshForAction, LoseFocus, FailOpenTerminalEvent,
     manager, tracking
<1>2. focused' \in Terminals \cup {None}
  BY DEF FocusStep, PrepareFocus, RefreshForAction, LoseFocus, FailOpenTerminalEvent, TypeOK
<1>3. Pairs!MoveFocus(focused')
  BY <1>1 DEF Pairs!MoveFocus
<1>4. QED
  BY <1>2, <1>3 DEF PairsStep, Pairs!Next

(* The gestures and the sweep.  That a connection is shown once is why the   *)
(* sweep always ends the connection of the terminal it finds gone.          *)
LEMMA GestureStepPairs ==
    ASSUME Base, Pairs!Sound, GestureStep
    PROVE  PairsStep
<1> USE Parts DEF Base
<1>1. CASE ToggleOn
  <2>1. Pairs!TurnOn
    BY <1>1 DEF ToggleOn, Pairs!TurnOn, manager, tracking
  <2>2. QED
    BY <2>1 DEF PairsStep, Pairs!Next
<1>2. CASE ToggleOff
  <2>1. Pairs!TurnOff
    BY <1>2 DEF ToggleOff, StopAll, Pairs!TurnOff
  <2>2. QED
    BY <2>1 DEF PairsStep, Pairs!Next
<1>3. ASSUME NEW t \in Terminals, StartConnection(t)
      PROVE  PairsStep
  <2>1. nextId \in Instances /\ nextId \notin live
    BY <1>3 DEF StartConnection, ManagerType, OfLive, LiveStarted, Instances
  <2>2. Pairs!Start(t, nextId)
    BY <1>3, <2>1 DEF StartConnection, Unbound, ForgetInstance, gate, Pairs!Start, Pairs!Ends,
       Pairs!Freed
  <2>3. QED
    BY <2>1, <2>2 DEF PairsStep, Pairs!Next
<1>4. ASSUME NEW t \in Terminals, StartFails(t) \/ RememberBinding(t) \/ ForgetBinding(t)
      PROVE  PairsStep
  BY <1>4 DEF StartFails, RememberBinding, ForgetBinding, gate, manager, tracking, PairsStep,
     Pairs!vars
<1>5. ASSUME NEW t \in Terminals, DisconnectConnection(t)
      PROVE  PairsStep
  <2>1. Pairs!End(t)
    BY <1>5 DEF DisconnectConnection, Unbound, ForgetInstance, Pairs!End, Pairs!Ends, Pairs!Freed
  <2>2. QED
    BY <2>1 DEF PairsStep, Pairs!Next
<1>6. ASSUME NEW t \in Terminals, PruneClosedBinding(t)
      PROVE  PairsStep
  <2>1. \A x \in Terminals \ {t} : bind[x] # bind[t]
    BY <1>6 DEF PruneClosedBinding, Pairs!Sound
  <2>2. bind' = Pairs!Freed(bind[t])
    BY <1>6, <2>1 DEF PruneClosedBinding, Pairs!Freed, ManagerType
  <2>3. live' = live \ {bind[t]} /\ ForgetInstance(bind[t])
    BY <1>6, <2>1 DEF PruneClosedBinding
  <2>4. Pairs!End(t)
    BY <1>6, <2>2, <2>3 DEF PruneClosedBinding, ForgetInstance, gate, Pairs!End, Pairs!Ends
  <2>5. QED
    BY <2>4 DEF PairsStep, Pairs!Next
<1>7. ASSUME NEW t \in Terminals, NEW i \in Instances, ReuseConnection(t, i)
      PROVE  PairsStep
  <2>1. Pairs!Move(t, i)
    BY <1>7 DEF ReuseConnection, Unbound, Pairs!Move, Pairs!Freed
  <2>2. QED
    BY <2>1 DEF PairsStep, Pairs!Next
<1>8. QED
  BY <1>1, <1>2, <1>3, <1>4, <1>5, <1>6, <1>7 DEF GestureStep

LEMMA NextPairs ==
    ASSUME Base, Pairs!Sound, [Next]_vars
    PROVE  PairsStep
<1> USE DEF Base
<1>1. CASE FarStep \/ TransportStep
  <2>1. UNCHANGED <<manual, focused, live, bind, known>>
    BY <1>1 DEF FarStep, TransportStep, Connecting, FirstFullState, EditorRegisters,
       EditorNotifies, EditorLost, AnswerFullState, AnswerFocusContext, DropFocusContext,
       TransportLost, TransportFailsOpen, ClientStopped, LeavesAddOn, gate, manager, tracking
  <2>2. QED
    BY <2>1 DEF PairsStep, Pairs!vars
<1>2. CASE UNCHANGED vars
  BY <1>2 DEF vars, gate, manager, tracking, PairsStep, Pairs!vars
<1>3. QED
  BY <1>1, <1>2, MainStepPairs, FocusStepPairs, GestureStepPairs DEF Next

(* Every step of Pairing keeps its tables sound.                            *)
LEMMA PairsStaySound ==
    ASSUME TypeOK, Pairs!Sound, PairsStep
    PROVE  Pairs!Sound'
<1> USE NoneAssumption DEF Pairs!Sound
<1>1. bind \in [Terminals -> Instances \cup {None}] /\ live \subseteq Instances
  BY DEF TypeOK
<1>2. CASE Pairs!TurnOn \/ Pairs!TurnOff
  BY <1>2 DEF Pairs!TurnOn, Pairs!TurnOff
<1>3. ASSUME NEW t, Pairs!MoveFocus(t)
      PROVE  Pairs!Sound'
  BY <1>3 DEF Pairs!MoveFocus
<1>4. ASSUME NEW i, Pairs!Hear(i) \/ Pairs!Unhear(i)
      PROVE  Pairs!Sound'
  BY <1>4 DEF Pairs!Hear, Pairs!Unhear
<1>5. ASSUME NEW t \in Terminals, Pairs!End(t)
      PROVE  Pairs!Sound'
  <2>1. \A x \in Terminals : bind'[x] = IF bind[x] = bind[t] THEN None ELSE bind[x]
    BY <1>5 DEF Pairs!End, Pairs!Freed
  <2>2. QED
    BY <1>5, <2>1 DEF Pairs!End, Pairs!Ends
<1>6. ASSUME NEW t \in Terminals, NEW i \in Instances, Pairs!Start(t, i)
      PROVE  Pairs!Sound'
  <2>1. \A x \in Terminals : bind'[x] = IF x = t THEN i
                                        ELSE IF bind[x] = bind[t] THEN None ELSE bind[x]
    BY <1>6 DEF Pairs!Start, Pairs!Freed
  <2>2. i # bind[t] /\ i # None
    BY <1>6 DEF Pairs!Start
  <2>3. QED
    BY <1>6, <2>1, <2>2 DEF Pairs!Start, Pairs!Ends
<1>7. ASSUME NEW t \in Terminals, NEW i \in Instances, Pairs!Move(t, i)
      PROVE  Pairs!Sound'
  <2>1. \A x \in Terminals : bind'[x] = IF x = t THEN i
                                        ELSE IF bind[x] = i THEN None ELSE bind[x]
    BY <1>7 DEF Pairs!Move, Pairs!Freed
  <2>2. QED
    BY <1>7, <2>1 DEF Pairs!Move
<1>8. CASE UNCHANGED Pairs!vars
  BY <1>8 DEF Pairs!vars
<1>9. QED
  BY <1>2, <1>3, <1>4, <1>5, <1>6, <1>7, <1>8 DEF PairsStep, Pairs!Next

LEMMA PairsInvariant == Spec => [](Base /\ Pairs!Sound)
<1>1. Init => Pairs!Sound
  BY InitPairs
<1>2. Base /\ Pairs!Sound /\ [Next]_vars => Pairs!Sound'
  BY NextPairs, PairsStaySound DEF Base
<1>3. QED
  BY <1>1, <1>2, BaseInvariant, PTL DEF Spec

(* Connections are shown, moved, replaced, ended and believed as Pairing     *)
(* says, whatever the transports and a missed focus event do.               *)
THEOREM GateKeepsPairing == Spec => KeepsPairing
<1>1. Base /\ Pairs!Sound /\ [Next]_vars => [Pairs!Next]_(Pairs!vars)
  BY NextPairs DEF PairsStep
<1>2. QED
  BY <1>1, InitPairs, PairsInvariant, PTL DEF Spec, KeepsPairing, Pairs!Spec

(* No two terminals ever show one connection, none shows one that has ended, *)
(* and none is believed after its end (ConnectionInstanceManager.bind,       *)
(* detach, remove; SessionClaimService.apply_connection_reuse).              *)
THEOREM ShownOnce == Spec => []Pairs!Sound
  BY PairsInvariant, PTL
=============================================================================
