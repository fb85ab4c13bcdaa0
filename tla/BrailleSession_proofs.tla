------------------------ MODULE BrailleSession_proofs ------------------------
(***************************************************************************)
(* Invariants of BrailleSession for any buffers, number of lines, settings  *)
(* and bounds.                                                              *)
(***************************************************************************)
EXTENDS BrailleSession, SequenceTheorems, TLAPS

Modes == {"n", "i"}
Position == [buffer : Buffers, line : 1..Lines, mode : Modes, tick : Nat]
Cells == [line : 1..Lines, text : Nat] \cup {None}
Step == [kind : {"step"}, id : Nat, index : Nat, delta : {0, 2}, source : 1..Lines,
         target : 1..Lines, origin : Position]
Presses == [kind : {"route", "word", "line"}, at : Position, text : Nat,
            cells : Cells, period : Nat, burst : Nat, token : Nat]
Controls == [kind : {"focus"}, period : Nat] \cup [kind : {"end"}, id : Nat] \cup Step
            \cup [kind : {"move"}, at : Position, delta : {0, 2}] \cup Presses
Result == [kind : {"result"}, step : Step, ok : BOOLEAN, moved : BOOLEAN, line : 0..Lines,
           text : Nat, at : Position]
Messages == [kind : {"focus"}, period : Nat, at : States] \cup [kind : {"state"}, at : States]
            \cup Result
View == [id : Nat, index : Nat, accepted : Nat, buffer : Buffers, mode : Modes,
         origin : 1..Lines, tick : Nat, planned : 1..Lines, line : 1..Lines, text : Nat,
         shown : Nat]

(* A view and the steps it waits for.                                       *)
ViewGood(v, asked) ==
  v # None => /\ v \in View /\ v.accepted <= v.index
              /\ \A p \in asked : p.index <= v.index

(* The type invariant in the parts the actions touch together.              *)
FocusType ==
  /\ here \in BOOLEAN /\ confirmed \in BOOLEAN /\ online \in BOOLEAN /\ period \in Nat
ViewType ==
  /\ enabled \in BOOLEAN /\ views \in Nat /\ pending \subseteq Step /\ cells \in Cells
  /\ ViewGood(view, pending)
RepeatType ==
  /\ repeat \in [at : Position, number : 1..2, token : Nat, late : BOOLEAN] \cup {None}
  /\ deferred \in Presses \cup {None}
  /\ tokens \in Nat /\ bursts \in Nat /\ acted \subseteq Nat
NvimType ==
  /\ place \in [buffer : Buffers, line : 1..Lines, mode : Modes]
  /\ ticks \in [Buffers -> Nat] /\ text \in [Buffers -> [1..Lines -> Nat]]
  /\ count \in [Buffers -> 1..Lines]
  /\ far \in [id : Nat, index : Nat, line : 1..Lines] \cup {None}
KnownType == known \in States
LinkType == outbox \in Seq(Controls) /\ inbox \in Seq(Messages)

Types == FocusType /\ ViewType /\ RepeatType /\ NvimType /\ KnownType /\ LinkType

LEMMA Kept ==
  /\ FocusType /\ UNCHANGED focusVars => FocusType'
  /\ ViewType /\ UNCHANGED viewVars => ViewType'
  /\ RepeatType /\ UNCHANGED repeatVars => RepeatType'
  /\ NvimType /\ UNCHANGED nvimVars => NvimType'
  /\ KnownType /\ UNCHANGED known => KnownType'
<1>1. ViewType /\ UNCHANGED viewVars => ViewType'
  BY DEF viewVars, ViewType, ViewGood
<1>2. QED
  BY <1>1 DEF focusVars, repeatVars, nvimVars, FocusType, RepeatType, NvimType, KnownType

LEMMA CurrentType == NvimType => Current \in States /\ Origin(Current) \in Position
  BY DEF NvimType, Current, Published, States, Origin, Position, Modes

LEMMA OriginType == \A s \in States : Origin(s) \in Position
  BY DEF States, Origin, Position, Modes

(* What _reconcile makes of a view.                                         *)
LEMMA ReconciledType ==
  ASSUME NEW v, NEW asked, ViewGood(v, asked), NEW s \in States, views \in Nat
  PROVE  /\ Reconciled(v, s) \in View
         /\ Reconciled(v, s).accepted <= Reconciled(v, s).index
         /\ Reconciled(v, s).buffer = s.buffer
         /\ ~Restarts(v, s) => \A p \in asked : p.index <= Reconciled(v, s).index
<1>1. CASE Restarts(v, s)
  BY <1>1 DEF Reconciled, Started, View, States, Modes
<1>2. CASE ~Restarts(v, s)
  BY <1>2 DEF Reconciled, Refreshed, Restarts, View, States, ViewGood
<1>3. QED
  BY <1>1, <1>2

LEMMA ReconcileType ==
  ASSUME NEW v, NEW asked \in SUBSET Step, ViewGood(v, asked), NEW s \in States,
         views \in Nat, Reconcile(v, asked, s)
  PROVE  /\ views' \in Nat /\ pending' \subseteq Step /\ ViewGood(view, pending)'
         /\ view' \in View
  BY ReconciledType DEF Reconcile, ViewGood

LEMMA RefreshType ==
  ASSUME NEW v, NEW asked \in SUBSET Step, ViewGood(v, asked), NEW s \in States,
         ViewType, enabled' = enabled, Refresh(v, asked, s)
  PROVE  ViewType'
<1>1. CASE enabled
  BY <1>1, ReconcileType DEF Refresh, ViewType, Displayed, Cells, View
<1>2. CASE ~enabled
  BY <1>2 DEF Refresh, ViewType, Displayed, Cells, States, ViewGood
<1>3. QED
  BY <1>1, <1>2

LEMMA ClearType == Clear => ViewGood(view, pending)' /\ pending' \subseteq Step
  BY DEF Clear, ViewGood

(* The links.                                                               *)
LEMMA SubmitType ==
  ASSUME LinkType, NEW c \in Controls, Submit(c)
  PROVE  outbox' \in Seq(Controls)
  BY DEF LinkType, Submit

LEMMA TellType ==
  ASSUME LinkType, NEW e \in Messages, Tell(e)
  PROVE  inbox' \in Seq(Messages)
  BY DEF LinkType, Tell

LEMMA HeadControl ==
  ASSUME LinkType, NEW kinds, Control(kinds)
  PROVE  /\ Head(outbox) \in Controls /\ Head(outbox).kind \in kinds
         /\ outbox' \in Seq(Controls)
  BY DEF LinkType, Control

LEMMA HeadEvent ==
  ASSUME LinkType, NEW kind, Event(kind)
  PROVE  /\ Head(inbox) \in Messages /\ Head(inbox).kind = kind
         /\ inbox' \in Seq(Messages)
  BY DEF LinkType, Event

-----------------------------------------------------------------------------
(* Focus, connection and keys keep the types.                               *)

LEMMA FocusStepType ==
  ASSUME Types, GainFocus \/ LoseFocus \/ ConnectionLost \/ Reconnect
  PROVE  Types'
<1> USE DEF Types
<1>1. CASE GainFocus
  <2>1. FocusType'
    BY <1>1 DEF GainFocus, FocusType
  <2>2. LinkType'
    <3>1. [kind |-> "focus", period |-> period'] \in Controls
      BY <2>1 DEF FocusType, Controls
    <3>2. QED
      BY <1>1, <3>1, SubmitType DEF GainFocus, LinkType
  <2>3. QED
    BY <1>1, <2>1, <2>2, Kept DEF GainFocus
<1>2. CASE LoseFocus
  <2>1. FocusType' /\ RepeatType' /\ ViewType'
    BY <1>2 DEF LoseFocus, ForgetPresses, FocusType, RepeatType, ViewType, ViewGood, Cells
  <2>2. QED
    BY <1>2, <2>1, Kept DEF LoseFocus, LinkType
<1>3. CASE ConnectionLost
  <2>1. FocusType'
    BY <1>3 DEF ConnectionLost, FocusType
  <2>2. ViewType'
    BY <1>3, ClearType DEF ConnectionLost, ViewType, Cells
  <2>3. LinkType'
    BY <1>3 DEF ConnectionLost, LinkType
  <2>4. QED
    BY <1>3, <2>1, <2>2, <2>3, Kept DEF ConnectionLost
<1>4. CASE Reconnect
  <2>1. FocusType' /\ KnownType'
    BY <1>4, CurrentType DEF Reconnect, FocusType, KnownType
  <2>2. ViewType'
    BY <1>4, RefreshType, CurrentType DEF Reconnect, ViewType
  <2>3. QED
    BY <1>4, <2>1, <2>2, Kept DEF Reconnect, LinkType
<1>5. QED
  BY <1>1, <1>2, <1>3, <1>4

LEMMA ToggleType ==
  ASSUME Types, Toggle
  PROVE  Types'
<1> USE DEF Types
<1>1. FocusType' /\ KnownType' /\ NvimType' /\ RepeatType'
  BY Kept DEF Toggle, Press, RepeatType
<1>2. CASE enabled
  <2>1. view # None => [kind |-> "end", id |-> view.id] \in Controls
    BY DEF ViewType, ViewGood, View, Controls
  <2>2. outbox' \in Seq(Controls)
    BY <1>2, <2>1, SubmitType DEF Toggle, Leave, EndControl, LinkType
  <2>3. ViewType'
    <3>1. Clear /\ enabled' = FALSE /\ views' = views
      BY <1>2 DEF Toggle, Leave
    <3>2. cells' = [line |-> known.line, text |-> known.text]
      BY <1>2 DEF Toggle, Displayed
    <3>3. cells' \in Cells
      BY <3>2 DEF KnownType, States, Cells
    <3>4. QED
      BY <3>1, <3>3, ClearType DEF ViewType
  <2>4. QED
    BY <1>1, <2>2, <2>3 DEF Toggle, LinkType
<1>3. CASE ~enabled
  <2>1. ViewGood(None, pending)
    BY DEF ViewGood
  <2>2. views' \in Nat /\ pending' \subseteq Step /\ ViewGood(view, pending)' /\ view' \in View
    BY <1>3, <2>1, ReconcileType DEF Toggle, Enter, ViewType, KnownType
  <2>3. cells' \in Cells
    BY <1>3, <2>2 DEF Toggle, Displayed, Cells, View
  <2>4. ViewType' /\ outbox' = outbox
    BY <1>3, <2>2, <2>3 DEF Toggle, Enter, ViewType
  <2>5. QED
    BY <1>1, <2>4 DEF Toggle, LinkType
<1>4. QED
  BY <1>2, <1>3 DEF ViewType

LEMMA PanType ==
  ASSUME Types, Pan
  PROVE  Types'
<1> USE BrailleAssumption DEF Types
<1>1. FocusType' /\ KnownType' /\ NvimType' /\ RepeatType' /\ inbox' = inbox
  BY Kept DEF Pan, Press, RepeatType
<1>2. PICK delta \in {0, 2} : IF enabled THEN PanExploring(delta) ELSE PanCursor(delta)
  BY DEF Pan
<1>3. UNCHANGED <<enabled, cells>>
  BY DEF Pan
<1>4. CASE enabled
  <2> DEFINE v == Reconciled(view, known)
             earlier == IF Restarts(view, known) THEN {} ELSE pending
             step == [kind |-> "step", id |-> v.id, index |-> v.index + 1, delta |-> delta,
                      source |-> v.planned, target |-> v.planned + delta - 1,
                      origin |-> [buffer |-> v.buffer, line |-> v.origin, mode |-> v.mode,
                                  tick |-> v.tick]]
  <2>1. /\ v \in View /\ v.accepted <= v.index
        /\ earlier \subseteq Step /\ \A p \in earlier : p.index <= v.index
    BY ReconciledType DEF ViewType, KnownType
  <2>2. views' \in Nat
    BY <1>2, <1>4 DEF PanExploring, ViewType
  <2>3. CASE view' = v /\ pending' = earlier /\ UNCHANGED outbox
    BY <1>1, <1>3, <2>1, <2>2, <2>3 DEF ViewType, ViewGood, LinkType
  <2>4. CASE /\ Reachable(step.target)
             /\ view' = [v EXCEPT !.index = @ + 1, !.planned = step.target]
             /\ pending' = earlier \cup {step} /\ Submit(step)
    <3> HIDE DEF v, earlier
    <3>1. step.target \in 1..Lines
      BY <2>1, <2>4 DEF Reachable, KnownType, States, View
    <3>2. step \in Step
      BY <2>1, <3>1 DEF View, Step, Position
    <3>3. step.index = v.index + 1
      OBVIOUS
    <3> HIDE DEF step
    <3>4. /\ view' \in View /\ view'.index = v.index + 1 /\ view'.accepted = v.accepted
          /\ v.index \in Nat /\ v.accepted \in Nat
          /\ \A p \in earlier : p.index \in Nat
      <4>1. v.index \in Nat /\ v.accepted \in Nat /\ v.index + 1 \in Nat
        BY <2>1 DEF View
      <4>2. \A p \in earlier : p.index \in Nat
        BY <2>1 DEF Step
      <4>3. view' = [v EXCEPT !.index = v.index + 1, !.planned = step.target]
        BY <2>4
      <4>4. view' \in View
        BY <2>1, <3>1, <4>1, <4>3 DEF View
      <4>5. view'.index = v.index + 1 /\ view'.accepted = v.accepted
        BY <2>1, <4>3 DEF View
      <4>6. QED
        BY <4>1, <4>2, <4>4, <4>5
    <3>5. \A p \in pending' : p.index <= view'.index
      BY <2>1, <2>4, <3>3, <3>4
    <3>6. ViewGood(view, pending)' /\ pending' \subseteq Step
      BY <2>1, <2>4, <3>2, <3>4, <3>5 DEF ViewGood
    <3>7. outbox' \in Seq(Controls)
      BY <2>4, <3>2, SubmitType DEF Controls
    <3>8. QED
      BY <1>1, <1>3, <2>2, <3>6, <3>7 DEF ViewType, LinkType
  <2>5. CASE Clear /\ UNCHANGED outbox
    BY <1>1, <1>3, <2>2, <2>5, ClearType DEF ViewType, LinkType
  <2>6. QED
    BY <1>2, <1>4, <2>3, <2>4, <2>5 DEF PanExploring
<1>5. CASE ~enabled
  <2>1. [kind |-> "move", at |-> Origin(known), delta |-> delta] \in Controls
    BY OriginType DEF KnownType, Controls
  <2>2. outbox' \in Seq(Controls)
    BY <1>2, <1>5, <2>1, SubmitType DEF PanCursor, LinkType
  <2>3. ViewType'
    BY <1>2, <1>3, <1>5 DEF PanCursor, ViewType, ViewGood
  <2>4. QED
    BY <1>1, <2>2, <2>3 DEF LinkType
<1>6. QED
  BY <1>4, <1>5 DEF ViewType

(* What a routing key plans: a position of the known buffer and tick.        *)
LEMMA RoutedType ==
  ASSUME Types
  PROVE  /\ RouteTarget \in Position /\ RouteState.text \in Nat
         /\ RouteTarget.buffer = known.buffer /\ RouteTarget.tick = known.tick
         /\ RouteTarget.line = RouteState.line
         /\ \A kind \in {"route", "word", "line"}, burst \in Nat, token \in Nat :
              Routed(kind, burst, token) \in Presses
<1> USE DEF Types
<1>1. RouteState.line \in 1..Lines /\ RouteState.text \in Nat
  <2>1. CASE enabled
    BY <2>1, ReconciledType DEF RouteState, View, ViewType, KnownType
  <2>2. CASE ~enabled
    BY <2>2 DEF RouteState, KnownType, States
  <2>3. QED
    BY <2>1, <2>2
<1>2. RouteTarget \in Position
  BY <1>1 DEF RouteTarget, Position, KnownType, States, Modes
<1>3. QED
  BY <1>1, <1>2 DEF Routed, Presses, ViewType, FocusType, RouteTarget

LEMMA SentPress ==
  ASSUME Types, NEW kind \in {"route", "word", "line"}, NEW burst \in Nat, NEW token \in Nat,
         Submit(Routed(kind, burst, token))
  PROVE  outbox' \in Seq(Controls)
<1>1. Routed(kind, burst, token) \in Controls
  BY RoutedType DEF Controls
<1>2. QED
  BY <1>1, SubmitType DEF Types

LEMMA BurstType ==
  ASSUME Types, NEW n \in 1..2, NEW token \in Nat
  PROVE  Burst(n, token) \in [at : Position, number : 1..2, token : Nat, late : BOOLEAN]
  BY RoutedType DEF Burst

LEMMA PressesType ==
  ASSUME Types, PlainPress \/ FirstPress \/ SecondPress \/ ThirdPress
  PROVE  RepeatType' /\ outbox' \in Seq(Controls)
<1>0. bursts \in Nat /\ bursts + 1 \in Nat /\ tokens \in Nat /\ tokens + 1 \in Nat
  BY DEF Types, RepeatType
<1>1. CASE PlainPress
  BY <1>1, SentPress DEF PlainPress, Types, RepeatType
<1>2. CASE FirstPress
  <2>1. outbox' \in Seq(Controls)
    BY <1>0, <1>2, SentPress DEF FirstPress
  <2>2. /\ repeat' = Burst(1, 0) /\ bursts' = bursts + 1 /\ deferred' = None
        /\ tokens' = tokens /\ acted' = acted
    BY <1>2 DEF FirstPress
  <2>3. Burst(1, 0) \in [at : Position, number : 1..2, token : Nat, late : BOOLEAN]
    BY BurstType
  <2>4. QED
    BY <1>0, <2>1, <2>2, <2>3 DEF Types, RepeatType
<1>3. CASE SecondPress
  <2>1. CASE "line" \in actions
    <3>1. tokens' \in Nat /\ repeat' = Burst(2, tokens')
      BY <1>0, <1>3, <2>1 DEF SecondPress
    <3>2. deferred' \in Presses \cup {None}
      <4>1. Routed("word", bursts, tokens') \in Presses
        BY <3>1, RoutedType DEF Types, RepeatType
      <4>2. QED
        BY <1>3, <2>1, <4>1 DEF SecondPress
    <3>3. outbox' = outbox /\ acted' = acted /\ bursts' = bursts
      BY <1>3, <2>1 DEF SecondPress
    <3>4. Burst(2, tokens') \in [at : Position, number : 1..2, token : Nat, late : BOOLEAN]
      BY <3>1, BurstType
    <3>5. QED
      BY <1>0, <3>1, <3>2, <3>3, <3>4 DEF Types, RepeatType, LinkType
  <2>2. CASE "line" \notin actions
    BY <1>3, <2>2, SentPress DEF SecondPress, Types, RepeatType
  <2>3. QED
    BY <2>1, <2>2
<1>4. CASE ThirdPress
  BY <1>4, SentPress DEF ThirdPress, Types, RepeatType
<1>5. QED
  BY <1>1, <1>2, <1>3, <1>4

LEMMA ReconcileKnown ==
  ASSUME Types, UNCHANGED <<enabled, cells>>,
         IF enabled THEN Reconcile(view, pending, known) ELSE UNCHANGED <<view, views, pending>>
  PROVE  ViewType'
<1> USE DEF Types
<1>1. CASE enabled
  BY <1>1, ReconcileType DEF ViewType, KnownType
<1>2. CASE ~enabled
  BY <1>2 DEF ViewType, ViewGood
<1>3. QED
  BY <1>1, <1>2 DEF ViewType

LEMMA RouteType ==
  ASSUME Types, Route
  PROVE  Types'
<1>1. ViewType'
  BY ReconcileKnown DEF Route
<1>2. RepeatType' /\ outbox' \in Seq(Controls)
  BY PressesType DEF Route, Types, RepeatType, LinkType
<1>3. QED
  BY <1>1, <1>2, Kept DEF Route, Types, LinkType

LEMMA ExpireType ==
  ASSUME Types, NEW token, Expire(token)
  PROVE  Types'
<1> DEFINE mine == deferred # None /\ deferred.token = token
           sent == Due(token) /\ mine /\ online
           action == [deferred EXCEPT !.at = RouteTarget, !.text = RouteState.text]
<1>1. ViewType'
  <2>1. CASE sent
    BY <2>1, ReconcileKnown DEF Expire
  <2>2. CASE ~sent
    BY <2>2 DEF Expire, Types, ViewType, ViewGood
  <2>3. QED
    BY <2>1, <2>2
<1>2. \/ outbox' = outbox /\ acted' = acted
      \/ sent /\ Submit(action) /\ acted' = acted \cup {deferred.burst}
  BY DEF Expire
<1>3. sent => action \in Presses /\ deferred.burst \in Nat
  BY RoutedType DEF Types, RepeatType, Presses
<1>4. outbox' \in Seq(Controls) /\ acted' \subseteq Nat
  <2> HIDE DEF sent, action
  <2>1. sent => action \in Controls
    BY <1>3 DEF Controls
  <2>2. QED
    BY <1>2, <1>3, <2>1, SubmitType DEF Types, LinkType, RepeatType
<1>5. RepeatType'
  BY <1>4 DEF Expire, Types, RepeatType
<1>6. QED
  BY <1>1, <1>4, <1>5, Kept DEF Expire, Types, LinkType

LEMMA DisplayType ==
  ASSUME Types, Display
  PROVE  Types'
<1>1. CASE Deadline
  <2>1. RepeatType'
    BY <1>1 DEF Deadline, Types, RepeatType
  <2>2. QED
    BY <1>1, <2>1, Kept DEF Deadline, Types, LinkType
<1>2. QED
  BY <1>1, ToggleType, PanType, RouteType, ExpireType DEF Display

-----------------------------------------------------------------------------
(* The dispatcher and Neovim keep the types.                                *)

LEMMA DispatcherType ==
  ASSUME Types, ControlLost \/ StepFailed
  PROVE  Types'
<1>1. CASE ControlLost
  <2>1. PICK k \in DOMAIN outbox : outbox' = RemoveAt(outbox, k)
    BY <1>1 DEF ControlLost
  <2>2. outbox' \in Seq(Controls)
    BY <2>1 DEF Types, LinkType, RemoveAt
  <2>3. QED
    BY <1>1, <2>2, Kept DEF ControlLost, Types, LinkType
<1>2. CASE StepFailed
  <2>1. ViewType'
    BY <1>2, ClearType DEF StepFailed, Types, ViewType, ViewGood
  <2>2. QED
    BY <1>2, <2>1, Kept DEF StepFailed, Types, LinkType
<1>3. QED
  BY <1>1, <1>2

LEMMA PublishedType ==
  ASSUME NvimType'
  PROVE  Published(place', ticks', text', count') \in States
<1> DEFINE b == place'.buffer
           l == place'.line
<1>1. b \in Buffers /\ l \in 1..Lines /\ place'.mode \in {"n", "i"}
  BY DEF NvimType, Modes
<1>2. ticks'[b] \in Nat /\ text'[b][l] \in Nat /\ count'[b] \in 1..Lines
  BY <1>1 DEF NvimType
<1>3. QED
  BY <1>1, <1>2 DEF Published, States

LEMMA PublishType ==
  ASSUME LinkType, NvimType', Publish(place', ticks', text', count')
  PROVE  inbox' \in Seq(Messages)
<1>1. Published(place', ticks', text', count') \in States
  BY PublishedType
<1>2. [kind |-> "state", at |-> Published(place', ticks', text', count')] \in Messages
  BY <1>1 DEF Messages
<1>3. QED
  BY <1>2, TellType DEF Publish, LinkType

LEMMA EditedType ==
  ASSUME NvimType, NEW l \in 1..Lines, Edited(l)
  PROVE  ticks' \in [Buffers -> Nat] /\ text' \in [Buffers -> [1..Lines -> Nat]]
<1>1. ticks' \in [Buffers -> Nat]
  BY DEF NvimType, Edited
<1>2. text' = [text EXCEPT ![place.buffer][l] = ticks'[place.buffer]]
  BY DEF Edited
<1>3. QED
  BY <1>1, <1>2 DEF NvimType

LEMMA Bumped ==
  ASSUME NEW S, NEW f \in [S -> Nat], NEW x \in S
  PROVE  [f EXCEPT ![x] = @ + 1] \in [S -> Nat]
<1>1. f[x] + 1 \in Nat
  OBVIOUS
<1>2. QED
  BY <1>1

LEMMA ChangeType ==
  ASSUME Types, Edit \/ Cut \/ Move \/ SwitchMode \/ SwitchBuffer
  PROVE  Types'
<1> USE BrailleAssumption
<1>1. \A b \in Buffers : count[b] \in 1..Lines /\ 1..count[b] \subseteq 1..Lines
  BY DEF Types, NvimType
<1>2. NvimType'
  <2> DEFINE b == place.buffer
  <2>0. b \in Buffers /\ place.line \in 1..Lines /\ NvimType /\ far' = far
    BY DEF Types, NvimType, Edit, Cut, Move, SwitchMode, SwitchBuffer, Change
  <2>1. CASE Edit
    <3>1. PICK l \in 1..count[b] : Edited(l)
      BY <2>1 DEF Edit
    <3>2. l \in 1..Lines /\ place' = place /\ count' = count
      BY <1>1, <2>0, <2>1, <3>1 DEF Edit
    <3>3. QED
      BY <2>0, <3>1, <3>2, EditedType DEF NvimType
  <2>2. CASE Cut
    <3>1. /\ count' = [count EXCEPT ![b] = place.line] /\ ticks' = [ticks EXCEPT ![b] = @ + 1]
          /\ place' = place /\ text' = text
      BY <2>2 DEF Cut
    <3>2. count' \in [Buffers -> 1..Lines]
      BY <2>0, <3>1 DEF NvimType
    <3>3. ticks' \in [Buffers -> Nat]
      <4>1. ticks \in [Buffers -> Nat]
        BY <2>0 DEF NvimType
      <4>2. QED
        BY <2>0, <3>1, <4>1, Bumped
    <3>4. QED
      BY <2>0, <3>1, <3>2, <3>3 DEF NvimType
  <2>3. CASE Move \/ SwitchMode \/ SwitchBuffer
    <3>1. ticks' = ticks /\ text' = text /\ count' = count
      BY <2>3 DEF Move, SwitchMode, SwitchBuffer
    <3>2. place' \in [buffer : Buffers, line : 1..Lines, mode : Modes]
      <4>1. CASE Move
        <5>1. PICK l \in 1..count[b] : place' = [place EXCEPT !.line = l]
          BY <4>1 DEF Move
        <5>2. QED
          BY <1>1, <2>0, <5>1 DEF NvimType
      <4>2. CASE SwitchMode
        BY <2>0, <4>2 DEF SwitchMode, NvimType, Modes
      <4>3. CASE SwitchBuffer
        BY <2>0, <4>3 DEF SwitchBuffer, NvimType
      <4>4. QED
        BY <2>3, <4>1, <4>2, <4>3
    <3>3. QED
      BY <2>0, <3>1, <3>2 DEF NvimType
  <2>4. QED
    BY <2>1, <2>2, <2>3
<1>3. Publish(place', ticks', text', count') /\ Change
  BY DEF Edit, Cut, Move, SwitchMode, SwitchBuffer
<1>4. inbox' \in Seq(Messages)
  BY <1>2, <1>3, PublishType DEF Types
<1>5. QED
  BY <1>2, <1>3, <1>4, Kept DEF Change, Types, LinkType

LEMMA FarSideKept ==
  ASSUME Types, Answered, NvimType', LinkType'
  PROVE  Types'
  BY Kept DEF Answered, Types

(* A step from the virtual line, or from the cursor.                        *)
LEMMA TakeStepType ==
  ASSUME Types, TakeStep
  PROVE  Types'
<1> USE BrailleAssumption
<1> DEFINE step == Head(outbox)
           from == IF Follows(step) THEN far.line ELSE step.origin.line
           moved == from + step.delta - 1 \in 1..count[place.buffer]
           line == IF moved THEN from + step.delta - 1 ELSE from
           yes == [kind |-> "result", step |-> step, ok |-> TRUE, moved |-> moved,
                   line |-> line, text |-> text[place.buffer][line], at |-> Origin(Current)]
           no == [kind |-> "result", step |-> step, ok |-> FALSE, moved |-> FALSE,
                  line |-> 0, text |-> 0, at |-> Origin(Current)]
<1>1. step \in Step /\ outbox' \in Seq(Controls)
  BY HeadControl DEF TakeStep, Types, Controls, Presses
<1>2. from \in 1..Lines
  BY <1>1 DEF Types, NvimType, Follows, Step, Position
<1>3. place.buffer \in Buffers /\ 1..count[place.buffer] \subseteq 1..Lines
  <2>1. place.buffer \in Buffers /\ count[place.buffer] \in 1..Lines
    BY DEF Types, NvimType
  <2>2. QED
    BY <2>1
<1>4. line \in 1..Lines
  BY <1>2, <1>3
<1>5. text[place.buffer][line] \in Nat /\ Origin(Current) \in Position /\ step.id \in Nat
      /\ step.index \in Nat
  <2> HIDE DEF line, step
  <2>1. text[place.buffer] \in [1..Lines -> Nat]
    BY <1>3 DEF Types, NvimType
  <2>2. text[place.buffer][line] \in Nat
    BY <1>4, <2>1
  <2>3. QED
    BY <1>1, <2>2, CurrentType DEF Types, Step
<1>6. UNCHANGED <<place, ticks, text, count>> /\ Answered
  BY DEF TakeStep
<1>7. \/ far' = [id |-> step.id, index |-> step.index, line |-> line] /\ Tell(yes)
      \/ far' = None /\ Tell(no)
  BY DEF TakeStep
<1> HIDE DEF line, from, moved, step
<1>8. yes \in Messages /\ no \in Messages
  <2>1. moved \in BOOLEAN /\ line \in 0..Lines
    BY <1>4 DEF moved
  <2>2. QED
    BY <1>1, <1>5, <2>1 DEF Messages, Result
<1>9. inbox' \in Seq(Messages)
  <2> HIDE DEF yes, no
  <2> QED
    BY <1>7, <1>8, TellType DEF Types
<1>10. far' \in [id : Nat, index : Nat, line : 1..Lines] \cup {None}
  BY <1>4, <1>5, <1>7
<1>11. QED
  BY <1>1, <1>6, <1>9, <1>10, FarSideKept DEF Types, NvimType, LinkType

LEMMA ControlType ==
  ASSUME Types, TakeEnd \/ TakeMove \/ TakeRoute \/ TakeAction
  PROVE  Types'
<1> USE BrailleAssumption
<1> DEFINE b == place.buffer
<1>0. /\ b \in Buffers /\ place.line \in 1..Lines /\ 1..count[b] \subseteq 1..Lines
      /\ NvimType /\ inbox \in Seq(Messages)
  <2>1. b \in Buffers /\ count[b] \in 1..Lines /\ place.line \in 1..Lines
    BY DEF Types, NvimType
  <2>2. QED
    BY <2>1 DEF Types, LinkType
<1>1. Head(outbox) \in Controls /\ outbox' \in Seq(Controls) /\ Answered
  BY HeadControl DEF TakeEnd, TakeMove, TakeRoute, TakeAction, Types
<1>2. CASE TakeEnd
  <2>1. NvimType'
    BY <1>0, <1>2 DEF TakeEnd, NvimType
  <2>2. QED
    BY <1>0, <1>1, <1>2, <2>1, FarSideKept DEF TakeEnd, LinkType
<1>3. ASSUME NEW l \in 1..Lines, place' = [place EXCEPT !.line = l],
             UNCHANGED <<ticks, text, count, far>>
      PROVE  NvimType'
  BY <1>0, <1>3 DEF NvimType
<1>4. CASE TakeMove \/ TakeRoute
  <2>1. NvimType'
    <3>1. CASE place' = place
      BY <1>0, <1>4, <3>1 DEF TakeMove, TakeRoute, NvimType
    <3>2. CASE TakeMove /\ place' # place
      BY <1>0, <1>3, <3>2 DEF TakeMove
    <3>3. CASE TakeRoute /\ place' # place
      <4>1. Head(outbox).at.line \in 1..Lines
        BY <1>1, <3>3, HeadControl DEF TakeRoute, Controls, Presses, Step, Position, Types
      <4>2. QED
        BY <1>3, <3>3, <4>1 DEF TakeRoute
    <3>4. QED
      BY <1>4, <3>1, <3>2, <3>3
  <2>2. inbox' = inbox \/ Publish(place', ticks', text', count')
    BY <1>4 DEF TakeMove, TakeRoute
  <2>3. inbox' \in Seq(Messages)
    BY <1>0, <2>1, <2>2, PublishType DEF Types
  <2>4. QED
    BY <1>1, <2>1, <2>3, FarSideKept DEF LinkType
<1>5. CASE TakeAction
  <2>1. NvimType' /\ inbox' = inbox
    BY <1>0, <1>5 DEF TakeAction, NvimType
  <2>2. QED
    BY <1>0, <1>1, <2>1, FarSideKept DEF LinkType
<1>6. QED
  BY <1>2, <1>4, <1>5

LEMMA RunKeysType ==
  ASSUME Types, RunKeys
  PROVE  Types'
<1>1. place.line \in 1..Lines /\ Edited(place.line) /\ UNCHANGED <<count, far, outbox>>
  BY DEF Types, NvimType, RunKeys
<1>2. PICK mode \in {place.mode, "i"} : place' = [place EXCEPT !.mode = mode]
  BY DEF RunKeys
<1>3. place' \in [buffer : Buffers, line : 1..Lines, mode : Modes]
  BY <1>2 DEF Types, NvimType, Modes
<1>4. NvimType'
  BY <1>1, <1>3, EditedType DEF Types, NvimType
<1>5. inbox' \in Seq(Messages)
  BY <1>4, PublishType DEF RunKeys, Types
<1>6. QED
  BY <1>1, <1>4, <1>5, FarSideKept DEF RunKeys, Types, LinkType

LEMMA EditorType ==
  ASSUME Types, Editor
  PROVE  Types'
<1>1. CASE AnswerFocus
  <2>1. /\ Head(outbox) \in [kind : {"focus"}, period : Nat]
        /\ outbox' \in Seq(Controls) /\ Answered /\ UNCHANGED <<place, ticks, text, count, far>>
    BY <1>1, HeadControl DEF AnswerFocus, Types, Controls, Step, Presses
  <2>2. [kind |-> "focus", period |-> Head(outbox).period, at |-> Current] \in Messages
    BY <2>1, CurrentType DEF Messages, Types
  <2>3. inbox' \in Seq(Messages)
    BY <1>1, <2>2, TellType DEF AnswerFocus, Types
  <2>4. QED
    BY <2>1, <2>3, FarSideKept DEF Types, NvimType, LinkType
<1>2. QED
  BY <1>1, ChangeType, TakeStepType, ControlType, RunKeysType DEF Editor

-----------------------------------------------------------------------------
(* Events on the main thread keep the types.                                *)

LEMMA TakeResultType ==
  ASSUME Types, TakeResult
  PROVE  ViewType'
<1> DEFINE result == Head(inbox)
           others == pending \ {result.step}
           later == IF result.moved THEN others ELSE {}
           planned == IF result.moved THEN view.planned ELSE result.line
           v == [view EXCEPT !.accepted = result.step.index, !.line = result.line,
                             !.text = result.text, !.shown = known.tick,
                             !.planned = planned]
<1>1. result \in Result /\ UNCHANGED enabled
  BY HeadEvent DEF TakeResult, Types, Messages, Result
<1>2. CASE UNCHANGED <<view, views, pending, cells>>
  BY <1>1, <1>2 DEF Types, ViewType, ViewGood
<1>3. CASE Clear /\ UNCHANGED <<views, cells>>
  BY <1>1, <1>3, ClearType DEF Types, ViewType
<1>4. CASE pending' = others /\ UNCHANGED <<view, views, cells>>
  BY <1>1, <1>4 DEF Types, ViewType, ViewGood
<1>5. CASE /\ result.step \in pending /\ Expected(result) /\ Refresh(v, later, known)
  <2>1. /\ view \in View /\ \A p \in pending : p.index <= view.index
        /\ result.step \in Step /\ result.step.index <= view.index
    BY <1>5 DEF Expected, Types, ViewType, ViewGood
  <2>2. result.line \in 1..Lines
    BY <1>5, <2>1 DEF Expected, Step
  <2>3. planned \in 1..Lines /\ known.tick \in Nat /\ result.text \in Nat
        /\ result.step.index \in Nat
    BY <1>1, <2>1, <2>2 DEF View, Result, Step, Types, KnownType, States
  <2> HIDE DEF planned
  <2>4. v \in View /\ v.accepted = result.step.index /\ v.index = view.index
    BY <2>1, <2>2, <2>3 DEF View
  <2>5. later \subseteq Step /\ later \subseteq pending
    BY DEF Types, ViewType
  <2> HIDE DEF v, later, result
  <2>6. ViewGood(v, later)
    BY <2>1, <2>4, <2>5 DEF ViewGood
  <2>7. QED
    BY <1>1, <1>5, <2>5, <2>6, RefreshType DEF Types, KnownType
<1>6. QED
  BY <1>2, <1>3, <1>4, <1>5 DEF TakeResult

LEMMA EventsType ==
  ASSUME Types, Events
  PROVE  Types'
<1>1. CASE TakeFocus
  <2>1. Head(inbox).at \in States /\ inbox' \in Seq(Messages)
    BY <1>1, HeadEvent DEF TakeFocus, Types, Messages, Result
  <2>2. ViewType' /\ KnownType'
    <3>1. CASE here /\ Head(inbox).period = period
      BY <1>1, <2>1, <3>1, RefreshType DEF TakeFocus, Types, ViewType, KnownType
    <3>2. CASE ~(here /\ Head(inbox).period = period)
      BY <1>1, <3>2 DEF TakeFocus, Types, ViewType, ViewGood, KnownType
    <3>3. QED
      BY <3>1, <3>2
  <2>3. FocusType'
    BY <1>1 DEF TakeFocus, Types, FocusType
  <2>4. QED
    BY <1>1, <2>1, <2>2, <2>3, Kept DEF TakeFocus, Types, LinkType
<1>2. CASE TakeState
  <2>1. Head(inbox).at \in States /\ inbox' \in Seq(Messages)
    BY <1>2, HeadEvent DEF TakeState, Types, Messages, Result
  <2>2. ViewType' /\ KnownType'
    <3>1. CASE Confirmed
      BY <1>2, <2>1, <3>1, RefreshType DEF TakeState, Types, ViewType, KnownType
    <3>2. CASE ~Confirmed
      BY <1>2, <3>2 DEF TakeState, Types, ViewType, ViewGood, KnownType
    <3>3. QED
      BY <3>1, <3>2
  <2>3. QED
    BY <1>2, <2>1, <2>2, Kept DEF TakeState, Types, LinkType
<1>3. CASE TakeResult
  <2>1. inbox' \in Seq(Messages)
    BY <1>3, HeadEvent DEF TakeResult, Types
  <2>2. QED
    BY <1>3, <2>1, TakeResultType, Kept DEF TakeResult, Types, LinkType
<1>4. QED
  BY <1>1, <1>2, <1>3 DEF Events

LEMMA InitTypes == Init => Types
<1> SUFFICES ASSUME Init PROVE Types
  OBVIOUS
<1>1. NvimType
  BY BrailleAssumption DEF Init, NvimType, Modes
<1>2. KnownType
  BY <1>1, CurrentType DEF Init, KnownType
<1>3. ViewType
  BY DEF Init, ViewType, ViewGood, Cells
<1>4. FocusType /\ RepeatType
  BY DEF Init, FocusType, RepeatType
<1>5. LinkType
  BY DEF Init, LinkType
<1>6. QED
  BY <1>1, <1>2, <1>3, <1>4, <1>5 DEF Types

LEMMA NextTypes == Types /\ [Next]_vars => Types'
<1> SUFFICES ASSUME Types, [Next]_vars PROVE Types'
  OBVIOUS
<1>1. CASE UNCHANGED vars
  BY <1>1, Kept DEF vars, Types, LinkType, focusVars, viewVars, repeatVars, nvimVars
<1>2. CASE Next
  BY <1>2, FocusStepType, DisplayType, DispatcherType, EditorType, EventsType DEF Next
<1>3. QED
  BY <1>1, <1>2

(* Every variable keeps its type, and a view never waits for an older step.  *)
THEOREM TypeCorrect == Spec => []TypeOK
<1>1. Types => TypeOK
  BY CurrentType DEF Types, TypeOK, FocusType, ViewType, ViewGood, View, RepeatType, KnownType,
     Cells
<1>2. QED
  BY <1>1, InitTypes, NextTypes, PTL DEF Spec

-----------------------------------------------------------------------------
(* What is known of a line, anywhere: its tick is not ahead of the buffer's, *)
(* and a text of the buffer's tick is the text of the line.                  *)

Of(b, l, tick, string, tk, tt) == tick <= tk[b] /\ (tick = tk[b] => string = tt[b][l])

FreshStates(tk, tt) == {s \in States : Of(s.buffer, s.line, s.tick, s.text, tk, tt)}
FreshViews(tk, tt) == {v \in View : Of(v.buffer, v.line, v.shown, v.text, tk, tt)}
FreshControls(tk, tt) ==
  {c \in Controls : c.kind \in {"route", "word", "line"}
                      => Of(c.at.buffer, c.at.line, c.at.tick, c.text, tk, tt)}
FreshMessages(tk, tt) ==
  {e \in Messages : /\ e.kind \in {"focus", "state"} => e.at \in FreshStates(tk, tt)
                    /\ e.kind = "result" /\ e.ok
                         => Of(e.at.buffer, e.line, e.at.tick, e.text, tk, tt)}

FreshWith(tk, tt) ==
  /\ known \in FreshStates(tk, tt) /\ view \in FreshViews(tk, tt) \cup {None}
  /\ outbox \in Seq(FreshControls(tk, tt)) /\ inbox \in Seq(FreshMessages(tk, tt))

Fresh == FreshWith(ticks, text)

(* Ticks go up, and with every change of a text.                             *)
Monotone == \A b \in Buffers : /\ ticks[b] <= ticks'[b]
                               /\ ticks'[b] = ticks[b] => text'[b] = text[b]

LEMMA TicksGoUp ==
  ASSUME Types, [Next]_vars
  PROVE  Monotone
<1>1. CASE UNCHANGED <<ticks, text>>
  BY <1>1 DEF Monotone, Types, NvimType
<1>2. ASSUME ticks' = [ticks EXCEPT ![place.buffer] = @ + 1],
             \A b \in Buffers \ {place.buffer} : text'[b] = text[b]
      PROVE  Monotone
  BY <1>2 DEF Monotone, Types, NvimType
<1>3. ASSUME NEW l, Edited(l)
      PROVE  Monotone
  BY <1>2, <1>3 DEF Edited, Types, NvimType
<1>4. CASE Edit \/ RunKeys
  BY <1>1, <1>3, <1>4 DEF Edit, RunKeys
<1>5. CASE Cut
  BY <1>2, <1>5 DEF Cut
<1>6. CASE Next /\ ~Edit /\ ~Cut /\ ~RunKeys
  <2>1. UNCHANGED <<ticks, text>>
    BY <1>6 DEF Next, GainFocus, LoseFocus, ConnectionLost, Reconnect, Display, Toggle, Pan,
       Route, Deadline, Expire, ControlLost, StepFailed, Editor, Move, SwitchMode,
       SwitchBuffer, AnswerFocus, TakeStep, TakeEnd, TakeMove, TakeRoute, TakeAction, RunKeys,
       Events,
       TakeFocus, TakeState, TakeResult, nvimVars
  <2>2. QED
    BY <1>1, <2>1
<1>7. QED
  BY <1>1, <1>4, <1>5, <1>6 DEF vars, nvimVars

LEMMA OfAged ==
  ASSUME Types, NvimType', Monotone, NEW b \in Buffers, NEW l, NEW tick \in Nat, NEW string,
         Of(b, l, tick, string, ticks, text)
  PROVE  Of(b, l, tick, string, ticks', text')
<1>1. ticks[b] \in Nat /\ ticks'[b] \in Nat
  BY DEF Types, NvimType
<1>2. ticks[b] <= ticks'[b] /\ (ticks'[b] = ticks[b] => text'[b] = text[b])
  BY DEF Monotone
<1>3. tick <= ticks[b] /\ (tick = ticks[b] => string = text[b][l])
  BY DEF Of
<1>4. tick <= ticks'[b] /\ (tick = ticks'[b] => ticks'[b] = ticks[b])
  BY <1>1, <1>2, <1>3
<1>5. QED
  BY <1>2, <1>3, <1>4 DEF Of

LEMMA Aged ==
  ASSUME Types, NvimType', Monotone, Fresh
  PROVE  FreshWith(ticks', text')
<1>1. FreshStates(ticks, text) \subseteq FreshStates(ticks', text')
  BY OfAged DEF FreshStates, States
<1>2. FreshViews(ticks, text) \subseteq FreshViews(ticks', text')
  BY OfAged DEF FreshViews, View
<1>3. FreshControls(ticks, text) \subseteq FreshControls(ticks', text')
  BY OfAged DEF FreshControls, Controls, Presses, Step, Position
<1>4. FreshMessages(ticks, text) \subseteq FreshMessages(ticks', text')
  <2>1. ASSUME NEW e \in FreshMessages(ticks, text), e.kind = "result", e.ok
        PROVE  Of(e.at.buffer, e.line, e.at.tick, e.text, ticks', text')
    <3>1. e \in Result
      BY <2>1 DEF FreshMessages, Messages
    <3>2. e.at.buffer \in Buffers /\ e.at.tick \in Nat
      BY <3>1 DEF Result, Position
    <3>3. QED
      BY <2>1, <3>2, OfAged DEF FreshMessages
  <2>2. QED
    BY <1>1, <2>1 DEF FreshMessages
<1>5. QED
  BY <1>1, <1>2, <1>3, <1>4 DEF Fresh, FreshWith

LEMMA CurrentFresh == NvimType => Current \in FreshStates(ticks, text)
<1> SUFFICES ASSUME NvimType PROVE Current \in FreshStates(ticks, text)
  OBVIOUS
<1>1. Current \in States /\ Current.tick \in Nat
  BY CurrentType DEF States
<1>2. QED
  BY <1>1 DEF Current, Published, FreshStates, Of

LEMMA ReconciledFresh ==
  ASSUME NEW v \in FreshViews(ticks, text) \cup {None}, NEW s \in FreshStates(ticks, text),
         Reconciled(v, s) \in View
  PROVE  Reconciled(v, s) \in FreshViews(ticks, text)
<1>1. CASE Restarts(v, s)
  BY <1>1 DEF Reconciled, Started, FreshViews, FreshStates
<1>2. CASE ~Restarts(v, s)
  <2>1. v \in View /\ v.buffer = s.buffer /\ v \in FreshViews(ticks, text)
    BY <1>2 DEF Restarts, FreshViews
  <2>2. CASE v.line = s.line
    <3>1. Reconciled(v, s) = [v EXCEPT !.tick = s.tick, !.text = s.text, !.shown = s.tick]
      BY <1>2, <2>2 DEF Reconciled, Refreshed
    <3>2. Of(s.buffer, s.line, s.tick, s.text, ticks, text)
      BY DEF FreshStates
    <3>3. QED
      BY <2>1, <2>2, <3>1, <3>2 DEF FreshViews, View
  <2>3. CASE v.line # s.line
    <3>1. Reconciled(v, s) = [v EXCEPT !.tick = s.tick]
      BY <1>2, <2>3 DEF Reconciled, Refreshed
    <3>2. QED
      BY <2>1, <3>1 DEF FreshViews, View
  <2>4. QED
    BY <2>2, <2>3
<1>3. QED
  BY <1>1, <1>2

LEMMA RefreshFresh ==
  ASSUME Types', NEW v \in FreshViews(ticks, text) \cup {None}, NEW asked,
         NEW s \in FreshStates(ticks, text),
         Refresh(v, asked, s) \/ Reconcile(v, asked, s)
  PROVE  view' \in FreshViews(ticks, text) \cup {None}
<1>1. CASE view' = v
  BY <1>1
<1>2. CASE view' = Reconciled(v, s)
  BY <1>2, ReconciledFresh DEF Types, ViewType, ViewGood, FreshViews
<1>3. QED
  BY <1>1, <1>2 DEF Refresh, Reconcile

LEMMA FreshPress ==
  ASSUME Types, Types', Fresh, RouteReady,
         enabled => Reconcile(view, pending, known)
  PROVE  Of(RouteTarget.buffer, RouteTarget.line, RouteTarget.tick, RouteState.text, ticks, text)
<1>1. known \in FreshStates(ticks, text) /\ view \in FreshViews(ticks, text) \cup {None}
  BY DEF Fresh, FreshWith
<1>2. RouteTarget.buffer = known.buffer /\ RouteTarget.tick = known.tick
      /\ RouteTarget.line = RouteState.line
  BY DEF RouteTarget
<1>3. CASE ~enabled
  BY <1>1, <1>2, <1>3 DEF RouteState, FreshStates
<1>4. CASE enabled
  <2>1. Reconciled(view, known) \in View /\ Reconciled(view, known).buffer = known.buffer
    BY ReconciledType DEF Types, ViewType, KnownType
  <2>2. Reconciled(view, known) \in FreshViews(ticks, text)
    BY <1>1, <2>1, ReconciledFresh
  <2>3. Reconciled(view, known).shown = known.tick
    BY <1>4 DEF RouteReady, RouteState
  <2>4. QED
    BY <1>2, <1>4, <2>1, <2>2, <2>3 DEF RouteState, FreshViews
<1>5. QED
  BY <1>3, <1>4

LEMMA KnownStaysFresh ==
  ASSUME Types, Types', Fresh, Next
  PROVE  known' \in FreshStates(ticks', text')
<1>1. CASE known' = known
  BY <1>1, Aged, TicksGoUp DEF FreshWith, Types
<1>2. CASE Reconnect
  BY <1>2, CurrentFresh DEF Reconnect, nvimVars, Types
<1>3. CASE (TakeFocus \/ TakeState) /\ known' # known
  <2>1. /\ inbox # <<>> /\ Head(inbox).kind \in {"focus", "state"}
        /\ known' = Head(inbox).at /\ UNCHANGED <<ticks, text>>
    BY <1>3 DEF TakeFocus, TakeState, Event, nvimVars
  <2>2. Head(inbox) \in FreshMessages(ticks, text)
    BY <2>1 DEF Fresh, FreshWith
  <2>3. QED
    BY <2>1, <2>2 DEF FreshMessages
<1>4. QED
  BY <1>1, <1>2, <1>3 DEF Next, GainFocus, LoseFocus, ConnectionLost, Display, Toggle, Pan,
     Route, Deadline, Expire, ControlLost, StepFailed, Editor, Change, Edit, Cut, Move,
     SwitchMode, SwitchBuffer, AnswerFocus, TakeStep, TakeEnd, TakeMove, TakeRoute, TakeAction,
     RunKeys,
     Answered, Events, TakeResult

LEMMA ViewStaysFresh ==
  ASSUME Types, Types', Fresh, Next
  PROVE  view' \in FreshViews(ticks', text') \cup {None}
<1>0. /\ known \in FreshStates(ticks, text) /\ view \in FreshViews(ticks, text) \cup {None}
      /\ None \in FreshViews(ticks, text) \cup {None}
  BY DEF Fresh, FreshWith
<1>1. CASE view' = view \/ view' = None
  BY <1>1, Aged, TicksGoUp DEF FreshWith, Types
<1>2. CASE Reconnect
  BY <1>0, <1>2, CurrentFresh, RefreshFresh DEF Reconnect, nvimVars, Types
<1>3. CASE Toggle /\ ~enabled
  BY <1>0, <1>3, RefreshFresh DEF Toggle, Enter, nvimVars
<1>4. CASE Pan /\ enabled
  <2> DEFINE v == Reconciled(view, known)
  <2>1. UNCHANGED <<ticks, text>>
    BY <1>4 DEF Pan, nvimVars
  <2>2. v \in FreshViews(ticks, text) /\ v \in View
    BY <1>0, ReconciledFresh, ReconciledType DEF Types, ViewType, KnownType
  <2>3. \/ view' \in {v, None}
        \/ \E line \in Nat : view' = [v EXCEPT !.index = @ + 1, !.planned = line]
    <3>1. PICK delta \in {0, 2} : PanExploring(delta)
      BY <1>4 DEF Pan
    <3>2. v.planned + delta - 1 \in Nat \/ ~Reachable(v.planned + delta - 1)
      BY DEF Reachable, Types, KnownType, States
    <3>3. QED
      BY <3>1, <3>2 DEF PanExploring, Clear
  <2>4. CASE view' \in {v, None}
    BY <2>1, <2>2, <2>4
  <2>5. ASSUME NEW line, view' = [v EXCEPT !.index = @ + 1, !.planned = line], view' # None
        PROVE  view' \in FreshViews(ticks', text')
    <3> HIDE DEF v
    <3>1. /\ view'.buffer = v.buffer /\ view'.line = v.line /\ view'.shown = v.shown
          /\ view'.text = v.text
      BY <2>2, <2>5 DEF View
    <3>2. view' \in View
      BY <2>5 DEF Types, ViewType, ViewGood
    <3>3. QED
      BY <2>1, <2>2, <3>1, <3>2 DEF FreshViews
  <2>6. QED
    BY <2>3, <2>4, <2>5
<1>5. CASE Route \/ \E token \in timers : Expire(token)
  BY <1>0, <1>1, <1>5, RefreshFresh DEF Route, Expire, nvimVars
<1>6. CASE TakeFocus \/ TakeState
  <2>1. UNCHANGED <<ticks, text>>
    BY <1>6 DEF TakeFocus, TakeState, nvimVars
  <2>2. Head(inbox).at \in FreshStates(ticks, text)
    BY <1>6 DEF TakeFocus, TakeState, Event, Fresh, FreshWith, FreshMessages
  <2>3. view' = view \/ Refresh(view, pending, Head(inbox).at)
    BY <1>6 DEF TakeFocus, TakeState
  <2>4. QED
    BY <1>0, <1>1, <2>1, <2>2, <2>3, RefreshFresh
<1>7. CASE TakeResult
  <2> DEFINE result == Head(inbox)
             v == [view EXCEPT !.accepted = result.step.index, !.line = result.line,
                               !.text = result.text, !.shown = known.tick,
                               !.planned = IF result.moved THEN @ ELSE result.line]
  <2>1. UNCHANGED <<ticks, text>> /\ result.kind = "result"
        /\ result \in FreshMessages(ticks, text)
    BY <1>7 DEF TakeResult, Event, nvimVars, Fresh, FreshWith
  <2>2. \/ view' = view \/ view' = None
        \/ /\ result.step \in pending /\ Expected(result)
           /\ Refresh(v, IF result.moved THEN pending \ {result.step} ELSE {}, known)
    BY <1>7 DEF TakeResult, Clear
  <2>3. CASE Expected(result) /\ result.step \in pending
    <3>1. /\ result.at.buffer = known.buffer /\ result.at.tick = known.tick /\ result.ok
          /\ view # None /\ view.buffer = known.buffer
          /\ result.line = result.step.target \/ result.line = result.step.source
      BY <2>3 DEF Expected, Origin
    <3>2. Of(view.buffer, result.line, known.tick, result.text, ticks, text)
      BY <2>1, <3>1 DEF FreshMessages
    <3>3. view \in View /\ result \in Result /\ result.line \in 1..Lines /\ known.tick \in Nat
      <4>1. result \in Result
        BY <2>1 DEF FreshMessages, Messages
      <4>2. result.line \in 1..Lines
        BY <3>1, <4>1 DEF Result, Step
      <4>3. QED
        BY <3>1, <4>1, <4>2 DEF Types, ViewType, ViewGood, KnownType, States
    <3>4. v \in View /\ v.buffer = view.buffer /\ v.line = result.line
          /\ v.shown = known.tick /\ v.text = result.text
      <4>1. result.step.index \in Nat /\ result.text \in Nat
        BY <3>3 DEF Result, Step
      <4>2. (IF result.moved THEN view.planned ELSE result.line) \in 1..Lines
        BY <3>3 DEF View
      <4> HIDE DEF result
      <4>3. QED
        BY <3>3, <4>1, <4>2 DEF View
    <3>5. v \in FreshViews(ticks, text) \cup {None}
      BY <3>2, <3>4 DEF FreshViews
    <3> HIDE DEF v, result
    <3>6. QED
      BY <1>0, <1>1, <2>1, <2>2, <3>5, RefreshFresh
  <2>4. QED
    BY <1>1, <2>2, <2>3
<1>8. view' = view \/ view' = None \/ Reconnect \/ (Toggle /\ ~enabled) \/ (Pan /\ enabled)
      \/ Route \/ (\E token \in timers : Expire(token)) \/ TakeFocus \/ TakeState \/ TakeResult
  <2>1. CASE Toggle \/ Pan
    BY <2>1 DEF Toggle, Leave, Clear, Pan, PanCursor
  <2>2. CASE Editor
    BY <2>2 DEF Editor, Change, Edit, Cut, Move, SwitchMode, SwitchBuffer, AnswerFocus,
       TakeStep, TakeEnd, TakeMove, TakeRoute, TakeAction, RunKeys, Answered, viewVars
  <2>3. CASE GainFocus \/ LoseFocus \/ ConnectionLost \/ Deadline \/ ControlLost \/ StepFailed
    BY <2>3 DEF GainFocus, LoseFocus, ConnectionLost, Deadline, ControlLost, StepFailed,
       Clear, viewVars
  <2>4. QED
    BY <2>1, <2>2, <2>3 DEF Next, Display, Events
<1>9. QED
  BY <1>1, <1>2, <1>3, <1>4, <1>5, <1>6, <1>7, <1>8

LEMMA OutboxStaysFresh ==
  ASSUME Types, Types', Fresh, Next
  PROVE  outbox' \in Seq(FreshControls(ticks', text'))
<1> DEFINE Good == FreshControls(ticks', text')
<1>0. outbox \in Seq(Good)
  BY Aged, TicksGoUp DEF FreshWith, Types
<1> SUFFICES outbox' \in Seq(Good)
  OBVIOUS
<1> HIDE DEF Good
<1>1. CASE outbox' = outbox \/ outbox' = <<>> \/ (outbox # <<>> /\ outbox' = Tail(outbox))
           \/ \E k \in DOMAIN outbox : outbox' = RemoveAt(outbox, k)
  <2>1. ASSUME NEW k \in DOMAIN outbox, outbox' = RemoveAt(outbox, k)
        PROVE  outbox' \in Seq(Good)
    BY <1>0, <2>1 DEF RemoveAt
  <2>2. CASE outbox # <<>> /\ outbox' = Tail(outbox)
    BY <1>0, <2>2
  <2>3. CASE outbox' = <<>>
    BY <2>3
  <2>4. CASE outbox' = outbox
    BY <1>0, <2>4
  <2>5. QED
    BY <1>1, <2>1, <2>2, <2>3, <2>4
<1>2. ASSUME NEW c, Submit(c), c \in Good \/ (c.kind \notin {"route", "word", "line"})
      PROVE  outbox' \in Seq(Good)
  <2>1. c \in Controls
    <3>1. outbox' \in Seq(Controls) /\ outbox' = Append(outbox, c)
      BY <1>2 DEF Submit, Types, LinkType
    <3>2. outbox'[Len(outbox) + 1] = c /\ Len(outbox) + 1 \in DOMAIN outbox'
      BY <1>0, <3>1
    <3>3. QED
      BY <3>1, <3>2
  <2>2. c \in Good
    BY <1>2, <2>1 DEF Good, FreshControls
  <2>3. QED
    BY <1>0, <1>2, <2>2 DEF Submit
<1>3. CASE GainFocus
  <2>1. outbox' = outbox \/ Submit([kind |-> "focus", period |-> period'])
    BY <1>3 DEF GainFocus
  <2>2. QED
    BY <1>1, <1>2, <2>1
<1>4. CASE Toggle
  <2>1. outbox' = outbox \/ Submit([kind |-> "end", id |-> view.id])
    BY <1>4 DEF Toggle, Leave, EndControl, Enter
  <2>2. QED
    BY <1>1, <1>2, <2>1
<1>5. CASE Pan
  <2>1. \/ outbox' = outbox \/ \E c : Submit(c) /\ c.kind \in {"step", "move"}
    BY <1>5 DEF Pan, PanExploring, PanCursor
  <2>2. QED
    BY <1>1, <1>2, <2>1
<1>6. ASSUME Route \/ (\E token \in timers : Expire(token)), NEW c, Submit(c), RouteReady,
             c.at = RouteTarget, c.text = RouteState.text,
             enabled => Reconcile(view, pending, known)
      PROVE  outbox' \in Seq(Good)
  <2>1. Of(c.at.buffer, c.at.line, c.at.tick, c.text, ticks, text)
    BY <1>6, FreshPress
  <2>2. UNCHANGED <<ticks, text>>
    BY <1>6 DEF Route, Expire, nvimVars
  <2>3. c \in Controls
    <3>1. outbox' \in Seq(Controls) /\ outbox' = Append(outbox, c)
      BY <1>6 DEF Submit, Types, LinkType
    <3>2. outbox'[Len(outbox) + 1] = c /\ Len(outbox) + 1 \in DOMAIN outbox'
      BY <1>0, <3>1
    <3>3. QED
      BY <3>1, <3>2
  <2>4. c \in Good
    BY <2>1, <2>2, <2>3 DEF Good, FreshControls
  <2>5. QED
    BY <1>2, <1>6, <2>4
<1>7. CASE Route
  <2>1. \/ outbox' = outbox
        \/ /\ RouteReady
           /\ \E kind \in {"route", "word", "line"}, burst \in {bursts, bursts + 1} :
                Submit(Routed(kind, burst, 0))
    BY <1>7 DEF Route, PlainPress, FirstPress, SecondPress, ThirdPress
  <2>2. ASSUME NEW kind, NEW burst, Submit(Routed(kind, burst, 0)), RouteReady
        PROVE  outbox' \in Seq(Good)
    <3>1. Routed(kind, burst, 0).at = RouteTarget /\ Routed(kind, burst, 0).text = RouteState.text
      BY DEF Routed
    <3>2. enabled => Reconcile(view, pending, known)
      BY <1>7 DEF Route
    <3>3. QED
      BY <1>6, <1>7, <2>2, <3>1, <3>2
  <2>3. QED
    BY <1>1, <2>1, <2>2
<1>8. ASSUME NEW token \in timers, Expire(token)
      PROVE  outbox' \in Seq(Good)
  <2> DEFINE c == [deferred EXCEPT !.at = RouteTarget, !.text = RouteState.text]
  <2>1. \/ outbox' = outbox
        \/ /\ deferred # None /\ RouteReady /\ Submit(c)
           /\ enabled => Reconcile(view, pending, known)
    BY <1>8 DEF Expire
  <2>2. deferred # None => c.at = RouteTarget /\ c.text = RouteState.text
    BY DEF Types, RepeatType, Presses
  <2> HIDE DEF c
  <2>3. QED
    BY <1>1, <1>6, <1>8, <2>1, <2>2
<1>9. CASE Editor
  BY <1>1, <1>9 DEF Editor, Change, Edit, Cut, Move, SwitchMode, SwitchBuffer, Control,
     AnswerFocus, TakeStep, TakeEnd, TakeMove, TakeRoute, TakeAction, RunKeys
<1>10. CASE LoseFocus \/ ConnectionLost \/ Reconnect \/ Deadline \/ ControlLost \/ StepFailed
            \/ Events
  BY <1>1, <1>10 DEF LoseFocus, ConnectionLost, Reconnect, Deadline, ControlLost, StepFailed,
     Events, TakeFocus, TakeState, TakeResult
<1>11. QED
  BY <1>3, <1>4, <1>5, <1>7, <1>8, <1>9, <1>10 DEF Good, Next, Display

LEMMA InboxStaysFresh ==
  ASSUME Types, Types', Fresh, Next
  PROVE  inbox' \in Seq(FreshMessages(ticks', text'))
<1> DEFINE Good == FreshMessages(ticks', text')
<1>0. inbox \in Seq(Good) /\ inbox' \in Seq(Messages)
  BY Aged, TicksGoUp DEF FreshWith, Types, LinkType
<1> SUFFICES inbox' \in Seq(Good)
  OBVIOUS
<1> HIDE DEF Good
<1>1. CASE inbox' = inbox \/ inbox' = <<>> \/ (inbox # <<>> /\ inbox' = Tail(inbox))
  BY <1>0, <1>1
<1>2. ASSUME NEW e, Tell(e), e.kind \in {"focus", "state", "result"},
             e.kind \in {"focus", "state"} => e.at \in FreshStates(ticks', text'),
             e.kind = "result" /\ e.ok => Of(e.at.buffer, e.line, e.at.tick, e.text, ticks', text')
      PROVE  inbox' \in Seq(Good)
  <2>1. e \in Messages
    <3>1. inbox' = Append(inbox, e)
      BY <1>2 DEF Tell
    <3>2. inbox'[Len(inbox) + 1] = e /\ Len(inbox) + 1 \in DOMAIN inbox'
      BY <1>0, <3>1
    <3>3. QED
      BY <1>0, <3>2
  <2>2. e \in Good
    BY <1>2, <2>1 DEF Good, FreshMessages
  <2>3. QED
    BY <1>0, <1>2, <2>2 DEF Tell
<1>3. Published(place', ticks', text', count') \in FreshStates(ticks', text')
  <2>1. Published(place', ticks', text', count') \in States
    BY PublishedType DEF Types
  <2>2. QED
    BY <2>1 DEF Published, FreshStates, Of, States
<1>4. CASE Publish(place', ticks', text', count')
  BY <1>1, <1>2, <1>3, <1>4 DEF Publish
<1>5. CASE Edit \/ Cut \/ Move \/ SwitchMode \/ SwitchBuffer \/ TakeMove \/ TakeRoute \/ RunKeys
  <2>1. inbox' = inbox \/ Publish(place', ticks', text', count')
    BY <1>5 DEF Edit, Cut, Move, SwitchMode, SwitchBuffer, TakeMove, TakeRoute, RunKeys
  <2>2. QED
    BY <1>1, <1>4, <2>1
<1>6. CASE AnswerFocus
  <2>1. Current = Published(place', ticks', text', count')
    BY <1>6 DEF AnswerFocus, Current
  <2>2. QED
    BY <1>2, <1>3, <1>6, <2>1 DEF AnswerFocus
<1>7. CASE TakeStep
  <2>1. PICK line, moved, step :
          Tell([kind |-> "result", step |-> step, ok |-> TRUE, moved |-> moved, line |-> line,
                text |-> text[place.buffer][line], at |-> Origin(Current)])
          \/ Tell([kind |-> "result", step |-> step, ok |-> FALSE, moved |-> FALSE, line |-> 0,
                   text |-> 0, at |-> Origin(Current)])
    BY <1>7 DEF TakeStep
  <2>2. Of(place.buffer, line, ticks[place.buffer], text[place.buffer][line], ticks', text')
    BY <1>7 DEF TakeStep, Of, Types, NvimType
  <2>3. Origin(Current).buffer = place.buffer /\ Origin(Current).tick = ticks[place.buffer]
    BY DEF Origin, Current, Published
  <2>4. QED
    BY <1>2, <2>1, <2>2, <2>3
<1>8. CASE GainFocus \/ LoseFocus \/ ConnectionLost \/ Reconnect \/ Display \/ ControlLost
           \/ StepFailed \/ TakeEnd \/ TakeAction \/ Events
  BY <1>1, <1>8 DEF GainFocus, LoseFocus, ConnectionLost, Reconnect, Display, Toggle, Pan,
     Route, Deadline, Expire, ControlLost, StepFailed, TakeEnd, TakeAction, Events, Event,
     TakeFocus, TakeState, TakeResult
<1>9. QED
  BY <1>5, <1>6, <1>7, <1>8 DEF Good, Next, Editor

LEMMA InitFresh == Init => Fresh
<1> SUFFICES ASSUME Init PROVE Fresh
  OBVIOUS
<1>1. known \in FreshStates(ticks, text)
  BY InitTypes, CurrentFresh DEF Init, Types
<1>2. QED
  BY <1>1 DEF Init, Fresh, FreshWith

LEMMA NextFresh == Types /\ Types' /\ Fresh /\ [Next]_vars => Fresh'
<1> SUFFICES ASSUME Types, Types', Fresh, [Next]_vars PROVE Fresh'
  OBVIOUS
<1>1. CASE Next
  BY <1>1, KnownStaysFresh, ViewStaysFresh, OutboxStaysFresh, InboxStaysFresh
     DEF Fresh, FreshWith
<1>2. CASE UNCHANGED vars
  BY <1>2 DEF vars, nvimVars, viewVars, Fresh, FreshWith
<1>3. QED
  BY <1>1, <1>2

(* The virtual line never carries a text older than its tick: a line that    *)
(* changed under the reader is not routed from with its old columns.         *)
THEOREM SnapshotStaysCurrent == Spec => []SnapshotIsCurrent
<1>1. Types /\ Fresh => SnapshotIsCurrent
  BY DEF Types, ViewType, ViewGood, Fresh, FreshWith, FreshViews, Of, SnapshotIsCurrent
<1>2. QED
  BY <1>1, InitTypes, NextTypes, InitFresh, NextFresh, PTL DEF Spec

(* The keys that wait were planned from a text that is the one of its tick.  *)
FreshKeys(tk, tt) ==
  {c \in Presses : c.kind # "route" /\ Of(c.at.buffer, c.at.line, c.at.tick, c.text, tk, tt)}

KeysFresh == typed \in Seq(FreshKeys(ticks, text))

LEMMA NextKeys == Types /\ Types' /\ Fresh /\ KeysFresh /\ [Next]_vars => KeysFresh'
<1> SUFFICES ASSUME Types, Types', Fresh, KeysFresh, [Next]_vars
             PROVE  typed' \in Seq(FreshKeys(ticks', text'))
  BY DEF KeysFresh
<1>1. FreshKeys(ticks, text) \subseteq FreshKeys(ticks', text')
  BY OfAged, TicksGoUp DEF FreshKeys, Presses, Position, Types
<1>2. typed \in Seq(FreshKeys(ticks', text'))
  BY <1>1 DEF KeysFresh
<1>3. CASE typed' = typed
  BY <1>2, <1>3
<1>4. CASE TakeAction
  <2>1. Head(outbox) \in FreshControls(ticks, text) /\ UNCHANGED <<ticks, text>>
    BY <1>4 DEF TakeAction, Control, Fresh, FreshWith
  <2>2. Head(outbox).kind \in {"word", "line"}
    BY <1>4 DEF TakeAction, Control
  <2>3. Head(outbox) \in FreshKeys(ticks', text')
    BY <2>1, <2>2 DEF FreshControls, FreshKeys, Controls, Step
  <2>4. QED
    BY <1>2, <1>4, <2>3 DEF TakeAction
<1>5. CASE RunKeys
  BY <1>2, <1>5 DEF RunKeys
<1>6. typed' = typed \/ TakeAction \/ RunKeys
  BY DEF vars, Next, GainFocus, LoseFocus, ConnectionLost, Reconnect, Display, Toggle, Pan,
     Route, Deadline, Expire, ControlLost, StepFailed, Editor, Change, Edit, Cut, Move,
     SwitchMode, SwitchBuffer, AnswerFocus, TakeStep, TakeEnd, TakeMove, TakeRoute, Events,
     TakeFocus, TakeState, TakeResult, nvimVars
<1>7. QED
  BY <1>3, <1>4, <1>5, <1>6

(* A route that Neovim carries out finds the very text it was planned from,  *)
(* whatever was edited while it was on its way; the keys of an action are    *)
(* fed only where that text is under the cursor, and change it unless        *)
(* something Neovim did before it read them has moved their place.           *)
THEOREM RoutesHitTheirText == Spec => PlannedTextIsHit
<1> DEFINE Fed == Len(typed') > Len(typed) => Last(typed').text = text[place.buffer][place.line]
           Hit == done' # done
                    /\ (done'.kind # "route" => Valid(done'.at) /\ done'.at.line = place.line)
                    => done'.text = text[place.buffer][done'.at.line]
                       /\ place'.line = done'.at.line
<1>1. ASSUME Types, Fresh, KeysFresh, Next
      PROVE  Fed
  <2>1. CASE TakeAction /\ typed' # typed
    <3>1. /\ typed' = Append(typed, Head(outbox)) /\ outbox # <<>>
          /\ Head(outbox).kind \in {"word", "line"}
          /\ Valid(Head(outbox).at) /\ Head(outbox).at.line = place.line
      BY <2>1 DEF TakeAction, Control
    <3>2. Head(outbox).text = text[place.buffer][place.line]
      BY <1>1, <3>1 DEF Fresh, FreshWith, FreshControls, Of, Valid
    <3>3. Last(typed') = Head(outbox)
      BY <1>1, <3>1 DEF KeysFresh, Last
    <3>4. QED
      BY <3>2, <3>3
  <2>2. CASE RunKeys
    BY <1>1, <2>2 DEF RunKeys, KeysFresh
  <2>3. CASE typed' = typed
    BY <1>1, <2>3 DEF KeysFresh
  <2>4. typed' = typed \/ TakeAction \/ RunKeys
    BY <1>1 DEF Next, GainFocus, LoseFocus, ConnectionLost, Reconnect, Display, Toggle, Pan,
       Route, Deadline, Expire, ControlLost, StepFailed, Editor, Change, Edit, Cut, Move,
       SwitchMode, SwitchBuffer, AnswerFocus, TakeStep, TakeEnd, TakeMove, TakeRoute, Events,
       TakeFocus, TakeState, TakeResult, nvimVars
  <2>5. QED
    BY <2>1, <2>2, <2>3, <2>4
<1>2. ASSUME Types, Fresh, KeysFresh, Next, done' # done,
             done'.kind # "route" => Valid(done'.at) /\ done'.at.line = place.line
      PROVE  done'.text = text[place.buffer][done'.at.line] /\ place'.line = done'.at.line
  <2>1. CASE TakeRoute
    <3>1. done' = Head(outbox) /\ outbox # <<>> /\ done'.kind = "route" /\ Valid(done'.at)
      BY <1>2, <2>1 DEF TakeRoute, Control
    <3>2. done'.text = text[place.buffer][done'.at.line]
      BY <1>2, <3>1 DEF Fresh, FreshWith, FreshControls, Of, Valid
    <3>3. place'.line = done'.at.line
      BY <1>2, <2>1 DEF TakeRoute, Types, NvimType
    <3>4. QED
      BY <3>2, <3>3
  <2>2. CASE RunKeys
    <3>1. done' = Head(typed) /\ done' \in FreshKeys(ticks, text)
      BY <1>2, <2>2 DEF RunKeys, KeysFresh
    <3>2. Valid(done'.at) /\ done'.at.line = place.line
      BY <1>2, <3>1 DEF FreshKeys
    <3>3. place'.line = place.line
      BY <1>2, <2>2 DEF RunKeys, Types, NvimType
    <3>4. QED
      BY <3>1, <3>2, <3>3 DEF FreshKeys, Of, Valid
  <2>3. TakeRoute \/ RunKeys
    BY <1>2 DEF Next, GainFocus, LoseFocus, ConnectionLost, Reconnect, Display, Toggle, Pan,
       Route, Deadline, Expire, ControlLost, StepFailed, Editor, Change, Edit, Cut, Move,
       SwitchMode, SwitchBuffer, AnswerFocus, TakeStep, TakeEnd, TakeMove, TakeAction, Events,
       TakeFocus, TakeState, TakeResult
  <2>4. QED
    BY <2>1, <2>2, <2>3
<1>3. Types /\ Fresh /\ KeysFresh /\ [Next]_vars => [Fed /\ Hit]_vars
  BY <1>1, <1>2
<1>4. Init => KeysFresh
  BY DEF Init, KeysFresh
<1>5. QED
  BY <1>3, <1>4, InitTypes, NextTypes, InitFresh, NextFresh, NextKeys, PTL
     DEF Spec, PlannedTextIsHit

-----------------------------------------------------------------------------
(* One burst of presses: while its keys or its delayed action are waiting    *)
(* it has had no action, and both belong to the present focus.               *)

BurstFree ==
  /\ \A b \in acted : b <= bursts
  /\ repeat # None => bursts \notin acted
  /\ deferred # None => /\ bursts \notin acted /\ deferred.burst = bursts
                        /\ here /\ deferred.period = period

(* What a step may send.                                                     *)
ActionStep ==
  \A k \in DOMAIN outbox' \ DOMAIN outbox :
    outbox'[k].kind \in {"word", "line"}
      => outbox'[k].burst \notin acted /\ here /\ outbox'[k].period = period

LEMMA PressesBurst ==
  ASSUME Types, BurstFree, PlainPress \/ FirstPress \/ SecondPress \/ ThirdPress,
         here, UNCHANGED <<here, period>>
  PROVE  BurstFree'
<1>0. bursts \in Nat /\ \A b \in acted : b \in Nat /\ b <= bursts
  BY DEF Types, RepeatType, BurstFree
<1>1. CASE PlainPress
  BY <1>0, <1>1 DEF PlainPress, BurstFree
<1>2. CASE FirstPress
  BY <1>0, <1>2 DEF FirstPress, BurstFree
<1>3. CASE SecondPress
  <2>1. CASE "line" \in actions
    <3>1. /\ repeat' = Burst(2, tokens') /\ UNCHANGED <<acted, bursts>>
          /\ deferred' \in {None, Routed("word", bursts, tokens')}
      BY <1>3, <2>1 DEF SecondPress
    <3>2. bursts \notin acted
      BY <1>3 DEF SecondPress, Same, BurstFree
    <3>3. deferred' # None => deferred'.burst = bursts /\ deferred'.period = period
      BY <3>1 DEF Routed
    <3>4. QED
      BY <1>0, <3>1, <3>2, <3>3 DEF BurstFree
  <2>2. CASE "line" \notin actions
    BY <1>0, <1>3, <2>2 DEF SecondPress, BurstFree
  <2>3. QED
    BY <2>1, <2>2
<1>4. CASE ThirdPress
  BY <1>0, <1>4 DEF ThirdPress, BurstFree
<1>5. QED
  BY <1>1, <1>2, <1>3, <1>4

LEMMA NextBurst ==
  ASSUME Types, BurstFree, [Next]_vars
  PROVE  BurstFree'
<1>1. CASE UNCHANGED <<repeat, deferred, bursts, acted, here, period>>
  BY <1>1 DEF BurstFree
<1>2. CASE GainFocus \/ LoseFocus
  BY <1>2 DEF GainFocus, LoseFocus, ForgetPresses, repeatVars, BurstFree
<1>3. CASE Route
  <2>1. here /\ UNCHANGED <<here, period>>
    BY <1>3 DEF Route, focusVars, Confirmed
  <2>2. \/ UNCHANGED <<repeat, deferred, bursts, acted>>
        \/ PlainPress \/ FirstPress \/ SecondPress \/ ThirdPress
    BY <1>3 DEF Route
  <2>3. QED
    BY <1>1, <2>1, <2>2, PressesBurst
<1>4. CASE Deadline
  BY <1>4 DEF Deadline, focusVars, BurstFree, Types, RepeatType
<1>5. ASSUME NEW token \in timers, Expire(token)
      PROVE  BurstFree'
  BY <1>5 DEF Expire, Due, focusVars, BurstFree, Types, RepeatType
<1>6. QED
  BY <1>1, <1>2, <1>3, <1>4, <1>5 DEF Next, vars, ConnectionLost, Reconnect, Display, Toggle,
     Pan, ControlLost, StepFailed, Editor, Change, Edit, Cut, Move, SwitchMode, SwitchBuffer,
     AnswerFocus, TakeStep, TakeEnd, TakeMove, TakeRoute, TakeAction, RunKeys, Answered, Events,
     TakeFocus, TakeState, TakeResult, focusVars, repeatVars

LEMMA SentControl ==
  ASSUME Types, NEW c, Submit(c),
         c.kind \in {"word", "line"} => c.burst \notin acted /\ here /\ c.period = period
  PROVE  ActionStep
<1>1. \A k \in DOMAIN outbox' \ DOMAIN outbox : outbox'[k] = c
  BY DEF Submit, Types, LinkType
<1>2. QED
  BY <1>1 DEF ActionStep

LEMMA NothingSent ==
  ASSUME Types,
         \/ outbox' = outbox \/ outbox' = <<>> \/ (outbox # <<>> /\ outbox' = Tail(outbox))
         \/ \E k \in DOMAIN outbox : outbox' = RemoveAt(outbox, k)
  PROVE  ActionStep
<1>1. DOMAIN outbox' \subseteq DOMAIN outbox
  <2>1. ASSUME NEW k \in DOMAIN outbox, outbox' = RemoveAt(outbox, k)
        PROVE  DOMAIN outbox' \subseteq DOMAIN outbox
    BY <2>1 DEF RemoveAt, Types, LinkType
  <2>2. CASE outbox # <<>> /\ outbox' = Tail(outbox)
    BY <2>2 DEF Types, LinkType
  <2>3. CASE outbox' = <<>>
    BY <2>3
  <2>4. QED
    BY <2>1, <2>2, <2>3
<1>2. QED
  BY <1>1 DEF ActionStep

LEMMA PressSends ==
  ASSUME Types, BurstFree, Route
  PROVE  ActionStep
<1>1. here /\ (repeat # None => bursts \notin acted)
  BY DEF Route, Confirmed, BurstFree
<1>2. \/ outbox' = outbox
      \/ \E burst : Submit(Routed("route", burst, 0))
      \/ repeat # None /\ \E kind : Submit(Routed(kind, bursts, 0))
  BY DEF Route, PlainPress, FirstPress, SecondPress, ThirdPress, Same
<1>3. ASSUME NEW burst, Submit(Routed("route", burst, 0))
      PROVE  ActionStep
  <2>1. Routed("route", burst, 0).kind = "route"
    BY DEF Routed
  <2>2. QED
    BY <1>3, <2>1, SentControl
<1>4. ASSUME repeat # None, NEW kind, Submit(Routed(kind, bursts, 0))
      PROVE  ActionStep
  <2>1. Routed(kind, bursts, 0).burst = bursts /\ Routed(kind, bursts, 0).period = period
    BY DEF Routed
  <2>2. QED
    BY <1>1, <1>4, <2>1, SentControl
<1>5. QED
  BY <1>2, <1>3, <1>4, NothingSent

LEMMA ExpirySends ==
  ASSUME Types, BurstFree, NEW token, Expire(token)
  PROVE  ActionStep
<1> DEFINE c == [deferred EXCEPT !.at = RouteTarget, !.text = RouteState.text]
<1>1. outbox' = outbox \/ (Due(token) /\ deferred # None /\ Submit(c))
  BY DEF Expire
<1>2. deferred # None => c.burst = deferred.burst /\ c.period = deferred.period
  BY DEF Types, RepeatType, Presses
<1> HIDE DEF c
<1>3. Due(token) /\ deferred # None => c.burst \notin acted /\ here /\ c.period = period
  BY <1>2 DEF BurstFree
<1>4. QED
  BY <1>1, <1>3, SentControl, NothingSent

LEMMA NextSends ==
  ASSUME Types, BurstFree, Next
  PROVE  ActionStep
<1>1. CASE GainFocus
  <2>1. outbox' = outbox \/ Submit([kind |-> "focus", period |-> period'])
    BY <1>1 DEF GainFocus
  <2>2. QED
    BY <2>1, SentControl, NothingSent
<1>2. CASE Toggle
  <2>1. outbox' = outbox \/ Submit([kind |-> "end", id |-> view.id])
    BY <1>2 DEF Toggle, Leave, EndControl, Enter
  <2>2. QED
    BY <2>1, SentControl, NothingSent
<1>3. CASE Pan
  <2>1. outbox' = outbox \/ \E c : Submit(c) /\ c.kind \in {"step", "move"}
    BY <1>3 DEF Pan, PanExploring, PanCursor
  <2>2. QED
    BY <2>1, SentControl, NothingSent
<1>4. CASE Editor
  BY <1>4, NothingSent DEF Editor, Change, Edit, Cut, Move, SwitchMode, SwitchBuffer, Control,
     AnswerFocus, TakeStep, TakeEnd, TakeMove, TakeRoute, TakeAction, RunKeys
<1>5. CASE LoseFocus \/ ConnectionLost \/ Reconnect \/ Deadline \/ ControlLost \/ StepFailed
           \/ Events
  BY <1>5, NothingSent DEF LoseFocus, ConnectionLost, Reconnect, Deadline, ControlLost,
     StepFailed, Events, TakeFocus, TakeState, TakeResult
<1>6. QED
  BY <1>1, <1>2, <1>3, <1>4, <1>5, PressSends, ExpirySends DEF Next, Display

LEMMA InitBurst == Init => BurstFree
  BY DEF Init, BurstFree

(* A third press replaces the delayed word action; a late timer finds nothing*)
(* to send: the presses of one burst have one editing action at most.        *)
THEOREM BurstActsOnce == Spec => OneActionPerBurst
<1>1. Types /\ BurstFree /\ [Next]_vars
        => [\A k \in DOMAIN outbox' \ DOMAIN outbox :
              outbox'[k].kind \in {"word", "line"} => outbox'[k].burst \notin acted]_vars
  BY NextSends DEF ActionStep
<1>2. QED
  BY <1>1, InitTypes, NextTypes, InitBurst, NextBurst, PTL DEF Spec, OneActionPerBurst

(* No delayed press follows the reader into another window.                  *)
THEOREM ActionsStayInTheirFocus == Spec => NoActionAfterLeaving
<1>1. Types /\ BurstFree /\ [Next]_vars
        => [\A k \in DOMAIN outbox' \ DOMAIN outbox :
              outbox'[k].kind \in {"word", "line"} => here /\ outbox'[k].period = period]_vars
  BY NextSends DEF ActionStep
<1>2. QED
  BY <1>1, InitTypes, NextTypes, InitBurst, NextBurst, PTL DEF Spec, NoActionAfterLeaving
-----------------------------------------------------------------------------
(* The chain of steps: Neovim's virtual line, the steps on their way and the *)
(* view follow one another, so that what is planned is what will be answered.*)

(* Of one exploration, the later comes with a higher number, and the very    *)
(* next one starts at the line the earlier ends at.                          *)
Before(i, n, at, j, m, source) == i = j => n < m /\ (m = n + 1 => source = at)

StepBefore(s, t) == Before(s.id, s.index, s.target, t.id, t.index, t.source)

LinkedStep(s, f, n) ==
  /\ s.id <= n /\ 1 <= s.index /\ s.target = s.source + s.delta - 1
  /\ s.index = 1 => s.source = s.origin.line
  /\ f # None => Before(f.id, f.index, f.line, s.id, s.index, s.source)

(* The virtual line f and the queue q, of explorations numbered up to n.     *)
Links(q, f, n) ==
  /\ f # None => f.id <= n
  /\ \A k \in DOMAIN q : q[k].kind = "step" => LinkedStep(q[k], f, n)
  /\ \A j, k \in DOMAIN q : j < k /\ q[j].kind = "step" /\ q[k].kind = "step"
                              => StepBefore(q[j], q[k])

(* The view v comes after them: its next step will be the last of the chain. *)
Ahead(q, f, v, n) ==
  /\ v.id <= n /\ (v.index = 0 => v.planned = v.origin)
  /\ f # None => Before(f.id, f.index, f.line, v.id, v.index + 1, v.planned)
  /\ \A k \in DOMAIN q : q[k].kind = "step" =>
       Before(q[k].id, q[k].index, q[k].target, v.id, v.index + 1, v.planned)

Chained(q, f, v, n) == Links(q, f, n) /\ (v # None => Ahead(q, f, v, n))

Virtual == [id : Nat, index : Nat, line : 1..Lines]

LEMMA StepOfQueue ==
  ASSUME NEW q \in Seq(Controls), NEW k \in DOMAIN q, q[k].kind = "step"
  PROVE  q[k] \in Step /\ q[k].id \in Nat /\ q[k].index \in Nat
<1>1. q[k] \in Controls
  OBVIOUS
<1>2. q[k] \in Step
  BY <1>1 DEF Controls, Presses
<1>3. QED
  BY <1>2 DEF Step

(* A view that stays in its exploration or starts a new one.                 *)
Continues(v, n, w, m) ==
  \/ v # None /\ m = n /\ w.id = v.id /\ w.index = v.index
     /\ w.planned = v.planned /\ w.origin = v.origin
  \/ m = n + 1 /\ w.id = m /\ w.index = 0 /\ w.planned = w.origin

LEMMA MoreExplorations ==
  ASSUME NEW q \in Seq(Controls), NEW f \in Virtual \cup {None}, NEW n \in Nat, NEW m \in Nat,
         Links(q, f, n), n <= m
  PROVE  Links(q, f, m)
<1>1. ASSUME NEW k \in DOMAIN q, q[k].kind = "step"
      PROVE  LinkedStep(q[k], f, m)
  BY <1>1, StepOfQueue DEF Links, LinkedStep
<1>2. f # None => f.id <= m
  BY DEF Links, Virtual
<1>3. QED
  BY <1>1, <1>2 DEF Links

LEMMA ViewContinues ==
  ASSUME NEW q \in Seq(Controls), NEW f \in Virtual \cup {None}, NEW v \in View \cup {None},
         NEW n \in Nat, NEW w \in View, NEW m \in Nat, Chained(q, f, v, n), Continues(v, n, w, m)
  PROVE  Links(q, f, m) /\ Ahead(q, f, w, m)
<1>1. n <= m /\ Links(q, f, m)
  BY MoreExplorations DEF Chained, Continues
<1>2. CASE v # None /\ m = n /\ w.id = v.id /\ w.index = v.index
           /\ w.planned = v.planned /\ w.origin = v.origin
  BY <1>1, <1>2 DEF Chained, Ahead
<1>3. CASE m = n + 1 /\ w.id = m /\ w.index = 0 /\ w.planned = w.origin
  <2>1. f # None => f.id # w.id
    BY <1>3 DEF Chained, Links, Virtual
  <2>2. ASSUME NEW k \in DOMAIN q, q[k].kind = "step"
        PROVE  q[k].id # w.id
    BY <1>3, <2>2, StepOfQueue DEF Chained, Links, LinkedStep
  <2>3. w.id <= m
    BY <1>3
  <2>4. QED
    BY <1>1, <1>3, <2>1, <2>2, <2>3 DEF Ahead, Before
<1>4. QED
  BY <1>1, <1>2, <1>3 DEF Continues

LEMMA VirtualDropped ==
  ASSUME NEW q, NEW f, NEW v, NEW n, Chained(q, f, v, n)
  PROVE  Chained(q, None, v, n)
  BY DEF Chained, Links, Ahead, LinkedStep

(* A shorter queue.                                                          *)
Thinned(p, q) ==
  /\ \A k \in DOMAIN p : \E i \in DOMAIN q : p[k] = q[i]
  /\ \A j, k \in DOMAIN p : j < k => \E h, i \in DOMAIN q : h < i /\ p[j] = q[h] /\ p[k] = q[i]

LEMMA ThinnedChain ==
  ASSUME NEW q, NEW p, NEW f, NEW v, NEW n, Chained(q, f, v, n), Thinned(p, q)
  PROVE  Chained(p, f, v, n)
<1>1. ASSUME NEW k \in DOMAIN p, p[k].kind = "step"
      PROVE  LinkedStep(p[k], f, n)
  BY <1>1 DEF Thinned, Chained, Links
<1>2. ASSUME NEW j \in DOMAIN p, NEW k \in DOMAIN p, j < k, p[j].kind = "step", p[k].kind = "step"
      PROVE  StepBefore(p[j], p[k])
  BY <1>2 DEF Thinned, Chained, Links
<1>3. v # None => Ahead(p, f, v, n)
  BY DEF Thinned, Chained, Ahead
<1>4. QED
  BY <1>1, <1>2, <1>3 DEF Chained, Links

LEMMA QueueThinned ==
  ASSUME NEW q \in Seq(Controls), NEW p,
         \/ p = q \/ p = <<>> \/ (q # <<>> /\ p = Tail(q))
         \/ \E k \in DOMAIN q : p = RemoveAt(q, k)
  PROVE  Thinned(p, q)
<1>1. CASE p = q
  BY <1>1 DEF Thinned
<1>2. CASE p = <<>>
  BY <1>2 DEF Thinned
<1>3. CASE q # <<>> /\ p = Tail(q)
  <2>1. DOMAIN p = 1..Len(q) - 1 /\ \A k \in DOMAIN p : p[k] = q[k + 1]
    BY <1>3
  <2>2. \A k \in DOMAIN p : k + 1 \in DOMAIN q
    BY <2>1
  <2>3. \A j, k \in DOMAIN p : j < k => j + 1 < k + 1
    BY <2>1
  <2>4. QED
    BY <2>1, <2>2, <2>3 DEF Thinned
<1>4. ASSUME NEW c \in DOMAIN q, p = RemoveAt(q, c)
      PROVE  Thinned(p, q)
  <2> DEFINE Old(k) == IF k < c THEN k ELSE k + 1
  <2>1. c \in 1..Len(q) /\ Len(q) \in Nat
    OBVIOUS
  <2>2. p = SubSeq(q, 1, c - 1) \o SubSeq(q, c + 1, Len(q))
    BY <1>4 DEF RemoveAt
  <2> DEFINE low == SubSeq(q, 1, c - 1)
             high == SubSeq(q, c + 1, Len(q))
  <2>3. /\ low \in Seq(Controls) /\ Len(low) = c - 1 /\ \A k \in 1..c - 1 : low[k] = q[k]
        /\ high \in Seq(Controls) /\ Len(high) = Len(q) - c
        /\ \A k \in 1..Len(q) - c : high[k] = q[c + k]
    BY <2>1
  <2>4. p = low \o high
    BY <2>2
  <2> HIDE DEF low, high
  <2>5. /\ Len(p) = Len(q) - 1 /\ DOMAIN p = 1..Len(q) - 1
        /\ \A k \in 1..c - 1 : p[k] = q[k]
        /\ \A k \in c..Len(q) - 1 : p[k] = high[k - (c - 1)]
    <3>1. /\ p \in Seq(Controls) /\ Len(p) = Len(low) + Len(high)
          /\ \A k \in 1..Len(low) + Len(high) :
               p[k] = IF k <= Len(low) THEN low[k] ELSE high[k - Len(low)]
      BY <2>3, <2>4, ConcatProperties
    <3>2. Len(p) = Len(q) - 1
      BY <2>1, <2>3, <3>1
    <3>3. \A k \in 1..Len(q) - 1 : p[k] = IF k <= c - 1 THEN low[k] ELSE high[k - (c - 1)]
      BY <2>3, <3>1, <3>2
    <3>4. \A k \in 1..c - 1 : k \in 1..Len(q) - 1 /\ k <= c - 1
      BY <2>1
    <3>5. \A k \in c..Len(q) - 1 : k \in 1..Len(q) - 1 /\ ~(k <= c - 1)
      BY <2>1
    <3>6. QED
      BY <2>3, <3>1, <3>2, <3>3, <3>4, <3>5
  <2>6. ASSUME NEW k \in c..Len(q) - 1
        PROVE  p[k] = q[k + 1]
    <3>1. k - (c - 1) \in 1..Len(q) - c /\ c + (k - (c - 1)) = k + 1
      BY <2>1
    <3>2. high[k - (c - 1)] = q[c + (k - (c - 1))]
      BY <2>3, <3>1
    <3>3. QED
      BY <2>5, <3>1, <3>2
  <2>7. DOMAIN p = 1..Len(q) - 1 /\ \A k \in DOMAIN p : p[k] = q[Old(k)]
    <3>1. \A k \in 1..Len(q) - 1 : k < c => k \in 1..c - 1 /\ p[k] = q[k]
      BY <2>1, <2>5
    <3>2. \A k \in 1..Len(q) - 1 : ~(k < c) => k \in c..Len(q) - 1
      BY <2>1
    <3>3. \A k \in 1..Len(q) - 1 : ~(k < c) => p[k] = q[k + 1]
      BY <2>6, <3>2
    <3>4. QED
      BY <2>5, <3>1, <3>3
  <2>8. \A k \in DOMAIN p : Old(k) \in DOMAIN q
    BY <2>1, <2>7
  <2>9. \A j, k \in DOMAIN p : j < k => Old(j) < Old(k)
    BY <2>1, <2>7
  <2> HIDE DEF Old
  <2>10. QED
    BY <2>7, <2>8, <2>9 DEF Thinned
<1>5. QED
  BY <1>1, <1>2, <1>3, <1>4

LEMMA OtherSent ==
  ASSUME NEW q \in Seq(Controls), NEW c, c.kind # "step", NEW f, NEW v, NEW n,
         Chained(q, f, v, n)
  PROVE  Chained(Append(q, c), f, v, n)
<1> DEFINE p == Append(q, c)
<1>1. /\ DOMAIN p = DOMAIN q \cup {Len(q) + 1}
      /\ p[Len(q) + 1] = c /\ \A k \in DOMAIN q : p[k] = q[k]
  OBVIOUS
<1> HIDE DEF p
<1>2. \A k \in DOMAIN p : p[k].kind = "step" => k \in DOMAIN q
  BY <1>1
<1>3. QED
  BY <1>1, <1>2 DEF Chained, Links, Ahead, p

(* Neovim takes the first step: the others come after it.                    *)
LEMMA HeadTaken ==
  ASSUME NEW q \in Seq(Controls), q # <<>>, NEW f, NEW v \in View \cup {None}, NEW n,
         Chained(q, f, v, n), Head(q).kind = "step"
  PROVE  LET s == Head(q) IN
         Chained(Tail(q), [id |-> s.id, index |-> s.index, line |-> s.target], v, n)
<1> DEFINE s == Head(q)
           g == [id |-> s.id, index |-> s.index, line |-> s.target]
           p == Tail(q)
<1>1. 1 \in DOMAIN q /\ s = q[1]
  OBVIOUS
<1>2. /\ \A k \in DOMAIN p : k + 1 \in DOMAIN q /\ p[k] = q[k + 1] /\ 1 < k + 1
  OBVIOUS
<1>3. LinkedStep(s, f, n)
  BY <1>1 DEF Chained, Links
<1>4. v # None => Before(s.id, s.index, s.target, v.id, v.index + 1, v.planned)
  BY <1>1 DEF Chained, Ahead
<1>5. Chained(p, f, v, n)
  BY QueueThinned, ThinnedChain
<1>6. ASSUME NEW k \in DOMAIN p, p[k].kind = "step"
      PROVE  LinkedStep(p[k], g, n)
  <2>1. LinkedStep(p[k], f, n)
    BY <1>5, <1>6 DEF Chained, Links
  <2>2. StepBefore(s, p[k])
    BY <1>1, <1>2, <1>6 DEF Chained, Links
  <2> HIDE DEF s, p
  <2>3. QED
    BY <2>1, <2>2 DEF LinkedStep, StepBefore
<1> HIDE DEF s, p
<1>7. Links(p, g, n)
  BY <1>3, <1>5, <1>6 DEF Chained, Links, LinkedStep
<1>8. v # None => Ahead(p, g, v, n)
  BY <1>4, <1>5 DEF Chained, Ahead
<1> HIDE DEF g
<1>9. QED
  BY <1>7, <1>8 DEF s, p, g, Chained

(* NVDA sends the next step of its view.                                     *)
LEMMA StepSent ==
  ASSUME NEW q \in Seq(Controls), NEW f \in Virtual \cup {None}, NEW v \in View,
         NEW n \in Nat, Links(q, f, n), Ahead(q, f, v, n), NEW s \in Step,
         s.id = v.id, s.index = v.index + 1, s.source = v.planned, s.origin.line = v.origin,
         s.target = s.source + s.delta - 1
  PROVE  LET w == [v EXCEPT !.index = @ + 1, !.planned = s.target] IN
         Links(Append(q, s), f, n) /\ Ahead(Append(q, s), f, w, n)
<1> DEFINE p == Append(q, s)
           w == [v EXCEPT !.index = @ + 1, !.planned = s.target]
<1>1. /\ DOMAIN p = DOMAIN q \cup {Len(q) + 1} /\ Len(q) + 1 \notin DOMAIN q
      /\ p[Len(q) + 1] = s /\ \A k \in DOMAIN q : p[k] = q[k] /\ k < Len(q) + 1
  OBVIOUS
<1>2. /\ w.id = v.id /\ w.index = v.index + 1 /\ w.planned = s.target /\ w.origin = v.origin
      /\ v.index \in Nat /\ v.id \in Nat
  BY DEF View
<1> HIDE DEF w, p
<1>3. LinkedStep(s, f, n)
  BY <1>2 DEF Ahead, LinkedStep, Before
<1>4. ASSUME NEW k \in DOMAIN q, q[k].kind = "step"
      PROVE  /\ StepBefore(q[k], s)
             /\ Before(q[k].id, q[k].index, q[k].target, w.id, w.index + 1, w.planned)
  <2>1. q[k].index \in Nat
    BY <1>4, StepOfQueue
  <2>2. Before(q[k].id, q[k].index, q[k].target, v.id, v.index + 1, v.planned)
    BY <1>4 DEF Ahead
  <2>3. QED
    BY <1>2, <2>1, <2>2 DEF StepBefore, Before
<1>5. Links(p, f, n)
  <2>1. ASSUME NEW j \in DOMAIN p, NEW k \in DOMAIN p, j < k, p[j].kind = "step",
               p[k].kind = "step"
        PROVE  StepBefore(p[j], p[k])
    <3>1. j \in DOMAIN q
      BY <1>1, <2>1
    <3>2. CASE k \in DOMAIN q
      BY <1>1, <2>1, <3>1, <3>2 DEF Links
    <3>3. CASE k = Len(q) + 1
      BY <1>1, <1>4, <2>1, <3>1, <3>3
    <3>4. QED
      BY <1>1, <3>2, <3>3
  <2>2. ASSUME NEW k \in DOMAIN p, p[k].kind = "step"
        PROVE  LinkedStep(p[k], f, n)
    BY <1>1, <1>3, <2>2 DEF Links
  <2>3. QED
    BY <2>1, <2>2 DEF Links
<1>6. Ahead(p, f, w, n)
  <2>1. w.id <= n /\ (w.index = 0 => w.planned = w.origin)
    BY <1>2 DEF Ahead
  <2>2. f # None => Before(f.id, f.index, f.line, w.id, w.index + 1, w.planned)
    BY <1>2 DEF Ahead, Before, Virtual
  <2>3. Before(s.id, s.index, s.target, w.id, w.index + 1, w.planned)
    BY <1>2 DEF Before
  <2>4. QED
    BY <1>1, <1>4, <2>1, <2>2, <2>3 DEF Ahead
<1>7. QED
  BY <1>5, <1>6 DEF w, p

-----------------------------------------------------------------------------
(* What is known of the size of a buffer at the buffer's tick is its size;   *)
(* a step planned at that tick ends inside the buffer; an answered step has  *)
(* moved to the line it was planned for.                                     *)

SizedStates(tk, ct) ==
  {s \in States : s.tick <= tk[s.buffer] /\ (s.tick = tk[s.buffer] => s.count = ct[s.buffer])}
SizedControls(tk, ct) ==
  {c \in Controls : c.kind = "step" =>
     /\ c.origin.tick <= tk[c.origin.buffer]
     /\ c.origin.tick = tk[c.origin.buffer] => c.target <= ct[c.origin.buffer]}
RightMessages(tk, ct) ==
  {e \in Messages : /\ e.kind \in {"focus", "state"} => e.at \in SizedStates(tk, ct)
                    /\ e.kind = "result" /\ e.ok => e.moved /\ e.line = e.step.target}

SizedWith(tk, ct) ==
  /\ known \in SizedStates(tk, ct)
  /\ outbox \in Seq(SizedControls(tk, ct)) /\ inbox \in Seq(RightMessages(tk, ct))

Sized == SizedWith(ticks, count)
Chain == Chained(outbox, far, view, views)

(* Only a cut changes a number of lines, and it is a new tick.               *)
Bounded == \A b \in Buffers : /\ ticks[b] <= ticks'[b]
                              /\ ticks'[b] = ticks[b] => count'[b] = count[b]

LEMMA SizesAreTicked ==
  ASSUME Types, [Next]_vars
  PROVE  Bounded
<1>1. CASE count' = count
  BY <1>1, TicksGoUp DEF Monotone, Bounded
<1>2. CASE Cut
  <2>1. /\ count' = [count EXCEPT ![place.buffer] = place.line]
        /\ ticks' = [ticks EXCEPT ![place.buffer] = @ + 1]
    BY <1>2 DEF Cut
  <2>2. ticks \in [Buffers -> Nat] /\ count \in [Buffers -> 1..Lines]
    BY DEF Types, NvimType
  <2>3. \A b \in Buffers : IF b = place.buffer THEN ticks'[b] = ticks[b] + 1
                           ELSE ticks'[b] = ticks[b] /\ count'[b] = count[b]
    BY <2>1, <2>2
  <2>4. QED
    BY <2>2, <2>3 DEF Bounded
<1>3. count' = count \/ Cut
  BY DEF vars, Next, GainFocus, LoseFocus, ConnectionLost, Reconnect, Display, Toggle, Pan,
     Route, Deadline, Expire, ControlLost, StepFailed, Editor, Edit, Move, SwitchMode,
     SwitchBuffer, AnswerFocus, TakeStep, TakeEnd, TakeMove, TakeRoute, TakeAction, RunKeys, Events,
     TakeFocus, TakeState, TakeResult, nvimVars
<1>4. QED
  BY <1>1, <1>2, <1>3

LEMMA SizedAged ==
  ASSUME Types, NvimType', Bounded, Sized
  PROVE  SizedWith(ticks', count')
<1>1. \A b \in Buffers, tick \in Nat :
        tick <= ticks[b] => /\ tick <= ticks'[b]
                            /\ tick = ticks'[b] => tick = ticks[b] /\ count'[b] = count[b]
  <2>1. \A b \in Buffers : ticks[b] \in Nat /\ ticks'[b] \in Nat
    BY DEF Types, NvimType
  <2>2. QED
    BY <2>1 DEF Bounded
<1>2. SizedStates(ticks, count) \subseteq SizedStates(ticks', count')
  BY <1>1 DEF SizedStates, States
<1>3. SizedControls(ticks, count) \subseteq SizedControls(ticks', count')
  <2> SUFFICES ASSUME NEW c \in SizedControls(ticks, count), c.kind = "step"
               PROVE  /\ c.origin.tick <= ticks'[c.origin.buffer]
                      /\ c.origin.tick = ticks'[c.origin.buffer]
                           => c.target <= count'[c.origin.buffer]
    BY DEF SizedControls
  <2>1. c \in Step /\ c.origin \in Position
    <3>1. c \in Step
      BY DEF SizedControls, Controls, Presses
    <3>2. QED
      BY <3>1 DEF Step
  <2>2. c.origin.buffer \in Buffers /\ c.origin.tick \in Nat
    BY <2>1 DEF Position
  <2>3. QED
    BY <1>1, <2>2 DEF SizedControls
<1>4. RightMessages(ticks, count) \subseteq RightMessages(ticks', count')
  BY <1>2 DEF RightMessages
<1>5. QED
  BY <1>2, <1>3, <1>4 DEF Sized, SizedWith

LEMMA CurrentSized == NvimType => Current \in SizedStates(ticks, count)
<1> SUFFICES ASSUME NvimType PROVE Current \in SizedStates(ticks, count)
  OBVIOUS
<1>1. Current \in States /\ Current.tick \in Nat
  BY CurrentType DEF States
<1>2. QED
  BY <1>1 DEF Current, Published, SizedStates

LEMMA KnownStaysSized ==
  ASSUME Types, Types', Sized, Next
  PROVE  known' \in SizedStates(ticks', count')
<1>1. CASE known' = known
  BY <1>1, SizedAged, SizesAreTicked DEF SizedWith, Types
<1>2. CASE Reconnect
  BY <1>2, CurrentSized DEF Reconnect, nvimVars, Types
<1>3. CASE (TakeFocus \/ TakeState) /\ known' # known
  <2>1. /\ inbox # <<>> /\ Head(inbox).kind \in {"focus", "state"}
        /\ known' = Head(inbox).at /\ UNCHANGED <<ticks, count>>
    BY <1>3 DEF TakeFocus, TakeState, Event, nvimVars
  <2>2. Head(inbox) \in RightMessages(ticks, count)
    BY <2>1 DEF Sized, SizedWith
  <2>3. QED
    BY <2>1, <2>2 DEF RightMessages
<1>4. QED
  BY <1>1, <1>2, <1>3 DEF Next, GainFocus, LoseFocus, ConnectionLost, Display, Toggle, Pan,
     Route, Deadline, Expire, ControlLost, StepFailed, Editor, Change, Edit, Cut, Move,
     SwitchMode, SwitchBuffer, AnswerFocus, TakeStep, TakeEnd, TakeMove, TakeRoute, TakeAction,
     RunKeys,
     Answered, Events, TakeResult

-----------------------------------------------------------------------------
(* How a step leaves the view, the queue and the virtual line.               *)

LEMMA ReconciledContinues ==
  ASSUME NEW v, v # None => v \in View, NEW s
  PROVE  Continues(v, views, Reconciled(v, s), IF Restarts(v, s) THEN views + 1 ELSE views)
<1>1. CASE Restarts(v, s)
  BY <1>1 DEF Reconciled, Started, Continues
<1>2. CASE ~Restarts(v, s)
  <2>1. v \in View /\ v # None
    BY <1>2 DEF Restarts
  <2>2. /\ Refreshed(v, s).id = v.id /\ Refreshed(v, s).index = v.index
        /\ Refreshed(v, s).planned = v.planned /\ Refreshed(v, s).origin = v.origin
    BY <2>1 DEF Refreshed, View
  <2>3. QED
    BY <1>2, <2>1, <2>2 DEF Reconciled, Continues
<1>3. QED
  BY <1>1, <1>2

(* The view is gone, goes on or is a new exploration: every step but a press *)
(* that plans one.                                                           *)
Stays == views <= views' /\ (view' = None \/ Continues(view, views, view', views'))

LEMMA RefreshStays ==
  ASSUME Types, NEW v, NEW asked, NEW s,
         v # None => /\ v \in View /\ view # None /\ v.id = view.id /\ v.index = view.index
                     /\ v.planned = view.planned /\ v.origin = view.origin,
         Refresh(v, asked, s) \/ Reconcile(v, asked, s)
  PROVE  Stays
<1>1. views \in Nat
  BY DEF Types, ViewType
<1>2. CASE Reconcile(v, asked, s)
  <2>1. view' = Reconciled(v, s) /\ views' = IF Restarts(v, s) THEN views + 1 ELSE views
    BY <1>2 DEF Reconcile
  <2>2. Continues(v, views, view', views')
    BY <2>1, ReconciledContinues
  <2>3. Continues(view, views, view', views')
    BY <2>2 DEF Continues
  <2>4. QED
    BY <1>1, <2>1, <2>3 DEF Stays
<1>3. CASE view' = v /\ views' = views
  BY <1>1, <1>3 DEF Stays, Continues
<1>4. QED
  BY <1>2, <1>3 DEF Refresh

LEMMA ViewStays ==
  ASSUME Types, Types', Sized, Next, ~(Pan /\ enabled)
  PROVE  Stays
<1>0. views \in Nat /\ (view # None => view \in View)
  BY DEF Types, ViewType, ViewGood
<1>1. CASE views' = views /\ (view' = view \/ view' = None)
  BY <1>0, <1>1 DEF Stays, Continues
<1>2. ASSUME NEW asked, NEW s, Refresh(view, asked, s) \/ Reconcile(view, asked, s)
      PROVE  Stays
  BY <1>0, <1>2, RefreshStays
<1>3. CASE Reconnect
  BY <1>2, <1>3 DEF Reconnect
<1>4. CASE Toggle
  <2>1. CASE enabled
    BY <1>1, <1>4, <2>1 DEF Toggle, Leave, Clear
  <2>2. CASE ~enabled
    BY <1>4, <2>2, RefreshStays DEF Toggle, Enter
  <2>3. QED
    BY <2>1, <2>2
<1>5. CASE Route \/ \E token \in timers : Expire(token)
  BY <1>1, <1>2, <1>5 DEF Route, Expire
<1>6. CASE TakeFocus \/ TakeState
  BY <1>1, <1>2, <1>6 DEF TakeFocus, TakeState
<1>7. CASE TakeResult
  <2> DEFINE result == Head(inbox)
             v == [view EXCEPT !.accepted = result.step.index, !.line = result.line,
                               !.text = result.text, !.shown = known.tick,
                               !.planned = IF result.moved THEN @ ELSE result.line]
  <2>1. inbox # <<>> /\ result.kind = "result" /\ result \in RightMessages(ticks, count)
    BY <1>7 DEF TakeResult, Event, Sized, SizedWith
  <2>2. \/ views' = views /\ (view' = view \/ view' = None)
        \/ Expected(result) /\ \E later : Refresh(v, later, known)
    BY <1>7 DEF TakeResult, Clear
  <2>3. CASE Expected(result) /\ \E later : Refresh(v, later, known)
    <3>1. view # None /\ view \in View /\ result.moved
      BY <1>0, <2>1, <2>3 DEF Expected, RightMessages
    <3>2. result \in Result /\ result.step.index \in Nat /\ result.text \in Nat
          /\ result.line \in 1..Lines /\ known.tick \in Nat
      <4>1. result \in Result
        BY <2>1 DEF RightMessages, Messages
      <4>2. result.line = result.step.target
        BY <2>1, <2>3 DEF Expected, RightMessages
      <4>3. QED
        BY <4>1, <4>2 DEF Result, Step, Types, KnownType, States
    <3>3. v \in View /\ v.id = view.id /\ v.index = view.index
          /\ v.planned = view.planned /\ v.origin = view.origin
      <4> HIDE DEF result
      <4>1. QED
        BY <3>1, <3>2 DEF View
    <3> HIDE DEF v
    <3>4. QED
      BY <2>3, <3>1, <3>3, RefreshStays
  <2>4. QED
    BY <1>1, <2>2, <2>3
<1>8. (views' = views /\ (view' = view \/ view' = None)) \/ Reconnect \/ Toggle
      \/ Route \/ (\E token \in timers : Expire(token)) \/ TakeFocus \/ TakeState \/ TakeResult
  <2>1. CASE Pan
    BY <2>1 DEF Pan, PanCursor
  <2>2. CASE Editor
    BY <2>2 DEF Editor, Change, Edit, Cut, Move, SwitchMode, SwitchBuffer, AnswerFocus,
       TakeStep, TakeEnd, TakeMove, TakeRoute, TakeAction, RunKeys, Answered, viewVars
  <2>3. CASE GainFocus \/ LoseFocus \/ ConnectionLost \/ Deadline \/ ControlLost \/ StepFailed
    BY <2>3 DEF GainFocus, LoseFocus, ConnectionLost, Deadline, ControlLost, StepFailed,
       Clear, viewVars
  <2>4. QED
    BY <2>1, <2>2, <2>3 DEF Next, Display, Events
<1>9. QED
  BY <1>1, <1>3, <1>4, <1>5, <1>6, <1>7, <1>8

(* Nothing is sent, or another control than a step.                          *)
OutboxStays ==
  \/ outbox' = outbox \/ outbox' = <<>> \/ (outbox # <<>> /\ outbox' = Tail(outbox))
  \/ \E k \in DOMAIN outbox : outbox' = RemoveAt(outbox, k)
  \/ \E c : c.kind # "step" /\ Submit(c)

LEMMA NoStepSent ==
  ASSUME Types, Next, ~(Pan /\ enabled)
  PROVE  OutboxStays
<1>1. ASSUME NEW c, Submit(c), c.kind # "step"
      PROVE  OutboxStays
  BY <1>1 DEF OutboxStays
<1>2. CASE GainFocus
  <2>1. outbox' = outbox \/ Submit([kind |-> "focus", period |-> period'])
    BY <1>2 DEF GainFocus
  <2>2. QED
    BY <1>1, <2>1 DEF OutboxStays
<1>3. CASE Toggle
  <2>1. outbox' = outbox \/ Submit([kind |-> "end", id |-> view.id])
    BY <1>3 DEF Toggle, Leave, EndControl, Enter
  <2>2. QED
    BY <1>1, <2>1 DEF OutboxStays
<1>4. CASE Pan /\ ~enabled
  <2>1. outbox' = outbox \/ \E c : Submit(c) /\ c.kind = "move"
    BY <1>4 DEF Pan, PanCursor
  <2>2. QED
    BY <1>1, <2>1 DEF OutboxStays
<1>5. CASE Route
  <2>1. \/ outbox' = outbox
        \/ \E kind \in {"route", "word", "line"} : \E burst : Submit(Routed(kind, burst, 0))
    BY <1>5 DEF Route, PlainPress, FirstPress, SecondPress, ThirdPress
  <2>2. \A kind, burst : Routed(kind, burst, 0).kind = kind
    BY DEF Routed
  <2>3. QED
    BY <1>1, <2>1, <2>2 DEF OutboxStays
<1>6. ASSUME NEW token \in timers, Expire(token)
      PROVE  OutboxStays
  <2> DEFINE c == [deferred EXCEPT !.at = RouteTarget, !.text = RouteState.text]
  <2>1. outbox' = outbox \/ (deferred # None /\ Submit(c))
    BY <1>6 DEF Expire
  <2>2. deferred # None => c.kind \in {"route", "word", "line"}
    BY DEF Types, RepeatType, Presses
  <2> HIDE DEF c
  <2>3. QED
    BY <1>1, <2>1, <2>2 DEF OutboxStays
<1>7. CASE Editor
  BY <1>7 DEF Editor, Change, Edit, Cut, Move, SwitchMode, SwitchBuffer, Control,
     AnswerFocus, TakeStep, TakeEnd, TakeMove, TakeRoute, TakeAction, RunKeys, OutboxStays
<1>8. CASE LoseFocus \/ ConnectionLost \/ Reconnect \/ Deadline \/ ControlLost \/ StepFailed
           \/ Events
  BY <1>8 DEF LoseFocus, ConnectionLost, Reconnect, Deadline, ControlLost, StepFailed,
     Events, TakeFocus, TakeState, TakeResult, OutboxStays
<1>9. QED
  BY <1>2, <1>3, <1>4, <1>5, <1>6, <1>7, <1>8 DEF Next, Display

LEMMA OutboxChained ==
  ASSUME Types, OutboxStays, NEW f, NEW v, NEW n, Chained(outbox, f, v, n)
  PROVE  Chained(outbox', f, v, n)
<1>1. outbox \in Seq(Controls)
  BY DEF Types, LinkType
<1>2. ASSUME NEW c, c.kind # "step", Submit(c)
      PROVE  Chained(outbox', f, v, n)
  BY <1>1, <1>2, OtherSent DEF Submit
<1>3. CASE \/ outbox' = outbox \/ outbox' = <<>> \/ (outbox # <<>> /\ outbox' = Tail(outbox))
           \/ \E k \in DOMAIN outbox : outbox' = RemoveAt(outbox, k)
  BY <1>1, <1>3, QueueThinned, ThinnedChain
<1>4. QED
  BY <1>2, <1>3 DEF OutboxStays

LEMMA LinkedTypes ==
  Types => /\ outbox \in Seq(Controls) /\ far \in Virtual \cup {None}
           /\ view \in View \cup {None} /\ views \in Nat
  BY DEF Types, LinkType, NvimType, Virtual, ViewType, ViewGood

LEMMA ChainStays ==
  ASSUME Types, Types', Chain, Stays, OutboxStays, far' \in {far, None}
  PROVE  Chain'
<1>0. views' \in Nat /\ (view' # None => view' \in View)
  BY DEF Types, ViewType, ViewGood
<1>1. Chained(outbox, far, view', views')
  <2>1. CASE view' = None
    <3>1. Links(outbox, far, views')
      BY <1>0, LinkedTypes, MoreExplorations DEF Chain, Chained, Stays
    <3>2. QED
      BY <2>1, <3>1 DEF Chained
  <2>2. CASE view' # None
    <3>1. Continues(view, views, view', views')
      BY <2>2 DEF Stays
    <3>2. QED
      BY <1>0, <2>2, <3>1, LinkedTypes, ViewContinues DEF Chain, Chained
  <2>3. QED
    BY <2>1, <2>2
<1>2. Chained(outbox', far, view', views')
  BY <1>1, OutboxChained
<1>3. Chained(outbox', far', view', views')
  BY <1>2, VirtualDropped
<1>4. QED
  BY <1>3 DEF Chain

(* A planned step of the display joins the chain.                            *)
LEMMA PlannedStepChains ==
  ASSUME Types, Types', Sized, Chain, Pan, enabled
  PROVE  Chain' /\ outbox' \in Seq(SizedControls(ticks, count))
<1> DEFINE v == Reconciled(view, known)
           n == IF Restarts(view, known) THEN views + 1 ELSE views
<1>0. /\ outbox \in Seq(SizedControls(ticks, count)) /\ far' = far
      /\ known \in SizedStates(ticks, count) /\ known \in States
  BY DEF Pan, nvimVars, Sized, SizedWith, SizedStates
<1>1. PICK delta \in {0, 2} : PanExploring(delta)
  BY DEF Pan
<1> DEFINE step == [kind |-> "step", id |-> v.id, index |-> v.index + 1, delta |-> delta,
                    source |-> v.planned, target |-> v.planned + delta - 1,
                    origin |-> [buffer |-> v.buffer, line |-> v.origin, mode |-> v.mode,
                                tick |-> v.tick]]
<1>2. views' = n /\ n \in Nat
  BY <1>1, LinkedTypes DEF PanExploring
<1>3. v \in View /\ v.buffer = known.buffer /\ v.tick = known.tick
  <2>1. v \in View /\ v.buffer = known.buffer
    BY ReconciledType DEF Types, ViewType, KnownType
  <2>2. view # None => view \in View
    BY DEF Types, ViewType, ViewGood
  <2>3. v.tick = known.tick
    BY <2>2 DEF Reconciled, Started, Refreshed, Restarts, View
  <2>4. QED
    BY <2>1, <2>3
<1>4. Links(outbox, far, n) /\ Ahead(outbox, far, v, n)
  <2>1. Continues(view, views, v, n)
    <3>1. view # None => view \in View
      BY DEF Types, ViewType, ViewGood
    <3>2. QED
      BY <3>1, ReconciledContinues
  <2> HIDE DEF v, n
  <2>2. QED
    BY <1>2, <1>3, <2>1, LinkedTypes, ViewContinues DEF Chain
<1>5. CASE view' = v /\ outbox' = outbox
  BY <1>0, <1>2, <1>4, <1>5 DEF Chain, Chained
<1>6. CASE view' = None /\ outbox' = outbox
  BY <1>0, <1>2, <1>4, <1>6 DEF Chain, Chained
<1>7. CASE /\ Reachable(step.target) /\ Submit(step)
           /\ view' = [v EXCEPT !.index = @ + 1, !.planned = step.target]
  <2> HIDE DEF v, n
  <2>1. step.target \in 1..known.count /\ step.target \in 1..Lines
    <3>1. step.target \in 1..known.count
      BY <1>7 DEF Reachable
    <3>2. known.count \in 1..Lines
      BY <1>0 DEF States
    <3>3. Lines \in Nat
      BY BrailleAssumption
    <3> HIDE DEF step
    <3>4. QED
      BY <3>1, <3>2, <3>3
  <2>2. step \in Step
    BY <1>3, <2>1 DEF View, Step, Position
  <2>3. /\ step.id = v.id /\ step.index = v.index + 1 /\ step.source = v.planned
        /\ step.origin.line = v.origin /\ step.target = step.source + step.delta - 1
        /\ step.origin.buffer = known.buffer /\ step.origin.tick = known.tick
    BY <1>3
  <2> HIDE DEF step
  <2>4. Links(outbox', far, n) /\ Ahead(outbox', far, view', n)
    BY <1>2, <1>3, <1>4, <1>7, <2>2, <2>3, LinkedTypes, StepSent DEF Submit
  <2>5. Chain'
    BY <1>0, <1>2, <2>4 DEF Chain, Chained
  <2>6. step \in SizedControls(ticks, count)
    <3>1. step \in Controls
      BY <2>2 DEF Controls
    <3>2. known.tick <= ticks[known.buffer]
          /\ (known.tick = ticks[known.buffer] => known.count = count[known.buffer])
      BY <1>0 DEF SizedStates
    <3>3. QED
      BY <2>1, <2>3, <3>1, <3>2 DEF SizedControls
  <2>7. outbox' \in Seq(SizedControls(ticks, count))
    BY <1>0, <1>7, <2>6 DEF Submit
  <2>8. QED
    BY <2>5, <2>7
<1>8. QED
  <2>1. \/ view' = v /\ outbox' = outbox
        \/ view' = None /\ outbox' = outbox
        \/ /\ Reachable(step.target) /\ Submit(step)
           /\ view' = [v EXCEPT !.index = @ + 1, !.planned = step.target]
    BY <1>1 DEF PanExploring, Clear
  <2>2. QED
    BY <1>0, <1>5, <1>6, <1>7, <2>1

-----------------------------------------------------------------------------
(* Neovim takes a step of the chain where it was planned to.                 *)

LEMMA StepTaken ==
  ASSUME Types, Sized, Chain, TakeStep
  PROVE  LET s == Head(outbox) IN
         \/ /\ far' = [id |-> s.id, index |-> s.index, line |-> s.target]
            /\ \E string, at : Tell([kind |-> "result", step |-> s, ok |-> TRUE, moved |-> TRUE,
                                     line |-> s.target, text |-> string, at |-> at])
         \/ /\ far' = None
            /\ \E at : Tell([kind |-> "result", step |-> s, ok |-> FALSE, moved |-> FALSE,
                             line |-> 0, text |-> 0, at |-> at])
<1> DEFINE step == Head(outbox)
           from == IF Follows(step) THEN far.line ELSE step.origin.line
           moved == from + step.delta - 1 \in 1..count[place.buffer]
           line == IF moved THEN from + step.delta - 1 ELSE from
<1>1. outbox # <<>> /\ step.kind = "step"
  BY DEF TakeStep, Control
<1>2. step \in Step /\ step \in SizedControls(ticks, count) /\ LinkedStep(step, far, views)
  <2>1. 1 \in DOMAIN outbox /\ step = outbox[1]
    BY <1>1, LinkedTypes
  <2>2. QED
    BY <1>1, <2>1, LinkedTypes, StepOfQueue DEF Chain, Chained, Links, Sized, SizedWith
<1>3. CASE InOrder(step)
  <2>1. from = step.source
    <3>1. CASE Follows(step)
      <4>1. step.index = far.index + 1 /\ far # None /\ far.id = step.id
        BY <1>3, <3>1 DEF InOrder, Follows
      <4>2. QED
        BY <1>2, <3>1, <4>1 DEF LinkedStep, Before
    <3>2. CASE ~Follows(step)
      BY <1>2, <1>3, <3>2 DEF InOrder, LinkedStep
    <3>3. QED
      BY <3>1, <3>2
  <2>2. from + step.delta - 1 = step.target
    BY <1>2, <2>1 DEF LinkedStep
  <2>3. step.target \in 1..count[place.buffer]
    <3>1. step.target <= count[place.buffer]
      BY <1>1, <1>2, <1>3 DEF InOrder, SizedControls
    <3>2. step.target \in 1..Lines
      BY <1>2 DEF Step
    <3>3. count[place.buffer] \in 1..Lines
      BY DEF Types, NvimType
    <3>4. QED
      BY <3>1, <3>2, <3>3
  <2>4. moved /\ line = step.target
    BY <2>2, <2>3
  <2>5. /\ far' = [id |-> step.id, index |-> step.index, line |-> line]
        /\ Tell([kind |-> "result", step |-> step, ok |-> TRUE, moved |-> moved,
                 line |-> line, text |-> text[place.buffer][line], at |-> Origin(Current)])
    BY <1>3 DEF TakeStep
  <2>6. moved = TRUE
    BY <2>4
  <2> HIDE DEF moved, line, step
  <2>7. QED
    BY <2>4, <2>5, <2>6 DEF step
<1>4. CASE ~InOrder(step)
  BY <1>4 DEF TakeStep
<1>5. QED
  BY <1>3, <1>4

LEMMA StepTakenChains ==
  ASSUME Types, Types', Sized, Chain, TakeStep
  PROVE  Chain'
<1> DEFINE s == Head(outbox)
<1>1. /\ outbox # <<>> /\ s.kind = "step" /\ outbox' = Tail(outbox)
      /\ view' = view /\ views' = views
  BY DEF TakeStep, Control, Answered, viewVars
<1>2. \/ far' = [id |-> s.id, index |-> s.index, line |-> s.target]
      \/ far' = None
  BY StepTaken
<1>3. Chained(Tail(outbox), [id |-> s.id, index |-> s.index, line |-> s.target], view, views)
  BY <1>1, LinkedTypes, HeadTaken DEF Chain
<1>4. Chained(Tail(outbox), None, view, views)
  BY <1>3, VirtualDropped
<1>5. QED
  BY <1>1, <1>2, <1>3, <1>4 DEF Chain

LEMMA NextChain ==
  ASSUME Types, Types', Sized, Chain, Next
  PROVE  Chain'
<1>1. CASE Pan /\ enabled
  BY <1>1, PlannedStepChains
<1>2. CASE TakeStep
  BY <1>2, StepTakenChains
<1>3. CASE ~(Pan /\ enabled) /\ ~TakeStep
  <2>1. far' \in {far, None}
    BY <1>3 DEF Next, GainFocus, LoseFocus, ConnectionLost, Reconnect, Display, Toggle, Pan,
       Route, Deadline, Expire, ControlLost, StepFailed, Editor, Change, Edit, Cut, Move,
       SwitchMode, SwitchBuffer, AnswerFocus, TakeEnd, TakeMove, TakeRoute, TakeAction, RunKeys,
       Events,
       TakeFocus, TakeState, TakeResult, nvimVars
  <2>2. QED
    BY <1>3, <2>1, ViewStays, NoStepSent, ChainStays
<1>4. QED
  BY <1>1, <1>2, <1>3

LEMMA OutboxStaysSized ==
  ASSUME Types, Types', Sized, Chain, Next
  PROVE  outbox' \in Seq(SizedControls(ticks', count'))
<1> DEFINE Good == SizedControls(ticks', count')
<1>0. outbox \in Seq(Good) /\ outbox' \in Seq(Controls)
  BY SizedAged, SizesAreTicked DEF SizedWith, Types, LinkType
<1> SUFFICES outbox' \in Seq(Good)
  OBVIOUS
<1>1. CASE Pan /\ enabled
  <2>1. ticks' = ticks /\ count' = count
    BY <1>1 DEF Pan, nvimVars
  <2>2. QED
    BY <1>1, <2>1, PlannedStepChains
<1> HIDE DEF Good
<1>2. CASE OutboxStays
  <2>1. ASSUME NEW c, c.kind # "step", Submit(c)
        PROVE  outbox' \in Seq(Good)
    <3>1. outbox' = Append(outbox, c)
      BY <2>1 DEF Submit
    <3>2. outbox'[Len(outbox) + 1] = c /\ Len(outbox) + 1 \in DOMAIN outbox'
      BY <1>0, <3>1
    <3>3. c \in Controls
      BY <1>0, <3>2
    <3>4. c \in Good
      BY <2>1, <3>3 DEF Good, SizedControls
    <3>5. QED
      BY <1>0, <3>1, <3>4
  <2>2. ASSUME NEW k \in DOMAIN outbox, outbox' = RemoveAt(outbox, k)
        PROVE  outbox' \in Seq(Good)
    BY <1>0, <2>2 DEF RemoveAt
  <2>3. CASE outbox # <<>> /\ outbox' = Tail(outbox)
    BY <1>0, <2>3
  <2>4. CASE outbox' = <<>> \/ outbox' = outbox
    BY <1>0, <2>4
  <2>5. QED
    BY <1>2, <2>1, <2>2, <2>3, <2>4 DEF OutboxStays
<1>3. QED
  BY <1>1, <1>2, NoStepSent

LEMMA InboxStaysRight ==
  ASSUME Types, Types', Sized, Chain, Next
  PROVE  inbox' \in Seq(RightMessages(ticks', count'))
<1> DEFINE Good == RightMessages(ticks', count')
<1>0. inbox \in Seq(Good) /\ inbox' \in Seq(Messages)
  BY SizedAged, SizesAreTicked DEF SizedWith, Types, LinkType
<1> SUFFICES inbox' \in Seq(Good)
  OBVIOUS
<1> HIDE DEF Good
<1>1. CASE inbox' = inbox \/ inbox' = <<>> \/ (inbox # <<>> /\ inbox' = Tail(inbox))
  BY <1>0, <1>1
<1>2. ASSUME NEW e, Tell(e), e.kind \in {"focus", "state", "result"},
             e.kind \in {"focus", "state"} => e.at \in SizedStates(ticks', count'),
             e.kind = "result" /\ e.ok => e.moved /\ e.line = e.step.target
      PROVE  inbox' \in Seq(Good)
  <2>1. e \in Messages
    <3>1. inbox' = Append(inbox, e)
      BY <1>2 DEF Tell
    <3>2. inbox'[Len(inbox) + 1] = e /\ Len(inbox) + 1 \in DOMAIN inbox'
      BY <1>0, <3>1
    <3>3. QED
      BY <1>0, <3>2
  <2>2. e \in Good
    BY <1>2, <2>1 DEF Good, RightMessages
  <2>3. QED
    BY <1>0, <1>2, <2>2 DEF Tell
<1>3. Published(place', ticks', text', count') \in SizedStates(ticks', count')
  <2>1. Published(place', ticks', text', count') \in States
    BY PublishedType DEF Types
  <2>2. QED
    BY <2>1 DEF Published, SizedStates, States
<1>4. CASE Publish(place', ticks', text', count')
  BY <1>1, <1>2, <1>3, <1>4 DEF Publish
<1>5. CASE Edit \/ Cut \/ Move \/ SwitchMode \/ SwitchBuffer \/ TakeMove \/ TakeRoute \/ RunKeys
  <2>1. inbox' = inbox \/ Publish(place', ticks', text', count')
    BY <1>5 DEF Edit, Cut, Move, SwitchMode, SwitchBuffer, TakeMove, TakeRoute, RunKeys
  <2>2. QED
    BY <1>1, <1>4, <2>1
<1>6. CASE AnswerFocus
  <2>1. Current = Published(place', ticks', text', count')
    BY <1>6 DEF AnswerFocus, Current
  <2>2. QED
    BY <1>2, <1>3, <1>6, <2>1 DEF AnswerFocus
<1>7. CASE TakeStep
  <2> DEFINE s == Head(outbox)
  <2>1. \/ \E string, at : Tell([kind |-> "result", step |-> s, ok |-> TRUE, moved |-> TRUE,
                                 line |-> s.target, text |-> string, at |-> at])
        \/ \E at : Tell([kind |-> "result", step |-> s, ok |-> FALSE, moved |-> FALSE,
                         line |-> 0, text |-> 0, at |-> at])
    BY <1>7, StepTaken
  <2> HIDE DEF s
  <2>2. QED
    BY <1>2, <2>1
<1>8. CASE GainFocus \/ LoseFocus \/ ConnectionLost \/ Reconnect \/ Display \/ ControlLost
           \/ StepFailed \/ TakeEnd \/ TakeAction \/ Events
  BY <1>1, <1>8 DEF GainFocus, LoseFocus, ConnectionLost, Reconnect, Display, Toggle, Pan,
     Route, Deadline, Expire, ControlLost, StepFailed, TakeEnd, TakeAction, Events, Event,
     TakeFocus, TakeState, TakeResult
<1>9. QED
  BY <1>5, <1>6, <1>7, <1>8 DEF Good, Next, Editor

LEMMA InitChain == Init => Sized /\ Chain
<1> SUFFICES ASSUME Init PROVE Sized /\ Chain
  OBVIOUS
<1>1. known \in SizedStates(ticks, count)
  BY InitTypes, CurrentSized DEF Init, Types
<1>2. Chain
  BY DEF Init, Chain, Chained, Links
<1>3. QED
  BY <1>1, <1>2 DEF Init, Sized, SizedWith

LEMMA NextSized == Types /\ Types' /\ Sized /\ Chain /\ [Next]_vars => Sized' /\ Chain'
<1> SUFFICES ASSUME Types, Types', Sized, Chain, [Next]_vars PROVE Sized' /\ Chain'
  OBVIOUS
<1>1. CASE Next
  BY <1>1, KnownStaysSized, OutboxStaysSized, InboxStaysRight, NextChain DEF Sized, SizedWith
<1>2. CASE UNCHANGED vars
  BY <1>2 DEF vars, nvimVars, viewVars, Sized, SizedWith, Chain
<1>3. QED
  BY <1>1, <1>2

(* However many presses are ahead of their answers, an answered step has     *)
(* moved to the line that was reckoned when its key was pressed.             *)
THEOREM PlannedStepsAreAnswered == Spec => []AnswersAsPlanned
<1>1. Types /\ Sized => AnswersAsPlanned
  BY DEF Types, LinkType, Sized, SizedWith, RightMessages, AnswersAsPlanned
<1>2. QED
  BY <1>1, InitTypes, NextTypes, InitChain, NextSized, PTL DEF Spec
=============================================================================
