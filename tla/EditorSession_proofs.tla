------------------------ MODULE EditorSession_proofs ------------------------
(***************************************************************************)
(* Invariants of EditorSession for any terminals, uses, table size, items   *)
(* and bounds.                                                              *)
(***************************************************************************)
EXTENDS EditorSession, SequenceTheorems, TLAPS

Asked == [id : Nat, index : Nat]

(* What a queue of events carries: places, prompts, and results that were    *)
(* earned.                                                                  *)
Honest(e) ==
  /\ e.kind \in {"focus", "state", "result", "answer", "text"} => e.at \in Places
  /\ e.kind = "result" /\ e.ok => e.moved = e.index
  /\ e.kind = "opened" => e.id \in 1..MaxPrompts

HonestQueue(q) == \E S : q \in Seq(S) /\ \A e \in S : Honest(e)

FocusGood ==
  /\ focus \in Terminals \cup {Away} /\ active \in Terminals \cup {None}
  /\ confirmed \in BOOLEAN /\ (confirmed => focus \in Terminals)

PlacesGood ==
  /\ known \in [Terminals -> Places] /\ place \in [Terminals -> Places]
  /\ moves \in Places /\ \A t \in Terminals : place[t] <= moves
  /\ prompts \in 0..MaxPrompts /\ copied \in [Terminals -> Places \cup {None}]

FarGood ==
  /\ far = [t \in Terminals |-> far[t]]
  /\ \A t \in Terminals : far[t] # None => far[t].moved = far[t].index

EventsGood ==
  /\ inbox = [t \in Terminals |-> inbox[t]]
  /\ \A t \in Terminals : HonestQueue(inbox[t])

Good == FocusGood /\ PlacesGood /\ FarGood /\ EventsGood

-----------------------------------------------------------------------------
(* The queues of events.                                                    *)

LEMMA QueueAppend ==
  ASSUME NEW q, HonestQueue(q), NEW e, Honest(e)
  PROVE  HonestQueue(Append(q, e))
<1>1. PICK S : q \in Seq(S) /\ \A x \in S : Honest(x)
  BY DEF HonestQueue
<1>2. Append(q, e) \in Seq(S \cup {e})
  BY <1>1
<1>3. \A x \in S \cup {e} : Honest(x)
  BY <1>1
<1> HIDE DEF Honest
<1>4. QED
  BY <1>2, <1>3 DEF HonestQueue

LEMMA QueueTail ==
  ASSUME NEW q, HonestQueue(q), q # <<>>
  PROVE  HonestQueue(Tail(q)) /\ Honest(Head(q))
<1>1. PICK S : q \in Seq(S) /\ \A x \in S : Honest(x)
  BY DEF HonestQueue
<1>2. Tail(q) \in Seq(S) /\ Head(q) \in S
  BY <1>1
<1>3. QED
  BY <1>1, <1>2 DEF HonestQueue

LEMMA QueueCut ==
  ASSUME NEW q, HonestQueue(q), NEW k \in 0..Len(q)
  PROVE  HonestQueue(SubSeq(q, 1, k))
<1>1. PICK S : q \in Seq(S) /\ \A x \in S : Honest(x)
  BY DEF HonestQueue
<1>2. SubSeq(q, 1, k) \in Seq(S)
  BY <1>1
<1>3. QED
  BY <1>1, <1>2 DEF HonestQueue

LEMMA Told ==
  ASSUME EventsGood, NEW t \in Terminals, NEW e, Honest(e), Tell(t, e)
  PROVE  EventsGood'
<1>1. HonestQueue(Append(inbox[t], e))
  BY QueueAppend DEF EventsGood
<1>2. inbox' = [inbox EXCEPT ![t] = Append(inbox[t], e)]
  BY DEF Tell
<1>3. QED
  BY <1>1, <1>2 DEF EventsGood

LEMMA TakenKeeps ==
  ASSUME EventsGood, NEW t \in Terminals, NEW kind, NextEvent(t, kind), Taken(t)
  PROVE  EventsGood' /\ Honest(Head(inbox[t])) /\ Head(inbox[t]).kind = kind
<1>1. HonestQueue(Tail(inbox[t])) /\ Honest(Head(inbox[t]))
  BY QueueTail DEF EventsGood, NextEvent
<1>2. inbox' = [inbox EXCEPT ![t] = Tail(inbox[t])]
  BY DEF Taken
<1>3. QED
  BY <1>1, <1>2 DEF EventsGood, NextEvent

-----------------------------------------------------------------------------
(* The focus, the places and the events.                                    *)

LEMMA InitGood == Init => Good
<1> SUFFICES ASSUME Init PROVE Good
  OBVIOUS
<1>1. HonestQueue(<<>>)
  <2>1. <<>> \in Seq({}) /\ \A e \in {} : Honest(e)
    OBVIOUS
  <2>2. ASSUME NEW S, <<>> \in Seq(S), \A e \in S : Honest(e)
        PROVE  HonestQueue(<<>>)
    BY <2>2 DEF HonestQueue
  <2>3. QED
    BY <2>1, <2>2
<1>2. 0 \in Places /\ 0 \in 0..MaxPrompts
  BY SessionAssumption DEF Places
<1>3. PlacesGood
  BY <1>2 DEF Init, PlacesGood
<1>4. QED
  BY <1>1, <1>3 DEF Init, Good, FocusGood, FarGood, EventsGood

LEMMA LearnGood ==
  ASSUME PlacesGood, NEW t \in Terminals, NEW at \in Places, Learn(t, at),
         UNCHANGED <<place, moves, prompts, copied>>
  PROVE  PlacesGood'
  BY DEF PlacesGood, Learn

LEMMA FocusStepGood ==
  ASSUME Good, NEW t \in Terminals, GainFocus(t) \/ LoseFocus \/ TransportLost(t) \/ Reconnect(t)
  PROVE  Good'
<1>1. CASE GainFocus(t) \/ LoseFocus
  BY <1>1 DEF GainFocus, LoseFocus, editorVars, linkVars, Good, FocusGood, PlacesGood, FarGood,
     EventsGood
<1>2. CASE TransportLost(t)
  <2>1. PICK k \in 0..Len(inbox[t]) :
          inbox' = [inbox EXCEPT ![t] = Append(SubSeq(inbox[t], 1, k), [kind |-> "lost"])]
    BY <1>2 DEF TransportLost
  <2>2. HonestQueue(SubSeq(inbox[t], 1, k))
    BY QueueCut DEF Good, EventsGood
  <2>3. Honest([kind |-> "lost"])
    BY DEF Honest
  <2>4. HonestQueue(Append(SubSeq(inbox[t], 1, k), [kind |-> "lost"]))
    BY <2>2, <2>3, QueueAppend
  <2>5. EventsGood'
    BY <2>1, <2>4 DEF Good, EventsGood
  <2>6. QED
    BY <1>2, <2>5 DEF TransportLost, editorVars, Good, FocusGood, PlacesGood, FarGood
<1>3. CASE Reconnect(t)
  <2>1. place[t] \in Places
    BY DEF Good, PlacesGood
  <2>2. PlacesGood'
    BY <1>3, <2>1, LearnGood DEF Reconnect, editorVars, Good
  <2>3. QED
    BY <1>3, <2>2 DEF Reconnect, Select, editorVars, Good, FocusGood, FarGood, EventsGood
<1>4. QED
  BY <1>1, <1>2, <1>3

LEMMA EditorGood ==
  ASSUME Good, NEW t \in Terminals, Editor(t)
  PROVE  Good'
<1>1. FocusGood' /\ known' = known
  <2>1. UNCHANGED focusVars
    <3>1. CASE EditorMoves(t)
      BY <3>1 DEF EditorMoves
    <3>2. CASE ~EditorMoves(t)
      BY <3>2 DEF Editor, CopyState, AnswerState, TakeStep, TakeEnd, AnswerQuery, AnswerCopy,
         OpenPrompt, ClosePrompt, TakeAccept
    <3>3. QED
      BY <3>1, <3>2
  <2>2. QED
    BY <2>1 DEF focusVars, Good, FocusGood
<1>2. place[t] \in Places /\ far = [u \in Terminals |-> far[u]]
  BY DEF Good, PlacesGood, FarGood
<1>3. CASE EditorMoves(t)
  <2>1. /\ place' = [place EXCEPT ![t] = place[t] + 1] /\ UNCHANGED <<far, prompts, copied>>
        /\ moves < MaxPlaces /\ moves' = moves + 1
    BY <1>3 DEF EditorMoves
  <2>2. PlacesGood' /\ FarGood' /\ place'[t] \in Places
    <3>1. /\ moves \in Nat /\ place[t] \in Nat /\ place[t] <= moves /\ MaxPlaces \in Nat
          /\ \A u \in Terminals : place[u] \in Nat /\ place[u] <= moves
      BY SessionAssumption DEF Good, PlacesGood, Places
    <3>2. place[t] + 1 \in Places /\ moves' \in Places /\ place[t] + 1 <= moves'
      BY <2>1, <3>1 DEF Places
    <3>3. \A u \in Terminals : place'[u] = IF u = t THEN place[t] + 1 ELSE place[u]
      BY <2>1 DEF Good, PlacesGood
    <3>4. place' \in [Terminals -> Places]
      BY <2>1, <3>2 DEF Good, PlacesGood
    <3>5. \A u \in Terminals : place'[u] <= moves'
      BY <2>1, <3>1, <3>2, <3>3
    <3>6. QED
      BY <1>1, <2>1, <3>2, <3>3, <3>4, <3>5 DEF Good, PlacesGood, FarGood
  <2>3. Honest([kind |-> "state", at |-> place'[t]])
    BY <2>2 DEF Honest
  <2>4. EventsGood'
    BY <1>3, <2>3, Told DEF EditorMoves, Good, EventsGood
  <2>5. QED
    BY <1>1, <2>2, <2>4 DEF Good
<1>4. CASE TakeStep(t)
  <2> DEFINE control == Head(outbox[t])
             moved == IF far[t] # None /\ far[t].id = control.id THEN far[t].moved + 1 ELSE 1
             next == IF InOrder(t, control)
                       THEN [id |-> control.id, index |-> control.index, moved |-> moved]
                       ELSE None
             result == [kind |-> "result", id |-> control.id, index |-> control.index,
                        ok |-> InOrder(t, control), at |-> place[t],
                        moved |-> IF InOrder(t, control) THEN moved ELSE 0]
  <2>1. far' = [far EXCEPT ![t] = next] /\ Tell(t, result)
    BY <1>4 DEF TakeStep
  <2>2. InOrder(t, control) => control.index = moved
    BY DEF InOrder, Good, FarGood
  <2>3. FarGood'
    BY <2>1, <2>2 DEF Good, FarGood
  <2>4. Honest(result)
    BY <1>2, <2>2 DEF Honest
  <2> HIDE DEF result
  <2>5. EventsGood'
    BY <2>1, <2>4, Told DEF Good
  <2>6. QED
    BY <1>1, <1>4, <2>3, <2>5 DEF TakeStep, Good, PlacesGood
<1>5. CASE TakeEnd(t)
  BY <1>1, <1>5 DEF TakeEnd, Good, PlacesGood, FarGood, EventsGood
<1>6. ASSUME NEW e, inbox' = inbox \/ Tell(t, e), Honest(e),
             UNCHANGED <<place, moves, far, copied>>, prompts' \in 0..MaxPrompts
      PROVE  Good'
  <2>1. EventsGood'
    BY <1>6, Told DEF Good, EventsGood
  <2>2. QED
    BY <1>1, <1>6, <2>1 DEF Good, PlacesGood, FarGood
<1>7. CASE CopyState(t) \/ AnswerState(t)
  <2>1. CASE CopyState(t)
    BY <1>1, <1>2, <2>1 DEF CopyState, linkVars, Good, PlacesGood, FarGood, EventsGood
  <2>2. CASE AnswerState(t)
    <3> DEFINE e == IF Head(outbox[t]).kind = "focus"
                      THEN [kind |-> "focus", period |-> Head(outbox[t]).period,
                            at |-> copied[t]]
                      ELSE [kind |-> "state", at |-> copied[t]]
    <3>1. /\ Tell(t, e) /\ UNCHANGED <<place, moves, far, prompts>>
          /\ copied' = [copied EXCEPT ![t] = None] /\ copied[t] \in Places
      BY <2>2 DEF AnswerState, Good, PlacesGood
    <3>2. Honest(e)
      BY <3>1 DEF Honest
    <3> HIDE DEF e
    <3>3. EventsGood'
      BY <3>1, <3>2, Told DEF Good
    <3>4. QED
      BY <1>1, <3>1, <3>3 DEF Good, PlacesGood, FarGood
  <2>3. QED
    BY <1>7, <2>1, <2>2
<1>8. CASE AnswerQuery(t)
  <2> DEFINE e == [kind |-> "answer", id |-> Head(outbox[t]).id, at |-> place[t]]
  <2>1. Honest(e) /\ Tell(t, e) /\ UNCHANGED <<place, moves, far, prompts, copied>>
    BY <1>2, <1>8 DEF Honest, AnswerQuery, editorVars
  <2> HIDE DEF e
  <2>2. QED
    BY <1>6, <2>1 DEF Good, PlacesGood
<1>9. CASE AnswerCopy(t)
  <2> DEFINE e == [kind |-> "text", request |-> Head(outbox[t]).request, at |-> place[t]]
  <2>1. Honest(e) /\ Tell(t, e) /\ UNCHANGED <<place, moves, far, prompts, copied>>
    BY <1>2, <1>9 DEF Honest, AnswerCopy, editorVars
  <2> HIDE DEF e
  <2>2. QED
    BY <1>6, <2>1 DEF Good, PlacesGood
<1>10. CASE OpenPrompt(t)
  <2> DEFINE e == [kind |-> "opened", id |-> prompts']
  <2>1. prompts' \in 1..MaxPrompts /\ prompts' \in 0..MaxPrompts
    BY <1>10, SessionAssumption DEF OpenPrompt, Good, PlacesGood
  <2>2. Honest(e) /\ (inbox' = inbox \/ Tell(t, e)) /\ UNCHANGED <<place, moves, far, copied>>
    BY <1>10, <2>1 DEF Honest, OpenPrompt
  <2> HIDE DEF e
  <2>3. QED
    BY <1>6, <2>1, <2>2
<1>11. CASE ClosePrompt(t) \/ TakeAccept(t)
  <2> DEFINE e == [kind |-> "closed", id |-> prompt[t]]
  <2>1. Honest(e) /\ (inbox' = inbox \/ Tell(t, e))
        /\ UNCHANGED <<place, moves, far, prompts, copied>>
    BY <1>11 DEF Honest, ClosePrompt, TakeAccept
  <2> HIDE DEF e
  <2>2. QED
    BY <1>6, <2>1 DEF Good, PlacesGood
<1>12. QED
  BY <1>3, <1>4, <1>5, <1>7, <1>8, <1>9, <1>10, <1>11 DEF Editor

LEMMA EventGood ==
  ASSUME Good, NEW t \in Terminals, Events(t)
  PROVE  Good'
<1>1. /\ EventsGood' /\ UNCHANGED <<place, moves, far, prompts, copied>>
      /\ \/ known' = known
         \/ /\ Head(inbox[t]).kind \in {"focus", "state", "text"} /\ Honest(Head(inbox[t]))
            /\ Learn(t, Head(inbox[t]).at)
  <2>1. CASE TakeFocus(t)
    BY <2>1, TakenKeeps DEF TakeFocus, editorVars, Good
  <2>2. CASE TakeState(t)
    BY <2>2, TakenKeeps DEF TakeState, editorVars, Good
  <2>3. CASE TakeText(t)
    BY <2>3, TakenKeeps DEF TakeText, editorVars, Good
  <2>4. CASE TakeResult(t) \/ TakeAnswer(t) \/ TakeOpened(t) \/ TakeClosed(t) \/ TakeLost(t)
    BY <2>4, TakenKeeps DEF TakeResult, TakeAnswer, TakeOpened, TakeClosed, TakeLost,
       editorVars, focusVars, Good
  <2>5. QED
    BY <2>1, <2>2, <2>3, <2>4 DEF Events
<1>2. PlacesGood'
  <2>1. CASE known' = known
    BY <1>1, <2>1 DEF Good, PlacesGood
  <2>2. CASE known' # known
    <3>1. Head(inbox[t]).at \in Places
      BY <1>1, <2>2 DEF Honest
    <3>2. QED
      BY <1>1, <2>2, <3>1, LearnGood DEF Good
  <2>3. QED
    BY <2>1, <2>2
<1>3. FocusGood'
  <2>1. /\ focus' = focus /\ active' \in {active, t}
        /\ confirmed' = confirmed \/ (confirmed' = TRUE /\ focus = t)
    <3>1. CASE TakeFocus(t)
      BY <3>1 DEF TakeFocus, Select
    <3>2. CASE TakeLost(t)
      BY <3>2 DEF TakeLost
    <3>3. CASE ~TakeFocus(t) /\ ~TakeLost(t)
      BY <3>3 DEF Events, TakeState, TakeResult, TakeAnswer, TakeOpened, TakeClosed, TakeText,
         focusVars
    <3>4. QED
      BY <3>1, <3>2, <3>3
  <2>2. focus' \in Terminals \cup {Away} /\ active' \in Terminals \cup {None}
    BY <2>1 DEF Good, FocusGood
  <2>3. CASE confirmed' = confirmed
    BY <2>1, <2>2, <2>3 DEF Good, FocusGood
  <2>4. CASE confirmed' = TRUE /\ focus = t
    BY <2>1, <2>2, <2>4 DEF FocusGood
  <2>5. QED
    BY <2>1, <2>3, <2>4
<1>4. QED
  BY <1>1, <1>2, <1>3 DEF Good, FarGood

LEMMA NextGood ==
  ASSUME Good, [Next]_vars
  PROVE  Good'
<1>1. CASE UNCHANGED <<focus, confirmed, active, known, place, moves, far, prompts, copied, inbox>>
  BY <1>1 DEF Good, FocusGood, PlacesGood, FarGood, EventsGood
<1>2. CASE Keyboard \/ Handlers \/ \E t \in Terminals : ControlLost(t) \/ Resync(t)
  <2>1. UNCHANGED <<focusVars, editorVars, inbox>>
    BY <1>2 DEF Keyboard, PressKey, ReleaseKey, ExploreGesture, ContextGesture,
       NavigateGesture, AcceptGesture, CopyGesture, Handlers, RunExplore, FinishExplore,
       EndExploration, StepFailed, RunContext, FinishContext, EndContext, RunNavigate,
       RunAccept, EndChoice, RunCopy, ControlLost, Resync, linkVars
  <2>2. QED
    BY <1>1, <2>1 DEF focusVars, editorVars
<1>3. CASE LoseFocus
  BY <1>3 DEF LoseFocus, editorVars, linkVars, Good, FocusGood, PlacesGood, FarGood, EventsGood
<1>4. QED
  BY <1>1, <1>2, <1>3, FocusStepGood, EditorGood, EventGood DEF Next, vars, focusVars,
     editorVars, linkVars

-----------------------------------------------------------------------------
(* The clipboard: what is awaited was asked for in this very focus.          *)

AwaitedHere == \A r \in requests : r.period = period /\ r.term = focus

LEMMA NextAwaited ==
  ASSUME AwaitedHere, [Next]_vars
  PROVE  AwaitedHere'
<1>1. CASE UNCHANGED <<focus, period>> /\ requests' \subseteq requests
  BY <1>1 DEF AwaitedHere
<1>2. CASE RunCopy
  BY <1>2 DEF RunCopy, CopyRequest, Await, Available, InNeovim, AwaitedHere, focusVars
<1>3. CASE LoseFocus \/ \E t \in Terminals : GainFocus(t)
  BY <1>3 DEF LoseFocus, GainFocus, DiscardTransient, AwaitedHere
<1>4. ASSUME NEW t \in Terminals, Events(t)
      PROVE  UNCHANGED <<focus, period>> /\ requests' \subseteq requests
  BY <1>4 DEF Events, TakeFocus, TakeState, TakeResult, TakeAnswer, TakeOpened, TakeClosed,
     TakeText, Consume, TakeLost, focusVars, clipVars
<1>5. ASSUME NEW t \in Terminals,
             \/ Editor(t) \/ ControlLost(t) \/ Resync(t) \/ TransportLost(t) \/ Reconnect(t)
      PROVE  UNCHANGED <<focus, period>> /\ requests' \subseteq requests
  <2>1. CASE EditorMoves(t)
    BY <2>1 DEF EditorMoves, focusVars, clipVars
  <2>2. CASE ~EditorMoves(t)
    BY <1>5, <2>2 DEF Editor, CopyState, AnswerState, TakeStep, TakeEnd, AnswerQuery, AnswerCopy,
       OpenPrompt, ClosePrompt, TakeAccept, ControlLost, Resync, TransportLost, Reconnect,
       focusVars,
       clipVars
  <2>3. QED
    BY <2>1, <2>2
<1>6. CASE Keyboard \/ (Handlers /\ ~RunCopy) \/ UNCHANGED vars
  BY <1>1, <1>6 DEF Keyboard, PressKey, ReleaseKey, ExploreGesture, ContextGesture,
     NavigateGesture, AcceptGesture, CopyGesture, Handlers, RunExplore, FinishExplore,
     EndExploration, StepFailed, RunContext, FinishContext, EndContext, RunNavigate,
     RunAccept, EndChoice, focusVars, clipVars, vars
<1>7. QED
  BY <1>1, <1>2, <1>3, <1>4, <1>5, <1>6 DEF Next, Handlers

LEMMA WritesAwaited ==
  ASSUME Next
  PROVE  written' = written \/ \E r \in requests : written' = written \cup {r}
<1>1. CASE \E t \in Terminals : TakeText(t)
  BY <1>1 DEF TakeText, Awaited, clipVars
<1>2. CASE \E t \in Terminals : EditorMoves(t)
  BY <1>2 DEF EditorMoves, clipVars
<1>3. ASSUME NEW t \in Terminals, Events(t) \/ Editor(t), ~TakeText(t), ~EditorMoves(t)
      PROVE  written' = written
  BY <1>3 DEF Events, TakeFocus, TakeState, TakeResult, TakeAnswer, TakeOpened, TakeClosed,
     TakeLost, Editor, CopyState, AnswerState, TakeStep, TakeEnd, AnswerQuery, AnswerCopy,
     OpenPrompt,
     ClosePrompt, TakeAccept, clipVars
<1>4. ASSUME NEW t \in Terminals,
             \/ GainFocus(t) \/ ControlLost(t) \/ Resync(t) \/ TransportLost(t) \/ Reconnect(t)
      PROVE  written' = written
  BY <1>4 DEF GainFocus, ControlLost, Resync, TransportLost, Reconnect, clipVars
<1>5. CASE Keyboard \/ Handlers \/ LoseFocus
  BY <1>5 DEF Keyboard, PressKey, ReleaseKey, ExploreGesture, ContextGesture,
     NavigateGesture, AcceptGesture, CopyGesture, Handlers, RunExplore, FinishExplore,
     EndExploration, StepFailed, RunContext, FinishContext, EndContext, RunNavigate,
     RunAccept, EndChoice, RunCopy, LoseFocus, clipVars
<1>6. QED
  BY <1>1, <1>2, <1>3, <1>4, <1>5 DEF Next

(* A text comes to the clipboard of Windows only in the focus, and in the    *)
(* terminal, it was copied in, whatever arrives late or is lost.             *)
THEOREM ClipboardStaysWhereAsked == Spec => ClipboardOnlyWhereAsked
<1>1. Init => AwaitedHere
  BY DEF Init, AwaitedHere
<1>2. AwaitedHere /\ [Next]_vars => AwaitedHere'
  BY NextAwaited
<1>3. AwaitedHere /\ [Next]_vars
        => [\A r \in written' \ written : r.period = period /\ r.term = focus]_vars
  <2> SUFFICES ASSUME AwaitedHere, Next
               PROVE  \A r \in written' \ written : r.period = period /\ r.term = focus
    OBVIOUS
  <2> QED
    BY WritesAwaited DEF AwaitedHere
<1>4. QED
  BY <1>1, <1>2, <1>3, PTL DEF Spec, ClipboardOnlyWhereAsked

-----------------------------------------------------------------------------
(* The developer context.                                                    *)

ContextGood ==
  /\ context = [t \in Terminals |-> context[t]]
  /\ view # None => view.term \in Terminals
  /\ ViewIsCurrent

LEMMA CancelKeeps ==
  ASSUME ContextGood, CancelContext, UNCHANGED <<focus, active, known>>
  PROVE  ContextGood'
<1>1. CASE view' = None
  BY <1>1 DEF ContextGood, CancelContext, ViewIsCurrent, contextVars
<1>2. CASE UNCHANGED contextVars
  BY <1>2 DEF ContextGood, ViewIsCurrent, contextVars
<1>3. QED
  BY <1>1, <1>2 DEF CancelContext, Dismiss

LEMMA CancelEnds ==
  ASSUME Good, ContextGood, CancelContext
  PROVE  view' = None /\ context' = [t \in Terminals |-> context'[t]]
<1>1. CASE active # None /\ context[active] # None
  BY <1>1 DEF CancelContext, Dismiss, ContextGood
<1>2. CASE ~(active # None /\ context[active] # None)
  <2>1. None \notin Terminals
    BY SessionAssumption
  <2>2. view = None
    BY <1>2, <2>1 DEF ContextGood, ViewIsCurrent
  <2>3. QED
    BY <1>2, <2>2 DEF CancelContext, contextVars, ContextGood
<1>3. QED
  BY <1>1, <1>2

LEMMA LearnKeeps ==
  ASSUME Good, ContextGood, NEW t \in Terminals, NEW at, Learn(t, at), UNCHANGED focus,
         focus = t, active' = t
  PROVE  ContextGood'
<1>1. known' = [known EXCEPT ![t] = at] /\ known'[t] = at
  BY DEF Learn, Good, PlacesGood
<1>2. CASE Stale(t, at)
  BY <1>2 DEF Learn, Dismiss, ContextGood, ViewIsCurrent
<1>3. CASE ~Stale(t, at)
  BY <1>1, <1>3 DEF Learn, Stale, contextVars, ContextGood, ViewIsCurrent
<1>4. QED
  BY <1>2, <1>3

LEMMA EventContext ==
  ASSUME Good, ContextGood, NEW t \in Terminals, Events(t)
  PROVE  ContextGood'
<1>1. CASE UNCHANGED <<focus, active, known, contextVars>>
  BY <1>1 DEF contextVars, ContextGood, ViewIsCurrent
<1>2. CASE TakeFocus(t)
  <2>1. CASE focus = t /\ Head(inbox[t]).period = period
    BY <1>2, <2>1, LearnKeeps DEF TakeFocus, Select
  <2>2. CASE ~(focus = t /\ Head(inbox[t]).period = period)
    BY <1>1, <1>2, <2>2 DEF TakeFocus
  <2>3. QED
    BY <2>1, <2>2
<1>3. CASE TakeState(t)
  BY <1>1, <1>3, LearnKeeps DEF TakeState, InNeovim
<1>4. CASE TakeText(t)
  BY <1>1, <1>4, LearnKeeps DEF TakeText, Awaited, InNeovim
<1>5. CASE TakeAnswer(t)
  <2>1. CASE UNCHANGED contextVars
    BY <1>1, <1>5, <2>1 DEF TakeAnswer, focusVars
  <2>2. CASE CancelContext
    BY <1>5, <2>2, CancelKeeps DEF TakeAnswer, focusVars
  <2>3. CASE /\ InNeovim(t) /\ context[t] # None /\ Accepts(t, Head(inbox[t]))
             /\ Show(t, Head(inbox[t]).at) /\ UNCHANGED context
    BY <1>5, <2>3 DEF TakeAnswer, InNeovim, Accepts, Show, ContextGood, ViewIsCurrent, focusVars
  <2>4. QED
    BY <1>5, <2>1, <2>2, <2>3 DEF TakeAnswer
<1>6. CASE TakeLost(t)
  <2>1. CASE focus = t
    BY <1>6, <2>1 DEF TakeLost, Dismiss, ContextGood, ViewIsCurrent
  <2>2. CASE focus # t
    BY <1>1, <1>6, <2>2 DEF TakeLost, contextVars
  <2>3. QED
    BY <2>1, <2>2
<1>7. CASE TakeResult(t) \/ TakeOpened(t) \/ TakeClosed(t)
  BY <1>1, <1>7 DEF TakeResult, TakeOpened, TakeClosed, focusVars
<1>8. QED
  BY <1>2, <1>3, <1>4, <1>5, <1>6, <1>7 DEF Events

LEMMA NextContext ==
  ASSUME Good, ContextGood, [Next]_vars
  PROVE  ContextGood'
<1>1. CASE UNCHANGED <<focus, active, known, contextVars>>
  BY <1>1 DEF contextVars, ContextGood, ViewIsCurrent
<1>2. CASE LoseFocus \/ \E t \in Terminals : GainFocus(t)
  BY <1>2, CancelEnds DEF LoseFocus, GainFocus, DiscardTransient, ContextGood, ViewIsCurrent
<1>3. CASE RunContext
  <2> DEFINE t == Head(calls).term
  <2>1. CASE UNCHANGED contextVars
    BY <1>1, <1>3, <2>1 DEF RunContext, focusVars
  <2>2. CASE /\ Begin(t, Head(calls).number) \/ context' = [context EXCEPT ![t] = None]
             /\ view' = IF context[t] = None THEN view ELSE None
    BY <1>3, <2>2 DEF RunContext, Begin, focusVars, ContextGood, ViewIsCurrent
  <2>3. QED
    BY <1>3, <2>1, <2>2 DEF RunContext
<1>4. CASE FinishContext \/ EndContext
  BY <1>1, <1>4, CancelKeeps DEF FinishContext, EndContext, focusVars
<1>5. ASSUME NEW t \in Terminals, Reconnect(t)
      PROVE  ContextGood'
  BY <1>5, LearnKeeps DEF Reconnect, Select
<1>6. ASSUME NEW t \in Terminals, Editor(t) \/ ControlLost(t) \/ Resync(t) \/ TransportLost(t)
      PROVE  UNCHANGED <<focus, active, known, contextVars>>
  <2>1. CASE EditorMoves(t)
    BY <2>1 DEF EditorMoves, focusVars
  <2>2. CASE ~EditorMoves(t)
    BY <1>6, <2>2 DEF Editor, CopyState, AnswerState, TakeStep, TakeEnd, AnswerQuery, AnswerCopy,
       OpenPrompt, ClosePrompt, TakeAccept, ControlLost, Resync, TransportLost, focusVars
  <2>3. QED
    BY <2>1, <2>2
<1>7. CASE Keyboard \/ UNCHANGED vars \/ RunExplore \/ FinishExplore \/ EndExploration
           \/ StepFailed \/ RunNavigate \/ RunAccept \/ EndChoice \/ RunCopy
  BY <1>1, <1>7 DEF Keyboard, PressKey, ReleaseKey, ExploreGesture, ContextGesture,
     NavigateGesture, AcceptGesture, CopyGesture, RunExplore, FinishExplore, EndExploration,
     StepFailed, RunNavigate, RunAccept, EndChoice, RunCopy, focusVars, vars
<1>8. QED
  BY <1>1, <1>2, <1>3, <1>4, <1>5, <1>6, <1>7, EventContext DEF Next, Handlers

(* What Braille shows of the developer context is about the focused terminal *)
(* and the place its cursor is known to be at.                               *)
THEOREM ViewStaysCurrent == Spec => []ViewIsCurrent
<1>1. Init => ContextGood
  BY DEF Init, ContextGood, ViewIsCurrent
<1>2. Good /\ ContextGood /\ [Next]_vars => ContextGood'
  BY NextContext
<1>3. ContextGood => ViewIsCurrent
  BY DEF ContextGood
<1>4. QED
  BY <1>1, <1>2, <1>3, InitGood, NextGood, PTL DEF Spec

-----------------------------------------------------------------------------
(* The exploration and its requests.                                         *)

(* The requests of one exploration, in the order asked.                      *)
Own(queue, step) ==
  \A i \in DOMAIN queue : /\ queue[i].id = step.id /\ queue[i].index <= step.index
                          /\ \A j \in 1..(i - 1) : queue[j].index < queue[i].index

ExplorationGood ==
  /\ exploration \in Explorations \cup {None} /\ explorations \in Nat
  /\ pending \in Seq(Asked)
  /\ exploration # None => Available(exploration.term)
  /\ IF exploration = None THEN pending = <<>> ELSE Own(pending, exploration)

LEMMA OwnAppend ==
  ASSUME NEW queue \in Seq(Asked), NEW old \in Explorations, Own(queue, old),
         NEW step \in Explorations, step.id = old.id, step.index = old.index + 1
  PROVE  Own(Append(queue, Request(step)), step)
<1> DEFINE more == Append(queue, Request(step))
<1>1. /\ more \in Seq(Asked) /\ Len(more) = Len(queue) + 1 /\ more[Len(more)] = Request(step)
      /\ \A i \in 1..Len(queue) : more[i] = queue[i]
  BY DEF Request, Asked, Explorations
<1>2. \A i \in 1..Len(queue) : queue[i].index \in Nat /\ queue[i].index <= old.index
                               /\ queue[i].id = old.id
  <2>1. ASSUME NEW i \in 1..Len(queue)
        PROVE  queue[i].index \in Nat /\ queue[i].index <= old.index /\ queue[i].id = old.id
    <3>1. i \in DOMAIN queue /\ queue[i] \in Asked
      BY <2>1
    <3>2. QED
      BY <3>1 DEF Own, Asked
  <2>2. QED
    BY <2>1
<1>3. old.index \in Nat /\ step.index \in Nat
  BY DEF Explorations
<1> HIDE DEF more
<1>4. \A i \in 1..Len(queue) : queue[i].index < step.index
  BY <1>2, <1>3
<1>5. \A i \in DOMAIN more : more[i].id = step.id /\ more[i].index <= step.index
  BY <1>1, <1>2, <1>3, <1>4 DEF Request
<1>6. ASSUME NEW i \in DOMAIN more, NEW j \in 1..(i - 1)
      PROVE  more[j].index < more[i].index
  <2>1. CASE i = Len(more)
    BY <1>1, <1>4, <1>6, <2>1 DEF Request
  <2>2. CASE i # Len(more)
    <3>1. i \in 1..Len(queue) /\ j \in 1..Len(queue)
      BY <1>1, <1>6, <2>2
    <3>2. queue[j].index < queue[i].index
      BY <1>6, <3>1 DEF Own
    <3>3. QED
      BY <1>1, <3>1, <3>2
  <2>3. QED
    BY <2>1, <2>2
<1>7. QED
  BY <1>5, <1>6 DEF Own, more

(* What is left of a queue when some of it is taken away is in order still.  *)
LEMMA OwnPart ==
  ASSUME NEW queue \in Seq(Asked), NEW step, Own(queue, step), NEW part \in Seq(Asked),
         NEW from \in [DOMAIN part -> DOMAIN queue],
         \A i \in DOMAIN part : part[i] = queue[from[i]],
         \A i \in DOMAIN part : \A j \in 1..(i - 1) : from[j] < from[i]
  PROVE  Own(part, step)
<1>1. ASSUME NEW i \in DOMAIN part
      PROVE  part[i].id = step.id /\ part[i].index <= step.index
  BY <1>1 DEF Own
<1>2. ASSUME NEW i \in DOMAIN part, NEW j \in 1..(i - 1)
      PROVE  part[j].index < part[i].index
  <2>1. j \in DOMAIN part /\ from[j] \in DOMAIN queue /\ from[i] \in DOMAIN queue
        /\ from[j] < from[i]
    BY <1>2
  <2>2. from[j] \in 1..(from[i] - 1)
    BY <2>1
  <2>3. queue[from[j]].index < queue[from[i]].index
    BY <2>1, <2>2 DEF Own
  <2>4. QED
    BY <1>2, <2>1, <2>3
<1>3. QED
  BY <1>1, <1>2 DEF Own

LEMMA OwnRemembered ==
  ASSUME NEW queue \in Seq(Asked), queue # <<>>, NEW step, Own(queue, step)
  PROVE  Remembered(queue) \in Seq(Asked) /\ Own(Remembered(queue), step)
<1> DEFINE first == IF Len(queue) > MaxPending THEN Len(queue) - MaxPending + 1 ELSE 1
           part == SubSeq(queue, first, Len(queue))
           from == [i \in DOMAIN part |-> first + i - 1]
<1>1. first \in 1..Len(queue)
  BY SessionAssumption
<1> HIDE DEF first
<1>2. /\ part \in Seq(Asked) /\ Len(part) = Len(queue) - first + 1
      /\ \A i \in 1..Len(part) : part[i] = queue[first + i - 1]
  BY <1>1
<1> HIDE DEF part
<1>3. from \in [DOMAIN part -> DOMAIN queue]
  BY <1>1, <1>2
<1>4. \A i \in DOMAIN part : from[i] = first + i - 1
  OBVIOUS
<1> HIDE DEF from
<1>5. \A i \in DOMAIN part : \A j \in 1..(i - 1) : from[j] < from[i]
  <2>1. ASSUME NEW i \in DOMAIN part, NEW j \in 1..(i - 1)
        PROVE  from[j] < from[i]
    <3>1. i \in Nat /\ j \in Nat /\ j < i /\ j \in DOMAIN part /\ first \in Nat
      BY <1>1, <1>2, <2>1
    <3>2. QED
      BY <1>4, <2>1, <3>1
  <2>2. QED
    BY <2>1
<1>6. \A i \in DOMAIN part : part[i] = queue[from[i]]
  BY <1>2, <1>4
<1>7. Own(part, step)
  BY <1>2, <1>3, <1>5, <1>6, OwnPart
<1>8. QED
  BY <1>2, <1>7 DEF part, first, Remembered

LEMMA OwnRemoved ==
  ASSUME NEW queue \in Seq(Asked), NEW step, Own(queue, step), NEW k \in DOMAIN queue
  PROVE  /\ RemoveAt(queue, k) \in Seq(Asked) /\ Own(RemoveAt(queue, k), step)
         /\ Len(RemoveAt(queue, k)) = Len(queue) - 1
<1> DEFINE part == RemoveAt(queue, k)
           from == [i \in DOMAIN part |-> IF i < k THEN i ELSE i + 1]
<1>1. /\ part \in Seq(Asked) /\ Len(part) = Len(queue) - 1
      /\ \A i \in 1..Len(part) : part[i] = queue[IF i < k THEN i ELSE i + 1]
  <2> DEFINE before == SubSeq(queue, 1, k - 1)
             after == SubSeq(queue, k + 1, Len(queue))
  <2>1. k \in 1..Len(queue) /\ Len(queue) \in Nat
    OBVIOUS
  <2>2. /\ before \in Seq(Asked) /\ Len(before) = k - 1
        /\ \A i \in 1..(k - 1) : before[i] = queue[i]
    BY <2>1
  <2>3. /\ after \in Seq(Asked) /\ Len(after) = Len(queue) - k
        /\ \A i \in 1..(Len(queue) - k) : after[i] = queue[k + i]
    BY <2>1
  <2>4. part = before \o after
    BY DEF RemoveAt
  <2> HIDE DEF before, after, part
  <2>5. /\ part \in Seq(Asked) /\ Len(part) = Len(queue) - 1
        /\ \A i \in 1..(k - 1) : part[i] = before[i]
        /\ \A i \in k..(Len(queue) - 1) : part[i] = after[i - (k - 1)]
    <3>1. /\ part \in Seq(Asked) /\ Len(part) = Len(before) + Len(after)
          /\ \A i \in 1..(Len(before) + Len(after)) :
               part[i] = IF i <= Len(before) THEN before[i] ELSE after[i - Len(before)]
      BY <2>2, <2>3, <2>4, ConcatProperties
    <3>2. Len(part) = Len(queue) - 1 /\ Len(before) + Len(after) = Len(queue) - 1
      BY <2>1, <2>2, <2>3, <3>1
    <3>3. \A i \in 1..(k - 1) : part[i] = before[i]
      BY <2>1, <2>2, <3>1, <3>2
    <3>4. \A i \in k..(Len(queue) - 1) : part[i] = after[i - (k - 1)]
      BY <2>1, <2>2, <3>1, <3>2
    <3>5. QED
      BY <3>1, <3>2, <3>3, <3>4
  <2>6. ASSUME NEW i \in 1..Len(part)
        PROVE  part[i] = queue[IF i < k THEN i ELSE i + 1]
    <3>1. CASE i < k
      BY <2>1, <2>2, <2>5, <3>1
    <3>2. CASE i >= k
      <4>1. i \in k..(Len(queue) - 1) /\ i - (k - 1) \in 1..(Len(queue) - k)
            /\ k + (i - (k - 1)) = i + 1
        BY <2>1, <2>5, <3>2
      <4>2. part[i] = queue[k + (i - (k - 1))]
        BY <2>3, <2>5, <4>1
      <4>3. QED
        BY <2>1, <3>2, <4>1, <4>2
    <3>3. QED
      BY <2>1, <2>5, <3>1, <3>2
  <2>7. QED
    BY <2>5, <2>6
<1> HIDE DEF part
<1>2. from \in [DOMAIN part -> DOMAIN queue]
  BY <1>1
<1>3. \A i \in DOMAIN part : from[i] = IF i < k THEN i ELSE i + 1
  OBVIOUS
<1> HIDE DEF from
<1>4. \A i \in DOMAIN part : \A j \in 1..(i - 1) : from[j] < from[i]
  BY <1>1, <1>3
<1>5. \A i \in DOMAIN part : part[i] = queue[from[i]]
  BY <1>1, <1>3
<1>6. Own(part, step)
  BY <1>1, <1>2, <1>4, <1>5, OwnPart
<1>7. QED
  BY <1>1, <1>6 DEF part

LEMMA ForgetGood ==
  ASSUME ExplorationGood, Forget, UNCHANGED explorations
  PROVE  ExplorationGood'
  BY SessionAssumption DEF Forget, ExplorationGood

LEMMA PlanGood ==
  ASSUME Good, ExplorationGood, NEW t \in Terminals, PlanStep(t), Available(t),
         ~Misplaced(t), UNCHANGED focusVars
  PROVE  ExplorationGood'
<1> DEFINE step == NextStep(t)
<1>1. /\ exploration' = step /\ explorations' = step.id
      /\ pending' = Remembered(Append(pending, Request(step)))
  BY DEF PlanStep
<1>2. step \in Explorations
  <2>1. CASE exploration = None
    BY <2>1, SessionAssumption DEF NextStep, Explorations, ExplorationGood, Good, PlacesGood,
       Places
  <2>2. CASE exploration # None
    BY <2>2 DEF NextStep, Explorations, ExplorationGood
  <2>3. QED
    BY <2>1, <2>2
<1>3. Own(Append(pending, Request(step)), step)
  <2>1. CASE exploration = None
    <3>1. pending = <<>> /\ Append(pending, Request(step)) = <<Request(step)>>
      BY <2>1 DEF ExplorationGood
    <3>2. step.index \in Nat
      BY <1>2 DEF Explorations
    <3>3. QED
      BY <3>1, <3>2 DEF Own, Request
  <2>2. CASE exploration # None
    <3>1. step.id = exploration.id /\ step.index = exploration.index + 1
      BY <2>2 DEF NextStep, ExplorationGood, Explorations
    <3> HIDE DEF step
    <3>2. QED
      BY <1>2, <2>2, <3>1, OwnAppend DEF ExplorationGood
  <2>3. QED
    BY <2>1, <2>2
<1> HIDE DEF step
<1>4. Append(pending, Request(step)) \in Seq(Asked) /\ Append(pending, Request(step)) # <<>>
  <2>1. Request(step) \in Asked
    BY <1>2 DEF Request, Asked, Explorations
  <2>2. QED
    BY <2>1 DEF ExplorationGood
<1>5. pending' \in Seq(Asked) /\ Own(pending', step)
  BY <1>1, <1>3, <1>4, OwnRemembered
<1>6. step # None /\ step.id \in Nat
  BY <1>2, SessionAssumption DEF Explorations
<1>7. step.term = t
  BY DEF NextStep, Misplaced, Underway, ExplorationGood, Explorations, step
<1>8. QED
  BY <1>1, <1>2, <1>5, <1>6, <1>7 DEF ExplorationGood, Available, InNeovim, focusVars

LEMMA NextExploration ==
  ASSUME Good, ExplorationGood, [Next]_vars
  PROVE  ExplorationGood'
<1>1. CASE UNCHANGED <<exploration, explorations, pending, focus, confirmed, active, online>>
  BY <1>1 DEF ExplorationGood, Available, InNeovim
<1>2. CASE RunExplore
  <2> DEFINE t == Head(calls).term
  <2>1. CASE Available(t) /\ ~Misplaced(t) /\ PlanStep(t)
    <3>1. t \in Terminals /\ UNCHANGED focusVars
      BY <1>2, <2>1 DEF RunExplore, Available, InNeovim, Good, FocusGood
    <3> HIDE DEF t
    <3>2. QED
      BY <2>1, <3>1, PlanGood
  <2>2. CASE Available(t) /\ Forget /\ explorations' = NextStep(t).id
    <3>1. t \in Terminals
      BY <2>2 DEF Available, InNeovim, Good, FocusGood
    <3> HIDE DEF t
    <3>2. NextStep(t).id \in Nat
      BY <3>1 DEF NextStep, ExplorationGood, Explorations
    <3>3. QED
      BY <2>2, <3>2 DEF Forget, ExplorationGood
  <2>3. CASE Forget /\ UNCHANGED explorations
    BY <2>3, ForgetGood
  <2>4. QED
    BY <1>2, <2>1, <2>2, <2>3 DEF RunExplore
<1>3. CASE FinishExplore \/ EndExploration \/ StepFailed \/ RunContext \/ LoseFocus
  BY <1>1, <1>3, ForgetGood DEF FinishExplore, EndExploration, Release, StepFailed, RunContext,
     LoseFocus, DiscardTransient, exploreVars, focusVars
<1>4. ASSUME NEW t \in Terminals,
             \/ GainFocus(t) \/ TransportLost(t) \/ Reconnect(t)
             \/ TakeFocus(t) \/ TakeLost(t)
      PROVE  ExplorationGood'
  <2>1. UNCHANGED explorations
    BY <1>4 DEF GainFocus, TransportLost, Reconnect, TakeFocus, TakeLost
  <2>2. \/ Forget
        \/ /\ UNCHANGED <<exploration, pending>>
           /\ exploration # None => Available(exploration.term)'
    <3>1. CASE GainFocus(t)
      BY <3>1 DEF GainFocus, DiscardTransient
    <3>2. CASE TransportLost(t)
      BY <3>2 DEF TransportLost, MarkDisconnected, ExplorationGood, Available, InNeovim
    <3>3. CASE Reconnect(t)
      BY <3>3 DEF Reconnect, Select, ExplorationGood, Available, InNeovim
    <3>4. CASE TakeFocus(t)
      BY <3>4 DEF TakeFocus, Select, ExplorationGood, Available, InNeovim
    <3>5. CASE TakeLost(t)
      BY <3>5 DEF TakeLost, ExplorationGood, Available, InNeovim
    <3>6. QED
      BY <1>4, <3>1, <3>2, <3>3, <3>4, <3>5
  <2>3. QED
    BY <2>1, <2>2, ForgetGood DEF ExplorationGood
<1>5. ASSUME NEW t \in Terminals, TakeResult(t)
      PROVE  ExplorationGood'
  <2>1. \/ UNCHANGED <<exploration, pending>> \/ Forget
        \/ /\ exploration # None /\ UNCHANGED exploration
           /\ \E k \in DOMAIN pending : pending' = RemoveAt(pending, k)
    BY <1>5 DEF TakeResult, Fits
  <2>2. UNCHANGED <<explorations, focus, confirmed, active, online>>
    BY <1>5 DEF TakeResult, focusVars
  <2>3. ASSUME exploration # None, UNCHANGED exploration,
               NEW k \in DOMAIN pending, pending' = RemoveAt(pending, k)
        PROVE  ExplorationGood'
    <3>1. pending' \in Seq(Asked) /\ Own(pending', exploration)
      BY <2>3, OwnRemoved DEF ExplorationGood
    <3>2. QED
      BY <2>2, <2>3, <3>1 DEF ExplorationGood, Available, InNeovim
  <2>4. QED
    BY <1>1, <2>1, <2>2, <2>3, ForgetGood
<1>6. ASSUME NEW t \in Terminals, Editor(t) \/ ControlLost(t) \/ Resync(t)
      PROVE  UNCHANGED <<exploration, explorations, pending, focus, confirmed, active, online>>
  <2>1. CASE EditorMoves(t)
    BY <2>1 DEF EditorMoves, exploreVars, focusVars
  <2>2. CASE ~EditorMoves(t)
    BY <1>6, <2>2 DEF Editor, CopyState, AnswerState, TakeStep, TakeEnd, AnswerQuery, AnswerCopy,
       OpenPrompt, ClosePrompt, TakeAccept, ControlLost, Resync, exploreVars,
       focusVars
  <2>3. QED
    BY <2>1, <2>2
<1>7. ASSUME NEW t \in Terminals,
             TakeState(t) \/ TakeAnswer(t) \/ TakeOpened(t) \/ TakeClosed(t) \/ TakeText(t)
      PROVE  ExplorationGood'
  BY <1>1, <1>7 DEF TakeState, TakeAnswer, TakeOpened, TakeClosed, TakeText, exploreVars,
     focusVars
<1>8. CASE Keyboard \/ UNCHANGED vars \/ FinishContext \/ EndContext
           \/ RunNavigate \/ RunAccept \/ EndChoice \/ RunCopy
  BY <1>1, <1>8 DEF Keyboard, PressKey, ReleaseKey, ExploreGesture, ContextGesture,
     NavigateGesture, AcceptGesture, CopyGesture, FinishContext, EndContext, RunNavigate,
     RunAccept, EndChoice, RunCopy, exploreVars, focusVars, vars
<1>9. QED
  BY <1>1, <1>2, <1>3, <1>4, <1>5, <1>6, <1>7, <1>8 DEF Next, Handlers, Events

(* Whatever was forgotten, lost or overtaken, an exploration is under way in *)
(* the pane that is focused, confirmed and connected only, and NVDA waits for*)
(* its own steps, in the order they were asked.                              *)
THEOREM PendingStaysOwn == Spec => []PendingIsOwn
<1>1. Init => ExplorationGood
  BY DEF Init, ExplorationGood
<1>2. Good /\ ExplorationGood /\ [Next]_vars => ExplorationGood'
  BY NextExploration
<1>3. ExplorationGood => PendingIsOwn
  BY DEF ExplorationGood, Own, PendingIsOwn
<1>4. QED
  BY <1>1, <1>2, <1>3, InitGood, NextGood, PTL DEF Spec

LEMMA SpeaksReached ==
  ASSUME Good, NEW t \in Terminals, TakeResult(t), spoken' # spoken
  PROVE  focus' = spoken'.term /\ confirmed' /\ spoken'.moved = spoken'.index
<1> DEFINE event == Head(inbox[t])
<1>1. /\ Available(t) /\ Fits(t, event)
      /\ spoken' = [id |-> event.id, index |-> event.index, moved |-> event.moved,
                    at |-> event.at, term |-> t]
      /\ UNCHANGED <<focus, confirmed>>
  BY DEF TakeResult, focusVars
<1>2. Honest(event) /\ event.kind = "result"
  BY TakenKeeps DEF TakeResult, Good
<1>3. event.moved = event.index
  BY <1>1, <1>2 DEF Fits, Honest
<1>4. focus' = t /\ confirmed'
  BY <1>1 DEF Available, InNeovim
<1>5. QED
  BY <1>1, <1>3, <1>4

(* A result is spoken for the pane in the foreground, and only when Neovim   *)
(* has made every step of the exploration up to it, whatever was lost,       *)
(* refused, answered late or moved meanwhile.                                *)
THEOREM SpeaksWhatIsReached == Spec => SpokenIsReached
<1>1. Good /\ [Next]_vars
        => [spoken' # spoken => /\ focus' = spoken'.term /\ confirmed'
                                /\ spoken'.moved = spoken'.index]_vars
  <2> SUFFICES ASSUME Good, Next, spoken' # spoken
               PROVE  focus' = spoken'.term /\ confirmed' /\ spoken'.moved = spoken'.index
    OBVIOUS
  <2>1. ASSUME NEW t \in Terminals, Editor(t) \/ ControlLost(t) \/ Resync(t)
        PROVE  spoken' = spoken
    <3>1. CASE EditorMoves(t)
      BY <3>1 DEF EditorMoves, exploreVars
    <3>2. CASE ~EditorMoves(t)
      BY <2>1, <3>2 DEF Editor, CopyState, AnswerState, TakeStep, TakeEnd, AnswerQuery,
         AnswerCopy,
         OpenPrompt, ClosePrompt, TakeAccept, ControlLost, Resync, exploreVars
    <3>3. QED
      BY <3>1, <3>2
  <2>2. CASE Keyboard \/ Handlers \/ LoseFocus
    BY <2>2 DEF Keyboard, PressKey, ReleaseKey, ExploreGesture, ContextGesture,
       NavigateGesture, AcceptGesture, CopyGesture, Handlers, RunExplore, PlanStep,
       FinishExplore, EndExploration, StepFailed, RunContext, FinishContext, EndContext,
       RunNavigate, RunAccept, EndChoice, RunCopy, LoseFocus, exploreVars
  <2>3. ASSUME NEW t \in Terminals,
               GainFocus(t) \/ TransportLost(t) \/ Reconnect(t) \/ (Events(t) /\ ~TakeResult(t))
        PROVE  spoken' = spoken
    BY <2>3 DEF GainFocus, TransportLost, Reconnect, Events, TakeFocus, TakeState, TakeAnswer,
       TakeOpened, TakeClosed, TakeText, TakeLost, exploreVars
  <2>4. QED
    BY <2>1, <2>2, <2>3, SpeaksReached DEF Next
<1>2. QED
  BY <1>1, InitGood, NextGood, PTL DEF Spec, SpokenIsReached

-----------------------------------------------------------------------------
(* The handlers' queue: a gesture's number is its own, later gestures have   *)
(* later ones, and no exploration has made more steps than it had gestures.  *)

Gestures == {"explore", "context", "navigate", "accept", "copy"}
Made(call) == call.kind \in Gestures

InTurn(queue, low, high) ==
  /\ low \in Nat /\ high \in Nat /\ low <= high
  /\ \E S : queue \in Seq(S)
  /\ \A k \in 1..Len(queue) : Made(queue[k]) => queue[k].number \in low..(high - 1)
  /\ \A k \in 1..Len(queue) : \A j \in 1..(k - 1) :
       Made(queue[j]) /\ Made(queue[k]) => queue[j].number < queue[k].number

Reached(low) ==
  /\ explorations \in Nat /\ explorations <= low
  /\ exploration # None => /\ exploration.id = explorations /\ exploration.id \in Nat \ {0}
                           /\ exploration.index \in Nat \ {0} /\ exploration.index <= low

CallsGood ==
  /\ gestures \in Numbers
  /\ \E low \in Nat : Reached(low) /\ InTurn(calls, low, gestures)

LEMMA TurnAppend ==
  ASSUME NEW queue, NEW low, NEW high, InTurn(queue, low, high), NEW call, ~Made(call)
  PROVE  InTurn(Append(queue, call), low, high)
<1>1. PICK S : queue \in Seq(S)
  BY DEF InTurn
<1>2. Append(queue, call) \in Seq(S \cup {call})
  BY <1>1
<1>3. /\ Len(Append(queue, call)) = Len(queue) + 1 /\ Len(queue) \in Nat
      /\ \A k \in 1..Len(queue) : Append(queue, call)[k] = queue[k]
      /\ Append(queue, call)[Len(queue) + 1] = call
  BY <1>1
<1> HIDE DEF Made
<1> DEFINE more == Append(queue, call)
<1> HIDE DEF more
<1>4. low \in Nat /\ high \in Nat /\ high \in Nat /\ low <= high
  BY DEF InTurn
<1>5. \A k \in 1..Len(more) : k \in 1..Len(queue) \/ k = Len(queue) + 1
  BY <1>3 DEF more
<1>6. \A k \in 1..Len(queue) : Made(queue[k]) => queue[k].number \in low..(high - 1)
  BY DEF InTurn
<1>7. \A k \in 1..Len(more) : Made(more[k]) => more[k].number \in low..(high - 1)
  BY <1>3, <1>4, <1>5, <1>6 DEF more
<1>8. ASSUME NEW k \in 1..Len(more), NEW j \in 1..(k - 1), Made(more[j]), Made(more[k])
      PROVE  more[j].number < more[k].number
  <2>1. CASE k \in 1..Len(queue)
    <3>1. j \in 1..Len(queue) /\ more[j] = queue[j] /\ more[k] = queue[k]
      BY <1>3, <1>8, <2>1 DEF more
    <3>2. QED
      BY <1>8, <2>1, <3>1 DEF InTurn
  <2>2. CASE k = Len(queue) + 1
    BY <1>3, <1>8, <2>2 DEF more
  <2>3. QED
    BY <1>5, <2>1, <2>2
<1>9. QED
  BY <1>2, <1>4, <1>7, <1>8 DEF InTurn, more

LEMMA TurnGesture ==
  ASSUME NEW queue, NEW low, NEW high, InTurn(queue, low, high), NEW call, call.number = high
  PROVE  InTurn(Append(queue, call), low, high + 1)
<1>1. PICK S : queue \in Seq(S)
  BY DEF InTurn
<1>2. Append(queue, call) \in Seq(S \cup {call})
  BY <1>1
<1>3. /\ Len(Append(queue, call)) = Len(queue) + 1 /\ Len(queue) \in Nat
      /\ \A k \in 1..Len(queue) : Append(queue, call)[k] = queue[k]
      /\ Append(queue, call)[Len(queue) + 1] = call
  BY <1>1
<1> HIDE DEF Made
<1> DEFINE more == Append(queue, call)
<1> HIDE DEF more
<1>4. low \in Nat /\ high \in Nat /\ high + 1 \in Nat /\ low <= high /\ low <= high + 1
  BY DEF InTurn
<1>5. \A k \in 1..Len(more) : k \in 1..Len(queue) \/ k = Len(queue) + 1
  BY <1>3 DEF more
<1>6. \A k \in 1..Len(queue) : Made(queue[k]) => queue[k].number \in low..(high - 1)
  BY DEF InTurn
<1>7. ASSUME NEW k \in 1..Len(more), Made(more[k])
      PROVE  more[k].number \in low..high
  <2>1. CASE k \in 1..Len(queue)
    <3>1. queue[k].number \in low..(high - 1)
      BY <1>3, <1>6, <1>7, <2>1 DEF more
    <3>2. QED
      BY <1>3, <1>4, <2>1, <3>1 DEF more
  <2>2. CASE k = Len(queue) + 1
    <3>1. more[k] = call
      BY <1>3, <2>2 DEF more
    <3>2. QED
      BY <1>4, <3>1
  <2>3. QED
    BY <1>5, <2>1, <2>2
<1>8. ASSUME NEW k \in 1..Len(more), NEW j \in 1..(k - 1), Made(more[j]), Made(more[k])
      PROVE  more[j].number < more[k].number
  <2>1. CASE k \in 1..Len(queue)
    <3>1. j \in 1..Len(queue) /\ more[j] = queue[j] /\ more[k] = queue[k]
      BY <1>3, <1>8, <2>1 DEF more
    <3>2. QED
      BY <1>8, <2>1, <3>1 DEF InTurn
  <2>2. CASE k = Len(queue) + 1
    <3>1. j \in 1..Len(queue) /\ more[j] = queue[j] /\ more[k] = call
      BY <1>3, <1>8, <2>2 DEF more
    <3>2. QED
      BY <1>4, <1>6, <1>8, <3>1
  <2>3. QED
    BY <1>5, <2>1, <2>2
<1>9. low..high = low..(high + 1 - 1)
  BY <1>4
<1>10. /\ \A k \in 1..Len(more) : Made(more[k]) => more[k].number \in low..(high + 1 - 1)
       /\ \A k \in 1..Len(more) : \A j \in 1..(k - 1) :
            Made(more[j]) /\ Made(more[k]) => more[j].number < more[k].number
  BY <1>7, <1>8, <1>9
<1>11. \E T : more \in Seq(T)
  BY <1>2 DEF more
<1>12. InTurn(more, low, high + 1)
  BY <1>4, <1>10, <1>11 DEF InTurn
<1>13. QED
  BY <1>12 DEF more

LEMMA TurnTail ==
  ASSUME NEW queue, NEW low, NEW high, InTurn(queue, low, high), queue # <<>>
  PROVE  /\ InTurn(Tail(queue), low, high)
         /\ Made(Head(queue)) => /\ Head(queue).number \in low..(high - 1)
                                 /\ InTurn(Tail(queue), Head(queue).number + 1, high)
<1>1. PICK S : queue \in Seq(S)
  BY DEF InTurn
<1>2. /\ Tail(queue) \in Seq(S) /\ Len(queue) \in Nat \ {0} /\ Len(Tail(queue)) = Len(queue) - 1
      /\ \A k \in 1..(Len(queue) - 1) : Tail(queue)[k] = queue[k + 1]
      /\ Head(queue) = queue[1]
  BY <1>1
<1> HIDE DEF Made
<1>3. InTurn(Tail(queue), low, high)
  BY <1>2 DEF InTurn
<1>4. ASSUME Made(Head(queue))
      PROVE  /\ Head(queue).number \in low..(high - 1)
             /\ InTurn(Tail(queue), Head(queue).number + 1, high)
  <2> DEFINE number == Head(queue).number
  <2>1. number \in low..(high - 1) /\ low \in Nat /\ high \in Nat
    BY <1>2, <1>4 DEF InTurn
  <2>2. \A k \in 1..Len(Tail(queue)) :
          Made(Tail(queue)[k]) => number < Tail(queue)[k].number
    <3>1. \A k \in 2..Len(queue) : Made(queue[k]) => number < queue[k].number
      BY <1>2, <1>4 DEF InTurn
    <3>2. QED
      BY <1>2, <3>1
  <2>3. number \in Nat /\ number + 1 \in Nat /\ number + 1 <= high
    BY <2>1
  <2>4. \A k \in 1..Len(Tail(queue)) :
          Made(Tail(queue)[k]) => Tail(queue)[k].number \in (number + 1)..(high - 1)
    BY <1>3, <2>1, <2>2 DEF InTurn
  <2>5. QED
    BY <1>3, <2>1, <2>3, <2>4 DEF InTurn
<1>5. QED
  BY <1>3, <1>4

(* A handler that is called: its number, if it was a gesture's.              *)
LEMMA CallTaken ==
  ASSUME CallsGood, NEW kind, NextCall(kind), calls' = Tail(calls), UNCHANGED gestures,
         \A low \in Nat : Reached(low) => Reached(low)'
  PROVE  CallsGood'
<1>1. PICK low \in Nat : Reached(low) /\ InTurn(calls, low, gestures)
  BY DEF CallsGood
<1>2. InTurn(Tail(calls), low, gestures)
  BY <1>1, TurnTail DEF NextCall
<1>3. QED
  BY <1>1, <1>2 DEF CallsGood

LEMMA CallNumbered ==
  ASSUME CallsGood, NEW kind \in Gestures, NextCall(kind)
  PROVE  Head(calls).number \in Numbers
<1>1. PICK low \in Nat : InTurn(calls, low, gestures)
  BY DEF CallsGood
<1>2. Head(calls).number \in low..(gestures - 1)
  BY <1>1, TurnTail DEF NextCall, Made
<1>3. QED
  BY <1>2, SessionAssumption DEF CallsGood, Numbers

(* What forgets the exploration, or leaves it, has made no step.             *)
LEMMA ForgetReached ==
  ASSUME Forget \/ UNCHANGED exploration, UNCHANGED explorations, NEW low \in Nat, Reached(low)
  PROVE  Reached(low)'
  BY DEF Forget, Reached

LEMMA PlanReached ==
  ASSUME Good, ExplorationGood, CallsGood, NextCall("explore"), calls' = Tail(calls),
         UNCHANGED gestures, NEW t \in Terminals, PlanStep(t)
  PROVE  CallsGood'
<1> DEFINE step == NextStep(t)
<1>1. PICK low \in Nat : Reached(low) /\ InTurn(calls, low, gestures)
  BY DEF CallsGood
<1>2. PICK number \in low..(gestures - 1) : InTurn(Tail(calls), number + 1, gestures)
  BY <1>1, TurnTail DEF NextCall, Made, Gestures
<1>3. exploration' = step /\ explorations' = step.id
  BY DEF PlanStep
<1>4. number + 1 \in Nat /\ low + 1 <= number + 1
  BY <1>2
<1>5. /\ step.id \in Nat \ {0} /\ step.id <= low + 1
      /\ step.index \in Nat \ {0} /\ step.index <= low + 1
  <2>1. CASE exploration = None
    BY <1>1, <2>1 DEF NextStep, Reached
  <2>2. CASE exploration # None
    BY <1>1, <2>2 DEF NextStep, Reached, ExplorationGood, Explorations
  <2>3. QED
    BY <2>1, <2>2
<1> HIDE DEF step
<1>6. Reached(number + 1)'
  BY <1>3, <1>4, <1>5 DEF Reached
<1>7. QED
  BY <1>2, <1>4, <1>6 DEF CallsGood

LEMMA RefusedReached ==
  ASSUME Good, ExplorationGood, CallsGood, NextCall("explore"), calls' = Tail(calls),
         UNCHANGED gestures, NEW t \in Terminals, Forget, explorations' = NextStep(t).id
  PROVE  CallsGood'
<1>1. PICK low \in Nat : Reached(low) /\ InTurn(calls, low, gestures)
  BY DEF CallsGood
<1>2. PICK number \in low..(gestures - 1) : InTurn(Tail(calls), number + 1, gestures)
  BY <1>1, TurnTail DEF NextCall, Made, Gestures
<1>3. explorations' \in Nat /\ explorations' <= low + 1
  BY <1>1 DEF NextStep, Reached, ExplorationGood, Explorations
<1>4. number + 1 \in Nat /\ explorations' <= number + 1
  BY <1>2, <1>3
<1>5. Reached(number + 1)'
  BY <1>3, <1>4 DEF Forget, Reached
<1>6. QED
  BY <1>2, <1>4, <1>5 DEF CallsGood

LEMMA HandlerCalls ==
  ASSUME Good, ExplorationGood, CallsGood, Handlers
  PROVE  CallsGood'
<1>1. CASE RunExplore
  <2> DEFINE t == Head(calls).term
  <2>1. NextCall("explore") /\ calls' = Tail(calls) /\ UNCHANGED gestures
    BY <1>1 DEF RunExplore
  <2>2. CASE Available(t) /\ PlanStep(t)
    <3>1. t \in Terminals
      BY <2>2 DEF Available, InNeovim, Good, FocusGood
    <3> HIDE DEF t
    <3>2. QED
      BY <2>1, <2>2, <3>1, PlanReached
  <2>3. CASE Available(t) /\ Forget /\ explorations' = NextStep(t).id
    <3>1. t \in Terminals
      BY <2>3 DEF Available, InNeovim, Good, FocusGood
    <3> HIDE DEF t
    <3>2. QED
      BY <2>1, <2>3, <3>1, RefusedReached
  <2>4. CASE Forget /\ UNCHANGED explorations
    BY <2>1, <2>4, ForgetReached, CallTaken
  <2>5. QED
    BY <1>1, <2>2, <2>3, <2>4 DEF RunExplore
<1>2. CASE FinishExplore \/ FinishContext
  <2>1. /\ UNCHANGED <<calls, gestures, explorations>> /\ (Forget \/ UNCHANGED exploration)
    BY <1>2 DEF FinishExplore, FinishContext, Release, exploreVars
  <2>2. QED
    BY <2>1, ForgetReached DEF CallsGood
<1>3. CASE \/ EndExploration \/ StepFailed \/ RunContext \/ EndContext \/ RunNavigate
           \/ RunAccept \/ EndChoice \/ RunCopy
  <2>1. \E kind : NextCall(kind)
    BY <1>3 DEF EndExploration, StepFailed, RunContext, EndContext, RunNavigate, RunAccept,
       EndChoice, RunCopy
  <2>2. /\ calls' = Tail(calls) /\ UNCHANGED <<gestures, explorations>>
        /\ Forget \/ UNCHANGED exploration
    BY <1>3 DEF EndExploration, Release, StepFailed, RunContext, EndContext, RunNavigate,
       RunAccept, EndChoice, RunCopy, exploreVars
  <2>3. QED
    BY <2>1, <2>2, ForgetReached, CallTaken
<1>4. QED
  BY <1>1, <1>2, <1>3 DEF Handlers

LEMMA KeyboardCalls ==
  ASSUME CallsGood, Keyboard
  PROVE  CallsGood'
<1>1. PICK low \in Nat : Reached(low) /\ InTurn(calls, low, gestures)
  BY DEF CallsGood
<1>2. UNCHANGED <<exploration, explorations>>
  BY DEF Keyboard, PressKey, ReleaseKey, ExploreGesture, ContextGesture, NavigateGesture,
     AcceptGesture, CopyGesture, exploreVars
<1>3. Reached(low)'
  BY <1>1, <1>2 DEF Reached
<1>4. CASE PressKey
  BY <1>1, <1>3, <1>4 DEF PressKey, CallsGood
<1>5. CASE ReleaseKey
  <2>1. ASSUME NEW queue, InTurn(queue, low, gestures), NEW flag,
               NEW kind \in {"endExploration", "endChoice", "endContext"}
        PROVE  InTurn(queue \o Flagged(flag, kind), low, gestures)
    <3>1. PICK S : queue \in Seq(S)
      BY <2>1 DEF InTurn
    <3>2. CASE flag \in flags
      <4>1. queue \o Flagged(flag, kind) = Append(queue, Call(kind))
        BY <3>1, <3>2 DEF Flagged
      <4>2. ~Made(Call(kind))
        BY DEF Made, Gestures, Call
      <4>3. QED
        BY <2>1, <4>1, <4>2, TurnAppend
    <3>3. CASE flag \notin flags
      BY <2>1, <3>1, <3>3 DEF Flagged
    <3>4. QED
      BY <3>2, <3>3
  <2>2. InTurn(calls', low, gestures)
    <3>1. InTurn(calls \o Flagged("exploration", "endExploration"), low, gestures)
      BY <1>1, <2>1
    <3>2. InTurn(calls \o Flagged("exploration", "endExploration")
                       \o Flagged("choice", "endChoice"), low, gestures)
      BY <2>1, <3>1
    <3>3. InTurn(calls \o Flagged("exploration", "endExploration")
                       \o Flagged("choice", "endChoice")
                       \o Flagged("context", "endContext"), low, gestures)
      BY <2>1, <3>2
    <3>4. QED
      BY <1>5, <3>3 DEF ReleaseKey
  <2>3. QED
    BY <1>3, <1>5, <2>2 DEF ReleaseKey, CallsGood
<1>6. CASE \/ ExploreGesture \/ ContextGesture \/ NavigateGesture \/ AcceptGesture \/ CopyGesture
  <2>1. PICK feature, kind : Gesture(feature, kind)
    BY <1>6 DEF ExploreGesture, ContextGesture, NavigateGesture, AcceptGesture, CopyGesture
  <2>2. InTurn(calls', low, gestures + 1)
    BY <1>1, <2>1, TurnGesture DEF Gesture, Call
  <2>3. gestures' = gestures + 1 /\ gestures' \in Numbers
    BY <2>1, SessionAssumption DEF Gesture, CallsGood, Numbers
  <2>4. QED
    BY <1>3, <2>2, <2>3 DEF CallsGood
<1>7. QED
  BY <1>4, <1>5, <1>6 DEF Keyboard

LEMMA NextCalls ==
  ASSUME Good, ExplorationGood, CallsGood, [Next]_vars
  PROVE  CallsGood'
<1>1. ASSUME UNCHANGED <<calls, gestures, explorations>>, Forget \/ UNCHANGED exploration
      PROVE  CallsGood'
  BY <1>1, ForgetReached DEF CallsGood
<1>2. CASE UNCHANGED vars
  BY <1>1, <1>2 DEF vars, keyVars, exploreVars
<1>3. CASE LoseFocus \/ \E t \in Terminals : GainFocus(t) \/ TransportLost(t) \/ Reconnect(t)
  BY <1>1, <1>3 DEF LoseFocus, GainFocus, DiscardTransient, TransportLost, MarkDisconnected,
     Reconnect, Select, keyVars
<1>4. ASSUME NEW t \in Terminals, Events(t)
      PROVE  CallsGood'
  BY <1>1, <1>4 DEF Events, TakeFocus, TakeState, TakeResult, TakeAnswer, TakeOpened,
     TakeClosed, TakeText, TakeLost, Select, keyVars, exploreVars
<1>5. ASSUME NEW t \in Terminals, Editor(t)
      PROVE  CallsGood'
  BY <1>1, <1>5 DEF Editor, EditorMoves, CopyState, AnswerState, TakeStep, TakeEnd, AnswerQuery,
     AnswerCopy, OpenPrompt, ClosePrompt, TakeAccept, keyVars, exploreVars
<1>6. ASSUME NEW t \in Terminals, ControlLost(t) \/ Resync(t)
      PROVE  CallsGood'
  <2>1. PICK low \in Nat : Reached(low) /\ InTurn(calls, low, gestures)
    BY DEF CallsGood
  <2>2. \/ calls' = calls
        \/ \E call : ~Made(call) /\ calls' = Append(calls, call)
    BY <1>6 DEF ControlLost, Resync, Made, Gestures, keyVars
  <2>3. InTurn(calls', low, gestures)
    BY <2>1, <2>2, TurnAppend
  <2>4. UNCHANGED <<gestures, exploration, explorations>>
    BY <1>6 DEF ControlLost, Resync, exploreVars, keyVars
  <2>5. QED
    BY <2>1, <2>3, <2>4 DEF CallsGood, Reached
<1>7. QED
  BY <1>2, <1>3, <1>4, <1>5, <1>6, HandlerCalls, KeyboardCalls DEF Next

-----------------------------------------------------------------------------
(* The types of the rest.                                                    *)

FlagsType ==
  /\ features \in FeatureSets /\ held \in BOOLEAN /\ online \in [Terminals -> BOOLEAN]
  /\ flags \subseteq {"exploration", "context", "choice"}

PeriodType == period \in 0..MaxPeriods /\ (focus # Away => period # 0)

CopyRequests == [id : Numbers, term : Terminals, period : 1..MaxPeriods]
RequestType  == requests \subseteq CopyRequests /\ written \subseteq CopyRequests

ContextType ==
  /\ context \in [Terminals -> [id : Numbers, at : Places] \cup {None}]
  /\ view \in [term : Terminals, at : Places] \cup {None}

OpenChoices == [id : 1..MaxPrompts, item : 0..Items]
ChoiceType  == choice \in [Terminals -> OpenChoices \cup {None}]

PendingType ==
  /\ Len(pending) <= MaxPending
  /\ exploration # None => exploration.origin \in Places

PromptType == prompt \in [Terminals -> 0..MaxPrompts]

LEMMA NextFlags ==
  ASSUME FlagsType, [Next]_vars
  PROVE  FlagsType'
<1>1. CASE UNCHANGED <<features, held, online, flags>>
  BY <1>1 DEF FlagsType
<1>2. CASE Keyboard
  <2>1. /\ UNCHANGED <<features, online>> /\ held' \in {held, TRUE, FALSE}
        /\ flags' \in {flags, {}, flags \cup {"choice"}}
    BY <1>2 DEF Keyboard, PressKey, ReleaseKey, ExploreGesture, ContextGesture,
       NavigateGesture, AcceptGesture, CopyGesture, focusVars
  <2>2. QED
    BY <2>1 DEF FlagsType
<1>3. CASE Handlers
  <2>1. /\ UNCHANGED <<features, online, held>>
        /\ flags' = flags \/ \E flag \in {"exploration", "context"} :
                               flags' \in {flags \cup {flag}, flags \ {flag}}
    BY <1>3 DEF Handlers, RunExplore, FinishExplore, EndExploration, StepFailed, RunContext,
       FinishContext, EndContext, RunNavigate, RunAccept, EndChoice, RunCopy, focusVars
  <2>2. QED
    BY <2>1 DEF FlagsType
<1>4. CASE LoseFocus
  BY <1>4 DEF LoseFocus, FlagsType
<1>5. ASSUME NEW t \in Terminals, TransportLost(t) \/ Reconnect(t)
      PROVE  FlagsType'
  <2>1. /\ UNCHANGED <<features, held, flags>>
        /\ \E b \in BOOLEAN : online' = [online EXCEPT ![t] = b]
    BY <1>5 DEF TransportLost, Reconnect, keyVars
  <2>2. QED
    BY <2>1 DEF FlagsType
<1>6. ASSUME NEW t \in Terminals, GainFocus(t) \/ ControlLost(t) \/ Resync(t) \/ Events(t)
      PROVE  FlagsType'
  BY <1>1, <1>6 DEF GainFocus, ControlLost, Resync, Events, TakeFocus, TakeState, TakeResult,
     TakeAnswer, TakeOpened, TakeClosed, TakeText, TakeLost, focusVars, keyVars
<1>7. ASSUME NEW t \in Terminals, Editor(t)
      PROVE  FlagsType'
  BY <1>1, <1>7 DEF Editor, EditorMoves, CopyState, AnswerState, TakeStep, TakeEnd, AnswerQuery,
     AnswerCopy, OpenPrompt, ClosePrompt, TakeAccept, focusVars, keyVars
<1>8. CASE UNCHANGED vars
  BY <1>1, <1>8 DEF vars, focusVars, keyVars
<1>9. QED
  BY <1>2, <1>3, <1>4, <1>5, <1>6, <1>7, <1>8 DEF Next

LEMMA NextPeriod ==
  ASSUME PeriodType, [Next]_vars
  PROVE  PeriodType'
<1>1. CASE UNCHANGED <<focus, period>>
  BY <1>1 DEF PeriodType
<1>2. ASSUME NEW t \in Terminals, GainFocus(t)
      PROVE  PeriodType'
  BY <1>2, SessionAssumption DEF GainFocus, PeriodType
<1>3. CASE LoseFocus
  BY <1>3 DEF LoseFocus, PeriodType
<1>4. CASE Keyboard \/ Handlers \/ UNCHANGED vars
  BY <1>1, <1>4 DEF Keyboard, PressKey, ReleaseKey, ExploreGesture, ContextGesture,
     NavigateGesture, AcceptGesture, CopyGesture, Handlers, RunExplore, FinishExplore,
     EndExploration, StepFailed, RunContext, FinishContext, EndContext, RunNavigate,
     RunAccept, EndChoice, RunCopy, focusVars, vars
<1>5. ASSUME NEW t \in Terminals,
             Events(t) \/ ControlLost(t) \/ Resync(t) \/ TransportLost(t) \/ Reconnect(t)
      PROVE  PeriodType'
  BY <1>1, <1>5 DEF Events, TakeFocus, TakeState, TakeResult, TakeAnswer, TakeOpened,
     TakeClosed, TakeText, TakeLost, ControlLost, Resync, TransportLost, Reconnect, focusVars
<1>6. ASSUME NEW t \in Terminals, Editor(t)
      PROVE  PeriodType'
  BY <1>1, <1>6 DEF Editor, EditorMoves, CopyState, AnswerState, TakeStep, TakeEnd, AnswerQuery,
     AnswerCopy, OpenPrompt, ClosePrompt, TakeAccept, focusVars
<1>7. QED
  BY <1>2, <1>3, <1>4, <1>5, <1>6 DEF Next

LEMMA NextRequests ==
  ASSUME Good, PeriodType, CallsGood, RequestType, [Next]_vars
  PROVE  RequestType'
<1>1. requests' \subseteq CopyRequests
  <2>1. CASE RunCopy
    <3> DEFINE call == Head(calls)
    <3>1. CASE requests' = requests
      BY <3>1 DEF RequestType
    <3>2. CASE Available(call.term) /\ Await(CopyRequest(call))
      <4>1. call.number \in Numbers
        BY <2>1, CallNumbered DEF RunCopy, Gestures
      <4>2. call.term \in Terminals /\ period \in 1..MaxPeriods
        BY <3>2, SessionAssumption DEF Available, InNeovim, Good, FocusGood, PeriodType
      <4> HIDE DEF call
      <4>3. CopyRequest(call) \in CopyRequests
        BY <4>1, <4>2 DEF CopyRequest, CopyRequests
      <4>4. QED
        BY <3>2, <4>3 DEF Await, RequestType
    <3>3. QED
      BY <2>1, <3>1, <3>2 DEF RunCopy
  <2>2. CASE LoseFocus \/ \E t \in Terminals : GainFocus(t)
    BY <2>2 DEF LoseFocus, GainFocus, DiscardTransient
  <2>3. CASE requests' \subseteq requests
    BY <2>3 DEF RequestType
  <2>4. ASSUME NEW t \in Terminals,
               Events(t) \/ ControlLost(t) \/ Resync(t) \/ TransportLost(t) \/ Reconnect(t)
        PROVE  requests' \subseteq requests
    BY <2>4 DEF Events, TakeFocus, TakeState, TakeResult, TakeAnswer, TakeOpened, TakeClosed,
       TakeText, Consume, TakeLost, ControlLost, Resync, TransportLost, Reconnect, clipVars
  <2>5. ASSUME NEW t \in Terminals, Editor(t)
        PROVE  requests' \subseteq requests
    BY <2>5 DEF Editor, EditorMoves, CopyState, AnswerState, TakeStep, TakeEnd, AnswerQuery,
       AnswerCopy,
       OpenPrompt, ClosePrompt, TakeAccept, clipVars
  <2>6. CASE Keyboard \/ (Handlers /\ ~RunCopy) \/ UNCHANGED vars
    BY <2>3, <2>6 DEF Keyboard, PressKey, ReleaseKey, ExploreGesture, ContextGesture,
       NavigateGesture, AcceptGesture, CopyGesture, Handlers, RunExplore, FinishExplore,
       EndExploration, StepFailed, RunContext, FinishContext, EndContext, RunNavigate,
       RunAccept, EndChoice, clipVars, vars
  <2>7. QED
    BY <2>1, <2>2, <2>3, <2>4, <2>5, <2>6 DEF Next, Handlers
<1>2. written' \subseteq CopyRequests
  BY WritesAwaited DEF RequestType, vars, clipVars
<1>3. QED
  BY <1>1, <1>2 DEF RequestType

LEMMA CancelTyped ==
  ASSUME ContextType, CancelContext
  PROVE  ContextType'
  BY DEF ContextType, CancelContext, Dismiss, contextVars

LEMMA LearnTyped ==
  ASSUME ContextType, NEW t \in Terminals, NEW at, Learn(t, at)
  PROVE  ContextType'
  BY DEF ContextType, Learn, Dismiss, contextVars

LEMMA NextContextType ==
  ASSUME Good, ContextGood, CallsGood, ContextType, [Next]_vars
  PROVE  ContextType'
<1>1. CASE UNCHANGED contextVars
  BY <1>1 DEF ContextType, contextVars
<1>2. CASE RunContext
  <2> DEFINE t == Head(calls).term
             number == Head(calls).number
  <2>1. CASE Available(t) /\ Begin(t, number) /\ view' \in {view, None}
    <3>1. t \in Terminals /\ number \in Numbers
      BY <1>2, <2>1, CallNumbered DEF RunContext, Available, InNeovim, Good, FocusGood, Gestures
    <3> HIDE DEF t, number
    <3>2. [id |-> number, at |-> known[t]] \in [id : Numbers, at : Places]
      BY <3>1 DEF Good, PlacesGood
    <3>3. QED
      BY <2>1, <3>1, <3>2 DEF Begin, ContextType
  <2>2. CASE context' = [context EXCEPT ![t] = None] /\ view' \in {view, None}
    BY <2>2 DEF ContextType
  <2>3. QED
    BY <1>1, <1>2, <2>1, <2>2 DEF RunContext
<1>3. CASE LoseFocus \/ FinishContext \/ EndContext \/ \E t \in Terminals : GainFocus(t)
  BY <1>1, <1>3, CancelTyped DEF LoseFocus, FinishContext, EndContext, GainFocus,
     DiscardTransient
<1>4. ASSUME NEW t \in Terminals, TakeAnswer(t)
      PROVE  ContextType'
  <2>1. CASE InNeovim(t) /\ Accepts(t, Head(inbox[t])) /\ Show(t, Head(inbox[t]).at)
             /\ UNCHANGED context
    <3>1. Head(inbox[t]).at \in Places
      BY <2>1 DEF Accepts, Good, PlacesGood
    <3>2. QED
      BY <2>1, <3>1 DEF Show, ContextType
  <2>2. QED
    BY <1>1, <1>4, <2>1, CancelTyped DEF TakeAnswer
<1>5. ASSUME NEW t \in Terminals, Events(t), ~TakeAnswer(t)
      PROVE  ContextType'
  <2>1. \/ UNCHANGED contextVars \/ (\E at : Learn(t, at))
        \/ UNCHANGED context /\ view' \in {view, None}
    BY <1>5 DEF Events, TakeFocus, TakeState, TakeResult, TakeOpened, TakeClosed, TakeText,
       TakeLost, Dismiss, contextVars
  <2>2. QED
    BY <1>1, <2>1, LearnTyped DEF ContextType
<1>6. ASSUME NEW t \in Terminals, Reconnect(t) \/ ControlLost(t) \/ Resync(t) \/ TransportLost(t)
      PROVE  ContextType'
  BY <1>1, <1>6, LearnTyped DEF Reconnect, ControlLost, Resync, TransportLost
<1>7. ASSUME NEW t \in Terminals, Editor(t)
      PROVE  ContextType'
  BY <1>1, <1>7 DEF Editor, EditorMoves, CopyState, AnswerState, TakeStep, TakeEnd, AnswerQuery,
     AnswerCopy, OpenPrompt, ClosePrompt, TakeAccept
<1>8. CASE Keyboard \/ UNCHANGED vars \/ RunExplore \/ FinishExplore \/ EndExploration
           \/ StepFailed \/ RunNavigate \/ RunAccept \/ EndChoice \/ RunCopy
  BY <1>1, <1>8 DEF Keyboard, PressKey, ReleaseKey, ExploreGesture, ContextGesture,
     NavigateGesture, AcceptGesture, CopyGesture, RunExplore, FinishExplore, EndExploration,
     StepFailed, RunNavigate, RunAccept, EndChoice, RunCopy, vars
<1>9. QED
  BY <1>2, <1>3, <1>4, <1>5, <1>6, <1>7, <1>8 DEF Next, Handlers

LEMMA NextChoice ==
  ASSUME Good, ChoiceType, [Next]_vars
  PROVE  ChoiceType'
<1>1. CASE choice' = choice
  BY <1>1 DEF ChoiceType
<1>2. ASSUME NEW t \in Terminals, choice' = [choice EXCEPT ![t] = None]
      PROVE  ChoiceType'
  BY <1>2 DEF ChoiceType
<1>3. ASSUME NEW t \in Terminals, ChoiceOpen(t), NEW item \in 0..Items,
             choice' = [choice EXCEPT ![t].item = item]
      PROVE  ChoiceType'
  <2>1. choice[t] \in OpenChoices
    BY <1>3 DEF ChoiceOpen, ChoiceType
  <2>2. [choice[t] EXCEPT !.item = item] \in OpenChoices
    BY <1>3, <2>1 DEF OpenChoices
  <2>3. choice' = [choice EXCEPT ![t] = [choice[t] EXCEPT !.item = item]]
    BY <1>3 DEF ChoiceType
  <2>4. QED
    BY <2>2, <2>3 DEF ChoiceType
<1>4. CASE RunNavigate
  <2>1. CASE focus # Away /\ Available(focus) /\ ChoiceOpen(focus)
    <3>1. PICK item \in Neighbours(choice[focus].item) :
                 choice' = [choice EXCEPT ![focus].item = item]
      BY <1>4, <2>1 DEF RunNavigate
    <3>2. focus \in Terminals
      BY <2>1 DEF Good, FocusGood
    <3>3. choice[focus].item \in 0..Items
      BY <2>1, <3>2 DEF ChoiceOpen, ChoiceType, OpenChoices
    <3>4. item \in 0..Items
      BY <3>3, SessionAssumption DEF Neighbours
    <3>5. QED
      BY <1>3, <2>1, <3>1, <3>2, <3>4
  <2>2. QED
    BY <1>1, <1>4, <2>1 DEF RunNavigate
<1>5. CASE RunAccept \/ EndChoice
  <2>1. \/ choice' = choice
        \/ \E t \in Terminals : ChoiceOpen(t) /\ choice' = [choice EXCEPT ![t].item = 0]
    BY <1>5 DEF RunAccept, EndChoice, Discard, Acceptable, Available, InNeovim, Good, FocusGood
  <2>2. QED
    BY <1>1, <1>3, <2>1, SessionAssumption
<1>6. ASSUME NEW t \in Terminals, TakeOpened(t)
      PROVE  ChoiceType'
  <2> DEFINE open == [id |-> Head(inbox[t]).id, item |-> 0]
  <2>1. Head(inbox[t]).id \in 1..MaxPrompts
    BY <1>6, TakenKeeps DEF TakeOpened, Good, Honest
  <2>2. open \in OpenChoices
    BY <2>1, SessionAssumption DEF OpenChoices
  <2>3. choice' = choice \/ choice' = [choice EXCEPT ![t] = open]
    BY <1>6 DEF TakeOpened
  <2> HIDE DEF open
  <2>4. QED
    BY <2>2, <2>3 DEF ChoiceType
<1>7. CASE LoseFocus
  BY <1>1, <1>2, <1>7 DEF LoseFocus, Good, FocusGood
<1>8. ASSUME NEW t \in Terminals, TakeClosed(t) \/ TakeLost(t) \/ TransportLost(t)
      PROVE  ChoiceType'
  BY <1>1, <1>2, <1>8 DEF TakeClosed, TakeLost, Reset, TransportLost, MarkDisconnected
<1>9. ASSUME NEW t \in Terminals,
             \/ GainFocus(t) \/ ControlLost(t) \/ Resync(t) \/ Reconnect(t) \/ TakeFocus(t)
             \/ TakeState(t) \/ TakeResult(t) \/ TakeAnswer(t) \/ TakeText(t)
      PROVE  ChoiceType'
  BY <1>1, <1>9 DEF GainFocus, ControlLost, Resync, Reconnect, TakeFocus, TakeState, TakeResult,
     TakeAnswer, TakeText
<1>10. ASSUME NEW t \in Terminals, Editor(t)
       PROVE  ChoiceType'
  BY <1>1, <1>10 DEF Editor, EditorMoves, CopyState, AnswerState, TakeStep, TakeEnd, AnswerQuery,
     AnswerCopy, OpenPrompt, ClosePrompt, TakeAccept
<1>11. CASE Keyboard \/ UNCHANGED vars \/ RunExplore \/ FinishExplore \/ EndExploration
            \/ StepFailed \/ RunContext \/ FinishContext \/ EndContext \/ RunCopy
  BY <1>1, <1>11 DEF Keyboard, PressKey, ReleaseKey, ExploreGesture, ContextGesture,
     NavigateGesture, AcceptGesture, CopyGesture, RunExplore, FinishExplore, EndExploration,
     StepFailed, RunContext, FinishContext, EndContext, RunCopy, vars
<1>12. QED
  BY <1>4, <1>5, <1>6, <1>7, <1>8, <1>9, <1>10, <1>11 DEF Next, Handlers, Events

(* The table of requests holds MaxPending at most, whatever is planned.      *)
LEMMA RememberedFew ==
  ASSUME NEW queue \in Seq(Asked)
  PROVE  Len(Remembered(queue)) <= MaxPending
<1>1. MaxPending \in Nat \ {0} /\ Len(queue) \in Nat
  BY SessionAssumption
<1>2. CASE Len(queue) > MaxPending
  <2>1. Len(queue) - MaxPending + 1 \in 1..Len(queue)
    BY <1>1, <1>2
  <2>2. Len(SubSeq(queue, Len(queue) - MaxPending + 1, Len(queue))) = MaxPending
    BY <1>1, <2>1
  <2>3. QED
    BY <1>1, <1>2, <2>2 DEF Remembered
<1>3. CASE ~(Len(queue) > MaxPending)
  <2>1. Len(SubSeq(queue, 1, Len(queue))) = Len(queue)
    BY <1>1
  <2>2. QED
    BY <1>1, <1>3, <2>1 DEF Remembered
<1>4. QED
  BY <1>2, <1>3

LEMMA NextPending ==
  ASSUME Good, ExplorationGood, PendingType, [Next]_vars
  PROVE  PendingType'
<1>1. CASE UNCHANGED <<exploration, pending>>
  BY <1>1 DEF PendingType
<1>2. CASE Forget
  <2>1. Len(pending') = 0
    BY <1>2 DEF Forget
  <2>2. QED
    BY <1>2, <2>1, SessionAssumption DEF Forget, PendingType
<1>3. CASE RunExplore
  <2> DEFINE t == Head(calls).term
             queue == Append(pending, Request(NextStep(t)))
  <2>1. CASE Available(t) /\ PlanStep(t)
    <3>1. t \in Terminals
      BY <2>1 DEF Available, InNeovim, Good, FocusGood
    <3> HIDE DEF t
    <3>2. exploration' = NextStep(t) /\ pending' = Remembered(queue)
      BY <2>1 DEF PlanStep
    <3>3. NextStep(t).origin \in Places /\ Request(NextStep(t)) \in Asked
      <4>1. CASE exploration = None
        BY <3>1, <4>1 DEF NextStep, Request, Asked, ExplorationGood, Good, PlacesGood
      <4>2. CASE exploration # None
        BY <4>2 DEF NextStep, Request, Asked, ExplorationGood, Explorations, PendingType
      <4>3. QED
        BY <4>1, <4>2
    <3>4. queue \in Seq(Asked)
      BY <3>3 DEF ExplorationGood
    <3>5. QED
      BY <3>2, <3>3, <3>4, RememberedFew DEF PendingType
  <2>2. QED
    BY <1>2, <1>3, <2>1 DEF RunExplore
<1>4. ASSUME NEW t \in Terminals, TakeResult(t)
      PROVE  PendingType'
  <2>1. ASSUME NEW k \in DOMAIN pending, pending' = RemoveAt(pending, k), UNCHANGED exploration
        PROVE  PendingType'
    <3>1. Len(pending) \in Nat /\ Own(pending, exploration)
      BY <2>1 DEF ExplorationGood
    <3>2. Len(pending') = Len(pending) - 1
      BY <2>1, <3>1, OwnRemoved DEF ExplorationGood
    <3>3. QED
      BY <2>1, <3>1, <3>2, SessionAssumption DEF PendingType
  <2>2. QED
    BY <1>1, <1>2, <1>4, <2>1 DEF TakeResult
<1>5. CASE \/ LoseFocus \/ FinishExplore \/ EndExploration \/ StepFailed \/ RunContext
           \/ \E t \in Terminals : GainFocus(t) \/ TransportLost(t) \/ Reconnect(t)
  BY <1>1, <1>2, <1>5 DEF LoseFocus, FinishExplore, EndExploration, Release, StepFailed,
     RunContext, GainFocus, DiscardTransient, TransportLost, MarkDisconnected, Reconnect,
     Select, exploreVars
<1>6. ASSUME NEW t \in Terminals, (Events(t) /\ ~TakeResult(t)) \/ ControlLost(t) \/ Resync(t)
      PROVE  PendingType'
  BY <1>1, <1>2, <1>6 DEF Events, TakeFocus, Select, TakeState, TakeAnswer, TakeOpened,
     TakeClosed, TakeText, TakeLost, ControlLost, Resync, exploreVars
<1>7. ASSUME NEW t \in Terminals, Editor(t)
      PROVE  PendingType'
  BY <1>1, <1>7 DEF Editor, EditorMoves, CopyState, AnswerState, TakeStep, TakeEnd, AnswerQuery,
     AnswerCopy, OpenPrompt, ClosePrompt, TakeAccept, exploreVars
<1>8. CASE Keyboard \/ UNCHANGED vars \/ FinishContext \/ EndContext \/ RunNavigate
           \/ RunAccept \/ EndChoice \/ RunCopy
  BY <1>1, <1>8 DEF Keyboard, PressKey, ReleaseKey, ExploreGesture, ContextGesture,
     NavigateGesture, AcceptGesture, CopyGesture, FinishContext, EndContext, RunNavigate,
     RunAccept, EndChoice, RunCopy, exploreVars, vars
<1>9. QED
  BY <1>3, <1>4, <1>5, <1>6, <1>7, <1>8 DEF Next, Handlers

LEMMA NextPrompt ==
  ASSUME Good, PromptType, [Next]_vars
  PROVE  PromptType'
<1>1. CASE prompt' = prompt
  BY <1>1 DEF PromptType
<1>2. ASSUME NEW t \in Terminals, OpenPrompt(t) \/ ClosePrompt(t) \/ TakeAccept(t)
      PROVE  PromptType'
  <2>1. prompt' = prompt \/ \E id \in 0..MaxPrompts : prompt' = [prompt EXCEPT ![t] = id]
    BY <1>2, SessionAssumption DEF OpenPrompt, ClosePrompt, TakeAccept, Good, PlacesGood
  <2>2. QED
    BY <2>1 DEF PromptType
<1>3. ASSUME NEW t \in Terminals, Editor(t), ~OpenPrompt(t), ~ClosePrompt(t), ~TakeAccept(t)
      PROVE  prompt' = prompt
  BY <1>3 DEF Editor, EditorMoves, CopyState, AnswerState, TakeStep, TakeEnd, AnswerQuery,
     AnswerCopy,
     editorVars
<1>4. ASSUME NEW t \in Terminals,
             \/ GainFocus(t) \/ Events(t) \/ ControlLost(t) \/ Resync(t) \/ TransportLost(t)
             \/ Reconnect(t)
      PROVE  prompt' = prompt
  BY <1>4 DEF GainFocus, Events, TakeFocus, TakeState, TakeResult, TakeAnswer, TakeOpened,
     TakeClosed, TakeText, TakeLost, ControlLost, Resync, TransportLost, Reconnect, editorVars
<1>5. CASE Keyboard \/ Handlers \/ LoseFocus \/ UNCHANGED vars
  BY <1>1, <1>5 DEF Keyboard, PressKey, ReleaseKey, ExploreGesture, ContextGesture,
     NavigateGesture, AcceptGesture, CopyGesture, Handlers, RunExplore, FinishExplore,
     EndExploration, StepFailed, RunContext, FinishContext, EndContext, RunNavigate,
     RunAccept, EndChoice, RunCopy, LoseFocus, editorVars, vars
<1>6. QED
  BY <1>1, <1>2, <1>3, <1>4, <1>5 DEF Next

Types == /\ FlagsType /\ PeriodType /\ RequestType /\ ContextType /\ ChoiceType
         /\ PendingType /\ PromptType

LEMMA InitTypes == Init => CallsGood /\ Types
<1> SUFFICES ASSUME Init PROVE CallsGood /\ Types
  OBVIOUS
<1>1. /\ 0 \in Numbers /\ 0 \in 0..MaxPeriods /\ 0 \in 0..MaxPrompts
      /\ MaxPending \in Nat
  BY SessionAssumption DEF Numbers
<1>2. InTurn(<<>>, 0, 0)
  <2>1. \E S : <<>> \in Seq(S)
    <3>1. <<>> \in Seq({})
      OBVIOUS
    <3>2. QED
      BY <3>1
  <2>2. QED
    BY <2>1 DEF InTurn
<1>3. CallsGood
  BY <1>1, <1>2 DEF Init, CallsGood, Reached
<1>4. FlagsType /\ PeriodType /\ RequestType
  BY <1>1 DEF Init, FlagsType, PeriodType, RequestType
<1>5. ContextType /\ ChoiceType /\ PendingType /\ PromptType
  BY <1>1 DEF Init, ContextType, ChoiceType, PendingType, PromptType
<1>6. QED
  BY <1>3, <1>4, <1>5 DEF Types

LEMMA TypesMean ==
  ASSUME Good, ExplorationGood, CallsGood, Types
  PROVE  TypeOK
<1>1. PICK low \in Nat : Reached(low) /\ low <= gestures
  BY DEF CallsGood, InTurn
<1>2. gestures \in Nat /\ gestures <= MaxGestures /\ MaxGestures \in Nat
  BY SessionAssumption DEF CallsGood, Numbers
<1>3. exploration # None => /\ exploration.id \in 1..MaxGestures
                            /\ exploration.index \in 1..MaxGestures
  BY <1>1, <1>2 DEF Reached
<1>4. exploration \in [id : 1..MaxGestures, term : Terminals, origin : Places,
                       index : 1..MaxGestures] \cup {None}
  BY <1>3 DEF ExplorationGood, Explorations, Types, PendingType
<1>5. \A i \in DOMAIN pending : pending[i] \in [id : Numbers, index : Numbers]
  <2> SUFFICES ASSUME NEW i \in DOMAIN pending
               PROVE  pending[i] \in [id : Numbers, index : Numbers]
    OBVIOUS
  <2>1. pending[i] \in Asked
    BY DEF ExplorationGood
  <2>2. exploration # None
    BY DEF ExplorationGood
  <2>3. pending[i].id = exploration.id /\ pending[i].index <= exploration.index
    BY <2>2 DEF ExplorationGood, Own
  <2>4. pending[i].id \in Numbers /\ pending[i].index \in Numbers
    BY <1>2, <1>3, <2>1, <2>2, <2>3 DEF Asked, Numbers
  <2>5. QED
    BY <2>1, <2>4 DEF Asked
<1>6. written \cup requests \subseteq CopyRequests
  BY DEF Types, RequestType
<1>7. QED
  BY <1>4, <1>5, <1>6 DEF TypeOK, Good, FocusGood, PlacesGood, Types, FlagsType, ContextType,
     ChoiceType, OpenChoices, PendingType, PromptType, CopyRequests

(* Every variable keeps its type.  For the explorations this says that none  *)
(* has more steps than it had gestures, for the requests that the table never *)
(* outgrows max_pending_requests, for a choice that an item of the list is    *)
(* selected and its prompt was opened, and for a copy that it has a focus.    *)
THEOREM TypeCorrect == Spec => []TypeOK
<1> DEFINE All == Good /\ ExplorationGood /\ ContextGood /\ CallsGood /\ Types
<1>1. Init => All
  BY InitGood, InitTypes DEF Init, ExplorationGood, ContextGood, ViewIsCurrent
<1>2. All /\ [Next]_vars => All'
  BY NextGood, NextExploration, NextContext, NextCalls, NextFlags, NextPeriod, NextRequests,
     NextContextType, NextChoice, NextPending, NextPrompt DEF Types
<1>3. All => TypeOK
  BY TypesMean
<1>4. QED
  BY <1>1, <1>2, <1>3, PTL DEF Spec
=============================================================================
