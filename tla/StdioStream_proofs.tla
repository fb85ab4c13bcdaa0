------------------------- MODULE StdioStream_proofs -------------------------
(***************************************************************************)
(* The receiver's two guarantees, for any number of connections, reports,   *)
(* heartbeats and requests and every interleaving of the three publishing threads.         *)
(***************************************************************************)
EXTENDS StdioStream, TLAPS

Publication == [step : {"idle", "check", "stamp", "count", "store", "write"},
                kind : FrameKinds, seq : Nat, next : Nat]

(* The head and the tail of a queue have the types of its elements. *)
LEMMA HeadTailType ==
    ASSUME NEW S, NEW s \in Seq(S), s # << >>
    PROVE  Head(s) \in S /\ Tail(s) \in Seq(S)
  OBVIOUS

(* Every step of publish() leaves a thread with a well-formed publication. *)
LEMMA PublicationStep ==
    ASSUME publisher \in [Publishers -> Publication], sequence \in Nat, NEW p \in Publishers,
           Publishing(p)
    PROVE  publisher' \in [Publishers -> Publication]
<1>1. publisher[p] \in Publication /\ Idle \in Publication
  BY DEF Publication, Idle, FrameKinds
<1>2. /\ [publisher[p] EXCEPT !.step = "stamp"] \in Publication
      /\ [publisher[p] EXCEPT !.step = "store", !.next = sequence + 1] \in Publication
      /\ [publisher[p] EXCEPT !.step = "write", !.next = 0] \in Publication
      /\ [publisher[p] EXCEPT !.step = "count", !.seq = sequence] \in Publication
  <2>1. \A x \in Publication, step \in {"stamp", "count", "store", "write"}, n \in Nat :
          /\ [x EXCEPT !.step = step] \in Publication
          /\ [x EXCEPT !.step = step, !.seq = n] \in Publication
          /\ [x EXCEPT !.step = step, !.next = n] \in Publication
    BY DEF Publication
  <2>2. sequence + 1 \in Nat /\ 0 \in Nat
    OBVIOUS
  <2>3. QED
    BY <1>1, <2>1, <2>2
<1>3. \E x \in Publication : publisher' = [publisher EXCEPT ![p] = x]
  <2>1. CASE Check(p) \/ Write(p)
    BY <1>1, <1>2, <2>1 DEF Check, Write
  <2>2. CASE Stamp(p)
    BY <1>2, <2>2 DEF Stamp
  <2>3. CASE Count(p) \/ Store(p)
    BY <1>2, <2>3 DEF Count, Store
  <2>4. QED
    BY <2>1, <2>2, <2>3 DEF Publishing
<1>4. QED
  BY <1>3

(* The types of the bridge's and the client's state. *)
THEOREM TypeCorrect == Spec => []TypeOK
<1>1. Init => TypeOK
  <2> SUFFICES ASSUME Init PROVE TypeOK
    OBVIOUS
  <2>1. publisher \in [Publishers -> Publication]
    BY DEF Init, Idle, Publication, FrameKinds
  <2>2. /\ tracker \in [session : BOOLEAN, last : Nat \cup {-1}, resync : BOOLEAN]
        /\ wire \in Seq(Frame) /\ controls \in Seq({"full", "context"})
    BY DEF Init
  <2>3. QED
    BY <2>1, <2>2 DEF Init, TypeOK, Publication
<1>2. TypeOK /\ [Next]_vars => TypeOK'
  <2> SUFFICES ASSUME TypeOK, [Next]_vars PROVE TypeOK'
    OBVIOUS
  <2>0. /\ wire \in Seq(Frame) /\ ready \in BOOLEAN /\ sequence \in Nat
        /\ publisher \in [Publishers -> Publication]
    BY DEF TypeOK, Publication
  <2>4. ASSUME NEW p \in Publishers, Publishing(p)
        PROVE  TypeOK'
    <3>1. publisher' \in [Publishers -> Publication]
      BY <2>0, <2>4, PublicationStep
    <3>2. ready' = TRUE \/ ready' = ready
      BY <2>4 DEF Publishing, Check, Stamp, Count, Store, Write
    <3>3. sequence' = sequence \/ sequence' = publisher[p].next
      BY <2>4 DEF Publishing, Check, Stamp, Count, Store, Write
    <3>4. wire' = wire \/ \E f \in Frame : wire' = Append(wire, f)
      <4>1. publisher[p] \in Publication
        BY <2>0
      <4>2. CASE Write(p)
        BY <4>1, <4>2 DEF Write, Publication, Frame
      <4>3. QED
        BY <2>4, <4>2 DEF Publishing, Check, Stamp, Count, Store
    <3>5. wire' \in Seq(Frame)
      BY <2>0, <3>4
    <3>6. UNCHANGED <<events, neovim, controls, client>>
      BY <2>4 DEF Publishing, Check, Stamp, Count, Store, Write
    <3>7. ready' \in BOOLEAN
      BY <2>0, <3>2, Zenon
    <3>8. sequence' \in Nat
      BY <2>0, <3>3 DEF Publication
    <3>9. QED
      BY <3>1, <3>5, <3>6, <3>7, <3>8 DEF TypeOK, Publication, client
  <2>5. Receive => Head(wire) \in Frame /\ wire' \in Seq(Frame)
    <3>1. wire # << >> => Head(wire) \in Frame /\ Tail(wire) \in Seq(Frame)
      BY <2>0, HeadTailType
    <3>2. QED
      BY <3>1 DEF Receive
  <2> USE DEF TypeOK, Publishers, FrameKinds, Frame, client, bridge, Idle
  <2>1. CASE EditorReports \/ NeovimConnection
    BY <2>1 DEF EditorReports, NeovimConnection, Happens, Publish
  <2>2. CASE AnswerControl
    BY <2>2 DEF AnswerControl, Publish
  <2>3. CASE Heartbeat
    BY <2>3 DEF Heartbeat, Happens, Publish
  <2>6. CASE Receive
    <3>1. Head(wire) \in Frame /\ wire' \in Seq(Frame)
      BY <2>6, <2>5
    <3>2. tracker' \in [session : BOOLEAN, last : Nat \cup {-1}, resync : BOOLEAN]
      BY <2>6, <3>1 DEF Receive, Observe
    <3>3. controls' \in Seq({"full", "context"})
      BY <2>6 DEF Receive, Requests
    <3>4. failed' \in BOOLEAN /\ authenticated' \in BOOLEAN
      BY <2>6, <3>1 DEF Receive
    <3>5. QED
      BY <2>6, <3>1, <3>2, <3>3, <3>4 DEF Receive
  <2>7. CASE Ask
    BY <2>7 DEF Ask, Happens
  <2>8. CASE UNCHANGED vars
    BY <2>8 DEF vars
  <2>9. QED
    BY <2>1, <2>2, <2>3, <2>4, <2>6, <2>7, <2>8 DEF Next
<1>3. QED
  BY <1>1, <1>2, PTL DEF Spec

\* Only a fullState takes the tracker out of its initial resync.
Unauthenticated == ~authenticated => tracker.resync

(* The receiver never raises "first stdio event must be fullState". *)
THEOREM FirstAccepted == Spec => []FirstAcceptedIsFull
<1>1. Init => FirstAcceptedIsFull /\ Unauthenticated
  BY DEF Init, FirstAcceptedIsFull, Unauthenticated
<1>2. TypeOK /\ FirstAcceptedIsFull /\ Unauthenticated /\ [Next]_vars
      => FirstAcceptedIsFull' /\ Unauthenticated'
  <2> USE DEF FirstAcceptedIsFull, Unauthenticated, client
  <2> SUFFICES ASSUME TypeOK, FirstAcceptedIsFull, Unauthenticated, [Next]_vars
               PROVE  FirstAcceptedIsFull' /\ Unauthenticated'
    OBVIOUS
  <2>1. CASE Receive
    <3> DEFINE f == Head(wire)
    <3>1. ~authenticated /\ Disposition(f) = "accept" => f.kind = "full"
      BY DEF Disposition
    <3>2. tracker'.resync = CASE Disposition(f) = "accept" -> FALSE
                              [] Disposition(f) = "resyncRequired" -> TRUE
                              [] OTHER -> tracker.resync
      BY <2>1 DEF Receive, Observe
    <3>3. Disposition(f) \in {"accept", "resyncRequired", "duplicate"}
      BY DEF Disposition
    <3>4. QED
      BY <2>1, <3>1, <3>2, <3>3 DEF Receive, TypeOK
  <2>2. CASE Ask
    BY <2>2 DEF Ask
  <2>3. CASE UNCHANGED client
    BY <2>3
  <2>4. QED
    BY <2>1, <2>2, <2>3
    DEF Next, vars, NeovimConnection, EditorReports, AnswerControl, Heartbeat, Publishing,
        Check, Stamp, Count, Store, Write
<1>3. QED
  BY <1>1, <1>2, TypeCorrect, PTL DEF Spec

-----------------------------------------------------------------------------
Requested == \E n \in 1 .. Len(controls) : controls[n] = "full"
Answering == publisher["reader"].kind = "full" /\ publisher["reader"].step # "idle"
Answered == \E n \in 1 .. Len(wire) : wire[n].kind = "full"

(* What Head and Tail leave of a queue that holds something of a kind.        *)
LEMMA HeadOrTail ==
    ASSUME NEW S, NEW s \in Seq(S), s # << >>, NEW n \in 1 .. Len(s)
    PROVE  \/ s[n] = Head(s)
           \/ n - 1 \in 1 .. Len(Tail(s)) /\ Tail(s)[n - 1] = s[n]
  OBVIOUS

(* A publisher that takes its next step keeps answering, or has answered.     *)
LEMMA AnswerReachesWire ==
    ASSUME TypeOK, NEW p \in Publishers, Answering,
           Publishing(p)
    PROVE  Answering' \/ Answered'
<1> USE DEF TypeOK, Publishers, Answering, At, Frame, FrameKinds
<1>1. CASE Check(p) \/ Stamp(p) \/ Count(p) \/ Store(p)
  BY <1>1 DEF Check, Stamp, Count, Store
<1>2. CASE Write(p)
  <2>1. CASE p = "reader"
    <3>1. wire' = Append(wire, [kind |-> "full", seq |-> publisher[p].seq])
      BY <1>2, <2>1 DEF Write
    <3>2. Len(wire') \in 1 .. Len(wire') /\ wire'[Len(wire')].kind = "full"
      BY <3>1
    <3>3. QED
      BY <3>2 DEF Answered
  <2>2. CASE p # "reader"
    BY <1>2, <2>2 DEF Write
  <2>3. QED
    BY <2>1, <2>2
<1>3. QED
  BY <1>1, <1>2 DEF Publishing

(* Out of sequence, the client always has a request or an answer under way.   *)
THEOREM ResyncAlwaysUnderWay == Spec => []ResyncUnderWay
<1>0. ResyncUnderWay <=> (tracker.session /\ tracker.resync => Requested \/ Answering \/ Answered)
  BY DEF ResyncUnderWay, Requested, Answering, Answered, Free
<1>1. Init => ResyncUnderWay
  BY DEF Init, ResyncUnderWay
<1>2. TypeOK /\ ResyncUnderWay /\ [Next]_vars => ResyncUnderWay'
  <2> SUFFICES ASSUME TypeOK, ResyncUnderWay, [Next]_vars,
                      tracker'.session, tracker'.resync
               PROVE  Requested' \/ Answering' \/ Answered'
    BY DEF ResyncUnderWay, Requested, Answering, Answered, Free
  <2>1. CASE Receive
    <3> DEFINE f == Head(wire)
    <3>1. f \in Frame /\ wire' = Tail(wire) /\ wire \in Seq(Frame) /\ wire # << >>
      BY <2>1 DEF Receive, TypeOK
    <3>2. CASE Disposition(f) = "resyncRequired"
      <4>1. controls' = Append(controls, "full") /\ controls \in Seq({"full", "context"})
        BY <2>1, <3>2 DEF Receive, Requests, TypeOK
      <4>2. Len(controls') \in 1 .. Len(controls') /\ controls'[Len(controls')] = "full"
        BY <4>1
      <4>3. QED
        BY <4>2 DEF Requested
    <3>3. CASE Disposition(f) # "resyncRequired"
      <4>1. tracker.resync /\ Disposition(f) # "accept"
        BY <2>1, <3>3 DEF Receive, Observe
      <4>2. QED
        BY <3>3, <4>1 DEF Disposition
    <3>4. QED
      BY <3>2, <3>3
  <2>2. CASE AnswerControl
    <3>1. Requested \/ Answering \/ Answered
      BY <1>0, <2>2 DEF AnswerControl, client
    <3>2. UNCHANGED wire /\ (Answered => Answered')
      BY <2>2 DEF AnswerControl, Answered
    <3>3. ~Answering
      BY <2>2 DEF AnswerControl, Answering, Free
    <3>4. ASSUME Requested PROVE Requested' \/ Answering'
      <4>1. PICK n \in 1 .. Len(controls) : controls[n] = "full"
        BY <3>4 DEF Requested
      <4>2. controls \in Seq({"full", "context"}) /\ controls # << >> /\ controls' = Tail(controls)
        BY <2>2 DEF AnswerControl, TypeOK
      <4>3. controls[n] = Head(controls) \/ Requested'
        BY <4>1, <4>2, HeadOrTail DEF Requested
      <4>4. Head(controls) = "full" => Answering'
        BY <2>2 DEF AnswerControl, Answering, Publish, TypeOK, Publishers
      <4>5. QED
        BY <4>1, <4>3, <4>4
    <3>5. QED
      BY <3>1, <3>2, <3>3, <3>4
  <2>3. CASE Ask
    <3>1. Requested \/ Answering \/ Answered
      BY <1>0, <2>3 DEF Ask, client
    <3>2. UNCHANGED <<publisher, wire>>
      BY <2>3 DEF Ask, bridge
    <3>3. Requested => Requested'
      BY <2>3 DEF Ask, Requested, TypeOK
    <3>4. QED
      BY <3>1, <3>2, <3>3 DEF Answering, Answered
  <2>4. CASE NeovimConnection \/ EditorReports \/ Heartbeat
    BY <1>0, <2>4
    DEF NeovimConnection, EditorReports, Heartbeat, Publish, Requested, Answering, Answered,
        client, TypeOK, Publishers
  <2>5. ASSUME NEW p \in Publishers, Publishing(p)
        PROVE  Requested' \/ Answering' \/ Answered'
    <3>1. Requested \/ Answering \/ Answered
      BY <1>0, <2>5 DEF Publishing, Check, Stamp, Count, Store, Write, client
    <3>2. Requested => Requested'
      BY <2>5 DEF Publishing, Check, Stamp, Count, Store, Write, Requested
    <3>3. Answered => Answered'
      BY <2>5 DEF Publishing, Check, Stamp, Count, Store, Write, Answered, TypeOK
    <3>4. QED
      BY <2>5, <3>1, <3>2, <3>3, AnswerReachesWire
  <2>6. CASE UNCHANGED vars
    BY <1>0, <2>6 DEF vars, bridge, client, Requested, Answering, Answered
  <2>7. QED
    BY <2>1, <2>2, <2>3, <2>4, <2>5, <2>6 DEF Next
<1>3. QED
  BY <1>1, <1>2, TypeCorrect, PTL DEF Spec
=============================================================================
