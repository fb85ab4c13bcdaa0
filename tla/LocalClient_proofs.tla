-------------------------- MODULE LocalClient_proofs --------------------------
(***************************************************************************)
(* What is proved of LocalClient for every number of reports, losses and    *)
(* controls: its types, and that it hands over the reports of its own       *)
(* Neovim only, all of them and in order.                                   *)
(***************************************************************************)
EXTENDS LocalClient, SequenceTheorems, TLAPS

NoRequest == \A i \in 1..Len(inbox) : inbox[i] = "control"

\* Without a connection nothing is under way; the thread is connected where
\* it says so.
Linked ==
    /\ conn = None => ~up /\ ~registered /\ wire = << >> /\ inbox = << >>
    /\ pc \in {"begin", "connect", "tell", "wait", "done"} => conn = None
    /\ Listening \/ pc = "assign" => conn # None
    /\ pc \in {"register", "serve"} => conn = Own

\* One request is under way at a time: before it is sent nothing is, and once
\* it was answered nothing is either.
OneRequest ==
    /\ pc = "assign" \/ (pc \in Requests /\ at = "send") =>
          wire = << >> /\ NoRequest /\ ~registered
    /\ pc \in Requests /\ at # "send" =>
          /\ \A i \in 1..Len(inbox) : inbox[i] \in {"control", pc}
          /\ \A i, j \in 1..Len(inbox) : inbox[i] = pc /\ inbox[j] = pc => i = j
          /\ (\E i \in 1..Len(inbox) : inbox[i] = pc) => wire = << >> /\ ~registered
    /\ pc = "serve" => NoRequest /\ registered
    /\ (pc \in Requests /\ at = "send") \/ pc \in {"info", "identity"} => early = << >>

\* The replies ahead of the registration come alone.
Answered ==
    pc \in {"info", "identity"} =>
        /\ ~registered
        /\ Len(wire) <= 1
        /\ wire # << >> => wire[1].kind \in {pc, "error"} /\ wire[1].from = conn

Change(m, v) == m.kind = "change" /\ m.from = Own /\ m.ver = v /\ v <= ver
Full(m) == m.kind = "fullState" /\ m.from = Own /\ m.ver > handed /\ m.ver <= ver

\* What is kept and what is under way is the stream of a registration: its full
\* state, its reply, and changes numbered one by one up to what Neovim reported last.
Stream ==
    /\ pc = "register" /\ ~registered => early = << >> /\ wire = << >>
    /\ pc = "register" /\ registered /\ early = << >> =>
          /\ wire # << >> =>
                /\ Len(wire) >= 2 /\ Full(wire[1]) /\ wire[2].kind = "register"
                /\ \A i \in 3..Len(wire) : Change(wire[i], wire[1].ver + i - 2)
          /\ up => wire # << >> /\ ver = wire[1].ver + Len(wire) - 2
    /\ pc = "register" /\ registered /\ early # << >> =>
          /\ Len(early) = 1 /\ Full(early[1])
          /\ wire # << >> =>
                /\ wire[1].kind = "register"
                /\ \A i \in 2..Len(wire) : Change(wire[i], early[1].ver + i - 1)
          /\ up => wire # << >> /\ ver = early[1].ver + Len(wire) - 1
    /\ pc = "serve" /\ at # "hand" /\ early # << >> =>
          /\ Len(early) = 1 /\ Full(early[1]) /\ ~auth
          /\ \A i \in 1..Len(wire) : Change(wire[i], early[1].ver + i)
          /\ up => ver = early[1].ver + Len(wire)
    /\ pc = "serve" /\ at = "hand" =>
          /\ early = << >> /\ cache \in Reports
          /\ IF auth THEN Change(cache, handed + 1) ELSE Full(cache)
          /\ \A i \in 1..Len(wire) : Change(wire[i], cache.ver + i)
          /\ up => ver = cache.ver + Len(wire)
    /\ pc = "serve" /\ at # "hand" /\ early = << >> =>
          /\ auth
          /\ \A i \in 1..Len(wire) : Change(wire[i], handed + i)
          /\ up => ver = handed + Len(wire)

\* What was handed over is Own's, and a new connection begins unauthenticated.
Handed ==
    /\ handed <= ver
    /\ cache # None => cache.from = Own
    /\ held # None => held.from = Own
    /\ auth => pc \in {"serve", "close", "tell"} \/ (pc \in {"begin", "done"} /\ Stopping)

Inv == TypeOK /\ Linked /\ OneRequest /\ Answered /\ Stream /\ Handed

-----------------------------------------------------------------------------
(* Types, in the groups the actions change together.                        *)

Places == Requests \cup {"begin", "connect", "assign", "serve", "close", "tell", "wait", "done"}
States == {"nothing", "connecting", "connected", "disconnected"}

PlaceType == pc \in Places /\ at \in {"send", "top", "feed", "hand"}
EarlyType == early \in Seq(Reports)
ClientType ==
    /\ auth \in BOOLEAN /\ told \in States
    /\ cache \in Reports \cup {None} /\ handed \in Nat
SenderType ==
    /\ call \in [Senders -> {"idle", "lock", "write", "publish", "drain", "get", "ended"}]
    /\ held \in Reports \cup {None}
    /\ jobs \in Seq({"control", "end"}) /\ closed \in BOOLEAN /\ controls \in Nat
NeovimType == peer \in Peers \cup {None} /\ ver \in Nat /\ breaks \in Nat
EndType == conn \in Peers \cup {None} /\ up \in BOOLEAN /\ registered \in BOOLEAN
InboxType == inbox \in Seq(Requests \cup {"control"})
WireType == wire \in Seq(Reports \cup Replies)
LockType ==
    /\ lock \in Senders \cup {"free"} /\ stop \in {"no", "set", "closed"}
    /\ sock \in BOOLEAN /\ rejected \in BOOLEAN

Types == /\ PlaceType /\ EarlyType /\ ClientType /\ SenderType /\ NeovimType
         /\ EndType /\ InboxType /\ WireType /\ LockType

LEMMA TypesOK == TypeOK <=> Types
  BY DEF TypeOK, Types, PlaceType, EarlyType, ClientType, SenderType, NeovimType, EndType,
         InboxType, WireType, LockType, Places, States

LEMMA Kept ==
    /\ PlaceType /\ pc' = pc /\ at' = at => PlaceType'
    /\ EarlyType /\ early' = early => EarlyType'
    /\ ClientType /\ UNCHANGED client => ClientType'
    /\ SenderType /\ UNCHANGED senders => SenderType'
    /\ NeovimType /\ UNCHANGED neovim => NeovimType'
    /\ EndType /\ conn' = conn /\ up' = up /\ registered' = registered => EndType'
    /\ InboxType /\ inbox' = inbox => InboxType'
    /\ WireType /\ wire' = wire => WireType'
    /\ LockType /\ lock' = lock /\ stop' = stop /\ sock' = sock /\ rejected' = rejected => LockType'
  BY DEF PlaceType, EarlyType, ClientType, SenderType, NeovimType, EndType, InboxType,
         WireType, LockType, client, senders, neovim

LEMMA Emptied ==
    /\ inbox' = << >> => InboxType'
    /\ wire' = << >> => WireType'
<1>1. << >> \in Seq(Requests \cup {"control"})
  OBVIOUS
<1>2. << >> \in Seq(Reports \cup Replies)
  OBVIOUS
<1>3. QED
  BY <1>1, <1>2, Zenon DEF InboxType, WireType

LEMMA Went ==
    ASSUME NEW place \in Places, NEW step \in {"send", "top", "feed", "hand"}, Go(place, step)
    PROVE  PlaceType'
  BY DEF Go, PlaceType

\* The head of the stream, and what is left of it.
LEMMA HeadType ==
    ASSUME WireType, wire # << >>
    PROVE  /\ Head(wire) \in Reports \cup Replies /\ Tail(wire) \in Seq(Reports \cup Replies)
           /\ IsReport(Head(wire)) => Head(wire) \in Reports
           /\ ~IsReport(Head(wire)) => Head(wire).kind \in Requests \cup {"error"}
<1>1. Head(wire) \in Reports \cup Replies /\ Tail(wire) \in Seq(Reports \cup Replies)
  BY DEF WireType
<1>2. QED
  BY <1>1 DEF IsReport, Reports, Replies, Requests

LEMMA SourceTypes ==
    ASSUME Types, Linked, Stream, SourceThread
    PROVE  Types'
<1> USE DEF Types
<1>1. CASE Begin
  <2>1. PlaceType'
    BY <1>1, Went DEF Begin, Places
  <2>2. ClientType'
    BY <1>1 DEF Begin, ClientType, States
  <2>3. LockType'
    BY <1>1 DEF Begin, LockType
  <2>4. QED
    BY <1>1, <2>1, <2>2, <2>3, Kept DEF Begin, connection
<1>2. CASE Connect
  <2>1. PlaceType'
    BY <1>2, Went DEF Connect, Places
  <2>2. conn' \in Peers \cup {None}
    BY <1>2 DEF Connect, EndType, connection, NeovimType
  <2>3. up' \in BOOLEAN /\ registered' \in BOOLEAN
    BY <1>2 DEF Connect, EndType, connection
  <2>4. InboxType' /\ WireType'
    BY <1>2, Emptied, Kept, Zenon DEF Connect, connection
  <2>5. QED
    BY <1>2, <2>1, <2>2, <2>3, <2>4, Kept DEF Connect, EndType
<1>3. CASE Assign
  <2>1. PlaceType'
    BY <1>3, Went DEF Assign, Places, Requests
  <2>2. EarlyType' /\ LockType'
    BY <1>3 DEF Assign, EarlyType, LockType
  <2>3. QED
    BY <1>3, <2>1, <2>2, Kept DEF Assign, connection
<1>4. CASE SendRequest
  <2>1. PlaceType'
    BY <1>4, Went DEF SendRequest, Places, Requests
  <2>2. InboxType'
    BY <1>4 DEF SendRequest, InboxType
  <2>3. QED
    BY <1>4, <2>1, <2>2, Kept DEF SendRequest
<1>5. CASE Leave
  <2>1. PlaceType'
    BY <1>5, Went DEF Leave, Places
  <2>2. QED
    BY <1>5, <2>1, Kept DEF Leave, connection
<1>6. CASE Block
  <2>1. PlaceType'
    BY <1>6, Went DEF Block, PlaceType
  <2>2. QED
    BY <1>6, <2>1, Kept DEF Block, connection
<1>7. CASE Feed
  <2>1. PlaceType'
    BY <1>7, Went DEF Feed, PlaceType, Places
  <2>2. QED
    BY <1>7, <2>1, Kept DEF Feed, connection
<1>8. CASE KeepNotification
  <2>1. EarlyType' /\ WireType'
    BY <1>8, HeadType DEF KeepNotification, EarlyType, WireType
  <2>2. QED
    BY <1>8, <2>1, Kept DEF KeepNotification
<1>9. CASE TakeReply
  <2>0. WireType'
    BY <1>9, HeadType DEF TakeReply, WireType
  <2>1. PlaceType'
    <3>1. /\ pc' \in {"close", "identity", "register", "serve"}
          /\ at' \in {"send", "top"}
      BY <1>9 DEF TakeReply, Go
    <3>2. QED
      BY <3>1 DEF PlaceType, Places, Requests
  <2>2. LockType'
    BY <1>9 DEF TakeReply, LockType
  <2>3. QED
    BY <1>9, <2>0, <2>1, <2>2, Kept DEF TakeReply
<1>10. CASE Dispatch
  <2>1. EarlyType' /\ WireType'
    <3>1. \/ early # << >> /\ early' = Tail(early) /\ wire' = wire
          \/ wire # << >> /\ wire' = Tail(wire) /\ early' = early
      BY <1>10 DEF Dispatch
    <3>2. early # << >> => Tail(early) \in Seq(Reports)
      BY HeadTailProperties DEF EarlyType
    <3>3. QED
      BY <3>1, <3>2, HeadType DEF EarlyType, WireType
  <2>2. PlaceType'
    <3>1. (pc' = pc /\ at' = at) \/ Go("serve", "hand")
      BY <1>10, Zenon DEF Dispatch, CacheReport
    <3>2. QED
      BY <3>1, Went, Kept DEF Places
  <2>3. ClientType'
    <3>1. cache' \in Reports \cup {None}
      <4>1. CASE early # << >>
        <5>1. Head(early) \in Reports
          BY <4>1 DEF EarlyType
        <5>2. QED
          BY <1>10, <4>1, <5>1 DEF Dispatch, CacheReport
      <4>2. CASE early = << >>
        BY <1>10, <4>2, HeadType DEF Dispatch, CacheReport, ClientType
      <4>3. QED
        BY <4>1, <4>2
    <3>2. QED
      BY <1>10, <3>1 DEF Dispatch, ClientType
  <2>4. QED
    BY <1>10, <2>1, <2>2, <2>3, Kept DEF Dispatch
<1>11. CASE HandOver
  <2>1. PlaceType'
    BY <1>11, Went DEF HandOver, Places
  <2>2. cache \in Reports
    BY <1>11 DEF Stream, HandOver
  <2>3. ClientType'
    BY <1>11, <2>2 DEF HandOver, ClientType, Reports, States
  <2>4. QED
    BY <1>11, <2>1, <2>3, Kept DEF HandOver, connection
<1>12. CASE Close
  <2>1. PlaceType'
    BY <1>12, Went DEF Close, Places
  <2>2. EndType'
    BY <1>12 DEF Close, EndType
  <2>3. InboxType' /\ WireType'
    BY <1>12, Emptied, Zenon DEF Close
  <2>4. LockType'
    BY <1>12 DEF Close, LockType
  <2>5. QED
    BY <1>12, <2>1, <2>2, <2>3, <2>4, Kept DEF Close
<1>13. CASE Tell
  <2>1. PlaceType'
    BY <1>13, Went DEF Tell, Places
  <2>2. ClientType'
    BY <1>13 DEF Tell, ClientType, States
  <2>3. QED
    BY <1>13, <2>1, <2>2, Kept DEF Tell, connection
<1>14. CASE Wait
  <2>1. PlaceType'
    BY <1>14, Went DEF Wait, Places
  <2>2. QED
    BY <1>14, <2>1, Kept DEF Wait, connection
<1>15. QED
  BY <1>1, <1>2, <1>3, <1>4, <1>5, <1>6, <1>7, <1>8, <1>9, <1>10, <1>11, <1>12, <1>13,
     <1>14 DEF SourceThread

LEMMA SenderTypes ==
    ASSUME Types, Stop \/ CloseSocket \/ MainThread \/ Worker
    PROVE  Types'
<1> USE DEF Types
<1> DEFINE Steps == {"idle", "lock", "write", "publish", "drain", "get", "ended"}
<1>1. ASSUME NEW s \in Senders, NEW step \in Steps, Set(s, step)
      PROVE  call' \in [Senders -> Steps]
  BY <1>1 DEF Set, SenderType
<1>2. CASE Stop
  <2>1. LockType'
    BY <1>2, Zenon DEF Stop, LockType, source
  <2>2. QED
    BY <1>2, <2>1, Kept DEF Stop, source, connection
<1>3. CASE CloseSocket
  <2>1. LockType'
    BY <1>3 DEF CloseSocket, LockType, source
  <2>2. EndType'
    BY <1>3 DEF CloseSocket, Lose, EndType
  <2>3. InboxType' /\ WireType'
    <3>1. (inbox' = inbox \/ inbox' = << >>) /\ (wire' = wire \/ wire' = << >>)
      BY <1>3 DEF CloseSocket, Lose
    <3>2. QED
      BY <3>1, Emptied, Kept, Zenon
  <2>4. QED
    BY <1>3, <2>1, <2>2, <2>3, Kept DEF CloseSocket, source
<1>4. CASE SendControl \/ CopyState \/ Submit \/ CloseDispatcher \/ PublishState \/ DrainJobs
           \/ WorkerLooks \/ WorkerTakes
  <2>1. call' \in [Senders -> Steps]
    BY <1>1, <1>4 DEF SendControl, CopyState, Submit, CloseDispatcher, PublishState, DrainJobs,
                      WorkerLooks, WorkerTakes, SenderType, Senders
  <2>2. held' \in Reports \cup {None}
    BY <1>4 DEF SendControl, CopyState, Submit, CloseDispatcher, PublishState, DrainJobs,
                WorkerLooks, WorkerTakes, SenderType, ClientType
  <2>3. jobs' \in Seq({"control", "end"})
    <3>1. CASE Submit
      BY <3>1 DEF Submit, SenderType
    <3>2. CASE DrainJobs
      BY <3>2 DEF DrainJobs
    <3>3. CASE WorkerTakes
      BY <3>3 DEF WorkerTakes, SenderType
    <3>4. QED
      BY <1>4, <3>1, <3>2, <3>3 DEF SendControl, CopyState, CloseDispatcher, PublishState,
                                    WorkerLooks, SenderType
  <2>4. closed' \in BOOLEAN
    BY <1>4 DEF SendControl, CopyState, Submit, CloseDispatcher, PublishState, DrainJobs,
                WorkerLooks, WorkerTakes, SenderType
  <2>5. controls' \in Nat
    BY <1>4 DEF SendControl, CopyState, Submit, CloseDispatcher, PublishState, DrainJobs,
                WorkerLooks, WorkerTakes, SenderType
  <2>6. SenderType'
    BY <2>1, <2>2, <2>3, <2>4, <2>5 DEF SenderType
  <2>7. QED
    BY <1>4, <2>6, Kept DEF SendControl, CopyState, Submit, CloseDispatcher, PublishState,
                            DrainJobs, WorkerLooks, WorkerTakes, source, connection
<1>5. ASSUME NEW s \in Senders, TakeSocket(s)
      PROVE  Types'
  <2>1. call' \in [Senders -> Steps]
    BY <1>1, <1>5 DEF TakeSocket
  <2>2. SenderType'
    BY <1>5, <2>1 DEF TakeSocket, SenderType
  <2>3. LockType'
    BY <1>5 DEF TakeSocket, LockType, source
  <2>4. QED
    BY <1>5, <2>2, <2>3, Kept DEF TakeSocket, source, connection
<1>6. ASSUME NEW s \in Senders, Write(s)
      PROVE  Types'
  <2>1. call' \in [Senders -> Steps]
    BY <1>1, <1>6 DEF Write
  <2>2. SenderType'
    BY <1>6, <2>1 DEF Write, SenderType
  <2>3. LockType'
    BY <1>6 DEF Write, LockType, source
  <2>4. InboxType'
    BY <1>6 DEF Write, InboxType
  <2>5. QED
    BY <1>6, <2>2, <2>3, <2>4, Kept DEF Write, source
<1>7. QED
  BY <1>2, <1>3, <1>4, <1>5, <1>6 DEF MainThread, Worker, Senders

LEMMA NeovimTypes ==
    ASSUME Types, Linked, Neovim
    PROVE  Types'
<1> USE DEF Types
<1>1. CASE Read
  <2>1. conn \in Peers
    BY <1>1 DEF Read, Linked, EndType
  <2>2. NeovimType' /\ EndType'
    <3>1. NeovimType'
      BY <1>1 DEF Read, NeovimType
    <3>2. EndType'
      BY <1>1 DEF Read, EndType
    <3>3. QED
      BY <3>1, <3>2
  <2>3. InboxType'
    BY <1>1 DEF Read, InboxType
  <2>4. WireType'
    <3>1. CASE Head(inbox) \in {"info", "identity"}
      <4>1. PICK kind \in {Head(inbox)} \cup (IF conn = Other THEN {"error"} ELSE {}) :
               Say(<<[kind |-> kind, from |-> conn, ver |-> ver]>>)
        BY <1>1, <3>1 DEF Read
      <4>2. [kind |-> kind, from |-> conn, ver |-> ver] \in Replies
        BY <2>1, <3>1 DEF Replies, Requests, NeovimType
      <4>3. QED
        BY <4>1, <4>2 DEF Say, WireType
    <3>2. CASE Head(inbox) = "register"
      <4>1. Report("fullState") \in Reports
        BY <2>1, <2>2 DEF Report, Reports, NeovimType
      <4>2. [kind |-> "register", from |-> conn, ver |-> ver'] \in Replies
        BY <2>1, <2>2 DEF Replies, Requests, NeovimType
      <4>3. Say(<<Report("fullState"), [kind |-> "register", from |-> conn, ver |-> ver']>>)
        BY <1>1, <3>2 DEF Read
      <4>4. QED
        BY <4>1, <4>2, <4>3 DEF Say, WireType
    <3>3. CASE Head(inbox) = "control"
      BY <1>1, <3>3 DEF Read, WireType
    <3>4. QED
      BY <1>1, <3>1, <3>2, <3>3 DEF Read
  <2>5. QED
    BY <1>1, <2>2, <2>3, <2>4, Kept DEF Read, source
<1>2. CASE Notify
  <2>1. conn \in Peers
    BY <1>2 DEF Notify, Linked, EndType
  <2>2. NeovimType'
    BY <1>2 DEF Notify, NeovimType
  <2>3. Report("change") \in Reports
    BY <2>1, <2>2 DEF Report, Reports, NeovimType
  <2>4. WireType'
    BY <1>2, <2>3 DEF Notify, Say, WireType
  <2>5. QED
    BY <1>2, <2>2, <2>4, Kept DEF Notify, source
<1>3. CASE Break
  <2>1. NeovimType'
    BY <1>3 DEF Break, NeovimType
  <2>2. EndType'
    BY <1>3 DEF Break, Lose, EndType
  <2>3. InboxType'
    BY <1>3, Emptied, Zenon DEF Break, Lose
  <2>4. WireType'
    <3>1. wire' = wire \/ wire' = << >>
      BY <1>3 DEF Break, Lose
    <3>2. QED
      BY <3>1, Emptied, Kept, Zenon
  <2>5. QED
    BY <1>3, <2>1, <2>2, <2>3, <2>4, Kept DEF Break, source
<1>4. CASE End
  <2>1. NeovimType'
    BY <1>4 DEF End, NeovimType
  <2>2. EndType'
    BY <1>4 DEF End, Lose, EndType
  <2>3. InboxType'
    BY <1>4, Emptied, Kept, Zenon DEF End, Lose
  <2>4. WireType'
    <3>1. wire' = wire \/ wire' = << >>
      BY <1>4 DEF End, Lose
    <3>2. QED
      BY <3>1, Emptied, Kept, Zenon
  <2>5. QED
    BY <1>4, <2>1, <2>2, <2>3, <2>4, Kept DEF End, source
<1>5. CASE Reuse
  <2>1. NeovimType'
    BY <1>5 DEF Reuse, NeovimType, Peers
  <2>2. QED
    BY <1>5, <2>1, Kept DEF Reuse, source, connection
<1>6. QED
  BY <1>1, <1>2, <1>3, <1>4, <1>5 DEF Neovim

-----------------------------------------------------------------------------
(* The parts of the invariant.                                              *)

Parts == Linked /\ OneRequest /\ Answered /\ Stream /\ Handed

LEMMA InitInv == Init => Inv
<1> SUFFICES ASSUME Init PROVE Inv
  OBVIOUS
<1>1. TypeOK
  <2>1. PlaceType /\ LockType
    BY DEF Init, PlaceType, Places, Requests, LockType
  <2>2. EarlyType /\ InboxType /\ WireType
    <3>1. early = << >> /\ inbox = << >> /\ wire = << >>
      BY DEF Init
    <3>2. QED
      BY <3>1 DEF EarlyType, InboxType, WireType
  <2>3. ClientType
    BY DEF Init, ClientType, States
  <2>4. SenderType
    <3>1. call \in [Senders -> {"idle", "lock", "write", "publish", "drain", "get", "ended"}]
      BY DEF Init, Senders
    <3>2. jobs \in Seq({"control", "end"})
      BY DEF Init
    <3>3. held = None /\ closed \in BOOLEAN /\ controls \in Nat
      BY DEF Init
    <3>4. QED
      BY <3>1, <3>2, <3>3, Zenon DEF SenderType
  <2>5. NeovimType /\ EndType
    BY DEF Init, NeovimType, EndType, Peers
  <2>6. QED
    BY <2>1, <2>2, <2>3, <2>4, <2>5, TypesOK DEF Types
<1>2. Linked
  BY PeersAssumption DEF Init, Linked, Listening, Requests
<1>3. OneRequest /\ Answered /\ Stream
  BY DEF Init, OneRequest, Answered, Stream, Requests
<1>4. Handed
  BY DEF Init, Handed
<1>5. QED
  BY <1>1, <1>2, <1>3, <1>4 DEF Inv

\* A step that touches neither end of the connection, nor what is kept of it.
LEMMA Quiet ==
    ASSUME Parts, UNCHANGED <<pc, at, early, auth, handed, cache, held>>,
           UNCHANGED connection, ver' = ver, Stopping => Stopping'
    PROVE  Parts'
<1> USE DEF Parts, connection
<1>1. Linked'
  BY DEF Linked, Listening
<1>2. OneRequest'
  BY DEF OneRequest, NoRequest
<1>3. Answered'
  BY DEF Answered
<1>4. Stream'
  BY DEF Stream, Full, Change
<1>5. Handed'
  BY DEF Handed
<1>6. QED
  BY <1>1, <1>2, <1>3, <1>4, <1>5

\* A connection that is gone, with what it carried or without.
LEMMA Cut ==
    ASSUME Parts, UNCHANGED <<pc, at, early, auth, handed, cache, held>>, up' = FALSE,
           inbox' \in {inbox, << >>}, wire' \in {wire, << >>},
           UNCHANGED <<conn, registered, ver>>, Stopping => Stopping'
    PROVE  Parts'
<1> USE DEF Parts
<1>1. Linked'
  BY DEF Linked, Listening
<1>2. OneRequest'
  BY DEF OneRequest, NoRequest
<1>3. Answered'
  BY DEF Answered
<1>4. Stream'
  BY DEF Stream, Full, Change
<1>5. Handed'
  BY DEF Handed
<1>6. QED
  BY <1>1, <1>2, <1>3, <1>4, <1>5

LEMMA OtherThreads ==
    ASSUME Inv, Stop \/ CloseSocket \/ MainThread \/ Worker
    PROVE  Parts'
<1>0. Parts
  BY DEF Inv, Parts
<1>1. CASE Stop
  BY <1>0, <1>1, Quiet DEF Stop, Stopping, source, client, senders, neovim
<1>2. CASE CloseSocket
  <2>1. CASE sock
    BY <1>0, <1>2, <2>1, Cut DEF CloseSocket, Lose, Stopping, source, client, senders, neovim
  <2>2. CASE ~sock
    BY <1>0, <1>2, <2>2, Quiet DEF CloseSocket, Stopping, source, client, senders, neovim,
                                   connection
  <2>3. QED
    BY <2>1, <2>2
<1>3. CASE SendControl \/ Submit \/ CloseDispatcher \/ DrainJobs \/ WorkerLooks \/ WorkerTakes
  BY <1>0, <1>3, Quiet DEF SendControl, Submit, CloseDispatcher, DrainJobs, WorkerLooks,
                           WorkerTakes, Stopping, source, client, neovim
<1>4. CASE CopyState \/ PublishState
  <2>1. Handed'
    BY <1>0, <1>4 DEF CopyState, PublishState, Parts, Handed, Stopping, source, client, neovim
  <2>2. Linked'
    BY <1>0, <1>4 DEF CopyState, PublishState, Parts, Linked, Listening, source, connection
  <2>3. OneRequest'
    BY <1>0, <1>4 DEF CopyState, PublishState, Parts, OneRequest, NoRequest, source, connection
  <2>4. Answered'
    BY <1>0, <1>4 DEF CopyState, PublishState, Parts, Answered, source, connection
  <2>5. Stream'
    BY <1>0, <1>4 DEF CopyState, PublishState, Parts, Stream, Full, Change, source, client,
                      neovim, connection
  <2>6. QED
    BY <2>1, <2>2, <2>3, <2>4, <2>5 DEF Parts
<1>5. ASSUME NEW s \in Senders, TakeSocket(s)
      PROVE  Parts'
  BY <1>0, <1>5, Quiet DEF TakeSocket, Stopping, source, client, neovim
<1>6. ASSUME NEW s \in Senders, Write(s)
      PROVE  Parts'
  <2>1. CASE ~up
    BY <1>0, <1>6, <2>1, Quiet DEF Write, Stopping, source, client, neovim, connection
  <2>2. CASE up
    <3>1. /\ Len(inbox') = Len(inbox) + 1 /\ inbox'[Len(inbox) + 1] = "control"
          /\ Len(inbox) \in Nat
          /\ \A i \in 1..Len(inbox) : inbox'[i] = inbox[i]
      <4>1. inbox \in Seq(Requests \cup {"control"})
        BY DEF Inv, TypeOK
      <4>2. inbox' = Append(inbox, "control")
        BY <1>6, <2>2 DEF Write
      <4>3. QED
        BY <4>1, <4>2
    <3>2. Linked'
      BY <1>0, <1>6, <2>2 DEF Write, Parts, Linked, Listening, source
    <3>3. OneRequest'
      BY <1>0, <1>6, <3>1 DEF Write, Parts, OneRequest, NoRequest, source, Requests
    <3>4. Answered'
      BY <1>0, <1>6 DEF Write, Parts, Answered, source
    <3>5. Stream'
      BY <1>0, <1>6 DEF Write, Parts, Stream, Full, Change, source, client, neovim
    <3>6. Handed'
      BY <1>0, <1>6 DEF Write, Parts, Handed, Stopping, source, client, neovim
    <3>7. QED
      BY <3>2, <3>3, <3>4, <3>5, <3>6 DEF Parts
  <2>3. QED
    BY <2>1, <2>2
<1>7. QED
  BY <1>1, <1>2, <1>3, <1>4, <1>5, <1>6 DEF MainThread, Worker, Senders

\* The request under way, when there is one.
LEMMA OnlyRequest ==
    ASSUME Inv, up, inbox # << >>, Head(inbox) \in Requests, pc # "close"
    PROVE  /\ pc = Head(inbox) /\ at # "send" /\ wire = << >> /\ ~registered
           /\ \A i \in 1..Len(Tail(inbox)) : Tail(inbox)[i] = "control"
<1>1. /\ Len(inbox) \in Nat /\ Len(inbox) >= 1 /\ Head(inbox) = inbox[1]
      /\ Len(Tail(inbox)) = Len(inbox) - 1
      /\ \A i \in 1..Len(Tail(inbox)) : Tail(inbox)[i] = inbox[i + 1]
  BY DEF Inv, TypeOK
<1>2. inbox[1] # "control"
  BY <1>1 DEF Requests
<1>3. pc \in Requests /\ at # "send"
  <2>1. ~NoRequest
    BY <1>1, <1>2 DEF NoRequest
  <2>2. conn # None
    BY DEF Inv, Linked
  <2>3. QED
    BY <2>1, <2>2 DEF Inv, Linked, OneRequest, TypeOK
<1>4. inbox[1] = pc
  BY <1>1, <1>2, <1>3 DEF Inv, OneRequest
<1>5. wire = << >> /\ ~registered
  BY <1>1, <1>3, <1>4 DEF Inv, OneRequest
<1>6. ASSUME NEW i \in 1..Len(Tail(inbox))
      PROVE  Tail(inbox)[i] = "control"
  <2>1. i \in Nat /\ i + 1 \in 1..Len(inbox) /\ 1 \in 1..Len(inbox) /\ i + 1 # 1
    BY <1>1, <1>6
  <2>2. inbox[i + 1] # pc
    BY <1>3, <1>4, <2>1 DEF Inv, OneRequest
  <2>3. QED
    BY <1>1, <1>3, <1>6, <2>1, <2>2 DEF Inv, OneRequest
<1>7. QED
  BY <1>1, <1>3, <1>4, <1>5, <1>6

LEMMA EarlyHead ==
    ASSUME Inv, Len(early) = 1
    PROVE  early[1] \in Reports /\ early[1].ver \in Nat
<1>1. early \in Seq(Reports)
  BY DEF Inv, TypeOK
<1>2. early[1] \in Reports
  BY <1>1
<1>3. QED
  BY <1>2 DEF Reports

LEMMA NeovimParts ==
    ASSUME Inv, Neovim
    PROVE  Parts'
<1>0. Parts
  BY DEF Inv, Parts
<1> USE DEF source, client, senders
<1>1. CASE Read
  <2>1. /\ inbox # << >> /\ inbox' = Tail(inbox) /\ Len(inbox) \in Nat /\ Len(inbox) >= 1
        /\ Head(inbox) = inbox[1] /\ Len(inbox') = Len(inbox) - 1
        /\ \A i \in 1..Len(inbox') : inbox'[i] = inbox[i + 1]
    <3>1. inbox \in Seq(Requests \cup {"control"}) /\ inbox # << >> /\ inbox' = Tail(inbox)
      BY <1>1 DEF Inv, TypeOK, Read
    <3>2. QED
      BY <3>1
  <2>2. up /\ conn # None /\ conn' = conn /\ up' = up
    BY <1>0, <1>1 DEF Read, Parts, Linked
  <2>3. CASE pc = "close"
    <3>1. Linked'
      BY <1>1, <2>2, <2>3 DEF Read, Linked, Listening, Requests
    <3>2. OneRequest' /\ Answered' /\ Stream'
      BY <1>1, <2>3 DEF Read, OneRequest, Answered, Stream, Requests
    <3>3. Handed'
      BY <1>0, <1>1 DEF Read, Parts, Handed, Stopping, Inv, TypeOK
    <3>4. QED
      BY <3>1, <3>2, <3>3 DEF Parts
  <2>4. CASE pc # "close" /\ Head(inbox) \in {"info", "identity"}
    <3>1. /\ pc = Head(inbox) /\ at # "send" /\ wire = << >> /\ ~registered
          /\ \A i \in 1..Len(inbox') : inbox'[i] = "control"
      BY <2>1, <2>2, <2>4, OnlyRequest DEF Requests
    <3>2. PICK kind \in {pc, "error"} : Say(<<[kind |-> kind, from |-> conn, ver |-> ver]>>)
      BY <1>1, <2>4, <3>1 DEF Read
    <3>3. wire' = <<[kind |-> kind, from |-> conn, ver |-> ver]>>
      BY <3>1, <3>2 DEF Say
    <3>4. /\ ver' = ver /\ registered' = registered
          /\ UNCHANGED <<pc, at, early, handed, cache, held, auth, stop>>
      BY <1>1, <2>4 DEF Read
    <3>5. Linked'
      BY <1>0, <2>2, <2>4, <3>1, <3>4 DEF Parts, Linked, Listening, Requests
    <3>6. OneRequest'
      BY <1>0, <2>2, <2>4, <3>1, <3>4 DEF Parts, OneRequest, NoRequest, Requests
    <3>7. Answered'
      BY <1>0, <2>2, <3>1, <3>3, <3>4 DEF Parts, Answered
    <3>8. Stream'
      BY <2>4, <3>1, <3>4 DEF Stream
    <3>9. Handed'
      BY <1>0, <3>4 DEF Parts, Handed, Stopping
    <3>10. QED
      BY <3>5, <3>6, <3>7, <3>8, <3>9 DEF Parts
  <2>5. CASE pc # "close" /\ Head(inbox) = "register"
    <3>1. /\ pc = "register" /\ at # "send" /\ wire = << >> /\ ~registered
          /\ \A i \in 1..Len(inbox') : inbox'[i] = "control"
      BY <2>1, <2>2, <2>5, OnlyRequest DEF Requests
    <3>2. wire' = <<Report("fullState"), [kind |-> "register", from |-> conn, ver |-> ver']>>
      BY <1>1, <2>5, <3>1 DEF Read, Say
    <3>3. ver \in Nat /\ ver' = ver + 1 /\ registered' = TRUE
          /\ UNCHANGED <<pc, at, early, handed, cache, held, auth, stop>>
      BY <1>1, <2>5 DEF Read, Inv, TypeOK
    <3>4. conn = Own /\ early = << >>
      BY <1>0, <3>1 DEF Parts, Linked, Stream
    <3>5. Linked'
      BY <1>0, <2>2, <3>1, <3>3, <3>4 DEF Parts, Linked, Listening, Requests
    <3>6. OneRequest'
      BY <1>0, <2>2, <3>1, <3>3 DEF Parts, OneRequest, NoRequest, Requests
    <3>7. Answered'
      BY <3>1, <3>3 DEF Answered
    <3>8. Stream'
      <4>1. wire'[1] = Report("fullState") /\ wire'[2].kind = "register" /\ Len(wire') = 2
        BY <3>2
      <4>2. Full(wire[1])'
        BY <1>0, <3>3, <3>4, <4>1 DEF Parts, Handed, Full, Report, Inv, TypeOK
      <4>3. wire[1].ver' = ver'
        BY <4>1 DEF Report
      <4>4. QED
        BY <3>1, <3>3, <3>4, <4>1, <4>2, <4>3 DEF Stream
    <3>9. Handed'
      BY <1>0, <3>3 DEF Parts, Handed, Stopping, Inv, TypeOK
    <3>10. QED
      BY <3>5, <3>6, <3>7, <3>8, <3>9 DEF Parts
  <2>6. CASE pc # "close" /\ Head(inbox) = "control"
    <3>1. UNCHANGED <<pc, at, early, handed, cache, held, auth, stop, wire, ver, registered>>
      BY <1>1, <2>6 DEF Read
    <3>2. Linked'
      BY <1>0, <2>2, <3>1 DEF Parts, Linked, Listening
    <3>3. OneRequest'
      <4>1. ASSUME NEW i \in 1..Len(inbox') PROVE i + 1 \in 1..Len(inbox) /\ i \in Nat
        BY <2>1
      <4>2. NoRequest => NoRequest'
        BY <2>1, <4>1 DEF NoRequest
      <4>3. QED
        BY <1>0, <2>1, <3>1, <4>1, <4>2 DEF Parts, OneRequest
    <3>4. Answered' /\ Stream'
      BY <1>0, <2>2, <3>1 DEF Parts, Answered, Stream, Full, Change
    <3>5. Handed'
      BY <1>0, <3>1 DEF Parts, Handed, Stopping
    <3>6. QED
      BY <3>2, <3>3, <3>4, <3>5 DEF Parts
  <2>7. QED
    BY <1>1, <2>3, <2>4, <2>5, <2>6 DEF Read
<1>2. CASE Notify
  <2>1. /\ Len(wire) \in Nat /\ Len(wire') = Len(wire) + 1
        /\ wire'[Len(wire) + 1] = Report("change")
        /\ \A i \in 1..Len(wire) : wire'[i] = wire[i]
    <3>1. wire \in Seq(Reports \cup Replies) /\ wire' = wire \o <<Report("change")>>
      BY <1>2 DEF Inv, TypeOK, Notify, Say
    <3>2. QED
      BY <3>1
  <2>2. up /\ registered /\ conn # None /\ ver \in Nat /\ ver' = ver + 1 /\ handed \in Nat
    BY <1>0, <1>2 DEF Notify, Parts, Linked, Inv, TypeOK
  <2>3. UNCHANGED <<pc, at, early, handed, cache, held, auth, stop, inbox, conn, up, registered>>
    BY <1>2 DEF Notify
  <2>4. pc \in {"register", "serve"} =>
           /\ wire'[Len(wire) + 1].kind = "change" /\ wire'[Len(wire) + 1].from = Own
           /\ wire'[Len(wire) + 1].ver = ver + 1
    BY <1>0, <2>1, <2>2 DEF Parts, Linked, Report
  <2>5. Linked'
    BY <1>0, <2>2, <2>3 DEF Parts, Linked, Listening
  <2>6. OneRequest'
    BY <1>0, <2>2, <2>3 DEF Parts, OneRequest, NoRequest
  <2>7. Answered'
    BY <1>0, <2>2, <2>3 DEF Parts, Answered
  <2>8. Stream'
    <3>1. CASE pc = "register" /\ early = << >>
      <4>1. /\ Len(wire) >= 2 /\ Full(wire[1]) /\ wire[2].kind = "register"
            /\ \A i \in 3..Len(wire) : Change(wire[i], wire[1].ver + i - 2)
            /\ ver = wire[1].ver + Len(wire) - 2
        BY <1>0, <2>2, <3>1 DEF Parts, Stream
      <4>2. wire'[1] = wire[1] /\ wire'[2] = wire[2]
        BY <2>1, <4>1
      <4>3. wire[1].ver \in Nat
        BY <2>1, <2>2, <4>1 DEF Full, Inv, TypeOK, Reports, Replies
      <4>4. ASSUME NEW i \in 3..Len(wire')
            PROVE  Change(wire[i], wire[1].ver + i - 2)'
        <5>1. CASE i \in 3..Len(wire)
          <6>1. wire'[i] = wire[i] /\ Change(wire[i], wire[1].ver + i - 2)
            BY <2>1, <4>1, <5>1
          <6>2. QED
            BY <2>1, <2>2, <2>3, <4>2, <4>3, <6>1 DEF Change
        <5>2. CASE i = Len(wire) + 1
          <6>1. wire'[1].ver + i - 2 = ver + 1
            <7>1. ver = wire[1].ver + Len(wire) - 2 /\ wire'[1].ver = wire[1].ver
              BY <4>1, <4>2
            <7>2. QED
              BY <2>1, <4>3, <5>2, <7>1
          <6>2. wire'[i].kind = "change" /\ wire'[i].from = Own /\ wire'[i].ver = ver + 1
            BY <2>4, <3>1, <5>2
          <6>3. QED
            BY <2>2, <6>1, <6>2 DEF Change
        <5>3. QED
          BY <2>1, <4>4, <5>1, <5>2
      <4>5. Full(wire[1])'
        BY <2>2, <2>3, <4>1, <4>2, <4>3 DEF Full
      <4>6. QED
        BY <2>1, <2>2, <2>3, <3>1, <4>1, <4>2, <4>3, <4>4, <4>5 DEF Stream
    <3>2. CASE pc = "register" /\ early # << >>
      <4>1. /\ Len(early) = 1 /\ Full(early[1]) /\ Len(wire) >= 1 /\ wire[1].kind = "register"
            /\ \A i \in 2..Len(wire) : Change(wire[i], early[1].ver + i - 1)
            /\ ver = early[1].ver + Len(wire) - 1
        BY <1>0, <2>1, <2>2, <3>2 DEF Parts, Stream
      <4>2. wire'[1] = wire[1] /\ early[1].ver \in Nat
        BY <2>1, <4>1, EarlyHead
      <4>3. ASSUME NEW i \in 2..Len(wire')
            PROVE  Change(wire[i], early[1].ver + i - 1)'
        <5>1. CASE i \in 2..Len(wire)
          <6>1. wire'[i] = wire[i] /\ Change(wire[i], early[1].ver + i - 1)
            BY <2>1, <4>1, <5>1
          <6>2. QED
            BY <2>1, <2>2, <2>3, <4>2, <6>1 DEF Change
        <5>2. CASE i = Len(wire) + 1
          <6>1. early[1].ver + i - 1 = ver + 1
            <7>1. ver = early[1].ver + Len(wire) - 1
              BY <4>1
            <7>2. Len(wire) \in Nat
              BY <2>1
            <7>3. \A e, n \in Nat : e + (n + 1) - 1 = (e + n - 1) + 1
              OBVIOUS
            <7>4. QED
              BY <4>2, <5>2, <7>1, <7>2, <7>3
          <6>2. wire'[i].kind = "change" /\ wire'[i].from = Own /\ wire'[i].ver = ver + 1
            BY <2>4, <3>2, <5>2
          <6>3. QED
            BY <2>2, <2>3, <6>1, <6>2 DEF Change
        <5>3. QED
          BY <2>1, <4>3, <5>1, <5>2
      <4>4. Full(early[1])'
        BY <2>2, <2>3, <4>1, <4>2 DEF Full
      <4>5. QED
        BY <2>1, <2>2, <2>3, <3>2, <4>1, <4>2, <4>3, <4>4 DEF Stream
    <3>3. CASE pc = "serve" /\ at # "hand" /\ early # << >>
      <4>1. /\ Len(early) = 1 /\ Full(early[1]) /\ ~auth
            /\ \A i \in 1..Len(wire) : Change(wire[i], early[1].ver + i)
            /\ ver = early[1].ver + Len(wire)
        BY <1>0, <2>2, <3>3 DEF Parts, Stream
      <4>2. early[1].ver \in Nat
        BY <4>1, EarlyHead
      <4>3. ASSUME NEW i \in 1..Len(wire')
            PROVE  Change(wire[i], early[1].ver + i)'
        <5>1. CASE i \in 1..Len(wire)
          <6>1. wire'[i] = wire[i] /\ Change(wire[i], early[1].ver + i)
            BY <2>1, <4>1, <5>1
          <6>2. QED
            BY <2>1, <2>2, <2>3, <4>2, <6>1 DEF Change
        <5>2. CASE i = Len(wire) + 1
          <6>1. early[1].ver + i = ver + 1
            <7>1. ver = early[1].ver + Len(wire)
              BY <4>1
            <7>2. Len(wire) \in Nat
              BY <2>1
            <7>3. QED
              BY <4>2, <5>2, <7>1, <7>2
          <6>2. wire'[i].kind = "change" /\ wire'[i].from = Own /\ wire'[i].ver = ver + 1
            BY <2>4, <3>3, <5>2
          <6>3. QED
            BY <2>2, <2>3, <6>1, <6>2 DEF Change
        <5>3. QED
          BY <2>1, <4>3, <5>1, <5>2
      <4>4. Full(early[1])'
        BY <2>2, <2>3, <4>1, <4>2 DEF Full
      <4>5. QED
        BY <2>1, <2>2, <2>3, <3>3, <4>1, <4>2, <4>3, <4>4 DEF Stream
    <3>4. CASE pc = "serve" /\ at # "hand" /\ early = << >>
      <4>1. /\ auth /\ \A i \in 1..Len(wire) : Change(wire[i], handed + i)
            /\ ver = handed + Len(wire)
        BY <1>0, <2>2, <3>4 DEF Parts, Stream
      <4>2. ASSUME NEW i \in 1..Len(wire')
            PROVE  Change(wire[i], handed + i)'
        <5>1. CASE i \in 1..Len(wire)
          <6>1. wire'[i] = wire[i] /\ Change(wire[i], handed + i)
            BY <2>1, <4>1, <5>1
          <6>2. QED
            BY <2>2, <2>3, <6>1 DEF Change
        <5>2. CASE i = Len(wire) + 1
          <6>1. handed + i = ver + 1
            <7>1. ver = handed + Len(wire)
              BY <4>1
            <7>2. Len(wire) \in Nat
              BY <2>1
            <7>3. QED
              BY <2>2, <5>2, <7>1, <7>2
          <6>2. wire'[i].kind = "change" /\ wire'[i].from = Own /\ wire'[i].ver = ver + 1
            BY <2>4, <3>4, <5>2
          <6>3. QED
            BY <2>2, <2>3, <6>1, <6>2 DEF Change
        <5>3. QED
          BY <2>1, <4>2, <5>1, <5>2
      <4>3. QED
        BY <2>1, <2>2, <2>3, <3>4, <4>1, <4>2 DEF Stream
    <3>5. CASE pc \notin {"register", "serve"}
      BY <2>3, <3>5 DEF Stream
    <3>6. CASE pc = "serve" /\ at = "hand"
      <4>1. /\ early = << >> /\ cache \in Reports
            /\ IF auth THEN Change(cache, handed + 1) ELSE Full(cache)
            /\ \A i \in 1..Len(wire) : Change(wire[i], cache.ver + i)
            /\ ver = cache.ver + Len(wire)
        BY <1>0, <2>2, <3>6 DEF Parts, Stream
      <4>2. cache.ver \in Nat
        BY <4>1 DEF Reports
      <4>3. ASSUME NEW i \in 1..Len(wire')
            PROVE  Change(wire[i], cache.ver + i)'
        <5>1. CASE i \in 1..Len(wire)
          <6>1. wire'[i] = wire[i] /\ Change(wire[i], cache.ver + i)
            BY <2>1, <4>1, <5>1
          <6>2. QED
            BY <2>1, <2>2, <2>3, <4>2, <6>1 DEF Change
        <5>2. CASE i = Len(wire) + 1
          <6>1. cache.ver + i = ver + 1
            <7>1. ver = cache.ver + Len(wire)
              BY <4>1
            <7>2. Len(wire) \in Nat
              BY <2>1
            <7>3. QED
              BY <4>2, <5>2, <7>1, <7>2
          <6>2. wire'[i].kind = "change" /\ wire'[i].from = Own /\ wire'[i].ver = ver + 1
            BY <2>4, <3>6, <5>2
          <6>3. QED
            BY <2>2, <2>3, <6>1, <6>2 DEF Change
        <5>3. QED
          BY <2>1, <4>3, <5>1, <5>2
      <4>4. (IF auth THEN Change(cache, handed + 1) ELSE Full(cache))'
        BY <2>2, <2>3, <4>1, <4>2 DEF Full, Change
      <4>5. ver' = cache'.ver + Len(wire')
        <5>1. ver = cache.ver + Len(wire) /\ cache' = cache
          BY <2>3, <4>1
        <5>2. Len(wire') = Len(wire) + 1 /\ Len(wire) \in Nat
          BY <2>1
        <5>3. QED
          BY <2>2, <4>2, <5>1, <5>2
      <4>6. pc' = "serve" /\ at' = "hand" /\ early' = << >> /\ cache' \in Reports
        BY <2>3, <3>6, <4>1
      <4>7. QED
        BY <4>3, <4>4, <4>5, <4>6 DEF Stream
    <3>7. QED
      BY <3>1, <3>2, <3>3, <3>4, <3>5, <3>6
  <2>9. Handed'
    BY <1>0, <2>2, <2>3 DEF Parts, Handed, Stopping
  <2>10. QED
    BY <2>5, <2>6, <2>7, <2>8, <2>9 DEF Parts
<1>3. CASE Break
  BY <1>0, <1>3, Cut DEF Break, Lose, Stopping
<1>4. CASE End
  <2>1. CASE conn = peer /\ up
    BY <1>0, <1>4, <2>1, Cut DEF End, Lose, Stopping
  <2>2. CASE ~(conn = peer /\ up)
    BY <1>0, <1>4, <2>2, Quiet DEF End, Stopping, connection
  <2>3. QED
    BY <2>1, <2>2
<1>5. CASE Reuse
  BY <1>0, <1>5, Quiet DEF Reuse, Stopping
<1>6. QED
  BY <1>1, <1>2, <1>3, <1>4, <1>5 DEF Neovim

\* The head of what is under way, and what is left.
LEMMA Tails ==
    ASSUME Inv, wire # << >>
    PROVE  /\ Len(wire) \in Nat /\ Len(wire) >= 1 /\ Head(wire) = wire[1]
           /\ Len(Tail(wire)) = Len(wire) - 1
           /\ \A i \in 1..Len(Tail(wire)) : Tail(wire)[i] = wire[i + 1]
<1>1. wire \in Seq(Reports \cup Replies)
  BY DEF Inv, TypeOK
<1>2. QED
  BY <1>1

\* A report that is taken from the connection ahead of a reply is the full state of
\* the registration, and the only one.
LEMMA KeptReport ==
    ASSUME Inv, KeepNotification
    PROVE  /\ pc = "register" /\ registered /\ early = << >> /\ at = "top"
           /\ Len(wire) >= 2 /\ Full(wire[1]) /\ wire[2].kind = "register"
           /\ \A i \in 3..Len(wire) : Change(wire[i], wire[1].ver + i - 2)
           /\ up => ver = wire[1].ver + Len(wire) - 2
           /\ early' = <<wire[1]>> /\ wire' = Tail(wire)
<1>1. wire # << >> /\ Head(wire) = wire[1] /\ IsReport(wire[1]) /\ pc \in Requests
      /\ at = "top"
  BY Tails DEF KeepNotification
<1>2. pc = "register"
  BY <1>1 DEF Inv, Answered, IsReport, Requests
<1>3. registered
  BY <1>1, <1>2 DEF Inv, Stream
<1>4. early = << >>
  BY <1>1, <1>2, <1>3 DEF Inv, Stream, IsReport
<1>5. early' = <<wire[1]>> /\ wire' = Tail(wire)
  BY <1>1, <1>4 DEF KeepNotification
<1>6. QED
  BY <1>1, <1>2, <1>3, <1>4, <1>5 DEF Inv, Stream

\* What the notifications loop takes next, and that nothing was skipped.
LEMMA Dispatched ==
    ASSUME Inv, Dispatch
    PROVE  \/ /\ early # << >> /\ Len(early) = 1 /\ early' = << >> /\ wire' = wire /\ ~auth
              /\ Full(early[1]) /\ CacheReport(early[1]) /\ early[1] \in Reports
              /\ \A i \in 1..Len(wire) : Change(wire[i], early[1].ver + i)
              /\ up => ver = early[1].ver + Len(wire)
           \/ /\ early = << >> /\ early' = << >> /\ wire # << >> /\ wire' = Tail(wire) /\ auth
              /\ Change(wire[1], handed + 1) /\ CacheReport(wire[1]) /\ wire[1] \in Reports
              /\ \A i \in 1..Len(wire) : Change(wire[i], handed + i)
              /\ up => ver = handed + Len(wire)
<1>1. CASE early # << >>
  <2>1. /\ Len(early) = 1 /\ Full(early[1]) /\ ~auth
        /\ \A i \in 1..Len(wire) : Change(wire[i], early[1].ver + i)
        /\ up => ver = early[1].ver + Len(wire)
    BY <1>1 DEF Inv, Stream, Dispatch
  <2>2. CacheReport(early[1]) /\ early' = Tail(early) /\ wire' = wire
    BY <1>1 DEF Dispatch
  <2>3. Tail(early) = << >>
    <3>1. early \in Seq(Reports)
      BY DEF Inv, TypeOK
    <3>2. Len(early) = 1
      BY <2>1
    <3>3. Tail(early) \in Seq(Reports) /\ Len(Tail(early)) = 0
      BY <3>1, <3>2
    <3>4. QED
      BY <3>3, EmptySeq
  <2>4. QED
    BY <1>1, <2>1, <2>2, <2>3, EarlyHead
<1>2. CASE early = << >>
  <2>1. /\ auth /\ \A i \in 1..Len(wire) : Change(wire[i], handed + i)
        /\ up => ver = handed + Len(wire)
    BY <1>2 DEF Inv, Stream, Dispatch
  <2>2. wire # << >> /\ wire' = Tail(wire) /\ early' = early /\ Head(wire) = wire[1]
    BY <1>2, Tails DEF Dispatch
  <2>3. Change(wire[1], handed + 1)
    BY <2>1, <2>2, Tails
  <2>4. CacheReport(wire[1])
    BY <1>2, <2>2, <2>3 DEF Dispatch, IsReport, Change
  <2>5. wire[1] \in Reports
    <3>1. WireType
      BY TypesOK DEF Inv, Types
    <3>2. IsReport(Head(wire))
      BY <2>2, <2>3 DEF Change, IsReport
    <3>3. QED
      BY <2>2, <3>1, <3>2, HeadType
  <2>6. QED
    BY <1>2, <2>1, <2>2, <2>3, <2>4, <2>5
<1>3. QED
  BY <1>1, <1>2

LEMMA SourceParts ==
    ASSUME Inv, SourceThread
    PROVE  Parts'
<1>0. Parts
  BY DEF Inv, Parts
<1> USE DEF Parts, source, client, senders, neovim, connection, Stopping
<1>1. CASE Begin \/ Wait \/ Tell
  <2>1. Linked'
    BY <1>0, <1>1 DEF Begin, Wait, Tell, Go, Linked, Listening, Requests
  <2>2. OneRequest' /\ Answered' /\ Stream'
    BY <1>1 DEF Begin, Wait, Tell, Go, OneRequest, Answered, Stream, Requests
  <2>3. Handed'
    BY <1>0, <1>1 DEF Begin, Wait, Tell, Go, Handed
  <2>4. QED
    BY <2>1, <2>2, <2>3
<1>2. CASE Connect
  <2>1. Linked'
    BY <1>0, <1>2, PeersAssumption DEF Connect, Go, Linked, Listening, Requests
  <2>2. OneRequest' /\ Answered' /\ Stream'
    BY <1>2 DEF Connect, Go, OneRequest, NoRequest, Answered, Stream, Requests
  <2>3. Handed'
    BY <1>0, <1>2 DEF Connect, Go, Handed
  <2>4. QED
    BY <2>1, <2>2, <2>3
<1>3. CASE Assign
  <2>1. Linked'
    BY <1>0, <1>3 DEF Assign, Go, Linked, Listening, Requests
  <2>2. OneRequest' /\ Answered' /\ Stream'
    BY <1>0, <1>3 DEF Assign, Go, OneRequest, NoRequest, Answered, Stream, Requests
  <2>3. Handed'
    BY <1>0, <1>3 DEF Assign, Go, Handed
  <2>4. QED
    BY <2>1, <2>2, <2>3
<1>4. CASE SendRequest
  <2>1. CASE ~up
    <3>1. Linked'
      BY <1>0, <1>4, <2>1 DEF SendRequest, Go, Linked, Listening, Requests
    <3>2. OneRequest' /\ Answered' /\ Stream'
      BY <1>4, <2>1 DEF SendRequest, Go, OneRequest, Answered, Stream, Requests
    <3>3. Handed'
      BY <1>0, <1>4, <2>1 DEF SendRequest, Go, Handed
    <3>4. QED
      BY <3>1, <3>2, <3>3
  <2>2. CASE up
    <3>1. /\ pc \in Requests /\ at = "send" /\ pc' = pc /\ at' = "top"
          /\ UNCHANGED <<early, wire, conn, up, registered, auth, handed, cache, held, ver, stop>>
      BY <1>4, <2>2 DEF SendRequest, Go
    <3>2. /\ Len(inbox) \in Nat /\ Len(inbox') = Len(inbox) + 1
          /\ inbox'[Len(inbox) + 1] = pc
          /\ \A i \in 1..Len(inbox) : inbox'[i] = inbox[i]
      <4>1. inbox \in Seq(Requests \cup {"control"}) /\ inbox' = Append(inbox, pc)
        BY <1>4, <2>2 DEF SendRequest, Inv, TypeOK
      <4>2. QED
        BY <4>1
    <3>3. wire = << >> /\ NoRequest /\ ~registered /\ early = << >>
      BY <1>0, <3>1 DEF OneRequest
    <3>4. Linked'
      BY <1>0, <2>2, <3>1 DEF Linked, Listening
    <3>5. OneRequest'
      BY <3>1, <3>2, <3>3 DEF OneRequest, NoRequest, Requests
    <3>6. Answered' /\ Stream'
      BY <3>1, <3>3 DEF Answered, Stream, Requests
    <3>7. Handed'
      BY <1>0, <3>1 DEF Handed
    <3>8. QED
      BY <3>4, <3>5, <3>6, <3>7
  <2>3. QED
    BY <2>1, <2>2
<1>5. CASE (Leave \/ Block \/ Feed) /\ pc' = "close"
  <2>1. Linked'
    BY <1>0, <1>5 DEF Leave, Block, Feed, Go, Linked, Listening, Requests
  <2>2. OneRequest' /\ Answered' /\ Stream'
    BY <1>5 DEF OneRequest, Answered, Stream, Requests
  <2>3. Handed'
    BY <1>0, <1>5 DEF Leave, Block, Feed, Go, Handed, Listening, Requests
  <2>4. QED
    BY <2>1, <2>2, <2>3
<1>6. CASE (Leave \/ Block \/ Feed) /\ pc' # "close"
  <2>1. /\ pc' = pc /\ {at, at'} \cap {"send", "hand"} = {}
        /\ UNCHANGED <<early, wire, inbox, conn, up, registered, auth, handed, cache, held,
                       ver, stop>>
    BY <1>6 DEF Leave, Block, Feed, Go
  <2>2. Linked'
    BY <1>0, <2>1 DEF Linked, Listening
  <2>3. OneRequest'
    BY <1>0, <2>1 DEF OneRequest, NoRequest
  <2>4. Answered' /\ Stream'
    BY <1>0, <2>1 DEF Answered, Stream, Full, Change
  <2>5. Handed'
    BY <1>0, <2>1 DEF Handed
  <2>6. QED
    BY <2>2, <2>3, <2>4, <2>5
<1>7. CASE KeepNotification
  <2>1. /\ pc = "register" /\ registered /\ early = << >> /\ at = "top"
        /\ Len(wire) >= 2 /\ Full(wire[1]) /\ wire[2].kind = "register"
        /\ \A i \in 3..Len(wire) : Change(wire[i], wire[1].ver + i - 2)
        /\ up => ver = wire[1].ver + Len(wire) - 2
        /\ early' = <<wire[1]>> /\ wire' = Tail(wire)
    BY <1>7, KeptReport
  <2>2. UNCHANGED <<pc, at, inbox, conn, up, registered, auth, handed, cache, held, ver, stop>>
    BY <1>7 DEF KeepNotification
  <2>3. /\ Len(wire) \in Nat /\ Len(wire') = Len(wire) - 1
        /\ \A i \in 1..Len(wire') : wire'[i] = wire[i + 1]
    BY <2>1, Tails
  <2>4. Linked'
    BY <1>0, <2>1, <2>2 DEF Linked, Listening
  <2>5. OneRequest'
    BY <1>0, <2>1, <2>2 DEF OneRequest, NoRequest, Requests
  <2>6. Answered'
    BY <2>1, <2>2 DEF Answered
  <2>7. Stream'
    <3>1. Len(early') = 1 /\ early'[1] = wire[1] /\ early' # << >> /\ wire[1].ver \in Nat
      <4>1. wire[1] \in Reports \cup Replies
        <5>1. wire \in Seq(Reports \cup Replies)
          BY DEF Inv, TypeOK
        <5>2. QED
          BY <2>1, <5>1
      <4>2. wire[1].ver \in Nat
        BY <4>1 DEF Reports, Replies
      <4>3. QED
        BY <2>1, <4>2
    <3>2. Full(early[1])'
      BY <2>1, <2>2, <3>1 DEF Full
    <3>3. wire'[1].kind = "register"
      BY <2>1, <2>3
    <3>4. ASSUME NEW i \in 2..Len(wire')
          PROVE  Change(wire[i], early[1].ver + i - 1)'
      BY <2>1, <2>2, <2>3, <3>1, <3>4 DEF Change
    <3>5. Len(wire') >= 1 /\ (up => ver = early'[1].ver + Len(wire') - 1)
      BY <2>1, <2>3, <3>1
    <3>6. pc' = "register" /\ registered' /\ wire' # << >>
      <4>1. wire' # << >>
        BY <3>5
      <4>2. pc' = "register" /\ registered'
        BY <2>1, <2>2
      <4>3. QED
        BY <4>1, <4>2
    <3>7. up' => ver' = early'[1].ver + Len(wire') - 1
      BY <2>2, <3>5
    <3>8. pc' # "serve" /\ early' # << >>
      BY <3>1, <3>6
    <3>9. QED
      BY <3>1, <3>2, <3>3, <3>4, <3>6, <3>7, <3>8, Zenon DEF Stream
  <2>8. Handed'
    BY <1>0, <2>2 DEF Handed
  <2>9. QED
    BY <2>4, <2>5, <2>6, <2>7, <2>8
<1>8. CASE TakeReply
  <2>1. /\ Len(wire) \in Nat /\ Len(wire) >= 1 /\ Head(wire) = wire[1] /\ wire # << >>
        /\ Len(wire') = Len(wire) - 1
        /\ \A i \in 1..Len(wire') : wire'[i] = wire[i + 1]
    BY <1>8, Tails DEF TakeReply
  <2>2. UNCHANGED <<early, inbox, conn, up, registered, auth, handed, cache, held, ver, stop>>
        /\ pc \in Requests /\ at = "top" /\ wire' = Tail(wire)
    BY <1>8 DEF TakeReply
  <2>3. NoRequest /\ conn # None /\ ~auth
    BY <1>0, <2>1, <2>2 DEF OneRequest, NoRequest, Linked, Listening, Handed, Requests
  <2>4. CASE pc' = "close"
    <3>1. Linked'
      BY <2>2, <2>3, <2>4 DEF Linked, Listening, Requests
    <3>2. OneRequest' /\ Answered' /\ Stream'
      BY <2>4 DEF OneRequest, Answered, Stream, Requests
    <3>3. Handed'
      BY <1>0, <2>2, <2>3 DEF Handed
    <3>4. QED
      BY <3>1, <3>2, <3>3
  <2>5. CASE pc' # "close" /\ pc \in {"info", "identity"}
    <3>1. Len(wire) = 1 /\ ~registered /\ wire[1].kind = pc /\ wire[1].from = conn /\ early = << >>
      BY <1>0, <1>8, <2>1, <2>2, <2>5 DEF Answered, OneRequest, TakeReply, Go
    <3>2. wire' = << >>
      <4>1. wire \in Seq(Reports \cup Replies)
        BY DEF Inv, TypeOK
      <4>2. QED
        BY <2>2, <3>1, <4>1
    <3>3. pc' \in {"identity", "register"} /\ at' = "send" /\ (pc' = "register" => conn = Own)
      BY <1>8, <2>1, <2>5, <3>1 DEF TakeReply, Go
    <3>4. Linked'
      BY <1>0, <2>2, <2>3, <3>3 DEF Linked, Listening, Requests
    <3>5. OneRequest'
      BY <2>2, <2>3, <3>1, <3>2, <3>3 DEF OneRequest, NoRequest, Requests
    <3>6. Answered'
      BY <2>1, <2>2, <3>1, <3>2, <3>3 DEF Answered
    <3>7. Stream'
      BY <2>2, <3>1, <3>2, <3>3 DEF Stream
    <3>8. Handed'
      BY <1>0, <2>2, <2>3 DEF Handed
    <3>9. QED
      BY <3>4, <3>5, <3>6, <3>7, <3>8
  <2>6. CASE pc' # "close" /\ pc = "register"
    <3>1. registered
      BY <1>0, <2>1, <2>6 DEF Stream
    <3>2. early # << >>
      BY <1>0, <1>8, <2>1, <2>6, <3>1 DEF Stream, Full, TakeReply, IsReport
    <3>3. /\ Len(early) = 1 /\ Full(early[1]) /\ wire[1].kind = "register"
          /\ \A i \in 2..Len(wire) : Change(wire[i], early[1].ver + i - 1)
          /\ up => ver = early[1].ver + Len(wire) - 1
      BY <1>0, <2>1, <2>6, <3>1, <3>2 DEF Stream
    <3>4. pc' = "serve" /\ at' = "top"
      BY <1>8, <2>1, <2>6, <3>3 DEF TakeReply, Go
    <3>5. Linked'
      BY <1>0, <2>2, <2>3, <2>6, <3>4 DEF Linked, Listening, Requests
    <3>6. OneRequest'
      BY <2>2, <2>3, <3>1, <3>4 DEF OneRequest, NoRequest, Requests
    <3>7. Answered'
      BY <3>4 DEF Answered
    <3>8. Stream'
      <4>1. early[1].ver \in Nat
        BY <3>3, EarlyHead
      <4>2. Full(early[1])'
        BY <2>2, <3>3 DEF Full
      <4>3. ASSUME NEW i \in 1..Len(wire')
            PROVE  Change(wire[i], early[1].ver + i)'
        BY <2>1, <2>2, <3>3, <4>1, <4>3 DEF Change
      <4>4. QED
        BY <2>1, <2>2, <2>3, <3>2, <3>3, <3>4, <4>1, <4>2, <4>3 DEF Stream
    <3>9. Handed'
      BY <1>0, <2>2, <2>3 DEF Handed
    <3>10. QED
      BY <3>5, <3>6, <3>7, <3>8, <3>9
  <2>7. QED
    BY <2>2, <2>4, <2>5, <2>6 DEF Requests
<1>9. CASE Dispatch
  <2>1. /\ pc = "serve" /\ at = "top"
        /\ UNCHANGED <<inbox, conn, up, registered, auth, handed, held, ver, stop>>
    BY <1>9 DEF Dispatch
  <2>2. handed \in Nat /\ ver \in Nat /\ Len(wire) \in Nat
    BY DEF Inv, TypeOK
  <2>3. \/ /\ early' = << >> /\ wire' = wire /\ Full(early[1]) /\ CacheReport(early[1])
           /\ early[1] \in Reports /\ ~auth
           /\ \A i \in 1..Len(wire) : Change(wire[i], early[1].ver + i)
           /\ up => ver = early[1].ver + Len(wire)
        \/ /\ early' = << >> /\ wire' = Tail(wire) /\ wire # << >> /\ CacheReport(wire[1])
           /\ auth /\ Change(wire[1], handed + 1) /\ wire[1] \in Reports
           /\ \A i \in 1..Len(wire) : Change(wire[i], handed + i)
           /\ up => ver = handed + Len(wire)
    BY <1>9, Dispatched
  <2>4. pc' = "serve" /\ at' = "hand" /\ cache' \in Reports /\ cache'.from = Own /\ early' = << >>
    BY <2>3 DEF CacheReport, Go, Full, Change
  <2>5. Linked' /\ OneRequest' /\ Answered'
    <3>1. wire # << >> => conn # None
      BY <1>0 DEF Linked
    <3>2. Linked'
      BY <1>0, <2>1, <2>3, <2>4, <3>1 DEF Linked, Listening
    <3>3. OneRequest' /\ Answered'
      BY <1>0, <2>1, <2>4 DEF OneRequest, NoRequest, Answered, Requests
    <3>4. QED
      BY <3>2, <3>3
  <2>6. Handed'
    BY <1>0, <2>1, <2>4 DEF Handed
  <2>7. Stream'
    <3>1. CASE ~auth
      <4>1. /\ wire' = wire /\ Full(early[1]) /\ cache' = early[1]
            /\ \A i \in 1..Len(wire) : Change(wire[i], early[1].ver + i)
            /\ up => ver = early[1].ver + Len(wire)
        BY <2>3, <3>1 DEF CacheReport
      <4>2. QED
        BY <2>1, <2>4, <3>1, <4>1 DEF Stream, Full, Change
    <3>2. CASE auth
      <4>1. /\ wire' = Tail(wire) /\ wire # << >> /\ cache' = wire[1]
            /\ Change(wire[1], handed + 1)
            /\ \A i \in 1..Len(wire) : Change(wire[i], handed + i)
            /\ up => ver = handed + Len(wire)
        BY <2>3, <3>2 DEF CacheReport
      <4>2. /\ Len(wire') = Len(wire) - 1 /\ \A i \in 1..Len(wire') : wire'[i] = wire[i + 1]
        BY <4>1, Tails
      <4>3. cache'.ver = handed + 1 /\ Change(cache, handed + 1)'
        BY <2>1, <4>1 DEF Change
      <4>4. ASSUME NEW i \in 1..Len(wire')
            PROVE  Change(wire[i], cache.ver + i)'
        BY <2>1, <2>2, <4>1, <4>2, <4>3, <4>4 DEF Change
      <4>5. up' => ver' = cache'.ver + Len(wire')
        BY <2>1, <2>2, <4>1, <4>2, <4>3
      <4>6. QED
        BY <2>1, <2>4, <3>2, <4>3, <4>4, <4>5 DEF Stream
    <3>3. QED
      BY <3>1, <3>2
  <2>8. QED
    BY <2>5, <2>6, <2>7
<1>10. CASE HandOver
  <2>1. /\ pc = "serve" /\ at = "hand" /\ pc' = "serve" /\ at' = "top"
        /\ UNCHANGED <<early, wire, inbox, conn, up, registered, cache, held, ver, stop>>
        /\ handed' = cache.ver
    BY <1>10 DEF HandOver, Go
  <2>2. /\ early = << >> /\ cache \in Reports
        /\ IF auth THEN Change(cache, handed + 1) ELSE Full(cache)
        /\ \A i \in 1..Len(wire) : Change(wire[i], cache.ver + i)
        /\ up => ver = cache.ver + Len(wire)
    BY <1>0, <2>1 DEF Stream
  <2>3. auth' = TRUE /\ cache.ver <= ver /\ cache.from = Own
    <3>1. auth \in BOOLEAN
      BY DEF Inv, TypeOK
    <3>2. QED
      BY <1>10, <2>2, <3>1 DEF HandOver, Full, Change
  <2>4. Linked' /\ OneRequest' /\ Answered'
    BY <1>0, <2>1 DEF Linked, Listening, OneRequest, NoRequest, Answered, Requests
  <2>5. Stream'
    BY <2>1, <2>2, <2>3 DEF Stream, Change
  <2>6. Handed'
    BY <1>0, <2>1, <2>3 DEF Handed
  <2>7. QED
    BY <2>4, <2>5, <2>6
<1>11. CASE Close
  <2>1. Linked'
    BY <1>0, <1>11 DEF Close, Go, Linked, Listening, Requests
  <2>2. OneRequest' /\ Answered' /\ Stream'
    BY <1>11 DEF Close, Go, OneRequest, Answered, Stream, Requests
  <2>3. Handed'
    BY <1>0, <1>11 DEF Close, Go, Handed
  <2>4. QED
    BY <2>1, <2>2, <2>3
<1>12. QED
  BY <1>1, <1>2, <1>3, <1>4, <1>5, <1>6, <1>7, <1>8, <1>9, <1>11, <1>10
     DEF SourceThread

-----------------------------------------------------------------------------
(* The theorems.                                                            *)

LEMMA InvStep == Inv /\ [Next]_vars => Inv'
<1> SUFFICES ASSUME Inv, [Next]_vars PROVE Inv'
  OBVIOUS
<1>1. Parts' /\ Types'
  <2>0. Types /\ Linked /\ Parts
    BY TypesOK DEF Inv, Parts
  <2>1. CASE SourceThread
    BY <2>0, <2>1, SourceTypes, SourceParts DEF Parts
  <2>2. CASE Stop \/ CloseSocket \/ MainThread \/ Worker
    BY <2>0, <2>2, SenderTypes, OtherThreads
  <2>3. CASE Neovim
    BY <2>0, <2>3, NeovimTypes, NeovimParts
  <2>4. CASE UNCHANGED vars
    <3>1. Types'
      BY <2>0, <2>4, Kept DEF Types, vars, source, connection
    <3>2. Parts'
      BY <2>0, <2>4, Quiet DEF vars, source, client, senders, neovim, Stopping
    <3>3. QED
      BY <3>1, <3>2
  <2>5. QED
    BY <2>1, <2>2, <2>3, <2>4 DEF Next
<1>2. TypeOK'
  <2>1. TypeOK' <=> Types'
    BY TypesOK, PTL
  <2>2. QED
    BY <1>1, <2>1
<1>3. QED
  BY <1>1, <1>2 DEF Inv, Parts

LEMMA Invariant == Spec => []Inv
<1>1. Init => Inv
  BY InitInv
<1>2. Inv /\ [Next]_vars => Inv'
  BY InvStep
<1>3. QED
  BY <1>1, <1>2, PTL DEF Spec

\* Every variable of the client, of the threads that send and of both ends of
\* the connection keeps a value the code gives it (LocalTcpClient, NvimRpcSource,
\* ControlDispatcher).
THEOREM TypeCorrect == Spec => []TypeOK
<1>1. Inv => TypeOK
  BY DEF Inv
<1>2. QED
  BY <1>1, Invariant, PTL

LEMMA HandsOver == Inv /\ [Next]_vars => [HandsOverOwn]_vars
<1> SUFFICES ASSUME Inv, [Next]_vars PROVE [HandsOverOwn]_vars
  OBVIOUS
<1> USE DEF HandsOverOwn
<1>1. CASE Dispatch
  <2>1. handed' = handed /\ (held' # None => held'.from = Own)
    BY <1>1 DEF Inv, Handed, Dispatch, senders
  <2>2. CASE early # << >>
    BY <1>1, <2>1, <2>2, Dispatched DEF CacheReport, Full
  <2>3. CASE early = << >>
    BY <1>1, <2>1, <2>3, Dispatched DEF CacheReport, Change
  <2>4. QED
    BY <2>2, <2>3
<1>2. CASE HandOver
  <2>1. /\ cache' = cache /\ held' = held /\ handed' = cache.ver /\ cache \in Reports
        /\ IF auth THEN Change(cache, handed + 1) ELSE Full(cache)
    BY <1>2 DEF HandOver, Inv, Stream, senders
  <2>2. auth' /\ cache.from = Own
    BY <1>2, <2>1 DEF HandOver, Full, Change
  <2>3. QED
    BY <2>1, <2>2 DEF Inv, Handed
<1>3. CASE SourceThread /\ ~Dispatch /\ ~HandOver
  <2>1. held' = held /\ handed' = handed /\ (cache' = cache \/ cache' = None)
    BY <1>3 DEF SourceThread, Begin, Connect, Assign, SendRequest, Leave, Block, Feed,
                KeepNotification, TakeReply, Close, Tell, Wait, client, senders
  <2>2. QED
    BY <2>1 DEF Inv, Handed
<1>4. CASE Stop \/ CloseSocket \/ MainThread \/ Worker
  <2>1. cache' = cache /\ handed' = handed /\ held' \in {held, cache, None}
    BY <1>4 DEF Stop, CloseSocket, MainThread, Worker, SendControl, CopyState, Submit,
                CloseDispatcher, PublishState, DrainJobs, WorkerLooks, WorkerTakes,
                TakeSocket, Write, client, senders
  <2>2. QED
    BY <2>1 DEF Inv, Handed
<1>5. CASE Neovim
  <2>1. cache' = cache /\ handed' = handed /\ held' = held
    BY <1>5 DEF Neovim, Read, Notify, Break, End, Reuse, client, senders
  <2>2. QED
    BY <2>1 DEF Inv, Handed
<1>6. CASE UNCHANGED vars
  BY <1>6
<1>7. QED
  BY <1>1, <1>3, <1>4, <1>5, <1>6, <1>2 DEF Next

\* For every number of reports, of lost connections, of controls and of Neovims
\* that take over the port: the client hands over reports of the Neovim it was
\* made for only, on each connection all of them in their order, and answers
\* from its cache with nothing else (NvimRpcSource._run and _request,
\* LocalTcpClient._on_nvim_event).
THEOREM DeliversOwn == Spec => DeliversOwnInOrder
<1>1. Inv /\ [Next]_vars => [HandsOverOwn]_vars
  BY HandsOver
<1>2. QED
  BY <1>1, Invariant, PTL DEF Spec, DeliversOwnInOrder

-----------------------------------------------------------------------------
(* The client keeps to the order of ClientLink.                             *)

\* What was told fits the place of the thread, and whether it authenticated.
Telling ==
    /\ auth <=> told = "connected"
    /\ at = "hand" => pc = "serve"
    /\ told # "connected" /\ at # "hand" => cache = None
    /\ pc \in {"connect", "assign"} \cup Requests => told = "connecting"
    /\ pc \in {"serve", "close", "tell"} => told \in {"connecting", "connected"}
    /\ pc = "begin" /\ ~Stopping => told \in {"nothing", "disconnected"}
    /\ pc = "wait" \/ (pc = "done" /\ ~Stopping) => told = "disconnected"

LEMMA LinkValues ==
    /\ LinkStates["nothing"] = "new" /\ LinkStates["connecting"] = "connecting"
    /\ LinkStates["connected"] = "up" /\ LinkStates["disconnected"] = "down"
  BY DEF LinkStates

LEMMA LinkSteps ==
    /\ Contract!Connect <=> /\ Link \in {"new", "down"} /\ Link' = "connecting"
                            /\ UNCHANGED LinkState
    /\ Contract!Open <=> Link = "connecting" /\ Link' = "up" /\ LinkState' \in Reports
    /\ Contract!Deliver <=> Link = "up" /\ LinkState' \in Reports /\ UNCHANGED Link
    /\ Contract!Lose <=> Link \in {"connecting", "up"} /\ Link' = "down" /\ LinkState' = None
    /\ Contract!Stop <=> Link # "none" /\ Link' = "none" /\ LinkState' \in {LinkState, None}
    /\ UNCHANGED Contract!vars <=> UNCHANGED <<Link, LinkState>>
  BY DEF Contract!Connect, Contract!Open, Contract!Deliver, Contract!Lose, Contract!Stop,
         Contract!vars

\* A step that tells nothing leaves the link alone.
LEMMA Untold ==
    ASSUME Telling, UNCHANGED <<told, cache, pc, at>>, Stopping => Stopping'
    PROVE  [Contract!Next]_(Contract!vars)
<1>1. Link' = Link \/ (Link # "none" /\ Link' = "none")
  BY DEF Link
<1>2. LinkState' = LinkState
  BY DEF LinkState
<1>3. QED
  BY <1>1, <1>2, LinkSteps DEF Contract!Next

LEMMA SourceTells ==
    ASSUME Inv, Telling, SourceThread
    PROVE  Telling' /\ [Contract!Next]_(Contract!vars)
<1>1. Stopping' = Stopping
  BY DEF SourceThread, Begin, Connect, Assign, SendRequest, Leave, Block, Feed,
         KeepNotification, TakeReply, Dispatch, HandOver, Close, Tell, Wait, Stopping
<1>2. told \in States /\ pc \in Places /\ auth \in BOOLEAN
  BY TypesOK DEF Inv, Types, ClientType, PlaceType
<1>3. CASE Begin
  <2>1. auth' = auth /\ cache' = cache /\ pc = "begin" /\ at' = "top"
        /\ IF Stopping THEN pc' = "done" /\ told' = told
                       ELSE pc' = "connect" /\ told' = "connecting"
    BY <1>3 DEF Begin, Go
  <2>2. LinkState' = LinkState
    BY <2>1 DEF Telling, LinkState
  <2>3. CASE Stopping
    <3>1. Telling'
      BY <1>1, <2>1, <2>3 DEF Telling, Requests
    <3>2. Link # "none" \/ Link' = Link
      BY <1>1, <2>1, <2>3 DEF Link
    <3>3. Link' = "none"
      BY <1>1, <2>1, <2>3 DEF Link
    <3>4. QED
      BY <2>2, <3>1, <3>2, <3>3, LinkSteps DEF Contract!Next
  <2>4. CASE ~Stopping
    <3>1. told \in {"nothing", "disconnected"} /\ ~auth
      BY <2>1, <2>4 DEF Telling
    <3>2. Telling'
      BY <1>1, <2>1, <2>4, <3>1 DEF Telling
    <3>3. Link \in {"new", "down"} /\ Link' = "connecting"
      BY <1>1, <2>1, <2>4, <3>1, LinkValues DEF Link
    <3>4. QED
      BY <2>2, <3>2, <3>3, LinkSteps DEF Contract!Next
  <2>5. QED
    BY <2>3, <2>4
<1>4. CASE Tell
  <2>1. /\ pc = "tell" /\ told \in {"connecting", "connected"}
        /\ at # "hand" /\ at' = "top"
    BY <1>4 DEF Tell, Telling, Go
  <2>2. CASE Stopping
    <3>1. pc' = "begin" /\ UNCHANGED <<auth, told, cache>>
      BY <1>4, <2>2 DEF Tell, Go
    <3>2. Telling' /\ Link' = Link /\ LinkState' = LinkState
      BY <1>1, <2>1, <2>2, <3>1 DEF Telling, Link, LinkState, Requests
    <3>3. QED
      BY <3>2, LinkSteps
  <2>3. CASE ~Stopping
    <3>1. /\ pc' \in {"done", "wait"} /\ auth' = FALSE /\ cache' = None
          /\ told' = "disconnected"
      BY <1>4, <2>3 DEF Tell, Go
    <3>2. Telling' /\ LinkState' = None
      BY <2>1, <3>1 DEF Telling, LinkState, Requests
    <3>3. Link \in {"connecting", "up"} /\ Link' = "down"
      BY <1>1, <2>1, <2>3, <3>1, LinkValues DEF Link
    <3>4. QED
      BY <3>1, <3>2, <3>3, LinkSteps DEF Contract!Next
  <2>4. QED
    BY <2>2, <2>3
<1>5. CASE Dispatch
  <2>1. pc = "serve" /\ at = "top" /\ UNCHANGED <<auth, told>>
    BY <1>5 DEF Dispatch
  <2>2. /\ pc' = "serve" /\ at' = "hand" /\ cache' \in Reports
    <3>1. PICK m \in Reports : CacheReport(m)
      BY <1>5, Dispatched
    <3>2. QED
      BY <3>1 DEF CacheReport, Go
  <2>3. Telling' /\ Link' = Link
    BY <1>1, <2>1, <2>2 DEF Telling, Link, Requests
  <2>4. CASE told = "connected"
    <3>1. Link = "up" /\ LinkState' = cache'
      BY <2>1, <2>4, LinkValues DEF Link, LinkState
    <3>2. QED
      BY <2>2, <2>3, <3>1, LinkSteps DEF Contract!Next
  <2>5. CASE told # "connected"
    <3>1. LinkState' = None /\ LinkState = cache
      BY <2>1, <2>2, <2>5 DEF LinkState
    <3>2. cache = None
      BY <2>1, <2>5 DEF Telling
    <3>3. QED
      BY <2>3, <3>1, <3>2, LinkSteps
  <2>6. QED
    BY <2>3, <2>4, <2>5
<1>6. CASE HandOver
  <2>1. /\ pc = "serve" /\ at = "hand" /\ pc' = "serve" /\ at' = "top" /\ cache' = cache
        /\ cache \in Reports /\ IF auth THEN Change(cache, handed + 1) ELSE Full(cache)
    BY <1>6 DEF HandOver, Go, Inv, Stream
  <2>2. LinkState' = cache
    BY <2>1 DEF LinkState
  <2>3. CASE auth
    <3>1. told = "connected" /\ told' = told /\ auth' = auth
      BY <1>2, <1>6, <2>1, <2>3 DEF HandOver, Telling, Change
    <3>2. Telling' /\ Link' = Link /\ LinkState = cache
      BY <1>1, <2>1, <3>1 DEF Telling, Link, LinkState, Requests
    <3>3. QED
      BY <2>2, <3>2, LinkSteps
  <2>4. CASE ~auth
    <3>1. told = "connecting" /\ told' = "connected" /\ auth' = TRUE
      BY <1>2, <1>6, <2>1, <2>4 DEF HandOver, Telling, Full
    <3>2. Telling'
      BY <2>1, <3>1 DEF Telling, Requests
    <3>3. Link = "connecting" /\ Link' = "up"
      BY <2>1, <3>1, LinkValues DEF Link
    <3>4. QED
      BY <2>1, <2>2, <3>2, <3>3, LinkSteps DEF Contract!Next
  <2>5. QED
    BY <2>3, <2>4
<1>7. CASE \/ Connect \/ Assign \/ SendRequest \/ Leave \/ Block \/ Feed
           \/ KeepNotification \/ TakeReply \/ Close \/ Wait
  <2>1. UNCHANGED <<auth, told, cache>>
    BY <1>7 DEF Connect, Assign, SendRequest, Leave, Block, Feed, KeepNotification, TakeReply,
                Close, Wait, client
  <2>2. /\ pc \in {"connect", "assign"} \cup Requests
             => pc' \in {"assign", "close", "serve"} \cup Requests
        /\ pc \in {"serve", "close"} => pc' \in {"serve", "close", "tell"}
        /\ pc = "wait" => pc' = "begin"
        /\ pc \in {"connect", "assign", "serve", "close", "wait"} \cup Requests
        /\ at' # "hand"
    BY <1>7 DEF Connect, Assign, SendRequest, Leave, Block, Feed, KeepNotification, TakeReply,
                Close, Wait, Go, Listening, Requests
  <2>3. at # "hand"
    BY <1>7 DEF Telling, Connect, Assign, SendRequest, Leave, Block, Feed, KeepNotification,
                TakeReply, Close, Wait, Listening, Requests
  <2>4. Telling'
    BY <1>1, <2>1, <2>2, <2>3 DEF Telling, Requests
  <2>5. Link' = Link /\ LinkState' = LinkState
    BY <2>1, <2>2, <2>3 DEF Link, LinkState, Requests
  <2>6. QED
    BY <2>1, <2>4, <2>5, LinkSteps
<1>8. QED
  BY <1>3, <1>4, <1>5, <1>7, <1>6 DEF SourceThread

LEMMA OthersTellNothing ==
    ASSUME Telling, Stop \/ CloseSocket \/ MainThread \/ Worker \/ Neovim \/ UNCHANGED vars
    PROVE  Telling' /\ [Contract!Next]_(Contract!vars)
<1>1. UNCHANGED <<pc, at, auth, told, cache>> /\ (Stopping => Stopping')
  <2>1. CASE Stop \/ CloseSocket
    BY <2>1 DEF Stop, CloseSocket, Stopping, source, client
  <2>2. CASE MainThread \/ Worker
    BY <2>2 DEF MainThread, Worker, SendControl, CopyState, Submit, CloseDispatcher,
                PublishState, DrainJobs, WorkerLooks, WorkerTakes, TakeSocket, Write, Stopping,
                source, client
  <2>3. CASE Neovim
    BY <2>3 DEF Neovim, Read, Notify, Break, End, Reuse, Stopping, source, client
  <2>4. CASE UNCHANGED vars
    BY <2>4 DEF vars, source, client, Stopping
  <2>5. QED
    BY <2>1, <2>2, <2>3, <2>4
<1>2. Telling'
  BY <1>1 DEF Telling
<1>3. QED
  BY <1>1, <1>2, Untold

\* For every number of reports, losses and controls the client keeps to the
\* order of ClientLink, which the connections of ConnectionGate take for
\* granted: connected only with a state in hand, connecting again only after a
\* loss was told, and silent once stop() is over (NvimRpcSource._run,
\* LocalTcpClient._on_nvim_event and _on_nvim_connection).
THEOREM KeepsToItsLink == Spec => KeepsLink
<1>1. Init => Telling /\ Contract!Init
  BY LinkValues DEF Init, Telling, Stopping, Requests, Link, LinkState, Contract!Init
<1>2. Inv /\ Telling /\ [Next]_vars => Telling' /\ [Contract!Next]_(Contract!vars)
  BY SourceTells, OthersTellNothing DEF Next
<1>3. QED
  BY <1>1, <1>2, Invariant, PTL DEF Spec, KeepsLink, Contract!Spec
=============================================================================
