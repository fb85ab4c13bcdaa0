----------------------------- MODULE LocalClient -----------------------------
(***************************************************************************)
(* The client of a Neovim on this computer: LocalTcpClient over             *)
(* NvimRpcSource, whose thread connects, checks that it reached the Neovim  *)
(* it was made for, registers, hands over what Neovim notifies, and after a *)
(* loss waits and connects again.  The same source serves the bridge.       *)
(*                                                                         *)
(* Four threads meet: the source's own; NVDA's main thread, which sends     *)
(* some controls itself and submits others to the control dispatcher; the   *)
(* dispatcher's worker; and the one that calls stop().  Behind the endpoint *)
(* Neovim may end and another one may get its port.                         *)
(***************************************************************************)
EXTENDS Naturals, Sequences

CONSTANTS
    Own, Other,    \* the Neovim of the record, and another one at its port
    None,          \* no Neovim listens, no connection, no state
    MaxVersion,    \* what Neovim reports
    MaxBreaks,     \* connections lost while Neovim lives
    MaxControls,   \* controls sent
    MaxPending,    \* jobs in the dispatcher's queue
    Room           \* requests and controls a connection takes before Neovim reads

ASSUME PeersAssumption == Own # Other /\ None \notin {Own, Other}
ASSUME BoundsAssumption ==
    /\ MaxVersion \in Nat /\ MaxBreaks \in Nat /\ MaxControls \in Nat
    /\ MaxPending \in Nat \ {0} /\ Room \in Nat \ {0}

Peers == {Own, Other}
Requests == {"info", "identity", "register"}
Reports == [kind : {"fullState", "change"}, from : Peers, ver : Nat]
Replies == [kind : Requests \cup {"error"}, from : Peers, ver : Nat]

VARIABLES
    pc,        \* where the source's thread is in _run
    at,        \* and where in _request or _notifications_loop
    rejected,  \* identity_rejected
    sock,      \* _socket is set
    early,     \* _pending_notifications
    lock,      \* who holds _socket_lock for longer than a step
    stop,      \* how far stop() came
    auth, told, cache, handed,  \* what LocalTcpClient knows, told and handed over
    call, held,                 \* what a sending thread does, the state it answers with
    jobs, closed,               \* ControlDispatcher: its queue and _closed
    controls,                   \* controls begun so far
    peer, ver, breaks,          \* who listens at the endpoint, what it reported
    conn, up, inbox, wire, registered  \* the connection, as both ends see it

source == <<pc, at, rejected, early>>
client == <<auth, told, cache, handed>>
senders == <<call, held, jobs, closed, controls>>
neovim == <<peer, ver, breaks>>
connection == <<conn, up, inbox, wire, registered>>
vars == <<source, sock, lock, stop, client, senders, neovim, connection>>

Stopping == stop # "no"
Report(kind) == [kind |-> kind, from |-> conn, ver |-> ver']
IsReport(m) == m.kind \in {"fullState", "change"}

Init ==
    /\ pc = "begin" /\ at = "top" /\ rejected = FALSE /\ early = << >>
    /\ sock = FALSE /\ lock = "free" /\ stop = "no"
    /\ auth = FALSE /\ told = "nothing" /\ cache = None /\ handed = 0
    /\ call = [main |-> "idle", worker |-> "idle"] /\ held = None
    /\ jobs = << >> /\ closed = FALSE /\ controls = 0
    /\ peer = Own /\ ver = 0 /\ breaks = 0
    /\ conn = None /\ up = FALSE /\ inbox = << >> /\ wire = << >> /\ registered = FALSE

\* A connection that is gone may take what it carried with it.
Lose ==
    /\ up' = FALSE
    /\ inbox' = << >>
    /\ wire' \in {wire, << >>}

-----------------------------------------------------------------------------
(* The source's thread.                                                     *)

Go(place, step) == pc' = place /\ at' = step

\* The top of the loop of _run.
Begin ==
    /\ pc = "begin"
    /\ IF Stopping
       THEN Go("done", "top") /\ UNCHANGED told
       ELSE Go("connect", "top") /\ told' = "connecting"
    /\ rejected' = FALSE
    /\ UNCHANGED <<early, sock, lock, stop, auth, cache, handed, senders, neovim, connection>>

Connect ==
    /\ pc = "connect"
    /\ IF peer = None
       THEN Go("close", "top") /\ UNCHANGED connection
       ELSE /\ Go("assign", "top")
            /\ conn' = peer /\ up' = TRUE
            /\ inbox' = << >> /\ wire' = << >> /\ registered' = FALSE
    /\ UNCHANGED <<rejected, early, sock, lock, stop, client, senders, neovim>>

\* The socket is published, and what a former connection left is dropped.
Assign ==
    /\ pc = "assign" /\ lock = "free"
    /\ sock' = TRUE
    /\ early' = << >>
    /\ Go("info", "send")
    /\ UNCHANGED <<rejected, lock, stop, client, senders, neovim, connection>>

\* _request: the request goes out before the stop event is looked at.
SendRequest ==
    /\ pc \in Requests /\ at = "send"
    /\ IF up
       THEN /\ Len(inbox) < Room
            /\ inbox' = Append(inbox, pc)
            /\ Go(pc, "top")
       ELSE UNCHANGED inbox /\ Go("close", "top")
    /\ UNCHANGED <<rejected, early, sock, lock, stop, client, senders, neovim,
                   conn, up, wire, registered>>

Listening == pc \in Requests \cup {"serve"}

\* Every loop looks at the stop event at its top; what was read before is
\* worked off first.
Leave ==
    /\ Listening /\ at = "top" /\ Stopping
    /\ Go("close", "top")
    /\ UNCHANGED <<rejected, early, sock, lock, stop, client, senders, neovim, connection>>

Block ==
    /\ Listening /\ at = "top" /\ ~Stopping
    /\ wire = << >> /\ (pc = "serve" => early = << >>)
    /\ Go(pc, "feed")
    /\ UNCHANGED <<rejected, early, sock, lock, stop, client, senders, neovim, connection>>

\* recv returns: something has come, or the connection is gone.
Feed ==
    /\ Listening /\ at = "feed"
    /\ \/ wire # << >> /\ Go(pc, "top")
       \/ wire = << >> /\ ~up /\ Go("close", "top")
    /\ UNCHANGED <<rejected, early, sock, lock, stop, client, senders, neovim, connection>>

\* A notification that overtakes the reply is kept for later.
KeepNotification ==
    /\ pc \in Requests /\ at = "top"
    /\ wire # << >> /\ IsReport(Head(wire))
    /\ early' = Append(early, Head(wire))
    /\ wire' = Tail(wire)
    /\ UNCHANGED <<pc, at, rejected, sock, lock, stop, client, senders, neovim,
                   conn, up, inbox, registered>>

\* A mistake the checks must notice: whoever answers at the endpoint is taken
\* for the Neovim of the record.
TakeReplyOfAny ==
    /\ pc \in Requests /\ at = "top"
    /\ wire # << >> /\ ~IsReport(Head(wire))
    /\ wire' = Tail(wire)
    /\ IF Head(wire).kind = "error" THEN Go("close", "top")
       ELSE \/ pc = "info" /\ Go("identity", "send")
            \/ pc = "identity" /\ Go("register", "send")
            \/ pc = "register" /\ Go("serve", "top")
    /\ UNCHANGED <<rejected, early, sock, lock, stop, client, senders, neovim,
                   conn, up, inbox, registered>>

\* The reply, and with the identity's the decision whether this is the Neovim
\* the record names: a mismatch is final, an error is a failure like any other.
TakeReply ==
    /\ pc \in Requests /\ at = "top"
    /\ wire # << >> /\ ~IsReport(Head(wire))
    /\ wire' = Tail(wire)
    /\ \/ /\ Head(wire).kind = "error"
          /\ Go("close", "top") /\ UNCHANGED rejected
       \/ /\ Head(wire).kind = "info"
          /\ Go("identity", "send") /\ UNCHANGED rejected
       \/ /\ Head(wire).kind = "identity"
          /\ IF Head(wire).from = Own
             THEN Go("register", "send") /\ UNCHANGED rejected
             ELSE Go("close", "top") /\ rejected' = TRUE
       \/ /\ Head(wire).kind = "register"
          /\ Go("serve", "top") /\ UNCHANGED rejected
    /\ UNCHANGED <<early, sock, lock, stop, client, senders, neovim,
                   conn, up, inbox, registered>>

\* LocalTcpClient._on_nvim_event: a report goes into the cache, under its lock.
CacheReport(m) ==
    /\ cache' = m
    /\ Go("serve", "hand")

\* The notifications loop, which takes the kept ones first.
Dispatch ==
    /\ pc = "serve" /\ at = "top"
    /\ IF early # << >>
       THEN /\ CacheReport(Head(early))
            /\ early' = Tail(early) /\ UNCHANGED wire
       ELSE /\ wire # << >>
            /\ IF IsReport(Head(wire)) THEN CacheReport(Head(wire)) ELSE UNCHANGED <<pc, at, cache>>
            /\ wire' = Tail(wire) /\ UNCHANGED early
    /\ UNCHANGED <<rejected, sock, lock, stop, auth, told, handed, senders, neovim,
                   conn, up, inbox, registered>>

\* The lock of the cache is free again: the first full state authenticates, which
\* is told, and the report is handed over.
HandOver ==
    /\ pc = "serve" /\ at = "hand"
    /\ handed' = cache.ver
    /\ IF cache.kind = "fullState" /\ ~auth
       THEN auth' = TRUE /\ told' = "connected"
       ELSE UNCHANGED <<auth, told>>
    /\ Go("serve", "top")
    /\ UNCHANGED <<rejected, early, sock, lock, stop, cache, senders, neovim, connection>>

\* The finally clause of _run.
Close ==
    /\ pc = "close" /\ lock = "free"
    /\ sock' = FALSE
    /\ conn' = None /\ up' = FALSE
    /\ inbox' = << >> /\ wire' = << >> /\ registered' = FALSE
    /\ Go("tell", "top")
    /\ UNCHANGED <<rejected, early, lock, stop, client, senders, neovim>>

\* A mistake the checks must notice: the loss is told, its state is kept.
TellKeepsState ==
    /\ pc = "tell"
    /\ IF Stopping
       THEN Go("begin", "top") /\ UNCHANGED <<auth, told>>
       ELSE /\ auth' = FALSE /\ told' = "disconnected"
            /\ Go(IF rejected THEN "done" ELSE "wait", "top")
    /\ UNCHANGED <<rejected, early, sock, lock, stop, cache, handed, senders, neovim, connection>>

\* A mistake the checks must notice: a loss is told, but the next full state
\* finds the client authenticated.
TellAuthenticated ==
    /\ pc = "tell"
    /\ IF Stopping
       THEN Go("begin", "top") /\ UNCHANGED <<told, cache>>
       ELSE /\ cache' = None /\ told' = "disconnected"
            /\ Go(IF rejected THEN "done" ELSE "wait", "top")
    /\ UNCHANGED <<rejected, early, sock, lock, stop, auth, handed, senders, neovim, connection>>

\* LocalTcpClient._on_nvim_connection, for a loss nobody asked for.
Tell ==
    /\ pc = "tell"
    /\ IF Stopping
       THEN Go("begin", "top") /\ UNCHANGED <<auth, told, cache>>
       ELSE /\ auth' = FALSE /\ cache' = None /\ told' = "disconnected"
            /\ Go(IF rejected THEN "done" ELSE "wait", "top")
    /\ UNCHANGED <<rejected, early, sock, lock, stop, handed, senders, neovim, connection>>

\* The backoff is over, or stop() ended it.
Wait ==
    /\ pc = "wait"
    /\ Go("begin", "top")
    /\ UNCHANGED <<rejected, early, sock, lock, stop, client, senders, neovim, connection>>

SourceThread ==
    \/ Begin \/ Connect \/ Assign \/ SendRequest \/ Leave \/ Block \/ Feed
    \/ KeepNotification \/ TakeReply \/ Dispatch \/ HandOver \/ Close \/ Tell \/ Wait

-----------------------------------------------------------------------------
(* stop(): the event, then the socket under its lock, then the join.        *)

Stop ==
    /\ stop = "no"
    /\ stop' = "set"
    /\ UNCHANGED <<source, sock, lock, client, senders, neovim, connection>>

\* A mistake the checks must notice: stop() sets the event and waits, and recv
\* goes on.
CloseSocketLater ==
    /\ stop = "set" /\ lock = "free"
    /\ stop' = "closed"
    /\ UNCHANGED <<source, sock, lock, client, senders, neovim, connection>>

CloseSocket ==
    /\ stop = "set" /\ lock = "free"
    /\ stop' = "closed"
    /\ IF sock THEN Lose ELSE UNCHANGED <<up, inbox, wire>>
    /\ UNCHANGED <<source, sock, lock, client, senders, neovim, conn, registered>>

-----------------------------------------------------------------------------
(* Threads that send controls.                                              *)

Senders == {"main", "worker"}

Set(s, step) == call' = [call EXCEPT ![s] = step]

\* The main thread sends text of the clipboard, a copy or the end of terminal
\* input itself, to a client that once handed over a state ...
SendControl ==
    /\ call["main"] = "idle" /\ handed > 0
    /\ controls < MaxControls
    /\ controls' = controls + 1
    /\ Set("main", "lock")
    /\ UNCHANGED <<source, sock, lock, stop, client, held, jobs, closed, neovim, connection>>

\* ... and answers its own request for a state from the cache: the state is
\* copied under the lock of the cache and published after it.
CopyState ==
    /\ call["main"] = "idle"
    /\ cache # None
    /\ controls < MaxControls
    /\ controls' = controls + 1
    /\ held' = cache
    /\ Set("main", "publish")
    /\ UNCHANGED <<source, sock, lock, stop, client, jobs, closed, neovim, connection>>

PublishState ==
    /\ call["main"] = "publish"
    /\ held' = None
    /\ Set("main", "idle")
    /\ UNCHANGED <<source, sock, lock, stop, client, jobs, closed, controls, neovim, connection>>

\* ControlDispatcher.submit and close.
Submit ==
    /\ call["main"] = "idle" /\ handed > 0
    /\ ~closed /\ Len(jobs) < MaxPending
    /\ controls < MaxControls
    /\ controls' = controls + 1
    /\ jobs' = Append(jobs, "control")
    /\ UNCHANGED <<source, sock, lock, stop, client, call, held, closed, neovim, connection>>

CloseDispatcher ==
    /\ call["main"] = "idle" /\ ~closed
    /\ closed' = TRUE
    /\ Set("main", "drain")
    /\ UNCHANGED <<source, sock, lock, stop, client, held, jobs, controls, neovim, connection>>

DrainJobs ==
    /\ call["main"] = "drain"
    /\ jobs' = <<"end">>
    /\ Set("main", "idle")
    /\ UNCHANGED <<source, sock, lock, stop, client, held, closed, controls, neovim, connection>>

\* The worker's loop: it looks at the event, takes a job, looks again.
WorkerLooks ==
    /\ call["worker"] = "idle"
    /\ Set("worker", IF closed THEN "ended" ELSE "get")
    /\ UNCHANGED <<source, sock, lock, stop, client, held, jobs, closed, controls,
                   neovim, connection>>

WorkerTakes ==
    /\ call["worker"] = "get" /\ jobs # << >>
    /\ jobs' = Tail(jobs)
    /\ Set("worker", IF Head(jobs) = "end" \/ closed THEN "ended" ELSE "lock")
    /\ UNCHANGED <<source, sock, lock, stop, client, held, closed, controls, neovim, connection>>

\* notify: the write is made under _socket_lock, however long it takes.
TakeSocket(s) ==
    /\ call[s] = "lock" /\ lock = "free"
    /\ IF sock THEN lock' = s /\ Set(s, "write") ELSE Set(s, "idle") /\ UNCHANGED lock
    /\ UNCHANGED <<source, sock, stop, client, held, jobs, closed, controls, neovim, connection>>

Write(s) ==
    /\ call[s] = "write"
    /\ IF up
       THEN Len(inbox) < Room /\ inbox' = Append(inbox, "control")
       ELSE UNCHANGED inbox
    /\ lock' = "free"
    /\ Set(s, "idle")
    /\ UNCHANGED <<source, sock, stop, client, held, jobs, closed, controls, neovim,
                   conn, up, wire, registered>>

MainThread ==
    \/ SendControl \/ CopyState \/ Submit \/ CloseDispatcher
    \/ PublishState \/ DrainJobs \/ TakeSocket("main") \/ Write("main")
Worker == WorkerLooks \/ WorkerTakes \/ TakeSocket("worker") \/ Write("worker")

-----------------------------------------------------------------------------
(* Neovim.                                                                  *)

Say(messages) == wire' = wire \o messages

\* It reads one request or control.  register_channel reports a full state,
\* ahead of the reply; a Neovim without the plugin answers with an error.
Read ==
    /\ up /\ inbox # << >>
    /\ inbox' = Tail(inbox)
    /\ \/ /\ Head(inbox) \in {"info", "identity"}
          /\ \E kind \in {Head(inbox)} \cup (IF conn = Other THEN {"error"} ELSE {}) :
                Say(<<[kind |-> kind, from |-> conn, ver |-> ver]>>)
          /\ UNCHANGED <<ver, registered>>
       \/ /\ Head(inbox) = "register"
          /\ ver' = ver + 1
          /\ registered' = TRUE
          /\ Say(<<Report("fullState"), [kind |-> "register", from |-> conn, ver |-> ver']>>)
       \/ /\ Head(inbox) = "control"
          /\ UNCHANGED <<wire, ver, registered>>
    /\ UNCHANGED <<source, sock, lock, stop, client, senders, peer, breaks, conn, up>>

Notify ==
    /\ up /\ registered
    /\ ver < MaxVersion
    /\ ver' = ver + 1
    /\ Say(<<Report("change")>>)
    /\ UNCHANGED <<source, sock, lock, stop, client, senders, peer, breaks,
                   conn, up, inbox, registered>>

Break ==
    /\ up /\ breaks < MaxBreaks
    /\ breaks' = breaks + 1
    /\ Lose
    /\ UNCHANGED <<source, sock, lock, stop, client, senders, peer, ver, conn, registered>>

End ==
    /\ peer # None
    /\ peer' = None
    /\ IF conn = peer /\ up THEN Lose ELSE UNCHANGED <<up, inbox, wire>>
    /\ UNCHANGED <<source, sock, lock, stop, client, senders, ver, breaks, conn, registered>>

\* The port of a Neovim that ended goes to another one.
Reuse ==
    /\ peer = None
    /\ peer' = Other
    /\ UNCHANGED <<source, sock, lock, stop, client, senders, ver, breaks, connection>>

Neovim == Read \/ Notify \/ Break \/ End \/ Reuse

-----------------------------------------------------------------------------

Next == SourceThread \/ Stop \/ CloseSocket \/ MainThread \/ Worker \/ Neovim

Spec == Init /\ [][Next]_vars

MainGoesOn == PublishState \/ DrainJobs \/ TakeSocket("main") \/ Write("main")

\* The threads run, and a Neovim that lives reads what it is sent.  With
\* MaxControls the lock is taken so many times only, and who waits for it has it in
\* the end; for controls without end the lock itself would have to be fair.
Fairness ==
    /\ WF_vars(SourceThread) /\ WF_vars(CloseSocket)
    /\ WF_vars(MainGoesOn) /\ WF_vars(Worker)
    /\ WF_vars(Read)

FairSpec == Spec /\ Fairness

-----------------------------------------------------------------------------
(* Properties.                                                              *)

\* Every variable has a value the code gives it (LocalTcpClient.__init__,
\* NvimRpcSource.__init__, ControlDispatcher.__init__).
TypeOK ==
    /\ pc \in Requests \cup {"begin", "connect", "assign", "serve", "close", "tell",
                             "wait", "done"}
    /\ at \in {"send", "top", "feed", "hand"}
    /\ rejected \in BOOLEAN /\ sock \in BOOLEAN
    /\ early \in Seq(Reports)
    /\ lock \in Senders \cup {"free"}
    /\ stop \in {"no", "set", "closed"}
    /\ auth \in BOOLEAN
    /\ told \in {"nothing", "connecting", "connected", "disconnected"}
    /\ cache \in Reports \cup {None} /\ held \in Reports \cup {None}
    /\ handed \in Nat
    /\ call \in [Senders -> {"idle", "lock", "write", "publish", "drain", "get", "ended"}]
    /\ jobs \in Seq({"control", "end"})
    /\ closed \in BOOLEAN /\ controls \in Nat
    /\ peer \in Peers \cup {None} /\ ver \in Nat /\ breaks \in Nat
    /\ conn \in Peers \cup {None} /\ up \in BOOLEAN /\ registered \in BOOLEAN
    /\ inbox \in Seq(Requests \cup {"control"})
    /\ wire \in Seq(Reports \cup Replies)

\* What the client keeps as the state of its Neovim and hands over, to NVDA's
\* queue or as an answer from its cache, was reported by the Neovim it was made
\* for, never by one that got its port; and on a connection it takes every
\* report, in the order of Neovim: the first is the full state of the
\* registration, which is newer than anything from a former connection, and
\* authenticates as it is handed over; none is left out after it.  An answer from
\* the cache may come ahead of the hand over, and of the connection being told.
HandsOverOwn ==
    /\ cache' # cache /\ cache' # None =>
          /\ cache'.from = Own
          /\ IF auth THEN cache'.ver = handed + 1
                     ELSE cache'.kind = "fullState" /\ cache'.ver > handed
    /\ handed' # handed => auth' /\ cache.from = Own /\ handed' = cache.ver
    /\ held' # None => held'.from = Own

DeliversOwnInOrder == [][HandsOverOwn]_vars

\* What the add-on was told of the connection, and that stop() is over.
LinkStates == [nothing |-> "new", connecting |-> "connecting",
               connected |-> "up", disconnected |-> "down"]
Link == IF pc = "done" /\ Stopping THEN "none" ELSE LinkStates[told]

\* The state the link stands for: one that is cached ahead of the word that
\* the client is connected is not part of it yet.
LinkState == IF at = "hand" /\ told # "connected" THEN None ELSE cache

\* The client keeps to the order of ClientLink, however its threads interleave
\* with stop(): it is connected once it has a state and not before, it is
\* connecting again only after it told a loss and took the state back, and
\* nothing follows a stop that is over (LocalTcpClient, NvimRpcSource._run).
Contract == INSTANCE ClientLink WITH link <- Link, state <- LinkState, States <- Reports
KeepsLink == Contract!Spec

\* Whatever is shut down ends: after stop() the source's thread, wherever it
\* was (connecting, waiting for a reply, in recv, in the backoff), and after
\* close() the dispatcher's worker.
ShutdownEnds ==
    /\ Stopping ~> pc = "done"
    /\ closed ~> call["worker"] = "ended"

\* While the Neovim of the record lives and nobody stops the client, lost
\* connections are made again, until the client is connected for good.
Reconnects == <>[](peer = Own /\ ~Stopping) => <>[](told = "connected" /\ auth)
=============================================================================
