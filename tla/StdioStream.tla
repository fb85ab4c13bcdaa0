----------------------------- MODULE StdioStream -----------------------------
(***************************************************************************)
(* One transport session between the bridge and the SSH client: three       *)
(* threads of the bridge publish frames on one pipe, the client's receiver  *)
(* checks their sequence numbers and asks for a fullState after a gap.      *)
(*                                                                         *)
(* publish() is five steps of its thread: the readiness test, the read of   *)
(* the next sequence number for the message, the read and the assignment of *)
(* its increment, and the write; only the write is under the write lock.    *)
(* The end of the session and its reconnect are in module ConnectionGate.   *)
(***************************************************************************)
EXTENDS Integers, Sequences

CONSTANT
    MaxEvents     \* connections to Neovim made, lost or failed, states it reports,
                  \* heartbeats and requests of the add-on, together

ASSUME BoundsAssumption == MaxEvents \in Nat

Publishers == {"rpc", "reader", "heartbeat"}
FrameKinds == {"full", "event", "context", "beat"}

VARIABLES
    events,     \* what has happened so far
    neovim,     \* the bridge's channel: "away", "attached" or "told" (it has reported)
    ready,      \* _session_ready
    sequence,   \* MessageFactory.sequence
    publisher,  \* what each thread is publishing, and the step it makes next
    wire,       \* frames written and not yet received
    controls,   \* requests under way to the bridge
    tracker,    \* SessionTracker
    authenticated, failed

bridge == <<neovim, ready, sequence, publisher>>
client == <<tracker, authenticated, failed>>
vars == <<events, bridge, wire, controls, client>>

Happens == events < MaxEvents /\ events' = events + 1

Idle == [step |-> "idle", kind |-> "beat", seq |-> 0, next |-> 0]

Init ==
    /\ events = 0
    /\ neovim = "away" /\ ready = FALSE /\ sequence = 0
    /\ publisher = [p \in Publishers |-> Idle]
    /\ wire = << >> /\ controls = << >>
    /\ tracker = [session |-> FALSE, last |-> -1, resync |-> TRUE]
    /\ authenticated = FALSE /\ failed = FALSE

-----------------------------------------------------------------------------
(* What the bridge's threads publish.                                       *)

Publish(p, kind) ==
    publisher' = [publisher EXCEPT ![p] = [step |-> "check", kind |-> kind,
                                           seq |-> 0, next |-> 0]]

Free(p) == publisher[p].step = "idle"

\* A connection to Neovim is made, or lost, or an attempt fails: the client is told.
NeovimConnection ==
    /\ Happens /\ Free("rpc")
    /\ neovim' \in IF neovim = "away" THEN {"attached", "away"} ELSE {"away"}
    /\ Publish("rpc", "event")
    /\ UNCHANGED <<ready, sequence, wire, controls, client>>

\* Neovim reports a new state: a full one when its channel is registered.
EditorReports ==
    /\ Happens /\ Free("rpc")
    /\ neovim # "away" /\ neovim' = "told"
    /\ Publish("rpc", IF neovim = "attached" THEN "full" ELSE "event")
    /\ UNCHANGED <<ready, sequence, wire, controls, client>>

\* The reader answers from the cached state, whether or not Neovim is there.
AnswerControl ==
    /\ Free("reader")
    /\ controls # << >>
    /\ Publish("reader", Head(controls))
    /\ controls' = Tail(controls)
    /\ UNCHANGED <<events, neovim, ready, sequence, wire, client>>

Heartbeat ==
    /\ Happens /\ Free("heartbeat")
    /\ ready
    /\ Publish("heartbeat", "beat")
    /\ UNCHANGED <<neovim, ready, sequence, wire, controls, client>>

-----------------------------------------------------------------------------
(* publish(), step by step.                                                 *)

At(p, label) == publisher[p].step = label

\* Before the session's first fullState nothing else is published.
Check(p) ==
    /\ At(p, "check")
    /\ IF ready \/ publisher[p].kind = "full"
       THEN /\ ready' = TRUE
            /\ publisher' = [publisher EXCEPT ![p].step = "stamp"]
       ELSE /\ publisher' = [publisher EXCEPT ![p] = Idle]
            /\ UNCHANGED ready
    /\ UNCHANGED <<events, neovim, sequence, wire, controls, client>>

\* Mutant: the message takes the number before the next one.
StampPrevious(p) ==
    /\ At(p, "stamp")
    /\ publisher' = [publisher EXCEPT ![p].step = "count", ![p].seq = sequence - 1]
    /\ UNCHANGED <<events, neovim, ready, sequence, wire, controls, client>>

Stamp(p) ==
    /\ At(p, "stamp")
    /\ publisher' = [publisher EXCEPT ![p].step = "count", ![p].seq = sequence]
    /\ UNCHANGED <<events, neovim, ready, sequence, wire, controls, client>>

\* The increment takes no lock: another thread may count between its two halves.
Count(p) ==
    /\ At(p, "count")
    /\ publisher' = [publisher EXCEPT ![p].step = "store", ![p].next = sequence + 1]
    /\ UNCHANGED <<events, neovim, ready, sequence, wire, controls, client>>

Store(p) ==
    /\ At(p, "store")
    /\ sequence' = publisher[p].next
    /\ publisher' = [publisher EXCEPT ![p].step = "write", ![p].next = 0]
    /\ UNCHANGED <<events, neovim, ready, wire, controls, client>>

Write(p) ==
    /\ At(p, "write")
    /\ wire' = Append(wire, [kind |-> publisher[p].kind, seq |-> publisher[p].seq])
    /\ publisher' = [publisher EXCEPT ![p] = Idle]
    /\ UNCHANGED <<events, neovim, ready, sequence, controls, client>>

-----------------------------------------------------------------------------
(* The client.                                                              *)

\* Mutant: the first frame of a session is accepted whatever it is.
DispositionAnyFirst(f) ==
    IF ~tracker.session THEN "accept"
    ELSE IF tracker.resync
    THEN IF f.kind = "full" THEN "accept" ELSE "resyncRequired"
    ELSE IF f.seq <= tracker.last THEN "duplicate"
    ELSE IF f.seq = tracker.last + 1 THEN "accept" ELSE "resyncRequired"

\* SessionTracker.observe: what it answers for frame f ...
Disposition(f) ==
    IF ~tracker.session \/ tracker.resync
    THEN IF f.kind = "full" THEN "accept" ELSE "resyncRequired"
    ELSE IF f.seq <= tracker.last THEN "duplicate"
    ELSE IF f.seq = tracker.last + 1 THEN "accept" ELSE "resyncRequired"

\* ... and what it remembers of it.
Observe(f) ==
    tracker' = [session |-> TRUE,
                last |-> IF Disposition(f) = "accept" THEN f.seq ELSE tracker.last,
                resync |-> CASE Disposition(f) = "accept" -> FALSE
                             [] Disposition(f) = "resyncRequired" -> TRUE
                             [] OTHER -> tracker.resync]

\* Mutants: nothing is requested, or only by the frame that shows the gap.
RequestsNever(f) == controls
RequestsOnce(f) ==
    IF Disposition(f) = "resyncRequired" /\ ~tracker.resync
    THEN Append(controls, "full") ELSE controls

Requests(f) ==
    IF Disposition(f) = "resyncRequired" THEN Append(controls, "full") ELSE controls

\* A first accepted frame that is no fullState ends the session with an error.
Receive ==
    /\ wire # << >> /\ ~failed
    /\ wire' = Tail(wire)
    /\ LET f == Head(wire)
           accepted == Disposition(f) = "accept"
       IN
        /\ Observe(f)
        /\ failed' = (accepted /\ ~authenticated /\ f.kind # "full")
        /\ authenticated' = (authenticated \/ (accepted /\ ~failed'))
        /\ controls' = Requests(f)
    /\ UNCHANGED <<events, bridge>>

\* A request the add-on makes, whatever the receiver is doing.
Ask ==
    /\ Happens
    /\ \E kind \in {"full", "context"} : controls' = Append(controls, kind)
    /\ UNCHANGED <<bridge, wire, client>>

Publishing(p) == Check(p) \/ Stamp(p) \/ Count(p) \/ Store(p) \/ Write(p)

Next ==
    \/ NeovimConnection \/ EditorReports \/ AnswerControl \/ Heartbeat
    \/ \E p \in Publishers : Publishing(p)
    \/ Receive \/ Ask

Spec == Init /\ [][Next]_vars

\* Every thread of both processes runs; nothing is assumed of Neovim or the add-on.
Fairness ==
    /\ WF_vars(AnswerControl) /\ WF_vars(Receive)
    /\ \A p \in Publishers : WF_vars(Publishing(p))

FairSpec == Spec /\ Fairness

-----------------------------------------------------------------------------
Frame == [kind : FrameKinds, seq : Nat]

TypeOK ==
    /\ neovim \in {"away", "attached", "told"} /\ events \in Nat
    /\ ready \in BOOLEAN /\ sequence \in Nat
    /\ publisher \in [Publishers -> [step : {"idle", "check", "stamp", "count", "store", "write"},
                                     kind : FrameKinds, seq : Nat, next : Nat]]
    /\ wire \in Seq(Frame)
    /\ controls \in Seq({"full", "context"})
    /\ tracker \in [session : BOOLEAN, last : Nat \cup {-1}, resync : BOOLEAN]
    /\ authenticated \in BOOLEAN /\ failed \in BOOLEAN

\* The receiver never meets its own protocol error: however the bridge's threads
\* interleave, the first frame it accepts is a fullState.
FirstAcceptedIsFull == ~failed

\* A client that is out of sequence is never stuck there: a request for a
\* fullState, or the answer to one, is under way.
ResyncUnderWay ==
    tracker.session /\ tracker.resync =>
        \/ \E n \in 1 .. Len(controls) : controls[n] = "full"
        \/ publisher["reader"].kind = "full" /\ ~Free("reader")
        \/ \E n \in 1 .. Len(wire) : wire[n].kind = "full"

\* An out-of-sequence client gets back into sequence.
ResyncEnds == tracker.session /\ tracker.resync ~> ~tracker.resync
=============================================================================
