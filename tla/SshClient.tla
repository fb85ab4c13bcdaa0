------------------------------- MODULE SshClient -------------------------------
(***************************************************************************)
(* The processes behind one SSH connection: SshStdioClient starts ssh, reads *)
(* what the bridge at the far end writes, and after a loss starts ssh again; *)
(* stop() ends it from another thread.  What the frames say is in module     *)
(* StdioStream.                                                              *)
(*                                                                         *)
(* Nothing in the client closes the pipes of a process it has given up: they *)
(* are closed when the last reference to its Popen object is dropped.  Three *)
(* threads hold such references, so the references are part of the state.    *)
(***************************************************************************)
EXTENDS Naturals, Sequences

CONSTANTS
    Procs,      \* process slots, used again once nothing is left of a process
    None,
    MaxFaults,  \* failed starts, lost connections, garbled streams
    Room        \* frames a pipe takes before its reader has read

ASSUME NoneAssumption == None \notin Procs
ASSUME BoundsAssumption == MaxFaults \in Nat /\ Room \in Nat \ {0}

VARIABLES
    pc,       \* where the client's thread is in _run and _receive
    local,    \* its variable "process"
    handle,   \* _process
    auth,     \* authenticated, of the present connection
    told,     \* the last state told to the add-on
    stop,     \* how far stop() came
    grip,     \* stop()'s variable "process"
    proc,     \* of each process: ssh, the bridge behind it, and the pipes
    faults    \* faults so far

client == <<pc, local, handle, auth, told>>
stopper == <<stop, grip>>
vars == <<client, stopper, proc, faults>>

Stopping == stop # "no"

\* A process of which nothing is left, and one that was just started: it logs in,
\* and runs a shell there that starts the bridge.
Gone == [ssh |-> "ended", bridge |-> "ended", out |-> << >>,
         errors |-> "ended", left |-> "no"]
Started == [Gone EXCEPT !.ssh = "connecting", !.bridge = "none"]

Ended(p) == proc[p].ssh = "ended" /\ proc[p].bridge = "ended"

\* Somebody still holds the Popen object: the thread, the client, stop(), or
\* the thread in _read_stderr.  Then its pipes are open.
Referenced(p) == p \in {local, handle, grip} \/ proc[p].errors # "ended"

\* The thread works on a process: it still reads from process p, or will.
Serving == pc \in {"publish", "marker", "read marker", "frame", "read frame", "wait"}
ReadFrom(p) == p = local /\ Serving

\* ssh ends.  It takes a bridge with it that it has not started yet, and what
\* it has not passed on may be lost.
Ending(p) ==
    \E rest \in {proc[p].out, << >>} :
        proc' = [proc EXCEPT ![p].ssh = "ended", ![p].out = rest,
                             ![p].bridge = IF @ = "none" THEN "ended" ELSE @]

Init ==
    /\ pc = "begin" /\ local = None /\ handle = None /\ auth = FALSE /\ told = "nothing"
    /\ stop = "no" /\ grip = None
    /\ proc = [p \in Procs |-> Gone]
    /\ faults = 0

-----------------------------------------------------------------------------
(* The client's thread: _run.                                               *)

\* A mistake the checks must notice: only the first attempt is announced.
BeginAnnouncedOnce ==
    /\ pc = "begin"
    /\ IF Stopping
       THEN pc' = "done" /\ local' = None /\ UNCHANGED told
       ELSE /\ pc' = "spawn" /\ told' = IF told = "nothing" THEN "connecting" ELSE told
            /\ UNCHANGED local
    /\ UNCHANGED <<handle, auth, stopper, proc, faults>>

\* The top of the loop; when _run is left, its variable is dropped.
Begin ==
    /\ pc = "begin"
    /\ IF Stopping
       THEN pc' = "done" /\ local' = None /\ UNCHANGED told
       ELSE pc' = "spawn" /\ told' = "connecting" /\ UNCHANGED local
    /\ UNCHANGED <<handle, auth, stopper, proc, faults>>

\* Popen; the variable still names the former process until it returns.
Spawn ==
    /\ pc = "spawn"
    /\ LET free == {p \in Procs \ {grip} : Ended(p) /\ proc[p].errors = "ended"}
       IN
        /\ free # {}
        /\ local' = CHOOSE p \in free : TRUE
        /\ proc' = [proc EXCEPT ![local'] = Started]
    /\ pc' = "publish"
    /\ UNCHANGED <<handle, auth, told, stopper, faults>>

SpawnFails ==
    /\ pc = "spawn" /\ faults < MaxFaults
    /\ faults' = faults + 1
    /\ pc' = "clear"
    /\ UNCHANGED <<local, handle, auth, told, stopper, proc>>

\* The process is published, and a thread reads its errors.
Publish ==
    /\ pc = "publish"
    /\ handle' = local
    /\ proc' = [proc EXCEPT ![local].errors = "look"]
    /\ auth' = FALSE
    /\ pc' = "marker"
    /\ UNCHANGED <<local, told, stopper, faults>>

\* The top of the loop that looks for the marker.  A stop leaves it without
\* one, and the search for it raises a ValueError that _run does not catch.
LookForMarker ==
    /\ pc = "marker"
    /\ IF Stopping
       THEN pc' = "fail" /\ proc' = [proc EXCEPT ![local].left = "unmarked"]
       ELSE pc' = "read marker" /\ UNCHANGED proc
    /\ UNCHANGED <<local, handle, auth, told, stopper, faults>>

\* The top of the loop that reads frames; a stop returns from _receive.
LookForFrame ==
    /\ pc = "frame"
    /\ pc' = IF Stopping THEN "wait" ELSE "read frame"
    /\ UNCHANGED <<local, handle, auth, told, stopper, proc, faults>>

\* read() returns the next of what came, or nothing when the pipe has ended.
\* A ProtocolError (too much noise before the marker, a malformed frame) gives
\* the process up.
Read ==
    /\ pc \in {"read marker", "read frame"}
    /\ \/ /\ proc[local].out = << >> /\ proc[local].ssh = "ended"
          /\ pc' = "clear"
          /\ UNCHANGED <<auth, told, proc>>
       \/ /\ proc[local].out # << >>
          /\ LET data == Head(proc[local].out)
                 first == data = "frame" /\ ~auth
             IN
              /\ proc' = [proc EXCEPT ![local].out = Tail(@),
                                      ![local].left = IF data = "garbled" THEN "refused" ELSE @]
              /\ pc' = IF data = "garbled" THEN "clear" ELSE "frame"
              /\ auth' = (auth \/ first)
              /\ told' = IF first THEN "connected" ELSE told
    /\ UNCHANGED <<local, handle, stopper, faults>>

\* process.wait(timeout=2.0) after a stop.  Two seconds are longer than stop()
\* takes from setting the event to reading the process.
WaitForExit ==
    /\ pc = "wait"
    /\ proc[local].ssh = "ended" \/ stop # "set"
    /\ pc' = "clear"
    /\ UNCHANGED <<local, handle, auth, told, stopper, proc, faults>>

\* Mistakes the checks must notice: the process stays published, or the thread
\* ends with the first error.
ClearNothing ==
    /\ pc \in {"clear", "fail"}
    /\ IF pc = "fail" THEN pc' = "done" /\ local' = None ELSE pc' = "tell" /\ UNCHANGED local
    /\ UNCHANGED <<handle, auth, told, stopper, proc, faults>>
ClearAndEnd ==
    /\ pc \in {"clear", "fail"}
    /\ handle' = None
    /\ pc' = "done" /\ local' = None
    /\ UNCHANGED <<auth, told, stopper, proc, faults>>

\* The finally clause.  An error nobody catches ends the thread.  What the process
\* has written and still writes is not read any more, and is left out from here on.
Clear ==
    /\ pc \in {"clear", "fail"}
    /\ handle' = None
    /\ proc' = [p \in Procs |-> IF p = local THEN [proc[p] EXCEPT !.out = << >>] ELSE proc[p]]
    /\ IF pc = "fail" THEN pc' = "done" /\ local' = None ELSE pc' = "tell" /\ UNCHANGED local
    /\ UNCHANGED <<auth, told, stopper, faults>>

Tell ==
    /\ pc = "tell"
    /\ IF Stopping
       THEN pc' = "begin" /\ UNCHANGED told
       ELSE pc' = "backoff" /\ told' = "disconnected"
    /\ UNCHANGED <<local, handle, auth, stopper, proc, faults>>

\* The backoff ends by itself or with a stop.
Wake ==
    /\ pc = "backoff"
    /\ pc' = "begin"
    /\ UNCHANGED <<local, handle, auth, told, stopper, proc, faults>>

Thread ==
    \/ Begin \/ Spawn \/ SpawnFails \/ Publish \/ LookForMarker \/ LookForFrame
    \/ Read \/ WaitForExit \/ Clear \/ Tell \/ Wake

-----------------------------------------------------------------------------
(* _read_stderr.                                                            *)

LookForErrors(p) ==
    /\ proc[p].errors = "look"
    /\ proc' = [proc EXCEPT ![p].errors = IF Stopping THEN "ended" ELSE "read"]
    /\ UNCHANGED <<client, stopper, faults>>

ErrorsEnd(p) ==
    /\ proc[p].errors = "read" /\ proc[p].ssh = "ended"
    /\ proc' = [proc EXCEPT ![p].errors = "ended"]
    /\ UNCHANGED <<client, stopper, faults>>

\* ssh or the bridge writes a line.
ErrorLine(p) ==
    /\ proc[p].errors = "read" /\ proc[p].ssh # "ended"
    /\ proc' = [proc EXCEPT ![p].errors = "look"]
    /\ UNCHANGED <<client, stopper, faults>>

-----------------------------------------------------------------------------
(* stop(), on a thread of its own.                                          *)

Stop ==
    /\ stop = "no"
    /\ stop' = "set"
    /\ UNCHANGED <<client, grip, proc, faults>>

\* Mistake: only a connected client has a process to end.
TakeConnectedProcess ==
    /\ stop = "set"
    /\ grip' = IF told = "connected" THEN handle ELSE None
    /\ stop' = IF grip' = None THEN "join" ELSE "terminate"
    /\ UNCHANGED <<client, proc, faults>>

TakeProcess ==
    /\ stop = "set"
    /\ grip' = handle
    /\ stop' = IF handle = None THEN "join" ELSE "terminate"
    /\ UNCHANGED <<client, proc, faults>>

\* stdin.close(), terminate(), wait(), and kill() should that take too long.
Terminate ==
    /\ stop = "terminate"
    /\ Ending(grip)
    /\ stop' = "join"
    /\ UNCHANGED <<client, grip, faults>>

\* join(timeout=2.0): the thread has ended, or the time is over and stop()
\* raises a RuntimeError.
Join ==
    /\ stop = "join"
    /\ stop' = IF pc = "done" THEN "returned" ELSE "raised"
    /\ grip' = None
    /\ UNCHANGED <<client, proc, faults>>

Stopper == TakeProcess \/ Terminate \/ Join

-----------------------------------------------------------------------------
(* The far end: ssh, and the bridge it starts.                              *)

\* The bridge has found its session; start() writes the marker, behind what the
\* shell wrote before.
BridgeStarts(p) ==
    /\ proc[p].ssh = "connecting"
    /\ Len(proc[p].out) < Room
    /\ proc' = [proc EXCEPT ![p].ssh = "up", ![p].bridge = "marked",
                             ![p].out = IF ReadFrom(p) THEN Append(@, "marker") ELSE @]
    /\ UNCHANGED <<client, stopper, faults>>

\* A frame the bridge publishes, the first of them a full state, when Neovim
\* has registered it.  The write waits for room.
BridgePublishes(p) ==
    /\ proc[p].bridge \in {"marked", "ready"}
    /\ proc[p].ssh = "up" /\ ReadFrom(p)
    /\ Len(proc[p].out) < Room
    /\ proc' = [proc EXCEPT ![p].bridge = "ready", ![p].out = Append(@, "frame")]
    /\ UNCHANGED <<client, stopper, faults>>

\* The reader sees the end of its input, or a write fails; main() finds
\* "closed" set, stops the bridge and returns.
BridgeEnds(p) ==
    /\ proc[p].bridge \in {"marked", "ready"}
    /\ proc[p].ssh = "ended" \/ ~Referenced(p)
    /\ proc' = [proc EXCEPT ![p].bridge = "ended"]
    /\ UNCHANGED <<client, stopper, faults>>

\* ssh ends with the command it ran.
SshEnds(p) ==
    /\ proc[p].ssh = "up" /\ proc[p].bridge = "ended"
    /\ proc' = [proc EXCEPT ![p].ssh = "ended"]
    /\ UNCHANGED <<client, stopper, faults>>

\* A host that cannot be reached, a session that is not found, a network that
\* is lost.
SshFails(p) ==
    /\ proc[p].ssh # "ended" /\ faults < MaxFaults
    /\ faults' = faults + 1
    /\ Ending(p)
    /\ UNCHANGED <<client, stopper>>

\* Output that ends in a ProtocolError: a shell that writes more ahead of the
\* marker than _receive puts up with, or goes on writing after it; a bridge of
\* another version.  It makes no difference where the thread does not read.
Garble(p) ==
    /\ proc[p].ssh # "ended" /\ proc[p].bridge # "ended" /\ ReadFrom(p) /\ faults < MaxFaults
    /\ Len(proc[p].out) < Room
    /\ faults' = faults + 1
    /\ proc' = [proc EXCEPT ![p].out = Append(@, "garbled")]
    /\ UNCHANGED <<client, stopper>>

Behind(p) ==
    \/ LookForErrors(p) \/ ErrorsEnd(p)
    \/ BridgeStarts(p) \/ BridgePublishes(p) \/ BridgeEnds(p) \/ SshEnds(p)

Next ==
    \/ Thread \/ Stop \/ Stopper
    \/ \E p \in Procs : Behind(p) \/ ErrorLine(p) \/ SshFails(p) \/ Garble(p)

Spec == Init /\ [][Next]_vars

\* Every thread and process runs, and ssh's attempt to connect comes to an end.
\* Nobody need stop the client, Neovim need report nothing, and no fault need
\* happen.
Fairness ==
    /\ WF_vars(Thread) /\ WF_vars(Stopper)
    /\ \A p \in Procs :
        /\ WF_vars(LookForErrors(p) \/ ErrorsEnd(p))
        /\ WF_vars(BridgeStarts(p) \/ SshEnds(p))
        /\ WF_vars(BridgeEnds(p))

FairSpec == Spec /\ Fairness

-----------------------------------------------------------------------------
Places == {"begin", "spawn", "publish", "marker", "read marker", "frame", "read frame",
           "wait", "clear", "fail", "tell", "backoff", "done"}

\* What is published is what the thread reads from.
TypeOK ==
    /\ pc \in Places
    /\ local \in Procs \cup {None} /\ handle \in {local, None}
    /\ pc \in {"begin", "spawn", "publish", "tell", "backoff", "done"} => handle = None
    /\ auth \in BOOLEAN
    /\ told \in {"nothing", "connecting", "connected", "disconnected"}
    /\ stop \in {"no", "set", "terminate", "join", "returned", "raised"}
    /\ grip \in Procs \cup {None}
    /\ \A p \in Procs : proc[p] \in
        [ssh : {"connecting", "up", "ended"},
         bridge : {"none", "marked", "ready", "ended"},
         out : Seq({"marker", "frame", "garbled"}),
         errors : {"look", "read", "ended"},
         left : {"no", "refused", "unmarked"}]
    /\ faults \in 0 .. MaxFaults

\* An ssh that runs is the one the thread serves, the one stop() is about to
\* terminate, or one the thread has given up alive: none is forgotten by a
\* reconnect, by a start that stop() came too early to see, or by a wait that
\* ends with its timeout (SshStdioClient._run, _receive, stop).
NoneForgotten ==
    \A p \in Procs :
        \/ proc[p].ssh = "ended" \/ proc[p].left # "no"
        \/ p = local /\ Serving
        \/ p = grip /\ stop = "terminate"

\* What the add-on was told of the connection, and that the thread has ended.
LinkStates == [nothing |-> "new", connecting |-> "connecting",
               connected |-> "up", disconnected |-> "down"]
Link == IF pc = "done" THEN "none" ELSE LinkStates[told]

\* The client tells the states of ClientLink in their order, through failed
\* starts, losses, protocol errors and a stop at any point: every connection is
\* announced before it is told to be up, and its loss before the next attempt
\* (SshStdioClient._run, _receive).
Contract == INSTANCE ClientLink WITH
    link <- Link, state <- IF told = "connected" THEN "frame" ELSE None, States <- {"frame"}
KeepsLink == Contract!Spec

\* Wherever the thread is when it is stopped (in Popen, in read(), in the
\* backoff), it ends, and no ssh and no bridge outlives it, be it that the process
\* was published only after stop() had looked.  What may is a process the thread
\* had given up alive, for a protocol error or for a stop before its marker, as long
\* as its errors are read (SshStdioClient._run, stop, _read_stderr).
StopEndsAll ==
    Stopping ~> [](/\ pc = "done"
                   /\ \A p \in Procs : Ended(p) \/ (proc[p].left # "no" /\ proc[p].errors = "read"))

\* While nobody stops the client, every failure is made good: in the end ssh
\* and the bridge are there, and the add-on is told so once Neovim reports.
Reconnects ==
    <>[](\/ Stopping
         \/ /\ handle # None /\ proc[handle].ssh = "up"
            /\ proc[handle].bridge = "ready" => told = "connected")
=============================================================================
