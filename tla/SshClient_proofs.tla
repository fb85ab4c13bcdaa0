--------------------------- MODULE SshClient_proofs ---------------------------
(***************************************************************************)
(* SshClient for any number of process slots, of faults and any room in a    *)
(* pipe: its types, among them that what is published is what the thread     *)
(* reads from, and that no ssh is forgotten.                                 *)
(***************************************************************************)
EXTENDS SshClient, TLAPS

Process ==
    [ssh : {"connecting", "up", "ended"},
     bridge : {"none", "marked", "ready", "ended"},
     out : Seq({"marker", "frame", "garbled"}),
     errors : {"look", "read", "ended"},
     left : {"no", "refused", "unmarked"}]

ThreadType ==
    /\ pc \in Places /\ auth \in BOOLEAN
    /\ told \in {"nothing", "connecting", "connected", "disconnected"}

HandleType ==
    /\ local \in Procs \cup {None} /\ handle \in {local, None}
    /\ pc \in {"begin", "spawn", "publish", "tell", "backoff", "done"} => handle = None

StopType ==
    /\ stop \in {"no", "set", "terminate", "join", "returned", "raised"}
    /\ grip \in Procs \cup {None}

ProcType == proc \in [Procs -> Process]

\* The thread names a process wherever it works on one, and so does stop().
Named ==
    /\ pc \in {"publish", "marker", "read marker", "frame", "read frame", "wait"}
        => local \in Procs
    /\ stop = "terminate" => grip \in Procs

Types == /\ ThreadType /\ HandleType /\ StopType /\ ProcType /\ Named
         /\ faults \in 0 .. MaxFaults

LEMMA TypesMean == Types => TypeOK
  BY DEF Types, ThreadType, HandleType, StopType, ProcType, Process, TypeOK

-----------------------------------------------------------------------------
(* What happens to a process keeps it one.                                  *)

LEMMA GoneIsProcess == Gone \in Process /\ Started \in Process
<1>1. << >> \in Seq({"marker", "frame", "garbled"})
  OBVIOUS
<1>2. Gone \in Process
  BY <1>1 DEF Gone, Process
<1>3. QED
  BY <1>2 DEF Started, Process

LEMMA ProcKept ==
    ASSUME ProcType, NEW p \in Procs, NEW q \in Process, proc' = [proc EXCEPT ![p] = q]
    PROVE  ProcType'
  BY DEF ProcType

LEMMA EndingKeeps ==
    ASSUME ProcType, NEW p \in Procs, Ending(p)
    PROVE  ProcType'
<1>1. PICK rest \in {proc[p].out, << >>} :
        proc' = [proc EXCEPT ![p].ssh = "ended", ![p].out = rest,
                             ![p].bridge = IF @ = "none" THEN "ended" ELSE @]
  BY DEF Ending
<1>2. proc[p] \in Process /\ rest \in Seq({"marker", "frame", "garbled"})
  <2>1. proc[p] \in Process /\ << >> \in Seq({"marker", "frame", "garbled"})
    BY DEF ProcType
  <2>2. proc[p].out \in Seq({"marker", "frame", "garbled"})
    BY <2>1 DEF Process
  <2>3. QED
    BY <2>1, <2>2
<1> DEFINE q == [proc[p] EXCEPT !.ssh = "ended", !.out = rest,
                                !.bridge = IF @ = "none" THEN "ended" ELSE @]
<1>3. q \in Process
  BY <1>2 DEF Process
<1>4. proc' = [proc EXCEPT ![p] = q]
  BY <1>1, <1>2 DEF ProcType, Process
<1>5. QED
  BY <1>3, <1>4, ProcKept

LEMMA OutKeeps ==
    ASSUME ProcType, NEW p \in Procs, NEW data \in {"marker", "frame", "garbled"}
    PROVE  /\ proc[p] \in Process
           /\ Append(proc[p].out, data) \in Seq({"marker", "frame", "garbled"})
           /\ << data >> \in Seq({"marker", "frame", "garbled"})
           /\ proc[p].out # << >> => Tail(proc[p].out) \in Seq({"marker", "frame", "garbled"})
  BY DEF ProcType, Process

-----------------------------------------------------------------------------
(* The client's thread.                                                     *)

LEMMA ThreadKeeps ==
    ASSUME Types, Thread
    PROVE  Types'
<1> USE DEF Types
<1>1. CASE Begin
  BY <1>1 DEF Begin, stopper, ThreadType, Places, HandleType, StopType, ProcType, Named
<1>2. CASE Spawn
  <2>1. PICK p \in Procs : local' = p /\ proc' = [proc EXCEPT ![p] = Started]
    BY <1>2 DEF Spawn
  <2>2. ProcType'
    BY <2>1, GoneIsProcess, ProcKept
  <2>3. QED
    BY <1>2, <2>1, <2>2 DEF Spawn, stopper, ThreadType, Places, HandleType, StopType, Named
<1>3. CASE SpawnFails
  BY <1>3, BoundsAssumption DEF SpawnFails, stopper, ThreadType, Places, HandleType, StopType,
     ProcType, Named
<1>4. CASE Publish
  <2>1. local \in Procs /\ proc[local] \in Process
    BY <1>4 DEF Publish, Named, ProcType
  <2>2. [proc[local] EXCEPT !.errors = "look"] \in Process
    BY <2>1 DEF Process
  <2>3. ProcType'
    BY <1>4, <2>1, <2>2 DEF Publish, ProcType
  <2>4. QED
    BY <1>4, <2>1, <2>3 DEF Publish, stopper, ThreadType, Places, HandleType, StopType, Named
<1>5. CASE LookForMarker
  <2>1. local \in Procs /\ proc[local] \in Process
    BY <1>5 DEF LookForMarker, Named, ProcType
  <2>2. [proc[local] EXCEPT !.left = "unmarked"] \in Process
    BY <2>1 DEF Process
  <2>3. ProcType'
    BY <1>5, <2>1, <2>2 DEF LookForMarker, ProcType
  <2>4. QED
    BY <1>5, <2>1, <2>3 DEF LookForMarker, stopper, ThreadType, Places, HandleType, StopType,
       Named
<1>6. CASE LookForFrame
  BY <1>6 DEF LookForFrame, stopper, ThreadType, Places, HandleType, StopType, ProcType, Named
<1>7. CASE Read
  <2>1. local \in Procs
    BY <1>7 DEF Read, Named
  <2>2. ProcType'
    <3>1. CASE UNCHANGED proc
      BY <3>1 DEF ProcType
    <3>2. CASE proc[local].out # << >>
      <4> DEFINE data == Head(proc[local].out)
                 left == IF data = "garbled" THEN "refused" ELSE proc[local].left
                 q == [proc[local] EXCEPT !.out = Tail(proc[local].out), !.left = left]
      <4>1. /\ proc[local] \in Process
            /\ Tail(proc[local].out) \in Seq({"marker", "frame", "garbled"})
        BY <2>1, <3>2 DEF ProcType, Process
      <4>2. q \in Process
        BY <4>1 DEF Process
      <4>3. \/ UNCHANGED proc
            \/ proc' = [proc EXCEPT ![local].out = Tail(@),
                                    ![local].left = IF data = "garbled" THEN "refused" ELSE @]
        BY <1>7, <3>2 DEF Read
      <4> HIDE DEF data
      <4>4. UNCHANGED proc \/ proc' = [proc EXCEPT ![local] = q]
        BY <2>1, <4>1, <4>3 DEF ProcType, Process
      <4> HIDE DEF q
      <4>5. QED
        BY <2>1, <3>1, <4>2, <4>4 DEF ProcType
    <3>3. QED
      BY <1>7, <3>1, <3>2 DEF Read
  <2>3. /\ pc' \in {"clear", "frame"} /\ auth' \in {auth, TRUE, FALSE}
        /\ told' \in {told, "connected"}
    BY <1>7 DEF Read, ThreadType
  <2>4. QED
    BY <1>7, <2>1, <2>2, <2>3 DEF Read, stopper, ThreadType, Places, HandleType, StopType, Named
<1>8. CASE WaitForExit
  BY <1>8 DEF WaitForExit, stopper, ThreadType, Places, HandleType, StopType, ProcType, Named
<1>9. CASE Clear
  <2>1. ASSUME NEW p \in Procs
        PROVE  [proc[p] EXCEPT !.out = << >>] \in Process
    <3>1. proc[p] \in Process
      BY DEF ProcType
    <3>2. << >> \in Seq({"marker", "frame", "garbled"})
      OBVIOUS
    <3>3. QED
      BY <3>1, <3>2 DEF Process
  <2>2. ProcType'
    BY <1>9, <2>1 DEF Clear, ProcType
  <2>3. QED
    BY <1>9, <2>2 DEF Clear, stopper, ThreadType, Places, HandleType, StopType, Named
<1>10. CASE Tell \/ Wake
  BY <1>10 DEF Tell, Wake, stopper, ThreadType, Places, HandleType, StopType, ProcType, Named
<1>11. QED
  BY <1>1, <1>2, <1>3, <1>4, <1>5, <1>6, <1>7, <1>8, <1>9, <1>10 DEF Thread

-----------------------------------------------------------------------------
(* stop(), and what runs behind the client.                                 *)

LEMMA StopKeeps ==
    ASSUME Types, Stop \/ Stopper
    PROVE  Types'
<1> USE DEF Types
<1>1. CASE Stop
  BY <1>1 DEF Stop, client, ThreadType, HandleType, StopType, ProcType, Named
<1>2. CASE TakeProcess
  BY <1>2, NoneAssumption DEF TakeProcess, client, ThreadType, HandleType, StopType, ProcType,
     Named
<1>3. CASE Terminate
  <2>1. ProcType'
    BY <1>3, EndingKeeps DEF Terminate, Named
  <2>2. QED
    BY <1>3, <2>1 DEF Terminate, client, ThreadType, HandleType, StopType, Named
<1>4. CASE Join
  BY <1>4 DEF Join, client, ThreadType, HandleType, StopType, ProcType, Named
<1>5. QED
  BY <1>1, <1>2, <1>3, <1>4 DEF Stopper

LEMMA BehindKeeps ==
    ASSUME Types, NEW p \in Procs, Behind(p) \/ ErrorLine(p) \/ SshFails(p) \/ Garble(p)
    PROVE  Types'
<1>1. proc[p] \in Process
  BY DEF Types, ProcType
<1>2. ASSUME UNCHANGED <<client, stopper>>, faults' \in 0 .. MaxFaults, ProcType'
      PROVE  Types'
  BY <1>2 DEF Types, client, stopper, ThreadType, HandleType, StopType, Named
<1>3. CASE LookForErrors(p) \/ ErrorsEnd(p) \/ ErrorLine(p)
  <2>1. PICK errors \in {"look", "read", "ended"} : proc' = [proc EXCEPT ![p].errors = errors]
    BY <1>3 DEF LookForErrors, ErrorsEnd, ErrorLine
  <2>2. [proc[p] EXCEPT !.errors = errors] \in Process
    BY <1>1 DEF Process
  <2>3. ProcType'
    BY <1>1, <2>1, <2>2 DEF Types, ProcType
  <2>4. QED
    BY <1>2, <1>3, <2>3 DEF LookForErrors, ErrorsEnd, ErrorLine, Types
<1>4. CASE BridgeStarts(p)
  <2>1. PICK rest \in {proc[p].out, Append(proc[p].out, "marker")} :
           proc' = [proc EXCEPT ![p].ssh = "up", ![p].bridge = "marked", ![p].out = rest]
    BY <1>4 DEF BridgeStarts
  <2>2. rest \in Seq({"marker", "frame", "garbled"})
    BY <1>1, OutKeeps DEF Types, Process
  <2>3. [proc[p] EXCEPT !.ssh = "up", !.bridge = "marked", !.out = rest] \in Process
    BY <1>1, <2>2 DEF Process
  <2>4. ProcType'
    BY <1>1, <2>1, <2>3 DEF Types, ProcType, Process
  <2>5. QED
    BY <1>2, <1>4, <2>4 DEF BridgeStarts, Types
<1>5. CASE BridgePublishes(p)
  <2>1. Append(proc[p].out, "frame") \in Seq({"marker", "frame", "garbled"})
    BY OutKeeps DEF Types
  <2>2. [proc[p] EXCEPT !.bridge = "ready", !.out = Append(proc[p].out, "frame")] \in Process
    BY <1>1, <2>1 DEF Process
  <2>3. ProcType'
    BY <1>1, <1>5, <2>2 DEF BridgePublishes, Types, ProcType, Process
  <2>4. QED
    BY <1>2, <1>5, <2>3 DEF BridgePublishes, Types
<1>6. CASE BridgeEnds(p) \/ SshEnds(p)
  <2>1. /\ [proc[p] EXCEPT !.bridge = "ended"] \in Process
        /\ [proc[p] EXCEPT !.ssh = "ended"] \in Process
    BY <1>1 DEF Process
  <2>2. ProcType'
    BY <1>1, <1>6, <2>1 DEF BridgeEnds, SshEnds, Types, ProcType
  <2>3. QED
    BY <1>2, <1>6, <2>2 DEF BridgeEnds, SshEnds, Types
<1>7. CASE SshFails(p)
  <2>1. ProcType'
    BY <1>7, EndingKeeps DEF SshFails, Types
  <2>2. QED
    BY <1>2, <1>7, <2>1, BoundsAssumption DEF SshFails, Types
<1>8. CASE Garble(p)
  <2>1. Append(proc[p].out, "garbled") \in Seq({"marker", "frame", "garbled"})
    BY OutKeeps DEF Types
  <2>2. [proc[p] EXCEPT !.out = Append(proc[p].out, "garbled")] \in Process
    BY <1>1, <2>1 DEF Process
  <2>3. ProcType'
    BY <1>1, <1>8, <2>2 DEF Garble, Types, ProcType
  <2>4. QED
    BY <1>2, <1>8, <2>3, BoundsAssumption DEF Garble, Types
<1>9. QED
  BY <1>3, <1>4, <1>5, <1>6, <1>7, <1>8 DEF Behind

(* The types, and that the thread and stop() name the process they work on.  *)
THEOREM TypesHold == Spec => []Types
<1>1. Init => Types
  <2> SUFFICES ASSUME Init PROVE Types
    OBVIOUS
  <2>1. ProcType
    BY GoneIsProcess DEF Init, ProcType
  <2>2. ThreadType /\ HandleType /\ StopType /\ Named
    BY DEF Init, ThreadType, Places, HandleType, StopType, Named
  <2>3. faults \in 0 .. MaxFaults
    BY BoundsAssumption DEF Init
  <2>4. QED
    BY <2>1, <2>2, <2>3 DEF Types
<1>2. Types /\ [Next]_vars => Types'
  <2>1. Types /\ UNCHANGED vars => Types'
    BY DEF vars, client, stopper, Types, ThreadType, HandleType, StopType, ProcType, Named
  <2>2. QED
    BY <2>1, ThreadKeeps, StopKeeps, BehindKeeps DEF Next
<1>3. QED
  BY <1>1, <1>2, PTL DEF Spec

(* Every variable keeps its type; a process is published only while the      *)
(* thread serves it, and stop() takes no other (SshStdioClient._process).    *)
THEOREM TypeCorrect == Spec => []TypeOK
  BY TypesHold, TypesMean, PTL

-----------------------------------------------------------------------------
(* No ssh is forgotten.                                                     *)

\* While the thread works on a published process, stop() finds it; what it
\* finds is what the thread works on, for then the thread starts no other.
Attended ==
    /\ pc \in {"marker", "read marker", "frame", "read frame", "wait"} => handle = local
    /\ pc \in {"wait", "fail"} => Stopping
    /\ stop = "terminate" => pc \notin {"spawn", "publish"} /\ (Serving => grip = local)

\* After it, a thread that had not been late has an ended ssh before it.
Terminated ==
    /\ stop \in {"join", "returned", "raised"}
    /\ pc \in {"read marker", "frame", "read frame", "wait"}
    => proc[local].ssh = "ended"

SshInv == Types /\ NoneForgotten /\ Attended /\ Terminated

\* A step that starts no ssh and takes no mark back, and leaves everybody what
\* he has, keeps all this; so does one that only ends one.
Harmless(p) ==
    /\ proc[p].ssh = "ended" => proc'[p].ssh = "ended"
    /\ proc[p].left # "no" => proc'[p].left # "no"

LEMMA QuietKeeps ==
    ASSUME SshInv, UNCHANGED <<pc, local, handle, stop, grip>>, \A p \in Procs : Harmless(p)
    PROVE  NoneForgotten' /\ Attended' /\ Terminated'
<1>1. NoneForgotten'
  BY DEF SshInv, NoneForgotten, Harmless, Serving
<1>2. Attended'
  BY DEF SshInv, Attended, Stopping, Serving
<1>3. Terminated'
  BY DEF SshInv, Terminated, Types, Named, Harmless
<1>4. QED
  BY <1>1, <1>2, <1>3

LEMMA EndingHarmless ==
    ASSUME Types, NEW p \in Procs, Ending(p)
    PROVE  proc'[p].ssh = "ended" /\ \A q \in Procs : Harmless(q)
<1>1. PICK rest \in {proc[p].out, << >>} :
        proc' = [proc EXCEPT ![p].ssh = "ended", ![p].out = rest,
                             ![p].bridge = IF @ = "none" THEN "ended" ELSE @]
  BY DEF Ending
<1>2. QED
  BY <1>1 DEF Types, ProcType, Process, Harmless

LEMMA BehindHarmless ==
    ASSUME Types, NEW p \in Procs, Behind(p) \/ ErrorLine(p) \/ SshFails(p) \/ Garble(p)
    PROVE  /\ UNCHANGED <<pc, local, handle, stop, grip>>
           /\ \A q \in Procs : Harmless(q)
<1>1. UNCHANGED <<pc, local, handle, stop, grip>>
  BY DEF Behind, LookForErrors, ErrorsEnd, ErrorLine, BridgeStarts, BridgePublishes, BridgeEnds,
     SshEnds, SshFails, Garble, client, stopper
<1>2. CASE SshFails(p)
  BY <1>1, <1>2, EndingHarmless DEF SshFails
<1>3. CASE LookForErrors(p) \/ ErrorsEnd(p) \/ ErrorLine(p)
  <2>1. \E errors : proc' = [proc EXCEPT ![p].errors = errors]
    BY <1>3 DEF LookForErrors, ErrorsEnd, ErrorLine
  <2>2. QED
    BY <1>1, <2>1 DEF Types, ProcType, Process, Harmless
<1>4. CASE BridgeStarts(p)
  <2> DEFINE first == IF ReadFrom(p) THEN Append(proc[p].out, "marker") ELSE proc[p].out
  <2> HIDE DEF first
  <2>1. /\ proc[p].ssh = "connecting"
        /\ proc' = [proc EXCEPT ![p].ssh = "up", ![p].bridge = "marked", ![p].out = first]
    BY <1>4 DEF BridgeStarts, first
  <2>2. \A q \in Procs : /\ proc'[q].left = proc[q].left
                         /\ q # p => proc'[q] = proc[q]
    BY <2>1 DEF Types, ProcType, Process
  <2>3. QED
    BY <1>1, <2>1, <2>2 DEF Harmless
<1>5. CASE BridgePublishes(p)
  <2> DEFINE more == Append(proc[p].out, "frame")
  <2> HIDE DEF more
  <2>1. proc' = [proc EXCEPT ![p].bridge = "ready", ![p].out = more]
    BY <1>5 DEF BridgePublishes, more
  <2>2. QED
    BY <1>1, <2>1 DEF Types, ProcType, Process, Harmless
<1>6. CASE BridgeEnds(p) \/ SshEnds(p)
  BY <1>1, <1>6 DEF BridgeEnds, SshEnds, Types, ProcType, Process, Harmless
<1>7. CASE Garble(p)
  <2> DEFINE more == Append(proc[p].out, "garbled")
  <2> HIDE DEF more
  <2>1. proc' = [proc EXCEPT ![p].out = more]
    BY <1>7 DEF Garble, more
  <2>2. QED
    BY <1>1, <2>1 DEF Types, ProcType, Process, Harmless
<1>8. QED
  BY <1>1, <1>2, <1>3, <1>4, <1>5, <1>6, <1>7 DEF Behind

LEMMA ThreadForgetsNone ==
    ASSUME SshInv, Thread
    PROVE  NoneForgotten' /\ Attended' /\ Terminated'
<1> USE DEF SshInv
<1>1. CASE Begin \/ SpawnFails \/ LookForFrame \/ Clear \/ Tell \/ Wake
  <2>1. CASE Clear
    <3>1. ASSUME NEW p \in Procs
          PROVE  proc'[p].ssh = proc[p].ssh /\ proc'[p].left = proc[p].left
      BY <2>1 DEF Clear, Types, ProcType, Process
    <3>2. NoneForgotten'
      BY <2>1, <3>1 DEF Clear, stopper, NoneForgotten, Serving
    <3>3. QED
      BY <2>1, <3>2 DEF Clear, stopper, Attended, Terminated, Serving, Stopping
  <2>2. CASE ~Clear
    BY <1>1, <2>2 DEF Begin, SpawnFails, LookForFrame, Tell, Wake, stopper, NoneForgotten, Attended,
       Terminated, Serving, Stopping
  <2>3. QED
    BY <2>1, <2>2
<1>2. CASE Spawn
  <2>1. PICK p \in Procs : local' = p /\ proc' = [proc EXCEPT ![p] = Started]
    BY <1>2 DEF Spawn
  <2>2. \A q \in Procs \ {p} : proc'[q] = proc[q]
    BY <2>1 DEF Types, ProcType
  <2>3. pc = "spawn" /\ pc' = "publish" /\ UNCHANGED <<stop, grip>> /\ handle' = None
    BY <1>2 DEF Spawn, stopper, Types, HandleType
  <2>4. NoneForgotten'
    BY <2>1, <2>2, <2>3 DEF NoneForgotten, Serving
  <2>5. QED
    BY <2>3, <2>4 DEF Attended, Terminated
<1>3. CASE Publish
  <2>1. local \in Procs /\ \A p \in Procs : Harmless(p)
    BY <1>3 DEF Publish, Types, Named, ProcType, Process, Harmless
  <2>2. NoneForgotten'
    BY <1>3, <2>1 DEF Publish, stopper, NoneForgotten, Harmless, Serving
  <2>3. QED
    BY <1>3, <2>2 DEF Publish, stopper, Attended, Terminated, Serving, Stopping
<1>4. CASE LookForMarker
  <2>1. local \in Procs
    BY <1>4 DEF LookForMarker, Types, Named
  <2>2. CASE Stopping
    <3>1. /\ proc'[local].left = "unmarked" /\ \A p \in Procs : Harmless(p)
          /\ pc' = "fail"
      <4>1. proc' = [proc EXCEPT ![local].left = "unmarked"] /\ pc' = "fail"
        BY <1>4, <2>2 DEF LookForMarker
      <4>2. QED
        BY <2>1, <4>1 DEF Types, ProcType, Process, Harmless
    <3>2. NoneForgotten'
      BY <1>4, <3>1 DEF LookForMarker, stopper, NoneForgotten, Harmless
    <3>3. QED
      BY <1>4, <2>2, <3>1, <3>2 DEF LookForMarker, stopper, Attended, Terminated, Stopping, Serving
  <2>3. CASE ~Stopping
    BY <1>4, <2>3 DEF LookForMarker, stopper, NoneForgotten, Attended, Terminated, Stopping,
       Serving
  <2>4. QED
    BY <2>2, <2>3
<1>5. CASE Read
  <2>1. local \in Procs /\ UNCHANGED <<local, handle, stop, grip>> /\ pc' \in {"clear", "frame"}
    BY <1>5 DEF Read, Types, Named, stopper
  <2>2. CASE proc[local].ssh = "ended" /\ UNCHANGED proc
    <3>1. NoneForgotten'
      BY <1>5, <2>1, <2>2 DEF NoneForgotten, Serving
    <3>2. QED
      BY <1>5, <2>1, <2>2, <3>1 DEF Read, Attended, Terminated, Serving
  <2>3. CASE /\ proc[local].out # << >>
             /\ pc' = IF Head(proc[local].out) = "garbled" THEN "clear" ELSE "frame"
             /\ proc' = [proc EXCEPT ![local].out = Tail(@),
                            ![local].left = IF Head(proc[local].out) = "garbled"
                                            THEN "refused" ELSE @]
    <3> DEFINE garbled == Head(proc[local].out) = "garbled"
    <3> HIDE DEF garbled
    <3>1. /\ \A p \in Procs : Harmless(p) /\ (p # local => proc'[p] = proc[p])
          /\ garbled => proc'[local].left = "refused"
      BY <2>1, <2>3 DEF Types, ProcType, Process, Harmless, garbled
    <3>2. pc' = IF garbled THEN "clear" ELSE "frame"
      BY <2>3 DEF garbled
    <3>3. NoneForgotten'
      BY <1>5, <2>1, <3>1, <3>2 DEF Read, NoneForgotten, Harmless, Serving
    <3>4. QED
      BY <1>5, <2>1, <3>1, <3>2, <3>3 DEF Read, Attended, Terminated, Serving, Harmless
  <2>4. QED
    BY <1>5, <2>2, <2>3 DEF Read
<1>6. CASE WaitForExit
  <2>1. local \in Procs /\ Stopping
    BY <1>6 DEF WaitForExit, Types, Named, Attended
  <2>2. proc[local].ssh = "ended" \/ (stop = "terminate" /\ grip = local)
    BY <1>6, <2>1 DEF WaitForExit, Attended, Terminated, Stopping, Types, StopType, Serving
  <2>3. QED
    BY <1>6, <2>1, <2>2 DEF WaitForExit, stopper, NoneForgotten, Attended, Terminated, Serving
<1>7. QED
  BY <1>1, <1>2, <1>3, <1>4, <1>5, <1>6 DEF Thread

LEMMA StopForgetsNone ==
    ASSUME SshInv, Stop \/ Stopper
    PROVE  NoneForgotten' /\ Attended' /\ Terminated'
<1> USE DEF SshInv
<1>1. CASE Stop
  BY <1>1 DEF Stop, client, NoneForgotten, Attended, Terminated, Stopping, Serving
<1>2. CASE TakeProcess
  <2>1. /\ stop = "set" /\ UNCHANGED <<pc, local, handle, proc>> /\ grip' = handle
        /\ stop' = IF handle = None THEN "join" ELSE "terminate"
    BY <1>2 DEF TakeProcess, client
  <2>2. CASE handle = None
    <3>1. pc \notin {"marker", "read marker", "frame", "read frame", "wait"}
      BY <2>2, NoneAssumption DEF Attended, Types, Named
    <3>2. QED
      BY <2>1, <2>2, <3>1 DEF NoneForgotten, Attended, Terminated, Stopping, Serving
  <2>3. CASE handle # None
    <3>1. handle = local /\ pc \notin {"spawn", "publish"}
      BY <2>3 DEF Types, HandleType
    <3>2. QED
      BY <2>1, <2>3, <3>1 DEF NoneForgotten, Attended, Terminated, Stopping, Serving
  <2>4. QED
    BY <2>2, <2>3
<1>3. CASE Terminate
  <2>1. grip \in Procs /\ UNCHANGED <<pc, local, handle, grip>> /\ stop' = "join"
    BY <1>3 DEF Terminate, Types, Named, client
  <2>2. proc'[grip].ssh = "ended" /\ \A q \in Procs : Harmless(q)
    BY <1>3, <2>1, EndingHarmless DEF Terminate
  <2>3. NoneForgotten'
    BY <2>1, <2>2 DEF NoneForgotten, Harmless, Serving
  <2>4. Attended' /\ Terminated'
    BY <1>3, <2>1, <2>2 DEF Terminate, Attended, Terminated, Stopping, Serving
  <2>5. QED
    BY <2>3, <2>4
<1>4. CASE Join
  <2>1. /\ stop = "join" /\ stop' \in {"returned", "raised"} /\ grip' = None
        /\ UNCHANGED <<pc, local, handle, proc>>
    BY <1>4 DEF Join, client
  <2>2. QED
    BY <2>1 DEF NoneForgotten, Attended, Terminated, Stopping, Serving
<1>5. QED
  BY <1>1, <1>2, <1>3, <1>4 DEF Stopper

(* Whenever an ssh runs that the thread neither serves nor has given up      *)
(* alive, stop() is about to terminate it: a start that stop() came too      *)
(* early to see, and a wait that ends by its timeout, forget none            *)
(* (SshStdioClient._run, stop).                                              *)
THEOREM NoSshForgotten == Spec => []NoneForgotten
<1>1. Init => NoneForgotten /\ Attended /\ Terminated
  <2>1. Init => \A p \in Procs : proc[p].ssh = "ended"
    <3>1. Gone.ssh = "ended"
      BY DEF Gone
    <3>2. QED
      BY <3>1 DEF Init
  <2>2. QED
    BY <2>1 DEF Init, NoneForgotten, Attended, Terminated
<1>2. Types /\ NoneForgotten /\ Attended /\ Terminated /\ [Next]_vars
        => NoneForgotten' /\ Attended' /\ Terminated'
  <2> SUFFICES ASSUME SshInv, [Next]_vars PROVE NoneForgotten' /\ Attended' /\ Terminated'
    BY DEF SshInv
  <2>1. CASE UNCHANGED vars
    BY <2>1, QuietKeeps DEF vars, client, stopper, Harmless
  <2>2. ASSUME NEW p \in Procs, Behind(p) \/ ErrorLine(p) \/ SshFails(p) \/ Garble(p)
        PROVE  NoneForgotten' /\ Attended' /\ Terminated'
    BY <2>2, BehindHarmless, QuietKeeps DEF SshInv
  <2>3. QED
    BY <2>1, <2>2, ThreadForgetsNone, StopForgetsNone DEF Next
<1>3. Spec => []Types
  BY TypesHold
<1>4. QED
  BY <1>1, <1>2, <1>3, PTL DEF Spec

(* So once the thread has ended, and stop() has come to its join, only an    *)
(* ssh runs that the thread gave up alive.                                   *)
THEOREM StoppedLeavesOnlyGivenUp ==
    Spec => [](pc = "done" /\ stop # "terminate"
                => \A p \in Procs : proc[p].ssh = "ended" \/ proc[p].left # "no")
<1>1. NoneForgotten => (pc = "done" /\ stop # "terminate"
                         => \A p \in Procs : proc[p].ssh = "ended" \/ proc[p].left # "no")
  BY DEF NoneForgotten, Serving
<1>2. QED
  BY <1>1, NoSshForgotten, PTL

-----------------------------------------------------------------------------
(* The client keeps to the order of ClientLink.                             *)

\* What was told fits the place of the thread; before a stop nothing is told
\* twice, and a new process finds its connection unauthenticated.
Telling ==
    /\ pc = "begin" /\ ~Stopping => told \in {"nothing", "disconnected"}
    /\ pc \in {"spawn", "publish"} => told = "connecting"
    /\ pc \in {"marker", "read marker", "frame", "read frame"} =>
         told \in {"connecting", "connected"} /\ (auth <=> told = "connected")
    /\ pc \in {"wait", "clear", "fail", "tell"} => told \in {"connecting", "connected"}
    /\ pc = "backoff" => told = "disconnected"

Handed == IF told = "connected" THEN "frame" ELSE None

LEMMA LinkValues ==
    /\ LinkStates["nothing"] = "new" /\ LinkStates["connecting"] = "connecting"
    /\ LinkStates["connected"] = "up" /\ LinkStates["disconnected"] = "down"
  BY DEF LinkStates

LEMMA LinkSteps ==
    /\ Contract!Connect <=> /\ Link \in {"new", "down"} /\ Link' = "connecting"
                            /\ UNCHANGED Handed
    /\ Contract!Open <=> Link = "connecting" /\ Link' = "up" /\ Handed' \in {"frame"}
    /\ Contract!Lose <=> Link \in {"connecting", "up"} /\ Link' = "down" /\ Handed' = None
    /\ Contract!Stop <=> Link # "none" /\ Link' = "none" /\ Handed' \in {Handed, None}
    /\ UNCHANGED Contract!vars <=> UNCHANGED <<Link, Handed>>
  BY DEF Contract!Connect, Contract!Open, Contract!Lose, Contract!Stop, Contract!vars, Handed

\* A step that tells nothing leaves the link alone, unless it ends the thread.
LEMMA Untold ==
    ASSUME told' = told, pc = "done" => pc' = "done"
    PROVE  [Contract!Next]_(Contract!vars)
<1>1. Handed' = Handed /\ (Link' = Link \/ (Link # "none" /\ Link' = "none"))
  BY DEF Link, Handed
<1>2. QED
  BY <1>1, LinkSteps DEF Contract!Next

LEMMA ThreadTells ==
    ASSUME Types, Telling, Thread
    PROVE  Telling' /\ [Contract!Next]_(Contract!vars)
<1>1. Stopping' = Stopping /\ pc # "done"
  BY DEF Thread, Begin, Spawn, SpawnFails, Publish, LookForMarker, LookForFrame, Read,
         WaitForExit, Clear, Tell, Wake, stopper, Stopping
<1>2. CASE Begin
  <2>1. CASE Stopping
    BY <1>1, <1>2, <2>1, Untold DEF Begin, Telling
  <2>2. CASE ~Stopping
    <3>1. told \in {"nothing", "disconnected"} /\ pc' = "spawn" /\ told' = "connecting"
      BY <1>2, <2>2 DEF Begin, Telling
    <3>2. Telling' /\ Handed' = Handed
      BY <3>1 DEF Telling, Handed
    <3>3. Link \in {"new", "down"} /\ Link' = "connecting"
      BY <1>1, <3>1, LinkValues DEF Link
    <3>4. QED
      BY <3>2, <3>3, LinkSteps DEF Contract!Next
  <2>3. QED
    BY <2>1, <2>2
<1>3. CASE Tell
  <2>1. CASE Stopping
    BY <1>1, <1>3, <2>1, Untold DEF Tell, Telling
  <2>2. CASE ~Stopping
    <3>1. told \in {"connecting", "connected"} /\ pc' = "backoff" /\ told' = "disconnected"
      BY <1>3, <2>2 DEF Tell, Telling
    <3>2. Telling' /\ Handed' = None
      BY <3>1 DEF Telling, Handed
    <3>3. Link \in {"connecting", "up"} /\ Link' = "down"
      BY <1>1, <3>1, LinkValues DEF Link
    <3>4. QED
      BY <3>2, <3>3, LinkSteps DEF Contract!Next
  <2>3. QED
    BY <2>1, <2>2
<1>4. CASE Read
  <2>1. /\ pc \in {"read marker", "read frame"} /\ pc' \in {"clear", "frame"}
        /\ \/ auth' = auth /\ told' = told
           \/ ~auth /\ auth' = TRUE /\ told' = "connected"
    BY <1>4 DEF Read, Types, ThreadType
  <2>2. told \in {"connecting", "connected"} /\ (auth <=> told = "connected")
    BY <2>1 DEF Telling
  <2>3. told' \in {"connecting", "connected"} /\ (auth' <=> told' = "connected")
    <3>1. CASE auth' = auth /\ told' = told
      BY <2>2, <3>1
    <3>2. CASE auth' = TRUE /\ told' = "connected"
      BY <3>2
    <3>3. QED
      BY <2>1, <3>1, <3>2
  <2>4. Telling'
    BY <2>1, <2>3 DEF Telling
  <2>5. CASE told' = told
    BY <1>1, <2>4, <2>5, Untold
  <2>6. CASE told' # told
    <3>1. told = "connecting" /\ told' = "connected"
      BY <2>1, <2>2, <2>6
    <3>2. Link = "connecting" /\ Link' = "up" /\ Handed' \in {"frame"}
      BY <1>1, <2>1, <3>1, LinkValues DEF Link, Handed
    <3>3. QED
      BY <2>4, <3>2, LinkSteps DEF Contract!Next
  <2>7. QED
    BY <2>5, <2>6
<1>5. CASE Publish
  <2>1. pc = "publish" /\ pc' = "marker" /\ auth' = FALSE /\ told' = told
    BY <1>5 DEF Publish
  <2>2. Telling'
    BY <2>1 DEF Telling
  <2>3. QED
    BY <1>1, <2>1, <2>2, Untold
<1>6. CASE Spawn \/ SpawnFails \/ LookForMarker \/ LookForFrame \/ WaitForExit \/ Clear \/ Wake
  <2>1. UNCHANGED <<auth, told>>
    BY <1>6 DEF Spawn, SpawnFails, LookForMarker, LookForFrame, WaitForExit, Clear, Wake
  <2>2. \/ pc = "spawn" /\ pc' \in {"publish", "clear"}
        \/ pc = "marker" /\ pc' \in {"read marker", "fail"}
        \/ pc = "frame" /\ pc' \in {"read frame", "wait"}
        \/ pc = "wait" /\ pc' = "clear"
        \/ pc \in {"clear", "fail"} /\ pc' \in {"tell", "done"}
        \/ pc = "backoff" /\ pc' = "begin"
    BY <1>6 DEF Spawn, SpawnFails, LookForMarker, LookForFrame, WaitForExit, Clear, Wake
  <2>3. Telling'
    BY <2>1, <2>2 DEF Telling
  <2>4. QED
    BY <1>1, <2>1, <2>3, Untold
<1>7. QED
  BY <1>2, <1>3, <1>4, <1>5, <1>6 DEF Thread

LEMMA OthersTellNothing ==
    ASSUME Types, Telling,
           \/ Stop \/ Stopper \/ UNCHANGED vars
           \/ \E p \in Procs : Behind(p) \/ ErrorLine(p) \/ SshFails(p) \/ Garble(p)
    PROVE  Telling' /\ [Contract!Next]_(Contract!vars)
<1>1. UNCHANGED <<pc, auth, told>> /\ (Stopping => Stopping')
  <2>1. CASE Stop \/ Stopper \/ UNCHANGED vars
    BY <2>1 DEF Stop, Stopper, TakeProcess, Terminate, Join, Stopping, client, stopper, vars
  <2>2. CASE \E p \in Procs : Behind(p) \/ ErrorLine(p) \/ SshFails(p) \/ Garble(p)
    BY <2>2 DEF Behind, LookForErrors, ErrorsEnd, ErrorLine, BridgeStarts, BridgePublishes,
                BridgeEnds, SshEnds, SshFails, Garble, Stopping, client, stopper
  <2>3. QED
    BY <2>1, <2>2
<1>2. Telling'
  BY <1>1 DEF Telling
<1>3. QED
  BY <1>1, <1>2, Untold

(* For every number of processes and of faults the client tells the states   *)
(* of ClientLink in their order: each connection is announced, then up, and  *)
(* its loss told before the next is tried, wherever a start fails, a stream  *)
(* is garbled or stop() comes (SshStdioClient._run, _receive).               *)
THEOREM KeepsToItsLink == Spec => KeepsLink
<1>1. Init => Telling /\ Contract!Init
  BY LinkValues DEF Init, Telling, Stopping, Link, Contract!Init
<1>2. Types /\ Telling /\ [Next]_vars => Telling' /\ [Contract!Next]_(Contract!vars)
  BY ThreadTells, OthersTellNothing DEF Next
<1>3. QED
  BY <1>1, <1>2, TypesHold, PTL DEF Spec, KeepsLink, Contract!Spec
=============================================================================
