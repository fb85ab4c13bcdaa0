------------------------ MODULE SessionClaims_proofs ------------------------
(***************************************************************************)
(* Proofs about SessionClaims: the types, the tables of connections, the   *)
(* remembered counters and where a connection is made, for any number of   *)
(* terminals, sessions, profiles, presses and inventories.                 *)
(*                                                                         *)
(* The invariant IInv has three parts.  Sound: types and tables.  Ordered: *)
(* the lookup of the current generation is the only one of it and has read *)
(* nothing older than the remembered counters.  Phased: what is current    *)
(* was begun since the mode was last switched off.                         *)
(* That the tables go as in module Pairing follows from Sound.             *)
(***************************************************************************)
EXTENDS SessionClaims, TLAPS

\* What one listing changes in a lookup: the target listed and what was read there,
\* and perhaps the stage.
LEMMA ScanType ==
    ASSUME NEW w \in Worker, NEW g \in Targets, claim \in [Sessions -> Record],
           NEW v \in Scanned(w, g), NEW u \in {v, NextStage(v)}
    PROVE  /\ u \in Worker
           /\ u.kind = w.kind /\ u.gen = w.gen /\ u.term = w.term /\ u.offs = w.offs
           /\ \/ u.seen = w.seen /\ u.listed = w.listed
              \/ u.seen = Reading(w, g) /\ u.listed = w.listed \cup {g}
<1>1. Reading(w, g) \in [Sessions -> Record \cup {None}]
  BY DEF Reading, Worker
<1>2. /\ v \in Worker /\ v.kind = w.kind /\ v.gen = w.gen /\ v.term = w.term
      /\ v.offs = w.offs
      /\ \/ v.seen = w.seen /\ v.listed = w.listed
         \/ v.seen = Reading(w, g) /\ v.listed = w.listed \cup {g}
  <2>1. CASE v = [w EXCEPT !.todo = @ \ {g}, !.seen = Reading(w, g), !.listed = @ \cup {g}]
    BY <1>1, <2>1 DEF Worker
  <2>2. CASE v = [w EXCEPT !.todo = @ \ {g}]
    BY <2>2 DEF Worker
  <2> QED BY <2>1, <2>2 DEF Scanned
<1>3. CASE u = v
  BY <1>2, <1>3
<1>4. CASE u = [v EXCEPT !.todo = v.rest, !.rest = {}, !.notBefore = 0]
  <2>1. u \in Worker /\ u.kind = v.kind /\ u.gen = v.gen /\ u.term = v.term
        /\ u.offs = v.offs
        /\ u.seen = v.seen /\ u.listed = v.listed
    BY <1>2, <1>4 DEF Worker, Targets
  <2> QED BY <1>2, <2>1
<1> QED BY <1>3, <1>4 DEF NextStage

-----------------------------------------------------------------------------
(* Connections *)

\* The types of the tables of connections.
ConnType ==
    /\ inst \in [Instances -> Sessions \cup {None}]
    /\ bind \in [Terminals -> Instances \cup {None}]
    /\ auth \subseteq Instances

\* A connection made keeps the tables together.
LEMMA ConnectKeeps ==
    ASSUME ConnType, OneConnectionPerSession, NEW t, NEW s \in Sessions, Connect(t, s)
    PROVE  ConnType' /\ OneConnectionPerSession'
<1>1. CASE Reuse(t, s) /\ \E i \in Instances : inst[i] = s
  BY <1>1, NoneAssumption DEF Reuse, ConnType, OneConnectionPerSession
<1>2. CASE UNCHANGED connections
  BY <1>2 DEF connections, ConnType, OneConnectionPerSession
<1>3. CASE Start(t, s) /\ ~ \E i \in Instances : inst[i] = s
  <2> PICK i \in Instances :
        /\ inst[i] = None
        /\ inst' = [j \in Instances |->
                      IF j = i THEN s ELSE IF j \in Replaced(t) THEN None ELSE inst[j]]
        /\ bind' = [u \in Terminals |->
                      IF u = t THEN i ELSE IF bind[u] \in Replaced(t) THEN None ELSE bind[u]]
        /\ auth' = auth \ Replaced(t)
    BY <1>3 DEF Start
  <2>1. ConnType'
    BY DEF ConnType
  <2>2. \A j, k \in Instances : inst'[j] # None /\ inst'[j] = inst'[k] => j = k
    BY <1>3 DEF ConnType, OneConnectionPerSession
  <2>3. \A u \in Terminals : bind'[u] # None => inst'[bind'[u]] # None
    <3> SUFFICES ASSUME NEW u \in Terminals, bind'[u] # None
                 PROVE  inst'[bind'[u]] # None
      OBVIOUS
    <3> None # s
      BY NoneAssumption
    <3>1. CASE u = t
      BY <3>1
    <3>2. CASE u # t
      <4>1. bind'[u] = bind[u] /\ bind[u] \in Instances /\ bind[u] \notin Replaced(t)
        BY <3>2 DEF ConnType
      <4>2. inst[bind[u]] # None
        BY <4>1 DEF OneConnectionPerSession
      <4> QED BY <4>1, <4>2
    <3> QED BY <3>1, <3>2
  <2>4. \A j \in auth' : inst'[j] # None
    BY NoneAssumption DEF ConnType, OneConnectionPerSession
  <2> QED BY <2>1, <2>2, <2>3, <2>4 DEF OneConnectionPerSession
<1> QED BY <1>1, <1>2, <1>3 DEF Connect

-----------------------------------------------------------------------------
(* Types *)

\* The service starts well typed.
LEMMA TypeInit == Init => TypeOK
<1> SUFFICES ASSUME Init PROVE TypeOK
  OBVIOUS
<1>1. claim \in [Sessions -> Record] /\ handlers \in Seq(Gesture)
  BY DEF Init, Record
<1> QED BY <1>1 DEF Init, TypeOK

\* A queue that is not empty has a head, and a tail of the same kind.
LEMMA HeadTailType ==
    ASSUME NEW S, NEW q \in Seq(S), q # <<>>
    PROVE  Head(q) \in S /\ Tail(q) \in Seq(S)
OBVIOUS

\* The actions that begin lookups add well-formed ones.
LEMMA BeginKeepsType ==
    ASSUME TypeOK, BeginInventory
    PROVE  /\ invGen' \in Nat /\ inventories' \in Nat /\ ready' \in BOOLEAN
           /\ workers' \subseteq Worker
           /\ \A w \in workers' : w.kind # "inventory" => w.term \in Terminals
<1> DEFINE new == Lookup("inventory", invGen + 1, None, 0, Targets, {})
<1>0. offs \in Nat /\ baselines \in [Sessions -> Nat] /\ invGen \in Nat
      /\ Targets \in SUBSET Targets /\ {} \in SUBSET Profiles
  BY DEF TypeOK
<1>1. new \in Worker /\ new.kind = "inventory"
  BY <1>0 DEF Lookup, Worker
<1>2. workers' = workers \cup {new}
  BY DEF BeginInventory
<1> HIDE DEF new
<1>3. invGen' \in Nat /\ inventories' \in Nat /\ ready' \in BOOLEAN
  <2>1. invGen' = invGen + 1 /\ inventories' = inventories + 1 /\ ready' = FALSE
    BY DEF BeginInventory
  <2>2. invGen \in Nat /\ inventories \in Nat
    BY DEF TypeOK
  <2>3. invGen' \in Nat /\ inventories' \in Nat
    BY <2>1, <2>2
  <2> QED BY <2>1, <2>3
<1>4. /\ workers \subseteq Worker
      /\ \A w \in workers : w.kind # "inventory" => w.term \in Terminals
  BY DEF TypeOK
<1> QED BY <1>1, <1>2, <1>3, <1>4

\* A delayed call ends, perhaps by beginning a lookup.
LEMMA DelayedCallKeepsType ==
    ASSUME TypeOK, NEW c \in calls, DelayedCall(c)
    PROVE  TypeOK'
<1>0. /\ c.term \in Terminals /\ c.target \in Targets /\ c.notBefore \in Nat
      /\ offs \in Nat /\ baselines \in [Sessions -> Nat]
      /\ invGen \in Nat /\ disGen \in Nat
      /\ {Local} \in SUBSET Targets /\ {c.target} \in SUBSET Targets
      /\ eligible \cap Profiles \in SUBSET Profiles /\ {} \in SUBSET Profiles
  BY DEF TypeOK, Call, Targets
<1>1. /\ invGen' \in Nat /\ disGen' \in Nat
      /\ \/ workers' = workers
         \/ \E w \in Worker : w.term \in Terminals /\ workers' = workers \cup {w}
  <2>1. CASE BeginAutomatic(c)
    <3> DEFINE new == Lookup("automatic", invGen + 1, c.term, c.notBefore, {Local},
                           eligible \cap Profiles)
    <3>1. new \in Worker /\ new.term \in Terminals
      BY <1>0 DEF Lookup, Worker
    <3>2. workers' = workers \cup {new}
      BY <2>1 DEF BeginAutomatic
    <3> HIDE DEF new
    <3>3. invGen' \in Nat /\ disGen' \in Nat
      BY <1>0, <2>1 DEF BeginAutomatic
    <3> QED BY <3>1, <3>2, <3>3
  <2>2. CASE BeginLocal(c)
    <3> DEFINE new == Lookup("local", disGen + 1, c.term, c.notBefore, {Local}, {})
    <3>1. new \in Worker /\ new.term \in Terminals
      BY <1>0 DEF Lookup, Worker
    <3>2. workers' = workers \cup {new}
      BY <2>2 DEF BeginLocal
    <3> HIDE DEF new
    <3> QED BY <1>0, <2>2, <3>1, <3>2 DEF BeginLocal
  <2>3. CASE BeginRemote(c)
    <3> DEFINE new == Lookup("remote", disGen + 1, c.term, 0, {c.target}, {})
    <3>1. new \in Worker /\ new.term \in Terminals
      BY <1>0 DEF Lookup, Worker
    <3>2. workers' = workers \/ workers' = workers \cup {new}
      BY <2>3 DEF BeginRemote
    <3> HIDE DEF new
    <3> QED BY <1>0, <2>3, <3>1, <3>2 DEF BeginRemote
  <2> QED BY <2>1, <2>2, <2>3 DEF DelayedCall
<1> QED
  BY <1>1 DEF DelayedCall, TypeOK, gate, connections, editors, counters

\* A listing replaces a lookup by one of the same kind and terminal.
LEMMA ScanKeepsType ==
    ASSUME TypeOK, NEW w \in workers, NEW g \in Targets, Scan(w, g)
    PROVE  TypeOK'
<1>1. PICK u : /\ u \in Worker /\ u.kind = w.kind /\ u.term = w.term
               /\ workers' = (workers \ {w}) \cup {u}
  <2>1. PICK v \in Scanned(w, g) :
          workers' = (workers \ {w}) \cup {IF g = Local THEN NextStage(v) ELSE v}
    BY DEF Scan
  <2> DEFINE u == IF g = Local THEN NextStage(v) ELSE v
  <2>2. u \in {v, NextStage(v)}
    OBVIOUS
  <2>3. w \in Worker /\ claim \in [Sessions -> Record]
    BY DEF TypeOK
  <2> HIDE DEF u
  <2>4. u \in Worker /\ u.kind = w.kind /\ u.term = w.term
    BY <2>2, <2>3, ScanType
  <2>5. workers' = (workers \ {w}) \cup {u}
    BY <2>1 DEF u
  <2> QED BY <2>4, <2>5
<1> QED
  BY <1>1 DEF Scan, TypeOK, gate, lists, connections, editors, counters

\* The tables of connections keep their types, whether they agree or not.
LEMMA ConnectKeepsType ==
    ASSUME ConnType, NEW t, NEW s \in Sessions, Connect(t, s)
    PROVE  ConnType'
BY DEF Connect, Reuse, Start, ConnType, connections

\* A result of any of the three kinds of lookup.
LEMMA FinishKeepsType ==
    ASSUME TypeOK, NEW w \in workers, Finish(w)
    PROVE  TypeOK'
<1> ConnType /\ w \in Worker
  BY DEF TypeOK, ConnType
<1>1. CASE FinishInventory(w)
  <2>1. baselines' \in [Sessions -> Nat] /\ eligible' \subseteq Targets /\ ready' \in BOOLEAN
    <3>1. /\ w.listed \subseteq Targets
          /\ \A s \in Sessions : w.seen[s] # None => w.seen[s].seq \in Nat
      BY DEF Worker, Record
    <3>2. CASE Current(w.gen, None)
      BY <1>1, <3>1, <3>2 DEF FinishInventory
    <3>3. CASE ~Current(w.gen, None)
      BY <1>1, <3>3 DEF FinishInventory, TypeOK
    <3> QED BY <3>2, <3>3
  <2> QED
    BY <1>1, <2>1 DEF Finish, FinishInventory, TypeOK, gate, connections, editors, counters
<1>2. CASE FinishAutomatic(w)
  <2>1. NewBaselines(w) \in [Sessions -> Nat]
    BY DEF NewBaselines, TypeOK, Worker, Record
  <2>2. baselines' \in [Sessions -> Nat]
    BY <1>2, <2>1 DEF FinishAutomatic, TypeOK
  <2>3. choices' \subseteq Choice /\ \A c \in choices' : \E r, s \in c.among : r # s
    <3>1. CASE choices' = choices
      BY <3>1 DEF TypeOK
    <3>2. CASE /\ \E s, r \in Candidates(w) : s # r
               /\ choices' = choices \cup {[gen |-> w.gen, offs |-> w.offs,
                                           term |-> w.term, among |-> Candidates(w)]}
      <4>1. w.term \in Terminals /\ Candidates(w) \subseteq Sessions
        BY <1>2 DEF FinishAutomatic, TypeOK, Candidates
      <4>2. [gen |-> w.gen, offs |-> w.offs, term |-> w.term, among |-> Candidates(w)]
              \in Choice
        BY <4>1 DEF Worker, Choice
      <4>3. choices \subseteq Choice /\ \A c \in choices : \E r, s \in c.among : r # s
        BY DEF TypeOK
      <4> QED BY <3>2, <4>2, <4>3
    <3> QED BY <1>2, <3>1, <3>2 DEF FinishAutomatic
  <2>4. ConnType'
    <3>1. CASE \E s \in Sessions : Connect(w.term, s)
      BY <3>1, ConnectKeepsType
    <3>2. CASE UNCHANGED connections
      BY <3>2 DEF ConnType, connections
    <3> QED BY <1>2, <3>1, <3>2 DEF FinishAutomatic
  <2> QED
    BY <1>2, <2>2, <2>3, <2>4
    DEF Finish, FinishAutomatic, TypeOK, ConnType, gate, editors, counters
<1>3. CASE FinishDiscovery(w)
  <2>1. ConnType'
    <3>1. CASE \E s \in Latest(w) : Connect(w.term, s)
      BY <3>1, ConnectKeepsType DEF Latest, Claimed
    <3>2. CASE UNCHANGED connections
      BY <3>2 DEF ConnType, connections
    <3> QED BY <1>3, <3>1, <3>2 DEF FinishDiscovery
  <2> QED
    BY <1>3, <2>1 DEF Finish, FinishDiscovery, TypeOK, ConnType, gate, editors, counters
<1> QED BY <1>1, <1>2, <1>3 DEF Finish

\* The dialog over several candidates.
LEMMA CloseChoiceKeepsType ==
    ASSUME TypeOK, NEW c \in choices, CloseChoice(c)
    PROVE  TypeOK'
<1> ConnType /\ c.among \subseteq Sessions
  BY DEF TypeOK, ConnType, Choice
<1>1. ConnType'
  <2>1. CASE \E s \in c.among : Connect(c.term, s)
    BY <2>1, ConnectKeepsType
  <2>2. CASE UNCHANGED connections
    BY <2>2 DEF ConnType, connections
  <2> QED BY <2>1, <2>2 DEF CloseChoice
<1> QED
  BY <1>1 DEF CloseChoice, TypeOK, ConnType, gate, lists, editors, counters

\* The gestures and their handler.
LEMMA GestureKeepsType ==
    ASSUME TypeOK, OneConnectionPerSession,
           (\E t \in Terminals : Press(t)) \/ HandleClaim
    PROVE  TypeOK'
<1>1. ASSUME NEW t \in Terminals, Press(t)
      PROVE  TypeOK'
  <2>1. presses' \in Nat /\ keys' \in [Sessions -> Nat]
    <3>1. presses \in Nat /\ keys \in [Sessions -> Nat]
      BY DEF TypeOK
    <3>2. keys' = keys \/ \E s \in Sessions : keys' = [keys EXCEPT ![s] = @ + 1]
      BY <1>1 DEF Press, TypeOK
    <3> QED BY <1>1, <3>1, <3>2 DEF Press
  <2>2. observed' \in Gesture \cup {None} /\ handlers' \in Seq(Gesture)
    <3>1. CASE Authorized(t)
      <4>1. observed' \in Gesture /\ handlers' = Append(handlers, observed')
        BY <1>1, <2>1, <3>1 DEF Press, Gesture
      <4> QED BY <4>1 DEF TypeOK
    <3>2. CASE ~Authorized(t)
      BY <1>1, <3>2 DEF Press, TypeOK
    <3> QED BY <3>1, <3>2
  <2> QED
    BY <1>1, <2>1, <2>2 DEF Press, TypeOK, gate, lists, connections
<1>2. CASE HandleClaim
  <2> DEFINE h == Head(handlers)
  <2>1. h \in Gesture /\ handlers' \in Seq(Gesture)
    BY <1>2, HeadTailType DEF HandleClaim, TypeOK
  <2>2. observed' \in Gesture \cup {None}
    BY <1>2 DEF HandleClaim, TypeOK
  <2>3. /\ pendingTarget' \in [Terminals -> Targets \cup {None}]
        /\ calls' \subseteq Call /\ clock' \in Nat
    <3>1. CASE ConsumeTransition(h)
      <4> h.term \in Terminals
        BY <2>1 DEF Gesture
      <4>1. RouteTarget(h.term) \in Targets \cup {None}
        <5>1. PairedTarget(h.term) \in Targets \cup {None}
          <6>1. CASE PairedTarget(h.term) = None
            BY <6>1
          <6>2. CASE /\ bind[h.term] # None
                     /\ PairedTarget(h.term) = TargetOf[inst[bind[h.term]]]
            <7>1. inst[bind[h.term]] \in Sessions
              BY <6>2 DEF TypeOK, OneConnectionPerSession
            <7> QED BY <6>2, <7>1, SessionsAssumption
          <6> QED BY <6>1, <6>2 DEF PairedTarget
        <5> QED BY <5>1 DEF RouteTarget, TypeOK
      <4> QED BY <3>1, <4>1 DEF ConsumeTransition, TypeOK, Call, Targets
    <3>2. CASE UNCHANGED <<pendingTarget, calls, clock>>
      BY <3>2 DEF TypeOK
    <3> QED BY <1>2, <3>1, <3>2 DEF HandleClaim
  <2> QED
    BY <1>2, <2>1, <2>2, <2>3
    DEF HandleClaim, TypeOK, gate, lists, connections, counters
<1> QED BY <1>1, <1>2

\* Types and tables, which only hold together: a bound instance has a session.
Sound == TypeOK /\ OneConnectionPerSession

\* Every step keeps the types and the tables.
LEMMA SoundNext == Sound /\ [Next]_vars => Sound'
<1> SUFFICES ASSUME Sound, [Next]_vars PROVE Sound'
  OBVIOUS
<1> TypeOK /\ OneConnectionPerSession /\ ConnType
  BY DEF Sound, TypeOK, ConnType
<1>0. ASSUME UNCHANGED connections
      PROVE  OneConnectionPerSession'
  BY <1>0 DEF connections, OneConnectionPerSession
<1>1. ASSUME NEW x \in Terminals \cup {None}, Focus(x)
      PROVE  Sound'
  BY <1>0, <1>1
  DEF Sound, Focus, TypeOK, lists, main, connections, editors, counters
<1>2. CASE ToggleOn
  <2>1. TypeOK'
    BY <1>2, BeginKeepsType
    DEF ToggleOn, TypeOK, connections, editors
  <2> QED BY <1>0, <1>2, <2>1 DEF ToggleOn, Sound
<1>3. CASE ConnectionsChanged
  <2>1. TypeOK'
    BY <1>3, BeginKeepsType
    DEF ConnectionsChanged, TypeOK, gate, connections, editors
  <2> QED BY <1>0, <1>3, <2>1 DEF ConnectionsChanged, Sound
<1>4. CASE ToggleOff
  <2>1. TypeOK'
    <3>1. invGen' \in Nat /\ disGen' \in Nat /\ offs' \in Nat
      BY <1>4 DEF ToggleOff, InvalidateConnectionState, TypeOK
    <3>2. /\ manual' \in BOOLEAN /\ ready' \in BOOLEAN
          /\ observed' \in Gesture \cup {None} /\ eligible' \subseteq Targets
          /\ auth' \subseteq Instances
      BY <1>4 DEF ToggleOff, InvalidateConnectionState
    <3>3. /\ pendingTarget' \in [Terminals -> Targets \cup {None}]
          /\ baselines' \in [Sessions -> Nat]
          /\ inst' \in [Instances -> Sessions \cup {None}]
          /\ bind' \in [Terminals -> Instances \cup {None}]
      BY <1>4 DEF ToggleOff, InvalidateConnectionState
    <3>4. UNCHANGED <<focused, main, editors, presses, inventories, picks>>
      BY <1>4 DEF ToggleOff
    <3> QED BY <3>1, <3>2, <3>3, <3>4 DEF TypeOK, main, editors
  <2>2. OneConnectionPerSession'
    BY <1>4 DEF ToggleOff, OneConnectionPerSession
  <2> QED BY <2>1, <2>2 DEF Sound
<1>5. ASSUME NEW t \in Terminals, NEW g \in Targets, SetPendingTarget(t, g)
      PROVE  Sound'
  BY <1>0, <1>5
  DEF Sound, SetPendingTarget, TypeOK, gate, lists, main, connections, editors
<1>6. CASE (\E t \in Terminals : Press(t)) \/ HandleClaim
  <2>1. TypeOK'
    BY <1>6, GestureKeepsType
  <2>2. UNCHANGED connections
    BY <1>6 DEF Press, HandleClaim
  <2> QED BY <1>0, <2>1, <2>2 DEF Sound
<1>7. ASSUME NEW t \in Terminals, DisconnectConnection(t)
      PROVE  Sound'
  <2>1. TypeOK'
    BY <1>7 DEF DisconnectConnection, TypeOK, gate, lists, main, editors, counters
  <2>2. OneConnectionPerSession'
    BY <1>7 DEF DisconnectConnection, OneConnectionPerSession, ConnType
  <2> QED BY <2>1, <2>2 DEF Sound
<1>8. ASSUME NEW c \in calls, DelayedCall(c)
      PROVE  Sound'
  BY <1>0, <1>8, DelayedCallKeepsType DEF Sound, DelayedCall
<1>9. ASSUME NEW w \in workers, Finish(w)
      PROVE  Sound'
  <2>1. \/ UNCHANGED connections
        \/ \E s \in Sessions : Connect(w.term, s)
    BY <1>9 DEF Finish, FinishInventory, FinishAutomatic, FinishDiscovery, Latest, Claimed
  <2> QED BY <1>0, <1>9, <2>1, FinishKeepsType, ConnectKeeps DEF Sound
<1>10. ASSUME NEW w \in workers, NEW g \in Targets, Scan(w, g)
       PROVE  Sound'
  BY <1>0, <1>10, ScanKeepsType DEF Sound, Scan
<1>11. ASSUME NEW c \in choices, CloseChoice(c)
       PROVE  Sound'
  <2>1. \/ UNCHANGED connections
        \/ \E s \in Sessions : Connect(c.term, s)
    BY <1>11 DEF CloseChoice, TypeOK, Choice
  <2> QED BY <1>0, <1>11, <2>1, CloseChoiceKeepsType, ConnectKeeps DEF Sound
<1>12. ASSUME NEW i \in Instances, Authenticate(i) \/ Lose(i)
       PROVE  Sound'
  <2>1. TypeOK'
    BY <1>12 DEF Authenticate, Lose, TypeOK, gate, lists, main, editors, counters
  <2>2. OneConnectionPerSession'
    BY <1>12 DEF Authenticate, Lose, OneConnectionPerSession
  <2> QED BY <2>1, <2>2 DEF Sound
<1>13. ASSUME NEW s \in Sessions, Claim(s) \/ Age(s) \/ Quit(s)
       PROVE  Sound'
  <2>1. claim' \in [Sessions -> Record]
    <3> claim \in [Sessions -> Record] /\ clock \in Nat
      BY DEF TypeOK
    <3>1. CASE Claim(s)
      <4> DEFINE new == [seq |-> claim[s].seq + 1, at |-> clock', recent |-> TRUE]
      <4>1. new \in Record
        BY <3>1 DEF Claim, Record
      <4>2. claim' = [claim EXCEPT ![s] = new]
        BY <3>1 DEF Claim
      <4> HIDE DEF new
      <4> QED BY <4>1, <4>2
    <3>2. CASE Age(s)
      <4>1. \A r \in Sessions : [claim[r] EXCEPT !.recent = @ /\ claim[r].at > claim[s].at] \in Record
        BY DEF Record
      <4> QED BY <3>2, <4>1 DEF Age
    <3>3. CASE Quit(s)
      BY <3>3 DEF Quit
    <3> QED BY <1>13, <3>1, <3>2, <3>3
  <2>2. alive' \subseteq Sessions /\ keys' \in [Sessions -> Nat] /\ clock' \in Nat
    <3> alive \subseteq Sessions /\ keys \in [Sessions -> Nat] /\ clock \in Nat
      BY DEF TypeOK
    <3>1. CASE Claim(s)
      BY <3>1 DEF Claim
    <3>2. CASE Age(s) \/ Quit(s)
      BY <3>2 DEF Age, Quit
    <3> QED BY <1>13, <3>1, <3>2
  <2>3. UNCHANGED <<gate, observed, pendingTarget, lists, main, connections, counters>>
    BY <1>13 DEF Claim, Age, Quit
  <2>4. TypeOK'
    BY <2>1, <2>2, <2>3 DEF TypeOK, gate, lists, main, connections, counters
  <2> QED BY <1>0, <2>3, <2>4 DEF Sound
<1>14. CASE UNCHANGED vars
  BY <1>0, <1>14
  DEF Sound, vars, TypeOK, gate, lists, main, connections, editors, counters
<1> QED
  BY <1>1, <1>2, <1>3, <1>4, <1>5, <1>6, <1>7, <1>8, <1>9, <1>10, <1>11, <1>12, <1>13, <1>14
  DEF Next

\* The tables start empty.
LEMMA SoundInit == Init => Sound
BY TypeInit DEF Init, Sound, OneConnectionPerSession

-----------------------------------------------------------------------------
(* Generations *)

Scans(w) == w.kind \in {"inventory", "automatic"}
Discovers(w) == w.kind \in {"local", "remote"}

\* The lookup of the current generation has read nothing older than the remembered
\* counters, and missed no session that is still there.
CurrentIsNewer(w) ==
    /\ \A s \in Sessions : w.seen[s] # None => baselines[s] <= w.seen[s].seq
    /\ \A s \in alive : TargetOf[s] \in w.listed => w.seen[s] # None

\* Counters only grow, and lookups of the automatic route are told apart by generation.
Ordered ==
    /\ \A s \in Sessions : baselines[s] <= claim[s].seq
    /\ \A w \in workers, s \in Sessions : w.seen[s] # None => w.seen[s].seq <= claim[s].seq
    /\ \A w \in workers : Scans(w) => w.gen <= invGen
    /\ \A v, w \in workers : Scans(v) /\ Scans(w) /\ v.gen = w.gen => v = w
    /\ \A w \in workers : Scans(w) /\ w.gen = invGen => CurrentIsNewer(w)

\* What is current was begun since the mode was last switched off.
Phased ==
    /\ \A w \in workers : Scans(w) => w.gen <= invGen /\ (w.gen = invGen => w.offs = offs)
    /\ \A w \in workers : Discovers(w) =>
                             w.gen <= disGen /\ (w.gen = disGen => w.offs = offs)
    /\ \A c \in choices : c.gen <= invGen /\ (c.gen = invGen => c.offs = offs)

IInv == Sound /\ Ordered /\ Phased

\* There is no lookup and no dialog at first.
LEMMA IInvInit == Init => IInv
BY SoundInit DEF Init, IInv, Ordered, Phased

\* A step that leaves lookups, counters and records alone, and adds no dialog.
LEMMA IdleKeeps ==
    ASSUME Ordered, Phased,
           UNCHANGED <<workers, baselines, claim, alive, invGen, disGen, offs>>,
           choices' \subseteq choices
    PROVE  Ordered' /\ Phased'
BY DEF Ordered, Phased, CurrentIsNewer, Scans, Discovers

\* What a new lookup is.
LEMMA LookupFields ==
    ASSUME NEW kind, NEW gen, NEW t, NEW nb, NEW todo, NEW rest
    PROVE  LET w == Lookup(kind, gen, t, nb, todo, rest)
           IN  /\ w.kind = kind /\ w.gen = gen /\ w.offs = offs /\ w.listed = {}
               /\ \A s \in Sessions : w.seen[s] = None
BY DEF Lookup

\* A lookup with a new generation.
LEMMA BeginKeeps ==
    ASSUME Ordered, Phased, invGen \in Nat, disGen \in Nat,
           \A w \in workers : w.gen \in Nat, \A c \in choices : c.gen \in Nat,
           NEW new, workers' = workers \cup {new}, new.offs = offs, new.listed = {},
           \A s \in Sessions : new.seen[s] = None,
           \/ /\ Scans(new) /\ invGen' = invGen + 1 /\ new.gen = invGen + 1
              /\ disGen' = disGen
           \/ /\ Discovers(new) /\ disGen' = disGen + 1 /\ new.gen = disGen + 1
              /\ invGen' = invGen,
           UNCHANGED <<baselines, claim, alive, offs, choices>>
    PROVE  Ordered' /\ Phased'
<1>1. CASE Scans(new)
  <2>1. ~Discovers(new) /\ invGen' = invGen + 1 /\ new.gen = invGen + 1 /\ disGen' = disGen
    BY <1>1 DEF Scans, Discovers
  <2>2. Phased'
    BY <1>1, <2>1 DEF Phased, Scans, Discovers
  <2>3. \A v, w \in workers' : Scans(v) /\ Scans(w) /\ v.gen = w.gen => v = w
    BY <1>1, <2>1 DEF Ordered
  <2>4. \A w \in workers' : Scans(w) /\ w.gen = invGen' => CurrentIsNewer(w)'
    <3> SUFFICES ASSUME NEW w \in workers', Scans(w), w.gen = invGen'
                 PROVE  CurrentIsNewer(w)'
      OBVIOUS
    <3>1. w = new
      BY <2>1 DEF Ordered
    <3>2. \A s \in Sessions : w.seen[s] = None
      BY <3>1
    <3>3. w.listed = {}
      BY <3>1
    <3> QED BY <3>2, <3>3 DEF CurrentIsNewer
  <2>5. \A w \in workers' : Scans(w) => w.gen <= invGen'
    BY <1>1, <2>1 DEF Ordered
  <2>6. \A s \in Sessions : baselines'[s] <= claim'[s].seq
    BY DEF Ordered
  <2>7. \A w \in workers', s \in Sessions : w.seen[s] # None => w.seen[s].seq <= claim'[s].seq
    BY DEF Ordered
  <2> QED BY <2>2, <2>3, <2>4, <2>5, <2>6, <2>7 DEF Ordered, Scans
<1>2. CASE Discovers(new)
  <2>1. ~Scans(new) /\ disGen' = disGen + 1 /\ new.gen = disGen + 1 /\ invGen' = invGen
    BY <1>2 DEF Scans, Discovers
  <2>2. Phased'
    BY <1>2, <2>1 DEF Phased, Scans, Discovers
  <2>3. Ordered'
    BY <2>1 DEF Ordered, Scans, CurrentIsNewer
  <2> QED BY <2>2, <2>3
<1> QED BY <1>1, <1>2

\* Switching the mode off outdates every lookup and every dialog.
LEMMA OffKeeps ==
    ASSUME TypeOK, Ordered, Phased, ToggleOff
    PROVE  Ordered' /\ Phased'
<1>1. /\ invGen' = invGen + 1 /\ disGen' = disGen + 1
      /\ baselines' = [s \in Sessions |-> 0]
      /\ UNCHANGED <<workers, choices, claim, alive>>
  BY DEF ToggleOff, InvalidateConnectionState, main, editors
<1>2. /\ invGen \in Nat /\ disGen \in Nat
      /\ \A w \in workers : w.gen \in Nat
      /\ \A c \in choices : c.gen \in Nat
      /\ \A s \in Sessions : claim[s].seq \in Nat
  BY DEF TypeOK, Worker, Choice, Record
<1>3. Ordered'
  BY <1>1, <1>2 DEF Ordered, Scans
<1>4. Phased'
  BY <1>1, <1>2 DEF Phased, Scans, Discovers
<1> QED BY <1>3, <1>4

\* A listing reads counters at least as high as the remembered ones.
LEMMA ScanKeeps ==
    ASSUME TypeOK, Ordered, Phased, NEW w \in workers, NEW g \in Targets, Scan(w, g)
    PROVE  Ordered' /\ Phased'
<1>1. PICK u : /\ u.kind = w.kind /\ u.gen = w.gen /\ u.offs = w.offs
               /\ \/ u.seen = w.seen /\ u.listed = w.listed
                  \/ u.seen = Reading(w, g) /\ u.listed = w.listed \cup {g}
               /\ workers' = (workers \ {w}) \cup {u}
  <2>1. PICK v \in Scanned(w, g) :
          workers' = (workers \ {w}) \cup {IF g = Local THEN NextStage(v) ELSE v}
    BY DEF Scan
  <2> DEFINE u == IF g = Local THEN NextStage(v) ELSE v
  <2>2. u \in {v, NextStage(v)}
    OBVIOUS
  <2>3. w \in Worker /\ claim \in [Sessions -> Record]
    BY DEF TypeOK
  <2> HIDE DEF u
  <2>4. /\ u.kind = w.kind /\ u.gen = w.gen /\ u.offs = w.offs
        /\ \/ u.seen = w.seen /\ u.listed = w.listed
           \/ u.seen = Reading(w, g) /\ u.listed = w.listed \cup {g}
    BY <2>2, <2>3, ScanType
  <2>5. workers' = (workers \ {w}) \cup {u}
    BY <2>1 DEF u
  <2> QED BY <2>4, <2>5
<1>2. UNCHANGED <<baselines, claim, alive, invGen, disGen, offs, choices>>
  BY DEF Scan, lists, editors, counters
<1>3. /\ alive \subseteq Sessions /\ \A s \in Sessions : claim[s] # None
      /\ \A s \in Sessions : claim[s].seq \in Nat /\ baselines[s] \in Nat
  BY RecordsAssumption DEF TypeOK, Record
<1>4. \A s \in Sessions : u.seen[s] = w.seen[s] \/ u.seen[s] = claim[s]
  BY <1>1 DEF Reading
<1>5. Phased'
  BY <1>1, <1>2 DEF Phased, Scans, Discovers
<1>6. \A s \in Sessions : u.seen[s] # None => u.seen[s].seq <= claim[s].seq
  BY <1>3, <1>4 DEF Ordered
<1>7. ASSUME Scans(w), w.gen = invGen
      PROVE  CurrentIsNewer(u)
  <2>1. CurrentIsNewer(w)
    BY <1>7 DEF Ordered
  <2>2. \A s \in Sessions : u.seen[s] # None => baselines[s] <= u.seen[s].seq
    BY <1>4, <2>1 DEF Ordered, CurrentIsNewer
  <2>3. ASSUME NEW s \in alive, TargetOf[s] \in u.listed
        PROVE  u.seen[s] # None
    <3>1. CASE TargetOf[s] = g /\ u.seen = Reading(w, g)
      BY <1>3, <3>1 DEF Reading, Listed
    <3>2. CASE TargetOf[s] \in w.listed
      BY <1>3, <1>4, <2>1, <3>2 DEF CurrentIsNewer
    <3> QED BY <1>1, <2>3, <3>1, <3>2
  <2> QED BY <2>2, <2>3 DEF CurrentIsNewer
<1>8. Scans(u) = Scans(w)
  BY <1>1 DEF Scans
<1>9. Ordered'
  <2>1. \A v \in workers', s \in Sessions : v.seen[s] # None => v.seen[s].seq <= claim'[s].seq
    BY <1>1, <1>2, <1>6 DEF Ordered
  <2>2. \A v \in workers' : Scans(v) => v.gen <= invGen'
    BY <1>1, <1>2, <1>8 DEF Ordered
  <2>3. \A v, x \in workers' : Scans(v) /\ Scans(x) /\ v.gen = x.gen => v = x
    BY <1>1, <1>8 DEF Ordered
  <2>4. \A v \in workers' : Scans(v) /\ v.gen = invGen' => CurrentIsNewer(v)'
    BY <1>1, <1>2, <1>7, <1>8 DEF Ordered, CurrentIsNewer
  <2> QED BY <1>2, <2>1, <2>2, <2>3, <2>4 DEF Ordered, Scans
<1> QED BY <1>5, <1>9

\* What the result of a lookup does to the remembered counters: nothing if it is
\* outdated, and otherwise it moves them on to what was read.
LEMMA FinishMoves ==
    ASSUME TypeOK, Ordered, NEW w \in workers, Finish(w)
    PROVE  /\ workers' = workers \ {w}
           /\ UNCHANGED <<claim, alive, invGen, disGen, offs>>
           /\ \A s \in Sessions :
                \/ baselines'[s] = baselines[s]
                \/ baselines'[s] = 0
                \/ w.seen[s] # None /\ baselines'[s] = w.seen[s].seq
           /\ baselines' # baselines => Scans(w) /\ w.gen = invGen
           /\ \A c \in choices' : c \in choices \/ (c.gen = w.gen /\ c.offs = w.offs /\ Scans(w))
           /\ \A s \in alive : TargetOf[s] \in eligible' => baselines[s] <= baselines'[s]
<1>1. workers' = workers \ {w} /\ UNCHANGED <<claim, alive, invGen, disGen, offs>>
  BY DEF Finish, editors, counters
<1>2. /\ alive \subseteq Sessions /\ baselines \in [Sessions -> Nat]
      /\ \A s \in Sessions : w.seen[s] # None => w.seen[s].seq \in Nat
  BY DEF TypeOK, Worker, Record
<1>3. ASSUME Scans(w), w.gen = invGen
      PROVE  CurrentIsNewer(w)
  BY <1>3 DEF Ordered
<1>4. CASE FinishInventory(w)
  <2>1. CASE ~Current(w.gen, None)
    BY <1>1, <1>2, <1>4, <2>1 DEF FinishInventory
  <2>2. CASE Current(w.gen, None)
    <3>1. /\ Scans(w) /\ w.gen = invGen /\ choices' = choices /\ eligible' = w.listed
          /\ baselines' = [s \in Sessions |-> IF w.seen[s] = None THEN 0 ELSE w.seen[s].seq]
      BY <1>4, <2>2 DEF FinishInventory, Current, Scans
    <3>2. \A s \in alive : TargetOf[s] \in eligible' => baselines[s] <= baselines'[s]
      BY <1>2, <1>3, <3>1 DEF CurrentIsNewer
    <3> QED BY <1>1, <3>1, <3>2
  <2> QED BY <2>1, <2>2
<1>5. CASE FinishAutomatic(w)
  <2>1. CASE ~Current(w.gen, w.term)
    BY <1>1, <1>2, <1>5, <2>1 DEF FinishAutomatic
  <2>2. CASE Current(w.gen, w.term)
    <3>1. Scans(w) /\ w.gen = invGen /\ baselines' = NewBaselines(w)
      BY <1>5, <2>2 DEF FinishAutomatic, Current, Scans
    <3>2. \A c \in choices' : c \in choices \/ (c.gen = w.gen /\ c.offs = w.offs)
      <4>1. CASE choices' = choices
        BY <4>1
      <4>2. CASE choices' = choices \cup {[gen |-> w.gen, offs |-> w.offs,
                                          term |-> w.term, among |-> Candidates(w)]}
        BY <4>2
      <4> QED BY <1>5, <2>2, <4>1, <4>2 DEF FinishAutomatic
    <3>3. \A s \in alive : baselines[s] <= baselines'[s]
      BY <1>2, <1>3, <3>1 DEF CurrentIsNewer, NewBaselines
    <3>4. \A s \in Sessions :
            \/ baselines'[s] = baselines[s]
            \/ baselines'[s] = 0
            \/ w.seen[s] # None /\ baselines'[s] = w.seen[s].seq
      BY <3>1 DEF NewBaselines
    <3> QED BY <1>1, <3>1, <3>2, <3>3, <3>4
  <2> QED BY <2>1, <2>2
<1>6. CASE FinishDiscovery(w)
  BY <1>1, <1>2, <1>6 DEF FinishDiscovery
<1> QED BY <1>4, <1>5, <1>6 DEF Finish

\* A result keeps the order of the other lookups: it changes the counters only if it is
\* current, and then no other lookup is.
LEMMA FinishKeeps ==
    ASSUME TypeOK, Ordered, Phased, NEW w \in workers, Finish(w)
    PROVE  Ordered' /\ Phased'
<1> DEFINE Moved ==
      /\ workers' = workers \ {w}
      /\ UNCHANGED <<claim, alive, invGen, disGen, offs>>
      /\ \A s \in Sessions :
           \/ baselines'[s] = baselines[s]
           \/ baselines'[s] = 0
           \/ w.seen[s] # None /\ baselines'[s] = w.seen[s].seq
      /\ baselines' # baselines => Scans(w) /\ w.gen = invGen
      /\ \A c \in choices' : c \in choices \/ (c.gen = w.gen /\ c.offs = w.offs /\ Scans(w))
<1>1. Moved
  BY FinishMoves
<1>2. \A s \in Sessions : claim[s].seq \in Nat
  BY DEF TypeOK, Record
<1>3. Phased'
  BY <1>1 DEF Phased, Scans, Discovers
<1>4. \A s \in Sessions : baselines'[s] <= claim'[s].seq
  BY <1>1, <1>2 DEF Ordered
<1>5. \A v \in workers' : Scans(v) /\ v.gen = invGen' => CurrentIsNewer(v)'
  <2> SUFFICES ASSUME NEW v \in workers', Scans(v), v.gen = invGen'
               PROVE  CurrentIsNewer(v)'
    OBVIOUS
  <2>1. v \in workers /\ v # w /\ v.gen = invGen
    BY <1>1
  <2>2. baselines' = baselines
    BY <1>1, <2>1 DEF Ordered
  <2> QED BY <1>1, <2>1, <2>2 DEF Ordered, CurrentIsNewer
<1>6. Ordered'
  BY <1>1, <1>4, <1>5 DEF Ordered, Scans
<1> QED BY <1>3, <1>6

\* The sessions: counters only rise, and no session comes back.
LEMMA EditorKeeps ==
    ASSUME TypeOK, Ordered, Phased, NEW s \in Sessions, Claim(s) \/ Age(s) \/ Quit(s)
    PROVE  Ordered' /\ Phased'
<1>1. UNCHANGED <<workers, baselines, invGen, disGen, offs, choices>>
  BY DEF Claim, Age, Quit, main, lists, counters
<1>2. \A r \in Sessions : claim[r].seq \in Nat /\ baselines[r] \in Nat
  BY DEF TypeOK, Record
<1>3. alive' \subseteq alive
  BY DEF Claim, Age, Quit
<1>4. \A r \in Sessions : claim'[r].seq = claim[r].seq \/ claim'[r].seq = claim[r].seq + 1
  <2> claim \in [Sessions -> Record]
    BY DEF TypeOK
  <2>1. CASE Claim(s)
    BY <2>1 DEF Claim
  <2>2. CASE Age(s)
    BY <2>2 DEF Age, Record
  <2>3. CASE Quit(s)
    BY <2>3 DEF Quit
  <2> QED BY <2>1, <2>2, <2>3
<1>5. \A r \in Sessions : claim[r].seq <= claim'[r].seq /\ claim'[r].seq \in Nat
  BY <1>2, <1>4
<1>6. Phased'
  BY <1>1 DEF Phased
<1>7. \A r \in Sessions : baselines'[r] <= claim'[r].seq
  BY <1>1, <1>2, <1>5 DEF Ordered
<1>8. \A w \in workers', r \in Sessions : w.seen[r] # None => w.seen[r].seq <= claim'[r].seq
  <2> SUFFICES ASSUME NEW w \in workers, NEW r \in Sessions, w.seen[r] # None
               PROVE  w.seen[r].seq <= claim'[r].seq
    BY <1>1
  <2>1. w.seen[r].seq \in Nat
    BY DEF TypeOK, Worker, Record
  <2> QED BY <1>2, <1>5, <2>1 DEF Ordered
<1>9. Ordered'
  BY <1>1, <1>3, <1>7, <1>8 DEF Ordered, CurrentIsNewer
<1> QED BY <1>6, <1>9

\* Every step keeps the invariant.
LEMMA IInvNext == IInv /\ [Next]_vars => IInv'
<1> SUFFICES ASSUME IInv, [Next]_vars PROVE IInv'
  OBVIOUS
<1> TypeOK /\ Ordered /\ Phased /\ Sound /\ Sound'
  BY SoundNext DEF IInv, Sound
<1>a. /\ invGen \in Nat /\ disGen \in Nat
      /\ (\A w \in workers : w.gen \in Nat) /\ (\A c \in choices : c.gen \in Nat)
  BY DEF TypeOK, Worker, Choice
<1>1. ASSUME BeginInventory, UNCHANGED <<disGen, baselines, claim, alive, offs, choices>>
      PROVE  Ordered' /\ Phased'
  <2> DEFINE new == Lookup("inventory", invGen + 1, None, 0, Targets, {})
  <2>1. /\ new.kind = "inventory" /\ new.gen = invGen + 1 /\ new.offs = offs
        /\ new.listed = {} /\ \A s \in Sessions : new.seen[s] = None
    BY LookupFields
  <2>2. workers' = workers \cup {new} /\ invGen' = invGen + 1
    BY <1>1 DEF BeginInventory
  <2>3. Scans(new)
    BY <2>1 DEF Scans
  <2> HIDE DEF new
  <2> QED BY <1>a, <1>1, <2>1, <2>2, <2>3, BeginKeeps
<1>2. CASE ToggleOn \/ ConnectionsChanged
  BY <1>1, <1>2 DEF ToggleOn, ConnectionsChanged, editors, IInv, connections
<1>3. ASSUME NEW c \in calls, DelayedCall(c)
      PROVE  Ordered' /\ Phased'
  <2>0. UNCHANGED <<baselines, claim, alive, offs, choices>>
    BY <1>3 DEF DelayedCall, editors, counters
  <2>1. CASE BeginAutomatic(c)
    <3> DEFINE new == Lookup("automatic", invGen + 1, c.term, c.notBefore, {Local},
                             eligible \cap Profiles)
    <3>1. /\ new.kind = "automatic" /\ new.gen = invGen + 1 /\ new.offs = offs
          /\ new.listed = {} /\ \A s \in Sessions : new.seen[s] = None
      BY LookupFields
    <3>2. workers' = workers \cup {new} /\ invGen' = invGen + 1 /\ disGen' = disGen
      BY <2>1 DEF BeginAutomatic
    <3>3. Scans(new)
      BY <3>1 DEF Scans
    <3> HIDE DEF new
    <3> QED BY <1>a, <2>0, <3>1, <3>2, <3>3, BeginKeeps
  <2>2. CASE BeginLocal(c)
    <3> DEFINE new == Lookup("local", disGen + 1, c.term, c.notBefore, {Local}, {})
    <3>1. /\ new.kind = "local" /\ new.gen = disGen + 1 /\ new.offs = offs
          /\ new.listed = {} /\ \A s \in Sessions : new.seen[s] = None
      BY LookupFields
    <3>2. workers' = workers \cup {new} /\ disGen' = disGen + 1 /\ invGen' = invGen
      BY <2>2 DEF BeginLocal
    <3>3. Discovers(new)
      BY <3>1 DEF Discovers
    <3> HIDE DEF new
    <3> QED BY <1>a, <2>0, <3>1, <3>2, <3>3, BeginKeeps
  <2>3. CASE BeginRemote(c) /\ focused = c.term
    <3> DEFINE new == Lookup("remote", disGen + 1, c.term, 0, {c.target}, {})
    <3>1. /\ new.kind = "remote" /\ new.gen = disGen + 1 /\ new.offs = offs
          /\ new.listed = {} /\ \A s \in Sessions : new.seen[s] = None
      BY LookupFields
    <3>2. workers' = workers \cup {new} /\ disGen' = disGen + 1 /\ invGen' = invGen
      BY <2>3 DEF BeginRemote
    <3>3. Discovers(new)
      BY <3>1 DEF Discovers
    <3> HIDE DEF new
    <3> QED BY <1>a, <2>0, <3>1, <3>2, <3>3, BeginKeeps
  <2>4. CASE BeginRemote(c) /\ focused # c.term
    <3>1. UNCHANGED <<workers, baselines, claim, alive, invGen, disGen, offs, choices>>
      BY <2>0, <2>4 DEF BeginRemote
    <3> QED BY <3>1, IdleKeeps
  <2> QED BY <1>3, <2>1, <2>2, <2>3, <2>4 DEF DelayedCall
<1>4. ASSUME NEW c \in choices, CloseChoice(c)
      PROVE  Ordered' /\ Phased'
  BY <1>4, IdleKeeps DEF CloseChoice, lists, editors, counters
<1>5. ASSUME \/ \E x \in Terminals \cup {None} : Focus(x)
             \/ \E t \in Terminals, g \in Targets : SetPendingTarget(t, g)
             \/ \E t \in Terminals : Press(t) \/ DisconnectConnection(t)
             \/ HandleClaim
             \/ \E i \in Instances : Authenticate(i) \/ Lose(i)
             \/ UNCHANGED vars
      PROVE  Ordered' /\ Phased'
  <2>1. UNCHANGED <<workers, baselines, claim, alive, invGen, disGen, offs, choices>>
    BY <1>5 DEF Focus, SetPendingTarget, Press, DisconnectConnection, HandleClaim,
                Authenticate, Lose, vars, lists, main, editors, counters
  <2> QED BY <2>1, IdleKeeps
<1> QED
  BY <1>2, <1>3, <1>4, <1>5, OffKeeps, ScanKeeps, FinishKeeps, EditorKeeps DEF Next, IInv

-----------------------------------------------------------------------------
(* Theorems *)

\* The invariant from which the theorems below follow.
THEOREM Invariance == Spec => []IInv
<1>1. Init => IInv
  BY IInvInit
<1>2. IInv /\ [Next]_vars => IInv'
  BY IInvNext
<1> QED BY <1>1, <1>2, PTL DEF Spec

\* The types hold for any number of terminals, sessions, profiles and presses.
THEOREM TypeCorrect == Spec => []TypeOK
<1>1. IInv => TypeOK
  BY DEF IInv, Sound
<1> QED BY <1>1, Invariance, PTL

\* A session has at most one connection, and no table names an instance that is gone.
THEOREM OneConnection == Spec => []OneConnectionPerSession
<1>1. IInv => OneConnectionPerSession
  BY DEF IInv, Sound
<1> QED BY <1>1, Invariance, PTL

\* No result, in whatever order results arrive, takes a remembered counter back.
THEOREM NeverBack == Spec => BaselinesNeverGoBack
<1> DEFINE Step == manual' => \A s \in alive' :
                     TargetOf[s] \in eligible' => baselines'[s] >= baselines[s]
<1>1. IInv /\ IInv' /\ [Next]_vars => [Step]_vars
  <2> SUFFICES ASSUME IInv, IInv', [Next]_vars, manual'
               PROVE  \A s \in alive' : baselines'[s] >= baselines[s] \/
                                        TargetOf[s] \notin eligible'
    OBVIOUS
  <2>0. /\ TypeOK /\ Ordered /\ alive' \subseteq Sessions
        /\ \A s \in Sessions : baselines[s] \in Nat /\ baselines'[s] \in Nat
    BY DEF IInv, Sound, TypeOK
  <2>1. ASSUME baselines' = baselines
        PROVE  \A s \in alive' : baselines'[s] >= baselines[s]
    BY <2>0, <2>1
  <2>2. ASSUME NEW w \in workers, Finish(w)
        PROVE  \A s \in alive' : TargetOf[s] \in eligible' => baselines'[s] >= baselines[s]
    <3>1. /\ alive' = alive
          /\ \A s \in alive : TargetOf[s] \in eligible' => baselines[s] <= baselines'[s]
      BY <2>0, <2>2, FinishMoves
    <3> QED BY <2>0, <3>1
  <2>3. CASE ToggleOff
    BY <2>3 DEF ToggleOff
  <2>4. CASE \/ ToggleOn \/ ConnectionsChanged \/ HandleClaim \/ UNCHANGED vars
             \/ \E x \in Terminals \cup {None} : Focus(x)
             \/ \E t \in Terminals, g \in Targets : SetPendingTarget(t, g)
             \/ \E t \in Terminals : Press(t) \/ DisconnectConnection(t)
             \/ \E c \in calls : DelayedCall(c)
             \/ \E w \in workers, g \in Targets : Scan(w, g)
             \/ \E c \in choices : CloseChoice(c)
             \/ \E i \in Instances : Authenticate(i) \/ Lose(i)
             \/ \E s \in Sessions : Claim(s) \/ Age(s) \/ Quit(s)
    <3>1. baselines' = baselines
      BY <2>4 DEF ToggleOn, ConnectionsChanged, HandleClaim, Focus, SetPendingTarget, Press,
                  DisconnectConnection, DelayedCall, Scan, CloseChoice, Authenticate, Lose,
                  Claim, Age, Quit, vars, lists
    <3> QED BY <2>1, <3>1
  <2> QED BY <2>2, <2>3, <2>4 DEF Next
<1>2. Spec => [][Next]_vars
  BY DEF Spec
<1> QED BY <1>1, <1>2, Invariance, PTL DEF BaselinesNeverGoBack

\* The terminal a connection is made for is the only one that gains one.
LEMMA ConnectBinds ==
    ASSUME ConnType, NEW u, NEW s, Connect(u, s), NEW t \in Terminals,
           bind'[t] # bind[t], bind'[t] # None
    PROVE  t = u
BY DEF Connect, Reuse, Start, ConnType, connections

\* A terminal is connected only while focused, in a mode that was not switched off
\* since the lookup or the dialog began.
THEOREM WhereAsked == Spec => ConnectsWhereAsked
<1> DEFINE Gains(t) == bind'[t] # bind[t] /\ bind'[t] # None
           Asked(t) == /\ manual /\ focused = t
                       /\ \E w \in (workers \ workers') \cup (choices \ choices') :
                            w.term = t /\ w.offs = offs
<1>1. IInv /\ [Next]_vars => [\A t \in Terminals : Gains(t) => Asked(t)]_vars
  <2> SUFFICES ASSUME IInv, [Next]_vars, NEW t \in Terminals, Gains(t)
               PROVE  Asked(t)
    OBVIOUS
  <2>0. TypeOK /\ Phased /\ ConnType /\ t # None
    BY NoneAssumption DEF IInv, Sound, TypeOK, ConnType
  <2>1. ASSUME NEW w \in workers, Finish(w)
        PROVE  Asked(t)
    <3>1. ~UNCHANGED connections
      BY DEF connections
    <3>2. ~FinishInventory(w)
      BY <3>1 DEF FinishInventory
    <3>3. w.kind # "inventory"
      BY <2>1, <3>2 DEF Finish, FinishAutomatic, FinishDiscovery
    <3>4. w.term # None
      BY <2>0, <3>3, NoneAssumption DEF TypeOK
    <3>5. w \in workers \ workers'
      BY <2>1 DEF Finish
    <3>6. CASE FinishAutomatic(w)
      <4>1. Current(w.gen, w.term) /\ \E s \in Sessions : Connect(w.term, s)
        BY <3>1, <3>6 DEF FinishAutomatic
      <4>2. w.term = t
        BY <2>0, <4>1, ConnectBinds
      <4>3. w.offs = offs
        BY <2>0, <3>6, <4>1 DEF FinishAutomatic, Current, Phased, Scans
      <4> QED BY <3>4, <3>5, <4>1, <4>2, <4>3 DEF Current
    <3>7. CASE FinishDiscovery(w)
      <4>1. DiscoveryCurrent(w.gen, w.term) /\ \E s \in Latest(w) : Connect(w.term, s)
        BY <3>1, <3>7 DEF FinishDiscovery
      <4>2. w.term = t
        BY <2>0, <4>1, ConnectBinds
      <4>3. w.offs = offs
        BY <2>0, <3>7, <4>1 DEF FinishDiscovery, DiscoveryCurrent, Phased, Discovers
      <4> QED BY <3>5, <4>1, <4>2, <4>3 DEF DiscoveryCurrent
    <3> QED BY <2>1, <3>2, <3>6, <3>7 DEF Finish
  <2>2. ASSUME NEW c \in choices, CloseChoice(c)
        PROVE  Asked(t)
    <3>1. Current(c.gen, c.term) /\ \E s \in c.among : Connect(c.term, s)
      BY <2>2 DEF CloseChoice, connections
    <3>2. c.term = t
      BY <2>0, <3>1, ConnectBinds
    <3>3. c.offs = offs /\ c \in choices \ choices'
      BY <2>0, <2>2, <3>1 DEF CloseChoice, Current, Phased
    <3> QED BY <2>0, <3>1, <3>2, <3>3 DEF Current
  <2>3. CASE ToggleOff
    BY <2>3 DEF ToggleOff
  <2>4. ASSUME NEW u \in Terminals, DisconnectConnection(u)
        PROVE  Asked(t)
    BY <2>0, <2>4 DEF DisconnectConnection, ConnType
  <2>5. CASE \/ ToggleOn \/ ConnectionsChanged \/ HandleClaim \/ UNCHANGED vars
             \/ \E x \in Terminals \cup {None} : Focus(x)
             \/ \E u \in Terminals, g \in Targets : SetPendingTarget(u, g)
             \/ \E u \in Terminals : Press(u)
             \/ \E c \in calls : DelayedCall(c)
             \/ \E w \in workers, g \in Targets : Scan(w, g)
             \/ \E i \in Instances : Authenticate(i) \/ Lose(i)
             \/ \E s \in Sessions : Claim(s) \/ Age(s) \/ Quit(s)
    <3>1. bind' = bind
      BY <2>5 DEF ToggleOn, ConnectionsChanged, HandleClaim, Focus, SetPendingTarget, Press,
                  DelayedCall, Scan, Authenticate, Lose, Claim, Age, Quit, vars, connections
    <3> QED BY <3>1
  <2> QED BY <2>1, <2>2, <2>3, <2>4, <2>5 DEF Next
<1>2. Spec => [][Next]_vars
  BY DEF Spec
<1> QED BY <1>1, <1>2, Invariance, PTL DEF ConnectsWhereAsked
-----------------------------------------------------------------------------
(* SessionClaims implements Pairing. *)

PairsStep == Pairs!Next \/ UNCHANGED Pairs!vars

\* The instances that have a session.
Live == {i \in Instances : inst[i] # None}

LEMMA NoneNoInstance == None \notin Instances
BY NoneAssumption DEF Instances

\* A claimed session is moved to the terminal, or a new connection takes the place of
\* the one the terminal had; no other terminal and no other session is touched.
LEMMA ConnectPairs ==
    ASSUME Sound, NEW t \in Terminals, NEW s \in Sessions, Connect(t, s),
           manual, focused = t, UNCHANGED gate
    PROVE  PairsStep
<1> ConnType /\ OneConnectionPerSession /\ s # None
  BY NoneAssumption DEF Sound, TypeOK, ConnType
<1> manual' = manual /\ focused' = focused
  BY DEF gate
<1>1. CASE Reuse(t, s)
  <2>1. PICK i \in Instances :
           /\ inst[i] = s
           /\ bind' = [u \in Terminals |->
                         IF u = t THEN i ELSE IF bind[u] = i THEN None ELSE bind[u]]
           /\ UNCHANGED <<inst, auth>>
    BY <1>1 DEF Reuse
  <2>2. bind' = [Pairs!Freed(i) EXCEPT ![t] = i]
    BY <2>1 DEF Pairs!Freed
  <2>3. Pairs!Move(t, i)
    BY <2>1, <2>2 DEF Pairs!Move
  <2> QED BY <2>3 DEF PairsStep, Pairs!Next
<1>2. CASE Start(t, s)
  <2>1. PICK i \in Instances :
           /\ inst[i] = None
           /\ inst' = [j \in Instances |->
                         IF j = i THEN s ELSE IF j \in Replaced(t) THEN None ELSE inst[j]]
           /\ bind' = [u \in Terminals |->
                         IF u = t THEN i ELSE IF bind[u] \in Replaced(t) THEN None ELSE bind[u]]
           /\ auth' = auth \ Replaced(t)
    BY <1>2 DEF Start
  <2>2. i # bind[t]
    BY <2>1, NoneNoInstance DEF OneConnectionPerSession
  <2>3. \A j \in Instances : j \in Replaced(t) <=> j = bind[t]
    BY NoneNoInstance DEF Replaced
  <2>4. bind' = [Pairs!Freed(bind[t]) EXCEPT ![t] = i]
    <3>1. \A u \in Terminals : (IF bind[u] \in Replaced(t) THEN None ELSE bind[u])
                               = (IF bind[u] = bind[t] THEN None ELSE bind[u])
      BY <2>3 DEF ConnType, Replaced
    <3> QED BY <2>1, <3>1 DEF Pairs!Freed
  <2>5. Live' = (Live \cup {i}) \ {bind[t]}
    BY <2>1, <2>2, <2>3 DEF Live
  <2>6. auth' = auth \ {bind[t]}
    BY <2>1, <2>3 DEF ConnType
  <2>7. Pairs!Start(t, i)
    BY <2>1, <2>4, <2>5, <2>6 DEF Pairs!Start, Pairs!Ends, Live
  <2> QED BY <2>7 DEF PairsStep, Pairs!Next
<1>3. CASE UNCHANGED connections
  BY <1>3 DEF connections, PairsStep, Pairs!vars
<1> QED BY <1>1, <1>2, <1>3 DEF Connect

\* A result that arrives, or a dialog that closes, connects where it is current.
LEMMA ResultPairs ==
    ASSUME Sound, \/ \E w \in workers : Finish(w)
                  \/ \E c \in choices : CloseChoice(c)
    PROVE  PairsStep
<1> TypeOK
  BY DEF Sound
<1>1. UNCHANGED gate
  BY DEF Finish, CloseChoice
<1>2. CASE UNCHANGED connections
  BY <1>1, <1>2 DEF gate, connections, PairsStep, Pairs!vars
<1>3. ASSUME NEW w \in workers, Finish(w), ~UNCHANGED connections
      PROVE  PairsStep
  <2>1. w.kind # "inventory" /\ w.term \in Terminals /\ w.term # None
    BY <1>3, NoneAssumption DEF Finish, FinishInventory, FinishAutomatic, FinishDiscovery, TypeOK
  <2>2. manual /\ focused = w.term /\ \E s \in Sessions : Connect(w.term, s)
    BY <1>3, <2>1 DEF Finish, FinishInventory, FinishAutomatic, FinishDiscovery, Current,
       DiscoveryCurrent, Latest, Claimed
  <2> QED BY <1>1, <2>1, <2>2, ConnectPairs
<1>4. ASSUME NEW c \in choices, CloseChoice(c), ~UNCHANGED connections
      PROVE  PairsStep
  <2>1. c.term \in Terminals /\ c.term # None /\ c.among \subseteq Sessions
    BY NoneAssumption DEF TypeOK, Choice
  <2>2. manual /\ focused = c.term /\ \E s \in Sessions : Connect(c.term, s)
    BY <1>4, <2>1 DEF CloseChoice, Current
  <2> QED BY <1>1, <2>1, <2>2, ConnectPairs
<1> QED BY <1>2, <1>3, <1>4

\* Every step is one of Pairing, or leaves mode, focus and tables alone.
LEMMA NextPairs ==
    ASSUME Sound, [Next]_vars
    PROVE  PairsStep
<1> TypeOK /\ ConnType /\ OneConnectionPerSession
  BY DEF Sound, TypeOK, ConnType
<1>1. ASSUME NEW x \in Terminals \cup {None}, Focus(x)
      PROVE  PairsStep
  <2>1. Pairs!MoveFocus(x)
    BY <1>1 DEF Focus, connections, Pairs!MoveFocus
  <2> QED BY <2>1 DEF PairsStep, Pairs!Next
<1>2. CASE ToggleOn
  <2>1. Pairs!TurnOn
    BY <1>2 DEF ToggleOn, connections, Pairs!TurnOn
  <2> QED BY <2>1 DEF PairsStep, Pairs!Next
<1>3. CASE ToggleOff
  <2>1. Live' = {}
    BY <1>3 DEF ToggleOff, Live
  <2>2. Pairs!TurnOff
    BY <1>3, <2>1 DEF ToggleOff, Live, Pairs!TurnOff
  <2> QED BY <2>2 DEF PairsStep, Pairs!Next
<1>4. ASSUME NEW t \in Terminals, DisconnectConnection(t)
      PROVE  PairsStep
  <2>1. bind[t] \in Instances /\ inst' = [inst EXCEPT ![bind[t]] = None]
    BY <1>4 DEF DisconnectConnection, ConnType
  <2>2. Live' = Live \ {bind[t]}
    BY <2>1 DEF Live, ConnType
  <2>3. Pairs!End(t)
    BY <1>4, <2>2 DEF DisconnectConnection, gate, Live, Pairs!End, Pairs!Ends, Pairs!Freed
  <2> QED BY <2>3 DEF PairsStep, Pairs!Next
<1>5. ASSUME NEW i \in Instances, Authenticate(i)
      PROVE  PairsStep
  <2>1. Pairs!Hear(i)
    BY <1>5 DEF Authenticate, gate, Pairs!Hear
  <2> QED BY <2>1 DEF PairsStep, Pairs!Next
<1>6. ASSUME NEW i \in Instances, Lose(i)
      PROVE  PairsStep
  <2>1. Pairs!Unhear(i)
    BY <1>6 DEF Lose, gate, Pairs!Unhear
  <2> QED BY <2>1 DEF PairsStep, Pairs!Next
<1>7. CASE \/ ConnectionsChanged \/ HandleClaim \/ UNCHANGED vars
           \/ \E t \in Terminals, g \in Targets : SetPendingTarget(t, g)
           \/ \E t \in Terminals : Press(t)
           \/ \E c \in calls : DelayedCall(c)
           \/ \E w \in workers, g \in Targets : Scan(w, g)
           \/ \E s \in Sessions : Claim(s) \/ Age(s) \/ Quit(s)
  <2>1. UNCHANGED <<gate, connections>>
    BY <1>7 DEF ConnectionsChanged, HandleClaim, SetPendingTarget, Press, DelayedCall, Scan,
       Claim, Age, Quit, vars
  <2> QED BY <2>1 DEF gate, connections, PairsStep, Pairs!vars
<1> QED BY <1>1, <1>2, <1>3, <1>4, <1>5, <1>6, <1>7, ResultPairs DEF Next

\* The tables of SessionClaims are those of the gate: both change as Pairing says.
THEOREM ClaimsKeepPairing == Spec => KeepsPairing
<1>1. Init => Pairs!Init
  BY DEF Init, Pairs!Init
<1>2. IInv /\ [Next]_vars => [Pairs!Next]_(Pairs!vars)
  BY NextPairs DEF IInv, PairsStep
<1> QED BY <1>1, <1>2, Invariance, PTL DEF Spec, KeepsPairing, Pairs!Spec
=============================================================================
