---------------------------- MODULE SessionClaims ----------------------------
(***************************************************************************)
(* How a press of F12 finds the Neovim session that saw it: the            *)
(* SessionClaimService with the handlers of the global plugin and of the   *)
(* Windows Terminal app module that drive it.                              *)
(*                                                                         *)
(* One press is observed twice.  NVDA authorizes it for the focused        *)
(* terminal and lets it pass; the plugin of the Neovim in that terminal    *)
(* adds one to the claim counter in its registry record.  Some time later  *)
(* the add-on reads the records again, on a worker thread, and takes the   *)
(* session whose counter moved: against the counters of an inventory made  *)
(* when the mode was switched on (automatic), or by the time of its last   *)
(* claim (a terminal paired before, or a target picked by hand).           *)
(*                                                                         *)
(* Actors: the main thread (gestures, queued callbacks, delayed calls,     *)
(* dialogs), one worker thread per lookup, and the Neovim sessions.        *)
(* A worker that has nothing left to scan stands for its result in NVDA's  *)
(* event queue; results are handled in any order.                          *)
(***************************************************************************)
EXTENDS Integers, Sequences, FiniteSets

CONSTANTS
    Terminals,      \* Windows Terminal identities
    Sessions,       \* Neovim sessions that register themselves
    Local,          \* the target "this computer"
    Profiles,       \* ssh targets that need no password
    TargetOf,       \* the target that lists a session
    Home,           \* the terminal that shows a session
    MaxPresses,     \* bound on presses of F12
    MaxInventories, \* bound on inventories
    MaxPicks,       \* bound on targets picked by hand
    None

Targets == {Local} \cup Profiles
ASSUME TargetsAssumption == Local \notin Profiles /\ None \notin Targets
ASSUME SessionsAssumption ==
    /\ TargetOf \in [Sessions -> Targets]
    /\ Home \in [Sessions -> Terminals]
    /\ IsFiniteSet(Sessions)
ASSUME NoneAssumption == None \notin Terminals \cup Sessions \cup Nat
ASSUME BoundsAssumption ==
    MaxPresses \in Nat /\ MaxInventories \in Nat /\ MaxPicks \in Nat

\* More than the connections alive at once: a new one starts before the old stops.
Instances == 1 .. Cardinality(Sessions) + 1

VARIABLES
    \* SessionGate
    manual, focused,
    \* SessionClaimService
    observed, pendingTarget, ready, baselines, eligible, invGen, disGen,
    \* authorized gestures in the event queue, delayed calls, lookups, dialogs
    handlers, calls, workers, choices,
    \* connections: the session of an instance, bindings, authentication
    inst, bind, auth,
    \* the sessions' registry records, the keys on their way, a common clock
    alive, claim, keys, clock,
    \* counters of the bounds, and how often the mode was switched off
    presses, inventories, picks, offs

gate == <<manual, focused>>
lists == <<ready, baselines, eligible, invGen, disGen>>
main == <<handlers, calls, workers, choices>>
connections == <<inst, bind, auth>>
editors == <<alive, claim, keys, clock>>
counters == <<presses, inventories, picks, offs>>
vars == <<gate, observed, pendingTarget, lists, main, connections, editors, counters>>

Gesture == [term : Terminals, gen : Nat]
Record == [seq : Nat, at : Nat, recent : BOOLEAN]
Call == [kind : {"automatic", "local", "remote"}, term : Terminals,
         target : Targets, notBefore : Nat]
Worker == [kind : {"inventory", "automatic", "local", "remote"},
           gen : Nat, offs : Nat, term : Terminals \cup {None}, notBefore : Nat,
           base : [Sessions -> Nat], todo : SUBSET Targets, rest : SUBSET Profiles,
           seen : [Sessions -> Record \cup {None}], listed : SUBSET Targets]
Choice == [gen : Nat, offs : Nat, term : Terminals, among : SUBSET Sessions]
ASSUME RecordsAssumption == None \notin Record /\ None \notin Gesture

Init ==
    /\ manual = FALSE /\ focused = None
    /\ observed = None /\ pendingTarget = [t \in Terminals |-> None]
    /\ ready = FALSE /\ baselines = [s \in Sessions |-> 0] /\ eligible = {}
    /\ invGen = 0 /\ disGen = 0
    /\ handlers = <<>> /\ calls = {} /\ workers = {} /\ choices = {}
    /\ inst = [i \in Instances |-> None] /\ bind = [t \in Terminals |-> None]
    /\ auth = {}
    /\ alive = Sessions
    /\ claim = [s \in Sessions |-> [seq |-> 0, at |-> 0, recent |-> FALSE]]
    /\ keys = [s \in Sessions |-> 0] /\ clock = 0
    /\ presses = 0 /\ inventories = 0 /\ picks = 0 /\ offs = 0

-----------------------------------------------------------------------------
(* Mode and focus *)

Focus(x) ==
    /\ x \in Terminals \cup {None} /\ x # focused
    /\ focused' = x
    /\ UNCHANGED <<manual, observed, pendingTarget, lists, main, connections, editors,
                   counters>>

Lookup(kind, gen, t, notBefore, todo, rest) ==
    [kind |-> kind, gen |-> gen, offs |-> offs, term |-> t,
     notBefore |-> notBefore, todo |-> todo, rest |-> rest,
     base |-> IF kind = "automatic" THEN baselines ELSE [s \in Sessions |-> 0],
     seen |-> [s \in Sessions |-> None], listed |-> {}]

BeginInventory ==
    /\ inventories < MaxInventories
    /\ inventories' = inventories + 1
    /\ invGen' = invGen + 1
    /\ ready' = FALSE
    /\ workers' = workers \cup
                    {Lookup("inventory", invGen + 1, None, 0, Targets, {})}

ToggleOn ==
    /\ ~manual /\ focused # None
    /\ manual' = TRUE
    /\ BeginInventory
    /\ UNCHANGED <<focused, observed, pendingTarget, baselines, eligible, disGen, handlers,
                   calls, choices, connections, editors, presses, picks, offs>>

\* The saved connections were edited while the mode is on.
ConnectionsChanged ==
    /\ manual
    /\ BeginInventory
    /\ UNCHANGED <<gate, observed, pendingTarget, baselines, eligible, disGen, handlers,
                   calls, choices, connections, editors, presses, picks, offs>>

\* Mutant: switching the mode off leaves the session listings under way current.
InvalidateInventoriesOnly ==
    /\ pendingTarget' = [t \in Terminals |-> None]
    /\ observed' = None
    /\ invGen' = invGen + 1
    /\ ready' = FALSE
    /\ baselines' = [s \in Sessions |-> 0]
    /\ eligible' = {}
    /\ UNCHANGED disGen

InvalidateConnectionState ==
    /\ pendingTarget' = [t \in Terminals |-> None]
    /\ observed' = None
    /\ disGen' = disGen + 1
    /\ invGen' = invGen + 1
    /\ ready' = FALSE
    /\ baselines' = [s \in Sessions |-> 0]
    /\ eligible' = {}

ToggleOff ==
    /\ manual
    /\ manual' = FALSE
    /\ InvalidateConnectionState
    /\ inst' = [i \in Instances |-> None]
    /\ bind' = [t \in Terminals |-> None]
    /\ auth' = {}
    /\ offs' = offs + 1
    /\ UNCHANGED <<focused, main, editors, presses, inventories, picks>>

\* The user picks where the next press in a terminal is to look.
SetPendingTarget(t, g) ==
    /\ manual /\ focused = t
    /\ picks < MaxPicks
    /\ picks' = picks + 1
    /\ pendingTarget' = [pendingTarget EXCEPT ![t] = g]
    /\ UNCHANGED <<gate, observed, lists, main, connections, editors, presses, inventories,
                   offs>>

-----------------------------------------------------------------------------
(* The press *)

Authorized(t) ==
    /\ manual /\ focused = t
    /\ ready \/ pendingTarget[t] # None \/ bind[t] # None

\* NVDA decides on the gesture before the key goes on to the focused Neovim.
Press(t) ==
    /\ focused = t
    /\ presses < MaxPresses
    /\ presses' = presses + 1
    /\ IF Authorized(t)
         THEN /\ observed' = [term |-> t, gen |-> presses']
              /\ handlers' = Append(handlers, observed')
         ELSE UNCHANGED <<observed, handlers>>
    /\ \/ UNCHANGED keys       \* no Neovim there, or one in a Replace mode
       \/ \E s \in alive : Home[s] = t /\ keys' = [keys EXCEPT ![s] = @ + 1]
    /\ UNCHANGED <<gate, pendingTarget, lists, calls, workers, choices, connections, alive,
                   claim, clock, inventories, picks, offs>>

\* The instance of the terminal, if it is authenticated.
PairedTarget(t) ==
    IF bind[t] # None /\ bind[t] \in auth THEN TargetOf[inst[bind[t]]] ELSE None

\* The target of the explicit routes; None asks for the automatic one.  A local
\* pairing counts as a pending target, a remote one comes after it.
RouteTarget(t) == IF pendingTarget[t] # None THEN pendingTarget[t] ELSE PairedTarget(t)

ConsumeTransition(h) ==
    LET t == h.term
        g == RouteTarget(t)
        kind == IF g = None THEN "automatic" ELSE IF g = Local THEN "local" ELSE "remote"
    IN  /\ pendingTarget' = [pendingTarget EXCEPT ![t] = None]
        /\ IF g = None /\ ~ready
             THEN UNCHANGED <<calls, clock>>
             ELSE /\ clock' = clock + 1
                  /\ calls' = calls \cup
                       {[kind |-> kind, term |-> t, target |-> IF g = None THEN Local ELSE g,
                         notBefore |-> clock']}

\* The queued handler: it gives up if the focus moved or a newer press came.
HandleClaim ==
    /\ handlers # <<>>
    /\ handlers' = Tail(handlers)
    /\ LET h == Head(handlers)
       IN  IF observed = h
             THEN /\ observed' = None
                  /\ IF manual /\ focused = h.term
                       THEN ConsumeTransition(h)
                       ELSE UNCHANGED <<pendingTarget, calls, clock>>
             ELSE UNCHANGED <<observed, pendingTarget, calls, clock>>
    /\ UNCHANGED <<gate, lists, workers, choices, connections, alive, claim, keys, counters>>

BeginAutomatic(c) ==
    /\ c.kind = "automatic"
    /\ invGen' = invGen + 1
    /\ workers' = workers \cup {Lookup("automatic", invGen + 1, c.term, c.notBefore,
                                       {Local}, eligible \cap Profiles)}
    /\ UNCHANGED disGen

BeginLocal(c) ==
    /\ c.kind = "local"
    /\ disGen' = disGen + 1
    /\ workers' = workers \cup {Lookup("local", disGen + 1, c.term, c.notBefore,
                                       {Local}, {})}
    /\ UNCHANGED invGen

\* Only this route looks at the focus before it starts.
BeginRemote(c) ==
    /\ c.kind = "remote"
    /\ IF focused = c.term
         THEN /\ disGen' = disGen + 1
              /\ workers' = workers \cup {Lookup("remote", disGen + 1, c.term, 0,
                                                 {c.target}, {})}
         ELSE UNCHANGED <<disGen, workers>>
    /\ UNCHANGED invGen

DelayedCall(c) ==
    /\ calls' = calls \ {c}
    /\ BeginAutomatic(c) \/ BeginLocal(c) \/ BeginRemote(c)
    /\ UNCHANGED <<gate, observed, pendingTarget, ready, baselines, eligible, handlers,
                   choices, connections, editors, counters>>

-----------------------------------------------------------------------------
(* Worker threads *)

Listed(g) == {s \in alive : TargetOf[s] = g}
Reading(w, g) ==
    [s \in Sessions |-> IF s \in Listed(g) THEN claim[s] ELSE w.seen[s]]

FreshLocal(w, s, r) ==
    TargetOf[s] = Local /\ w.notBefore > 0 /\ r.recent /\ r.at >= w.notBefore
Increased(w, s, r, base) == r # None /\ (r.seq > base[s] \/ FreshLocal(w, s, r))

\* One target is listed, or its listing fails.
Scanned(w, g) ==
    { [w EXCEPT !.todo = @ \ {g}, !.seen = Reading(w, g), !.listed = @ \cup {g}],
      [w EXCEPT !.todo = @ \ {g}] }

\* An automatic lookup waits for the local registry first; without a change there
\* it goes on to the ssh targets and forgets the time of the press.
NextStage(w) ==
    IF \/ w.kind # "automatic"
       \/ \E s \in Listed(Local) : Increased(w, s, w.seen[s], w.base)
    THEN w
    ELSE [w EXCEPT !.todo = w.rest, !.rest = {}, !.notBefore = 0]

Scan(w, g) ==
    /\ g \in w.todo
    /\ \E v \in Scanned(w, g) :
         workers' = (workers \ {w}) \cup {IF g = Local THEN NextStage(v) ELSE v}
    /\ UNCHANGED <<gate, observed, pendingTarget, lists, handlers, calls, choices, connections,
                   editors, counters>>

-----------------------------------------------------------------------------
(* Connections *)

Replaced(t) == IF bind[t] = None THEN {} ELSE {bind[t]}

\* Mutant: a session that is moved stays in its former terminal too.
ReuseInBoth(t, s) ==
    \E i \in Instances :
        /\ inst[i] = s
        /\ bind' = [bind EXCEPT ![t] = i]
        /\ UNCHANGED <<inst, auth>>

\* A session that has an instance already is moved to the terminal.
Reuse(t, s) ==
    \E i \in Instances :
        /\ inst[i] = s
        /\ bind' = [u \in Terminals |->
                      IF u = t THEN i ELSE IF bind[u] = i THEN None ELSE bind[u]]
        /\ UNCHANGED <<inst, auth>>

\* A new instance takes the place of the terminal's former one.
Start(t, s) ==
    \E i \in Instances :
        /\ inst[i] = None /\ \A j \in Instances : j < i => inst[j] # None
        /\ inst' = [j \in Instances |->
                      IF j = i THEN s ELSE IF j \in Replaced(t) THEN None ELSE inst[j]]
        /\ bind' = [u \in Terminals |->
                      IF u = t THEN i ELSE IF bind[u] \in Replaced(t) THEN None ELSE bind[u]]
        /\ auth' = auth \ Replaced(t)

\* Mutant: a claimed session always gets a new connection.
StartAlways(t, s) == Start(t, s) \/ UNCHANGED connections

Connect(t, s) ==
    IF \E i \in Instances : inst[i] = s
      THEN Reuse(t, s)
      ELSE \/ Start(t, s)
           \/ UNCHANGED connections       \* the client could not be started

\* Mutant: a result is checked against the focus and the mode only.
CurrentAnyGeneration(gen, t) == manual /\ (t = None \/ focused = t)

Current(gen, t) == gen = invGen /\ manual /\ (t = None \/ focused = t)

DiscoveryCurrent(gen, t) == gen = disGen /\ manual /\ focused = t

-----------------------------------------------------------------------------
(* Results, on the main thread *)

FinishInventory(w) ==
    /\ w.kind = "inventory"
    /\ IF Current(w.gen, None)
         THEN /\ baselines' = [s \in Sessions |->
                                 IF w.seen[s] = None THEN 0 ELSE w.seen[s].seq]
              /\ eligible' = w.listed
              /\ ready' = TRUE
         ELSE UNCHANGED <<baselines, eligible, ready>>
    /\ UNCHANGED <<choices, connections>>

Candidates(w) == {s \in Sessions : Increased(w, s, w.seen[s], baselines)}

\* A target that was not listed keeps its counters.
NewBaselines(w) ==
    [s \in Sessions |-> IF w.seen[s] # None THEN w.seen[s].seq
                        ELSE IF TargetOf[s] \in w.listed THEN 0
                        ELSE baselines[s]]

FinishAutomatic(w) ==
    /\ w.kind = "automatic"
    /\ IF Current(w.gen, w.term)
         THEN /\ baselines' = NewBaselines(w)
              /\ \/ Candidates(w) = {} /\ UNCHANGED <<choices, connections>>
                 \/ \E s \in Sessions :
                      /\ Candidates(w) = {s}
                      /\ Connect(w.term, s)
                      /\ UNCHANGED choices
                 \/ /\ \E s, r \in Candidates(w) : s # r
                    /\ choices' = choices \cup {[gen |-> w.gen, offs |-> w.offs,
                                     term |-> w.term, among |-> Candidates(w)]}
                    /\ UNCHANGED connections
         ELSE UNCHANGED <<baselines, choices, connections>>
    /\ UNCHANGED <<ready, eligible>>

\* The sessions that claimed within the last 15 seconds, and on this computer
\* after the press was handled; the latest of them.
Claimed(w) ==
    {s \in Sessions : /\ w.seen[s] # None /\ w.seen[s].recent
                      /\ w.kind = "local" => w.seen[s].at >= w.notBefore}
Latest(w) == {s \in Claimed(w) : \A r \in Claimed(w) : w.seen[r].at <= w.seen[s].at}

FinishDiscovery(w) ==
    /\ w.kind \in {"local", "remote"}
    /\ IF DiscoveryCurrent(w.gen, w.term) /\ Claimed(w) # {}
         THEN \E s \in Latest(w) : Connect(w.term, s)
         ELSE UNCHANGED connections
    /\ UNCHANGED <<ready, baselines, eligible, choices>>

Finish(w) ==
    /\ w.todo = {}
    /\ workers' = workers \ {w}
    /\ FinishInventory(w) \/ FinishAutomatic(w) \/ FinishDiscovery(w)
    /\ UNCHANGED <<gate, observed, pendingTarget, invGen, disGen, handlers, calls, editors,
                   counters>>

\* The dialog over several candidates closes: with a selection, or without.
CloseChoice(c) ==
    /\ choices' = choices \ {c}
    /\ \/ /\ Current(c.gen, c.term)
          /\ \E s \in c.among : Connect(c.term, s)
       \/ UNCHANGED connections
    /\ UNCHANGED <<gate, observed, pendingTarget, lists, handlers, calls, workers, editors,
                   counters>>

\* The first fullState of an instance arrives.
Authenticate(i) ==
    /\ inst[i] # None /\ i \notin auth
    /\ auth' = auth \cup {i}
    /\ UNCHANGED <<gate, observed, pendingTarget, lists, main, inst, bind, editors, counters>>

\* Its transport is lost and tries again.
Lose(i) ==
    /\ i \in auth
    /\ auth' = auth \ {i}
    /\ UNCHANGED <<gate, observed, pendingTarget, lists, main, inst, bind, editors, counters>>

\* The user disconnects the terminal.
DisconnectConnection(t) ==
    /\ focused = t /\ bind[t] # None
    /\ inst' = [inst EXCEPT ![bind[t]] = None]
    /\ bind' = [u \in Terminals |-> IF bind[u] = bind[t] THEN None ELSE bind[u]]
    /\ auth' = auth \ {bind[t]}
    /\ UNCHANGED <<gate, observed, pendingTarget, lists, main, editors, counters>>

-----------------------------------------------------------------------------
(* Neovim sessions *)

\* The key arrives, the scheduled callback writes the record.
Claim(s) ==
    /\ keys[s] > 0
    /\ keys' = [keys EXCEPT ![s] = @ - 1]
    /\ clock' = clock + 1
    /\ claim' = [claim EXCEPT ![s] = [seq |-> @.seq + 1, at |-> clock', recent |-> TRUE]]
    /\ UNCHANGED <<gate, observed, pendingTarget, lists, main, connections, alive, counters>>

\* Fifteen seconds pass; what claimed before loses its freshness too.
Age(s) ==
    /\ claim[s].recent
    /\ claim' = [r \in Sessions |->
                   [claim[r] EXCEPT !.recent = @ /\ claim[r].at > claim[s].at]]
    /\ UNCHANGED <<gate, observed, pendingTarget, lists, main, connections, alive, keys, clock,
                   counters>>

\* One that opens later looks like one that has not claimed yet, and is left out.
Quit(s) ==
    /\ s \in alive
    /\ alive' = alive \ {s}
    /\ keys' = [keys EXCEPT ![s] = 0]
    /\ UNCHANGED <<gate, observed, pendingTarget, lists, main, connections, claim, clock,
                   counters>>

Next ==
    \/ \E x \in Terminals \cup {None} : Focus(x)
    \/ ToggleOn \/ ConnectionsChanged \/ ToggleOff
    \/ \E t \in Terminals, g \in Targets : SetPendingTarget(t, g)
    \/ \E t \in Terminals : Press(t) \/ DisconnectConnection(t)
    \/ HandleClaim
    \/ \E c \in calls : DelayedCall(c)
    \/ \E w \in workers : Finish(w) \/ \E g \in Targets : Scan(w, g)
    \/ \E c \in choices : CloseChoice(c)
    \/ \E i \in Instances : Authenticate(i) \/ Lose(i)
    \/ \E s \in Sessions : Claim(s) \/ Age(s) \/ Quit(s)

Spec == Init /\ [][Next]_vars

-----------------------------------------------------------------------------
(* Properties *)

\* Every variable holds a value of its kind, a lookup that may connect has its
\* terminal, and a dialog offers at least two sessions.
TypeOK ==
    /\ manual \in BOOLEAN /\ focused \in Terminals \cup {None}
    /\ observed \in Gesture \cup {None}
    /\ pendingTarget \in [Terminals -> Targets \cup {None}]
    /\ ready \in BOOLEAN /\ baselines \in [Sessions -> Nat] /\ eligible \subseteq Targets
    /\ invGen \in Nat /\ disGen \in Nat
    /\ handlers \in Seq(Gesture) /\ calls \subseteq Call
    /\ workers \subseteq Worker /\ choices \subseteq Choice
    /\ \A w \in workers : w.kind # "inventory" => w.term \in Terminals
    /\ \A c \in choices : \E r, s \in c.among : r # s
    /\ inst \in [Instances -> Sessions \cup {None}]
    /\ bind \in [Terminals -> Instances \cup {None}]
    /\ auth \subseteq Instances
    /\ alive \subseteq Sessions /\ claim \in [Sessions -> Record]
    /\ keys \in [Sessions -> Nat] /\ clock \in Nat
    /\ presses \in Nat /\ inventories \in Nat /\ picks \in Nat /\ offs \in Nat

\* A claimed session is moved to the terminal that asked for it, never connected
\* a second time, and no table names an instance that is gone.
OneConnectionPerSession ==
    /\ \A i, j \in Instances : inst[i] # None /\ inst[i] = inst[j] => i = j
    /\ \A t \in Terminals : bind[t] # None => inst[bind[t]] # None
    /\ \A i \in auth : inst[i] # None

\* The connections a press makes, moves and ends are those of the gate: module
\* Pairing, which ConnectionGate implements too.  Every lookup and dialog that ends
\* connects in the focused terminal of a mode that is on, or nowhere, and what it
\* replaces leaves every table (SessionClaimService, ConnectionInstanceManager).
Pairs == INSTANCE Pairing WITH
    on <- manual, focus <- focused, live <- {i \in Instances : inst[i] # None},
    serves <- bind, heard <- auth
KeepsPairing == Pairs!Spec

\* While the mode is on, the counter remembered for a listed session never goes
\* back: no late inventory or resolution undoes a newer one, which would take a
\* press already answered for a new one.
BaselinesNeverGoBack ==
    [][manual' => \A s \in alive' :
          TargetOf[s] \in eligible' => baselines'[s] >= baselines[s]]_vars

\* A terminal is connected only while it has the focus and the mode is on, by a
\* lookup or a dialog begun for it since the mode was last switched off.
ConnectsWhereAsked ==
    [][\A t \in Terminals :
          bind'[t] # bind[t] /\ bind'[t] # None =>
            /\ manual /\ focused = t
            /\ \E w \in (workers \ workers') \cup (choices \ choices') :
                 w.term = t /\ w.offs = offs]_vars

\* An automatic lookup that finds one candidate takes a session that saw the press:
\* one shown in the terminal where F12 was pressed.
AutomaticTakesOwnSession ==
    [][\A t \in Terminals, w \in workers \ workers' :
          w.kind = "automatic" /\ bind'[t] # bind[t] /\ bind'[t] # None =>
            Home[inst'[bind'[t]]] = t]_vars
=============================================================================
