------------------------- MODULE SessionGate_proofs -------------------------
(***************************************************************************)
(* DisconnectWins for any number of terminals and transport threads.        *)
(*                                                                         *)
(* The two orders of the opening are safe for different reasons.  The        *)
(* confirmation writes the binding first, so an overtaking disconnect, which *)
(* clears it last, leaves it cleared.  The full state writes the             *)
(* authentication first, so it stays cleared.  Wins says so, for every       *)
(* moment in which the overtaking disconnect has passed that assignment.     *)
(***************************************************************************)
EXTENDS SessionGate, TLAPS

\* Some transport thread has one of the assignments `labels' still to make.
Before(labels) == \E p \in Transports : step[p] \in labels

Wins ==
    /\ overtaken = "confirm" =>
        /\ step[Main] \in {"idle", "confirmAuth", "confirmActive", "confirmPass"}
        /\ bound = None \/ Before(Closing)
    /\ overtaken = "full" =>
        /\ step[Main] \in {"idle", "fullActive", "fullBound"}
        /\ ~authenticated \/ Before({"closeAuth"})

(* The types of the gate, of the lock and of every thread's next assignment. *)
THEOREM TypeCorrect == Spec => []TypeOK
<1>1. Init => TypeOK
  BY DEF Init, TypeOK, Closing, Confirming, Filling, Threads
<1>2. TypeOK /\ [Next]_vars => TypeOK'
  <2> USE MainAssumption DEF TypeOK, Threads, Closing, Confirming, Filling, Then, fields
  <2> SUFFICES ASSUME TypeOK, [Next]_vars PROVE TypeOK'
    OBVIOUS
  <2>1. ASSUME NEW p \in Threads, Disconnect(p) PROVE TypeOK'
    BY <2>1 DEF Disconnect, Overtaken
  <2>2. ASSUME NEW p \in Threads, CloseAuth(p) PROVE TypeOK'
    BY <2>2 DEF CloseAuth
  <2>3. ASSUME NEW p \in Threads, CloseActive(p) PROVE TypeOK'
    BY <2>3 DEF CloseActive
  <2>4. ASSUME NEW p \in Threads, ClosePass(p) PROVE TypeOK'
    BY <2>4 DEF ClosePass
  <2>5. ASSUME NEW p \in Threads, CloseBound(p) PROVE TypeOK'
    BY <2>5 DEF CloseBound
  <2>6. ASSUME NEW on \in BOOLEAN, NEW t \in Terminals \cup {None}, MainDisconnect(on, t)
        PROVE  TypeOK'
    BY <2>6 DEF MainDisconnect
  <2>7. CASE Turn
    BY <2>7 DEF Turn
  <2>8. CASE Enable
    BY <2>8 DEF Enable
  <2>9. CASE Confirm \/ ConfirmAuth \/ ConfirmActive \/ ConfirmPass
    BY <2>9 DEF Confirm, ConfirmAuth, ConfirmActive, ConfirmPass
  <2>10. CASE HandleFullState \/ FullAuth \/ FullActive \/ FullBound
    BY <2>10 DEF HandleFullState, FullAuth, FullActive, FullBound
  <2>11. CASE UNCHANGED vars
    BY <2>11 DEF vars
  <2>12. QED
    BY <2>1, <2>2, <2>3, <2>4, <2>5, <2>6, <2>7, <2>8, <2>9, <2>10, <2>11 DEF Next
<1>3. QED
  BY <1>1, <1>2, PTL DEF Spec

(* Wins holds along every execution. *)
LEMMA WinsInvariant == Spec => []Wins
<1>1. Init => Wins
  BY DEF Init, Wins
<1>2. TypeOK /\ Wins /\ [Next]_vars => Wins'
  <2> USE MainAssumption DEF Wins, Before, Threads, Then, fields
  <2> SUFFICES ASSUME TypeOK, Wins, [Next]_vars PROVE Wins'
    OBVIOUS
  <2>0. step \in [Threads -> {"idle", "turn"} \cup Closing \cup Confirming \cup Filling]
    BY DEF TypeOK
  <2>1. ASSUME NEW p \in Threads, Disconnect(p) PROVE Wins'
    BY <2>0, <2>1 DEF Disconnect, Overtaken, Closing, Confirming
  <2>2. ASSUME NEW p \in Threads, CloseAuth(p) PROVE Wins'
    BY <2>0, <2>2 DEF CloseAuth, Closing
  <2>3. ASSUME NEW p \in Threads, CloseActive(p) PROVE Wins'
    BY <2>0, <2>3 DEF CloseActive, Closing
  <2>4. ASSUME NEW p \in Threads, ClosePass(p) PROVE Wins'
    BY <2>0, <2>4 DEF ClosePass, Closing
  <2>5. ASSUME NEW p \in Threads, CloseBound(p) PROVE Wins'
    BY <2>0, <2>5 DEF CloseBound, Closing
  <2>6. ASSUME NEW on \in BOOLEAN, NEW t \in Terminals \cup {None}, MainDisconnect(on, t)
        PROVE  Wins'
    BY <2>6 DEF MainDisconnect
  <2>7. CASE Turn \/ Enable
    BY <2>0, <2>7 DEF Turn, Enable
  <2>8. CASE Confirm \/ HandleFullState
    BY <2>8 DEF Confirm, HandleFullState
  <2>9. CASE ConfirmAuth \/ ConfirmActive \/ ConfirmPass
    BY <2>0, <2>9 DEF ConfirmAuth, ConfirmActive, ConfirmPass
  <2>10. CASE FullAuth \/ FullActive \/ FullBound
    BY <2>0, <2>10 DEF FullAuth, FullActive, FullBound
  <2>11. CASE UNCHANGED vars
    BY <2>11 DEF vars
  <2>12. QED
    BY <2>1, <2>2, <2>3, <2>4, <2>5, <2>6, <2>7, <2>8, <2>9, <2>10, <2>11 DEF Next
<1>3. QED
  BY <1>1, <1>2, TypeCorrect, PTL DEF Spec

(* A disconnect that begins while the main thread opens the gate leaves it    *)
(* closed, whichever of the two opening sequences it overtakes.               *)
THEOREM DisconnectAlwaysWins == Spec => []DisconnectWins
<1>1. TypeOK /\ Wins => DisconnectWins
  <2> SUFFICES ASSUME TypeOK, Wins, overtaken # "none", \A p \in Transports : step[p] = "idle"
               PROVE  ~Suppressing
    BY DEF DisconnectWins
  <2>1. bound = None \/ ~authenticated
    BY DEF Wins, Before, Closing, TypeOK
  <2>2. QED
    BY <2>1 DEF Suppressing
<1>2. QED
  BY <1>1, TypeCorrect, WinsInvariant, PTL
=============================================================================
