-------------------------- MODULE SupervisorProofs --------------------------
(* Theorems about Supervisor, for any set of processes and any channel. *)
EXTENDS Supervisor, WellFoundedInduction, TLAPS

(* The type invariant holds: in particular sigCh never outgrows its buffer. *)
THEOREM TypeCorrect == SafetySpec => []TypeOK
<1>1. Init => TypeOK
  <2>1. <<>> \in Seq(Signal) /\ Len(<<>>) = 0
    OBVIOUS
  <2>2. Init => sigCh \in Seq(Signal) /\ Len(sigCh) <= Cap
    BY <2>1, CapAssumption DEF Init
  <2> QED BY <2>2 DEF Init, TypeOK
<1>2. TypeOK /\ [Next]_vars => TypeOK'
  <2> SUFFICES ASSUME TypeOK, [Next]_vars PROVE TypeOK'
    OBVIOUS
  <2> USE MainAssumption DEF TypeOK
  <2>1. CASE StartEntrypoint \/ StartFails
    BY <2>1 DEF StartEntrypoint, StartFails, procVars
  <2>0. sigCh # <<>> => Tail(sigCh) \in Seq(Signal) /\ Len(Tail(sigCh)) <= Cap
    BY CapAssumption
  <2>2. CASE ReceiveChld
    BY <2>0, <2>2 DEF ReceiveChld, procVars
  <2>3. CASE ReceiveRequest
    BY <2>0, <2>3 DEF ReceiveRequest, beginShutdown, procVars
  <2>4. CASE ReapedChld
    <3>1. pc' \in {"done", "reapAgain", "recv"}
      BY <2>4 DEF ReapedChld, beginShutdown
    <3> QED BY <2>4, <3>1 DEF ReapedChld, beginShutdown, procVars
  <2>5. CASE ReapedAgain \/ Reboot
    BY <2>5 DEF ReapedAgain, Reboot, procVars
  <2>6. ASSUME NEW c \in Proc, Wait4Child(c) PROVE TypeOK'
    BY <2>6 DEF Wait4Child
  <2>7. CASE GraceElapsed
    BY <2>7 DEF GraceElapsed, Running
  <2>8. ASSUME NEW sig \in Signal, Request(sig) PROVE TypeOK'
    BY <2>8 DEF Request, Signal, procVars, loopVars
  <2>9. ASSUME NEW sig \in Signal, Deliver(sig) PROVE TypeOK'
    <3>1. sigCh' \in Seq(Signal) /\ Len(sigCh') <= Cap
      BY <2>9, CapAssumption DEF Deliver
    <3> QED BY <2>9, <3>1 DEF Deliver, procVars, loopVars
  <2>10. ASSUME NEW p \in Proc, Attach(p) \/ Exit(p) PROVE TypeOK'
    BY <2>10 DEF Attach, Exit, Signal, loopVars
  <2>11. ASSUME NEW p \in Proc, NEW c \in Proc, Fork(p, c) \/ ProcWait(p, c) PROVE TypeOK'
    BY <2>11 DEF Fork, ProcWait, loopVars
  <2>12. CASE UNCHANGED vars
    BY <2>12 DEF vars, procVars, loopVars
  <2> QED BY <2>1, <2>2, <2>3, <2>4, <2>5, <2>6, <2>7, <2>8, <2>9, <2>10, <2>11, <2>12
          DEF Next, Run
<1> QED BY <1>1, <1>2, PTL DEF SafetySpec

----------------------------------------------------------------------------
(* The inductive invariant behind NoLostWakeup.  A zombie child of PID 1   *)
(* always has a SIGCHLD on its way, or some signal in sigCh, unless        *)
(* reapAll is running; a shutdown waits only while it has children.        *)
Awake == pc \in {"start", "recv"} /\ Zombies # {} => "CHLD" \in pend \/ sigCh # <<>>
Awaits == pc = "recv" /\ shuttingDown => Children(Init1) # {}
NotStartedYet == pc = "start" => ~shuttingDown
NotOwnParent == \A p \in Proc : parent[p] # p
WakeInv == Awake /\ Awaits /\ NotStartedYet /\ NotOwnParent

(* A process that dies becomes a child of no one but PID 1, and PID 1 is   *)
(* told of every zombie it gets.                                           *)
LEMMA ExitStep ==
  ASSUME TypeOK, NotOwnParent, NEW p \in Proc, Exit(p)
  PROVE  /\ Children(Init1) \subseteq Children(Init1)'
         /\ Zombies' # Zombies => "CHLD" \in pend'
         /\ NotOwnParent'
<1>1. Init1 \notin Proc /\ Init1 # Host
  BY ParentAssumption DEF Init1, Host
<1>2. p \notin Children(p)
  BY DEF NotOwnParent, Children
<1>3. \A q \in Children(Init1) : parent[q] = Init1 /\ parent'[q] = Init1
  BY <1>1 DEF Exit, Children, TypeOK
<1>4. Children(Init1) \subseteq Children(Init1)'
  BY <1>1, <1>3 DEF Exit, Children, TypeOK
<1>5. ASSUME "CHLD" \notin pend' PROVE Zombies' = Zombies
  <2>1. parent[p] # Init1 /\ \A c \in Children(p) : state[c] # "zombie"
    BY <1>5 DEF Exit
  <2>2. \A q \in Proc : q # p => state'[q] = state[q]
    BY DEF Exit, TypeOK
  <2>3. parent'[p] = parent[p]
    BY <1>2 DEF Exit
  <2>4. \A q \in Proc : q \in Zombies' => q \in Zombies
    <3> SUFFICES ASSUME NEW q \in Proc, q \in Zombies' PROVE q \in Zombies
      OBVIOUS
    <3>1. parent'[q] = Init1 /\ state'[q] = "zombie"
      BY DEF Zombies, Children
    <3>2. q # p
      BY <2>1, <2>3, <3>1
    <3>3. state[q] = "zombie"
      BY <2>2, <3>1, <3>2
    <3>4. q \notin Children(p)
      BY <2>1, <3>3
    <3>5. parent[q] = Init1
      BY <3>1, <3>4 DEF Exit
    <3> QED BY <3>3, <3>5 DEF Zombies, Children
  <2>5. \A q \in Proc : q \in Zombies => q \in Zombies'
    <3> SUFFICES ASSUME NEW q \in Proc, q \in Zombies PROVE q \in Zombies'
      OBVIOUS
    <3>1. q # p /\ q \in Children(Init1) /\ state[q] = "zombie"
      BY DEF Exit, Zombies
    <3> QED BY <1>3, <2>2, <3>1 DEF Zombies, Children
  <2> QED BY <2>4, <2>5 DEF Zombies, Children
<1>6. NotOwnParent'
  BY <1>1 DEF Exit, NotOwnParent, Children, TypeOK
<1> QED BY <1>4, <1>5, <1>6

(* PID 1 never waits with a zombie unreaped and nothing on its way, nor in *)
(* a shutdown for children it does not have: whatever SIGCHLDs are merged  *)
(* or dropped, for any number of processes and any capacity of sigCh.      *)
THEOREM NoWakeupLost == SafetySpec => []NoLostWakeup
<1>1. Init => WakeInv
  BY ParentAssumption DEF Init, WakeInv, Awake, Awaits, NotStartedYet, NotOwnParent, Zombies, Children,
     NoParent
<1>2. TypeOK /\ WakeInv /\ [Next]_vars => WakeInv'
  <2> SUFFICES ASSUME TypeOK, WakeInv, [Next]_vars PROVE WakeInv'
    OBVIOUS
  <2> USE DEF WakeInv, Awake, Awaits, NotStartedYet, NotOwnParent
  <2>0. Init1 \notin Proc /\ Host \notin Proc /\ Init1 # Host
    BY ParentAssumption DEF Init1, Host
  <2>1. CASE StartEntrypoint
    <3>1. Zombies' \subseteq Zombies
      BY <2>1, MainAssumption DEF StartEntrypoint, Zombies, Children, TypeOK
    <3>2. NotOwnParent'
      BY <2>0, <2>1, MainAssumption DEF StartEntrypoint, TypeOK
    <3> QED BY <2>1, <3>1, <3>2 DEF StartEntrypoint
  <2>2. CASE StartFails \/ ReceiveChld \/ Reboot
    BY <2>2 DEF StartFails, ReceiveChld, Reboot, procVars
  <2>3. CASE ReceiveRequest
    BY <2>3 DEF ReceiveRequest, procVars
  <2>4. CASE ReapedChld \/ ReapedAgain
    <3>1. UNCHANGED <<Children(Init1), Zombies, parent>>
      BY <2>4 DEF ReapedChld, ReapedAgain, procVars, Children, Zombies
    <3>2. Zombies = {}
      BY <2>4 DEF ReapedChld, ReapedAgain, Wait4Nothing, Wait4Echild, Zombies
    <3>3. pc' = "recv" /\ shuttingDown' => ~Wait4Echild
      BY <2>4 DEF ReapedChld, ReapedAgain
    <3>4. pc' # "start"
      BY <2>4 DEF ReapedChld, ReapedAgain
    <3> QED BY <3>1, <3>2, <3>3, <3>4 DEF Wait4Echild
  <2>5. ASSUME NEW c \in Proc, Wait4Child(c) PROVE WakeInv'
    BY <2>5 DEF Wait4Child
  <2>6. CASE GraceElapsed
    <3>1. UNCHANGED <<Children(Init1), Zombies>>
      BY <2>6 DEF GraceElapsed, Children, Zombies
    <3> QED BY <2>6, <3>1 DEF GraceElapsed
  <2>7. ASSUME NEW sig \in Signal, Request(sig) \/ Deliver(sig) PROVE WakeInv'
    <3>1. UNCHANGED <<Children(Init1), Zombies>>
      BY <2>7 DEF Request, Deliver, procVars, Children, Zombies
    <3>2. sigCh # <<>> => sigCh' # <<>>
      BY <2>7 DEF Request, Deliver, TypeOK
    <3>3. "CHLD" \in pend => "CHLD" \in pend' \/ sigCh' # <<>>
      BY <2>7, CapAssumption DEF Request, Deliver, TypeOK
    <3> QED BY <2>7, <3>1, <3>2, <3>3 DEF Request, Deliver, procVars, loopVars
  <2>8. ASSUME NEW p \in Proc, Attach(p) PROVE WakeInv'
    <3>1. Children(Init1) \subseteq Children(Init1)' /\ Zombies' \subseteq Zombies
      BY <2>8 DEF Attach, Children, Zombies, TypeOK
    <3>2. NotOwnParent'
      BY <2>0, <2>8 DEF Attach, TypeOK
    <3> QED BY <2>8, <3>1, <3>2 DEF Attach, loopVars
  <2>9. ASSUME NEW p \in Proc, Exit(p) PROVE WakeInv'
    <3>1. UNCHANGED <<pc, shuttingDown, sigCh>> /\ pend \subseteq pend'
      BY <2>9 DEF Exit, loopVars
    <3> QED BY <2>9, <3>1, ExitStep
  <2>10. ASSUME NEW p \in Proc, NEW c \in Proc, Fork(p, c) PROVE WakeInv'
    <3>1. Children(Init1) \subseteq Children(Init1)' /\ Zombies' \subseteq Zombies
      BY <2>10 DEF Fork, Children, Zombies, TypeOK
    <3>2. NotOwnParent'
      BY <2>10 DEF Fork, TypeOK
    <3> QED BY <2>10, <3>1, <3>2 DEF Fork, loopVars
  <2>11. ASSUME NEW p \in Proc, NEW c \in Proc, ProcWait(p, c) PROVE WakeInv'
    <3>1. Children(Init1) \subseteq Children(Init1)' /\ Zombies' \subseteq Zombies
      BY <2>0, <2>11 DEF ProcWait, Children, Zombies, TypeOK
    <3> QED BY <2>11, <3>1 DEF ProcWait, loopVars
  <2>12. CASE UNCHANGED vars
    BY <2>12 DEF vars, procVars, loopVars, Children, Zombies
  <2> QED BY <2>1, <2>2, <2>3, <2>4, <2>5, <2>6, <2>7, <2>8, <2>9, <2>10, <2>11, <2>12
          DEF Next, Run
<1>3. WakeInv => NoLostWakeup
  BY DEF WakeInv, Awake, Awaits, NoLostWakeup
<1> QED BY <1>1, <1>2, <1>3, TypeCorrect, PTL DEF SafetySpec

----------------------------------------------------------------------------
(* The entrypoint is a child of PID 1 and of no one else, and the second   *)
(* reapAll, which does not look for it, runs only in a shutdown.           *)
MainInv ==
  /\ MainNoticed
  /\ state[Main] # "unborn" => parent[Main] = Init1
  /\ pc = "start" => state[Main] = "unborn"
  /\ pc = "reapAgain" => shuttingDown

(* It always holds.                                                        *)
LEMMA MainInvariant == SafetySpec => []MainInv
<1>1. Init => MainInv
  BY MainAssumption DEF Init, MainInv, MainNoticed
<1>2. TypeOK /\ MainInv /\ [Next]_vars => MainInv'
  <2> SUFFICES ASSUME TypeOK, MainInv, [Next]_vars PROVE MainInv'
    OBVIOUS
  <2> USE MainAssumption DEF MainInv, MainNoticed
  <2>0. Init1 \notin Proc /\ Host \notin Proc /\ Init1 # Host
    BY ParentAssumption DEF Init1, Host
  <2>1. CASE StartEntrypoint \/ StartFails \/ ReceiveChld \/ Reboot \/ ReapedAgain
    BY <2>1 DEF StartEntrypoint, StartFails, ReceiveChld, Reboot, ReapedAgain, procVars, TypeOK
  <2>2. CASE ReceiveRequest
    BY <2>2 DEF ReceiveRequest, beginShutdown, procVars
  <2>3. CASE ReapedChld
    <3>1. shuttingDown' = (shuttingDown \/ sawMain)
      BY <2>3 DEF ReapedChld, beginShutdown, TypeOK
    <3>2. pc' # "start" /\ (pc' = "reapAgain" => shuttingDown')
      BY <2>3, <3>1 DEF ReapedChld, TypeOK
    <3> QED BY <2>3, <3>1, <3>2 DEF ReapedChld, procVars
  <2>4. ASSUME NEW c \in Proc, Wait4Child(c) PROVE MainInv'
    <3>1. CASE c = Main
      BY <2>4, <3>1 DEF Wait4Child, Zombies, Children, TypeOK
    <3>2. CASE c # Main
      BY <2>4, <3>2 DEF Wait4Child, TypeOK
    <3> QED BY <3>1, <3>2
  <2>5. CASE GraceElapsed
    BY <2>5 DEF GraceElapsed
  <2>6. ASSUME NEW sig \in Signal, Request(sig) \/ Deliver(sig) PROVE MainInv'
    BY <2>6 DEF Request, Deliver, procVars, loopVars
  <2>7. ASSUME NEW p \in Proc, Attach(p) \/ Exit(p) PROVE MainInv'
    BY <2>0, <2>7 DEF Attach, Exit, Children, loopVars, TypeOK
  <2>8. ASSUME NEW p \in Proc, NEW c \in Proc, Fork(p, c) \/ ProcWait(p, c) PROVE MainInv'
    BY <2>0, <2>8 DEF Fork, ProcWait, loopVars, TypeOK
  <2>9. CASE UNCHANGED vars
    BY <2>9 DEF vars, procVars, loopVars
  <2> QED BY <2>1, <2>2, <2>3, <2>4, <2>5, <2>6, <2>7, <2>8, <2>9 DEF Next, Run
<1> QED BY <1>1, <1>2, TypeCorrect, PTL DEF SafetySpec

(* The entrypoint's death leads to a shutdown, whichever reapAll call      *)
(* reaped it, for any processes and any interleaving.                      *)
THEOREM MainDeathNoticed == SafetySpec => []MainNoticed
<1>1. MainInv => MainNoticed  BY DEF MainInv
<1> QED BY <1>1, MainInvariant, PTL

----------------------------------------------------------------------------
(* The processes of the entrypoint's tree that are not waited for yet.     *)
InTree == {p \in fromMain : state[p] \in {"running", "zombie"}}

(* The parent of a process of the tree is PID 1 or runs, and is then of    *)
(* the tree itself.                                                        *)
Rooted == \A p \in InTree : parent[p] = Init1 \/ (parent[p] \in InTree /\ state[parent[p]] = "running")

(* Parents are older than their children: no process is its own ancestor.  *)
Older(age) == \A p \in InTree : parent[p] \in Proc => age[parent[p]] < age[p]
Acyclic == \E age \in [Proc -> Nat] : Older(age)

TreeInv ==
  /\ TreeEmptyAtReboot
  /\ \A p \in fromMain : state[p] # "unborn"
  /\ Rooted
  /\ Acyclic

(* A non-empty set of natural numbers has a smallest element.              *)
LEMMA Smallest ==
  ASSUME NEW S, S \subseteq Nat, S # {}
  PROVE  \E n \in S : \A m \in S : n <= m
<1> DEFINE R == OpToRel(<, Nat)
<1>1. IsWellFoundedOn(R, Nat)
  BY NatLessThanWellFounded
<1>2. PICK n \in S : \A m \in S : ~(<<m, n>> \in R)
  <2> HIDE DEF R
  <2> QED BY <1>1, WFMin
<1>3. \A m \in S : <<m, n>> \in R <=> m < n
  BY DEF OpToRel
<1>4. \A m \in S : ~(m < n)
  <2> HIDE DEF R
  <2> QED BY <1>2, <1>3
<1> QED BY <1>4

(* ECHILD speaks of the children of PID 1 only; the tree is empty then,    *)
(* since its oldest process could have no parent.                          *)
LEMMA EchildMeansEmpty ==
  ASSUME TypeOK, Rooted, Acyclic, Wait4Echild
  PROVE  InTree = {}
<1> SUFFICES ASSUME InTree # {} PROVE FALSE
  OBVIOUS
<1>1. PICK age \in [Proc -> Nat] : Older(age)
  BY DEF Acyclic
<1>2. InTree \subseteq Proc
  BY DEF InTree, TypeOK
<1> DEFINE ages == {age[p] : p \in InTree}
<1>3. ages \subseteq Nat /\ ages # {}
  BY <1>2
<1>4. PICK n \in ages : \A m \in ages : n <= m
  BY <1>3, Smallest
<1>5. PICK p \in InTree : age[p] = n
  BY <1>4
<1>6. parent[p] # Init1
  BY <1>5 DEF Wait4Echild, Children, InTree, TypeOK
<1>7. parent[p] \in InTree /\ parent[p] \in Proc
  BY <1>2, <1>5, <1>6 DEF Rooted
<1>8. age[parent[p]] < age[p] /\ age[parent[p]] \in ages
  BY <1>1, <1>5, <1>7 DEF Older
<1>9. age[parent[p]] \in Nat /\ age[p] \in Nat
  BY <1>1, <1>2, <1>5, <1>7
<1> QED BY <1>4, <1>5, <1>8, <1>9

(* A step that leaves the parents of the tree alone, or hands them to PID  *)
(* 1, and adds nothing to it keeps it acyclic.                             *)
LEMMA AcyclicShrinks ==
  ASSUME TypeOK, Acyclic, InTree' \subseteq InTree,
         \A p \in InTree' : parent'[p] = parent[p] \/ parent'[p] \notin Proc
  PROVE  Acyclic'
<1>1. PICK age \in [Proc -> Nat] : Older(age)
  BY DEF Acyclic
<1>2. \A p \in InTree' : parent'[p] \in Proc => age[parent'[p]] < age[p]
  BY <1>1 DEF Older
<1> QED BY <1>2 DEF Acyclic, Older

(* When PID 1 reboots, every descendant of the entrypoint is dead and      *)
(* waited for, although wait4 tells it about its own children only: for    *)
(* any processes, forks, orphans and orders of death.                      *)
THEOREM TreeIsEmptyAtReboot == SafetySpec => []TreeEmptyAtReboot
<1>1. Init => TreeInv
  <2> SUFFICES ASSUME Init PROVE TreeInv
    OBVIOUS
  <2>1. InTree = {}
    BY DEF Init, InTree
  <2>2. [p \in Proc |-> 0] \in [Proc -> Nat]
    OBVIOUS
  <2>3. Acyclic
    BY <2>1, <2>2 DEF Acyclic, Older
  <2> QED BY <2>1, <2>3 DEF Init, TreeInv, TreeEmptyAtReboot, Rooted
<1>2. TypeOK /\ MainInv /\ TreeInv /\ [Next]_vars => TreeInv'
  <2> SUFFICES ASSUME TypeOK, MainInv, TreeInv, [Next]_vars PROVE TreeInv'
    OBVIOUS
  <2> USE DEF TreeInv
  <2>0. Init1 \notin Proc /\ Host \notin Proc /\ Init1 # Host
    BY ParentAssumption DEF Init1, Host
  <2>1. CASE StartEntrypoint
    <3>1. InTree' \subseteq {Main} /\ parent'[Main] = Init1 /\ state'[Main] = "running"
      BY <2>1, MainAssumption DEF StartEntrypoint, InTree, TypeOK
    <3>2. PICK age \in [Proc -> Nat] : Older(age)
      BY DEF Acyclic
    <3>3. Acyclic'
      BY <2>0, <3>1, <3>2 DEF Acyclic, Older
    <3> QED BY <2>1, <3>1, <3>3 DEF StartEntrypoint, TreeEmptyAtReboot, Rooted
  <2>2. ASSUME UNCHANGED procVars, pc' \in {"done", "off"} => InTree = {}
        PROVE  TreeInv'
    <3>1. InTree' = InTree /\ UNCHANGED procVars
      BY <2>2 DEF procVars, InTree
    <3>2. Acyclic'
      BY <3>1, AcyclicShrinks DEF procVars
    <3>3. \A p \in fromMain : state[p] = "gone" \/ p \in InTree
      BY DEF InTree, TypeOK
    <3> QED BY <2>2, <3>1, <3>2, <3>3 DEF procVars, TreeEmptyAtReboot, Rooted
  <2>3. pc \in {"done", "off"} => InTree = {}
    BY DEF TreeEmptyAtReboot, InTree
  <2>4. CASE StartFails \/ ReceiveChld \/ ReceiveRequest \/ Reboot
    BY <2>2, <2>3, <2>4 DEF StartFails, ReceiveChld, ReceiveRequest, Reboot
  <2>5. CASE ReapedChld \/ ReapedAgain
    <3>1. pc' \in {"done", "off"} => Wait4Echild
      BY <2>5 DEF ReapedChld, ReapedAgain
    <3>2. UNCHANGED procVars
      BY <2>5 DEF ReapedChld, ReapedAgain
    <3> QED BY <2>2, <3>1, <3>2, EchildMeansEmpty
  <2>6. CASE GraceElapsed
    <3>1. InTree' = InTree /\ UNCHANGED <<state, parent, fromMain, pc>>
      BY <2>6 DEF GraceElapsed, InTree
    <3>2. Acyclic'
      BY <3>1, AcyclicShrinks
    <3> QED BY <3>1, <3>2 DEF TreeEmptyAtReboot, Rooted
  <2>7. ASSUME NEW sig \in Signal, Request(sig) \/ Deliver(sig) PROVE TreeInv'
    <3>1. UNCHANGED <<procVars, pc>>
      BY <2>7 DEF Request, Deliver, loopVars
    <3> QED BY <2>2, <2>3, <3>1
  <2>8. CASE UNCHANGED vars
    BY <2>2, <2>3, <2>8 DEF vars, loopVars
  <2>9. ASSUME NEW c \in Proc, state[c] = "zombie", state' = [state EXCEPT ![c] = "gone"],
               UNCHANGED <<parent, fromMain, pc>>
        PROVE  TreeInv'
    <3>1. InTree' \subseteq InTree /\ c \notin InTree'
      BY <2>9 DEF InTree, TypeOK
    <3>2. Acyclic'
      BY <2>9, <3>1, AcyclicShrinks
    <3>3. \A p \in InTree : state[p] = "running" => p \in InTree' /\ state'[p] = "running"
      BY <2>9 DEF InTree, TypeOK
    <3>4. Rooted'
      BY <2>9, <3>1, <3>3 DEF Rooted
    <3> QED BY <2>9, <3>2, <3>4 DEF TreeEmptyAtReboot, TypeOK
  <2>10. ASSUME NEW c \in Proc, Wait4Child(c) PROVE TreeInv'
    BY <2>9, <2>10 DEF Wait4Child, Zombies
  <2>11. ASSUME NEW p \in Proc, NEW c \in Proc, ProcWait(p, c) PROVE TreeInv'
    BY <2>9, <2>11 DEF ProcWait, loopVars
  <2>12. ASSUME NEW p \in Proc, NEW c \in Proc, Fork(p, c) PROVE TreeInv'
    <3>1. c \notin fromMain /\ c # p
      BY <2>12 DEF Fork
    <3>2. p \in fromMain => p \in InTree
      BY <2>12 DEF Fork, InTree
    <3>3. InTree' = IF p \in fromMain THEN InTree \cup {c} ELSE InTree
      BY <2>12, <3>1 DEF Fork, InTree, TypeOK
    <3>4. \A x \in InTree : parent'[x] = parent[x] /\ state'[x] = state[x] /\ x # c
      BY <2>12, <3>1 DEF Fork, InTree, TypeOK
    <3>5. parent'[c] = p /\ state'[p] = "running" /\ state'[c] = "running"
      BY <2>12, <3>1 DEF Fork, TypeOK
    <3>6. Rooted'
      BY <3>2, <3>3, <3>4, <3>5 DEF Rooted
    <3>7. Acyclic'
      <4>1. PICK age \in [Proc -> Nat] : Older(age)
        BY DEF Acyclic
      <4> DEFINE older == [age EXCEPT ![c] = age[p] + 1]
      <4>2. older \in [Proc -> Nat]
        BY <4>1
      <4>3. \A x \in InTree : parent[x] # c
        BY <2>0, <3>4 DEF Rooted
      <4>4. \A x \in InTree' : parent'[x] \in Proc => older[parent'[x]] < older[x]
        <5> SUFFICES ASSUME NEW x \in InTree', parent'[x] \in Proc
                     PROVE  older[parent'[x]] < older[x]
          OBVIOUS
        <5>1. CASE x = c
          BY <3>1, <3>5, <4>1, <5>1
        <5>2. CASE x # c
          <6>1. x \in InTree /\ x \in Proc
            BY <3>3, <5>2 DEF InTree, TypeOK
          <6> QED BY <3>4, <4>1, <4>3, <5>2, <6>1 DEF Older
        <5> QED BY <5>1, <5>2
      <4> QED BY <4>2, <4>4 DEF Acyclic, Older
    <3>8. pc' = pc /\ (pc \in {"done", "off"} => p \notin fromMain)
      BY <2>12 DEF Fork, loopVars, TreeEmptyAtReboot
    <3> QED BY <2>12, <3>1, <3>5, <3>6, <3>7, <3>8 DEF Fork, TreeEmptyAtReboot, TypeOK
  <2>13. ASSUME NEW c \in Proc, Attach(c) PROVE TreeInv'
    <3>1. c \notin fromMain
      BY <2>13 DEF Attach
    <3>2. InTree' = InTree /\ c \notin InTree
      BY <2>13, <3>1 DEF Attach, InTree, TypeOK
    <3>3. \A x \in InTree : parent'[x] = parent[x] /\ state'[x] = state[x]
      BY <2>13, <3>2 DEF Attach, InTree, TypeOK
    <3>4. Acyclic'
      BY <3>2, <3>3, AcyclicShrinks
    <3>5. Rooted'
      BY <3>2, <3>3 DEF Rooted
    <3> QED BY <2>13, <3>1, <3>4, <3>5 DEF Attach, loopVars, TreeEmptyAtReboot, TypeOK
  <2>14. ASSUME NEW p \in Proc, Exit(p) PROVE TreeInv'
    <3>1. InTree' \subseteq InTree
      BY <2>14 DEF Exit, InTree, TypeOK
    <3>2. \A x \in Proc : parent'[x] = IF x \in Children(p) THEN Init1 ELSE parent[x]
      BY <2>14 DEF Exit
    <3>3. \A x \in InTree : parent[x] = p => x \in Children(p)
      BY DEF InTree, Children, TypeOK
    <3>4. Acyclic'
      BY <2>0, <3>1, <3>2, AcyclicShrinks DEF InTree, TypeOK
    <3>5. \A x \in InTree : x # p => x \in InTree' /\ state'[x] = state[x]
      BY <2>14 DEF Exit, InTree, TypeOK
    <3>6. Rooted'
      <4> SUFFICES ASSUME NEW x \in InTree', parent'[x] # Init1
                   PROVE  parent'[x] \in InTree' /\ state'[parent'[x]] = "running"
        BY DEF Rooted
      <4>1. x \in InTree /\ x \in Proc
        BY <3>1 DEF InTree, TypeOK
      <4>2. parent'[x] = parent[x] /\ parent[x] # p
        BY <3>2, <3>3, <4>1
      <4>3. parent[x] \in InTree /\ state[parent[x]] = "running"
        BY <4>1, <4>2 DEF Rooted
      <4> QED BY <3>5, <4>2, <4>3
    <3>7. \A x \in fromMain : state'[x] # "unborn" /\ (state[x] = "gone" => state'[x] = "gone")
      BY <2>14 DEF Exit, TypeOK
    <3> QED BY <2>14, <3>4, <3>6, <3>7 DEF Exit, loopVars, TreeEmptyAtReboot
  <2> QED BY <2>1, <2>4, <2>5, <2>6, <2>7, <2>8, <2>10, <2>11, <2>12, <2>13, <2>14 DEF Next, Run
<1>3. TreeInv => TreeEmptyAtReboot
  BY DEF TreeInv
<1> QED BY <1>1, <1>2, <1>3, TypeCorrect, MainInvariant, PTL DEF SafetySpec
=============================================================================
