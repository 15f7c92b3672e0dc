------------------------- MODULE PeerManagerProofs -------------------------
(***************************************************************************)
(* Proofs about PeerManager, for any number of peers, listens and managers.*)
(***************************************************************************)
EXTENDS PeerManager, FiniteSetTheorems, TLAPS

(* The stream of a fresh connection is a sequence of items.                *)
LEMMA SnapshotType ==
  ASSUME NEW set \in SUBSET Listen, NEW order \in SetToSeqs(set)
  PROVE  [i \in 1..Len(order) |-> [op |-> "add", listen |-> order[i]]] \o <<[op |-> "sync"]>>
           \in Seq(Item)
<1> DEFINE n == Cardinality(set)
           adds == [i \in 1..Len(order) |-> [op |-> "add", listen |-> order[i]]]
<1>1. n \in Nat  BY ListenAssumption, FS_Subset, FS_CardinalityType
<1>2. order \in [1..n -> set]  BY DEF SetToSeqs
<1>3. order \in Seq(Listen) /\ Len(order) = n
  <2> HIDE DEF n
  <2> QED  BY <1>1, <1>2
<1>4. \A i \in 1..Len(order) : [op |-> "add", listen |-> order[i]] \in Item  BY <1>3 DEF Item
<1>5. adds \in Seq(Item)
  <2> HIDE DEF n
  <2> QED  BY <1>1, <1>3, <1>4
<1>6. [op |-> "sync"] \in Item  BY DEF Item
<1>7. <<[op |-> "sync"]>> \in Seq(Item)  BY <1>6
<1> HIDE DEF adds
<1>8. adds \o <<[op |-> "sync"]>> \in Seq(Item)  BY <1>5, <1>7
<1> QED  BY <1>8 DEF adds

(* add and remove keep the types of what they change.                      *)
LEMMA AddRemoveType ==
  ASSUME TypeOK, NEW m \in M, NEW l \in Listen, add(m, l) \/ remove(m, l)
  PROVE  proxies' \in [M -> SUBSET Listen] /\ bound' \in [Listen -> M \cup {NoOne}]
<1>0. proxies \in [M -> SUBSET Listen] /\ bound \in [Listen -> M \cup {NoOne}]  BY DEF TypeOK
<1>1. CASE proxies' = proxies /\ bound' = bound  BY <1>0, <1>1
<1>2. CASE /\ proxies' = [proxies EXCEPT ![m] = @ \cup {l}]
           /\ bound' = [bound EXCEPT ![l] = m]
  BY <1>0, <1>2
<1>3. CASE /\ proxies' = [proxies EXCEPT ![m] = @ \ {l}]
           /\ bound' = [bound EXCEPT ![l] = NoOne]
  BY <1>0, <1>3
<1> QED  BY <1>1, <1>2, <1>3 DEF add, remove

(* What discovery's scan does to the managers, for the slots f it picks.   *)
New == {p \in socket : peers[p] = NoOne}
Gone == {p \in Peer \ socket : peers[p] # NoOne}

(* A scan gives each new peer a free slot of its own and forgets the gone  *)
(* ones.                                                                   *)
LEMMA ScanStep ==
  ASSUME TypeOK, Scan
  PROVE  \E f \in [New -> {m \in M : ~Live(m)}] :
           /\ \A p, r \in New : p # r => f[p] # f[r]
           /\ peers' = [p \in Peer |-> IF p \in New THEN f[p]
                                       ELSE IF p \in Gone THEN NoOne ELSE peers[p]]
           /\ \A m \in M : m \in {f[p] : p \in New}
                             => mpc'[m] = "dial" /\ mpeer'[m] \in New /\ f[mpeer'[m]] = m
           /\ \A m \in M : m \notin {f[p] : p \in New}
                             => mpc'[m] = mpc[m] /\ mpeer'[m] = mpeer[m]
           /\ DOMAIN mpc' = M /\ DOMAIN mpeer' = M
<1>1. PICK f \in Slots(New) :
        LET started == {f[p] : p \in New} IN
        /\ peers' = [p \in Peer |-> IF p \in New THEN f[p]
                                    ELSE IF p \in Gone THEN NoOne ELSE peers[p]]
        /\ mpc' = [m \in M |-> IF m \in started THEN "dial" ELSE mpc[m]]
        /\ mpeer' = [m \in M |-> IF m \in started THEN CHOOSE p \in New : f[p] = m ELSE mpeer[m]]
  BY DEF Scan, New, Gone
<1>2. f \in [New -> {m \in M : ~Live(m)}] /\ \A p, r \in New : p # r => f[p] # f[r]
  BY DEF Slots
<1>3. ASSUME NEW m \in M, m \in {f[p] : p \in New}
      PROVE  mpc'[m] = "dial" /\ mpeer'[m] \in New /\ f[mpeer'[m]] = m
  <2>1. mpeer'[m] = CHOOSE p \in New : f[p] = m  BY <1>1, <1>3
  <2>2. \E p \in New : f[p] = m  BY <1>3
  <2> QED  BY <1>1, <1>3, <2>1, <2>2
<1>4. \A m \in M : m \notin {f[p] : p \in New} => mpc'[m] = mpc[m] /\ mpeer'[m] = mpeer[m]
  BY <1>1
<1>5. DOMAIN mpc' = M /\ DOMAIN mpeer' = M  BY <1>1
<1> QED  BY <1>1, <1>2, <1>3, <1>4, <1>5

----------------------------------------------------------------------------

THEOREM TypeCorrect == SafetySpec => []TypeOK
<1>1. Init => TypeOK
  <2> SUFFICES ASSUME Init PROVE TypeOK  OBVIOUS
  <2> USE DEF Init, TypeOK
  <2>1. q \in [M -> Seq(Item)]  OBVIOUS
  <2> QED  BY <2>1
<1>2. TypeOK /\ [Next]_vars => TypeOK'
  <2> SUFFICES ASSUME TypeOK, [Next]_vars PROVE TypeOK'  OBVIOUS
  <2>1. ASSUME NEW p \in Peer, NEW item \in Item PROVE Tell(p, item) \in [M -> Seq(Item)]
    BY DEF Tell, TypeOK
  <2>2. ASSUME NEW p \in Peer, NEW l \in Listen, ListenAdd(p, l) PROVE TypeOK'
    <3>1. [op |-> "add", listen |-> l] \in Item  BY DEF Item
    <3>2. q' \in [M -> Seq(Item)]  BY <2>1, <2>2, <3>1 DEF ListenAdd
    <3> QED  BY <2>2, <3>2 DEF ListenAdd, TypeOK
  <2>3. ASSUME NEW p \in Peer, NEW l \in Listen, ListenRemove(p, l) PROVE TypeOK'
    <3>1. [op |-> "remove", listen |-> l] \in Item  BY DEF Item
    <3>2. q' \in [M -> Seq(Item)]  BY <2>1, <2>3, <3>1 DEF ListenRemove
    <3> QED  BY <2>3, <3>2 DEF ListenRemove, TypeOK
  <2>4. ASSUME NEW p \in Peer, PeerDown(p) \/ RemoveStale(p) \/ PeerUp(p) PROVE TypeOK'
    BY <2>4 DEF PeerDown, RemoveStale, PeerUp, managerVars, TypeOK
  <2>5. ASSUME NEW l \in Listen, OwnOpen(l) \/ OwnClose(l) PROVE TypeOK'
    BY <2>5 DEF OwnOpen, OwnClose, managerVars, TypeOK
  <2>6. ASSUME NEW m \in M, Dial(m) PROVE TypeOK'
    <3>1. mpeer[m] \in Peer  BY <2>6 DEF Dial, TypeOK
    <3>2. listens[mpeer[m]] \in SUBSET Listen  BY <3>1 DEF TypeOK
    <3>3. PICK order \in SetToSeqs(listens[mpeer[m]]) :
            q' = [q EXCEPT ![m] = [i \in 1..Len(order) |-> [op |-> "add", listen |-> order[i]]]
                                  \o <<[op |-> "sync"]>>]
      BY <2>6 DEF Dial
    <3>4. [i \in 1..Len(order) |-> [op |-> "add", listen |-> order[i]]] \o <<[op |-> "sync"]>>
            \in Seq(Item)
      BY <3>2, SnapshotType
    <3>5. q' \in [M -> Seq(Item)]  BY <3>3, <3>4 DEF TypeOK
    <3> QED  BY <2>6, <3>5 DEF Dial, envVars, TypeOK
  <2>7. ASSUME NEW m \in M, WatchEnds(m) PROVE TypeOK'
    <3>1. q' \in [M -> Seq(Item)]  BY <2>7 DEF WatchEnds, TypeOK
    <3> QED  BY <2>7, <3>1 DEF WatchEnds, envVars, TypeOK
  <2>8. ASSUME NEW m \in M, Retry(m) PROVE TypeOK'  BY <2>8 DEF Retry, envVars, TypeOK
  <2>9. ASSUME NEW m \in M, NEW op, Received(m, op)
        PROVE  /\ q' \in [M -> Seq(Item)] /\ Head(q[m]) \in Item /\ Head(q[m]).op = op
    <3>1. q[m] \in Seq(Item) /\ q[m] # <<>>  BY <2>9 DEF Received, TypeOK
    <3>2. Head(q[m]) \in Item /\ Tail(q[m]) \in Seq(Item)  BY <3>1
    <3> QED  BY <2>9, <3>2 DEF Received, TypeOK
  <2>10. ASSUME NEW m \in M, ReceiveAdd(m) PROVE TypeOK'
    <3>1. q' \in [M -> Seq(Item)] /\ Head(q[m]).listen \in Listen
      BY <2>9, <2>10 DEF ReceiveAdd, Item
    <3>2. proxies' \in [M -> SUBSET Listen] /\ bound' \in [Listen -> M \cup {NoOne}]
      BY <2>10, <3>1, AddRemoveType DEF ReceiveAdd
    <3>3. seen' \in [M -> SUBSET Listen] /\ heard' \in [M -> SUBSET Listen]
      BY <2>10, <3>1 DEF ReceiveAdd, TypeOK
    <3> QED  BY <2>10, <3>1, <3>2, <3>3 DEF ReceiveAdd, envVars, TypeOK
  <2>11. ASSUME NEW m \in M, ReceiveRemove(m) PROVE TypeOK'
    <3>1. q' \in [M -> Seq(Item)] /\ Head(q[m]).listen \in Listen
      BY <2>9, <2>11 DEF ReceiveRemove, Item
    <3>2. proxies' \in [M -> SUBSET Listen] /\ bound' \in [Listen -> M \cup {NoOne}]
      BY <2>11, <3>1, AddRemoveType DEF ReceiveRemove
    <3> QED  BY <2>11, <3>1, <3>2 DEF ReceiveRemove, envVars, TypeOK
  <2>12. ASSUME NEW m \in M, ReceiveSync(m) PROVE TypeOK'
    <3>1. q' \in [M -> Seq(Item)]  BY <2>9, <2>12 DEF ReceiveSync
    <3> QED  BY <2>12, <3>1 DEF ReceiveSync, envVars, TypeOK
  <2>13. ASSUME NEW m \in M, Reconcile(m) PROVE TypeOK'
    <3>1. CASE toClose[m] = {}  BY <2>13, <3>1 DEF Reconcile, envVars, TypeOK
    <3>2. CASE toClose[m] # {}
      <4>1. PICK l \in toClose[m] : toClose' = [toClose EXCEPT ![m] = @ \ {l}] /\ remove(m, l)
        BY <2>13, <3>2 DEF Reconcile
      <4>2. l \in Listen  BY DEF TypeOK
      <4>3. proxies' \in [M -> SUBSET Listen] /\ bound' \in [Listen -> M \cup {NoOne}]
        BY <4>1, <4>2, AddRemoveType
      <4> QED  BY <2>13, <3>2, <4>1, <4>3 DEF Reconcile, envVars, TypeOK
    <3> QED  BY <3>1, <3>2
  <2>14. ASSUME NEW m \in M, stopAll(m) PROVE TypeOK'  BY <2>14 DEF stopAll, envVars, TypeOK
  <2>15. ASSUME NEW m \in M, Stopping(m) PROVE TypeOK'
    <3>1. CASE toClose[m] = {}  BY <2>15, <3>1 DEF Stopping, envVars, TypeOK
    <3>2. CASE toClose[m] # {}
      <4>1. PICK l \in toClose[m] : /\ toClose' = [toClose EXCEPT ![m] = @ \ {l}]
                                    /\ bound' = [bound EXCEPT ![l] = NoOne]
        BY <2>15, <3>2 DEF Stopping
      <4>2. l \in Listen  BY DEF TypeOK
      <4> QED  BY <2>15, <3>2, <4>1, <4>2 DEF Stopping, envVars, TypeOK
    <3> QED  BY <3>1, <3>2
  <2>16. CASE Scan
    <3>1. PICK f \in [New -> {m \in M : ~Live(m)}] :
            /\ peers' = [p \in Peer |-> IF p \in New THEN f[p]
                                        ELSE IF p \in Gone THEN NoOne ELSE peers[p]]
            /\ \A m \in M : m \in {f[p] : p \in New} => mpc'[m] = "dial" /\ mpeer'[m] \in New
            /\ \A m \in M : m \notin {f[p] : p \in New}
                              => mpc'[m] = mpc[m] /\ mpeer'[m] = mpeer[m]
      BY <2>16, ScanStep
    <3>2. peers' \in [Peer -> M \cup {NoOne}]  BY <3>1 DEF TypeOK, New
    <3>3. New \subseteq Peer /\ Gone \subseteq Peer  BY DEF New, Gone, TypeOK
    <3>4. mpc' \in [M -> {"free", "dial", "stream", "reconcile", "wait", "stopping"}]
      BY <2>16 DEF Scan, TypeOK
    <3>5. mpeer' \in [M -> Peer \cup {NoPeer}]
      <4>1. DOMAIN mpeer' = M /\ mpeer' = [m \in M |-> mpeer'[m]]  BY <2>16 DEF Scan
      <4>2. \A m \in M : mpeer'[m] \in Peer \cup {NoPeer}  BY <3>1, <3>3 DEF TypeOK
      <4> QED  BY <4>1, <4>2
    <3>6. cancelled' \in SUBSET M  BY <2>16 DEF Scan, TypeOK
    <3> QED  BY <2>16, <3>2, <3>4, <3>5, <3>6 DEF Scan, envVars, TypeOK
  <2>17. CASE UNCHANGED vars  BY <2>17 DEF vars, envVars, managerVars, TypeOK
  <2> QED  BY <2>2, <2>3, <2>4, <2>5, <2>6, <2>7, <2>8, <2>10, <2>11, <2>12, <2>13, <2>14, <2>15,
              <2>16, <2>17 DEF Next, Environment, Manager
<1> QED  BY <1>1, <1>2, PTL DEF SafetySpec

----------------------------------------------------------------------------
(* The maps, the lists and the addresses.                                  *)

(* toClose is part of the map while reconcile works on it, and is empty    *)
(* outside reconcile and stopAll; stopAll has emptied the map.             *)
ListsInv ==
  \A m \in M :
    /\ mpc[m] = "reconcile" => toClose[m] \subseteq proxies[m]
    /\ mpc[m] \notin {"reconcile", "stopping"} => toClose[m] = {}
    /\ mpc[m] \in {"stopping", "free"} => proxies[m] = {}

BoundInv == ProxiesAreBound /\ OwnUndisturbed /\ ListsInv

(* add keeps the invariant while the manager reads its stream.             *)
LEMMA AddBinds ==
  ASSUME TypeOK, BoundInv, NEW m \in M, NEW l \in Listen, add(m, l), mpc[m] = "stream",
         UNCHANGED <<mpc, toClose, own>>
  PROVE  BoundInv'
<1> USE DEF TypeOK
<1>1. CASE UNCHANGED <<proxies, bound>>
  BY <1>1 DEF BoundInv, ProxiesAreBound, OwnUndisturbed, ListsInv
<1>2. CASE /\ l \notin proxies[m] /\ Free(l)
           /\ proxies' = [proxies EXCEPT ![m] = @ \cup {l}]
           /\ bound' = [bound EXCEPT ![l] = m]
  <2>1. \A n \in M : l \notin proxies[n] \cup toClose[n]
    BY <1>2, MAssumption DEF Free, BoundInv, ProxiesAreBound
  <2>2. ProxiesAreBound'  BY <1>2, <2>1 DEF BoundInv, ProxiesAreBound
  <2>3. OwnUndisturbed'  BY <1>2 DEF BoundInv, OwnUndisturbed, Free
  <2>4. ListsInv'  BY <1>2 DEF BoundInv, ListsInv
  <2> QED  BY <2>2, <2>3, <2>4 DEF BoundInv
<1> QED  BY <1>1, <1>2 DEF add

(* No listener is leaked, shared or taken from the container's own         *)
(* processes, for any number of peers, listens and overlapping managers.   *)
THEOREM ProxiesBound == SafetySpec => []AddressesOwned
<1>1. Init => BoundInv
  BY MAssumption DEF Init, BoundInv, ProxiesAreBound, OwnUndisturbed, ListsInv
<1>2. TypeOK /\ TypeOK' /\ BoundInv /\ [Next]_vars => BoundInv'
  <2> SUFFICES ASSUME TypeOK, TypeOK', BoundInv, [Next]_vars PROVE BoundInv'  OBVIOUS
  <2> USE MAssumption
  <2>1. CASE UNCHANGED <<own, bound, mpc, proxies, toClose>>
    BY <2>1 DEF BoundInv, ProxiesAreBound, OwnUndisturbed, ListsInv
  <2>12. ASSUME UNCHANGED <<own, bound>>, ListsInv',
                \A n \in M : proxies'[n] \cup toClose'[n] = proxies[n] \cup toClose[n]
         PROVE  BoundInv'
    BY <2>12 DEF BoundInv, ProxiesAreBound, OwnUndisturbed
  <2>2. ASSUME NEW l \in Listen, OwnOpen(l) \/ OwnClose(l) PROVE BoundInv'
    BY <2>2 DEF OwnOpen, OwnClose, Free, managerVars, BoundInv, ProxiesAreBound, OwnUndisturbed,
                ListsInv, TypeOK
  <2>3. ASSUME NEW m \in M, Dial(m) \/ WatchEnds(m) \/ Retry(m) PROVE BoundInv'
    <3>1. UNCHANGED <<own, bound, proxies, toClose>>
      BY <2>3 DEF Dial, WatchEnds, Retry, envVars
    <3>2. mpc[m] \in {"dial", "stream", "wait"}  BY <2>3 DEF Dial, WatchEnds, Retry
    <3>3. \E v \in {"dial", "stream", "wait"} : mpc' = [mpc EXCEPT ![m] = v]
      BY <2>3 DEF Dial, WatchEnds, Retry
    <3>4. ListsInv'  BY <3>1, <3>2, <3>3 DEF BoundInv, ListsInv, TypeOK
    <3> QED  BY <2>12, <3>1, <3>4
  <2>4. ASSUME NEW m \in M, ReceiveAdd(m) PROVE BoundInv'
    <3>1. q[m] \in Seq(Item) /\ q[m] # <<>> /\ Head(q[m]).op = "add"
      BY <2>4 DEF ReceiveAdd, Received, TypeOK
    <3>2. Head(q[m]).listen \in Listen  BY <3>1 DEF Item
    <3> QED  BY <2>4, <3>2, AddBinds DEF ReceiveAdd, Received, envVars
  <2>5. ASSUME NEW m \in M, NEW l \in Listen, l \in proxies[m],
               proxies' = [proxies EXCEPT ![m] = @ \ {l}], bound' = [bound EXCEPT ![l] = NoOne],
               toClose' = [toClose EXCEPT ![m] = @ \ {l}], mpc' = mpc, own' = own,
               mpc[m] \in {"stream", "reconcile"}
        PROVE  BoundInv'
    <3>1. bound[l] = m  BY <2>5 DEF BoundInv, ProxiesAreBound
    <3>2. \A n \in M : n # m => l \notin proxies[n] \cup toClose[n]
      BY <3>1 DEF BoundInv, ProxiesAreBound
    <3>3. ProxiesAreBound'  BY <2>5, <3>2 DEF BoundInv, ProxiesAreBound, TypeOK
    <3>4. OwnUndisturbed'  BY <2>5 DEF BoundInv, OwnUndisturbed, TypeOK
    <3>5. ListsInv'  BY <2>5 DEF BoundInv, ListsInv, TypeOK
    <3> QED  BY <3>3, <3>4, <3>5 DEF BoundInv
  <2>6. ASSUME NEW m \in M, ReceiveRemove(m) PROVE BoundInv'
    <3>1. q[m] \in Seq(Item) /\ q[m] # <<>> /\ Head(q[m]).op = "remove"
      BY <2>6 DEF ReceiveRemove, Received, TypeOK
    <3>2. Head(q[m]).listen \in Listen  BY <3>1 DEF Item
    <3>3. CASE Head(q[m]).listen \in proxies[m]
      <4>1. toClose[m] = {}  BY <2>6 DEF ReceiveRemove, Received, BoundInv, ListsInv
      <4>2. toClose' = [toClose EXCEPT ![m] = @ \ {Head(q[m]).listen}]
        BY <2>6, <4>1 DEF ReceiveRemove, TypeOK
      <4> QED  BY <2>5, <2>6, <3>2, <3>3, <4>2 DEF ReceiveRemove, Received, remove, envVars
    <3>4. CASE Head(q[m]).listen \notin proxies[m]
      BY <2>1, <2>6, <3>4 DEF ReceiveRemove, remove, envVars
    <3> QED  BY <3>3, <3>4
  <2>7. ASSUME NEW m \in M, ReceiveSync(m) PROVE BoundInv'
    <3>1. toClose[m] = {}  BY <2>7 DEF ReceiveSync, Received, BoundInv, ListsInv
    <3>2. /\ UNCHANGED <<own, bound, proxies>>
          /\ toClose' = [toClose EXCEPT ![m] = proxies[m] \ seen[m]]
          /\ mpc' = [mpc EXCEPT ![m] = "reconcile"]
      BY <2>7 DEF ReceiveSync, envVars
    <3>3. \A n \in M : proxies'[n] \cup toClose'[n] = proxies[n] \cup toClose[n]
      BY <3>1, <3>2 DEF TypeOK
    <3>4. ListsInv'  BY <3>2 DEF BoundInv, ListsInv, TypeOK
    <3> QED  BY <2>12, <3>2, <3>3, <3>4
  <2>8. ASSUME NEW m \in M, Reconcile(m) PROVE BoundInv'
    <3>1. CASE toClose[m] = {}
      <4>1. UNCHANGED <<own, bound, proxies, toClose>> /\ mpc' = [mpc EXCEPT ![m] = "stream"]
        BY <2>8, <3>1 DEF Reconcile, envVars
      <4>2. ListsInv'  BY <3>1, <4>1 DEF BoundInv, ListsInv, TypeOK
      <4> QED  BY <2>12, <4>1, <4>2
    <3>2. CASE toClose[m] # {}
      <4>1. PICK l \in toClose[m] : toClose' = [toClose EXCEPT ![m] = @ \ {l}] /\ remove(m, l)
        BY <2>8, <3>2 DEF Reconcile
      <4>2. l \in proxies[m] /\ l \in Listen
        BY <2>8, <4>1 DEF Reconcile, BoundInv, ListsInv, TypeOK
      <4> QED  BY <2>5, <2>8, <3>2, <4>1, <4>2 DEF Reconcile, remove, envVars
    <3> QED  BY <3>1, <3>2
  <2>9. ASSUME NEW m \in M, stopAll(m) PROVE BoundInv'
    <3>1. toClose[m] = {}  BY <2>9 DEF stopAll, BoundInv, ListsInv
    <3> QED  BY <2>9, <3>1 DEF stopAll, envVars, BoundInv, ProxiesAreBound, OwnUndisturbed,
                               ListsInv, TypeOK
  <2>10. ASSUME NEW m \in M, Stopping(m) PROVE BoundInv'
    <3>1. CASE toClose[m] = {}
      <4>1. /\ UNCHANGED <<own, bound, proxies, toClose>> /\ mpc[m] = "stopping"
            /\ mpc' = [mpc EXCEPT ![m] = "free"]
        BY <2>10, <3>1 DEF Stopping, envVars
      <4>2. ListsInv'  BY <3>1, <4>1 DEF BoundInv, ListsInv, TypeOK
      <4> QED  BY <2>12, <4>1, <4>2
    <3>2. CASE toClose[m] # {}
      <4>1. PICK l \in toClose[m] : /\ toClose' = [toClose EXCEPT ![m] = @ \ {l}]
                                    /\ bound' = [bound EXCEPT ![l] = NoOne]
        BY <2>10, <3>2 DEF Stopping
      <4>2. l \in Listen /\ bound[l] = m  BY <4>1 DEF BoundInv, ProxiesAreBound, TypeOK
      <4>3. proxies[m] = {}  BY <2>10 DEF Stopping, BoundInv, ListsInv
      <4>4. \A n \in M : n # m => l \notin proxies[n] \cup toClose[n]
        BY <4>2 DEF BoundInv, ProxiesAreBound
      <4>5. proxies' = proxies /\ mpc' = mpc /\ own' = own  BY <2>10, <3>2 DEF Stopping, envVars
      <4>6. ProxiesAreBound'  BY <4>1, <4>2, <4>3, <4>4, <4>5 DEF BoundInv, ProxiesAreBound, TypeOK
      <4>7. OwnUndisturbed'  BY <4>1, <4>2, <4>5 DEF BoundInv, OwnUndisturbed, TypeOK
      <4>8. ListsInv'  BY <2>10, <4>1, <4>5 DEF Stopping, BoundInv, ListsInv, TypeOK
      <4> QED  BY <4>6, <4>7, <4>8 DEF BoundInv
    <3> QED  BY <3>1, <3>2
  <2>11. CASE Scan
    <3>1. \A m \in M : mpc'[m] = mpc[m] \/ (mpc[m] = "free" /\ mpc'[m] = "dial")
      <4>1. PICK f \in [New -> {m \in M : ~Live(m)}] :
              /\ \A m \in M : m \in {f[p] : p \in New} => mpc'[m] = "dial"
              /\ \A m \in M : m \notin {f[p] : p \in New} => mpc'[m] = mpc[m]
        BY <2>11, ScanStep
      <4>2. \A m \in M : m \in {f[p] : p \in New} => mpc[m] = "free"  BY DEF Live
      <4> QED  BY <4>1, <4>2
    <3> QED  BY <2>11, <3>1 DEF Scan, envVars, BoundInv, ProxiesAreBound, OwnUndisturbed, ListsInv
  <2> QED  BY <2>1, <2>2, <2>3, <2>4, <2>6, <2>7, <2>8, <2>9, <2>10, <2>11
           DEF Next, Environment, Manager, vars, envVars, managerVars, ListenAdd, ListenRemove,
               PeerDown, RemoveStale, PeerUp
<1>3. BoundInv => AddressesOwned  BY DEF BoundInv, AddressesOwned
<1> QED  BY <1>1, <1>2, <1>3, TypeCorrect, PTL DEF SafetySpec

----------------------------------------------------------------------------
(* Reconnections.  What seen holds and heard does not was withdrawn, and   *)
(* its proxy closed; reconcile leaves only what seen holds.                *)

FreshInv ==
  \A m \in M :
    /\ proxies[m] \cap seen[m] \subseteq heard[m]
    /\ mpc[m] = "reconcile" => proxies[m] \ toClose[m] \subseteq seen[m]
    /\ synced[m] /\ mpc[m] = "stream" => proxies[m] \subseteq heard[m]
    /\ mpc[m] \notin {"stream", "reconcile"} => ~synced[m]

(* Only what the step does to m matters.                                   *)
LEMMA FreshStep ==
  ASSUME TypeOK, FreshInv, NEW m \in M,
         \A n \in M \ {m} : /\ proxies'[n] = proxies[n] /\ seen'[n] = seen[n]
                            /\ heard'[n] = heard[n] /\ mpc'[n] = mpc[n]
                            /\ toClose'[n] = toClose[n] /\ synced'[n] = synced[n],
         /\ proxies'[m] \cap seen'[m] \subseteq heard'[m]
         /\ mpc'[m] = "reconcile" => proxies'[m] \ toClose'[m] \subseteq seen'[m]
         /\ synced'[m] /\ mpc'[m] = "stream" => proxies'[m] \subseteq heard'[m]
         /\ mpc'[m] \notin {"stream", "reconcile"} => ~synced'[m]
  PROVE  FreshInv'
BY DEF FreshInv

(* After a connection's sync, no proxy is left from an earlier connection, *)
(* for any history of connections.                                         *)
THEOREM NothingStale == SafetySpec => []NoStaleProxy
<1>1. Init => FreshInv  BY DEF Init, FreshInv
<1>2. TypeOK /\ FreshInv /\ [Next]_vars => FreshInv'
  <2> SUFFICES ASSUME TypeOK, FreshInv, [Next]_vars PROVE FreshInv'  OBVIOUS
  <2>1. CASE UNCHANGED <<mpc, seen, synced, proxies, toClose, heard>>  BY <2>1 DEF FreshInv
  <2>2. ASSUME NEW m \in M, Dial(m) PROVE FreshInv'
    BY <2>2, FreshStep DEF Dial, FreshInv, TypeOK
  <2>3. ASSUME NEW m \in M, WatchEnds(m) PROVE FreshInv'
    BY <2>3, FreshStep DEF WatchEnds, FreshInv, TypeOK
  <2>4. ASSUME NEW m \in M, Retry(m) PROVE FreshInv'
    BY <2>4, FreshStep DEF Retry, FreshInv, TypeOK
  <2>5. ASSUME NEW m \in M, ReceiveAdd(m) PROVE FreshInv'
    <3> DEFINE l == Head(q[m]).listen
    <3>1. mpc[m] = "stream" /\ UNCHANGED <<mpc, synced, toClose>>
      BY <2>5 DEF ReceiveAdd, Received
    <3>2. heard' = [heard EXCEPT ![m] = @ \cup {l}]  BY <2>5 DEF ReceiveAdd
    <3>3. seen' = seen \/ seen' = [seen EXCEPT ![m] = @ \cup {l}]  BY <2>5 DEF ReceiveAdd
    <3>4. proxies' = proxies \/ proxies' = [proxies EXCEPT ![m] = @ \cup {l}]
      BY <2>5 DEF ReceiveAdd, add
    <3> HIDE DEF l
    <3>5. /\ proxies'[m] \subseteq proxies[m] \cup {l} /\ seen'[m] \subseteq seen[m] \cup {l}
          /\ heard'[m] = heard[m] \cup {l}
          /\ \A n \in M \ {m} : /\ proxies'[n] = proxies[n] /\ seen'[n] = seen[n]
                               /\ heard'[n] = heard[n]
      BY <3>2, <3>3, <3>4 DEF TypeOK
    <3> QED  BY <3>1, <3>5, FreshStep DEF FreshInv
  <2>6. ASSUME NEW m \in M, ReceiveRemove(m) PROVE FreshInv'
    <3> DEFINE l == Head(q[m]).listen
    <3>1. mpc[m] = "stream" /\ UNCHANGED <<mpc, seen, synced, toClose>>
      BY <2>6 DEF ReceiveRemove, Received
    <3>2. heard' = [heard EXCEPT ![m] = @ \ {l}]  BY <2>6 DEF ReceiveRemove
    <3>3. \/ proxies' = proxies /\ l \notin proxies[m]
          \/ proxies' = [proxies EXCEPT ![m] = @ \ {l}]
      BY <2>6 DEF ReceiveRemove, remove
    <3> HIDE DEF l
    <3>4. /\ proxies'[m] \subseteq proxies[m] \ {l} /\ heard'[m] = heard[m] \ {l}
          /\ \A n \in M \ {m} : proxies'[n] = proxies[n] /\ heard'[n] = heard[n]
      BY <3>2, <3>3 DEF TypeOK
    <3> QED  BY <3>1, <3>4, FreshStep DEF FreshInv
  <2>7. ASSUME NEW m \in M, ReceiveSync(m) PROVE FreshInv'
    <3>1. /\ UNCHANGED <<seen, synced, proxies, heard>>
          /\ mpc' = [mpc EXCEPT ![m] = "reconcile"]
          /\ toClose' = [toClose EXCEPT ![m] = proxies[m] \ seen[m]]
      BY <2>7 DEF ReceiveSync
    <3> QED  BY <3>1, FreshStep DEF FreshInv, TypeOK
  <2>8. ASSUME NEW m \in M, Reconcile(m) PROVE FreshInv'
    <3>1. mpc[m] = "reconcile" /\ UNCHANGED <<seen, heard>>  BY <2>8 DEF Reconcile
    <3>2. CASE toClose[m] = {}
      <4>1. /\ mpc' = [mpc EXCEPT ![m] = "stream"] /\ UNCHANGED <<proxies, toClose>>
            /\ synced' = [synced EXCEPT ![m] = TRUE]
        BY <2>8, <3>2 DEF Reconcile
      <4>2. proxies[m] \subseteq heard[m]  BY <3>1, <3>2 DEF FreshInv
      <4> QED  BY <3>1, <4>1, <4>2, FreshStep DEF FreshInv, TypeOK
    <3>3. CASE toClose[m] # {}
      <4>1. PICK l \in toClose[m] : toClose' = [toClose EXCEPT ![m] = @ \ {l}] /\ remove(m, l)
        BY <2>8, <3>3 DEF Reconcile
      <4>2. \/ proxies' = proxies /\ l \notin proxies[m]
            \/ proxies' = [proxies EXCEPT ![m] = @ \ {l}]
        BY <4>1 DEF remove
      <4>3. /\ proxies'[m] \subseteq proxies[m] \ {l} /\ toClose'[m] = toClose[m] \ {l}
            /\ \A n \in M \ {m} : proxies'[n] = proxies[n] /\ toClose'[n] = toClose[n]
        BY <4>1, <4>2 DEF TypeOK
      <4>4. UNCHANGED <<mpc, synced>>  BY <2>8, <3>3 DEF Reconcile
      <4> QED  BY <3>1, <4>3, <4>4, FreshStep DEF FreshInv
    <3> QED  BY <3>2, <3>3
  <2>9. ASSUME NEW m \in M, stopAll(m) PROVE FreshInv'
    <3>1. /\ UNCHANGED <<seen, synced, heard>> /\ mpc[m] \in {"dial", "wait"}
          /\ mpc' = [mpc EXCEPT ![m] = "stopping"] /\ proxies' = [proxies EXCEPT ![m] = {}]
          /\ toClose' = [toClose EXCEPT ![m] = proxies[m]]
      BY <2>9 DEF stopAll
    <3> QED  BY <3>1, FreshStep DEF FreshInv, TypeOK
  <2>10. ASSUME NEW m \in M, Stopping(m) PROVE FreshInv'
    <3>1. mpc[m] = "stopping" /\ UNCHANGED <<seen, synced, proxies, heard>>  BY <2>10 DEF Stopping
    <3>2. mpc' = mpc \/ mpc' = [mpc EXCEPT ![m] = "free"]  BY <2>10 DEF Stopping
    <3>3. \A n \in M \ {m} : toClose'[n] = toClose[n]  BY <2>10 DEF Stopping, TypeOK
    <3> QED  BY <3>1, <3>2, <3>3, FreshStep DEF FreshInv, TypeOK
  <2>11. CASE Scan
    <3>1. \A m \in M : mpc'[m] = mpc[m] \/ (mpc[m] = "free" /\ mpc'[m] = "dial")
      <4>1. PICK f \in [New -> {m \in M : ~Live(m)}] :
              /\ \A m \in M : m \in {f[p] : p \in New} => mpc'[m] = "dial"
              /\ \A m \in M : m \notin {f[p] : p \in New} => mpc'[m] = mpc[m]
        BY <2>11, ScanStep
      <4>2. \A m \in M : m \in {f[p] : p \in New} => mpc[m] = "free"  BY DEF Live
      <4> QED  BY <4>1, <4>2
    <3> QED  BY <2>11, <3>1 DEF Scan, FreshInv
  <2> QED  BY <2>1, <2>2, <2>3, <2>4, <2>5, <2>6, <2>7, <2>8, <2>9, <2>10, <2>11
           DEF Next, Environment, Manager, vars, envVars, managerVars, ListenAdd, ListenRemove,
               PeerDown, RemoveStale, PeerUp, OwnOpen, OwnClose
<1>3. FreshInv => NoStaleProxy  BY DEF FreshInv, NoStaleProxy
<1> QED  BY <1>1, <1>2, <1>3, TypeCorrect, PTL DEF SafetySpec

----------------------------------------------------------------------------
(* Discovery knows exactly the managers that are not cancelled.            *)

KnownInv ==
  /\ ManagersAreKnown
  /\ \A p \in Peer : peers[p] # NoOne
       => Live(peers[p]) /\ mpeer[peers[p]] = p /\ peers[p] \notin cancelled
  /\ \A m \in cancelled : Live(m)
  /\ \A m \in M : mpc[m] = "stopping" => m \in cancelled

THEOREM ManagersKnown == SafetySpec => []ManagersAreKnown
<1> USE MAssumption, PeerAssumption
<1>1. Init => KnownInv  BY DEF Init, KnownInv, ManagersAreKnown, Live
<1>2. TypeOK /\ KnownInv /\ [Next]_vars => KnownInv'
  <2> SUFFICES ASSUME TypeOK, KnownInv, [Next]_vars PROVE KnownInv'  OBVIOUS
  <2>1. ASSUME UNCHANGED <<peers, mpeer, cancelled>>,
               \A m \in M : /\ Live(m)' <=> Live(m)
                            /\ mpc'[m] = "stopping" => mpc[m] = "stopping" \/ m \in cancelled
        PROVE  KnownInv'
    BY <2>1 DEF KnownInv, ManagersAreKnown, TypeOK
  <2>2. ASSUME NEW m \in M, NEW v \in {"dial", "stream", "reconcile", "wait", "stopping"},
               mpc' = [mpc EXCEPT ![m] = v], mpc[m] # "free", UNCHANGED <<peers, mpeer, cancelled>>,
               v = "stopping" => m \in cancelled
        PROVE  KnownInv'
    <3>1. \A n \in M : /\ Live(n)' <=> Live(n)
                       /\ mpc'[n] = "stopping" => mpc[n] = "stopping" \/ n \in cancelled
      BY <2>2 DEF Live, TypeOK
    <3> QED  BY <2>1, <2>2, <3>1
  <2>3. CASE UNCHANGED <<peers, mpeer, cancelled, mpc>>  BY <2>1, <2>3 DEF Live
  <2>4. ASSUME NEW m \in M, Dial(m) \/ WatchEnds(m) \/ Retry(m) PROVE KnownInv'
    <3>1. mpc[m] # "free" /\ UNCHANGED <<peers, mpeer, cancelled>>
      BY <2>4 DEF Dial, WatchEnds, Retry
    <3>2. \E v \in {"dial", "stream", "wait"} : mpc' = [mpc EXCEPT ![m] = v]
      BY <2>4 DEF Dial, WatchEnds, Retry
    <3> QED  BY <2>2, <3>1, <3>2
  <2>5. ASSUME NEW m \in M, ReceiveSync(m) \/ stopAll(m) PROVE KnownInv'
    <3>1. mpc[m] # "free" /\ UNCHANGED <<peers, mpeer, cancelled>>
      BY <2>5 DEF ReceiveSync, Received, stopAll
    <3>2. \/ mpc' = [mpc EXCEPT ![m] = "reconcile"]
          \/ mpc' = [mpc EXCEPT ![m] = "stopping"] /\ m \in cancelled
      BY <2>5 DEF ReceiveSync, stopAll
    <3> QED  BY <2>2, <3>1, <3>2
  <2>6. ASSUME NEW m \in M, Reconcile(m) PROVE KnownInv'
    <3>1. mpc[m] # "free" /\ UNCHANGED <<peers, mpeer, cancelled>>  BY <2>6 DEF Reconcile
    <3>2. mpc' = mpc \/ mpc' = [mpc EXCEPT ![m] = "stream"]  BY <2>6 DEF Reconcile
    <3> QED  BY <2>2, <2>3, <3>1, <3>2
  <2>7. ASSUME NEW m \in M, Stopping(m) PROVE KnownInv'
    <3>1. CASE toClose[m] # {}
      BY <2>3, <2>7, <3>1 DEF Stopping
    <3>2. CASE toClose[m] = {}
      <4>1. /\ mpc' = [mpc EXCEPT ![m] = "free"] /\ mpeer' = [mpeer EXCEPT ![m] = NoPeer]
            /\ cancelled' = cancelled \ {m} /\ peers' = peers
        BY <2>7, <3>2 DEF Stopping
      <4>2. \A n \in M \ {m} : (Live(n)' <=> Live(n)) /\ mpeer'[n] = mpeer[n]
        BY <4>1 DEF Live, TypeOK
      <4>3. ~Live(m)' BY <4>1 DEF Live, TypeOK
      <4>4. m \in cancelled  BY <2>7 DEF Stopping, KnownInv
      <4> QED  BY <4>1, <4>2, <4>3, <4>4 DEF KnownInv, ManagersAreKnown, TypeOK
    <3> QED  BY <3>1, <3>2
  <2>8. CASE Scan
    <3>1. PICK f \in [New -> {m \in M : ~Live(m)}] :
            /\ \A p, r \in New : p # r => f[p] # f[r]
            /\ peers' = [p \in Peer |-> IF p \in New THEN f[p]
                                        ELSE IF p \in Gone THEN NoOne ELSE peers[p]]
            /\ \A m \in M : m \in {f[p] : p \in New}
                              => mpc'[m] = "dial" /\ mpeer'[m] \in New /\ f[mpeer'[m]] = m
            /\ \A m \in M : m \notin {f[p] : p \in New}
                              => mpc'[m] = mpc[m] /\ mpeer'[m] = mpeer[m]
      BY <2>8, ScanStep
    <3>2. cancelled' = cancelled \cup {peers[p] : p \in Gone}  BY <2>8 DEF Scan, Gone
    <3>3. New \subseteq Peer /\ Gone \subseteq Peer /\ New \cap Gone = {}
      BY DEF New, Gone, TypeOK
    <3>4. \A p \in New : f[p] \in M /\ mpc[f[p]] = "free" /\ f[p] \notin cancelled
      BY DEF Live, KnownInv
    <3>5. \A p \in Gone : peers[p] \in M /\ Live(peers[p]) /\ mpeer[peers[p]] = p
      BY DEF Gone, KnownInv, TypeOK
    <3>6. \A p \in New : f[p] \notin cancelled'  BY <3>2, <3>4, <3>5 DEF Live
    <3>7. ManagersAreKnown'
      <4> SUFFICES ASSUME NEW m \in M, Live(m)', m \notin cancelled'
                   PROVE  mpeer'[m] \in Peer /\ peers'[mpeer'[m]] = m
        BY DEF ManagersAreKnown
      <4>1. CASE m \in {f[p] : p \in New}  BY <3>1, <3>3, <4>1
      <4>2. CASE m \notin {f[p] : p \in New}
        <5>1. mpc[m] = mpc'[m] /\ mpeer'[m] = mpeer[m]  BY <3>1, <4>2
        <5>2. Live(m) /\ m \notin cancelled  BY <3>2, <5>1 DEF Live
        <5>3. mpeer[m] \in Peer /\ peers[mpeer[m]] = m  BY <5>2 DEF KnownInv, ManagersAreKnown
        <5>4. mpeer[m] \notin New /\ mpeer[m] \notin Gone  BY <3>2, <5>3 DEF New
        <5> QED  BY <3>1, <5>1, <5>3, <5>4
      <4> QED  BY <4>1, <4>2
    <3>8. ASSUME NEW p \in Peer, peers'[p] # NoOne
          PROVE  mpc'[peers'[p]] # "free" /\ mpeer'[peers'[p]] = p /\ peers'[p] \notin cancelled'
      <4>1. CASE p \in New
        <5>1. peers'[p] = f[p] /\ f[p] \in {f[r] : r \in New} /\ f[p] \in M  BY <3>1, <3>4, <4>1
        <5>2. mpc'[f[p]] = "dial" /\ mpeer'[f[p]] \in New /\ f[mpeer'[f[p]]] = f[p]
          BY <3>1, <5>1
        <5>3. mpeer'[f[p]] = p  BY <3>1, <4>1, <5>2
        <5> QED  BY <3>6, <4>1, <5>1, <5>2, <5>3
      <4>2. CASE p \notin New
        <5>1. p \notin Gone /\ peers'[p] = peers[p]  BY <3>1, <3>8, <4>2
        <5>2. peers[p] \in M /\ Live(peers[p]) /\ mpeer[peers[p]] = p /\ peers[p] \notin cancelled
          BY <3>8, <5>1 DEF KnownInv, TypeOK
        <5>3. peers[p] \notin {f[r] : r \in New}  BY <3>4, <5>2 DEF Live
        <5>4. mpc'[peers[p]] = mpc[peers[p]] /\ mpeer'[peers[p]] = p  BY <3>1, <5>2, <5>3
        <5>5. peers[p] \notin {peers[r] : r \in Gone}  BY <3>5, <5>1, <5>2
        <5> QED  BY <3>2, <5>1, <5>2, <5>4, <5>5 DEF Live
      <4> QED  BY <4>1, <4>2
    <3>9. \A m \in cancelled' : Live(m)'
      <4> SUFFICES ASSUME NEW m \in cancelled' PROVE Live(m)'  OBVIOUS
      <4>1. m \in M /\ Live(m)  BY <3>2, <3>5 DEF KnownInv, TypeOK
      <4>2. m \notin {f[r] : r \in New}  BY <3>4, <4>1 DEF Live
      <4> QED  BY <3>1, <4>1, <4>2 DEF Live
    <3>10. \A m \in M : mpc'[m] = "stopping" => m \in cancelled'  BY <3>1, <3>2 DEF KnownInv
    <3>11. \A p \in Peer : peers'[p] # NoOne
             => mpc'[peers'[p]] # "free" /\ mpeer'[peers'[p]] = p /\ peers'[p] \notin cancelled'
      BY <3>8
    <3> QED  BY <3>7, <3>9, <3>10, <3>11 DEF KnownInv, Live
  <2> QED  BY <2>3, <2>4, <2>5, <2>6, <2>7, <2>8
           DEF Next, Environment, Manager, vars, envVars, managerVars, ListenAdd, ListenRemove,
               PeerDown, RemoveStale, PeerUp, OwnOpen, OwnClose, ReceiveAdd, ReceiveRemove
<1>3. KnownInv => ManagersAreKnown  BY DEF KnownInv
<1> QED  BY <1>1, <1>2, <1>3, TypeCorrect, PTL DEF SafetySpec
=============================================================================
