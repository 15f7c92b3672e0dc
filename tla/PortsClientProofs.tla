------------------------- MODULE PortsClientProofs -------------------------
(* Theorems about PortsClient, for any containers, listens, ports, watcher *)
(* slots and capacity of outCh.                                            *)
EXTENDS PortsClient, FiniteSetTheorems, TLAPS

(* Where a containerWatcher is decides what it holds: a batch only while   *)
(* it emits one, a stream only while it is connected, counts only between  *)
(* its start and its deferred closes.  A watcher with a startup callback   *)
(* has reported nothing, and the first event it reads is the sync.         *)
SlotInv(w) ==
  /\ Live(w) => wcont[w] \in Container
  /\ wpc[w] \notin {"emit", "final"} => batch[w] = <<>>
  /\ wpc[w] \in {"emit", "final"} => \E b \in Batch : batch[w] = <<b>> /\ b.c = wcont[w]
  /\ wpc[w] \notin {"stream", "emit"} => q[w] = <<>> /\ w \notin severed
  /\ wpc[w] \in {"free", "final"} => counts[w] = NoPorts /\ heard[w] = {}
  /\ w \in cb => wpc[w] \in {"dial", "stream"} /\ counts[w] = NoPorts
  /\ w \in cb /\ wpc[w] = "stream" => q[w] # <<>> /\ Head(q[w]).op = "sync"

(* Where run is decides what the channels hold: nothing before the         *)
(* directory is scanned, no more startup results than it still expects,    *)
(* none of them once the snapshot is complete, and nothing held back once  *)
(* it has been flushed.                                                    *)
RunInv ==
  /\ pc = "scan" => /\ \A w \in W : ~Live(w)
                    /\ snapshot = {} /\ pendingOut = <<>> /\ outCh = <<>>
  /\ pc = "startup" => /\ remaining >= 1
                       /\ IsFiniteSet(cb) /\ IsFiniteSet(startupCh)
                       /\ Cardinality(cb) + Cardinality(startupCh) <= remaining
  /\ pc \in {"scan", "snap", "flush", "loop"} => startupCh = {}
  /\ pc = "loop" => pendingOut = <<>>

BaseInv == RunInv /\ \A w \in W : SlotInv(w)

(* Counts are numbers, as there are finitely many listens.                 *)
LEMMA CountsAreNatural ==
  ASSUME NEW set \in SUBSET Listen
  PROVE  newCounts(set) \in [Port -> Nat]
<1>1. ASSUME NEW p \in Port
      PROVE  Cardinality({l \in set : PortOf[l] = p}) \in Nat
  BY FiniteAssumption, FS_Subset, FS_CardinalityType
<1> QED BY <1>1 DEF newCounts

(* Starting watchers gives each container of a set a slot of its own, in   *)
(* which nothing ran, and leaves the other slots alone.                    *)
LEMMA Started ==
  ASSUME NEW set \in SUBSET Container, NEW f \in Slots(set), NEW withCallback \in BOOLEAN,
         TypeOK, startContainers(set, f, withCallback)
  PROVE  /\ wpc' \in [W -> {"free", "dial", "stream", "emit", "wait", "final"}]
         /\ wcont' \in [W -> Container \cup {NoContainer}]
         /\ \A c \in set : /\ f[c] \in W /\ ~Live(f[c])
                           /\ wpc'[f[c]] = "dial" /\ wcont'[f[c]] = c
         /\ \A w \in W : (\A c \in set : f[c] # w) =>
              wpc'[w] = wpc[w] /\ wcont'[w] = wcont[w] /\ (w \in cb' <=> w \in cb)
         /\ cb' \in SUBSET W
         /\ overlapped' \in SUBSET Container /\ overlapped \subseteq overlapped'
<1> DEFINE new == {f[c] : c \in set}
<1>1. /\ f \in [set -> {w \in W : ~Live(w)}]
      /\ \A c, d \in set : c # d => f[c] # f[d]
  BY DEF Slots
<1>2. new \subseteq W
  BY <1>1
<1>3. /\ wpc' = [w \in W |-> IF w \in new THEN "dial" ELSE wpc[w]]
      /\ wcont' = [w \in W |-> IF w \in new THEN CHOOSE c \in set : f[c] = w ELSE wcont[w]]
      /\ cb' = IF withCallback THEN cb \cup new ELSE cb
      /\ overlapped' = overlapped \cup {c \in set : \E w \in W : Live(w) /\ wcont[w] = c}
  BY DEF startContainers
<1>4. ASSUME NEW c \in set PROVE (CHOOSE d \in set : f[d] = f[c]) = c
  BY <1>1
<1>5. ASSUME NEW w \in new PROVE (CHOOSE c \in set : f[c] = w) \in Container
  <2>1. PICK c \in set : w = f[c]
    OBVIOUS
  <2> QED BY <2>1, <1>4
<1>6. wpc' \in [W -> {"free", "dial", "stream", "emit", "wait", "final"}]
  BY <1>3 DEF TypeOK
<1>7. wcont' \in [W -> Container \cup {NoContainer}]
  BY <1>3, <1>5 DEF TypeOK
<1>8. ASSUME NEW c \in set
      PROVE  f[c] \in W /\ ~Live(f[c]) /\ wpc'[f[c]] = "dial" /\ wcont'[f[c]] = c
  <2>1. f[c] \in W /\ ~Live(f[c]) /\ f[c] \in new
    BY <1>1
  <2> HIDE DEF new
  <2>2. wpc'[f[c]] = "dial"
    BY <2>1, <1>3
  <2>3. wcont'[f[c]] = CHOOSE d \in set : f[d] = f[c]
    BY <2>1, <1>3
  <2> QED BY <2>1, <2>2, <2>3, <1>4
<1>9. ASSUME NEW w \in W, \A c \in set : f[c] # w
      PROVE  wpc'[w] = wpc[w] /\ wcont'[w] = wcont[w] /\ (w \in cb' <=> w \in cb)
  <2>1. w \notin new
    BY <1>9
  <2> HIDE DEF new
  <2> QED BY <2>1, <1>3
<1>10. cb' \in SUBSET W
  BY <1>2, <1>3 DEF TypeOK
<1>11. overlapped' \in SUBSET Container /\ overlapped \subseteq overlapped'
  BY <1>3 DEF TypeOK
<1> QED BY <1>6, <1>7, <1>8, <1>9, <1>10, <1>11

(* The events of a stream and the batches a watcher makes are well-formed. *)
LEMMA Items ==
  /\ \A set \in SUBSET Listen : [op |-> "sync", set |-> set] \in Item
  /\ \A l \in Listen : [op |-> "add", listen |-> l] \in Item
  /\ \A l \in Listen : [op |-> "remove", listen |-> l] \in Item
  /\ \A e \in Item : e.op = "sync" => e.set \in SUBSET Listen
  /\ \A e \in Item : e.op \in {"add", "remove"} => e.listen \in Listen
  /\ \A e \in Item : e.op \in {"sync", "add", "remove"}
BY DEF Item

(* Making a batch, or none if nothing changed, keeps the types.            *)
LEMMA Emitted ==
  ASSUME TypeOK, NEW w \in W, wcont[w] \in Container,
         NEW opens \in SUBSET Port, NEW closes \in SUBSET Port, Emits(w, opens, closes)
  PROVE  /\ wpc' \in [W -> {"free", "dial", "stream", "emit", "wait", "final"}]
         /\ batch' \in [W -> Seq(Batch)]
<1>1. [c |-> wcont[w], opens |-> opens, closes |-> closes] \in Batch
  BY DEF Batch
<1>2. ASSUME NEW b \in Batch PROVE <<b>> \in Seq(Batch)
  BY <1>2
<1>3. <<[c |-> wcont[w], opens |-> opens, closes |-> closes]>> \in Seq(Batch)
  BY <1>1, <1>2
<1> HIDE DEF Batch
<1>4. CASE opens \cup closes = {}
  BY <1>4 DEF Emits, TypeOK
<1>5. CASE opens \cup closes # {}
  BY <1>5, <1>3 DEF Emits, TypeOK
<1> QED BY <1>4, <1>5

(* The startup callback keeps the types of what it changes.                *)
LEMMA Called ==
  ASSUME TypeOK, NEW w \in W, wcont[w] \in Container, NEW ports \in SUBSET Port,
         callback(w, ports)
  PROVE  /\ cb' \in SUBSET W /\ lost' \in SUBSET Container
         /\ startupCh' \in SUBSET [w : W, c : Container, ports : SUBSET Port]
BY DEF callback, TypeOK

(* Every step keeps the types.                                             *)
LEMMA TypeStep == TypeOK /\ BaseInv /\ [Next]_vars => TypeOK'
<1> SUFFICES ASSUME TypeOK, BaseInv, [Next]_vars PROVE TypeOK'
  OBVIOUS
<1>0. ASSUME NEW w \in W, Live(w) PROVE wcont[w] \in Container
  BY <1>0 DEF BaseInv, SlotInv
<1>1. ASSUME NEW c \in Container, ContainerDown(c) \/ RemoveStale(c) \/ ContainerUp(c)
      PROVE  TypeOK'
  BY <1>1 DEF ContainerDown, RemoveStale, ContainerUp, watcherVars, runVars, TypeOK
<1>2. ASSUME NEW c \in Container, NEW l \in Listen, ListenAdd(c, l) \/ ListenRemove(c, l)
      PROVE  TypeOK'
  <2>1. ASSUME NEW e \in Item PROVE Tell(c, e) \in [W -> Seq(Item)]
    <3>1. ASSUME NEW w \in W PROVE q[w] \in Seq(Item) /\ Append(q[w], e) \in Seq(Item)
      BY DEF TypeOK
    <3> QED BY <3>1 DEF Tell
  <2>2. q' \in [W -> Seq(Item)]
    BY <1>2, <2>1, Items DEF ListenAdd, ListenRemove
  <2>3. listens' \in [Container -> SUBSET Listen]
    <3>1. listens[c] \cup {l} \in SUBSET Listen /\ listens[c] \ {l} \in SUBSET Listen
      BY DEF TypeOK
    <3>2. PICK set \in SUBSET Listen : listens' = [listens EXCEPT ![c] = set]
      BY <1>2, <3>1 DEF ListenAdd, ListenRemove
    <3> QED BY <3>2 DEF TypeOK
  <2> QED BY <1>2, <2>2, <2>3 DEF ListenAdd, ListenRemove, runVars, TypeOK
<1>3. ASSUME NEW w \in W, Dial(w) \/ WatchEnds(w) \/ Retry(w) PROVE TypeOK'
  <2>1. CASE Dial(w)
    <3>1. [op |-> "sync", set |-> listens[wcont[w]]] \in Item
      BY <2>1, Items DEF Dial, TypeOK
    <3>2. ASSUME NEW e \in Item PROVE <<e>> \in Seq(Item)
      OBVIOUS
    <3>3. <<[op |-> "sync", set |-> listens[wcont[w]]]>> \in Seq(Item)
      BY <3>1, <3>2
    <3> HIDE DEF Item
    <3>4. q' \in [W -> Seq(Item)]
      BY <3>3, <2>1 DEF Dial, TypeOK
    <3> QED BY <2>1, <3>4 DEF Dial, TypeOK, envVars, runVars
  <2>2. CASE WatchEnds(w)
    <3>1. Live(w) /\ callback(w, {})
      BY <2>2 DEF WatchEnds, Live
    <3>2. /\ cb' \in SUBSET W /\ lost' \in SUBSET Container
          /\ startupCh' \in SUBSET [w : W, c : Container, ports : SUBSET Port]
      BY <3>1, <1>0, Called
    <3>3. q' \in [W -> Seq(Item)]
      BY <2>2 DEF WatchEnds, TypeOK
    <3> QED BY <2>2, <3>2, <3>3 DEF WatchEnds, callback, TypeOK, envVars
  <2>3. CASE Retry(w)
    BY <2>3 DEF Retry, TypeOK, envVars, runVars
  <2> QED BY <1>3, <2>1, <2>2, <2>3
<1>4. ASSUME NEW w \in W, ReceiveSync(w) \/ ReceiveAdd(w) \/ ReceiveRemove(w) PROVE TypeOK'
  <2>1. /\ Live(w) /\ wcont[w] \in Container
        /\ q[w] # <<>> /\ q' = [q EXCEPT ![w] = Tail(@)]
    BY <1>4, <1>0 DEF ReceiveSync, ReceiveAdd, ReceiveRemove, Live
  <2>2. Head(q[w]) \in Item /\ Tail(q[w]) \in Seq(Item)
    BY <2>1 DEF TypeOK
  <2>3. q' \in [W -> Seq(Item)]
    BY <2>1, <2>2 DEF TypeOK
  <2>4. \A n : Open(n) \in SUBSET Port
    BY DEF Open
  <2>5. CASE ReceiveSync(w)
    <3> DEFINE new == newCounts(Head(q[w]).set)
    <3>1. Head(q[w]).set \in SUBSET Listen
      BY <2>5, <2>2, Items DEF ReceiveSync
    <3>2. new \in [Port -> Nat]
      BY <3>1, CountsAreNatural
    <3>3. /\ counts' = [counts EXCEPT ![w] = new]
          /\ heard' = [heard EXCEPT ![w] = Head(q[w]).set]
      BY <2>5 DEF ReceiveSync
    <3>4. counts' \in [W -> [Port -> Nat]] /\ heard' \in [W -> SUBSET Listen]
      BY <3>1, <3>2, <3>3 DEF TypeOK
    <3>5. CASE w \in cb
      <4>1. callback(w, Open(new)) /\ UNCHANGED <<wpc, batch>>
        BY <2>5, <3>5 DEF ReceiveSync
      <4>2. /\ cb' \in SUBSET W /\ lost' \in SUBSET Container
            /\ startupCh' \in SUBSET [w : W, c : Container, ports : SUBSET Port]
        BY <4>1, <2>1, <2>4, Called
      <4> QED BY <2>5, <4>1, <4>2, <3>4, <2>3 DEF ReceiveSync, callback, TypeOK, envVars
    <3>6. CASE w \notin cb
      <4>1. /\ Emits(w, Open(new) \ Open(counts[w]), Open(counts[w]) \ Open(new))
            /\ UNCHANGED <<cb, startupCh, runVars>>
        BY <2>5, <3>6 DEF ReceiveSync
      <4>2. Open(new) \ Open(counts[w]) \in SUBSET Port /\ Open(counts[w]) \ Open(new) \in SUBSET Port
        BY <2>4
      <4>3. /\ wpc' \in [W -> {"free", "dial", "stream", "emit", "wait", "final"}]
            /\ batch' \in [W -> Seq(Batch)]
        BY <4>1, <4>2, <2>1, Emitted
      <4> QED BY <2>5, <4>1, <4>3, <3>4, <2>3 DEF ReceiveSync, TypeOK, envVars, runVars
    <3> QED BY <3>5, <3>6
  <2>6. CASE ReceiveAdd(w)
    <3> DEFINE l == Head(q[w]).listen
    <3>1. l \in Listen /\ PortOf[l] \in Port
      BY <2>6, <2>2, Items, PortOfAssumption DEF ReceiveAdd
    <3> HIDE DEF l
    <3>2. /\ counts' = [counts EXCEPT ![w][PortOf[l]] = @ + 1]
          /\ heard' = [heard EXCEPT ![w] = @ \cup {l}]
          /\ Emits(w, {PortOf[l]} \ Open(counts[w]), {})
      BY <2>6 DEF ReceiveAdd, l
    <3>3. counts' \in [W -> [Port -> Nat]] /\ heard' \in [W -> SUBSET Listen]
      BY <3>1, <3>2 DEF TypeOK
    <3>4. {PortOf[l]} \ Open(counts[w]) \in SUBSET Port /\ {} \in SUBSET Port
      BY <3>1
    <3>5. /\ wpc' \in [W -> {"free", "dial", "stream", "emit", "wait", "final"}]
          /\ batch' \in [W -> Seq(Batch)]
      BY <3>2, <3>4, <2>1, Emitted
    <3> QED BY <2>6, <3>3, <3>5, <2>3 DEF ReceiveAdd, TypeOK, envVars, runVars
  <2>7. CASE ReceiveRemove(w)
    <3> DEFINE l == Head(q[w]).listen
    <3>1. l \in Listen /\ PortOf[l] \in Port
      BY <2>7, <2>2, Items, PortOfAssumption DEF ReceiveRemove
    <3> HIDE DEF l
    <3>2. /\ counts' = [counts EXCEPT ![w][PortOf[l]] = IF @ <= 1 THEN 0 ELSE @ - 1]
          /\ heard' = [heard EXCEPT ![w] = @ \ {l}]
          /\ Emits(w, {}, {PortOf[l]} \ Open(counts'[w]))
      BY <2>7 DEF ReceiveRemove, l
    <3>3. counts' \in [W -> [Port -> Nat]] /\ heard' \in [W -> SUBSET Listen]
      BY <3>1, <3>2 DEF TypeOK
    <3>4. {PortOf[l]} \ Open(counts'[w]) \in SUBSET Port /\ {} \in SUBSET Port
      BY <3>1
    <3>5. /\ wpc' \in [W -> {"free", "dial", "stream", "emit", "wait", "final"}]
          /\ batch' \in [W -> Seq(Batch)]
      BY <3>2, <3>4, <2>1, Emitted
    <3> QED BY <2>7, <3>3, <3>5, <2>3 DEF ReceiveRemove, TypeOK, envVars, runVars
  <2> QED BY <1>4, <2>5, <2>6, <2>7
<1>5. ASSUME NEW w \in W, Finish(w) PROVE TypeOK'
  <2>1. /\ wcont[w] \in Container /\ Open(counts[w]) \in SUBSET Port /\ {} \in SUBSET Port
        /\ NoPorts \in [Port -> Nat]
    BY <1>5, <1>0 DEF Finish, Live, Open, NoPorts
  <2>2. [c |-> wcont[w], opens |-> {}, closes |-> Open(counts[w])] \in Batch
    BY <2>1 DEF Batch
  <2>3. \A b \in Batch : <<b>> \in Seq(Batch)
    OBVIOUS
  <2>4. <<[c |-> wcont[w], opens |-> {}, closes |-> Open(counts[w])]>> \in Seq(Batch)
    BY <2>2, <2>3
  <2>5. counts' \in [W -> [Port -> Nat]] /\ heard' \in [W -> SUBSET Listen]
    BY <1>5, <2>1 DEF Finish, TypeOK
  <2>6. batch' \in [W -> Seq(Batch)]
    BY <1>5, <2>4 DEF Finish, TypeOK
  <2> QED BY <1>5, <2>5, <2>6 DEF Finish, Ended, TypeOK, envVars, runVars
<1>6. ASSUME NEW w \in W, emit(w) PROVE TypeOK'
  <2>1. PICK b \in Batch : batch[w] = <<b>>
    BY <1>6 DEF emit, BaseInv, SlotInv
  <2>2. /\ outCh \o <<b>> \in Seq(Batch) /\ Len(outCh \o <<b>>) = Len(outCh) + 1
        /\ Len(outCh) \in Nat
    BY DEF TypeOK
  <2>3. outCh' \in Seq(Batch) /\ Len(outCh') <= OutBuf
    <3>1. \/ Len(outCh) < OutBuf /\ outCh' = outCh \o <<b>>
          \/ outCh' = outCh
      BY <1>6, <2>1 DEF emit
    <3>2. outCh \in Seq(Batch) /\ Len(outCh) <= OutBuf
      BY DEF TypeOK
    <3> QED BY <3>1, <3>2, <2>2, OutBufAssumption
  <2>4. batch' \in [W -> Seq(Batch)]
    BY <1>6 DEF emit, TypeOK
  <2> QED BY <1>6, <2>3, <2>4 DEF emit, Ended, TypeOK, envVars, runVars
<1>7. CASE ScanDir
  <2>1. PICK f \in Slots(socket) :
          /\ startContainers(socket, f, TRUE)
          /\ known' = [c \in Container |-> IF c \in socket THEN f[c] ELSE NoWatcher]
    BY <1>7 DEF ScanDir
  <2>2. socket \in SUBSET Container
    BY DEF TypeOK
  <2>3. /\ wpc' \in [W -> {"free", "dial", "stream", "emit", "wait", "final"}]
        /\ wcont' \in [W -> Container \cup {NoContainer}]
        /\ \A c \in socket : f[c] \in W
        /\ cb' \in SUBSET W /\ overlapped' \in SUBSET Container
    BY <2>1, <2>2, Started
  <2>4. Cardinality(socket) \in 0..Cardinality(Container)
    BY <2>2, FiniteAssumption, FS_Subset, FS_CardinalityType
  <2>5. known' \in [Container -> W \cup {NoWatcher}]
    BY <2>1, <2>3
  <2> QED BY <1>7, <2>3, <2>4, <2>5 DEF ScanDir, TypeOK, envVars
<1>8. CASE Scan
  <2> DEFINE new == {c \in socket : ~Knows(c)}
             gone == {c \in Container \ socket : Knows(c)}
  <2>1. PICK f \in Slots(new) :
          /\ startContainers(new, f, FALSE)
          /\ known' = [c \in Container |-> IF c \in new THEN f[c]
                                           ELSE IF c \in gone THEN NoWatcher ELSE known[c]]
          /\ cancelled' = cancelled \cup {known[c] : c \in gone}
    BY <1>8 DEF Scan
  <2>2. new \in SUBSET Container
    BY DEF TypeOK
  <2>3. \A c \in gone : known[c] \in W
    BY DEF TypeOK, Knows
  <2> HIDE DEF new, gone
  <2>4. /\ wpc' \in [W -> {"free", "dial", "stream", "emit", "wait", "final"}]
        /\ wcont' \in [W -> Container \cup {NoContainer}]
        /\ \A c \in new : f[c] \in W
        /\ cb' \in SUBSET W /\ overlapped' \in SUBSET Container
    BY <2>1, <2>2, Started
  <2>5. known' \in [Container -> W \cup {NoWatcher}] /\ cancelled' \in SUBSET W
    BY <2>1, <2>3, <2>4 DEF TypeOK
  <2> QED BY <1>8, <2>4, <2>5 DEF Scan, TypeOK, envVars
<1>9. ASSUME NEW r \in startupCh, StartupReceive(r) PROVE TypeOK'
  <2>1. r.c \in Container /\ r.ports \in SUBSET Port
    BY DEF TypeOK
  <2>2. {r.c} \X r.ports \in SUBSET (Container \X Port)
    BY <2>1
  <2>3. remaining - 1 \in 0..Cardinality(Container)
    <3>1. remaining >= 1
      BY <1>9 DEF StartupReceive, BaseInv, RunInv
    <3>2. Cardinality(Container) \in Nat
      BY FiniteAssumption, FS_CardinalityType
    <3> QED BY <3>1, <3>2 DEF TypeOK
  <2> QED BY <1>9, <2>2, <2>3 DEF StartupReceive, TypeOK, envVars, watcherVars
<1>10. ASSUME NEW b \in Batch PROVE Applied(b) \in SUBSET (Container \X Port)
  BY DEF Applied, TypeOK, Batch
<1>11. CASE StartupHold \/ Flush \/ Forward
  <2>1. CASE outCh # <<>>
    <3>1. Head(outCh) \in Batch /\ Tail(outCh) \in Seq(Batch) /\ Len(Tail(outCh)) <= OutBuf
      BY <2>1, OutBufAssumption DEF TypeOK
    <3>2. CASE StartupHold
      <4>1. Append(pendingOut, Head(outCh)) \in Seq(Batch)
        BY <3>1 DEF TypeOK
      <4> QED BY <3>2, <3>1, <4>1 DEF StartupHold, TypeOK, envVars, watcherVars
    <3>3. CASE Forward
      <4>1. view' \in SUBSET (Container \X Port)
        BY <3>1, <3>3, <1>10 DEF Forward
      <4> QED BY <3>1, <3>3, <4>1 DEF Forward, TypeOK, envVars, watcherVars
    <3>4. CASE Flush /\ pendingOut = <<>>
      BY <3>4 DEF Flush, TypeOK, envVars, watcherVars
    <3>5. CASE Flush /\ pendingOut # <<>>
      <4>1. Head(pendingOut) \in Batch /\ Tail(pendingOut) \in Seq(Batch)
        BY <3>5 DEF TypeOK
      <4>2. view' \in SUBSET (Container \X Port)
        BY <3>5, <4>1, <1>10 DEF Flush
      <4> QED BY <3>5, <4>1, <4>2 DEF Flush, TypeOK, envVars, watcherVars
    <3> QED BY <1>11, <3>2, <3>3, <3>4, <3>5
  <2>2. CASE outCh = <<>>
    <3>1. CASE Flush /\ pendingOut = <<>>
      BY <3>1 DEF Flush, TypeOK, envVars, watcherVars
    <3>2. CASE Flush /\ pendingOut # <<>>
      <4>1. Head(pendingOut) \in Batch /\ Tail(pendingOut) \in Seq(Batch)
        BY <3>2 DEF TypeOK
      <4>2. view' \in SUBSET (Container \X Port)
        BY <3>2, <4>1, <1>10 DEF Flush
      <4> QED BY <3>2, <4>1, <4>2 DEF Flush, TypeOK, envVars, watcherVars
    <3> QED BY <1>11, <2>2, <3>1, <3>2 DEF StartupHold, Forward
  <2> QED BY <2>1, <2>2
<1>12. CASE Deadline
  <2>1. 0 \in 0..Cardinality(Container)
    BY FiniteAssumption, FS_CardinalityType
  <2> QED BY <1>12, <2>1 DEF Deadline, TypeOK, envVars, watcherVars
<1>13. CASE SendSnapshot \/ Stop \/ Close \/ Kill
  BY <1>13 DEF SendSnapshot, Stop, Close, Kill, TypeOK, envVars, watcherVars, runVars
<1>14. CASE UNCHANGED vars
  BY <1>14 DEF vars, TypeOK, envVars, watcherVars, runVars
<1> QED BY <1>1, <1>2, <1>3, <1>4, <1>5, <1>6, <1>7, <1>8, <1>9, <1>11, <1>12, <1>13, <1>14
       DEF Next, Environment, ContainerWatcher, Run

(* A step of one watcher leaves the others alone, and ends no thread but   *)
(* its own.                                                                *)
LEMMA OthersKeep ==
  ASSUME TypeOK, NEW w \in W, ContainerWatcher(w), NEW x \in W, x # w
  PROVE  /\ wpc'[x] = wpc[x] /\ wcont'[x] = wcont[x] /\ batch'[x] = batch[x]
         /\ q'[x] = q[x] /\ counts'[x] = counts[x] /\ heard'[x] = heard[x]
         /\ (x \in cb' <=> x \in cb) /\ (x \in severed' <=> x \in severed)
         /\ (x \in cancelled' <=> x \in cancelled)
<1> USE DEF TypeOK
<1>1. CASE Dial(w) \/ Retry(w)
  BY <1>1 DEF Dial, Retry
<1>2. CASE WatchEnds(w)
  BY <1>2 DEF WatchEnds, callback
<1>3. CASE Finish(w)
  BY <1>3 DEF Finish, Ended
<1>4. CASE emit(w)
  BY <1>4 DEF emit, Ended
<1>5. ASSUME NEW opens, NEW closes, Emits(w, opens, closes)
      PROVE  wpc'[x] = wpc[x] /\ batch'[x] = batch[x]
  BY <1>5 DEF Emits
<1>6. CASE ReceiveSync(w)
  <2>1. /\ q'[x] = q[x] /\ counts'[x] = counts[x] /\ heard'[x] = heard[x]
        /\ UNCHANGED <<wcont, cancelled, severed>>
    BY <1>6 DEF ReceiveSync
  <2>2. CASE w \in cb
    BY <2>1, <2>2, <1>6 DEF ReceiveSync, callback
  <2>3. CASE w \notin cb
    BY <2>1, <2>3, <1>5, <1>6 DEF ReceiveSync
  <2> QED BY <2>2, <2>3
<1>7. CASE ReceiveAdd(w)
  BY <1>7, <1>5 DEF ReceiveAdd
<1>8. CASE ReceiveRemove(w)
  BY <1>8, <1>5 DEF ReceiveRemove
<1> QED BY <1>1, <1>2, <1>3, <1>4, <1>6, <1>7, <1>8 DEF ContainerWatcher

(* What a step of a watcher does to the state of run: it may return its    *)
(* callback, with one startup result while run waits for them.             *)
LEMMA RunKeeps ==
  ASSUME TypeOK, NEW w \in W, ContainerWatcher(w)
  PROVE  /\ UNCHANGED <<pc, known, remaining, snapshot, pendingOut, view, overlapped, killed, envVars>>
         /\ \/ cb' = cb /\ startupCh' = startupCh /\ lost' = lost
            \/ cb' = cb \ {w} /\ startupCh' = startupCh /\ lost \subseteq lost'
            \/ /\ w \in cb /\ cb' = cb \ {w} /\ pc = "startup" /\ lost' = lost
               /\ \E r : startupCh' = startupCh \cup {r} /\ r.c = wcont[w]
<1>0. ASSUME NEW ports, callback(w, ports)
      PROVE  /\ UNCHANGED <<pc, known, remaining, snapshot, pendingOut, view, overlapped>>
             /\ \/ cb' = cb \ {w} /\ startupCh' = startupCh /\ lost \subseteq lost'
                \/ /\ w \in cb /\ cb' = cb \ {w} /\ pc = "startup" /\ lost' = lost
                   /\ \E r : startupCh' = startupCh \cup {r} /\ r.c = wcont[w]
  <2>1. CASE w \in cb /\ pc = "startup"
    <3>1. startupCh' = startupCh \cup {[w |-> w, c |-> wcont[w], ports |-> ports]}
      BY <1>0, <2>1 DEF callback
    <3>2. [w |-> w, c |-> wcont[w], ports |-> ports].c = wcont[w]
      OBVIOUS
    <3>3. \E r : startupCh' = startupCh \cup {r} /\ r.c = wcont[w]
      BY <3>1, <3>2
    <3> QED BY <1>0, <2>1, <3>3 DEF callback
  <2>2. CASE ~(w \in cb /\ pc = "startup")
    BY <1>0, <2>2 DEF callback
  <2> QED BY <2>1, <2>2
<1>1. CASE Dial(w) \/ Retry(w)
  BY <1>1 DEF Dial, Retry, runVars
<1>2. CASE WatchEnds(w)
  BY <1>2, <1>0 DEF WatchEnds
<1>3. CASE Finish(w)
  BY <1>3 DEF Finish, Ended, runVars
<1>4. CASE emit(w)
  BY <1>4 DEF emit, Ended, runVars
<1>6. CASE ReceiveSync(w)
  <2>2. CASE w \in cb
    BY <2>2, <1>0, <1>6 DEF ReceiveSync
  <2>3. CASE w \notin cb
    BY <2>3, <1>6 DEF ReceiveSync, runVars
  <2> QED BY <2>2, <2>3
<1>7. CASE ReceiveAdd(w) \/ ReceiveRemove(w)
  BY <1>7 DEF ReceiveAdd, ReceiveRemove, runVars
<1> QED BY <1>1, <1>2, <1>3, <1>4, <1>6, <1>7 DEF ContainerWatcher

(* Every step keeps what the channels hold.                                *)
LEMMA RunStep == TypeOK /\ BaseInv /\ [Next]_vars => RunInv'
<1> SUFFICES ASSUME TypeOK, BaseInv, [Next]_vars PROVE RunInv'
  OBVIOUS
<1>0. RunInv
  BY DEF BaseInv
<1>1. CASE UNCHANGED vars \/ Environment
  <2>1. UNCHANGED <<wpc, cb, runVars, startupCh, outCh>>
    BY <1>1 DEF vars, envVars, watcherVars, Environment, ListenAdd, ListenRemove, ContainerDown,
                RemoveStale, ContainerUp
  <2> QED BY <2>1, <1>0 DEF RunInv, runVars, Live
<1>2. ASSUME NEW w \in W, ContainerWatcher(w) PROVE RunInv'
  <2>1. UNCHANGED <<pc, known, remaining, snapshot, pendingOut, view, overlapped, killed>>
    BY <1>2, RunKeeps
  <2>2. Live(w)
    BY <1>2 DEF ContainerWatcher, Dial, WatchEnds, Retry, Finish, emit, ReceiveSync, ReceiveAdd,
                ReceiveRemove, Live
  <2>3. pc # "scan"
    BY <2>2, <1>0 DEF RunInv
  <2>4. CASE cb' \subseteq cb /\ startupCh' = startupCh
    <3>1. pc = "startup" => IsFiniteSet(cb') /\ Cardinality(cb') <= Cardinality(cb)
                            /\ Cardinality(cb') \in Nat /\ Cardinality(cb) \in Nat
                            /\ Cardinality(startupCh) \in Nat
      BY <1>0, <2>4, FS_Subset, FS_CardinalityType DEF RunInv
    <3>2. remaining \in Int
      BY DEF TypeOK
    <3> QED BY <2>1, <2>3, <2>4, <3>1, <3>2, <1>0 DEF RunInv
  <2>5. ASSUME w \in cb, cb' = cb \ {w}, pc = "startup", NEW r, startupCh' = startupCh \cup {r}
        PROVE  RunInv'
    <3>1. IsFiniteSet(cb) /\ IsFiniteSet(startupCh)
      BY <1>0, <2>5 DEF RunInv
    <3>2. /\ IsFiniteSet(cb') /\ Cardinality(cb') = Cardinality(cb) - 1
          /\ Cardinality(cb) \in Nat
      BY <3>1, <2>5, FS_RemoveElement, FS_CardinalityType
    <3>3. /\ IsFiniteSet(startupCh') /\ Cardinality(startupCh') <= Cardinality(startupCh) + 1
          /\ Cardinality(startupCh) \in Nat /\ Cardinality(startupCh') \in Nat
      <4>1. /\ IsFiniteSet(startupCh \cup {r}) /\ Cardinality(startupCh) \in Nat
            /\ Cardinality(startupCh \cup {r})
                 = IF r \in startupCh THEN Cardinality(startupCh) ELSE Cardinality(startupCh) + 1
        BY <3>1, FS_AddElement, FS_CardinalityType
      <4> QED BY <4>1, <2>5
    <3>4. remaining \in Int
      BY DEF TypeOK
    <3> QED BY <3>2, <3>3, <3>4, <2>1, <2>5, <1>0 DEF RunInv
  <2>6. \/ cb' \subseteq cb /\ startupCh' = startupCh
        \/ w \in cb /\ cb' = cb \ {w} /\ pc = "startup" /\ \E r : startupCh' = startupCh \cup {r}
    BY <1>2, RunKeeps
  <2> QED BY <2>4, <2>5, <2>6
<1>3. CASE ScanDir
  <2>1. PICK f \in Slots(socket) : startContainers(socket, f, TRUE)
    BY <1>3 DEF ScanDir
  <2>2. cb = {}
    BY <1>0, <1>3 DEF ScanDir, RunInv, BaseInv, SlotInv, Live, TypeOK
  <2>3. cb' = {f[c] : c \in socket}
    BY <2>1, <2>2 DEF startContainers
  <2>4. /\ IsFiniteSet(socket) /\ Cardinality(socket) \in Nat
        /\ Cardinality(socket) = 0 <=> socket = {}
    BY FiniteAssumption, FS_Subset, FS_CardinalityType, FS_EmptySet DEF TypeOK
  <2>5. f \in Surjection(socket, cb')
    BY <2>3 DEF Slots, Surjection
  <2>6. IsFiniteSet(cb') /\ Cardinality(cb') <= Cardinality(socket) /\ Cardinality(cb') \in Nat
    BY <2>4, <2>5, FS_Surjection, FS_CardinalityType
  <2>7. startupCh' = {} /\ IsFiniteSet({}) /\ Cardinality({}) = 0
    BY <1>0, <1>3, FS_EmptySet DEF ScanDir, RunInv
  <2>8. remaining' = Cardinality(socket) /\ pc' = IF socket = {} THEN "snap" ELSE "startup"
    BY <1>3 DEF ScanDir
  <2> QED BY <2>4, <2>6, <2>7, <2>8 DEF RunInv
<1>4. ASSUME NEW r \in startupCh, StartupReceive(r) PROVE RunInv'
  <2>1. /\ remaining >= 1 /\ IsFiniteSet(cb) /\ IsFiniteSet(startupCh)
        /\ Cardinality(cb) + Cardinality(startupCh) <= remaining
        /\ pc = "startup" /\ cb' = cb
        /\ remaining' = remaining - 1 /\ startupCh' = startupCh \ {r}
        /\ pc' = IF remaining = 1 THEN "snap" ELSE "startup"
    BY <1>0, <1>4 DEF StartupReceive, RunInv, watcherVars
  <2>2. /\ IsFiniteSet(startupCh') /\ Cardinality(startupCh') = Cardinality(startupCh) - 1
        /\ Cardinality(startupCh) \in Nat /\ Cardinality(cb) \in Nat
        /\ Cardinality(startupCh') \in Nat
        /\ Cardinality(startupCh') = 0 <=> startupCh' = {}
    BY <2>1, FS_RemoveElement, FS_CardinalityType, FS_EmptySet
  <2>3. remaining \in Int
    BY DEF TypeOK
  <2>4. CASE remaining = 1
    <3>1. Cardinality(startupCh') = 0
      BY <2>1, <2>2, <2>4
    <3> QED BY <3>1, <2>1, <2>2, <2>4 DEF RunInv
  <2>5. CASE remaining # 1
    BY <2>1, <2>2, <2>3, <2>5 DEF RunInv
  <2> QED BY <2>4, <2>5
<1>5. CASE StartupHold
  BY <1>5, <1>0 DEF StartupHold, RunInv, watcherVars
<1>6. CASE Deadline \/ SendSnapshot \/ Flush \/ Forward
  BY <1>6, <1>0 DEF Deadline, SendSnapshot, Flush, Forward, RunInv, watcherVars
<1>7. CASE Scan
  BY <1>7, <1>0 DEF Scan, RunInv
<1>8. CASE Stop \/ Close \/ Kill
  BY <1>8, <1>0 DEF Stop, Close, Kill, RunInv, Live, watcherVars, runVars
<1> QED BY <1>1, <1>2, <1>3, <1>4, <1>5, <1>6, <1>7, <1>8 DEF Next, Run

(* Every step keeps what a watcher holds.                                  *)
LEMMA SlotStep ==
  ASSUME TypeOK, TypeOK', BaseInv, [Next]_vars, NEW w \in W PROVE SlotInv(w)'
<1>0. RunInv /\ SlotInv(w)
  BY DEF BaseInv
<1>1. CASE UNCHANGED <<watcherVars>>
  BY <1>0, <1>1 DEF SlotInv, Live, watcherVars
<1>2. ASSUME NEW c \in Container, ContainerDown(c) PROVE SlotInv(w)'
  <2>1. /\ UNCHANGED <<wpc, wcont, cb, q, counts, heard, batch>>
        /\ severed' = severed \cup {x \in W : wcont[x] = c /\ Connected(x)}
    BY <1>2 DEF ContainerDown
  <2>2. Connected(w) => wpc[w] \in {"stream", "emit"}
    BY DEF Connected
  <2> QED BY <2>1, <2>2, <1>0 DEF SlotInv, Live
<1>3. ASSUME NEW c \in Container, NEW l \in Listen, ListenAdd(c, l) \/ ListenRemove(c, l)
      PROVE  SlotInv(w)'
  <2>1. UNCHANGED <<wpc, wcont, cb, counts, heard, batch, severed>>
    BY <1>3 DEF ListenAdd, ListenRemove
  <2>2. q'[w] = q[w] \/ (wpc[w] \in {"stream", "emit"} /\ \E e \in Item : q'[w] = Append(q[w], e))
    BY <1>3, Items DEF ListenAdd, ListenRemove, Tell, Connected
  <2>3. CASE q'[w] = q[w]
    BY <2>1, <2>3, <1>0 DEF SlotInv, Live
  <2>4. ASSUME wpc[w] \in {"stream", "emit"}, NEW e \in Item, q'[w] = Append(q[w], e)
        PROVE  SlotInv(w)'
    <3>1. q'[w] # <<>> /\ (q[w] # <<>> => Head(q'[w]) = Head(q[w]))
      BY <2>4 DEF TypeOK
    <3> QED BY <3>1, <2>1, <2>4, <1>0 DEF SlotInv, Live
  <2> QED BY <2>2, <2>3, <2>4
<1>4. ASSUME NEW x \in W, x # w, ContainerWatcher(x) PROVE SlotInv(w)'
  BY <1>4, <1>0, OthersKeep DEF SlotInv, Live
<1>5. ASSUME ContainerWatcher(w) PROVE SlotInv(w)'
  <2>0. w \in cb' => w \in cb
    BY <1>5, RunKeeps
  <2>1. CASE Dial(w)
    <3>1. /\ wpc'[w] = "stream" /\ UNCHANGED <<wcont, cb, counts, heard, batch, severed>>
          /\ q'[w] = <<[op |-> "sync", set |-> listens[wcont[w]]]>> /\ wpc[w] = "dial"
      BY <2>1 DEF Dial, TypeOK, runVars
    <3>2. q'[w] # <<>> /\ Head(q'[w]).op = "sync"
      BY <3>1
    <3> QED BY <3>1, <3>2, <1>0 DEF SlotInv, Live
  <2>2. CASE WatchEnds(w)
    BY <2>2, <1>0 DEF WatchEnds, callback, SlotInv, Live, TypeOK
  <2>3. CASE Retry(w)
    BY <2>3, <1>0 DEF Retry, SlotInv, Live, TypeOK
  <2>4. CASE Finish(w)
    <3>1. /\ wpc[w] \in {"dial", "wait"} /\ counts'[w] = NoPorts /\ heard'[w] = {}
          /\ UNCHANGED <<q, severed>>
      BY <2>4 DEF Finish, TypeOK
    <3>2. Open(NoPorts) = {}
      BY DEF Open, NoPorts
    <3>3. CASE Open(counts[w]) = {}
      BY <2>4, <3>1, <3>3, <1>0 DEF Finish, Ended, SlotInv, Live, TypeOK
    <3>4. CASE Open(counts[w]) # {}
      <4>1. w \notin cb
        BY <3>2, <3>4, <1>0 DEF SlotInv
      <4>2. wpc'[w] = "final" /\ UNCHANGED <<wcont, cb>>
            /\ batch'[w] = <<[c |-> wcont[w], opens |-> {}, closes |-> Open(counts[w])]>>
        BY <2>4, <3>4 DEF Finish, TypeOK
      <4>3. wcont[w] \in Container
        BY <3>1, <1>0 DEF SlotInv, Live
      <4>4. \E b \in Batch : batch'[w] = <<b>> /\ b.c = wcont[w]
        <5>1. [c |-> wcont[w], opens |-> {}, closes |-> Open(counts[w])] \in Batch
          BY <4>3 DEF Batch, Open
        <5> QED BY <5>1, <4>2
      <4> QED BY <4>1, <4>2, <4>3, <4>4, <3>1, <1>0 DEF SlotInv, Live
    <3> QED BY <3>3, <3>4
  <2>5. CASE emit(w)
    <3>1. w \notin cb /\ w \notin cb'
      BY <2>5, <2>0, <1>0 DEF emit, SlotInv
    <3>2. /\ batch'[w] = <<>> /\ UNCHANGED <<q, severed, counts, heard>>
          /\ \/ wpc[w] = "emit" /\ wpc'[w] = "stream" /\ UNCHANGED wcont
             \/ wpc[w] = "final" /\ wpc'[w] = "free"
      BY <2>5 DEF emit, Ended, TypeOK
    <3> QED BY <3>1, <3>2, <1>0 DEF SlotInv, Live
  <2>6. CASE ReceiveSync(w) \/ ReceiveAdd(w) \/ ReceiveRemove(w)
    <3>1. wpc[w] = "stream" /\ UNCHANGED <<wcont, severed>> /\ wcont[w] \in Container /\ batch[w] = <<>>
      BY <2>6, <1>0 DEF ReceiveSync, ReceiveAdd, ReceiveRemove, SlotInv, Live
    <3>2. w \notin cb'
      <4>1. CASE ReceiveSync(w)
        BY <4>1 DEF ReceiveSync, callback
      <4>2. CASE ReceiveAdd(w) \/ ReceiveRemove(w)
        BY <4>2, <3>1, <1>0 DEF ReceiveAdd, ReceiveRemove, SlotInv
      <4> QED BY <2>6, <4>1, <4>2
    <3>3. ASSUME NEW opens \in SUBSET Port, NEW closes \in SUBSET Port, Emits(w, opens, closes)
          PROVE  SlotInv(w)'
      <4>1. CASE opens \cup closes = {}
        BY <3>1, <3>2, <3>3, <4>1 DEF Emits, SlotInv, Live
      <4>2. CASE opens \cup closes # {}
        <5>1. /\ wpc'[w] = "emit"
              /\ batch'[w] = <<[c |-> wcont[w], opens |-> opens, closes |-> closes]>>
          BY <3>3, <4>2 DEF Emits, TypeOK
        <5>2. [c |-> wcont[w], opens |-> opens, closes |-> closes] \in Batch
          BY <3>1 DEF Batch
        <5>3. \E b \in Batch : batch'[w] = <<b>> /\ b.c = wcont[w]
          BY <5>1, <5>2
        <5> QED BY <5>1, <5>3, <3>1, <3>2 DEF SlotInv, Live
      <4> QED BY <4>1, <4>2
    <3>4. \A n : Open(n) \in SUBSET Port
      BY DEF Open
    <3>5. CASE UNCHANGED <<wpc, batch>>
      BY <3>1, <3>2, <3>5 DEF SlotInv, Live
    <3>6. CASE ReceiveSync(w)
      <4> DEFINE new == newCounts(Head(q[w]).set)
      <4>1. \/ UNCHANGED <<wpc, batch>>
            \/ Emits(w, Open(new) \ Open(counts[w]), Open(counts[w]) \ Open(new))
        BY <3>6 DEF ReceiveSync
      <4>2. Open(new) \ Open(counts[w]) \in SUBSET Port /\ Open(counts[w]) \ Open(new) \in SUBSET Port
        BY <3>4
      <4> QED BY <4>1, <4>2, <3>3, <3>5
    <3>7. CASE ReceiveAdd(w) \/ ReceiveRemove(w)
      <4>1. PortOf[Head(q[w]).listen] \in Port
        <5>1. Head(q[w]) \in Item /\ Head(q[w]).op \in {"add", "remove"}
          BY <3>7 DEF ReceiveAdd, ReceiveRemove, TypeOK
        <5> QED BY <5>1, Items, PortOfAssumption
      <4>2. \E opens, closes \in SUBSET Port : Emits(w, opens, closes)
        <5>1. CASE ReceiveAdd(w)
          <6>1. Emits(w, {PortOf[Head(q[w]).listen]} \ Open(counts[w]), {})
            BY <5>1 DEF ReceiveAdd
          <6>2. {PortOf[Head(q[w]).listen]} \ Open(counts[w]) \in SUBSET Port /\ {} \in SUBSET Port
            BY <4>1
          <6> QED BY <6>1, <6>2
        <5>2. CASE ReceiveRemove(w)
          <6>1. Emits(w, {}, {PortOf[Head(q[w]).listen]} \ Open(counts'[w]))
            BY <5>2 DEF ReceiveRemove
          <6>2. {PortOf[Head(q[w]).listen]} \ Open(counts'[w]) \in SUBSET Port /\ {} \in SUBSET Port
            BY <4>1
          <6> QED BY <6>1, <6>2
        <5> QED BY <3>7, <5>1, <5>2
      <4> QED BY <4>2, <3>3
    <3> QED BY <2>6, <3>6, <3>7
  <2> QED BY <1>5, <2>1, <2>2, <2>3, <2>4, <2>5, <2>6 DEF ContainerWatcher
<1>6. ASSUME NEW set \in SUBSET Container, NEW f \in Slots(set), NEW withCallback \in BOOLEAN,
             startContainers(set, f, withCallback), UNCHANGED <<q, severed, counts, heard, batch>>
      PROVE  SlotInv(w)'
  <2>1. CASE \A c \in set : f[c] # w
    <3>1. wpc'[w] = wpc[w] /\ wcont'[w] = wcont[w] /\ (w \in cb' <=> w \in cb)
      BY <1>6, <2>1, Started
    <3> QED BY <3>1, <1>6, <1>0 DEF SlotInv, Live
  <2>2. ASSUME NEW c \in set, f[c] = w PROVE SlotInv(w)'
    <3>1. wpc[w] = "free" /\ wpc'[w] = "dial" /\ wcont'[w] \in Container
      BY <1>6, <2>2, Started DEF Live
    <3> QED BY <3>1, <1>6, <1>0 DEF SlotInv, Live
  <2> QED BY <2>1, <2>2
<1>7. CASE ScanDir
  <2>1. PICK f \in Slots(socket) : startContainers(socket, f, TRUE)
    BY <1>7 DEF ScanDir
  <2> QED BY <2>1, <1>6, <1>7 DEF ScanDir, TypeOK
<1>8. CASE Scan
  <2>1. PICK f \in Slots({c \in socket : ~Knows(c)}) :
          startContainers({c \in socket : ~Knows(c)}, f, FALSE)
    BY <1>8 DEF Scan
  <2>2. {c \in socket : ~Knows(c)} \in SUBSET Container
    BY DEF TypeOK
  <2>3. UNCHANGED <<q, severed, counts, heard, batch>>
    BY <1>8 DEF Scan
  <2> QED BY <2>1, <2>2, <2>3, <1>6
<1>9. CASE UNCHANGED vars \/ Kill \/ (Run /\ ~ScanDir /\ ~Scan)
  BY <1>1, <1>9 DEF vars, Kill, Run, StartupHold, Deadline, SendSnapshot, Flush, Forward, Stop, Close,
     StartupReceive
<1>10. CASE Environment
  <2>1. PICK c \in Container : \/ ContainerDown(c) \/ RemoveStale(c) \/ ContainerUp(c)
                              \/ \E l \in Listen : ListenAdd(c, l) \/ ListenRemove(c, l)
    BY <1>10 DEF Environment
  <2> QED BY <2>1, <1>1, <1>2, <1>3 DEF RemoveStale, ContainerUp
<1> QED BY <1>4, <1>5, <1>7, <1>8, <1>9, <1>10 DEF Next

(* The base invariant holds, and with it the types: in particular run never*)
(* expects fewer startup results than there are, and outCh never outgrows  *)
(* its buffer.                                                             *)
LEMMA BaseAlways == SafetySpec => [](TypeOK /\ BaseInv)
<1>1. Init => TypeOK /\ BaseInv
  <2> SUFFICES ASSUME Init PROVE TypeOK /\ BaseInv
    OBVIOUS
  <2>1. NoPorts \in [Port -> Nat] /\ 0 \in 0..Cardinality(Container)
    BY FiniteAssumption, FS_CardinalityType DEF NoPorts
  <2>2. q \in [W -> Seq(Item)] /\ batch \in [W -> Seq(Batch)]
        /\ pendingOut \in Seq(Batch) /\ outCh \in Seq(Batch) /\ Len(outCh) <= OutBuf
    BY OutBufAssumption DEF Init
  <2>3. TypeOK
    BY <2>1, <2>2 DEF Init, TypeOK
  <2> QED BY <2>3 DEF Init, BaseInv, RunInv, SlotInv, Live
<1>2. (TypeOK /\ BaseInv) /\ [Next]_vars => (TypeOK /\ BaseInv)'
  <2> SUFFICES ASSUME TypeOK, BaseInv, [Next]_vars PROVE TypeOK' /\ BaseInv'
    OBVIOUS
  <2>1. TypeOK'
    BY TypeStep
  <2>2. RunInv'
    BY RunStep
  <2>3. ASSUME NEW w \in W PROVE SlotInv(w)'
    BY <2>1, SlotStep
  <2> QED BY <2>1, <2>2, <2>3 DEF BaseInv
<1> QED BY <1>1, <1>2, PTL DEF SafetySpec

(* The type invariant holds: in particular run never counts more startup   *)
(* results than it expects, and emit never overfills outCh.                *)
THEOREM TypeCorrect == SafetySpec => []TypeOK
<1>1. TypeOK /\ BaseInv => TypeOK
  OBVIOUS
<1> QED BY <1>1, BaseAlways, PTL

----------------------------------------------------------------------------
(* f is the set of listens a watcher knows of before and after each of the *)
(* events on its stream: an add is of a listen that is not there, and a    *)
(* remove of one that is.                                                  *)
Replay(w, f) ==
  /\ f[0] = heard[w]
  /\ \A i \in 1..Len(q[w]) :
       LET e == q[w][i] IN
       /\ e.op = "sync" => f[i] = e.set
       /\ e.op = "add" => e.listen \notin f[i-1] /\ f[i] = f[i-1] \cup {e.listen}
       /\ e.op = "remove" => e.listen \in f[i-1] /\ f[i] = f[i-1] \ {e.listen}
  /\ Connected(w) => f[Len(q[w])] = listens[wcont[w]]

(* What the watcher has heard, followed by what is on its stream, is what  *)
(* its container listens on, as long as it is connected; and it counts     *)
(* what it has heard.                                                      *)
StreamInv(w) ==
  /\ counts[w] = newCounts(heard[w])
  /\ \E f \in [0..Len(q[w]) -> SUBSET Listen] : Replay(w, f)

(* One listen more or less is one more or less on its port.                *)
LEMMA CountStep ==
  ASSUME NEW set \in SUBSET Listen, NEW l \in Listen
  PROVE  /\ l \notin set =>
              newCounts(set \cup {l}) = [newCounts(set) EXCEPT ![PortOf[l]] = @ + 1]
         /\ l \in set =>
              newCounts(set \ {l}) = [newCounts(set) EXCEPT ![PortOf[l]] = IF @ <= 1 THEN 0 ELSE @ - 1]
<1> DEFINE On(s, p) == {k \in s : PortOf[k] = p}
<1>0. PortOf[l] \in Port
  BY PortOfAssumption
<1>1. \A s : newCounts(s) = [p \in Port |-> Cardinality(On(s, p))]
  BY DEF newCounts
<1>2. ASSUME NEW p \in Port PROVE IsFiniteSet(On(set, p)) /\ Cardinality(On(set, p)) \in Nat
  BY FiniteAssumption, FS_Subset, FS_CardinalityType
<1>3. ASSUME NEW p \in Port, p # PortOf[l]
      PROVE  On(set \cup {l}, p) = On(set, p) /\ On(set \ {l}, p) = On(set, p)
  BY <1>3
<1>4. /\ On(set \cup {l}, PortOf[l]) = On(set, PortOf[l]) \cup {l}
      /\ On(set \ {l}, PortOf[l]) = On(set, PortOf[l]) \ {l}
      /\ l \in On(set, PortOf[l]) <=> l \in set
  OBVIOUS
<1> HIDE DEF On
<1>5. ASSUME l \notin set
      PROVE  newCounts(set \cup {l}) = [newCounts(set) EXCEPT ![PortOf[l]] = @ + 1]
  <2>1. Cardinality(On(set \cup {l}, PortOf[l])) = Cardinality(On(set, PortOf[l])) + 1
    BY <1>0, <1>2, <1>4, <1>5, FS_AddElement
  <2> QED BY <2>1, <1>0, <1>1, <1>3
<1>6. ASSUME l \in set
      PROVE  newCounts(set \ {l}) = [newCounts(set) EXCEPT ![PortOf[l]] = IF @ <= 1 THEN 0 ELSE @ - 1]
  <2> DEFINE n == Cardinality(On(set, PortOf[l]))
  <2>1. Cardinality(On(set \ {l}, PortOf[l])) = n - 1
    <3>1. Cardinality(On(set, PortOf[l]) \ {l}) =
            IF l \in On(set, PortOf[l]) THEN n - 1 ELSE n
      BY <1>0, <1>2, FS_RemoveElement
    <3> QED BY <3>1, <1>4, <1>6
  <2>2. n \in Nat /\ n # 0
    BY <1>0, <1>2, <1>4, <1>6, FS_EmptySet
  <2>3. n - 1 = IF n <= 1 THEN 0 ELSE n - 1
    BY <2>2
  <2> QED BY <2>1, <2>3, <1>0, <1>1, <1>3
<1> QED BY <1>5, <1>6

(* A step that leaves w's stream and counts alone, and does not connect it.*)
LEMMA StreamKept ==
  ASSUME NEW w \in W, StreamInv(w),
         counts'[w] = counts[w], heard'[w] = heard[w], q'[w] = q[w],
         Connected(w)' => Connected(w) /\ listens'[wcont'[w]] = listens[wcont[w]]
  PROVE  StreamInv(w)'
<1>1. PICK f \in [0..Len(q[w]) -> SUBSET Listen] : Replay(w, f)
  BY DEF StreamInv
<1>2. Replay(w, f)'
  BY <1>1 DEF Replay
<1> QED BY <1>1, <1>2 DEF StreamInv

(* The container's next event, appended to the stream.                     *)
LEMMA StreamGrows ==
  ASSUME TypeOK, NEW w \in W, StreamInv(w), NEW c \in Container, NEW l \in Listen,
         ListenAdd(c, l) \/ ListenRemove(c, l)
  PROVE  StreamInv(w)'
<1>1. UNCHANGED <<wpc, wcont, cancelled, counts, heard, severed, killed>>
  BY DEF ListenAdd, ListenRemove
<1>2. Connected(w)' <=> Connected(w)
  BY <1>1 DEF Connected, CtxDone
<1>3. CASE ~(wcont[w] = c /\ Connected(w))
  <2>1. q'[w] = q[w] /\ (wcont[w] # c /\ Connected(w) => listens'[wcont[w]] = listens[wcont[w]])
    <3>1. q'[w] = q[w]
      BY <1>3 DEF ListenAdd, ListenRemove, Tell
    <3>2. PICK set : listens' = [listens EXCEPT ![c] = set]
      BY DEF ListenAdd, ListenRemove
    <3>3. wcont[w] # c => listens'[wcont[w]] = listens[wcont[w]]
      BY <3>2 DEF TypeOK
    <3> QED BY <3>1, <3>3
  <2> QED BY <1>1, <1>2, <1>3, <2>1, StreamKept
<1>4. CASE wcont[w] = c /\ Connected(w)
  <2>1. PICK f \in [0..Len(q[w]) -> SUBSET Listen] : Replay(w, f)
    BY DEF StreamInv
  <2>2. f[Len(q[w])] = listens[c]
    BY <1>4, <2>1 DEF Replay
  <2>3. PICK e \in Item : /\ q'[w] = Append(q[w], e)
                         /\ \/ e.op = "add" /\ e.listen \notin listens[c]
                               /\ listens'[c] = listens[c] \cup {e.listen}
                            \/ e.op = "remove" /\ e.listen \in listens[c]
                               /\ listens'[c] = listens[c] \ {e.listen}
    <3>1. CASE ListenAdd(c, l)
      <4>1. PICK e \in Item : e = [op |-> "add", listen |-> l]
        BY Items
      <4>2. e.op = "add" /\ e.listen = l
        BY <4>1
      <4>3. q'[w] = Append(q[w], e)
        BY <3>1, <4>1, <1>4 DEF ListenAdd, Tell
      <4> QED BY <3>1, <4>2, <4>3 DEF ListenAdd, TypeOK
    <3>2. CASE ListenRemove(c, l)
      <4>1. PICK e \in Item : e = [op |-> "remove", listen |-> l]
        BY Items
      <4>2. e.op = "remove" /\ e.listen = l
        BY <4>1
      <4>3. q'[w] = Append(q[w], e)
        BY <3>2, <4>1, <1>4 DEF ListenRemove, Tell
      <4> QED BY <3>2, <4>2, <4>3 DEF ListenRemove, TypeOK
    <3> QED BY <3>1, <3>2
  <2> DEFINE n == Len(q[w])
  <2>4. /\ n \in Nat /\ Len(q'[w]) = n + 1 /\ q'[w][n + 1] = e
        /\ \A i \in 1..n : q'[w][i] = q[w][i]
    BY <2>3 DEF TypeOK
  <2>5. listens'[c] \in SUBSET Listen
    BY DEF ListenAdd, ListenRemove, TypeOK
  <2>6. PICK g \in [0..Len(q'[w]) -> SUBSET Listen] :
          g = [i \in 0..n + 1 |-> IF i <= n THEN f[i] ELSE listens'[c]]
    <3>1. [i \in 0..n + 1 |-> IF i <= n THEN f[i] ELSE listens'[c]]
            \in [0..Len(q'[w]) -> SUBSET Listen]
      BY <2>4, <2>5
    <3> QED BY <3>1
  <2>7. /\ \A i \in 0..n : g[i] = f[i]
        /\ g[n + 1] = listens'[c]
    BY <2>4, <2>6
  <2>8. g[0] = heard'[w]
    BY <2>1, <2>4, <2>7, <1>1 DEF Replay
  <2>9. ASSUME NEW i \in 1..Len(q'[w])
        PROVE  LET k == q'[w][i] IN
               /\ k.op = "sync" => g[i] = k.set
               /\ k.op = "add" => k.listen \notin g[i-1] /\ g[i] = g[i-1] \cup {k.listen}
               /\ k.op = "remove" => k.listen \in g[i-1] /\ g[i] = g[i-1] \ {k.listen}
    <3>1. CASE i <= n
      <4>1. i \in 1..n /\ i \in 0..n /\ i - 1 \in 0..n
        BY <3>1, <2>4
      <4>2. q'[w][i] = q[w][i] /\ g[i] = f[i] /\ g[i-1] = f[i-1]
        BY <4>1, <2>4, <2>7
      <4> QED BY <4>1, <4>2, <2>1 DEF Replay
    <3>2. CASE i > n
      <4>1. i = n + 1 /\ i - 1 = n /\ n \in 0..n
        BY <3>2, <2>4
      <4>2. q'[w][i] = e /\ g[i] = listens'[c] /\ g[i-1] = listens[c]
        BY <4>1, <2>2, <2>4, <2>7
      <4> QED BY <4>2, <2>3
    <3> QED BY <3>1, <3>2, <2>4
  <2>10. Replay(w, g)'
    BY <2>4, <2>7, <2>8, <2>9, <1>1, <1>4 DEF Replay
  <2> QED BY <2>10, <1>1 DEF StreamInv, newCounts
<1> QED BY <1>3, <1>4

(* The first event of the stream, received.                                *)
LEMMA StreamRead ==
  ASSUME TypeOK, NEW w \in W, StreamInv(w),
         ReceiveSync(w) \/ ReceiveAdd(w) \/ ReceiveRemove(w)
  PROVE  StreamInv(w)'
<1>1. /\ q[w] # <<>> /\ q'[w] = Tail(q[w]) /\ wpc[w] = "stream"
      /\ UNCHANGED <<wcont, cancelled, severed, killed, listens>>
  BY DEF ReceiveSync, ReceiveAdd, ReceiveRemove, TypeOK, envVars
<1>2. PICK f \in [0..Len(q[w]) -> SUBSET Listen] : Replay(w, f)
  BY DEF StreamInv
<1> DEFINE n == Len(q[w])
           e == Head(q[w])
<1>3. /\ n \in Nat /\ n >= 1 /\ Len(q'[w]) = n - 1 /\ e = q[w][1] /\ e \in Item
      /\ \A i \in 1..n - 1 : q'[w][i] = q[w][i + 1]
  BY <1>1 DEF TypeOK
<1>4. PICK g \in [0..Len(q'[w]) -> SUBSET Listen] : \A i \in 0..n - 1 : g[i] = f[i + 1]
  <2>1. [i \in 0..n - 1 |-> f[i + 1]] \in [0..Len(q'[w]) -> SUBSET Listen]
    BY <1>3
  <2> QED BY <2>1
<1>5. /\ f[0] = heard[w] /\ heard[w] \in SUBSET Listen
      /\ e.op = "sync" => f[1] = e.set
      /\ e.op = "add" => e.listen \notin f[0] /\ f[1] = f[0] \cup {e.listen}
      /\ e.op = "remove" => e.listen \in f[0] /\ f[1] = f[0] \ {e.listen}
  BY <1>2, <1>3 DEF Replay, TypeOK
<1>6. heard'[w] = f[1]
  <2>1. CASE ReceiveSync(w)
    BY <2>1, <1>5 DEF ReceiveSync, TypeOK
  <2>2. CASE ReceiveAdd(w)
    BY <2>2, <1>5 DEF ReceiveAdd, TypeOK
  <2>3. CASE ReceiveRemove(w)
    BY <2>3, <1>5 DEF ReceiveRemove, TypeOK
  <2> QED BY <2>1, <2>2, <2>3
<1>7. counts'[w] = newCounts(f[1])
  <2>0. counts[w] = newCounts(heard[w]) /\ counts \in [W -> [Port -> Nat]]
    BY DEF StreamInv, TypeOK
  <2>1. CASE ReceiveSync(w)
    BY <2>1, <2>0, <1>5 DEF ReceiveSync
  <2>2. CASE ReceiveAdd(w)
    <3>1. e.op = "add" /\ e.listen \in Listen
      BY <2>2, <1>3, Items DEF ReceiveAdd
    <3>2. counts'[w] = [counts[w] EXCEPT ![PortOf[e.listen]] = @ + 1]
      BY <2>2, <2>0 DEF ReceiveAdd
    <3>3. newCounts(heard[w] \cup {e.listen})
            = [newCounts(heard[w]) EXCEPT ![PortOf[e.listen]] = @ + 1]
      BY <3>1, <1>5, CountStep
    <3> QED BY <3>1, <3>2, <3>3, <2>0, <1>5
  <2>3. CASE ReceiveRemove(w)
    <3>1. e.op = "remove" /\ e.listen \in Listen
      BY <2>3, <1>3, Items DEF ReceiveRemove
    <3>2. counts'[w] = [counts[w] EXCEPT ![PortOf[e.listen]] = IF @ <= 1 THEN 0 ELSE @ - 1]
      BY <2>3, <2>0 DEF ReceiveRemove
    <3>3. newCounts(heard[w] \ {e.listen})
            = [newCounts(heard[w]) EXCEPT ![PortOf[e.listen]] = IF @ <= 1 THEN 0 ELSE @ - 1]
      BY <3>1, <1>5, CountStep
    <3> QED BY <3>1, <3>2, <3>3, <2>0, <1>5
  <2> QED BY <2>1, <2>2, <2>3
<1>8. Connected(w)' => Connected(w)
  BY <1>1 DEF Connected, CtxDone
<1> HIDE DEF e
<1>9. Replay(w, g)'
  <2>1. g[0] = heard'[w]
    BY <1>3, <1>4, <1>6
  <2>2. ASSUME NEW i \in 1..Len(q'[w])
        PROVE  LET k == q'[w][i] IN
               /\ k.op = "sync" => g[i] = k.set
               /\ k.op = "add" => k.listen \notin g[i-1] /\ g[i] = g[i-1] \cup {k.listen}
               /\ k.op = "remove" => k.listen \in g[i-1] /\ g[i] = g[i-1] \ {k.listen}
    <3>1. i + 1 \in 1..n /\ i \in 1..n - 1 /\ i \in 0..n - 1 /\ i - 1 \in 0..n - 1 /\ (i - 1) + 1 = i
          /\ (i + 1) - 1 = i
      BY <1>3
    <3>2. q'[w][i] = q[w][i + 1] /\ g[i] = f[i + 1] /\ g[i-1] = f[i]
      BY <3>1, <1>3, <1>4
    <3> QED BY <3>1, <3>2, <1>2 DEF Replay
  <2>3. Connected(w)' => g[Len(q'[w])] = listens'[wcont'[w]]
    <3>1. n - 1 \in 0..n - 1 /\ (n - 1) + 1 = n
      BY <1>3
    <3>2. g[Len(q'[w])] = f[n]
      BY <3>1, <1>3, <1>4
    <3> QED BY <3>2, <1>1, <1>2, <1>8 DEF Replay
  <2> QED BY <2>1, <2>2, <2>3 DEF Replay
<1> QED BY <1>6, <1>7, <1>9 DEF StreamInv, newCounts

(* Every step keeps the counts in step with the stream.                    *)
LEMMA StreamStep ==
  ASSUME TypeOK, BaseInv, NEW w \in W, StreamInv(w), [Next]_vars
  PROVE  StreamInv(w)'
<1>0. SlotInv(w)
  BY DEF BaseInv
<1>1. ASSUME UNCHANGED <<wpc, wcont, counts, heard, q, listens>>,
             Connected(w)' => w \notin severed /\ ~CtxDone(w)
      PROVE  StreamInv(w)'
  BY <1>1, StreamKept DEF Connected
<1>2. ASSUME NEW c \in Container, ContainerDown(c) PROVE StreamInv(w)'
  BY <1>1, <1>2 DEF ContainerDown, Connected, CtxDone
<1>3. CASE UNCHANGED vars \/ \E c \in Container : RemoveStale(c) \/ ContainerUp(c)
  BY <1>1, <1>3 DEF vars, envVars, watcherVars, RemoveStale, ContainerUp, Connected, CtxDone
<1>4. CASE Kill \/ (Run /\ ~ScanDir /\ ~Scan)
  <2>1. UNCHANGED <<envVars, watcherVars>> /\ (killed => killed')
    BY <1>4 DEF Kill, Run, StartupHold, Deadline, SendSnapshot, Flush, Forward, Stop, Close,
                StartupReceive
  <2> QED BY <2>1, <1>1 DEF envVars, watcherVars, Connected, CtxDone
<1>5. ASSUME NEW x \in W, x # w, ContainerWatcher(x) PROVE StreamInv(w)'
  <2>1. UNCHANGED <<killed, listens>>
    BY <1>5, RunKeeps DEF envVars
  <2>2. /\ wpc'[w] = wpc[w] /\ wcont'[w] = wcont[w]
        /\ q'[w] = q[w] /\ counts'[w] = counts[w] /\ heard'[w] = heard[w]
        /\ (w \in severed' <=> w \in severed) /\ (w \in cancelled' <=> w \in cancelled)
    BY <1>5, OthersKeep
  <2>3. Connected(w)' => Connected(w)
    BY <2>1, <2>2 DEF Connected, CtxDone
  <2> QED BY <2>1, <2>2, <2>3, StreamKept
<1>6. CASE Dial(w)
  <2>1. PICK e : /\ e = [op |-> "sync", set |-> listens[wcont[w]]] /\ q'[w] = <<e>>
                 /\ e.op = "sync" /\ e.set = listens[wcont[w]]
    BY <1>6 DEF Dial, TypeOK
  <2>2. /\ Len(q'[w]) = 1 /\ q'[w][1] = e
        /\ UNCHANGED <<wcont, counts, heard, listens>>
        /\ heard[w] \in SUBSET Listen /\ listens[wcont[w]] \in SUBSET Listen
    BY <1>6, <2>1 DEF Dial, envVars, TypeOK
  <2>3. PICK g \in [0..1 -> SUBSET Listen] : g[0] = heard[w] /\ g[1] = listens[wcont[w]]
    <3> DEFINE h == [i \in 0..1 |-> IF i = 0 THEN heard[w] ELSE listens[wcont[w]]]
    <3>1. h \in [0..1 -> SUBSET Listen] /\ h[0] = heard[w] /\ h[1] = listens[wcont[w]]
      BY <2>2
    <3> HIDE DEF h
    <3> QED BY <3>1
  <2>4. Replay(w, g)'
    BY <2>1, <2>2, <2>3 DEF Replay
  <2> QED BY <2>2, <2>4 DEF StreamInv, newCounts
<1>7. ASSUME q'[w] = <<>>, ~Connected(w)', counts'[w] = newCounts(heard'[w]),
             heard'[w] \in SUBSET Listen
      PROVE  StreamInv(w)'
  <2>1. PICK g \in [0..0 -> SUBSET Listen] : g[0] = heard'[w]
    <3> DEFINE h == [i \in 0..0 |-> heard'[w]]
    <3>1. h \in [0..0 -> SUBSET Listen] /\ h[0] = heard'[w]
      BY <1>7
    <3> HIDE DEF h
    <3> QED BY <3>1
  <2>2. Len(q'[w]) = 0
    BY <1>7
  <2>3. Replay(w, g)'
    BY <1>7, <2>1, <2>2 DEF Replay
  <2> QED BY <1>7, <2>2, <2>3 DEF StreamInv, newCounts
<1>8. CASE WatchEnds(w)
  BY <1>7, <1>8 DEF WatchEnds, callback, Connected, StreamInv, TypeOK, newCounts
<1>9. CASE Retry(w)
  <2>1. UNCHANGED <<counts, heard, q>> /\ ~Connected(w)'
    BY <1>9 DEF Retry, TypeOK, Connected
  <2> QED BY <2>1, StreamKept
<1>10. CASE Finish(w)
  <2>1. /\ counts'[w] = NoPorts /\ heard'[w] = {} /\ q' = q /\ wpc[w] \in {"dial", "wait"}
        /\ wpc'[w] \in {"free", "final"}
    BY <1>10 DEF Finish, Ended, TypeOK
  <2>2. newCounts({}) = NoPorts
    <3>1. \A p : {l \in {} : PortOf[l] = p} = {}
      OBVIOUS
    <3> QED BY <3>1, FS_EmptySet DEF newCounts, NoPorts
  <2>3. q'[w] = <<>> /\ ~Connected(w)'
    BY <2>1, <1>0 DEF SlotInv, Connected
  <2> QED BY <2>1, <2>2, <2>3, <1>7
<1>11. CASE emit(w)
  <2>1. UNCHANGED <<counts, heard, q, listens>> /\ (Connected(w)' => Connected(w) /\ wcont' = wcont)
    BY <1>11 DEF emit, Ended, Connected, CtxDone, TypeOK, envVars
  <2> QED BY <2>1, StreamKept
<1>12. ASSUME NEW set \in SUBSET Container, NEW f \in Slots(set), NEW withCallback \in BOOLEAN,
              startContainers(set, f, withCallback),
              UNCHANGED <<q, severed, counts, heard, listens, killed>>, cancelled \subseteq cancelled'
       PROVE  StreamInv(w)'
  <2>1. CASE \A c \in set : f[c] # w
    <3>1. wpc'[w] = wpc[w] /\ wcont'[w] = wcont[w]
      BY <1>12, <2>1, Started
    <3> QED BY <3>1, <1>12, StreamKept DEF Connected, CtxDone
  <2>2. ASSUME NEW c \in set, f[c] = w PROVE StreamInv(w)'
    <3>1. wpc'[w] = "dial"
      BY <1>12, <2>2, Started
    <3> QED BY <3>1, <1>12, StreamKept DEF Connected
  <2> QED BY <2>1, <2>2
<1>13. CASE ScanDir
  <2>1. PICK f \in Slots(socket) : startContainers(socket, f, TRUE)
    BY <1>13 DEF ScanDir
  <2> QED BY <2>1, <1>12, <1>13 DEF ScanDir, TypeOK, envVars
<1>14. CASE Scan
  <2>1. PICK f \in Slots({c \in socket : ~Knows(c)}) :
          startContainers({c \in socket : ~Knows(c)}, f, FALSE)
    BY <1>14 DEF Scan
  <2>2. {c \in socket : ~Knows(c)} \in SUBSET Container
    BY DEF TypeOK
  <2>3. UNCHANGED <<q, severed, counts, heard, listens, killed>> /\ cancelled \subseteq cancelled'
    BY <1>14 DEF Scan, envVars
  <2> QED BY <2>1, <2>2, <2>3, <1>12
<1>15. CASE ContainerWatcher(w)
  BY <1>15, <1>6, <1>8, <1>9, <1>10, <1>11, StreamRead DEF ContainerWatcher
<1>16. CASE Environment
  BY <1>16, <1>2, <1>3, StreamGrows DEF Environment
<1> QED BY <1>3, <1>4, <1>5, <1>13, <1>14, <1>15, <1>16 DEF Next

(* The counts are always in step with the stream.                          *)
LEMMA StreamAlways == SafetySpec => [](\A w \in W : StreamInv(w))
<1>1. Init => \A w \in W : StreamInv(w)
  <2> SUFFICES ASSUME Init, NEW w \in W PROVE StreamInv(w)
    OBVIOUS
  <2>1. newCounts({}) = NoPorts
    <3>1. \A p : {l \in {} : PortOf[l] = p} = {}
      OBVIOUS
    <3> QED BY <3>1, FS_EmptySet DEF newCounts, NoPorts
  <2>3. PICK f \in [0..0 -> SUBSET Listen] : f[0] = {}
    <3> DEFINE h == [i \in 0..0 |-> {}]
    <3>1. h \in [0..0 -> SUBSET Listen] /\ h[0] = {}
      OBVIOUS
    <3> HIDE DEF h
    <3> QED BY <3>1
  <2>4. Len(q[w]) = 0 /\ heard[w] = {} /\ counts[w] = NoPorts /\ wpc[w] = "free"
    BY DEF Init
  <2>5. Replay(w, f)
    BY <2>3, <2>4 DEF Replay, Connected
  <2> QED BY <2>1, <2>4, <2>5 DEF StreamInv
<1>2. (TypeOK /\ BaseInv) /\ (\A w \in W : StreamInv(w)) /\ [Next]_vars
        => (\A w \in W : StreamInv(w))'
  BY StreamStep
<1> QED BY <1>1, <1>2, BaseAlways, PTL DEF SafetySpec

(* For any container, stream and number of listens of one port: what a     *)
(* watcher counts (portCounts) is what its stream has reported, through    *)
(* reconnections, so an "add" never counts a listen twice and a "remove"   *)
(* never one that is not there.                                            *)
THEOREM CountsAreRight == SafetySpec => []CountsMatch
<1>1. (\A w \in W : StreamInv(w)) => CountsMatch
  BY DEF StreamInv, CountsMatch
<1> QED BY <1>1, StreamAlways, PTL

----------------------------------------------------------------------------
(* The consumer starts from the ports S and is sent the first n batches of *)
(* s: whether it then has port p of container c open.                      *)
Told(S, s, n, c, p) ==
  \/ \E i \in 1..n : /\ s[i].c = c /\ p \in s[i].opens
                     /\ \A j \in (i+1)..n : ~Mentions(s[j], c, p)
  \/ <<c, p>> \in S /\ \A j \in 1..n : ~Mentions(s[j], c, p)

(* Before the first batch nothing has changed.                             *)
LEMMA ToldNone ==
  ASSUME NEW S, NEW s, NEW c, NEW p PROVE Told(S, s, 0, c, p) <=> <<c, p>> \in S
BY DEF Told

(* One batch more: it decides about the ports it mentions.                 *)
LEMMA ToldNext ==
  ASSUME NEW S, NEW s, NEW n \in Nat, NEW c, NEW p
  PROVE  Told(S, s, n + 1, c, p) <=>
           \/ s[n+1].c = c /\ p \in s[n+1].opens
           \/ Told(S, s, n, c, p) /\ ~Mentions(s[n+1], c, p)
<1>1. \A i \in 1..(n+1) : i \in 1..n \/ i = n + 1
  OBVIOUS
<1>2. \A i \in 1..n : i \in 1..(n+1) /\ n + 1 \in (i+1)..(n+1)
  OBVIOUS
<1>3. \A i \in 1..n : \A j \in (i+1)..(n+1) : j \in (i+1)..n \/ j = n + 1
  OBVIOUS
<1>4. \A i \in 1..n : \A j \in (i+1)..n : j \in (i+1)..(n+1)
  OBVIOUS
<1>5. n + 1 \in 1..(n+1) /\ \A j \in ((n+1)+1)..(n+1) : FALSE
  OBVIOUS
<1>6. ASSUME Told(S, s, n + 1, c, p)
      PROVE  \/ s[n+1].c = c /\ p \in s[n+1].opens
             \/ Told(S, s, n, c, p) /\ ~Mentions(s[n+1], c, p)
  <2>1. CASE <<c, p>> \in S /\ \A j \in 1..(n+1) : ~Mentions(s[j], c, p)
    BY <2>1, <1>2, <1>5 DEF Told
  <2>2. ASSUME NEW i \in 1..(n+1), s[i].c = c, p \in s[i].opens,
               \A j \in (i+1)..(n+1) : ~Mentions(s[j], c, p)
        PROVE  \/ s[n+1].c = c /\ p \in s[n+1].opens
               \/ Told(S, s, n, c, p) /\ ~Mentions(s[n+1], c, p)
    BY <2>2, <1>1, <1>2, <1>4 DEF Told
  <2> QED BY <1>6, <2>1, <2>2 DEF Told
<1>7. ASSUME s[n+1].c = c, p \in s[n+1].opens PROVE Told(S, s, n + 1, c, p)
  BY <1>5, <1>7 DEF Told
<1>8. ASSUME Told(S, s, n, c, p), ~Mentions(s[n+1], c, p) PROVE Told(S, s, n + 1, c, p)
  <2>1. CASE <<c, p>> \in S /\ \A j \in 1..n : ~Mentions(s[j], c, p)
    BY <2>1, <1>1, <1>8 DEF Told
  <2>2. ASSUME NEW i \in 1..n, s[i].c = c, p \in s[i].opens,
               \A j \in (i+1)..n : ~Mentions(s[j], c, p)
        PROVE  Told(S, s, n + 1, c, p)
    <3>1. \A j \in (i+1)..(n+1) : ~Mentions(s[j], c, p)
      BY <2>2, <1>3, <1>8
    <3> QED BY <2>2, <3>1, <1>2 DEF Told
  <2> QED BY <1>8, <2>1, <2>2 DEF Told
<1> QED BY <1>6, <1>7, <1>8

(* Only the batches and what S says of the port count.                     *)
LEMMA ToldSame ==
  ASSUME NEW S, NEW T, NEW s, NEW t, NEW n \in Nat, NEW c, NEW p,
         <<c, p>> \in S <=> <<c, p>> \in T, \A i \in 1..n : s[i] = t[i]
  PROVE  Told(S, s, n, c, p) <=> Told(T, t, n, c, p)
<1>1. \A i \in 1..n : \A j \in (i+1)..n : j \in 1..n
  OBVIOUS
<1> QED BY <1>1 DEF Told

(* What the consumer has after batch b.                                    *)
Apply(S, b) == (S \ ({b.c} \X b.closes)) \cup ({b.c} \X b.opens)

(* What a batch does to one port.                                          *)
LEMMA ApplyOne ==
  ASSUME NEW S, NEW b \in Batch, NEW c, NEW p
  PROVE  <<c, p>> \in Apply(S, b) <=>
           \/ b.c = c /\ p \in b.opens
           \/ <<c, p>> \in S /\ ~Mentions(b, c, p)
BY DEF Apply, Mentions

(* The first batch is sent, and the rest follows as before.                *)
LEMMA ToldTail ==
  ASSUME NEW S, NEW s \in Seq(Batch), s # <<>>, NEW n \in Nat, n + 1 <= Len(s), NEW c, NEW p
  PROVE  Told(Apply(S, Head(s)), Tail(s), n, c, p) <=> Told(S, s, n + 1, c, p)
<1>1. Head(s) = s[1] /\ s[1] \in Batch /\ Len(s) \in Nat /\ \A i \in 1..n : Tail(s)[i] = s[i+1]
  OBVIOUS
<1> DEFINE t == Tail(s)
           T == Apply(S, s[1])
<1>2. \A i \in 1..n : t[i] = s[i+1]
  BY <1>1
<1>3. <<c, p>> \in T <=>
        \/ s[1].c = c /\ p \in s[1].opens
        \/ <<c, p>> \in S /\ ~Mentions(s[1], c, p)
  BY <1>1, ApplyOne
<1>4. \A i \in 1..n : /\ i + 1 \in 1..(n+1)
                      /\ \A j \in (i+1)..n : j \in 1..n /\ j + 1 \in ((i+1)+1)..(n+1)
                      /\ \A j \in ((i+1)+1)..(n+1) : j - 1 \in (i+1)..n /\ j - 1 \in 1..n /\ (j - 1) + 1 = j
  OBVIOUS
<1>5. /\ 1 \in 1..(n+1)
      /\ \A i \in 1..(n+1) : i = 1 \/ (i - 1 \in 1..n /\ (i - 1) + 1 = i)
      /\ \A j \in (1+1)..(n+1) : j - 1 \in 1..n /\ (j - 1) + 1 = j /\ j \in 1..(n+1)
      /\ \A j \in 1..n : j + 1 \in (1+1)..(n+1)
  OBVIOUS
<1> HIDE DEF t, T
<1>6. ASSUME Told(T, t, n, c, p) PROVE Told(S, s, n + 1, c, p)
  <2>1. ASSUME NEW i \in 1..n, t[i].c = c, p \in t[i].opens,
               \A j \in (i+1)..n : ~Mentions(t[j], c, p)
        PROVE  Told(S, s, n + 1, c, p)
    <3>1. s[i+1].c = c /\ p \in s[i+1].opens /\ i + 1 \in 1..(n+1)
      BY <2>1, <1>2, <1>4
    <3>2. ASSUME NEW j \in ((i+1)+1)..(n+1) PROVE ~Mentions(s[j], c, p)
      <4>1. j - 1 \in (i+1)..n /\ j - 1 \in 1..n /\ (j - 1) + 1 = j
        BY <1>4
      <4>2. t[j-1] = s[j]
        BY <4>1, <1>2
      <4> QED BY <4>1, <4>2, <2>1
    <3> QED BY <3>1, <3>2 DEF Told
  <2>2. ASSUME <<c, p>> \in T, \A j \in 1..n : ~Mentions(t[j], c, p)
        PROVE  Told(S, s, n + 1, c, p)
    <3>1. ASSUME NEW j \in (1+1)..(n+1) PROVE ~Mentions(s[j], c, p)
      <4>1. t[j-1] = s[j] /\ j - 1 \in 1..n
        BY <1>2, <1>5
      <4> QED BY <4>1, <2>2
    <3>2. CASE s[1].c = c /\ p \in s[1].opens
      BY <3>1, <3>2, <1>5 DEF Told
    <3>3. CASE <<c, p>> \in S /\ ~Mentions(s[1], c, p)
      <4>1. ASSUME NEW j \in 1..(n+1) PROVE ~Mentions(s[j], c, p)
        <5>1. j = 1 \/ j \in (1+1)..(n+1)
          OBVIOUS
        <5> QED BY <5>1, <3>1, <3>3
      <4> QED BY <3>3, <4>1 DEF Told
    <3> QED BY <2>2, <3>2, <3>3, <1>3
  <2> QED BY <1>6, <2>1, <2>2 DEF Told
<1>7. ASSUME Told(S, s, n + 1, c, p) PROVE Told(T, t, n, c, p)
  <2>1. ASSUME NEW i \in 1..(n+1), s[i].c = c, p \in s[i].opens,
               \A j \in (i+1)..(n+1) : ~Mentions(s[j], c, p)
        PROVE  Told(T, t, n, c, p)
    <3>1. CASE i = 1
      <4>1. ASSUME NEW j \in 1..n PROVE ~Mentions(t[j], c, p)
        <5>1. t[j] = s[j+1] /\ j + 1 \in (1+1)..(n+1)
          BY <1>2, <1>5
        <5> QED BY <5>1, <2>1, <3>1
      <4>2. <<c, p>> \in T
        BY <2>1, <3>1, <1>3
      <4> QED BY <4>1, <4>2 DEF Told
    <3>2. CASE i # 1
      <4>1. PICK k \in 1..n : i = k + 1
        BY <3>2, <1>5
      <4>2. t[k].c = c /\ p \in t[k].opens
        BY <4>1, <2>1, <1>2
      <4>3. ASSUME NEW j \in (k+1)..n PROVE ~Mentions(t[j], c, p)
        <5>1. j \in 1..n /\ j + 1 \in ((k+1)+1)..(n+1)
          BY <1>4
        <5>2. t[j] = s[j+1] /\ j + 1 \in (i+1)..(n+1)
          BY <5>1, <4>1, <1>2
        <5> QED BY <5>2, <2>1
      <4> QED BY <4>2, <4>3 DEF Told
    <3> QED BY <3>1, <3>2
  <2>2. ASSUME <<c, p>> \in S, \A j \in 1..(n+1) : ~Mentions(s[j], c, p)
        PROVE  Told(T, t, n, c, p)
    <3>1. <<c, p>> \in T
      BY <2>2, <1>3, <1>5
    <3>2. ASSUME NEW j \in 1..n PROVE ~Mentions(t[j], c, p)
      BY <2>2, <1>2, <1>4
    <3> QED BY <3>1, <3>2 DEF Told
  <2> QED BY <1>7, <2>1, <2>2 DEF Told
<1> QED BY <1>1, <1>6, <1>7 DEF t, T

(* The batches on their way to the consumer, without the ones that are     *)
(* still with their watchers, and what it believes once they are sent.     *)
Queued == pendingOut \o outCh
Believed(c, p) == Told(Base, Queued, Len(Queued), c, p)
Works(w, c) == Live(w) /\ wcont[w] = c

(* Every batch about c on its way is news to the consumer when it gets it: *)
(* it opens only ports that are closed to it then, and closes open ones.   *)
NewsInv(c) ==
  /\ \A i \in 1..Len(Queued) : Queued[i].c = c =>
       \A p \in Port : /\ p \in Queued[i].opens => ~Told(Base, Queued, i - 1, c, p)
                       /\ p \in Queued[i].closes => Told(Base, Queued, i - 1, c, p)
  /\ \A w \in W : Works(w, c) /\ batch[w] # <<>> =>
       \A p \in Port : /\ p \in Head(batch[w]).opens => ~Believed(c, p)
                       /\ p \in Head(batch[w]).closes => Believed(c, p)

(* After the batch that c's watcher holds, the consumer believes what the  *)
(* watcher counts; it believes nothing of a container without a watcher.   *)
AgreeInv(c) ==
  /\ \A w \in W : Works(w, c) => \A p \in Port :
       p \in Open(counts[w]) <=>
         IF batch[w] = <<>> THEN Believed(c, p)
         ELSE p \in Head(batch[w]).opens \/ (Believed(c, p) /\ p \notin Head(batch[w]).closes)
  /\ (\A w \in W : ~Works(w, c)) => \A p \in Port : ~Believed(c, p)

(* At most one watcher works for a container that was not restarted early, *)
(* and nothing was sent about one whose startup callback is still due.     *)
AloneInv(c) ==
  c \notin overlapped =>
    /\ \A w, x \in W : Works(w, c) /\ Works(x, c) => w = x
    /\ (\E w \in cb : wcont[w] = c) => \A i \in 1..Len(Queued) : Queued[i].c # c

ToldInv(c) == AloneInv(c) /\ (Regular(c) => NewsInv(c) /\ AgreeInv(c))

(* What is queued is a sequence of batches.                                *)
LEMMA QueuedType ==
  ASSUME TypeOK
  PROVE  Queued \in Seq(Batch) /\ Len(Queued) \in Nat
         /\ \A i \in 1..Len(Queued) : Queued[i] \in Batch
<1>1. Queued \in Seq(Batch)
  BY DEF TypeOK, Queued
<1> QED BY <1>1

(* While neither the queue nor the consumer's ports of c change, nothing   *)
(* changes in what it will be told of c.                                   *)
LEMMA Steady ==
  ASSUME TypeOK, NEW c \in Container, Queued' = Queued,
         \A p \in Port : <<c, p>> \in Base' <=> <<c, p>> \in Base
  PROVE  /\ \A p \in Port : \A i \in 1..Len(Queued) :
              Told(Base', Queued', i - 1, c, p) <=> Told(Base, Queued, i - 1, c, p)
         /\ \A p \in Port : Believed(c, p)' <=> Believed(c, p)
<1>1. Len(Queued) \in Nat /\ \A i \in 1..Len(Queued) : i - 1 \in Nat
  BY QueuedType
<1>2. ASSUME NEW p \in Port, NEW n \in Nat
      PROVE  Told(Base', Queued', n, c, p) <=> Told(Base, Queued, n, c, p)
  BY ToldSame
<1> QED BY <1>1, <1>2 DEF Believed

(* A step that changes nothing of a container keeps its invariants.        *)
LEMMA Unmoved ==
  ASSUME TypeOK, NEW c \in Container, NewsInv(c), AgreeInv(c), Queued' = Queued,
         \A p \in Port : <<c, p>> \in Base' <=> <<c, p>> \in Base,
         \A w \in W : Works(w, c)' <=> Works(w, c),
         \A w \in W : Works(w, c) => counts'[w] = counts[w] /\ batch'[w] = batch[w]
  PROVE  NewsInv(c)' /\ AgreeInv(c)'
<1>1. \A p \in Port : Believed(c, p)' <=> Believed(c, p)
  BY Steady
<1>2. NewsInv(c)'
  <2>1. ASSUME NEW i \in 1..Len(Queued'), Queued'[i].c = c, NEW p \in Port
        PROVE  /\ p \in Queued'[i].opens => ~Told(Base', Queued', i - 1, c, p)
               /\ p \in Queued'[i].closes => Told(Base', Queued', i - 1, c, p)
    <3>1. i \in 1..Len(Queued) /\ Queued'[i] = Queued[i]
      OBVIOUS
    <3>2. Told(Base', Queued', i - 1, c, p) <=> Told(Base, Queued, i - 1, c, p)
      BY <3>1, Steady
    <3> QED BY <2>1, <3>1, <3>2 DEF NewsInv
  <2>2. ASSUME NEW w \in W, Works(w, c)', batch'[w] # <<>>, NEW p \in Port
        PROVE  /\ p \in Head(batch'[w]).opens => ~Believed(c, p)'
               /\ p \in Head(batch'[w]).closes => Believed(c, p)'
    BY <1>1, <2>2 DEF NewsInv
  <2> QED BY <2>1, <2>2 DEF NewsInv
<1>3. AgreeInv(c)'
  <2>1. ASSUME NEW w \in W, Works(w, c)', NEW p \in Port
        PROVE  p \in Open(counts'[w]) <=>
                 IF batch'[w] = <<>> THEN Believed(c, p)'
                 ELSE p \in Head(batch'[w]).opens
                      \/ (Believed(c, p)' /\ p \notin Head(batch'[w]).closes)
    <3>1. Works(w, c) /\ counts'[w] = counts[w] /\ batch'[w] = batch[w]
      BY <2>1
    <3> QED BY <3>1, <1>1 DEF AgreeInv
  <2>2. ASSUME \A w \in W : ~Works(w, c)', NEW p \in Port PROVE ~Believed(c, p)'
    BY <1>1, <2>2 DEF AgreeInv
  <2> QED BY <2>1, <2>2 DEF AgreeInv, Open
<1> QED BY <1>2, <1>3

(* A watcher that made a batch of exactly what changed in its counts.      *)
LEMMA Emission ==
  ASSUME TypeOK, NEW c \in Container, NewsInv(c), AgreeInv(c), Queued' = Queued,
         \A p \in Port : <<c, p>> \in Base' <=> <<c, p>> \in Base,
         NEW w \in W, Works(w, c), batch[w] = <<>>,
         NEW opens \in SUBSET Port, NEW closes \in SUBSET Port,
         opens \cap Open(counts[w]) = {}, closes \subseteq Open(counts[w]),
         Open(counts'[w]) = (Open(counts[w]) \ closes) \cup opens,
         batch'[w] = IF opens \cup closes = {} THEN <<>>
                     ELSE <<[c |-> wcont[w], opens |-> opens, closes |-> closes]>>,
         \A x \in W : x # w => /\ Works(x, c)' <=> Works(x, c)
                              /\ counts'[x] = counts[x] /\ batch'[x] = batch[x],
         Works(w, c)'
  PROVE  NewsInv(c)' /\ AgreeInv(c)'
<1>1. \A p \in Port : Believed(c, p)' <=> Believed(c, p)
  BY Steady
<1>2. \A p \in Port : Believed(c, p) <=> p \in Open(counts[w])
  BY DEF AgreeInv
<1>3. opens \cup closes # {} => /\ batch'[w] # <<>> /\ Head(batch'[w]).opens = opens
                               /\ Head(batch'[w]).closes = closes
  OBVIOUS
<1>4. NewsInv(c)'
  <2>1. ASSUME NEW i \in 1..Len(Queued'), Queued'[i].c = c, NEW p \in Port
        PROVE  /\ p \in Queued'[i].opens => ~Told(Base', Queued', i - 1, c, p)
               /\ p \in Queued'[i].closes => Told(Base', Queued', i - 1, c, p)
    <3>1. i \in 1..Len(Queued) /\ Queued'[i] = Queued[i]
      OBVIOUS
    <3>2. Told(Base', Queued', i - 1, c, p) <=> Told(Base, Queued, i - 1, c, p)
      BY <3>1, Steady
    <3> QED BY <2>1, <3>1, <3>2 DEF NewsInv
  <2>2. ASSUME NEW x \in W, Works(x, c)', batch'[x] # <<>>, NEW p \in Port
        PROVE  /\ p \in Head(batch'[x]).opens => ~Believed(c, p)'
               /\ p \in Head(batch'[x]).closes => Believed(c, p)'
    <3>1. CASE x = w
      BY <1>1, <1>2, <1>3, <2>2, <3>1
    <3>2. CASE x # w
      BY <1>1, <2>2, <3>2 DEF NewsInv
    <3> QED BY <3>1, <3>2
  <2> QED BY <2>1, <2>2 DEF NewsInv
<1>5. AgreeInv(c)'
  <2>1. ASSUME NEW x \in W, Works(x, c)', NEW p \in Port
        PROVE  p \in Open(counts'[x]) <=>
                 IF batch'[x] = <<>> THEN Believed(c, p)'
                 ELSE p \in Head(batch'[x]).opens
                      \/ (Believed(c, p)' /\ p \notin Head(batch'[x]).closes)
    <3>1. CASE x # w
      <4>1. Works(x, c) /\ counts'[x] = counts[x] /\ batch'[x] = batch[x]
        BY <2>1, <3>1
      <4> QED BY <4>1, <1>1 DEF AgreeInv
    <3>2. CASE x = w /\ opens \cup closes = {}
      <4>1. batch'[x] = <<>> /\ Open(counts'[x]) = Open(counts[w])
        BY <3>2
      <4> QED BY <4>1, <1>1, <1>2
    <3>3. CASE x = w /\ opens \cup closes # {}
      BY <3>3, <1>1, <1>2, <1>3
    <3> QED BY <3>1, <3>2, <3>3
  <2> QED BY <2>1 DEF AgreeInv, Open
<1> QED BY <1>4, <1>5

(* A batch enters the queue.  It decides about the ports of its container  *)
(* that it mentions, and about no other.                                   *)
LEMMA Posted ==
  ASSUME TypeOK, NEW c \in Container, NEW b \in Batch,
         Queued' = Append(Queued, b), Base' = Base
  PROVE  /\ Len(Queued') = Len(Queued) + 1 /\ Queued'[Len(Queued) + 1] = b
         /\ \A i \in 1..Len(Queued) : Queued'[i] = Queued[i]
         /\ \A p \in Port : \A i \in 1..Len(Queued) + 1 :
              Told(Base', Queued', i - 1, c, p) <=> Told(Base, Queued, i - 1, c, p)
         /\ \A p \in Port : Believed(c, p)' <=>
              \/ b.c = c /\ p \in b.opens
              \/ Believed(c, p) /\ ~Mentions(b, c, p)
<1> DEFINE n == Len(Queued)
<1>1. /\ n \in Nat /\ Len(Queued') = n + 1 /\ Queued'[n + 1] = b
      /\ \A i \in 1..n : Queued'[i] = Queued[i]
  BY QueuedType
<1> HIDE DEF n
<1>2. ASSUME NEW p \in Port, NEW m \in Nat, m <= n
      PROVE  Told(Base', Queued', m, c, p) <=> Told(Base, Queued, m, c, p)
  <2>1. \A i \in 1..m : Queued'[i] = Queued[i]
    BY <1>1, <1>2
  <2> QED BY <2>1, ToldSame
<1>3. ASSUME NEW p \in Port, NEW i \in 1..n + 1
      PROVE  Told(Base', Queued', i - 1, c, p) <=> Told(Base, Queued, i - 1, c, p)
  <2>1. i - 1 \in Nat /\ i - 1 <= n
    BY <1>1
  <2> QED BY <2>1, <1>2
<1>4. ASSUME NEW p \in Port
      PROVE  Believed(c, p)' <=>
               \/ b.c = c /\ p \in b.opens
               \/ Believed(c, p) /\ ~Mentions(b, c, p)
  <2>1. Told(Base', Queued', n + 1, c, p) <=>
          \/ Queued'[n+1].c = c /\ p \in Queued'[n+1].opens
          \/ Told(Base', Queued', n, c, p) /\ ~Mentions(Queued'[n+1], c, p)
    BY <1>1, ToldNext
  <2>2. Told(Base', Queued', n, c, p) <=> Told(Base, Queued, n, c, p)
    BY <1>1, <1>2
  <2> QED BY <2>1, <2>2, <1>1 DEF Believed, n
<1> QED BY <1>1, <1>3, <1>4 DEF n

(* The queue's first batch reaches the consumer.                           *)
LEMMA Delivered ==
  ASSUME TypeOK, NEW c \in Container, NewsInv(c), AgreeInv(c), Queued # <<>>,
         Queued' = Tail(Queued), Base' = Apply(Base, Head(Queued)),
         UNCHANGED <<wpc, wcont, counts, batch>>
  PROVE  NewsInv(c)' /\ AgreeInv(c)'
<1> DEFINE n == Len(Queued)
<1>0. Queued \in Seq(Batch)
  BY QueuedType
<1>1. /\ n \in Nat /\ n >= 1 /\ Len(Queued') = n - 1
      /\ \A i \in 1..n - 1 : Queued'[i] = Queued[i + 1]
  BY <1>0
<1> HIDE DEF n
<1>2. ASSUME NEW p \in Port, NEW m \in Nat, m + 1 <= n
      PROVE  Told(Base', Queued', m, c, p) <=> Told(Base, Queued, m + 1, c, p)
  BY <1>0, <1>2, ToldTail DEF n
<1>3. \A p \in Port : Believed(c, p)' <=> Believed(c, p)
  <2>1. n - 1 \in Nat /\ (n - 1) + 1 = n /\ (n - 1) + 1 <= n
    BY <1>1
  <2> QED BY <2>1, <1>1, <1>2 DEF Believed, n
<1>4. \A w \in W : Works(w, c)' <=> Works(w, c)
  BY DEF Works, Live
<1>5. NewsInv(c)'
  <2>1. ASSUME NEW i \in 1..Len(Queued'), Queued'[i].c = c, NEW p \in Port
        PROVE  /\ p \in Queued'[i].opens => ~Told(Base', Queued', i - 1, c, p)
               /\ p \in Queued'[i].closes => Told(Base', Queued', i - 1, c, p)
    <3>1. /\ i \in 1..n - 1 /\ i + 1 \in 1..n /\ i - 1 \in Nat /\ (i - 1) + 1 = i
          /\ (i - 1) + 1 <= n /\ (i + 1) - 1 = i
      BY <1>1
    <3>2. Queued'[i] = Queued[i + 1]
      BY <3>1, <1>1
    <3>3. Told(Base', Queued', i - 1, c, p) <=> Told(Base, Queued, i, c, p)
      BY <3>1, <1>2
    <3>4. /\ p \in Queued[i+1].opens => ~Told(Base, Queued, i, c, p)
          /\ p \in Queued[i+1].closes => Told(Base, Queued, i, c, p)
      BY <2>1, <3>1, <3>2 DEF NewsInv, n
    <3> QED BY <3>2, <3>3, <3>4
  <2>2. ASSUME NEW w \in W, Works(w, c)', batch'[w] # <<>>, NEW p \in Port
        PROVE  /\ p \in Head(batch'[w]).opens => ~Believed(c, p)'
               /\ p \in Head(batch'[w]).closes => Believed(c, p)'
    BY <1>3, <1>4, <2>2 DEF NewsInv
  <2> QED BY <2>1, <2>2 DEF NewsInv
<1>6. AgreeInv(c)'
  <2>1. ASSUME NEW w \in W, Works(w, c)', NEW p \in Port
        PROVE  p \in Open(counts'[w]) <=>
                 IF batch'[w] = <<>> THEN Believed(c, p)'
                 ELSE p \in Head(batch'[w]).opens
                      \/ (Believed(c, p)' /\ p \notin Head(batch'[w]).closes)
    BY <1>3, <1>4, <2>1 DEF AgreeInv
  <2>2. ASSUME \A w \in W : ~Works(w, c)', NEW p \in Port PROVE ~Believed(c, p)'
    BY <1>3, <1>4, <2>2 DEF AgreeInv
  <2> QED BY <2>1, <2>2 DEF AgreeInv, Open
<1> QED BY <1>5, <1>6

(* How the queue changes.                                                  *)
LEMMA QueueSteps ==
  ASSUME TypeOK, BaseInv
  PROVE  /\ UNCHANGED <<pendingOut, outCh>> => Queued' = Queued
         /\ StartupHold => Queued' = Queued
         /\ Flush /\ pendingOut # <<>> =>
              Queued # <<>> /\ Head(Queued) = Head(pendingOut) /\ Queued' = Tail(Queued)
         /\ Forward => Queued # <<>> /\ Head(Queued) = Head(outCh) /\ Queued' = Tail(Queued)
         /\ \A b \in Batch : UNCHANGED pendingOut /\ outCh' = outCh \o <<b>> =>
              Queued' = Append(Queued, b)
<1>0. pendingOut \in Seq(Batch) /\ outCh \in Seq(Batch)
  BY DEF TypeOK
<1>1. UNCHANGED <<pendingOut, outCh>> => Queued' = Queued
  BY DEF Queued
<1>2. ASSUME StartupHold PROVE Queued' = Queued
  <2>1. \A s, t \in Seq(Batch) : t # <<>> => Append(s, Head(t)) \o Tail(t) = s \o t
    OBVIOUS
  <2> QED BY <1>0, <1>2, <2>1 DEF StartupHold, Queued
<1>3. ASSUME Flush, pendingOut # <<>>
      PROVE  Queued # <<>> /\ Head(Queued) = Head(pendingOut) /\ Queued' = Tail(Queued)
  <2>1. \A s, t \in Seq(Batch) : s # <<>> =>
          s \o t # <<>> /\ Head(s \o t) = Head(s) /\ Tail(s) \o t = Tail(s \o t)
    OBVIOUS
  <2> QED BY <1>0, <1>3, <2>1 DEF Flush, Queued
<1>4. ASSUME Forward
      PROVE  Queued # <<>> /\ Head(Queued) = Head(outCh) /\ Queued' = Tail(Queued)
  <2>1. \A s \in Seq(Batch) : <<>> \o s = s /\ Tail(s) = <<>> \o Tail(s)
    OBVIOUS
  <2>2. pendingOut = <<>> /\ pendingOut' = <<>>
    BY <1>4 DEF Forward, BaseInv, RunInv
  <2>3. Tail(outCh) \in Seq(Batch)
    BY <1>0, <1>4 DEF Forward
  <2> QED BY <1>0, <1>4, <2>1, <2>2, <2>3 DEF Forward, Queued
<1>5. ASSUME NEW b \in Batch, UNCHANGED pendingOut, outCh' = outCh \o <<b>>
      PROVE  Queued' = Append(Queued, b)
  <2>1. \A s, t \in Seq(Batch) : s \o (t \o <<b>>) = Append(s \o t, b)
    OBVIOUS
  <2> QED BY <1>0, <1>5, <2>1 DEF Queued
<1> QED BY <1>1, <1>2, <1>3, <1>4, <1>5

(* What a watcher does to the queue: it posts the batch it holds, or, when *)
(* the client is killed, drops it.                                         *)
LEMMA WatcherQueue ==
  ASSUME TypeOK, BaseInv, NEW w \in W, ContainerWatcher(w)
  PROVE  \/ UNCHANGED <<pendingOut, outCh>>
         \/ /\ emit(w) /\ UNCHANGED pendingOut
            /\ \E b \in Batch : batch[w] = <<b>> /\ b.c = wcont[w] /\ outCh' = outCh \o <<b>>
<1>1. UNCHANGED pendingOut
  BY RunKeeps
<1>2. CASE emit(w)
  <2>1. PICK b \in Batch : batch[w] = <<b>> /\ b.c = wcont[w]
    BY <1>2 DEF emit, BaseInv, SlotInv
  <2> QED BY <1>1, <1>2, <2>1 DEF emit
<1>3. CASE ~emit(w)
  BY <1>1, <1>3 DEF ContainerWatcher, Dial, WatchEnds, Retry, Finish, ReceiveSync, ReceiveAdd,
                    ReceiveRemove
<1> QED BY <1>2, <1>3

(* A watcher's step may end its own work and begins none.                  *)
LEMMA WatcherWorks ==
  ASSUME TypeOK, BaseInv, NEW w \in W, ContainerWatcher(w), NEW c \in Container
  PROVE  /\ Works(w, c)' => Works(w, c)
         /\ wcont' = wcont \/ wpc'[w] = "free"
         /\ \A x \in W : x # w => (Works(x, c)' <=> Works(x, c))
<1>1. ASSUME NEW x \in W, x # w PROVE Works(x, c)' <=> Works(x, c)
  BY <1>1, OthersKeep DEF Works, Live
<1>2. Live(w)
  BY DEF ContainerWatcher, Dial, WatchEnds, Retry, Finish, emit, ReceiveSync, ReceiveAdd,
         ReceiveRemove, Live
<1>3. wcont' = wcont \/ wpc'[w] = "free"
  BY DEF ContainerWatcher, Dial, WatchEnds, Retry, Finish, Ended, emit, ReceiveSync, ReceiveAdd,
         ReceiveRemove, TypeOK
<1> QED BY <1>1, <1>2, <1>3 DEF Works, Live

(* Without an overlap a container has one watcher at most.                 *)
LEMMA AloneStep ==
  ASSUME TypeOK, BaseInv, BaseInv', NEW c \in Container, AloneInv(c), [Next]_vars
  PROVE  AloneInv(c)'
<1>1. ASSUME UNCHANGED <<wpc, wcont, cb, overlapped>>, Queued' = Queued PROVE AloneInv(c)'
  BY <1>1 DEF AloneInv, Works, Live
<1>2. ASSUME UNCHANGED <<wpc, wcont, cb, overlapped>>, Queued # <<>>, Queued' = Tail(Queued)
      PROVE  AloneInv(c)'
  <2>1. /\ Len(Queued') = Len(Queued) - 1 /\ Len(Queued) \in Nat
        /\ \A i \in 1..Len(Queued') : Queued'[i] = Queued[i + 1] /\ i + 1 \in 1..Len(Queued)
    BY <1>2, QueuedType
  <2> QED BY <1>2, <2>1 DEF AloneInv, Works, Live
<1>3. CASE Environment \/ Kill \/ UNCHANGED vars
  <2>1. UNCHANGED <<wpc, wcont, cb, overlapped, pendingOut, outCh>>
    BY <1>3 DEF vars, Environment, ContainerDown, RemoveStale, ContainerUp, ListenAdd, ListenRemove,
                Kill, watcherVars, runVars
  <2> QED BY <1>1, <2>1, QueueSteps
<1>4. ASSUME NEW w \in W, ContainerWatcher(w) PROVE AloneInv(c)'
  <2> SUFFICES ASSUME c \notin overlapped'
               PROVE  /\ \A x, y \in W : Works(x, c)' /\ Works(y, c)' => x = y
                      /\ (\E x \in cb' : wcont'[x] = c) => \A i \in 1..Len(Queued') : Queued'[i].c # c
    BY DEF AloneInv
  <2>1. overlapped' = overlapped /\ cb' \subseteq cb /\ cb \subseteq W
    BY <1>4, RunKeeps DEF TypeOK
  <2>2. \A x \in W : Works(x, c)' => Works(x, c)
    BY <1>4, WatcherWorks
  <2>3. ASSUME NEW x \in cb', wcont'[x] = c
        PROVE  Works(x, c) /\ x \in cb /\ wcont[x] = c
    <3>1. x \in W /\ x \in cb
      BY <2>1
    <3>2. Live(x)'
      BY <3>1 DEF BaseInv, SlotInv, Live
    <3> QED BY <2>2, <2>3, <3>1, <3>2 DEF Works
  <2>4. ASSUME NEW x \in cb', wcont'[x] = c, NEW i \in 1..Len(Queued') PROVE Queued'[i].c # c
    <3>1. CASE Queued' = Queued
      BY <2>1, <2>3, <2>4, <3>1 DEF AloneInv
    <3>2. ASSUME NEW b \in Batch, emit(w), b.c = wcont[w], Queued' = Append(Queued, b)
          PROVE  Queued'[i].c # c
      <4>1. w \notin cb /\ Live(w)
        BY <3>2 DEF emit, BaseInv, SlotInv, Live
      <4>2. b.c # c
        <5> SUFFICES ASSUME b.c = c PROVE FALSE
          OBVIOUS
        <5>1. Works(w, c) /\ Works(x, c) /\ x # w
          BY <4>1, <3>2, <2>3, <2>4 DEF Works
        <5> QED BY <5>1, <2>1, <2>4 DEF AloneInv
      <4>3. /\ Len(Queued) \in Nat /\ Len(Queued') = Len(Queued) + 1
            /\ Queued'[Len(Queued) + 1] = b
            /\ \A j \in 1..Len(Queued) : Queued'[j] = Queued[j]
        BY <3>2, QueuedType
      <4>4. i \in 1..Len(Queued) \/ i = Len(Queued) + 1
        BY <4>3
      <4>5. \A j \in 1..Len(Queued) : Queued[j].c # c
        BY <2>1, <2>3, <2>4 DEF AloneInv
      <4> QED BY <4>2, <4>3, <4>4, <4>5
    <3> QED BY <3>1, <3>2, <1>4, WatcherQueue, QueueSteps
  <2> QED BY <2>1, <2>2, <2>4 DEF AloneInv
<1>5. ASSUME NEW set \in SUBSET Container, NEW f \in Slots(set), NEW withCallback \in BOOLEAN,
             startContainers(set, f, withCallback), UNCHANGED <<pendingOut, outCh>>,
             withCallback => Queued = <<>>
      PROVE  AloneInv(c)'
  <2> SUFFICES ASSUME c \notin overlapped'
               PROVE  /\ \A x, y \in W : Works(x, c)' /\ Works(y, c)' => x = y
                      /\ (\E x \in cb' : wcont'[x] = c) => \A i \in 1..Len(Queued') : Queued'[i].c # c
    BY DEF AloneInv
  <2>1. /\ \A d \in set : f[d] \in W /\ ~Live(f[d]) /\ wpc'[f[d]] = "dial" /\ wcont'[f[d]] = d
        /\ \A x \in W : (\A d \in set : f[d] # x) =>
              wpc'[x] = wpc[x] /\ wcont'[x] = wcont[x] /\ (x \in cb' <=> x \in cb)
        /\ overlapped \subseteq overlapped' /\ cb' \in SUBSET W
    BY <1>5, Started
  <2>2. c \notin overlapped /\ (c \in set => \A x \in W : ~Works(x, c))
    BY <1>5, <2>1 DEF startContainers, Works
  <2>3. ASSUME NEW x \in W, Works(x, c)' PROVE Works(x, c) \/ (c \in set /\ x = f[c])
    BY <2>1, <2>3 DEF Works, Live
  <2>4. ASSUME NEW x \in W, NEW y \in W, Works(x, c)', Works(y, c)' PROVE x = y
    BY <2>2, <2>3, <2>4 DEF AloneInv
  <2>5. Queued' = Queued
    BY <1>5, QueueSteps
  <2>6. ASSUME NEW x \in cb', wcont'[x] = c, NEW i \in 1..Len(Queued') PROVE Queued'[i].c # c
    <3>1. CASE withCallback
      <4>1. Len(Queued') = 0
        BY <1>5, <2>5, <3>1
      <4> QED BY <4>1
    <3>2. CASE ~withCallback
      <4>1. cb' = cb /\ x \in W /\ x \in cb
        BY <1>5, <3>2, <2>1 DEF startContainers
      <4>2. Live(x)
        BY <4>1 DEF BaseInv, SlotInv, Live
      <4>3. wcont[x] = c
        BY <2>1, <2>6, <4>1, <4>2
      <4> QED BY <4>1, <4>3, <2>2, <2>5, <2>6 DEF AloneInv
    <3> QED BY <3>1, <3>2
  <2> QED BY <2>4, <2>6
<1>6. CASE ScanDir
  <2>1. PICK f \in Slots(socket) : startContainers(socket, f, TRUE)
    BY <1>6 DEF ScanDir
  <2>2. Queued = <<>> /\ socket \in SUBSET Container
    BY <1>6 DEF ScanDir, BaseInv, RunInv, Queued, TypeOK
  <2> QED BY <2>1, <2>2, <1>5, <1>6 DEF ScanDir
<1>7. CASE Scan
  <2>1. PICK f \in Slots({d \in socket : ~Knows(d)}) :
          startContainers({d \in socket : ~Knows(d)}, f, FALSE)
    BY <1>7 DEF Scan
  <2>2. {d \in socket : ~Knows(d)} \in SUBSET Container /\ UNCHANGED <<pendingOut, outCh>>
    BY <1>7 DEF TypeOK, Scan
  <2> QED BY <2>1, <2>2, <1>5
<1>8. CASE Run /\ ~ScanDir /\ ~Scan
  <2>1. UNCHANGED <<wpc, wcont, cb, overlapped>>
    BY <1>8 DEF Run, StartupHold, Deadline, SendSnapshot, Flush, Forward, Stop, Close,
                StartupReceive, watcherVars
  <2>2. Queued' = Queued \/ (Queued # <<>> /\ Queued' = Tail(Queued))
    <3>1. CASE StartupHold \/ Forward \/ (Flush /\ pendingOut # <<>>)
      BY <3>1, QueueSteps
    <3>2. CASE ~(StartupHold \/ Forward \/ (Flush /\ pendingOut # <<>>))
      <4>1. UNCHANGED <<pendingOut, outCh>>
        BY <1>8, <3>2 DEF Run, Deadline, SendSnapshot, Flush, Stop, Close, StartupReceive
      <4> QED BY <4>1, QueueSteps
    <3> QED BY <3>1, <3>2
  <2> QED BY <2>1, <2>2, <1>1, <1>2
<1> QED BY <1>3, <1>4, <1>6, <1>7, <1>8 DEF Next

(* What is in Base, now and after a step.                                  *)
LEMMA InBase ==
  ASSUME NEW c, NEW p
  PROVE  /\ <<c, p>> \in Base <=>
              IF pc \in {"scan", "startup", "snap"}
              THEN <<c, p>> \in snapshot \/ \E r \in startupCh : r.c = c /\ p \in r.ports
              ELSE <<c, p>> \in view
         /\ <<c, p>> \in Base' <=>
              IF pc' \in {"scan", "startup", "snap"}
              THEN <<c, p>> \in snapshot' \/ \E r \in startupCh' : r.c = c /\ p \in r.ports
              ELSE <<c, p>> \in view'
<1>1. ASSUME NEW S
      PROVE  <<c, p>> \in UNION {{r.c} \X r.ports : r \in S} <=>
               \E r \in S : r.c = c /\ p \in r.ports
  OBVIOUS
<1> QED BY <1>1 DEF Base

(* A watcher's step adds its startup result to Base, and nothing else.     *)
LEMMA BaseCallback ==
  ASSUME TypeOK, NEW w \in W, NEW ports, callback(w, ports), NEW c, NEW p
  PROVE  <<c, p>> \in Base' <=>
           \/ <<c, p>> \in Base
           \/ w \in cb /\ pc = "startup" /\ wcont[w] = c /\ p \in ports
<1>1. UNCHANGED <<pc, snapshot, view>>
  BY DEF callback
<1>2. CASE w \in cb /\ pc = "startup"
  <2>1. PICK x : /\ startupCh' = startupCh \cup {x} /\ x.c = wcont[w] /\ x.ports = ports
    <3> DEFINE x == [w |-> w, c |-> wcont[w], ports |-> ports]
    <3>1. startupCh' = startupCh \cup {x}
      BY <1>2 DEF callback
    <3>2. x.c = wcont[w] /\ x.ports = ports
      OBVIOUS
    <3> HIDE DEF x
    <3> QED BY <3>1, <3>2
  <2> QED BY <2>1, <1>1, <1>2, InBase
<1>3. CASE ~(w \in cb /\ pc = "startup")
  <2>1. startupCh' = startupCh
    BY <1>3 DEF callback
  <2> QED BY <2>1, <1>1, <1>3, InBase
<1> QED BY <1>2, <1>3

(* A watcher changes nothing that is known of other containers.            *)
LEMMA WatcherBase ==
  ASSUME TypeOK, NEW w \in W, ContainerWatcher(w), NEW c, wcont[w] # c, NEW p
  PROVE  <<c, p>> \in Base' <=> <<c, p>> \in Base
<1>1. UNCHANGED <<pc, snapshot, view>>
  BY RunKeeps
<1>2. startupCh' = startupCh \/ \E r : startupCh' = startupCh \cup {r} /\ r.c = wcont[w]
  BY RunKeeps
<1> QED BY <1>1, <1>2, InBase

(* A step of another container's watcher.                                  *)
LEMMA OtherContainer ==
  ASSUME TypeOK, BaseInv, NEW c \in Container, NewsInv(c), AgreeInv(c),
         NEW w \in W, ContainerWatcher(w), wcont[w] # c
  PROVE  NewsInv(c)' /\ AgreeInv(c)'
<1>1. \A x \in W : Works(x, c)' <=> Works(x, c)
  BY WatcherWorks DEF Works
<1>2. \A x \in W : Works(x, c) => counts'[x] = counts[x] /\ batch'[x] = batch[x]
  BY OthersKeep DEF Works
<1>3. \A p \in Port : <<c, p>> \in Base' <=> <<c, p>> \in Base
  BY WatcherBase
<1>4. CASE Queued' = Queued
  BY <1>1, <1>2, <1>3, <1>4, Unmoved
<1>5. ASSUME emit(w), NEW b \in Batch, b.c = wcont[w], Queued' = Append(Queued, b)
      PROVE  NewsInv(c)' /\ AgreeInv(c)'
  <2>1. Base' = Base
    BY <1>5 DEF emit, runVars, Base
  <2>2. /\ Len(Queued') = Len(Queued) + 1 /\ Queued'[Len(Queued) + 1] = b
        /\ \A i \in 1..Len(Queued) : Queued'[i] = Queued[i]
        /\ \A p \in Port : \A i \in 1..Len(Queued) + 1 :
             Told(Base', Queued', i - 1, c, p) <=> Told(Base, Queued, i - 1, c, p)
    BY <1>5, <2>1, Posted
  <2>3. \A p \in Port : Believed(c, p)' <=> Believed(c, p)
    BY <1>5, <2>1, Posted DEF Mentions
  <2>4. NewsInv(c)'
    <3>1. ASSUME NEW i \in 1..Len(Queued'), Queued'[i].c = c, NEW p \in Port
          PROVE  /\ p \in Queued'[i].opens => ~Told(Base', Queued', i - 1, c, p)
                 /\ p \in Queued'[i].closes => Told(Base', Queued', i - 1, c, p)
      <4>1. Len(Queued) \in Nat
        BY QueuedType
      <4>2. i \in 1..Len(Queued) /\ i \in 1..Len(Queued) + 1
        BY <1>5, <2>2, <3>1, <4>1
      <4>3. Queued'[i] = Queued[i]
        BY <4>2, <2>2
      <4>4. Told(Base', Queued', i - 1, c, p) <=> Told(Base, Queued, i - 1, c, p)
        BY <4>2, <2>2
      <4> QED BY <3>1, <4>2, <4>3, <4>4 DEF NewsInv
    <3>2. ASSUME NEW x \in W, Works(x, c)', batch'[x] # <<>>, NEW p \in Port
          PROVE  /\ p \in Head(batch'[x]).opens => ~Believed(c, p)'
                 /\ p \in Head(batch'[x]).closes => Believed(c, p)'
      BY <1>1, <1>2, <2>3, <3>2 DEF NewsInv
    <3> QED BY <3>1, <3>2 DEF NewsInv
  <2>5. AgreeInv(c)'
    <3>1. ASSUME NEW x \in W, Works(x, c)', NEW p \in Port
          PROVE  p \in Open(counts'[x]) <=>
                   IF batch'[x] = <<>> THEN Believed(c, p)'
                   ELSE p \in Head(batch'[x]).opens
                        \/ (Believed(c, p)' /\ p \notin Head(batch'[x]).closes)
      <4>1. Works(x, c) /\ counts'[x] = counts[x] /\ batch'[x] = batch[x]
        BY <1>1, <1>2, <3>1
      <4> QED BY <4>1, <2>3 DEF AgreeInv
    <3>2. ASSUME \A x \in W : ~Works(x, c)', NEW p \in Port PROVE ~Believed(c, p)'
      BY <1>1, <2>3, <3>2 DEF AgreeInv
    <3> QED BY <3>1, <3>2 DEF AgreeInv, Open
  <2> QED BY <2>4, <2>5
<1> QED BY <1>4, <1>5, WatcherQueue, QueueSteps

(* The container's own watcher posts its batch, and ends after the last.   *)
LEMMA OwnEmit ==
  ASSUME TypeOK, BaseInv, NEW c \in Container, AloneInv(c), Regular(c), NewsInv(c), AgreeInv(c),
         NEW w \in W, emit(w), wcont[w] = c
  PROVE  NewsInv(c)' /\ AgreeInv(c)'
<1>1. PICK b \in Batch : batch[w] = <<b>> /\ b.c = c
  BY DEF emit, BaseInv, SlotInv
<1>2. batch[w] # <<>> /\ Head(batch[w]) = b
  BY <1>1
<1>3. Works(w, c) /\ \A x \in W : Works(x, c) => x = w
  BY DEF emit, Works, Live, AloneInv, Regular
<1>4. ContainerWatcher(w)
  BY DEF ContainerWatcher
<1>5. \A x \in W : Works(x, c)' => x = w
  BY <1>3, <1>4, WatcherWorks
<1>6. outCh' = outCh \o <<b>> /\ UNCHANGED pendingOut
  BY <1>1 DEF emit, Regular, runVars
<1>7. Queued' = Append(Queued, b) /\ Base' = Base
  BY <1>6, QueueSteps DEF emit, runVars, Base
<1>8. /\ Len(Queued') = Len(Queued) + 1 /\ Queued'[Len(Queued) + 1] = b
      /\ \A i \in 1..Len(Queued) : Queued'[i] = Queued[i]
      /\ \A p \in Port : \A i \in 1..Len(Queued) + 1 :
           Told(Base', Queued', i - 1, c, p) <=> Told(Base, Queued, i - 1, c, p)
  BY <1>7, Posted
<1>9. \A p \in Port : Believed(c, p)' <=> p \in b.opens \/ (Believed(c, p) /\ p \notin b.closes)
  <2>1. \A p \in Port : Believed(c, p)' <=>
          \/ b.c = c /\ p \in b.opens
          \/ Believed(c, p) /\ ~Mentions(b, c, p)
    BY <1>7, Posted
  <2> QED BY <2>1, <1>1 DEF Mentions
<1>10. batch'[w] = <<>> /\ counts' = counts
  BY DEF emit, TypeOK
<1>11. NewsInv(c)'
  <2>1. ASSUME NEW i \in 1..Len(Queued'), Queued'[i].c = c, NEW p \in Port
        PROVE  /\ p \in Queued'[i].opens => ~Told(Base', Queued', i - 1, c, p)
               /\ p \in Queued'[i].closes => Told(Base', Queued', i - 1, c, p)
    <3>0. Len(Queued) \in Nat
      BY QueuedType
    <3>1. Told(Base', Queued', i - 1, c, p) <=> Told(Base, Queued, i - 1, c, p)
      BY <1>8
    <3>2. CASE i \in 1..Len(Queued)
      BY <2>1, <3>1, <3>2, <1>8 DEF NewsInv
    <3>3. CASE i = Len(Queued) + 1
      <4>1. i - 1 = Len(Queued) /\ Queued'[i] = b
        BY <3>0, <3>3, <1>8
      <4>2. Told(Base, Queued, i - 1, c, p) <=> Believed(c, p)
        BY <4>1 DEF Believed
      <4>3. (p \in b.opens => ~Believed(c, p)) /\ (p \in b.closes => Believed(c, p))
        BY <1>2, <1>3 DEF NewsInv
      <4> QED BY <3>1, <4>1, <4>2, <4>3
    <3>4. i \in 1..Len(Queued) \/ i = Len(Queued) + 1
      BY <3>0, <1>8
    <3> QED BY <3>2, <3>3, <3>4
  <2>2. \A x \in W : Works(x, c)' => batch'[x] = <<>>
    BY <1>5, <1>10
  <2> QED BY <2>1, <2>2 DEF NewsInv
<1>12. \A p \in Port : p \in Open(counts[w]) <=> Believed(c, p)'
  BY <1>2, <1>3, <1>9 DEF AgreeInv
<1>13. AgreeInv(c)'
  <2>1. ASSUME NEW x \in W, Works(x, c)', NEW p \in Port
        PROVE  batch'[x] = <<>> /\ (p \in Open(counts'[x]) <=> Believed(c, p)')
    BY <2>1, <1>5, <1>10, <1>12
  <2>2. ASSUME \A x \in W : ~Works(x, c)', NEW p \in Port PROVE ~Believed(c, p)'
    <3>1. wpc[w] = "final"
      <4>1. wpc[w] = "emit" => wpc'[w] = "stream" /\ wcont'[w] = c
        BY DEF emit, TypeOK
      <4> QED BY <2>2, <4>1 DEF emit, Works, Live
    <3>2. counts[w] = NoPorts
      BY <3>1 DEF BaseInv, SlotInv
    <3>3. p \notin Open(counts[w])
      BY <3>2 DEF Open, NoPorts
    <3> QED BY <3>3, <1>12
  <2> QED BY <2>1, <2>2 DEF AgreeInv, Open
<1> QED BY <1>11, <1>13

(* A port of which the container says that a listen is gone is counted.    *)
LEMMA RemovedIsOpen ==
  ASSUME TypeOK, NEW w \in W, StreamInv(w), q[w] # <<>>, Head(q[w]).op = "remove"
  PROVE  PortOf[Head(q[w]).listen] \in Open(counts[w])
<1> DEFINE l == Head(q[w]).listen
<1>1. PICK f \in [0..Len(q[w]) -> SUBSET Listen] : Replay(w, f)
  BY DEF StreamInv
<1>2. 1 \in 1..Len(q[w]) /\ q[w][1] = Head(q[w]) /\ Head(q[w]) \in Item /\ 1 - 1 = 0
  BY DEF TypeOK
<1>3. l \in heard[w] /\ l \in Listen
  BY <1>1, <1>2, Items DEF Replay
<1> HIDE DEF l
<1>4. PortOf[l] \in Port
  BY <1>3, PortOfAssumption
<1>5. {k \in heard[w] : PortOf[k] = PortOf[l]} # {}
  BY <1>3
<1>6. IsFiniteSet({k \in heard[w] : PortOf[k] = PortOf[l]})
  BY FiniteAssumption, FS_Subset DEF TypeOK
<1>7. /\ Cardinality({k \in heard[w] : PortOf[k] = PortOf[l]}) \in Nat
      /\ Cardinality({k \in heard[w] : PortOf[k] = PortOf[l]}) # 0
  BY <1>5, <1>6, FS_CardinalityType, FS_EmptySet
<1>8. counts[w][PortOf[l]] = Cardinality({k \in heard[w] : PortOf[k] = PortOf[l]})
  BY <1>4 DEF StreamInv, newCounts
<1>9. PortOf[l] \in Open(counts[w])
  BY <1>4, <1>7, <1>8 DEF Open
<1> QED BY <1>9 DEF l

(* The container's own watcher reads an event, or ends.                    *)
LEMMA OwnChange ==
  ASSUME TypeOK, TypeOK', BaseInv, NEW c \in Container, AloneInv(c), Regular(c)', NewsInv(c),
         AgreeInv(c), NEW w \in W, StreamInv(w), wcont[w] = c,
         ReceiveSync(w) \/ ReceiveAdd(w) \/ ReceiveRemove(w) \/ Finish(w)
  PROVE  NewsInv(c)' /\ AgreeInv(c)'
<1>0. SlotInv(w)
  BY DEF BaseInv
<1>1. /\ ContainerWatcher(w) /\ Works(w, c)
      /\ UNCHANGED <<pendingOut, outCh, overlapped, killed>> /\ batch[w] = <<>>
  BY <1>0 DEF ContainerWatcher, ReceiveSync, ReceiveAdd, ReceiveRemove, Finish, Works, Live, runVars,
              callback, SlotInv
<1>2. Queued' = Queued
  BY <1>1, QueueSteps
<1>3. \A x \in W : x # w => /\ Works(x, c)' <=> Works(x, c)
                            /\ counts'[x] = counts[x] /\ batch'[x] = batch[x]
  BY <1>1, OthersKeep, WatcherWorks
<1>4. \A x \in W : Works(x, c) => x = w
  BY <1>1 DEF AloneInv, Regular
<1>5. ASSUME NEW opens \in SUBSET Port, NEW closes \in SUBSET Port, Emits(w, opens, closes),
             UNCHANGED wcont, wpc[w] = "stream"
      PROVE  /\ Works(w, c)'
             /\ batch'[w] = IF opens \cup closes = {} THEN <<>>
                            ELSE <<[c |-> wcont[w], opens |-> opens, closes |-> closes]>>
  BY <1>1, <1>5 DEF Emits, Works, Live, TypeOK
<1>6. CASE ReceiveSync(w)
  <2> DEFINE new == newCounts(Head(q[w]).set)
  <2>1. counts'[w] = new /\ UNCHANGED wcont /\ wpc[w] = "stream"
    BY <1>6 DEF ReceiveSync, TypeOK
  <2>2. Open(new) \in SUBSET Port /\ Open(counts[w]) \in SUBSET Port
    BY DEF Open
  <2> HIDE DEF new
  <2>3. CASE w \in cb
    <3>1. callback(w, Open(new)) /\ UNCHANGED <<wpc, batch>>
      BY <1>6, <2>3 DEF ReceiveSync, new
    <3>2. pc = "startup" \/ Open(new) = {}
      BY <2>1, <2>3, <3>1 DEF callback, Regular
    <3>3. \A i \in 1..Len(Queued) : Queued[i].c # c
      BY <1>1, <2>3 DEF AloneInv, Regular
    <3>4. Len(Queued) \in Nat
      BY QueuedType
    <3>5. ASSUME NEW S, NEW p \in Port
          PROVE  Told(S, Queued, Len(Queued), c, p) <=> <<c, p>> \in S
      BY <3>3 DEF Told, Mentions
    <3>6. \A p \in Port : <<c, p>> \notin Base
      <4>1. Open(counts[w]) = {}
        BY <1>0, <2>3 DEF SlotInv, Open, NoPorts
      <4>2. \A p \in Port : ~Believed(c, p)
        BY <4>1, <1>1 DEF AgreeInv
      <4> QED BY <4>2, <3>5 DEF Believed
    <3>7. \A p \in Port : <<c, p>> \in Base' <=> p \in Open(new)
      <4>1. \A p \in Port : <<c, p>> \in Base' <=>
              \/ <<c, p>> \in Base
              \/ w \in cb /\ pc = "startup" /\ wcont[w] = c /\ p \in Open(new)
        BY <3>1, BaseCallback
      <4> QED BY <4>1, <3>2, <3>6, <2>3
    <3>8. \A p \in Port : Believed(c, p)' <=> p \in Open(new)
      BY <3>5, <3>7, <1>2 DEF Believed
    <3>9. Works(w, c)' /\ batch'[w] = <<>> /\ \A x \in W : Works(x, c)' => x = w
      BY <3>1, <2>1, <1>1, <1>3, <1>4 DEF Works, Live
    <3>10. NewsInv(c)'
      BY <3>3, <3>9, <1>2 DEF NewsInv
    <3>11. AgreeInv(c)'
      <4>1. ASSUME NEW x \in W, Works(x, c)', NEW p \in Port
            PROVE  batch'[x] = <<>> /\ (p \in Open(counts'[x]) <=> Believed(c, p)')
        BY <3>8, <3>9, <4>1, <2>1
      <4> QED BY <4>1, <3>9 DEF AgreeInv, Open
    <3> QED BY <3>10, <3>11
  <2>4. CASE w \notin cb
    <3> DEFINE opens == Open(new) \ Open(counts[w])
               closes == Open(counts[w]) \ Open(new)
    <3>1. Emits(w, opens, closes) /\ UNCHANGED <<startupCh, runVars>>
      BY <1>6, <2>4 DEF ReceiveSync, new
    <3>2. /\ opens \in SUBSET Port /\ closes \in SUBSET Port
          /\ opens \cap Open(counts[w]) = {} /\ closes \subseteq Open(counts[w])
          /\ Open(counts'[w]) = (Open(counts[w]) \ closes) \cup opens
      BY <2>1, <2>2
    <3> HIDE DEF opens, closes
    <3>3. /\ Works(w, c)'
          /\ batch'[w] = IF opens \cup closes = {} THEN <<>>
                         ELSE <<[c |-> wcont[w], opens |-> opens, closes |-> closes]>>
      BY <3>1, <3>2, <2>1, <1>5
    <3>4. \A p \in Port : <<c, p>> \in Base' <=> <<c, p>> \in Base
      BY <3>1 DEF runVars, Base
    <3> QED BY <3>2, <3>3, <3>4, <1>1, <1>2, <1>3, Emission
  <2> QED BY <2>3, <2>4
<1>7. CASE ReceiveAdd(w) \/ ReceiveRemove(w)
  <2> DEFINE l == Head(q[w]).listen
  <2>1. PortOf[l] \in Port
    <3>1. Head(q[w]) \in Item /\ Head(q[w]).op \in {"add", "remove"}
      <4>1. q[w] # <<>> /\ Head(q[w]).op \in {"add", "remove"}
        BY <1>7 DEF ReceiveAdd, ReceiveRemove
      <4>2. q[w] \in Seq(Item)
        BY DEF TypeOK
      <4>3. Head(q[w]) \in Item
        <5> HIDE DEF Item
        <5> QED BY <4>1, <4>2
      <4> QED BY <4>1, <4>3
    <3> QED BY <3>1, Items, PortOfAssumption
  <2>2. UNCHANGED <<wcont, startupCh, runVars>> /\ wpc[w] = "stream"
    BY <1>7 DEF ReceiveAdd, ReceiveRemove
  <2>3. \A p \in Port : <<c, p>> \in Base' <=> <<c, p>> \in Base
    BY <2>2 DEF runVars, Base
  <2>4. PICK opens \in SUBSET Port, closes \in SUBSET Port :
          /\ Emits(w, opens, closes)
          /\ opens \cap Open(counts[w]) = {} /\ closes \subseteq Open(counts[w])
          /\ Open(counts'[w]) = (Open(counts[w]) \ closes) \cup opens
    <3>1. CASE ReceiveAdd(w)
      <4>1. Emits(w, {PortOf[l]} \ Open(counts[w]), {})
        BY <3>1 DEF ReceiveAdd
      <4>2. counts'[w] = [counts[w] EXCEPT ![PortOf[l]] = @ + 1]
        BY <3>1 DEF ReceiveAdd, TypeOK
      <4>3. Open(counts'[w]) = Open(counts[w]) \cup {PortOf[l]}
        <5> HIDE DEF l
        <5> QED BY <4>2, <2>1 DEF Open, TypeOK
      <4> DEFINE o == {PortOf[l]} \ Open(counts[w])
      <4>4. /\ o \in SUBSET Port /\ {} \in SUBSET Port /\ o \cap Open(counts[w]) = {}
            /\ {} \subseteq Open(counts[w]) /\ Open(counts'[w]) = (Open(counts[w]) \ {}) \cup o
        BY <2>1, <4>3
      <4> QED BY <4>1, <4>4
    <3>2. CASE ReceiveRemove(w)
      <4>1. Emits(w, {}, {PortOf[l]} \ Open(counts'[w]))
        BY <3>2 DEF ReceiveRemove
      <4>2. counts'[w] = [counts[w] EXCEPT ![PortOf[l]] = IF @ <= 1 THEN 0 ELSE @ - 1]
        BY <3>2 DEF ReceiveRemove, TypeOK
      <4>3. PortOf[l] \in Open(counts[w])
        BY <3>2, RemovedIsOpen DEF ReceiveRemove
      <4> DEFINE o == {PortOf[l]} \ Open(counts'[w])
      <4>4. \A p \in Port : p # PortOf[l] => (p \in Open(counts'[w]) <=> p \in Open(counts[w]))
        <5> HIDE DEF l
        <5> QED BY <4>2, <2>1 DEF Open, TypeOK
      <4>5. \A n : Open(n) \in SUBSET Port
        BY DEF Open
      <4>6. /\ o \in SUBSET Port /\ {} \in SUBSET Port /\ {} \cap Open(counts[w]) = {}
            /\ o \subseteq Open(counts[w]) /\ Open(counts'[w]) = (Open(counts[w]) \ o) \cup {}
        BY <2>1, <4>3, <4>4, <4>5
      <4> QED BY <4>1, <4>6
    <3> QED BY <1>7, <3>1, <3>2
  <2>5. /\ Works(w, c)'
        /\ batch'[w] = IF opens \cup closes = {} THEN <<>>
                       ELSE <<[c |-> wcont[w], opens |-> opens, closes |-> closes]>>
    BY <2>2, <2>4, <1>5
  <2> QED BY <2>3, <2>4, <2>5, <1>1, <1>2, <1>3, Emission
<1>8. CASE Finish(w)
  <2>1. \A p \in Port : <<c, p>> \in Base' <=> <<c, p>> \in Base
    BY <1>8 DEF Finish, runVars, Base
  <2>2. CASE Open(counts[w]) = {}
    <3>1. ~Works(w, c)'
      BY <1>8, <2>2 DEF Finish, Ended, Works, Live, TypeOK
    <3>2. \A x \in W : ~Works(x, c)'
      BY <3>1, <1>3, <1>4
    <3>3. \A p \in Port : ~Believed(c, p)'
      <4>1. \A p \in Port : ~Believed(c, p)
        BY <2>2, <1>1 DEF AgreeInv
      <4>2. \A p \in Port : Believed(c, p)' <=> Believed(c, p)
        BY <1>2, <2>1, Steady
      <4> QED BY <4>1, <4>2
    <3>4. AgreeInv(c)'
      BY <3>2, <3>3 DEF AgreeInv
    <3>5. NewsInv(c)'
      <4>1. ASSUME NEW i \in 1..Len(Queued'), Queued'[i].c = c, NEW p \in Port
            PROVE  /\ p \in Queued'[i].opens => ~Told(Base', Queued', i - 1, c, p)
                   /\ p \in Queued'[i].closes => Told(Base', Queued', i - 1, c, p)
        <5>1. i \in 1..Len(Queued) /\ Queued'[i] = Queued[i]
          BY <1>2
        <5>2. Told(Base', Queued', i - 1, c, p) <=> Told(Base, Queued, i - 1, c, p)
          BY <5>1, <1>2, <2>1, Steady
        <5> QED BY <4>1, <5>1, <5>2 DEF NewsInv
      <4> QED BY <4>1, <3>2 DEF NewsInv
    <3> QED BY <3>4, <3>5
  <2>3. CASE Open(counts[w]) # {}
    <3>1. /\ wpc'[w] = "final" /\ UNCHANGED wcont
          /\ batch'[w] = <<[c |-> wcont[w], opens |-> {}, closes |-> Open(counts[w])]>>
          /\ counts'[w] = NoPorts
      BY <1>8, <2>3 DEF Finish, TypeOK
    <3>2. Open(counts'[w]) = {} /\ Open(counts[w]) \in SUBSET Port
      BY <3>1 DEF Open, NoPorts
    <3>3. Works(w, c)'
      BY <3>1, <1>1 DEF Works, Live
    <3> DEFINE o == {}
               k == Open(counts[w])
    <3>4. /\ o \in SUBSET Port /\ k \in SUBSET Port /\ o \cap Open(counts[w]) = {}
          /\ k \subseteq Open(counts[w]) /\ Open(counts'[w]) = (Open(counts[w]) \ k) \cup o
          /\ batch'[w] = IF o \cup k = {} THEN <<>>
                         ELSE <<[c |-> wcont[w], opens |-> o, closes |-> k]>>
      BY <3>1, <3>2, <2>3
    <3> HIDE DEF o, k
    <3> QED BY <3>3, <3>4, <2>1, <1>1, <1>2, <1>3, Emission
  <2> QED BY <2>2, <2>3
<1> QED BY <1>6, <1>7, <1>8

(* run starts watchers, in slots that have counted and emitted nothing.    *)
LEMMA NewWatchers ==
  ASSUME TypeOK, BaseInv, NEW c \in Container, Regular(c)', NewsInv(c), AgreeInv(c),
         NEW set \in SUBSET Container, NEW f \in Slots(set), NEW withCallback \in BOOLEAN,
         startContainers(set, f, withCallback), UNCHANGED <<pendingOut, outCh, counts, batch>>,
         \A p \in Port : <<c, p>> \in Base' <=> <<c, p>> \in Base
  PROVE  NewsInv(c)' /\ AgreeInv(c)'
<1>1. /\ \A d \in set : f[d] \in W /\ ~Live(f[d]) /\ wpc'[f[d]] = "dial" /\ wcont'[f[d]] = d
      /\ \A x \in W : (\A d \in set : f[d] # x) => wpc'[x] = wpc[x] /\ wcont'[x] = wcont[x]
  BY Started
<1>2. Queued' = Queued
  BY QueueSteps
<1>3. CASE c \notin set
  <2>1. \A x \in W : Works(x, c)' <=> Works(x, c)
    BY <1>1, <1>3 DEF Works, Live
  <2> QED BY <2>1, <1>2, Unmoved
<1>4. CASE c \in set
  <2>1. \A x \in W : ~Works(x, c)
    BY <1>4 DEF startContainers, Works, Regular
  <2>2. \A x \in W : Works(x, c)' => x = f[c]
    BY <1>1, <2>1 DEF Works, Live
  <2>3. \A p \in Port : Believed(c, p)' <=> Believed(c, p)
    BY <1>2, Steady
  <2>4. \A p \in Port : ~Believed(c, p)'
    BY <2>1, <2>3 DEF AgreeInv
  <2>5. batch[f[c]] = <<>> /\ Open(counts[f[c]]) = {}
    <3>1. f[c] \in W /\ wpc[f[c]] = "free"
      BY <1>1, <1>4 DEF Live
    <3> QED BY <3>1 DEF BaseInv, SlotInv, Open, NoPorts
  <2>6. AgreeInv(c)'
    <3>1. ASSUME NEW x \in W, Works(x, c)', NEW p \in Port
          PROVE  batch'[x] = <<>> /\ (p \in Open(counts'[x]) <=> Believed(c, p)')
      BY <2>2, <2>4, <2>5, <3>1
    <3> QED BY <3>1, <2>4 DEF AgreeInv, Open
  <2>7. NewsInv(c)'
    <3>1. ASSUME NEW i \in 1..Len(Queued'), Queued'[i].c = c, NEW p \in Port
          PROVE  /\ p \in Queued'[i].opens => ~Told(Base', Queued', i - 1, c, p)
                 /\ p \in Queued'[i].closes => Told(Base', Queued', i - 1, c, p)
      <4>1. i \in 1..Len(Queued) /\ Queued'[i] = Queued[i]
        BY <1>2
      <4>2. Told(Base', Queued', i - 1, c, p) <=> Told(Base, Queued, i - 1, c, p)
        BY <4>1, <1>2, Steady
      <4> QED BY <3>1, <4>1, <4>2 DEF NewsInv
    <3>2. \A x \in W : Works(x, c)' => batch'[x] = <<>>
      BY <2>2, <2>5
    <3> QED BY <3>1, <3>2 DEF NewsInv
  <2> QED BY <2>6, <2>7
<1> QED BY <1>3, <1>4

(* Every step keeps a regular container's invariants.                      *)
LEMMA ToldStep ==
  ASSUME TypeOK, TypeOK', BaseInv, \A w \in W : StreamInv(w), NEW c \in Container, AloneInv(c),
         Regular(c), NewsInv(c), AgreeInv(c), Regular(c)', [Next]_vars
  PROVE  NewsInv(c)' /\ AgreeInv(c)'
<1>1. ASSUME UNCHANGED <<wpc, wcont, counts, batch>>, Queued' = Queued,
             \A p \in Port : <<c, p>> \in Base' <=> <<c, p>> \in Base
      PROVE  NewsInv(c)' /\ AgreeInv(c)'
  BY <1>1, Unmoved DEF Works, Live
<1>2. CASE UNCHANGED vars \/ Environment
  <2>1. UNCHANGED <<wpc, wcont, counts, batch, pendingOut, outCh, pc, snapshot, startupCh, view>>
    BY <1>2 DEF vars, Environment, ContainerDown, RemoveStale, ContainerUp, ListenAdd, ListenRemove,
                watcherVars, runVars
  <2>2. Base' = Base
    BY <2>1 DEF Base
  <2> QED BY <2>1, <2>2, <1>1, QueueSteps
<1>3. ASSUME NEW w \in W, ContainerWatcher(w), wcont[w] = c PROVE NewsInv(c)' /\ AgreeInv(c)'
  <2>1. ASSUME Dial(w) \/ WatchEnds(w) \/ Retry(w) PROVE NewsInv(c)' /\ AgreeInv(c)'
    <3>1. UNCHANGED <<wcont, counts, batch, pendingOut, outCh>>
      BY <2>1 DEF Dial, WatchEnds, Retry, callback, runVars
    <3>2. \A x \in W : Works(x, c)' <=> Works(x, c)
      BY <2>1 DEF Dial, WatchEnds, Retry, Works, Live, TypeOK
    <3>3. \A p \in Port : <<c, p>> \in Base' <=> <<c, p>> \in Base
      <4>1. CASE Dial(w) \/ Retry(w)
        BY <4>1 DEF Dial, Retry, runVars, Base
      <4>2. CASE WatchEnds(w)
        <5>1. callback(w, {})
          BY <4>2 DEF WatchEnds
        <5>2. \A p \in Port : <<c, p>> \in Base' <=>
                \/ <<c, p>> \in Base
                \/ w \in cb /\ pc = "startup" /\ wcont[w] = c /\ p \in {}
          BY <5>1, BaseCallback
        <5> QED BY <5>2
      <4> QED BY <2>1, <4>1, <4>2
    <3>4. Queued' = Queued
      BY <3>1, QueueSteps
    <3> QED BY <3>1, <3>2, <3>3, <3>4, Unmoved
  <2>2. CASE emit(w)
    BY <1>3, <2>2, OwnEmit
  <2>3. CASE ReceiveSync(w) \/ ReceiveAdd(w) \/ ReceiveRemove(w) \/ Finish(w)
    BY <1>3, <2>3, OwnChange
  <2> QED BY <1>3, <2>1, <2>2, <2>3 DEF ContainerWatcher
<1>4. ASSUME NEW w \in W, ContainerWatcher(w), wcont[w] # c PROVE NewsInv(c)' /\ AgreeInv(c)'
  BY <1>4, OtherContainer
<1>5. CASE ScanDir
  <2>1. PICK f \in Slots(socket) : startContainers(socket, f, TRUE)
    BY <1>5 DEF ScanDir
  <2>2. /\ socket \in SUBSET Container /\ UNCHANGED <<pendingOut, outCh, counts, batch>>
        /\ UNCHANGED <<snapshot, startupCh>>
        /\ pc \in {"scan", "startup", "snap"} /\ pc' \in {"scan", "startup", "snap"}
    BY <1>5 DEF ScanDir, TypeOK
  <2>3. \A p \in Port : <<c, p>> \in Base' <=> <<c, p>> \in Base
    BY <2>2 DEF Base
  <2> QED BY <2>1, <2>2, <2>3, NewWatchers
<1>6. CASE Scan
  <2>1. PICK f \in Slots({d \in socket : ~Knows(d)}) :
          startContainers({d \in socket : ~Knows(d)}, f, FALSE)
    BY <1>6 DEF Scan
  <2>2. /\ {d \in socket : ~Knows(d)} \in SUBSET Container
        /\ UNCHANGED <<pendingOut, outCh, counts, batch, snapshot, startupCh, pc, view>>
    BY <1>6 DEF TypeOK, Scan
  <2>3. \A p \in Port : <<c, p>> \in Base' <=> <<c, p>> \in Base
    BY <2>2 DEF Base
  <2> QED BY <2>1, <2>2, <2>3, NewWatchers
<1>7. CASE StartupHold
  <2>1. UNCHANGED <<wpc, wcont, counts, batch, pc, snapshot, startupCh, view>>
    BY <1>7 DEF StartupHold, watcherVars
  <2>2. Base' = Base
    BY <2>1 DEF Base
  <2> QED BY <1>7, <2>1, <2>2, <1>1, QueueSteps
<1>8. ASSUME NEW r \in startupCh, StartupReceive(r) PROVE NewsInv(c)' /\ AgreeInv(c)'
  <2>1. UNCHANGED <<wpc, wcont, counts, batch, pendingOut, outCh>>
    BY <1>8 DEF StartupReceive, watcherVars
  <2>2. ASSUME NEW p \in Port PROVE <<c, p>> \in Base' <=> <<c, p>> \in Base
    <3>1. /\ pc = "startup" /\ pc' \in {"startup", "snap"} /\ startupCh' = startupCh \ {r}
          /\ snapshot' = snapshot \cup ({r.c} \X r.ports)
      BY <1>8 DEF StartupReceive
    <3>2. <<c, p>> \in snapshot' <=> <<c, p>> \in snapshot \/ (r.c = c /\ p \in r.ports)
      BY <3>1
    <3> QED BY <3>1, <3>2, InBase
  <2> QED BY <2>1, <2>2, <1>1, QueueSteps
<1>9. CASE Deadline
  <2>1. UNCHANGED <<wpc, wcont, counts, batch, pendingOut, outCh, snapshot>>
    BY <1>9 DEF Deadline, watcherVars
  <2>2. ASSUME NEW p \in Port PROVE <<c, p>> \in Base' <=> <<c, p>> \in Base
    <3>1. pc = "startup" /\ pc' = "snap" /\ startupCh' = {} /\ snapshot' = snapshot
      BY <1>9 DEF Deadline
    <3>2. ASSUME NEW r \in startupCh, r.c = c PROVE p \notin r.ports
      <4>1. c \notin lost' /\ lost' = lost \cup {x.c : x \in {y \in startupCh : y.ports # {}}}
        BY <1>9 DEF Deadline, Regular
      <4> QED BY <3>2, <4>1
    <3> QED BY <3>1, <3>2, InBase
  <2> QED BY <2>1, <2>2, <1>1, QueueSteps
<1>10. CASE SendSnapshot
  <2>1. UNCHANGED <<wpc, wcont, counts, batch, pendingOut, outCh>>
    BY <1>10 DEF SendSnapshot, watcherVars
  <2>2. ASSUME NEW p \in Port PROVE <<c, p>> \in Base' <=> <<c, p>> \in Base
    <3>1. pc = "snap" /\ pc' = "flush" /\ startupCh = {} /\ view' = snapshot
      BY <1>10 DEF SendSnapshot, BaseInv, RunInv
    <3> QED BY <3>1, InBase
  <2> QED BY <2>1, <2>2, <1>1, QueueSteps
<1>11. CASE (Flush /\ pendingOut # <<>>) \/ Forward
  <2>1. UNCHANGED <<wpc, wcont, counts, batch>> /\ pc' = pc /\ pc \in {"flush", "loop"}
    BY <1>11 DEF Flush, Forward, watcherVars
  <2>2. Queued # <<>> /\ Queued' = Tail(Queued) /\ view' = Applied(Head(Queued))
    BY <1>11, QueueSteps DEF Flush, Forward
  <2>3. Base = view /\ Base' = view'
    BY <2>1 DEF Base
  <2>4. Base' = Apply(Base, Head(Queued))
    BY <2>2, <2>3 DEF Applied, Apply
  <2> QED BY <2>1, <2>2, <2>4, Delivered
<1>12. CASE Flush /\ pendingOut = <<>>
  <2>1. UNCHANGED <<wpc, wcont, counts, batch, pendingOut, outCh, view>>
    BY <1>12 DEF Flush, watcherVars
  <2>2. Base' = Base
    BY <1>12, <2>1 DEF Flush, Base
  <2> QED BY <2>1, <2>2, <1>1, QueueSteps
<1>13. CASE Close
  <2>1. UNCHANGED <<wpc, wcont, counts, batch, pendingOut, outCh, view>>
    BY <1>13 DEF Close, watcherVars
  <2>2. Base' = Base
    BY <1>13, <2>1 DEF Close, Base
  <2> QED BY <2>1, <2>2, <1>1, QueueSteps
<1>14. ~Kill /\ ~Stop
  BY DEF Regular, Kill, Stop
<1> QED BY <1>2, <1>3, <1>4, <1>5, <1>6, <1>7, <1>8, <1>9, <1>10, <1>11, <1>12, <1>13, <1>14
       DEF Next, Run

(* A container whose history is irregular stays so.                        *)
LEMMA StaysIrregular ==
  ASSUME TypeOK, NEW c \in Container, Regular(c)', [Next]_vars PROVE Regular(c)
<1>1. (killed => killed') /\ lost \subseteq lost' /\ overlapped \subseteq overlapped'
  <2>1. CASE UNCHANGED vars \/ Environment
    <3>1. UNCHANGED <<killed, lost, overlapped>>
      BY <2>1 DEF vars, runVars, Environment, ContainerDown, RemoveStale, ContainerUp, ListenAdd,
                  ListenRemove
    <3> QED BY <3>1
  <2>0. CASE Kill
    BY <2>0 DEF Kill, runVars
  <2>2. ASSUME NEW w \in W, ContainerWatcher(w)
        PROVE  (killed => killed') /\ lost \subseteq lost' /\ overlapped \subseteq overlapped'
    BY <2>2, RunKeeps
  <2>3. CASE ScanDir \/ Scan
    <3>1. UNCHANGED <<killed, lost>>
      BY <2>3 DEF ScanDir, Scan
    <3>2. overlapped \subseteq overlapped'
      BY <2>3 DEF ScanDir, Scan, startContainers
    <3> QED BY <3>1, <3>2
  <2>4. CASE Run /\ ~ScanDir /\ ~Scan
    BY <2>4 DEF Run, StartupHold, Deadline, SendSnapshot, Flush, Forward, Stop, Close, StartupReceive
  <2> QED BY <2>0, <2>1, <2>2, <2>3, <2>4 DEF Next
<1> QED BY <1>1 DEF Regular

(* They always hold.                                                       *)
LEMMA ToldAlways == SafetySpec => [](\A c \in Container : ToldInv(c))
<1>1. Init => \A c \in Container : ToldInv(c)
  <2> SUFFICES ASSUME Init, NEW c \in Container PROVE ToldInv(c)
    OBVIOUS
  <2>1. Queued = <<>> /\ Len(Queued) = 0 /\ Base = {}
    BY DEF Init, Queued, Base
  <2>2. \A w \in W : ~Works(w, c)
    BY DEF Init, Works, Live
  <2>3. \A p \in Port : ~Believed(c, p)
    <3>1. \A p \in Port : Told(Base, Queued, 0, c, p) <=> <<c, p>> \in Base
      BY ToldNone
    <3>2. \A p \in Port : <<c, p>> \notin Base
      BY <2>1
    <3> QED BY <2>1, <3>1, <3>2 DEF Believed
  <2> QED BY <2>1, <2>2, <2>3 DEF Init, ToldInv, AloneInv, NewsInv, AgreeInv
<1>2. /\ TypeOK /\ BaseInv /\ (TypeOK /\ BaseInv)' /\ (\A w \in W : StreamInv(w))
      /\ (\A c \in Container : ToldInv(c)) /\ [Next]_vars
      => (\A c \in Container : ToldInv(c))'
  <2> SUFFICES ASSUME TypeOK, BaseInv, TypeOK', BaseInv', \A w \in W : StreamInv(w), [Next]_vars,
                      \A c \in Container : ToldInv(c), NEW c \in Container
               PROVE  ToldInv(c)'
    OBVIOUS
  <2>1. AloneInv(c) /\ (Regular(c) => NewsInv(c) /\ AgreeInv(c))
    BY DEF ToldInv
  <2>2. AloneInv(c)'
    BY <2>1, AloneStep
  <2>3. ASSUME Regular(c)' PROVE NewsInv(c)' /\ AgreeInv(c)'
    <3>1. Regular(c)
      BY <2>3, StaysIrregular
    <3> QED BY <2>1, <2>3, <3>1, ToldStep
  <2> QED BY <2>2, <2>3 DEF ToldInv
<1> QED BY <1>1, <1>2, BaseAlways, StreamAlways, PTL DEF SafetySpec

(* For any number of containers, ports and batches under way: once all     *)
(* that is under way has been sent, the consumer of Changes has been told  *)
(* of exactly the ports that the container's watcher counts as open, and   *)
(* of none of a container that has no watcher.                             *)
THEOREM ConsumerStaysInStep == SafetySpec => []ConsumerInStep
<1>1. TypeOK /\ BaseInv /\ (\A c \in Container : ToldInv(c)) => ConsumerInStep
  <2> SUFFICES ASSUME TypeOK, BaseInv, NEW c \in Container, ToldInv(c), Regular(c), NEW p \in Port
               PROVE  LET ws == {w \in W : Live(w) /\ wcont[w] = c} IN
                      WillBelieve(ws, c, p) <=> \E w \in ws : p \in Open(counts[w])
    BY DEF ConsumerInStep
  <2> DEFINE ws == {w \in W : Live(w) /\ wcont[w] = c}
             u == UnderWay(ws)
  <2>1. \A w \in W : w \in ws <=> Works(w, c)
    BY DEF Works
  <2>2. AloneInv(c) /\ AgreeInv(c) /\ \A w, x \in ws : w = x
    BY <2>1 DEF ToldInv, AloneInv, Regular
  <2>3. Queued \in Seq(Batch) /\ Len(Queued) \in Nat
    BY QueuedType
  <2>4. WillBelieve(ws, c, p) <=> Told(Base, u, Len(u), c, p)
    BY DEF WillBelieve, Told
  <2> HIDE DEF ws, u
  <2>5. CASE \A w \in ws : batch[w] = <<>>
    <3>1. u = Queued
      <4>1. u = pendingOut \o outCh \o <<>>
        BY <2>5 DEF u, UnderWay
      <4> QED BY <4>1, <2>3 DEF Queued
    <3>2. WillBelieve(ws, c, p) <=> Believed(c, p)
      BY <3>1, <2>4 DEF Believed
    <3>3. CASE ws = {}
      <4>1. ~Believed(c, p)
        BY <3>3, <2>1, <2>2 DEF AgreeInv
      <4> QED BY <4>1, <3>2, <3>3 DEF ws
    <3>4. ASSUME NEW w \in ws PROVE WillBelieve(ws, c, p) <=> \E x \in ws : p \in Open(counts[x])
      <4>1. w \in W /\ Works(w, c) /\ batch[w] = <<>> /\ \A x \in ws : x = w
        BY <2>1, <2>2, <2>5 DEF ws
      <4>2. p \in Open(counts[w]) <=> Believed(c, p)
        BY <4>1, <2>2 DEF AgreeInv
      <4> QED BY <4>1, <4>2, <3>2
    <3> QED BY <3>3, <3>4 DEF ws
  <2>6. ASSUME NEW w \in ws, batch[w] # <<>>
        PROVE  WillBelieve(ws, c, p) <=> \E x \in ws : p \in Open(counts[x])
    <3>1. w \in W /\ Works(w, c) /\ \A x \in ws : x = w
      BY <2>1, <2>2 DEF ws
    <3>2. PICK b \in Batch : batch[w] = <<b>> /\ b.c = c
      BY <2>6, <3>1 DEF BaseInv, SlotInv, Works
    <3>3. u = Queued \o <<b>>
      <4>1. (CHOOSE x \in ws : batch[x] # <<>>) = w
        BY <2>6, <3>1
      <4> QED BY <2>6, <3>2, <4>1 DEF u, UnderWay, Queued
    <3> DEFINE n == Len(Queued)
    <3>4. /\ Len(u) = n + 1 /\ u[n + 1] = b /\ n \in Nat /\ Head(batch[w]) = b
          /\ \A i \in 1..n : u[i] = Queued[i]
      BY <2>3, <3>2, <3>3
    <3> HIDE DEF n
    <3>5. Told(Base, u, n + 1, c, p) <=>
            \/ u[n+1].c = c /\ p \in u[n+1].opens
            \/ Told(Base, u, n, c, p) /\ ~Mentions(u[n+1], c, p)
      BY <3>4, ToldNext
    <3>6. Told(Base, u, n, c, p) <=> Told(Base, Queued, n, c, p)
      BY <3>4, ToldSame
    <3>7. p \in Open(counts[w]) <=> p \in b.opens \/ (Believed(c, p) /\ p \notin b.closes)
      BY <2>2, <2>6, <3>1, <3>4 DEF AgreeInv
    <3>8. WillBelieve(ws, c, p) <=> p \in b.opens \/ (Believed(c, p) /\ p \notin b.closes)
      BY <2>4, <3>2, <3>4, <3>5, <3>6 DEF Believed, Mentions, n
    <3> QED BY <3>1, <3>7, <3>8
  <2> QED BY <2>5, <2>6 DEF ws
<1> QED BY <1>1, BaseAlways, ToldAlways, PTL

(* And each batch is news to the consumer when it gets it, whatever was    *)
(* held back during the startup and in whatever order run receives from    *)
(* startupCh and outCh: no port is opened twice or closed twice.           *)
THEOREM ChangesStayNews == SafetySpec => []ChangesAreNews
<1>1. TypeOK /\ (\A c \in Container : ToldInv(c)) => ChangesAreNews
  <2> SUFFICES ASSUME TypeOK, \A c \in Container : ToldInv(c) PROVE ChangesAreNews
    OBVIOUS
  <2> DEFINE b == IF pendingOut # <<>> THEN Head(pendingOut) ELSE Head(outCh)
  <2> SUFFICES ASSUME pc \in {"flush", "loop"}, pendingOut \o outCh # <<>>, Regular(b.c)
               PROVE  ({b.c} \X b.opens) \cap view = {} /\ {b.c} \X b.closes \subseteq view
    BY DEF ChangesAreNews
  <2>1. Queued \in Seq(Batch) /\ Len(Queued) >= 1 /\ 1 \in 1..Len(Queued) /\ 1 - 1 = 0
    BY QueuedType DEF Queued
  <2>2. b = Queued[1] /\ b \in Batch
    <3>1. pendingOut \in Seq(Batch) /\ outCh \in Seq(Batch)
      BY DEF TypeOK
    <3>2. \A s, t \in Seq(Batch) : s \o t # <<>> =>
            (s \o t)[1] = IF s # <<>> THEN Head(s) ELSE Head(t)
      OBVIOUS
    <3> QED BY <2>1, <3>1, <3>2 DEF Queued
  <2> HIDE DEF b
  <2>3. b.c \in Container /\ b.opens \in SUBSET Port /\ b.closes \in SUBSET Port
    BY <2>2 DEF Batch
  <2>4. NewsInv(b.c) /\ Base = view
    BY <2>3 DEF ToldInv, Base
  <2>5. ASSUME NEW p \in Port
        PROVE  (p \in b.opens => <<b.c, p>> \notin view) /\ (p \in b.closes => <<b.c, p>> \in view)
    <3>1. /\ p \in b.opens => ~Told(Base, Queued, 0, b.c, p)
          /\ p \in b.closes => Told(Base, Queued, 0, b.c, p)
      BY <2>1, <2>2, <2>4 DEF NewsInv
    <3> QED BY <3>1, <2>4, ToldNone
  <2> QED BY <2>3, <2>5
<1> QED BY <1>1, BaseAlways, ToldAlways, PTL
=============================================================================
