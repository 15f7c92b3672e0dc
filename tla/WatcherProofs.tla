--------------------------- MODULE WatcherProofs ---------------------------
(* Theorems about Watcher, for any listens, peers, clients and capacity. *)
EXTENDS Watcher, FiniteSetTheorems, TLAPS

(* The type invariant holds: in particular no channel outgrows its buffer. *)
THEOREM TypeCorrect == SafetySpec => []TypeOK
<1>1. Init => TypeOK
  BY BufSizeAssumption DEF Init, TypeOK, ProxyState
<1>2. TypeOK /\ [Next]_vars => TypeOK'
  <2> SUFFICES ASSUME TypeOK, [Next]_vars PROVE TypeOK'
    OBVIOUS
  <2> USE DEF TypeOK
  <2>1. ASSUME NEW l \in Listen, OwnOpen(l) \/ OwnClose(l) PROVE TypeOK'
    BY <2>1 DEF OwnOpen, OwnClose, scanVars, handlerVars
  <2>2. ASSUME NEW p \in Peer, NEW l \in Listen, Proxying(p, l) PROVE TypeOK'
    <3>0. ASSUME NEW from, NEW to \in ProxyState, SetProxy(p, l, from, to)
          PROVE px' \in [Peer -> [Listen -> ProxyState]]
      BY <3>0 DEF SetProxy
    <3>1. CASE StartProxy(p, l)
      BY <3>0, <3>1 DEF StartProxy, Exclude, ProxyState, scanVars, handlerVars
    <3>2. CASE Bind(p, l) \/ BindFail(p, l) \/ CloseListener(p, l)
      BY <3>0, <3>2 DEF Bind, BindFail, CloseListener, ProxyState, scanVars, handlerVars
    <3>3. CASE FinishClose(p, l)
      BY <3>0, <3>3 DEF FinishClose, Unexclude, ProxyState, scanVars, handlerVars
    <3> QED BY <2>2, <3>1, <3>2, <3>3 DEF Proxying
  <2>3. CASE ScanStart \/ ScanError \/ ScanLock \/ ScanDone
    BY <2>3 DEF ScanStart, ScanError, ScanLock, ScanDone, handlerVars
  <2>4. ASSUME NEW l \in Listen, ScanRow(l) PROVE TypeOK'
    BY <2>4 DEF ScanRow, AddrInUse, handlerVars
  <2>5. ASSUME NEW l \in Listen, PublishAdd(l) \/ PublishRemove(l) PROVE TypeOK'
    <3>1. ASSUME NEW op \in {"add", "remove"}, publish(op, l)
          PROVE /\ subs' \in SUBSET Sub
                /\ chan' \in [Sub -> Seq(Event)]
                /\ \A s \in Sub : Len(chan'[s]) <= BufSize
      <4>1. [op |-> op, listen |-> l] \in Event
        BY DEF Event
      <4> QED BY <4>1, <3>1, BufSizeAssumption DEF publish, Fits
    <3>2. publish("add", l) \/ publish("remove", l)
      BY <2>5 DEF PublishAdd, PublishRemove
    <3>3. /\ subs' \in SUBSET Sub
          /\ chan' \in [Sub -> Seq(Event)]
          /\ \A s \in Sub : Len(chan'[s]) <= BufSize
      BY <3>1, <3>2
    <3> QED BY <2>5, <3>3 DEF PublishAdd, PublishRemove, handlerVars
  <2>6. ASSUME NEW s \in Sub, handleWatch(s) PROVE TypeOK'
    <3>1. CASE Subscribe(s) \/ Cancel(s)
      <4>0. <<>> \in Seq(Event) /\ Len(<<>>) = 0
        OBVIOUS
      <4>1. PICK empty \in Seq(Event) : empty = <<>> /\ Len(empty) = 0
        BY <4>0, Zenon
      <4>2. chan' = [chan EXCEPT ![s] = empty]
        BY <3>1, <4>1 DEF Subscribe, Cancel
      <4>3. chan' \in [Sub -> Seq(Event)] /\ \A t \in Sub : Len(chan'[t]) <= BufSize
        BY <4>1, <4>2, BufSizeAssumption
      <4> QED BY <3>1, <4>3 DEF Subscribe, Cancel, scanVars
    <3>2. CASE SendSync(s) \/ ChannelClosed(s) \/ Disconnect(s)
      BY <3>2 DEF SendSync, ChannelClosed, Disconnect, scanVars
    <3>3. CASE SendEvent(s)
      <4>1. Tail(chan[s]) \in Seq(Event) /\ Len(Tail(chan[s])) <= BufSize /\ Head(chan[s]) \in Event
        BY <3>3, BufSizeAssumption DEF SendEvent
      <4> QED BY <3>3, <4>1 DEF SendEvent, scanVars, Event
    <3>4. ASSUME NEW l \in Listen, SendSnapshot(s, l) PROVE TypeOK'
      BY <3>4 DEF SendSnapshot, scanVars
    <3> QED BY <2>6, <3>1, <3>2, <3>3, <3>4 DEF handleWatch
  <2>7. CASE UNCHANGED vars
    BY <2>7 DEF vars, scanVars, handlerVars
  <2> QED BY <2>1, <2>2, <2>3, <2>4, <2>5, <2>6, <2>7 DEF Next, Environment, scanOnce
<1> QED BY <1>1, <1>2, PTL DEF SafetySpec

----------------------------------------------------------------------------
(* The proxies that hold a reference to l. *)
Holders(l) == {p \in Peer : px[p][l] # "none"}

(* The holders of a listen can be counted.                                 *)
LEMMA HoldersFinite ==
  ASSUME NEW l \in Listen
  PROVE  /\ IsFiniteSet(Holders(l)) /\ Cardinality(Holders(l)) \in Nat
         /\ Cardinality(Holders(l)) = 0 <=> Holders(l) = {}
BY PeerAssumption, FS_Subset, FS_CardinalityType, FS_EmptySet DEF Holders

(* StartProxy and FinishClose are the only steps that take or drop a       *)
(* reference, and each moves exactly one proxy in or out of Holders.       *)
THEOREM RefCountsBalance == SafetySpec => []RefBalanced
<1>1. Init => RefBalanced
  <2> SUFFICES ASSUME Init, NEW l \in Listen PROVE excluded[l] = Cardinality(Holders(l))
    BY DEF RefBalanced, Holders
  <2>1. Holders(l) = {}
    BY DEF Init, Holders
  <2> QED BY <2>1, HoldersFinite DEF Init
<1>2. TypeOK /\ RefBalanced /\ [Next]_vars => RefBalanced'
  <2> SUFFICES ASSUME TypeOK, RefBalanced, [Next]_vars PROVE RefBalanced'
    OBVIOUS
  <2>0. \A l \in Listen : excluded[l] = Cardinality(Holders(l))
    BY DEF RefBalanced, Holders
  <2>1. CASE UNCHANGED <<px, excluded>>
    BY <2>1 DEF RefBalanced
  <2>2. ASSUME NEW p \in Peer, NEW l \in Listen, StartProxy(p, l) PROVE RefBalanced'
    <3> SUFFICES ASSUME NEW k \in Listen PROVE excluded'[k] = Cardinality(Holders(k)')
      BY DEF RefBalanced, Holders
    <3>1. px' = [px EXCEPT ![p][l] = "excluded"] /\ px[p][l] = "none"
      BY <2>2 DEF StartProxy, SetProxy
    <3>2. CASE k = l
      <4>1. Holders(l)' = Holders(l) \cup {p} /\ p \notin Holders(l)
        BY <3>1 DEF Holders, TypeOK, ProxyState
      <4>2. Cardinality(Holders(l)') = Cardinality(Holders(l)) + 1
        BY <4>1, HoldersFinite, FS_AddElement
      <4> QED BY <2>0, <2>2, <3>2, <4>2 DEF StartProxy, Exclude, TypeOK
    <3>3. CASE k # l
      <4>1. Holders(k)' = Holders(k)
        BY <3>1, <3>3 DEF Holders, TypeOK
      <4> QED BY <2>0, <2>2, <3>3, <4>1 DEF StartProxy, Exclude, TypeOK
    <3> QED BY <3>2, <3>3
  <2>3. ASSUME NEW p \in Peer, NEW l \in Listen, FinishClose(p, l) PROVE RefBalanced'
    <3> SUFFICES ASSUME NEW k \in Listen PROVE excluded'[k] = Cardinality(Holders(k)')
      BY DEF RefBalanced, Holders
    <3>1. px' = [px EXCEPT ![p][l] = "none"] /\ px[p][l] = "closing"
      BY <2>3 DEF FinishClose, SetProxy
    <3>2. CASE k = l
      <4>1. Holders(l)' = Holders(l) \ {p} /\ p \in Holders(l)
        BY <3>1 DEF Holders, TypeOK, ProxyState
      <4>2. Cardinality(Holders(l)') = Cardinality(Holders(l)) - 1
        BY <4>1, HoldersFinite, FS_RemoveElement
      <4>3. Cardinality(Holders(l)) \in Nat /\ Cardinality(Holders(l)) # 0
        BY <4>1, HoldersFinite
      <4> QED BY <2>0, <2>3, <3>2, <4>2, <4>3 DEF FinishClose, Unexclude, TypeOK
    <3>3. CASE k # l
      <4>1. Holders(k)' = Holders(k)
        BY <3>1, <3>3 DEF Holders, TypeOK
      <4> QED BY <2>0, <2>3, <3>3, <4>1 DEF FinishClose, Unexclude, TypeOK
    <3> QED BY <3>2, <3>3
  <2>4. ASSUME NEW p \in Peer, NEW l \in Listen,
               Bind(p, l) \/ BindFail(p, l) \/ CloseListener(p, l)
        PROVE  RefBalanced'
    <3>1. PICK to \in ProxyState : px' = [px EXCEPT ![p][l] = to] /\ to # "none"
      BY <2>4 DEF Bind, BindFail, CloseListener, SetProxy, ProxyState
    <3>2. px[p][l] # "none" /\ excluded' = excluded
      BY <2>4 DEF Bind, BindFail, CloseListener, SetProxy
    <3>3. \A k \in Listen : Holders(k)' = Holders(k)
      BY <3>1, <3>2 DEF Holders, TypeOK
    <3> QED BY <2>0, <3>2, <3>3 DEF RefBalanced, Holders
  <2>5. CASE Environment \/ scanOnce \/ \E s \in Sub : handleWatch(s)
    BY <2>1, <2>5 DEF Environment, OwnOpen, OwnClose, scanOnce, ScanStart, ScanRow, ScanError,
       ScanLock, PublishAdd, PublishRemove, ScanDone, handleWatch, Subscribe, SendSnapshot,
       SendSync, SendEvent, ChannelClosed, Disconnect, Cancel
  <2> QED BY <2>1, <2>2, <2>3, <2>4, <2>5 DEF Next, Proxying, vars
<1> QED BY <1>1, <1>2, TypeCorrect, PTL DEF SafetySpec

(* The mutex freezes the counts while a scan publishes. *)
NextUnreferenced == scanPC = "publishing" => \A l \in next : excluded[l] = 0

(* A scan publishes and records only listens that have no proxy at all at  *)
(* that moment, and the counts that hide them are exact.                   *)
THEOREM LiveProxiesHidden == SafetySpec => []ProxiesHidden
<1>1. Init => NextUnreferenced
  BY DEF Init, NextUnreferenced
<1>2. TypeOK /\ NextUnreferenced /\ [Next]_vars => NextUnreferenced'
  <2> SUFFICES ASSUME TypeOK, NextUnreferenced, [Next]_vars PROVE NextUnreferenced'
    OBVIOUS
  <2> USE DEF NextUnreferenced
  <2>1. CASE UNCHANGED <<scanPC, next, excluded>>
    BY <2>1
  <2>2. ASSUME NEW p \in Peer, NEW l \in Listen, Proxying(p, l) PROVE NextUnreferenced'
    BY <2>2, <2>1 DEF Proxying, StartProxy, Bind, BindFail, CloseListener, FinishClose, MutexFree,
       scanVars
  <2>3. CASE scanOnce
    BY <2>3, <2>1 DEF scanOnce, ScanStart, ScanRow, ScanError, ScanLock, PublishAdd, PublishRemove,
       ScanDone
  <2>4. CASE Environment \/ \E s \in Sub : handleWatch(s)
    BY <2>1, <2>4 DEF Environment, OwnOpen, OwnClose, handleWatch, Subscribe, SendSnapshot,
       SendSync, SendEvent, ChannelClosed, Disconnect, Cancel, scanVars
  <2> QED BY <2>1, <2>2, <2>3, <2>4 DEF Next, vars, scanVars
<1>3. TypeOK /\ RefBalanced /\ NextUnreferenced => NeverAdvertisesLiveProxy
  <2> SUFFICES ASSUME TypeOK, RefBalanced, NextUnreferenced, scanPC = "publishing",
                      NEW l \in next, NEW p \in Peer
               PROVE  px[p][l] = "none"
    BY DEF NeverAdvertisesLiveProxy
  <2>1. l \in Listen /\ Cardinality(Holders(l)) = 0
    BY DEF TypeOK, RefBalanced, NextUnreferenced, Holders
  <2> QED BY <2>1, HoldersFinite DEF Holders
<1>4. RefBalanced /\ NeverAdvertisesLiveProxy => ProxiesHidden  BY DEF ProxiesHidden
<1> QED BY <1>1, <1>2, <1>3, <1>4, TypeCorrect, RefCountsBalance, PTL DEF SafetySpec

----------------------------------------------------------------------------
(* What a queued event does to the beliefs of its receiver. *)

(* The event just queued decides about its own listen, and only about it. *)
LEMMA BelievesAppend ==
  ASSUME NEW base, NEW q \in Seq(Event), NEW ev \in Event, NEW l \in Listen
  PROVE  Believes(base, Append(q, ev), Len(q) + 1, l)
           <=> IF ev.listen = l THEN ev.op = "add" ELSE Believes(base, q, Len(q), l)
<1> DEFINE r == Append(q, ev)
           n == Len(q)
<1>1. n \in Nat /\ r[n+1] = ev /\ \A i \in 1..n : r[i] = q[i]
  OBVIOUS
<1>2. \A i \in 1..(n+1) : i = n+1 \/ i \in 1..n
  BY <1>1
<1>3. CASE ev.listen = l
  <2>1. \A i \in 1..n : n+1 \in (i+1)..(n+1)
    BY <1>1
  <2>2. (n+1 \in 1..(n+1)) /\ (n+2)..(n+1) = {}
    BY <1>1
  <2>3. (ev.op = "add") <=> ev = [op |-> "add", listen |-> l]
    BY <1>3 DEF Event
  <2>4. Believes(base, r, n+1, l) <=> ev = [op |-> "add", listen |-> l]
    BY <1>1, <1>2, <1>3, <2>1, <2>2 DEF Believes
  <2> QED BY <1>3, <2>3, <2>4
<1>4. CASE ev.listen # l
  <2>1. ev # [op |-> "add", listen |-> l]
    BY <1>4
  <2>2. \A i \in 1..n : (\A j \in (i+1)..(n+1) : r[j].listen # l)
                        <=> (\A j \in (i+1)..n : q[j].listen # l)
    BY <1>1, <1>2, <1>4
  <2>3. (\A j \in 1..(n+1) : r[j].listen # l) <=> (\A j \in 1..n : q[j].listen # l)
    BY <1>1, <1>2, <1>4
  <2>4. 1..n \subseteq 1..(n+1)
    BY <1>1
  <2> QED BY <1>1, <1>2, <1>4, <2>1, <2>2, <2>3, <2>4 DEF Believes
<1> QED BY <1>3, <1>4

(* What was queued before is not affected by a later event. *)
LEMMA BelievesPrefix ==
  ASSUME NEW base, NEW q \in Seq(Event), NEW ev \in Event, NEW l \in Listen,
         NEW n \in 0..Len(q)
  PROVE  Believes(base, Append(q, ev), n, l) <=> Believes(base, q, n, l)
<1>1. \A i \in 1..n : Append(q, ev)[i] = q[i]
  OBVIOUS
<1>2. \A i \in 1..n : \A j \in (i+1)..n : j \in 1..n
  OBVIOUS
<1> QED BY <1>1, <1>2 DEF Believes

(* Receiving the first event moves its effect into the base. *)
LEMMA BelievesTail ==
  ASSUME NEW base, NEW base2, NEW q \in Seq(Event), q # <<>>, NEW l \in Listen,
         NEW n \in 1..Len(q),
         l \in base2 <=> IF Head(q).listen = l THEN Head(q).op = "add" ELSE l \in base
  PROVE  Believes(base2, Tail(q), n-1, l) <=> Believes(base, q, n, l)
<1> DEFINE t == Tail(q)
<1>1. Head(q) = q[1] /\ q[1] \in Event /\ n \in Nat /\ \A i \in 1..(n-1) : t[i] = q[i+1]
  OBVIOUS
<1>2. (q[1].op = "add" /\ q[1].listen = l) <=> q[1] = [op |-> "add", listen |-> l]
  BY <1>1 DEF Event
<1>3. (\A j \in 1..(n-1) : t[j].listen # l) <=> (\A j \in 2..n : q[j].listen # l)
  <2>1. \A j \in 2..n : j-1 \in 1..(n-1) /\ (j-1)+1 = j
    BY <1>1
  <2>2. \A j \in 1..(n-1) : j+1 \in 2..n
    BY <1>1
  <2> QED BY <1>1, <2>1, <2>2
<1>4. ASSUME NEW i \in 1..(n-1)
      PROVE (\A j \in (i+1)..(n-1) : t[j].listen # l) <=> (\A j \in (i+2)..n : q[j].listen # l)
  <2>1. \A j \in (i+2)..n : j-1 \in (i+1)..(n-1) /\ j-1 \in 1..(n-1) /\ (j-1)+1 = j
    BY <1>1
  <2>2. \A j \in (i+1)..(n-1) : j+1 \in (i+2)..n /\ j \in 1..(n-1)
    BY <1>1
  <2> QED BY <1>1, <2>1, <2>2
<1> DEFINE Last(i) == q[i] = [op |-> "add", listen |-> l] /\ \A j \in (i+1)..n : q[j].listen # l
<1>5. (\E i \in 1..(n-1) : /\ t[i] = [op |-> "add", listen |-> l]
                           /\ \A j \in (i+1)..(n-1) : t[j].listen # l)
        <=> (\E i \in 2..n : Last(i))
  <2>1. \A i \in 1..(n-1) : i+1 \in 2..n /\ (i+1)+1 = i+2
    BY <1>1
  <2>2. \A i \in 2..n : i-1 \in 1..(n-1) /\ (i-1)+1 = i /\ (i-1)+2 = i+1
    BY <1>1
  <2>3. ASSUME NEW i \in 1..(n-1), t[i] = [op |-> "add", listen |-> l],
               \A j \in (i+1)..(n-1) : t[j].listen # l
        PROVE  Last(i+1)
    BY <1>1, <1>4, <2>1, <2>3
  <2>4. ASSUME NEW i \in 2..n, Last(i)
        PROVE  /\ t[i-1] = [op |-> "add", listen |-> l]
               /\ \A j \in ((i-1)+1)..(n-1) : t[j].listen # l
    BY <1>1, <1>4, <2>2, <2>4
  <2> QED BY <2>1, <2>2, <2>3, <2>4
<1>6. (\E i \in 1..n : Last(i)) <=> Last(1) \/ \E i \in 2..n : Last(i)
  <2>1. 1 \in 1..n /\ (\A i \in 1..n : i = 1 \/ i \in 2..n) /\ (\A i \in 2..n : i \in 1..n)
    BY <1>1
  <2> QED BY <2>1
<1>7. (\A j \in 1..n : q[j].listen # l) <=> q[1].listen # l /\ \A j \in 2..n : q[j].listen # l
  <2>1. 1 \in 1..n /\ (\A i \in 1..n : i = 1 \/ i \in 2..n) /\ (\A i \in 2..n : i \in 1..n)
    BY <1>1
  <2> QED BY <2>1
<1>8. Last(1) <=> q[1] = [op |-> "add", listen |-> l] /\ \A j \in 2..n : q[j].listen # l
  OBVIOUS
<1>9. Believes(base, q, n, l)
        <=> (\E i \in 1..n : Last(i)) \/ (l \in base /\ \A j \in 1..n : q[j].listen # l)
  BY DEF Believes
<1>10. Believes(base2, t, n-1, l)
        <=> (\E i \in 2..n : Last(i)) \/ (l \in base2 /\ \A j \in 2..n : q[j].listen # l)
  BY <1>3, <1>5 DEF Believes
<1> HIDE DEF Last
<1> QED BY <1>1, <1>2, <1>6, <1>7, <1>8, <1>9, <1>10

----------------------------------------------------------------------------
(* What a scan has still to publish, and what a handler has still to send, *)
(* as NoLostEvent needs them.                                              *)
StreamInv ==
  /\ scanPC = "publishing" => adds \subseteq next \ current /\ removes \subseteq current \ next
  /\ \A s \in Sub : hpc[s] = "stream" => snap[s] = {}

(* It always holds.                                                        *)
LEMMA StreamInvariant == SafetySpec => []StreamInv
<1>1. Init => StreamInv
  BY DEF Init, StreamInv
<1>2. TypeOK /\ StreamInv /\ [Next]_vars => StreamInv'
  <2> SUFFICES ASSUME TypeOK, StreamInv, [Next]_vars PROVE StreamInv'
    OBVIOUS
  <2> USE DEF StreamInv
  <2>1. CASE UNCHANGED <<scanVars, current, hpc, snap>>
    BY <2>1 DEF scanVars
  <2>2. CASE Environment \/ \E p \in Peer, l \in Listen : Proxying(p, l)
    BY <2>1, <2>2 DEF Environment, OwnOpen, OwnClose, Proxying, StartProxy, Bind, BindFail,
       CloseListener, FinishClose, handlerVars
  <2>3. CASE scanOnce
    BY <2>3 DEF scanOnce, ScanStart, ScanRow, ScanError, ScanLock, PublishAdd, PublishRemove,
       ScanDone, handlerVars
  <2>4. ASSUME NEW s \in Sub, handleWatch(s) PROVE StreamInv'
    BY <2>4 DEF handleWatch, Subscribe, SendSnapshot, SendSync, SendEvent, ChannelClosed,
       Disconnect, Cancel, scanVars, TypeOK
  <2> QED BY <2>1, <2>2, <2>3, <2>4 DEF Next, vars, handlerVars
<1> QED BY <1>1, <1>2, TypeCorrect, PTL DEF SafetySpec

(* Steps that neither report, nor queue, nor receive. *)
LEMMA QuietStep ==
  ASSUME TypeOK, StreamExact, UNCHANGED <<chan, subs>>, Reported' = Reported,
         \A s \in Sub : Known(s)' = Known(s) /\ (hpc'[s] # "off" => hpc[s] # "off")
  PROVE  StreamExact'
<1>1. NoLostEvent'
  <2> SUFFICES ASSUME NEW s \in subs, NEW l \in Listen
               PROVE  l \in Reported <=> Believes(Known(s), chan[s], Len(chan[s]), l)
    <3>1. \A s \in subs' : s \in subs /\ Known(s)' = Known(s) /\ chan'[s] = chan[s]
      BY DEF TypeOK
    <3> QED BY <3>1 DEF NoLostEvent, Believes
  <2> QED BY DEF StreamExact, NoLostEvent
<1>2. EveryEventCounts'
  BY DEF StreamExact, EveryEventCounts, Believes
<1> QED BY <1>1, <1>2 DEF StreamExact

(* Publishing an event that changes what has been reported. *)
LEMMA PublishStep ==
  ASSUME TypeOK, StreamExact, NEW op \in {"add", "remove"}, NEW l \in Listen, publish(op, l),
         UNCHANGED <<hpc, snap, view>>,
         (op = "add") <=> l \notin Reported,
         \A k \in Listen : k \in Reported' <=> IF k = l THEN op = "add" ELSE k \in Reported
  PROVE  StreamExact'
<1> DEFINE ev == [op |-> op, listen |-> l]
<1>0. ev \in Event
  BY DEF Event
<1>1. ASSUME NEW s \in subs' PROVE /\ s \in subs /\ s \in Sub
                                  /\ chan'[s] = Append(chan[s], ev)
                                  /\ chan[s] \in Seq(Event)
                                  /\ Len(chan'[s]) = Len(chan[s]) + 1
  BY <1>0, <1>1 DEF publish, TypeOK
<1>2. \A s \in Sub : Known(s)' = Known(s)
  BY DEF Known
<1>3. NoLostEvent'
  <2> SUFFICES ASSUME NEW s \in subs', NEW k \in Listen
               PROVE  k \in Reported' <=> Believes(Known(s), chan'[s], Len(chan'[s]), k)
    BY <1>1, <1>2 DEF NoLostEvent, Believes
  <2>1. Believes(Known(s), Append(chan[s], ev), Len(chan[s]) + 1, k)
          <=> IF ev.listen = k THEN ev.op = "add" ELSE Believes(Known(s), chan[s], Len(chan[s]), k)
    BY <1>0, <1>1, BelievesAppend
  <2>2. k \in Reported <=> Believes(Known(s), chan[s], Len(chan[s]), k)
    BY <1>1 DEF StreamExact, NoLostEvent
  <2> QED BY <1>1, <2>1, <2>2
<1>4. EveryEventCounts'
  <2> SUFFICES ASSUME NEW s \in Sub, hpc[s] # "off", NEW i \in 1..Len(chan'[s])
               PROVE  (chan'[s][i].op = "add")
                        <=> ~Believes(Known(s), chan'[s], i-1, chan'[s][i].listen)
    BY <1>2 DEF EveryEventCounts, Believes
  <2>1. CASE chan'[s] = chan[s]
    BY <2>1 DEF StreamExact, EveryEventCounts
  <2>2. CASE s \in subs /\ Fits(s)
    <3>1. s \in subs' /\ chan'[s] = Append(chan[s], ev) /\ chan[s] \in Seq(Event)
      BY <2>2 DEF publish, TypeOK
    <3>2. CASE i = Len(chan[s]) + 1
      <4>1. chan'[s][i] = ev /\ i - 1 = Len(chan[s]) /\ i - 1 \in 0..Len(chan[s])
        BY <1>0, <3>1, <3>2
      <4>2. Believes(Known(s), chan'[s], i-1, l) <=> Believes(Known(s), chan[s], Len(chan[s]), l)
        BY <1>0, <3>1, <4>1, BelievesPrefix
      <4>3. l \in Reported <=> Believes(Known(s), chan[s], Len(chan[s]), l)
        BY <2>2 DEF StreamExact, NoLostEvent
      <4> QED BY <4>1, <4>2, <4>3
    <3>3. CASE i \in 1..Len(chan[s])
      <4>1. chan'[s][i] = chan[s][i] /\ i - 1 \in 0..Len(chan[s]) /\ chan[s][i].listen \in Listen
        <5>1. chan[s][i] \in Event
          BY <3>1, <3>3
        <5> QED BY <1>0, <3>1, <3>3, <5>1 DEF Event
      <4>2. Believes(Known(s), chan'[s], i-1, chan[s][i].listen)
              <=> Believes(Known(s), chan[s], i-1, chan[s][i].listen)
        BY <1>0, <3>1, <4>1, BelievesPrefix
      <4> QED BY <3>3, <4>1, <4>2 DEF StreamExact, EveryEventCounts
    <3>4. i = Len(chan[s]) + 1 \/ i \in 1..Len(chan[s])
      BY <1>0, <3>1
    <3> QED BY <3>2, <3>3, <3>4
  <2> QED BY <2>1, <2>2 DEF publish
<1> QED BY <1>3, <1>4 DEF StreamExact

(* A step of one client: the others keep their streams.  Its own is        *)
(* re-established by the caller's facts about s.                           *)
LEMMA OneStreamStep ==
  ASSUME TypeOK, StreamExact, Reported' = Reported, NEW s \in Sub, subs' \subseteq subs \cup {s},
         \A t \in Sub \ {s} : chan'[t] = chan[t] /\ Known(t)' = Known(t) /\ hpc'[t] = hpc[t],
         s \in subs' => \A l \in Listen :
            l \in Reported' <=> Believes(Known(s)', chan'[s], Len(chan'[s]), l),
         hpc'[s] # "off" => \A i \in 1..Len(chan'[s]) :
            (chan'[s][i].op = "add")
              <=> ~Believes(Known(s)', chan'[s], i-1, chan'[s][i].listen)
  PROVE  StreamExact'
<1>1. NoLostEvent'
  <2> SUFFICES ASSUME NEW t \in subs', NEW l \in Listen
               PROVE  l \in Reported' <=> Believes(Known(t)', chan'[t], Len(chan'[t]), l)
    BY DEF NoLostEvent, Believes
  <2>1. CASE t = s
    BY <2>1
  <2>2. CASE t # s
    <3>1. t \in subs /\ t \in Sub \ {s}
      BY <2>2 DEF TypeOK
    <3> QED BY <3>1 DEF StreamExact, NoLostEvent
  <2> QED BY <2>1, <2>2
<1>2. EveryEventCounts'
  <2> SUFFICES ASSUME NEW t \in Sub, hpc'[t] # "off", NEW i \in 1..Len(chan'[t])
               PROVE  (chan'[t][i].op = "add")
                        <=> ~Believes(Known(t)', chan'[t], i-1, chan'[t][i].listen)
    BY DEF EveryEventCounts, Believes
  <2>1. CASE t = s
    BY <2>1
  <2>2. CASE t # s
    BY <2>2 DEF StreamExact, EveryEventCounts
  <2> QED BY <2>1, <2>2
<1> QED BY <1>1, <1>2 DEF StreamExact

(* An event that is received was counted while it was in the channel.      *)
LEMMA ReceiveStep ==
  ASSUME TypeOK, StreamInv, StreamExact, NEW s \in Sub, SendEvent(s)
  PROVE  StreamExact'
<1> DEFINE q == chan[s]
<1>1. q \in Seq(Event) /\ q # <<>> /\ chan'[s] = Tail(q) /\ Head(q) \in Event
  BY DEF SendEvent, TypeOK
<1>2. Len(q) \in Nat /\ Len(Tail(q)) = Len(q) - 1 /\ Len(q) # 0
        /\ \A i \in 1..(Len(q)-1) : Tail(q)[i] = q[i+1]
  BY <1>1
<1>3. \A l \in Listen : l \in Known(s)'
         <=> IF Head(q).listen = l THEN Head(q).op = "add" ELSE l \in Known(s)
  BY DEF SendEvent, StreamInv, Known, TypeOK
<1>4. \A l \in Listen, n \in 1..Len(q) :
         Believes(Known(s)', Tail(q), n-1, l) <=> Believes(Known(s), q, n, l)
  BY <1>1, <1>3, BelievesTail
<1>5. Reported' = Reported /\ subs' = subs /\ hpc' = hpc
  BY DEF SendEvent, Reported, scanVars
<1>6. \A t \in Sub \ {s} : chan'[t] = chan[t] /\ Known(t)' = Known(t)
  BY DEF SendEvent, Known, TypeOK
<1>7. s \in subs' => \A l \in Listen :
         l \in Reported' <=> Believes(Known(s)', chan'[s], Len(chan'[s]), l)
  BY <1>1, <1>2, <1>4, <1>5 DEF StreamExact, NoLostEvent
<1>8. ASSUME NEW i \in 1..Len(chan'[s]), hpc'[s] # "off"
      PROVE  (chan'[s][i].op = "add") <=> ~Believes(Known(s)', chan'[s], i-1, chan'[s][i].listen)
  <2>1. i+1 \in 1..Len(q) /\ i \in 1..Len(q) /\ chan'[s][i] = q[i+1] /\ (i+1)-1 = i
    BY <1>1, <1>2
  <2>2. q[i+1] \in Event
    BY <1>1, <2>1
  <2>3. q[i+1].listen \in Listen
    BY <2>2 DEF Event
  <2>4. (q[i+1].op = "add") <=> ~Believes(Known(s), q, i, q[i+1].listen)
    BY <1>5, <1>8, <2>1 DEF StreamExact, EveryEventCounts
  <2> QED BY <1>1, <1>4, <2>1, <2>3, <2>4
<1> QED BY <1>5, <1>6, <1>7, <1>8, OneStreamStep

(* What each scan step does to what has been reported. *)
LEMMA ReportedStep ==
  ASSUME TypeOK, StreamInv
  PROVE  /\ ScanStart \/ ScanError \/ ScanLock \/ ScanDone => Reported' = Reported
         /\ \A l \in Listen : ScanRow(l) => Reported' = Reported
         /\ \A l \in Listen : PublishAdd(l) => l \notin Reported /\ Reported' = Reported \cup {l}
         /\ \A l \in Listen : PublishRemove(l) => l \in Reported /\ Reported' = Reported \ {l}
<1> USE DEF TypeOK, StreamInv, Reported
<1>1. ScanStart \/ ScanError \/ ScanLock \/ ScanDone => Reported' = Reported
  BY DEF ScanStart, ScanError, ScanLock, ScanDone
<1>2. \A l \in Listen : ScanRow(l) => Reported' = Reported
  BY DEF ScanRow
<1>3. \A l \in Listen : PublishAdd(l) => l \notin Reported /\ Reported' = Reported \cup {l}
  BY DEF PublishAdd
<1>4. \A l \in Listen : PublishRemove(l) => l \in Reported /\ Reported' = Reported \ {l}
  BY DEF PublishRemove
<1> QED BY <1>1, <1>2, <1>3, <1>4

(* A registered subscriber that drains its channel believes exactly what   *)
(* the Watcher has reported, and every event on the way changes its        *)
(* belief: no event between the snapshot and the channel is lost, doubled  *)
(* or reordered, for any capacity and any number of subscribers.           *)
THEOREM NoEventLost == SafetySpec => []StreamExact
<1>1. Init => StreamExact
  BY DEF Init, StreamExact, NoLostEvent, EveryEventCounts
<1>2. TypeOK /\ StreamInv /\ StreamExact /\ [Next]_vars => StreamExact'
  <2> SUFFICES ASSUME TypeOK, StreamInv, StreamExact, [Next]_vars PROVE StreamExact'
    OBVIOUS
  <2>1. CASE UNCHANGED <<chan, subs, hpc, snap, view, scanPC, next, adds, removes, current>>
    BY <2>1, QuietStep DEF Reported, Known
  <2>2. CASE Environment \/ \E p \in Peer, l \in Listen : Proxying(p, l)
    BY <2>1, <2>2 DEF Environment, OwnOpen, OwnClose, Proxying, StartProxy, Bind, BindFail,
       CloseListener, FinishClose, scanVars, handlerVars
  <2>3. CASE ScanStart \/ ScanError \/ ScanLock \/ ScanDone \/ \E l \in Listen : ScanRow(l)
    <3>1. Reported' = Reported
      BY <2>3, ReportedStep
    <3>2. UNCHANGED <<chan, subs, hpc, snap, view>>
      BY <2>3 DEF ScanStart, ScanError, ScanLock, ScanDone, ScanRow, handlerVars
    <3> QED BY <3>1, <3>2, QuietStep DEF Known
  <2>4. ASSUME NEW l \in Listen, PublishAdd(l) PROVE StreamExact'
    <3>1. publish("add", l) /\ UNCHANGED <<hpc, snap, view>>
      BY <2>4 DEF PublishAdd, handlerVars
    <3>2. l \notin Reported /\ Reported' = Reported \cup {l}
      BY <2>4, ReportedStep
    <3> QED BY <3>1, <3>2, PublishStep
  <2>5. ASSUME NEW l \in Listen, PublishRemove(l) PROVE StreamExact'
    <3>1. publish("remove", l) /\ UNCHANGED <<hpc, snap, view>>
      BY <2>5 DEF PublishRemove, handlerVars
    <3>2. l \in Reported /\ Reported' = Reported \ {l}
      BY <2>5, ReportedStep
    <3> QED BY <3>1, <3>2, PublishStep
  <2>6. ASSUME NEW s \in Sub, handleWatch(s) PROVE StreamExact'
    <3>1. CASE Subscribe(s)
      <4>1. /\ subs' = subs \cup {s} /\ chan'[s] = <<>> /\ Known(s)' = current
            /\ Reported' = current /\ Reported = current
        BY <3>1 DEF Subscribe, MutexFree, Reported, Known, scanVars, TypeOK
      <4>2. \A t \in Sub \ {s} : chan'[t] = chan[t] /\ Known(t)' = Known(t) /\ hpc'[t] = hpc[t]
        BY <3>1 DEF Subscribe, Known, TypeOK
      <4>3. Len(chan'[s]) = 0 /\ 1..0 = {}
        BY <4>1
      <4>4. \A l \in Listen : l \in Reported' <=> Believes(Known(s)', chan'[s], Len(chan'[s]), l)
        BY <4>1, <4>3 DEF Believes
      <4> QED BY <4>1, <4>2, <4>3, <4>4, OneStreamStep
    <3>2. CASE Cancel(s)
      <4>1. /\ subs' = subs \ {s} /\ hpc'[s] = "off" /\ Reported' = Reported
        BY <3>2 DEF Cancel, Reported, scanVars, TypeOK
      <4>2. \A t \in Sub \ {s} : chan'[t] = chan[t] /\ Known(t)' = Known(t) /\ hpc'[t] = hpc[t]
        BY <3>2 DEF Cancel, Known, TypeOK
      <4> QED BY <4>1, <4>2, OneStreamStep
    <3>3. CASE SendSync(s) \/ ChannelClosed(s) \/ Disconnect(s)
      <4>1. UNCHANGED <<chan, subs, snap, view>> /\ Reported' = Reported
        BY <3>3 DEF SendSync, ChannelClosed, Disconnect, Reported, scanVars
      <4>2. \A t \in Sub : hpc'[t] # "off" => hpc[t] # "off"
        BY <3>3 DEF SendSync, ChannelClosed, Disconnect, TypeOK
      <4> QED BY <4>1, <4>2, QuietStep DEF Known
    <3>4. ASSUME NEW l \in Listen, SendSnapshot(s, l) PROVE StreamExact'
      <4>1. UNCHANGED <<chan, subs, hpc>> /\ Reported' = Reported
        BY <3>4 DEF SendSnapshot, Reported, scanVars
      <4>2. \A t \in Sub : Known(t)' = Known(t)
        BY <3>4 DEF SendSnapshot, Known, TypeOK
      <4> QED BY <4>1, <4>2, QuietStep
    <3>5. CASE SendEvent(s)
      BY <3>5, ReceiveStep
    <3> QED BY <2>6, <3>1, <3>2, <3>3, <3>4, <3>5 DEF handleWatch
  <2> QED BY <2>1, <2>2, <2>3, <2>4, <2>5, <2>6 DEF Next, scanOnce, vars, scanVars, handlerVars
<1> QED BY <1>1, <1>2, TypeCorrect, StreamInvariant, PTL DEF SafetySpec

----------------------------------------------------------------------------
(* The registry implements the abstract feed: every step of the scanner,   *)
(* of a proxy, of a handler or of the container's processes is a step of   *)
(* Feed or leaves it unchanged, for any number of listens, peers and       *)
(* clients and any capacity.                                               *)
THEOREM WatcherImplementsFeed == SafetySpec => FeedImplemented
<1>1. Init => F!Init
  BY DEF Init, F!Init, Reported
<1>2. TypeOK /\ StreamInv /\ [Next]_vars => [F!Next]_(F!vars)
  <2> SUFFICES ASSUME TypeOK, StreamInv, [Next]_vars PROVE [F!Next]_(F!vars)
    OBVIOUS
  <2>1. CASE UNCHANGED <<Reported, subs, handlerVars, chan>>
    BY <2>1 DEF F!vars, handlerVars
  <2>2. CASE Environment \/ \E p \in Peer, l \in Listen : Proxying(p, l)
    BY <2>1, <2>2 DEF Environment, OwnOpen, OwnClose, Proxying, StartProxy, Bind, BindFail,
       CloseListener, FinishClose, Reported, scanVars
  <2>3. CASE ScanStart \/ ScanError \/ ScanLock \/ ScanDone \/ \E l \in Listen : ScanRow(l)
    <3>1. UNCHANGED <<subs, handlerVars, chan>>
      BY <2>3 DEF ScanStart, ScanError, ScanLock, ScanDone, ScanRow, handlerVars
    <3> QED BY <2>1, <2>3, <3>1, ReportedStep
  <2>4. ASSUME NEW op, NEW l, publish(op, l), UNCHANGED handlerVars
        PROVE  F!Tell([op |-> op, listen |-> l])
    <3>1. subs' \in SUBSET subs /\ \A s \in subs : s \in subs' <=> Fits(s)
      BY <2>4 DEF publish
    <3>2. subs \subseteq Sub
      BY DEF TypeOK
    <3>3. chan' = [s \in Sub |-> IF s \in subs' THEN Append(chan[s], [op |-> op, listen |-> l])
                                               ELSE chan[s]]
      BY <2>4, <3>1, <3>2 DEF publish
    <3> QED BY <2>4, <3>1, <3>3 DEF F!Tell, handlerVars
  <2>5. ASSUME NEW l \in Listen, PublishAdd(l) PROVE F!Next
    <3>1. publish("add", l) /\ UNCHANGED handlerVars
      BY <2>5 DEF PublishAdd
    <3>2. F!Appear(l)
      BY <2>4, <2>5, <3>1, ReportedStep DEF F!Appear
    <3> QED BY <3>2 DEF F!Next
  <2>6. ASSUME NEW l \in Listen, PublishRemove(l) PROVE F!Next
    <3>1. publish("remove", l) /\ UNCHANGED handlerVars
      BY <2>6 DEF PublishRemove
    <3>2. F!Vanish(l)
      BY <2>4, <2>6, <3>1, ReportedStep DEF F!Vanish
    <3> QED BY <3>2 DEF F!Next
  <2>7. ASSUME NEW s \in Sub, handleWatch(s) PROVE F!Next
    <3>1. Reported' = Reported
      BY <2>7 DEF handleWatch, Subscribe, SendSnapshot, SendSync, SendEvent, ChannelClosed,
         Disconnect, Cancel, Reported, scanVars
    <3>2. CASE Subscribe(s)
      <4>1. Reported = current
        BY <3>2 DEF Subscribe, MutexFree, Reported
      <4>2. F!Connect(s)
        BY <3>1, <3>2, <4>1 DEF Subscribe, F!Connect
      <4> QED BY <4>2 DEF F!Next
    <3>3. ASSUME NEW l \in Listen, SendSnapshot(s, l) PROVE F!Next
      <4>1. F!SendRest(s, l)
        BY <3>1, <3>3 DEF SendSnapshot, F!SendRest
      <4> QED BY <4>1 DEF F!Next
    <3>4. CASE SendSync(s)
      BY <3>1, <3>4 DEF SendSync, F!Sync, F!Next
    <3>5. CASE SendEvent(s)
      BY <3>1, <3>5 DEF SendEvent, F!SendChange, F!Next
    <3>6. CASE ChannelClosed(s) \/ Disconnect(s)
      BY <3>1, <3>6 DEF ChannelClosed, Disconnect, F!End, F!Next
    <3>7. CASE Cancel(s)
      BY <3>1, <3>7 DEF Cancel, F!Forget, F!Next
    <3> QED BY <2>7, <3>2, <3>3, <3>4, <3>5, <3>6, <3>7 DEF handleWatch
  <2>8. CASE UNCHANGED vars
    BY <2>1, <2>8 DEF vars, scanVars, handlerVars, Reported
  <2> QED BY <2>2, <2>3, <2>5, <2>6, <2>7, <2>8 DEF Next, scanOnce
<1> QED BY <1>1, <1>2, TypeCorrect, StreamInvariant, PTL DEF SafetySpec, FeedImplemented, F!Spec
=============================================================================
