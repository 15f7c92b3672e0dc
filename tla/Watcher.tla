------------------------------ MODULE Watcher ------------------------------
(***************************************************************************)
(* The listen registry of one container (internal/lo/watcher.go), with     *)
(* everything that touches it: the /proc/net scanner, the /watch handlers  *)
(* that subscribe to it (server.go), and the local proxies that exclude    *)
(* listens from it (proxy.go).                                             *)
(*                                                                         *)
(* Threads.  One scanner goroutine runs scanOnce in a loop; one goroutine  *)
(* per /watch client runs handleWatch; one goroutine per peer (its         *)
(* peerManager) starts and closes proxies, one at a time.  They share the  *)
(* Watcher under its mutex.  The scanner reads /proc/net BEFORE it takes   *)
(* the mutex, and holds the mutex while it publishes: that is the only     *)
(* critical section made of several steps here, so the mutex is held       *)
(* exactly when scanPC = "publishing".  Receiving from a channel needs no  *)
(* mutex.                                                                  *)
(***************************************************************************)
EXTENDS Naturals, Sequences, FiniteSets

CONSTANTS
  Listen,   \* the loopback or wildcard listens (stack, proto, addr, port)
  Peer,     \* the peers whose listens are proxied in this container
  Sub,      \* the clients that may be connected to /watch
  BufSize   \* capacity of a subscriber's channel (subscriberBuffer, 256)

ASSUME BufSizeAssumption == BufSize \in Nat \ {0}
ASSUME PeerAssumption == IsFiniteSet(Peer)

VARIABLES
  own,       \* listens that the container's own processes hold open
  px,        \* px[p][l]: where the proxy of peer p for listen l is in its life
  current,   \* Watcher.current
  excluded,  \* Watcher.excluded, an absent key being 0
  subs,      \* Watcher.subs: the clients whose channel is registered and open
  chan,      \* the events buffered in each client's channel
  scanPC,    \* where scanOnce is
  toRead,    \* the rows of /proc/net that this scan has still to read
  raw,       \* the listens this scan has found
  next,      \* scanOnce's local next
  adds,      \* the adds that scanOnce has still to publish
  removes,   \* the removes that scanOnce has still to publish
  hpc,       \* where each client's handleWatch is
  snap,      \* the part of its snapshot that a handler has still to send
  view       \* the listens a client has been told of and not yet untold

scanVars == <<scanPC, toRead, raw, next, adds, removes>>
handlerVars == <<hpc, snap, view>>
vars == <<own, px, current, excluded, subs, chan, scanVars, handlerVars>>

Event == [op : {"add", "remove"}, listen : Listen]

(* "none": no proxy.  "excluded": StartProxy has called Exclude and has    *)
(* still to bind.  "bound": the proxy listens.  "closing": the listener is *)
(* closed (or was never bound) and Unexclude has still to be called.       *)
ProxyState == {"none", "excluded", "bound", "closing"}

(* The type of the state; a channel never holds more than its capacity.    *)
TypeOK ==
  /\ own \in SUBSET Listen
  /\ px \in [Peer -> [Listen -> ProxyState]]
  /\ current \in SUBSET Listen
  /\ excluded \in [Listen -> Nat]
  /\ subs \in SUBSET Sub
  /\ chan \in [Sub -> Seq(Event)]
  /\ \A s \in Sub : Len(chan[s]) <= BufSize
  /\ scanPC \in {"idle", "reading", "publishing"}
  /\ toRead \in SUBSET Listen
  /\ raw \in SUBSET Listen
  /\ next \in SUBSET Listen
  /\ adds \in SUBSET Listen
  /\ removes \in SUBSET Listen
  /\ hpc \in [Sub -> {"off", "snapshot", "stream", "ending"}]
  /\ snap \in [Sub -> SUBSET Listen]
  /\ view \in [Sub -> SUBSET Listen]

Init ==
  /\ own \in SUBSET Listen
  /\ px = [p \in Peer |-> [l \in Listen |-> "none"]]
  /\ current = {}
  /\ excluded = [l \in Listen |-> 0]
  /\ subs = {}
  /\ chan = [s \in Sub |-> <<>>]
  /\ scanPC = "idle"
  /\ toRead = {} /\ raw = {}
  /\ next = {} /\ adds = {} /\ removes = {}
  /\ hpc = [s \in Sub |-> "off"]
  /\ snap = [s \in Sub |-> {}]
  /\ view = [s \in Sub |-> {}]

MutexFree == scanPC # "publishing"

ProxiedHere(l) == \E p \in Peer : px[p][l] = "bound"

(* Two sockets never listen on the same address: the second bind fails.    *)
AddrInUse(l) == l \in own \/ ProxiedHere(l)

(* A peerManager runs one StartProxy or Close at a time.                   *)
ManagerIdle(p) == \A l \in Listen : px[p][l] \in {"none", "bound"}

----------------------------------------------------------------------------
(* The container's own processes.                                          *)

OwnOpen(l) ==
  /\ ~AddrInUse(l)
  /\ own' = own \cup {l}
  /\ UNCHANGED <<px, current, excluded, subs, chan, scanVars, handlerVars>>

OwnClose(l) ==
  /\ l \in own
  /\ own' = own \ {l}
  /\ UNCHANGED <<px, current, excluded, subs, chan, scanVars, handlerVars>>

----------------------------------------------------------------------------
(* Proxies.  StartProxy: Exclude, then bind; if the bind fails, Unexclude. *)
(* Close: close the listener, then Unexclude.                              *)

Exclude(l) == excluded' = [excluded EXCEPT ![l] = @ + 1]

(* Mutant of Unexclude: the count is ignored, the first call clears it.    *)
UnexcludeClears(l) == excluded' = [excluded EXCEPT ![l] = 0]

Unexclude(l) == excluded' = [excluded EXCEPT ![l] = IF @ <= 1 THEN 0 ELSE @ - 1]

SetProxy(p, l, from, to) ==
  /\ px[p][l] = from
  /\ px' = [px EXCEPT ![p][l] = to]

StartProxy(p, l) ==
  /\ MutexFree
  /\ ManagerIdle(p)
  /\ SetProxy(p, l, "none", "excluded")
  /\ Exclude(l)
  /\ UNCHANGED <<own, current, subs, chan, scanVars, handlerVars>>

Bind(p, l) ==
  /\ ~AddrInUse(l)
  /\ SetProxy(p, l, "excluded", "bound")
  /\ UNCHANGED <<own, current, excluded, subs, chan, scanVars, handlerVars>>

(* Mutant of BindFail: the fail path returns without Unexclude.            *)
BindFailLeaks(p, l) ==
  /\ AddrInUse(l)
  /\ SetProxy(p, l, "excluded", "none")
  /\ UNCHANGED <<own, current, excluded, subs, chan, scanVars, handlerVars>>

(* EADDRINUSE; other bind errors are not modelled separately.              *)
BindFail(p, l) ==
  /\ AddrInUse(l)
  /\ SetProxy(p, l, "excluded", "closing")
  /\ UNCHANGED <<own, current, excluded, subs, chan, scanVars, handlerVars>>

CloseListener(p, l) ==
  /\ ManagerIdle(p)
  /\ SetProxy(p, l, "bound", "closing")
  /\ UNCHANGED <<own, current, excluded, subs, chan, scanVars, handlerVars>>

FinishClose(p, l) ==
  /\ MutexFree
  /\ SetProxy(p, l, "closing", "none")
  /\ Unexclude(l)
  /\ UNCHANGED <<own, current, subs, chan, scanVars, handlerVars>>

----------------------------------------------------------------------------
(* scanOnce.  The kernel tables are read row by row while sockets open and *)
(* close; any interleaving of row reads is possible.                       *)

ScanStart ==
  /\ scanPC = "idle"
  /\ scanPC' = "reading"
  /\ toRead' = Listen
  /\ UNCHANGED <<own, px, current, excluded, subs, chan, raw, next, adds, removes,
                 handlerVars>>

ScanRow(l) ==
  /\ scanPC = "reading"
  /\ l \in toRead
  /\ toRead' = toRead \ {l}
  /\ raw' = IF AddrInUse(l) THEN raw \cup {l} ELSE raw
  /\ UNCHANGED <<own, px, current, excluded, subs, chan, scanPC, next, adds, removes,
                 handlerVars>>

(* A table cannot be read: the scan is abandoned and retried later.        *)
ScanError ==
  /\ scanPC = "reading"
  /\ toRead # {}
  /\ scanPC' = "idle"
  /\ toRead' = {} /\ raw' = {}
  /\ UNCHANGED <<own, px, current, excluded, subs, chan, next, adds, removes, handlerVars>>

(* Mutant of ScanLock: excluded listens are not filtered out.              *)
ScanLockUnfiltered ==
  /\ scanPC = "reading"
  /\ toRead = {}
  /\ scanPC' = "publishing"
  /\ next' = raw
  /\ adds' = next' \ current
  /\ removes' = current \ next'
  /\ UNCHANGED <<own, px, current, excluded, subs, chan, toRead, raw, handlerVars>>

ScanLock ==
  /\ scanPC = "reading"
  /\ toRead = {}
  /\ scanPC' = "publishing"
  /\ next' = {l \in raw : excluded[l] = 0}
  /\ adds' = next' \ current
  /\ removes' = current \ next'
  /\ UNCHANGED <<own, px, current, excluded, subs, chan, toRead, raw, handlerVars>>

(* publish: a client whose channel is full is dropped, its channel closed. *)
Fits(s) == Len(chan[s]) < BufSize

(* Mutants of publish: the channel is not bounded; a full channel loses    *)
(* the event and its subscriber is kept.                                   *)
publishUnbounded(op, l) ==
  /\ chan' = [s \in Sub |-> IF s \in subs THEN Append(chan[s], [op |-> op, listen |-> l])
                                          ELSE chan[s]]
  /\ subs' = subs

publishLossy(op, l) ==
  /\ chan' = [s \in Sub |-> IF s \in subs /\ Fits(s)
                            THEN Append(chan[s], [op |-> op, listen |-> l])
                            ELSE chan[s]]
  /\ subs' = subs

publish(op, l) ==
  /\ chan' = [s \in Sub |-> IF s \in subs /\ Fits(s)
                            THEN Append(chan[s], [op |-> op, listen |-> l])
                            ELSE chan[s]]
  /\ subs' = {s \in subs : Fits(s)}

PublishAdd(l) ==
  /\ scanPC = "publishing"
  /\ l \in adds
  /\ adds' = adds \ {l}
  /\ publish("add", l)
  /\ UNCHANGED <<own, px, current, excluded, scanPC, toRead, raw, next, removes,
                 handlerVars>>

(* Mutant of PublishRemove: the remove is recorded but not published.      *)
PublishRemoveSilent(l) ==
  /\ scanPC = "publishing"
  /\ adds = {}
  /\ l \in removes
  /\ removes' = removes \ {l}
  /\ UNCHANGED <<own, px, current, excluded, subs, chan, scanPC, toRead, raw, next,
                 adds, handlerVars>>

PublishRemove(l) ==
  /\ scanPC = "publishing"
  /\ adds = {}
  /\ l \in removes
  /\ removes' = removes \ {l}
  /\ publish("remove", l)
  /\ UNCHANGED <<own, px, current, excluded, scanPC, toRead, raw, next, adds,
                 handlerVars>>

(* Mutant of ScanDone: current only ever grows.                            *)
ScanDoneMerges ==
  /\ scanPC = "publishing"
  /\ adds = {} /\ removes = {}
  /\ scanPC' = "idle"
  /\ current' = current \cup next
  /\ raw' = {} /\ next' = {}
  /\ UNCHANGED <<own, px, excluded, subs, chan, toRead, adds, removes, handlerVars>>

ScanDone ==
  /\ scanPC = "publishing"
  /\ adds = {} /\ removes = {}
  /\ scanPC' = "idle"
  /\ current' = next
  /\ raw' = {} /\ next' = {}
  /\ UNCHANGED <<own, px, excluded, subs, chan, toRead, adds, removes, handlerVars>>

----------------------------------------------------------------------------
(* handleWatch.  The client's stream delivers in order what was encoded to *)
(* it, so view is what the client has received or is bound to receive      *)
(* unless its connection breaks.                                           *)

(* Mutant of Subscribe: it does not take the mutex.                        *)
SubscribeUnlocked(s) ==
  /\ hpc[s] = "off"
  /\ hpc' = [hpc EXCEPT ![s] = "snapshot"]
  /\ snap' = [snap EXCEPT ![s] = current]
  /\ view' = [view EXCEPT ![s] = {}]
  /\ chan' = [chan EXCEPT ![s] = <<>>]
  /\ subs' = subs \cup {s}
  /\ UNCHANGED <<own, px, current, excluded, scanVars>>

Subscribe(s) ==
  /\ MutexFree
  /\ hpc[s] = "off"
  /\ hpc' = [hpc EXCEPT ![s] = "snapshot"]
  /\ snap' = [snap EXCEPT ![s] = current]
  /\ view' = [view EXCEPT ![s] = {}]
  /\ chan' = [chan EXCEPT ![s] = <<>>]
  /\ subs' = subs \cup {s}
  /\ UNCHANGED <<own, px, current, excluded, scanVars>>

SendSnapshot(s, l) ==
  /\ hpc[s] = "snapshot"
  /\ l \in snap[s]
  /\ snap' = [snap EXCEPT ![s] = @ \ {l}]
  /\ view' = [view EXCEPT ![s] = @ \cup {l}]
  /\ UNCHANGED <<own, px, current, excluded, subs, chan, scanVars, hpc>>

SendSync(s) ==
  /\ hpc[s] = "snapshot"
  /\ snap[s] = {}
  /\ hpc' = [hpc EXCEPT ![s] = "stream"]
  /\ UNCHANGED <<own, px, current, excluded, subs, chan, scanVars, snap, view>>

SendEvent(s) ==
  /\ hpc[s] = "stream"
  /\ chan[s] # <<>>
  /\ LET ev == Head(chan[s]) IN
       view' = [view EXCEPT ![s] = IF ev.op = "add" THEN @ \cup {ev.listen}
                                                    ELSE @ \ {ev.listen}]
  /\ chan' = [chan EXCEPT ![s] = Tail(@)]
  /\ UNCHANGED <<own, px, current, excluded, subs, scanVars, hpc, snap>>

(* The channel was closed by publish; what it buffered has been sent.      *)
ChannelClosed(s) ==
  /\ hpc[s] = "stream"
  /\ chan[s] = <<>>
  /\ s \notin subs
  /\ hpc' = [hpc EXCEPT ![s] = "ending"]
  /\ UNCHANGED <<own, px, current, excluded, subs, chan, scanVars, snap, view>>

(* An Encode fails, or the request's context is done.                      *)
Disconnect(s) ==
  /\ hpc[s] \in {"snapshot", "stream"}
  /\ hpc' = [hpc EXCEPT ![s] = "ending"]
  /\ UNCHANGED <<own, px, current, excluded, subs, chan, scanVars, snap, view>>

Cancel(s) ==
  /\ MutexFree
  /\ hpc[s] = "ending"
  /\ hpc' = [hpc EXCEPT ![s] = "off"]
  /\ subs' = subs \ {s}
  /\ chan' = [chan EXCEPT ![s] = <<>>]
  /\ UNCHANGED <<own, px, current, excluded, scanVars, snap, view>>

----------------------------------------------------------------------------

Environment == \E l \in Listen : OwnOpen(l) \/ OwnClose(l)

Proxying(p, l) ==
  \/ StartProxy(p, l) \/ Bind(p, l) \/ BindFail(p, l)
  \/ CloseListener(p, l) \/ FinishClose(p, l)

scanOnce ==
  \/ ScanStart \/ ScanError \/ ScanLock \/ ScanDone
  \/ \E l \in Listen : ScanRow(l) \/ PublishAdd(l) \/ PublishRemove(l)

handleWatch(s) ==
  \/ Subscribe(s) \/ SendSync(s) \/ SendEvent(s)
  \/ ChannelClosed(s) \/ Disconnect(s) \/ Cancel(s)
  \/ \E l \in Listen : SendSnapshot(s, l)

Next ==
  \/ Environment
  \/ \E p \in Peer, l \in Listen : Proxying(p, l)
  \/ scanOnce
  \/ \E s \in Sub : handleWatch(s)

(* The goroutines run and a blocked Go mutex is granted eventually (strong *)
(* fairness for what waits on it).  Nothing is assumed of the container's  *)
(* processes, of which proxies are started or closed, of clients coming or *)
(* leaving, or of /proc/net being readable.                                *)
Fairness ==
  /\ WF_vars(ScanStart) /\ WF_vars(ScanLock) /\ WF_vars(ScanDone)
  /\ \A l \in Listen : WF_vars(ScanRow(l)) /\ WF_vars(PublishAdd(l)) /\ WF_vars(PublishRemove(l))
  /\ \A p \in Peer, l \in Listen :
       WF_vars(Bind(p, l) \/ BindFail(p, l)) /\ SF_vars(FinishClose(p, l))
  /\ \A s \in Sub :
       /\ WF_vars(SendSync(s)) /\ WF_vars(SendEvent(s)) /\ WF_vars(ChannelClosed(s))
       /\ SF_vars(Cancel(s))
       /\ \A l \in Listen : WF_vars(SendSnapshot(s, l))

SafetySpec == Init /\ [][Next]_vars
Spec == SafetySpec /\ Fairness

----------------------------------------------------------------------------
(* Safety.                                                                 *)

(* The reference count of a listen is the number of proxies that are       *)
(* somewhere between their Exclude and their Unexclude: failed binds and   *)
(* overlapping proxies of two peers for the same listen neither leak a     *)
(* count (the listen would be hidden for ever) nor drop one early (a live  *)
(* proxy would be advertised).                                             *)
RefBalanced ==
  \A l \in Listen : excluded[l] = Cardinality({p \in Peer : px[p][l] # "none"})

(* Whatever scanOnce publishes or records as listening has no proxy at all *)
(* at that moment, although the sockets were read before the mutex was     *)
(* taken and proxies bind and close without it.                            *)
NeverAdvertisesLiveProxy ==
  scanPC = "publishing" => \A l \in next, p \in Peer : px[p][l] = "none"

(* Both: what is hidden is exactly what proxies hold, at every moment.     *)
ProxiesHidden == RefBalanced /\ NeverAdvertisesLiveProxy

(* What the Watcher has told its subscribers so far. *)
Reported == IF scanPC = "publishing" THEN (next \ adds) \cup removes ELSE current

(* Whether a client that knows the listens base, and then receives the     *)
(* first n events of q, takes l to be listening: the last event about l    *)
(* decides.                                                                *)
Believes(base, q, n, l) ==
  \/ \E i \in 1..n : /\ q[i] = [op |-> "add", listen |-> l]
                     /\ \A j \in (i+1)..n : q[j].listen # l
  \/ l \in base /\ \A j \in 1..n : q[j].listen # l

Known(s) == snap[s] \cup view[s]

(* No event is lost or doubled between the snapshot and the channel: a     *)
(* registered subscriber, once it has drained its channel, believes        *)
(* exactly what the Watcher has reported, also in the middle of a scan.    *)
NoLostEvent ==
  \A s \in subs, l \in Listen :
     l \in Reported <=> Believes(Known(s), chan[s], Len(chan[s]), l)

(* Every event changes what its receiver believes: no "add" of a listen    *)
(* already added, no "remove" of one already removed.  Clients that count  *)
(* (the port counts of client/watcher.go) rely on it, and it holds up to   *)
(* the last event also for a subscriber that has been dropped.             *)
EveryEventCounts ==
  \A s \in Sub : hpc[s] # "off" =>
     \A i \in 1..Len(chan[s]) :
        (chan[s][i].op = "add") <=> ~Believes(Known(s), chan[s], i-1, chan[s][i].listen)

(* Both: at every moment, and event by event, what a client has received,  *)
(* has waiting for it and still gets of its snapshot is what is reported.  *)
StreamExact == NoLostEvent /\ EveryEventCounts

(* The registry with its scanner, mutex, exclusions and bounded channels   *)
(* is a Feed: the scan publishes its differences one by one while the      *)
(* mutex is held, and to the clients each is a change of what is reported. *)
F == INSTANCE Feed WITH listens <- Reported, fed <- subs, stage <- hpc,
                        rest <- snap, queue <- chan, seen <- view

FeedImplemented == F!Spec

----------------------------------------------------------------------------
(* Liveness.  ScansSucceed: /proc/net is not unreadable for ever.          *)

ScansSucceed == []<><<ScanLock>>_vars

NoProxyActive(l) == \A p \in Peer : px[p][l] \in {"none", "closing"}

(* A listen that stays open is in the view of every client that stays      *)
(* connected, once no proxy attempt for it is left: a failed proxy never   *)
(* hides it for good.                                                      *)
OwnListenReported ==
  ScansSucceed => \A s \in Sub, l \in Listen :
     <>[](hpc[s] = "stream" /\ l \in own /\ NoProxyActive(l)) => <>[](l \in view[s])

(* A listen that stays closed leaves the view of every such client.        *)
ClosedListenWithdrawn ==
  ScansSucceed => \A s \in Sub, l \in Listen :
     <>[](hpc[s] = "stream" /\ l \notin own /\ NoProxyActive(l)) => <>[](l \notin view[s])

(* A listen that stays proxied for a peer leaves the view of every such    *)
(* client, whatever was reported before the proxy was started.             *)
ProxyStaysHidden ==
  ScansSucceed => \A s \in Sub, l \in Listen :
     <>[](hpc[s] = "stream" /\ ProxiedHere(l)) => <>[](l \notin view[s])

(* What clients believe follows what is there, in all three cases.         *)
ViewConverges == OwnListenReported /\ ClosedListenWithdrawn /\ ProxyStaysHidden

----------------------------------------------------------------------------
(* package.go:41-44 says that a listen a container only has because it is  *)
(* proxying for a peer is never re-advertised: what its own processes      *)
(* never hold is never reported to a client.                               *)
NeverReadvertised ==
  \A l \in Listen, s \in Sub : [](l \notin own) => [](l \notin view[s])
=============================================================================
