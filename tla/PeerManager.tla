---------------------------- MODULE PeerManager ----------------------------
(***************************************************************************)
(* The consuming side of loopback sharing in one container: discovery      *)
(* (internal/lo/discovery.go) starts one peerManager (peer.go) per peer    *)
(* socket, and a peerManager keeps a proxy per listen its peer reports.    *)
(*                                                                         *)
(* Threads: discovery, and one goroutine per peerManager.  Managers share  *)
(* the addresses of the container: binding one fails while a proxy of      *)
(* another manager, or a process of the container, holds it.  A manager    *)
(* that was cancelled may still hold proxies when discovery starts the     *)
(* next manager of the same peer.                                          *)
(*                                                                         *)
(* A stream is what Watcher promises: adds for the snapshot, a sync, then  *)
(* events that each change the set of listens.  Exclude and Unexclude, the *)
(* other half of StartProxy and Close, are in Watcher.  The context given  *)
(* to runDiscovery is never done (main.go), and its reaction to that is    *)
(* left out.                                                               *)
(***************************************************************************)
EXTENDS SequencesExt

CONSTANTS
  Peer,       \* the socket names of other containers
  Listen,     \* the listens they may report
  M,          \* slots for peerManagers
  MaxStream   \* bound on the events in flight on one stream

NoOne == "noone"
NoPeer == "nopeer"

ASSUME MAssumption == NoOne \notin M
ASSUME PeerAssumption == NoPeer \notin Peer
ASSUME ListenAssumption == IsFiniteSet(Listen)

VARIABLES
  socket,     \* the peers whose socket is in the directory
  up,         \* the peers that listen on it
  listens,    \* what each peer's Watcher reports
  own,        \* the listens held by the container's own processes
  bound,      \* the manager whose proxy is bound to each address, if any
  peers,      \* discovery.peers: the manager of each known peer
  mpc,        \* where each manager is
  mpeer,      \* its peer, while it runs
  cancelled,  \* the managers whose context is done
  q,          \* the stream from the peer
  severed,    \* the managers whose peer went down: q gets no more
  seen,       \* watchOnce's seen
  synced,     \* watchOnce's synced
  proxies,    \* peerManager.proxies
  toClose,    \* the proxies that reconcile or stopAll has still to close
  heard       \* history: the listens this connection has reported so far

managerVars == <<mpc, mpeer, cancelled, q, severed, seen, synced, proxies, toClose, heard>>
envVars == <<socket, up, listens, own>>
vars == <<envVars, bound, peers, managerVars>>

Item == [op : {"add", "remove"}, listen : Listen] \cup [op : {"sync"}]

(* The type of the state.                                                  *)
TypeOK ==
  /\ socket \in SUBSET Peer /\ up \in SUBSET socket
  /\ listens \in [Peer -> SUBSET Listen]
  /\ own \in SUBSET Listen
  /\ bound \in [Listen -> M \cup {NoOne}]
  /\ peers \in [Peer -> M \cup {NoOne}]
  /\ mpc \in [M -> {"free", "dial", "stream", "reconcile", "wait", "stopping"}]
  /\ mpeer \in [M -> Peer \cup {NoPeer}]
  /\ cancelled \in SUBSET M /\ severed \in SUBSET M
  /\ q \in [M -> Seq(Item)]
  /\ seen \in [M -> SUBSET Listen] /\ heard \in [M -> SUBSET Listen]
  /\ synced \in [M -> BOOLEAN]
  /\ proxies \in [M -> SUBSET Listen] /\ toClose \in [M -> SUBSET Listen]

Init ==
  /\ socket \in SUBSET Peer /\ up = socket
  /\ listens \in [Peer -> SUBSET Listen]
  /\ own \in SUBSET Listen
  /\ bound = [l \in Listen |-> NoOne]
  /\ peers = [p \in Peer |-> NoOne]
  /\ mpc = [m \in M |-> "free"]
  /\ mpeer = [m \in M |-> NoPeer]
  /\ cancelled = {} /\ severed = {}
  /\ q = [m \in M |-> <<>>]
  /\ seen = [m \in M |-> {}] /\ heard = [m \in M |-> {}]
  /\ synced = [m \in M |-> FALSE]
  /\ proxies = [m \in M |-> {}] /\ toClose = [m \in M |-> {}]

Live(m) == mpc[m] # "free"
Connected(m) == mpc[m] \in {"stream", "reconcile"} /\ m \notin severed /\ m \notin cancelled
Free(l) == l \notin own /\ bound[l] = NoOne

----------------------------------------------------------------------------
(* The peers, and the container's own processes.                           *)

HasRoom(p) == \A m \in M : mpeer[m] = p /\ Connected(m) => Len(q[m]) < MaxStream
Tell(p, item) ==
  [m \in M |-> IF mpeer[m] = p /\ Connected(m) THEN Append(q[m], item) ELSE q[m]]

ListenAdd(p, l) ==
  /\ l \notin listens[p] /\ HasRoom(p)
  /\ listens' = [listens EXCEPT ![p] = @ \cup {l}]
  /\ q' = Tell(p, [op |-> "add", listen |-> l])
  /\ UNCHANGED <<socket, up, own, bound, peers, mpc, mpeer, cancelled, severed, seen, synced, proxies,
                 toClose, heard>>

ListenRemove(p, l) ==
  /\ l \in listens[p] /\ HasRoom(p)
  /\ listens' = [listens EXCEPT ![p] = @ \ {l}]
  /\ q' = Tell(p, [op |-> "remove", listen |-> l])
  /\ UNCHANGED <<socket, up, own, bound, peers, mpc, mpeer, cancelled, severed, seen, synced, proxies,
                 toClose, heard>>

(* A peer goes down: its connections break, and its socket stays behind.   *)
PeerDown(p) ==
  /\ p \in up
  /\ up' = up \ {p}
  /\ severed' = severed \cup {m \in M : mpeer[m] = p /\ Connected(m)}
  /\ UNCHANGED <<socket, listens, own, bound, peers, mpc, mpeer, cancelled, q, seen, synced, proxies,
                 toClose, heard>>

(* RunDir of a peer that boots: it removes the socket of its previous boot *)
(* and then listens on a new one.  Discovery may look in between.          *)
RemoveStale(p) ==
  /\ p \in socket \ up
  /\ socket' = socket \ {p}
  /\ UNCHANGED <<up, listens, own, bound, peers, managerVars>>

PeerUp(p) ==
  /\ p \notin socket
  /\ socket' = socket \cup {p}
  /\ up' = up \cup {p}
  /\ UNCHANGED <<listens, own, bound, peers, managerVars>>

OwnOpen(l) ==
  /\ Free(l)
  /\ own' = own \cup {l}
  /\ UNCHANGED <<socket, up, listens, bound, peers, managerVars>>

OwnClose(l) ==
  /\ l \in own
  /\ own' = own \ {l}
  /\ UNCHANGED <<socket, up, listens, bound, peers, managerVars>>

----------------------------------------------------------------------------
(* peerManager.run and watchOnce.                                          *)

(* The peer sends its snapshot, in any order, and the sync.                *)
Dial(m) ==
  /\ mpc[m] = "dial" /\ m \notin cancelled
  /\ mpeer[m] \in up
  /\ mpc' = [mpc EXCEPT ![m] = "stream"]
  /\ \E order \in SetToSeqs(listens[mpeer[m]]) :
       q' = [q EXCEPT ![m] = [i \in 1..Len(order) |-> [op |-> "add", listen |-> order[i]]]
                             \o <<[op |-> "sync"]>>]
  /\ UNCHANGED <<envVars, bound, peers, mpeer, cancelled, severed, seen, synced, proxies, toClose,
                 heard>>

(* Mutant of WatchEnds: synced and seen outlive the connection.            *)
WatchEndsKeepsSynced(m) ==
  /\ mpc[m] \in {"dial", "stream"}
  /\ mpc' = [mpc EXCEPT ![m] = "wait"]
  /\ q' = [q EXCEPT ![m] = <<>>]
  /\ severed' = severed \ {m}
  /\ heard' = [heard EXCEPT ![m] = {}]
  /\ UNCHANGED <<envVars, bound, peers, mpeer, cancelled, seen, synced, proxies, toClose>>

(* The connection is refused or breaks, or the context ends it.  The       *)
(* locals of watchOnce go; the proxies stay until the next one's sync.     *)
WatchEnds(m) ==
  /\ mpc[m] \in {"dial", "stream"}
  /\ mpc' = [mpc EXCEPT ![m] = "wait"]
  /\ q' = [q EXCEPT ![m] = <<>>]
  /\ severed' = severed \ {m}
  /\ seen' = [seen EXCEPT ![m] = {}]
  /\ synced' = [synced EXCEPT ![m] = FALSE]
  /\ heard' = [heard EXCEPT ![m] = {}]
  /\ UNCHANGED <<envVars, bound, peers, mpeer, cancelled, proxies, toClose>>

Retry(m) ==
  /\ mpc[m] = "wait" /\ m \notin cancelled
  /\ mpc' = [mpc EXCEPT ![m] = "dial"]
  /\ UNCHANGED <<envVars, bound, peers, mpeer, cancelled, q, severed, seen, synced, proxies, toClose,
                 heard>>

(* Mutant of add: the listener shares an address that a process uses.      *)
addReuses(m, l) ==
  IF l \in proxies[m] \/ bound[l] # NoOne
  THEN UNCHANGED <<proxies, bound>>
  ELSE /\ proxies' = [proxies EXCEPT ![m] = @ \cup {l}]
       /\ bound' = [bound EXCEPT ![l] = m]

(* A listen whose address cannot be bound is given up.                     *)
add(m, l) ==
  IF l \in proxies[m] \/ ~Free(l)
  THEN UNCHANGED <<proxies, bound>>
  ELSE /\ proxies' = [proxies EXCEPT ![m] = @ \cup {l}]
       /\ bound' = [bound EXCEPT ![l] = m]

remove(m, l) ==
  IF l \in proxies[m]
  THEN /\ proxies' = [proxies EXCEPT ![m] = @ \ {l}]
       /\ bound' = [bound EXCEPT ![l] = NoOne]
  ELSE UNCHANGED <<proxies, bound>>

Received(m, op) ==
  /\ mpc[m] = "stream" /\ q[m] # <<>> /\ Head(q[m]).op = op
  /\ q' = [q EXCEPT ![m] = Tail(@)]

ReceiveAdd(m) ==
  /\ Received(m, "add")
  /\ LET l == Head(q[m]).listen IN
       /\ seen' = IF synced[m] THEN seen ELSE [seen EXCEPT ![m] = @ \cup {l}]
       /\ heard' = [heard EXCEPT ![m] = @ \cup {l}]
       /\ add(m, l)
  /\ UNCHANGED <<envVars, peers, mpc, mpeer, cancelled, severed, synced, toClose>>

ReceiveRemove(m) ==
  /\ Received(m, "remove")
  /\ LET l == Head(q[m]).listen IN
       /\ heard' = [heard EXCEPT ![m] = @ \ {l}]
       /\ remove(m, l)
  /\ UNCHANGED <<envVars, peers, mpc, mpeer, cancelled, severed, seen, synced, toClose>>

(* Mutant of ReceiveSync: what an earlier connection left is kept.         *)
ReceiveSyncKeeps(m) ==
  /\ Received(m, "sync")
  /\ synced' = [synced EXCEPT ![m] = TRUE]
  /\ UNCHANGED <<envVars, bound, peers, mpc, mpeer, cancelled, severed, seen, proxies, toClose, heard>>

(* reconcile first lists what is stale, then removes one after the other.  *)
ReceiveSync(m) ==
  /\ Received(m, "sync")
  /\ mpc' = [mpc EXCEPT ![m] = "reconcile"]
  /\ toClose' = [toClose EXCEPT ![m] = proxies[m] \ seen[m]]
  /\ UNCHANGED <<envVars, bound, peers, mpeer, cancelled, severed, seen, synced, proxies, heard>>

Reconcile(m) ==
  /\ mpc[m] = "reconcile"
  /\ IF toClose[m] = {}
     THEN /\ mpc' = [mpc EXCEPT ![m] = "stream"]
          /\ synced' = [synced EXCEPT ![m] = TRUE]
          /\ UNCHANGED <<proxies, bound, toClose>>
     ELSE /\ \E l \in toClose[m] : /\ toClose' = [toClose EXCEPT ![m] = @ \ {l}]
                                   /\ remove(m, l)
          /\ UNCHANGED <<mpc, synced>>
  /\ UNCHANGED <<envVars, peers, mpeer, cancelled, q, severed, seen, heard>>

(* Mutant of stopAll: the map is replaced before it is read.               *)
stopAllForgets(m) ==
  /\ mpc[m] \in {"dial", "wait"} /\ m \in cancelled
  /\ mpc' = [mpc EXCEPT ![m] = "stopping"]
  /\ proxies' = [proxies EXCEPT ![m] = {}]
  /\ UNCHANGED <<envVars, bound, peers, mpeer, cancelled, q, severed, seen, synced, toClose, heard>>

(* stopAll, deferred by run: the map is emptied, then its proxies closed.  *)
stopAll(m) ==
  /\ mpc[m] \in {"dial", "wait"} /\ m \in cancelled
  /\ mpc' = [mpc EXCEPT ![m] = "stopping"]
  /\ proxies' = [proxies EXCEPT ![m] = {}]
  /\ toClose' = [toClose EXCEPT ![m] = proxies[m]]
  /\ UNCHANGED <<envVars, bound, peers, mpeer, cancelled, q, severed, seen, synced, heard>>

(* The goroutine is over when everything is closed, and its slot free.     *)
Stopping(m) ==
  /\ mpc[m] = "stopping"
  /\ IF toClose[m] = {}
     THEN /\ mpc' = [mpc EXCEPT ![m] = "free"]
          /\ mpeer' = [mpeer EXCEPT ![m] = NoPeer]
          /\ cancelled' = cancelled \ {m}
          /\ UNCHANGED <<bound, toClose>>
     ELSE /\ \E l \in toClose[m] : /\ toClose' = [toClose EXCEPT ![m] = @ \ {l}]
                                   /\ bound' = [bound EXCEPT ![l] = NoOne]
          /\ UNCHANGED <<mpc, mpeer, cancelled>>
  /\ UNCHANGED <<envVars, peers, q, severed, seen, synced, proxies, heard>>

----------------------------------------------------------------------------
(* discovery.                                                              *)

Slots(set) ==
  {f \in [set -> {m \in M : ~Live(m)}] : \A p, r \in set : p # r => f[p] # f[r]}

(* Mutant of Scan: a peer that is gone is forgotten but not cancelled.     *)
ScanForgets ==
  LET new == {p \in socket : peers[p] = NoOne}
      gone == {p \in Peer \ socket : peers[p] # NoOne} IN
  /\ new \cup gone # {}
  /\ \E f \in Slots(new) :
       LET started == {f[p] : p \in new} IN
       /\ peers' = [p \in Peer |-> IF p \in new THEN f[p] ELSE IF p \in gone THEN NoOne ELSE peers[p]]
       /\ mpc' = [m \in M |-> IF m \in started THEN "dial" ELSE mpc[m]]
       /\ mpeer' = [m \in M |-> IF m \in started THEN CHOOSE p \in new : f[p] = m ELSE mpeer[m]]
  /\ UNCHANGED <<envVars, bound, cancelled, q, severed, seen, synced, proxies, toClose, heard>>

(* Mutant of Scan: a peer without a socket is cancelled, known or not.     *)
ScanCancelsAll ==
  LET new == {p \in socket : peers[p] = NoOne}
      gone == Peer \ socket IN
  /\ new \cup gone # {}
  /\ \E f \in Slots(new) :
       LET started == {f[p] : p \in new} IN
       /\ peers' = [p \in Peer |-> IF p \in new THEN f[p] ELSE IF p \in gone THEN NoOne ELSE peers[p]]
       /\ mpc' = [m \in M |-> IF m \in started THEN "dial" ELSE mpc[m]]
       /\ mpeer' = [m \in M |-> IF m \in started THEN CHOOSE p \in new : f[p] = m ELSE mpeer[m]]
  /\ cancelled' = cancelled \cup {peers[p] : p \in gone}
  /\ UNCHANGED <<envVars, bound, q, severed, seen, synced, proxies, toClose, heard>>

(* A scan that finds no change does nothing.                               *)
Scan ==
  LET new == {p \in socket : peers[p] = NoOne}
      gone == {p \in Peer \ socket : peers[p] # NoOne} IN
  /\ new \cup gone # {}
  /\ \E f \in Slots(new) :
       LET started == {f[p] : p \in new} IN
       /\ peers' = [p \in Peer |-> IF p \in new THEN f[p] ELSE IF p \in gone THEN NoOne ELSE peers[p]]
       /\ mpc' = [m \in M |-> IF m \in started THEN "dial" ELSE mpc[m]]
       /\ mpeer' = [m \in M |-> IF m \in started THEN CHOOSE p \in new : f[p] = m ELSE mpeer[m]]
  /\ cancelled' = cancelled \cup {peers[p] : p \in gone}
  /\ UNCHANGED <<envVars, bound, q, severed, seen, synced, proxies, toClose, heard>>

----------------------------------------------------------------------------

Environment ==
  \/ \E p \in Peer :
       \/ PeerDown(p) \/ RemoveStale(p) \/ PeerUp(p)
       \/ \E l \in Listen : ListenAdd(p, l) \/ ListenRemove(p, l)
  \/ \E l \in Listen : OwnOpen(l) \/ OwnClose(l)

Manager(m) ==
  \/ Dial(m) \/ WatchEnds(m) \/ Retry(m)
  \/ ReceiveAdd(m) \/ ReceiveRemove(m) \/ ReceiveSync(m) \/ Reconcile(m)
  \/ stopAll(m) \/ Stopping(m)

Next == Environment \/ (\E m \in M : Manager(m)) \/ Scan

(* Goroutines run, the timers of discovery and run fire, and a connection  *)
(* that was severed or whose context is done ends.  A peer that keeps      *)
(* coming back is reached in the end, and of the connections that break,   *)
(* one lasts until its sync, and the events after it, are received.        *)
(* Nothing is assumed of the environment.                                  *)
Fairness ==
  /\ WF_vars(Scan)
  /\ \A m \in M :
       /\ WF_vars(Reconcile(m)) /\ WF_vars(stopAll(m)) /\ WF_vars(Stopping(m)) /\ WF_vars(Retry(m))
       /\ WF_vars((m \in cancelled \cup severed) /\ WatchEnds(m))
       /\ SF_vars(Dial(m))
       /\ SF_vars(ReceiveAdd(m)) /\ SF_vars(ReceiveRemove(m)) /\ SF_vars(ReceiveSync(m))

SafetySpec == Init /\ [][Next]_vars
Spec == SafetySpec /\ Fairness

----------------------------------------------------------------------------
(* Safety.                                                                 *)

(* No listener is leaked and none is shared: an address is bound by the    *)
(* manager that has its proxy, in its map or in the list it is closing,    *)
(* also while a cancelled manager and its successor overlap.               *)
ProxiesAreBound ==
  \A l \in Listen, m \in M : bound[l] = m <=> l \in proxies[m] \cup toClose[m]

(* A proxy never takes an address from a process of the container.         *)
OwnUndisturbed == \A l \in own : bound[l] = NoOne

(* Both: every address has at most one owner, who knows of it.             *)
AddressesOwned == ProxiesAreBound /\ OwnUndisturbed

(* Once a connection's snapshot is reconciled, every proxy is for a listen *)
(* that this connection has reported and not withdrawn: nothing is left    *)
(* over from an earlier connection.                                        *)
NoStaleProxy == \A m \in M : synced[m] /\ mpc[m] = "stream" => proxies[m] \subseteq heard[m]

(* A manager that is not cancelled is the one discovery knows: no peer is  *)
(* watched twice, and no manager runs that nothing can cancel.             *)
ManagersAreKnown ==
  \A m \in M : Live(m) /\ m \notin cancelled => mpeer[m] \in Peer /\ peers[mpeer[m]] = m

----------------------------------------------------------------------------
(* Liveness.                                                               *)

(* When a peer is gone for good, so is every proxy for it.                 *)
GonePeerReleased ==
  \A p \in Peer : <>[](p \notin socket) => <>[](\A m \in M : mpeer[m] # p)

(* A proxy does not outlive for ever the listen it stands for, even when   *)
(* the "remove" was missed.                                                *)
WithdrawnIsClosed ==
  \A p \in Peer, l \in Listen :
    <>[](p \in up /\ l \notin listens[p])
      => []<>(\A m \in M : mpeer[m] = p => l \notin proxies[m])

(* A proxy ends with its listen and with its peer.                         *)
ProxiesEnd == GonePeerReleased /\ WithdrawnIsClosed

(* A listen whose address was taken when it was reported is not tried      *)
(* again on that connection, but it is on each later one: once the address *)
(* is left to it, the next connections get its proxy, and keep it.         *)
RefusedIsRetried ==
  \A p \in Peer, l \in Listen :
    LET OnlyPeerHas == /\ p \in up /\ l \in listens[p] /\ l \notin own
                       /\ \A r \in Peer \ {p} : l \notin listens[r]
        Reconnects == \E m \in M : mpeer[m] = p /\ mpc[m] = "wait"
    IN  <>[]OnlyPeerHas /\ []<>Reconnects => <>[](bound[l] # NoOne)
=============================================================================
