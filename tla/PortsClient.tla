---------------------------- MODULE PortsClient ----------------------------
(***************************************************************************)
(* The Go client library (client/): a PortsClient watches a directory of   *)
(* container sockets, keeps one containerWatcher per socket, and sends its *)
(* consumer batches of "open" and "close" changes.                         *)
(*                                                                         *)
(* Threads: run, the main goroutine; one goroutine per containerWatcher.   *)
(* Watchers hand run their batches through outCh (a bounded channel), and  *)
(* those present at startup their first ports through startupCh.  A        *)
(* watcher that was stopped may still be finishing when the next watcher   *)
(* of the same container is started.                                       *)
(*                                                                         *)
(* The other end of a stream is what Watcher promises: the snapshot and    *)
(* its sync, then events that each change the set of listens.  The consumer*)
(* reads Changes in order, so view is what it believes once it has drained *)
(* the channel; a slow consumer is a run that takes its time to send.      *)
(***************************************************************************)
EXTENDS Naturals, Sequences, FiniteSets

CONSTANTS
  Container,  \* the socket names that may appear in the directory
  Listen,     \* the listens a container may report
  Port,       \* the port keys (stack, port)
  PortOf,     \* the port key of each listen
  W,          \* slots for containerWatchers
  OutBuf,     \* capacity of outCh (outBuf)
  MaxStream,  \* bound on the events in flight on one stream
  MaxHeld     \* bound on the batches held back during startup

ASSUME PortOfAssumption == PortOf \in [Listen -> Port]
ASSUME OutBufAssumption == OutBuf \in Nat \ {0}
ASSUME FiniteAssumption == IsFiniteSet(Listen) /\ IsFiniteSet(Container)

NoWatcher == "nowatcher"
NoContainer == "nocontainer"

VARIABLES
  socket,      \* the containers whose socket is in the directory
  up,          \* the containers that listen on it
  listens,     \* what each container's own Watcher reports
  wpc,         \* where each containerWatcher is
  wcont,       \* its container, while it runs
  cancelled,   \* the watchers that stopContainer has cancelled
  cb,          \* the watchers whose startup callback has not been called
  q,           \* the stream from the container
  severed,     \* the watchers whose container went down: q gets no more
  counts,      \* portCounts
  heard,       \* history: the listens the stream has reported so far
  batch,       \* the batch a watcher is about to emit, if any
  pc,          \* where run is
  known,       \* portsClient.containers
  startupCh,   \* startup results not yet received
  remaining,   \* startup results still expected
  snapshot,    \* the startup snapshot so far
  pendingOut,  \* batches held back until the snapshot is sent
  outCh,       \* batches posted by watchers
  killed,      \* the client's context is done
  view,        \* the ports the consumer has been told are open
  lost,        \* history: containers whose startup result was discarded
  overlapped   \* history: containers restarted before their watcher ended

watcherVars == <<wpc, wcont, cancelled, cb, q, severed, counts, heard, batch>>
runVars == <<pc, known, remaining, snapshot, pendingOut, view, lost, overlapped>>
envVars == <<socket, up, listens>>
vars == <<envVars, watcherVars, runVars, startupCh, outCh, killed>>

Batch == [c : Container, opens : SUBSET Port, closes : SUBSET Port]
Item == [op : {"sync"}, set : SUBSET Listen] \cup [op : {"add", "remove"}, listen : Listen]
NoPorts == [p \in Port |-> 0]
Open(n) == {p \in Port : n[p] > 0}

(* The type of the state; the two channels respect their capacities.       *)
TypeOK ==
  /\ socket \in SUBSET Container /\ up \in SUBSET socket
  /\ listens \in [Container -> SUBSET Listen]
  /\ wpc \in [W -> {"free", "dial", "stream", "emit", "wait", "final"}]
  /\ wcont \in [W -> Container \cup {NoContainer}]
  /\ cancelled \in SUBSET W /\ cb \in SUBSET W /\ severed \in SUBSET W
  /\ q \in [W -> Seq(Item)]
  /\ counts \in [W -> [Port -> Nat]]
  /\ heard \in [W -> SUBSET Listen]
  /\ batch \in [W -> Seq(Batch)]
  /\ pc \in {"scan", "startup", "snap", "flush", "loop", "stopping", "closed"}
  /\ known \in [Container -> W \cup {NoWatcher}]
  /\ startupCh \in SUBSET [w : W, c : Container, ports : SUBSET Port]
  /\ remaining \in 0..Cardinality(Container)
  /\ snapshot \in SUBSET (Container \X Port)
  /\ pendingOut \in Seq(Batch)
  /\ outCh \in Seq(Batch) /\ Len(outCh) <= OutBuf
  /\ killed \in BOOLEAN
  /\ view \in SUBSET (Container \X Port)
  /\ lost \in SUBSET Container /\ overlapped \in SUBSET Container

Init ==
  /\ socket \in SUBSET Container /\ up = socket
  /\ listens \in [Container -> SUBSET Listen]
  /\ wpc = [w \in W |-> "free"]
  /\ wcont = [w \in W |-> NoContainer]
  /\ cancelled = {} /\ cb = {} /\ severed = {}
  /\ q = [w \in W |-> <<>>]
  /\ counts = [w \in W |-> NoPorts]
  /\ heard = [w \in W |-> {}]
  /\ batch = [w \in W |-> <<>>]
  /\ pc = "scan"
  /\ known = [c \in Container |-> NoWatcher]
  /\ startupCh = {}
  /\ remaining = 0
  /\ snapshot = {}
  /\ pendingOut = <<>> /\ outCh = <<>>
  /\ killed = FALSE
  /\ view = {}
  /\ lost = {} /\ overlapped = {}

(* A watcher's context derives from the client's.                          *)
CtxDone(w) == killed \/ w \in cancelled
Live(w) == wpc[w] # "free"

(* net/http reads no more from the connection once the context is done.    *)
Connected(w) == wpc[w] \in {"stream", "emit"} /\ w \notin severed /\ ~CtxDone(w)
Knows(c) == known[c] # NoWatcher
Tell(c, item) == [w \in W |-> IF wcont[w] = c /\ Connected(w) THEN Append(q[w], item) ELSE q[w]]
HasRoom(c) == \A w \in W : wcont[w] = c /\ Connected(w) => Len(q[w]) < MaxStream

----------------------------------------------------------------------------
(* The containers.                                                         *)

ListenAdd(c, l) ==
  /\ l \notin listens[c] /\ HasRoom(c)
  /\ listens' = [listens EXCEPT ![c] = @ \cup {l}]
  /\ q' = Tell(c, [op |-> "add", listen |-> l])
  /\ UNCHANGED <<socket, up, wpc, wcont, cancelled, cb, severed, counts, heard, batch, runVars,
                 startupCh, outCh, killed>>

ListenRemove(c, l) ==
  /\ l \in listens[c] /\ HasRoom(c)
  /\ listens' = [listens EXCEPT ![c] = @ \ {l}]
  /\ q' = Tell(c, [op |-> "remove", listen |-> l])
  /\ UNCHANGED <<socket, up, wpc, wcont, cancelled, cb, severed, counts, heard, batch, runVars,
                 startupCh, outCh, killed>>

(* A container goes down: its connections break, its socket stays behind.  *)
ContainerDown(c) ==
  /\ c \in up
  /\ up' = up \ {c}
  /\ severed' = severed \cup {w \in W : wcont[w] = c /\ Connected(w)}
  /\ UNCHANGED <<socket, listens, wpc, wcont, cancelled, cb, q, counts, heard, batch, runVars,
                 startupCh, outCh, killed>>

(* RunDir of a container that boots removes the socket of its previous     *)
(* boot and then listens on a new one.                                     *)
RemoveStale(c) ==
  /\ c \in socket \ up
  /\ socket' = socket \ {c}
  /\ UNCHANGED <<up, listens, watcherVars, runVars, startupCh, outCh, killed>>

ContainerUp(c) ==
  /\ c \notin socket
  /\ socket' = socket \cup {c}
  /\ up' = up \cup {c}
  /\ UNCHANGED <<listens, watcherVars, runVars, startupCh, outCh, killed>>

----------------------------------------------------------------------------
(* containerWatcher.run and watchOnce.                                     *)

(* The startup callback.  startupCh has room for every result, but once    *)
(* run has left its startup loop nobody receives from it any more.         *)
callback(w, ports) ==
  /\ cb' = cb \ {w}
  /\ startupCh' = IF w \in cb /\ pc = "startup"
                  THEN startupCh \cup {[w |-> w, c |-> wcont[w], ports |-> ports]}
                  ELSE startupCh
  /\ lost' = IF w \in cb /\ pc # "startup" /\ ports # {} THEN lost \cup {wcont[w]} ELSE lost
  /\ UNCHANGED <<pc, known, remaining, snapshot, pendingOut, view, overlapped>>

Dial(w) ==
  /\ wpc[w] = "dial" /\ ~CtxDone(w)
  /\ wcont[w] \in up
  /\ wpc' = [wpc EXCEPT ![w] = "stream"]
  /\ q' = [q EXCEPT ![w] = <<[op |-> "sync", set |-> listens[wcont[w]]]>>]
  /\ UNCHANGED <<envVars, wcont, cancelled, cb, severed, counts, heard, batch, runVars, startupCh, outCh,
                 killed>>

(* The connection is refused, breaks, or is ended by the context: watchOnce*)
(* returns, with the callback called if it has not been.                   *)
WatchEnds(w) ==
  /\ wpc[w] \in {"dial", "stream"}
  /\ wpc' = [wpc EXCEPT ![w] = "wait"]
  /\ q' = [q EXCEPT ![w] = <<>>]
  /\ severed' = severed \ {w}
  /\ callback(w, {})
  /\ UNCHANGED <<envVars, wcont, cancelled, counts, heard, batch, outCh, killed>>

Retry(w) ==
  /\ wpc[w] = "wait" /\ ~CtxDone(w)
  /\ wpc' = [wpc EXCEPT ![w] = "dial"]
  /\ UNCHANGED <<envVars, wcont, cancelled, cb, q, severed, counts, heard, batch, runVars,
                 startupCh, outCh, killed>>

(* w has the changes opens and closes to emit, if there are any.           *)
Emits(w, opens, closes) ==
  IF opens \cup closes = {}
  THEN UNCHANGED <<wpc, batch>>
  ELSE /\ wpc' = [wpc EXCEPT ![w] = "emit"]
       /\ batch' = [batch EXCEPT ![w] = <<[c |-> wcont[w], opens |-> opens, closes |-> closes]>>]

newCounts(set) == [p \in Port |-> Cardinality({l \in set : PortOf[l] = p})]

(* Mutant of ReceiveSync: ports closed while disconnected are not reported.*)
ReceiveSyncOpensOnly(w) ==
  /\ wpc[w] = "stream" /\ q[w] # <<>> /\ Head(q[w]).op = "sync"
  /\ q' = [q EXCEPT ![w] = Tail(@)]
  /\ LET new == newCounts(Head(q[w]).set) IN
       /\ counts' = [counts EXCEPT ![w] = new]
       /\ heard' = [heard EXCEPT ![w] = Head(q[w]).set]
       /\ IF w \in cb
          THEN callback(w, Open(new)) /\ UNCHANGED <<wpc, batch>>
          ELSE /\ Emits(w, Open(new) \ Open(counts[w]), {})
               /\ UNCHANGED <<cb, startupCh, runVars>>
  /\ UNCHANGED <<envVars, wcont, cancelled, severed, outCh, killed>>

(* The snapshot and its sync: handed to run at startup, and otherwise      *)
(* compared with what was open before the reconnection.                    *)
ReceiveSync(w) ==
  /\ wpc[w] = "stream" /\ q[w] # <<>> /\ Head(q[w]).op = "sync"
  /\ q' = [q EXCEPT ![w] = Tail(@)]
  /\ LET new == newCounts(Head(q[w]).set) IN
       /\ counts' = [counts EXCEPT ![w] = new]
       /\ heard' = [heard EXCEPT ![w] = Head(q[w]).set]
       /\ IF w \in cb
          THEN callback(w, Open(new)) /\ UNCHANGED <<wpc, batch>>
          ELSE /\ Emits(w, Open(new) \ Open(counts[w]), Open(counts[w]) \ Open(new))
               /\ UNCHANGED <<cb, startupCh, runVars>>
  /\ UNCHANGED <<envVars, wcont, cancelled, severed, outCh, killed>>

(* Mutant of ReceiveAdd: every add is emitted as an "open".                *)
ReceiveAddAlways(w) ==
  /\ wpc[w] = "stream" /\ q[w] # <<>> /\ Head(q[w]).op = "add"
  /\ q' = [q EXCEPT ![w] = Tail(@)]
  /\ LET l == Head(q[w]).listen IN
       /\ counts' = [counts EXCEPT ![w][PortOf[l]] = @ + 1]
       /\ heard' = [heard EXCEPT ![w] = @ \cup {l}]
       /\ Emits(w, {PortOf[l]}, {})
  /\ UNCHANGED <<envVars, wcont, cancelled, cb, severed, runVars, startupCh, outCh, killed>>

ReceiveAdd(w) ==
  /\ wpc[w] = "stream" /\ q[w] # <<>> /\ Head(q[w]).op = "add"
  /\ q' = [q EXCEPT ![w] = Tail(@)]
  /\ LET l == Head(q[w]).listen IN
       /\ counts' = [counts EXCEPT ![w][PortOf[l]] = @ + 1]
       /\ heard' = [heard EXCEPT ![w] = @ \cup {l}]
       /\ Emits(w, {PortOf[l]} \ Open(counts[w]), {})
  /\ UNCHANGED <<envVars, wcont, cancelled, cb, severed, runVars, startupCh, outCh, killed>>

(* Mutant of ReceiveRemove: the key is deleted whatever its count.         *)
ReceiveRemoveDeletes(w) ==
  /\ wpc[w] = "stream" /\ q[w] # <<>> /\ Head(q[w]).op = "remove"
  /\ q' = [q EXCEPT ![w] = Tail(@)]
  /\ LET l == Head(q[w]).listen IN
       /\ counts' = [counts EXCEPT ![w][PortOf[l]] = 0]
       /\ heard' = [heard EXCEPT ![w] = @ \ {l}]
       /\ Emits(w, {}, {PortOf[l]} \ Open(counts'[w]))
  /\ UNCHANGED <<envVars, wcont, cancelled, cb, severed, runVars, startupCh, outCh, killed>>

ReceiveRemove(w) ==
  /\ wpc[w] = "stream" /\ q[w] # <<>> /\ Head(q[w]).op = "remove"
  /\ q' = [q EXCEPT ![w] = Tail(@)]
  /\ LET l == Head(q[w]).listen IN
       /\ counts' = [counts EXCEPT ![w][PortOf[l]] = IF @ <= 1 THEN 0 ELSE @ - 1]
       /\ heard' = [heard EXCEPT ![w] = @ \ {l}]
       /\ Emits(w, {}, {PortOf[l]} \ Open(counts'[w]))
  /\ UNCHANGED <<envVars, wcont, cancelled, cb, severed, runVars, startupCh, outCh, killed>>

(* The goroutine is over, and its slot free.                               *)
Ended(w) ==
  /\ wpc' = [wpc EXCEPT ![w] = "free"]
  /\ wcont' = [wcont EXCEPT ![w] = NoContainer]
  /\ cancelled' = cancelled \ {w}
  /\ cb' = cb \ {w}

(* The deferred function of run: every port still open is closed.          *)
Finish(w) ==
  /\ wpc[w] \in {"dial", "wait"} /\ CtxDone(w)
  /\ counts' = [counts EXCEPT ![w] = NoPorts]
  /\ heard' = [heard EXCEPT ![w] = {}]
  /\ IF Open(counts[w]) = {}
     THEN Ended(w) /\ UNCHANGED batch
     ELSE /\ wpc' = [wpc EXCEPT ![w] = "final"]
          /\ batch' = [batch EXCEPT ![w] = <<[c |-> wcont[w], opens |-> {}, closes |-> Open(counts[w])]>>]
          /\ UNCHANGED <<wcont, cancelled, cb>>
  /\ UNCHANGED <<envVars, q, severed, runVars, startupCh, outCh, killed>>

(* Mutants of emit: the channel is not bounded; Kill does not unblock it.  *)
emitUnbounded(w) ==
  /\ wpc[w] \in {"emit", "final"}
  /\ outCh' = outCh \o batch[w]
  /\ \/ wpc[w] = "emit" /\ wpc' = [wpc EXCEPT ![w] = "stream"] /\ UNCHANGED <<wcont, cancelled, cb>>
     \/ wpc[w] = "final" /\ Ended(w)
  /\ batch' = [batch EXCEPT ![w] = <<>>]
  /\ UNCHANGED <<envVars, q, severed, counts, heard, runVars, startupCh, killed>>

emitIgnoresKill(w) ==
  /\ wpc[w] \in {"emit", "final"}
  /\ Len(outCh) < OutBuf /\ outCh' = outCh \o batch[w]
  /\ \/ wpc[w] = "emit" /\ wpc' = [wpc EXCEPT ![w] = "stream"] /\ UNCHANGED <<wcont, cancelled, cb>>
     \/ wpc[w] = "final" /\ Ended(w)
  /\ batch' = [batch EXCEPT ![w] = <<>>]
  /\ UNCHANGED <<envVars, q, severed, counts, heard, runVars, startupCh, killed>>

(* emit blocks until outCh has room or the client is killed; a cancelled   *)
(* watcher keeps blocking.                                                 *)
emit(w) ==
  /\ wpc[w] \in {"emit", "final"}
  /\ \/ Len(outCh) < OutBuf /\ outCh' = outCh \o batch[w]
     \/ killed /\ UNCHANGED outCh
  /\ \/ wpc[w] = "emit" /\ wpc' = [wpc EXCEPT ![w] = "stream"] /\ UNCHANGED <<wcont, cancelled, cb>>
     \/ wpc[w] = "final" /\ Ended(w)
  /\ batch' = [batch EXCEPT ![w] = <<>>]
  /\ UNCHANGED <<envVars, q, severed, counts, heard, runVars, startupCh,
                 killed>>

----------------------------------------------------------------------------
(* portsClient.run.                                                        *)

(* startContainer for every container of set, in free slots.               *)
Slots(set) ==
  {f \in [set -> {w \in W : ~Live(w)}] : \A c, d \in set : c # d => f[c] # f[d]}

startContainers(set, f, withCallback) ==
  LET new == {f[c] : c \in set} IN
  /\ wpc' = [w \in W |-> IF w \in new THEN "dial" ELSE wpc[w]]
  /\ wcont' = [w \in W |-> IF w \in new THEN CHOOSE c \in set : f[c] = w ELSE wcont[w]]
  /\ cb' = IF withCallback THEN cb \cup new ELSE cb
  /\ overlapped' = overlapped \cup {c \in set : \E w \in W : Live(w) /\ wcont[w] = c}

ScanDir ==
  /\ pc = "scan"
  /\ \E f \in Slots(socket) :
       /\ startContainers(socket, f, TRUE)
       /\ known' = [c \in Container |-> IF c \in socket THEN f[c] ELSE NoWatcher]
  /\ remaining' = Cardinality(socket)
  /\ pc' = IF socket = {} THEN "snap" ELSE "startup"
  /\ UNCHANGED <<envVars, cancelled, q, severed, counts, heard, batch, snapshot, pendingOut, view,
                 lost, startupCh, outCh, killed>>

StartupReceive(r) ==
  /\ pc = "startup"
  /\ r \in startupCh
  /\ startupCh' = startupCh \ {r}
  /\ snapshot' = snapshot \cup ({r.c} \X r.ports)
  /\ remaining' = remaining - 1
  /\ pc' = IF remaining = 1 THEN "snap" ELSE "startup"
  /\ UNCHANGED <<envVars, watcherVars, known, pendingOut, view, lost, overlapped, outCh, killed>>

StartupHold ==
  /\ pc = "startup"
  /\ outCh # <<>> /\ Len(pendingOut) < MaxHeld
  /\ pendingOut' = Append(pendingOut, Head(outCh))
  /\ outCh' = Tail(outCh)
  /\ UNCHANGED <<envVars, watcherVars, pc, known, remaining, snapshot, view, lost, overlapped,
                 startupCh, killed>>

(* Mutant of Deadline: a break that leaves only the select.                *)
DeadlineBreaks ==
  /\ pc = "startup"
  /\ UNCHANGED vars

(* StartupTimeout: what is left in startupCh is never received.            *)
Deadline ==
  /\ pc = "startup"
  /\ pc' = "snap"
  /\ remaining' = 0
  /\ lost' = lost \cup {r.c : r \in {x \in startupCh : x.ports # {}}}
  /\ startupCh' = {}
  /\ UNCHANGED <<envVars, watcherVars, known, snapshot, pendingOut, view, overlapped, outCh, killed>>

SendSnapshot ==
  /\ pc = "snap"
  /\ pc' = "flush"
  /\ view' = snapshot
  /\ snapshot' = {}
  /\ UNCHANGED <<envVars, watcherVars, known, remaining, pendingOut, lost, overlapped, startupCh,
                 outCh, killed>>

Applied(b) == (view \ ({b.c} \X b.closes)) \cup ({b.c} \X b.opens)

Flush ==
  /\ pc = "flush"
  /\ IF pendingOut = <<>>
     THEN pc' = "loop" /\ UNCHANGED <<view, pendingOut>>
     ELSE /\ view' = Applied(Head(pendingOut))
          /\ pendingOut' = Tail(pendingOut)
          /\ UNCHANGED pc
  /\ UNCHANGED <<envVars, watcherVars, known, remaining, snapshot, lost, overlapped, startupCh,
                 outCh, killed>>

Forward ==
  /\ pc = "loop"
  /\ outCh # <<>>
  /\ view' = Applied(Head(outCh))
  /\ outCh' = Tail(outCh)
  /\ UNCHANGED <<envVars, watcherVars, pc, known, remaining, snapshot, pendingOut, lost, overlapped,
                 startupCh, killed>>

(* scan: start what is new, stop what is gone.  A scan that finds no       *)
(* change does nothing.                                                    *)
Scan ==
  /\ pc = "loop"
  /\ LET new == {c \in socket : ~Knows(c)}
         gone == {c \in Container \ socket : Knows(c)} IN
       /\ new \cup gone # {}
       /\ \E f \in Slots(new) :
            /\ startContainers(new, f, FALSE)
            /\ known' = [c \in Container |-> IF c \in new THEN f[c]
                                             ELSE IF c \in gone THEN NoWatcher ELSE known[c]]
            /\ cancelled' = cancelled \cup {known[c] : c \in gone}
  /\ UNCHANGED <<envVars, q, severed, counts, heard, batch, pc, remaining, snapshot, pendingOut,
                 view, lost, startupCh, outCh, killed>>

Kill ==
  /\ ~killed
  /\ killed' = TRUE
  /\ UNCHANGED <<envVars, watcherVars, runVars, startupCh, outCh>>

Stop ==
  /\ pc \in {"startup", "snap", "flush", "loop"} /\ killed
  /\ pc' = "stopping"
  /\ UNCHANGED <<envVars, watcherVars, known, remaining, snapshot, pendingOut, view, lost,
                 overlapped, startupCh, outCh, killed>>

(* cwg.Wait, then close(changes).                                          *)
Close ==
  /\ pc = "stopping"
  /\ \A w \in W : ~Live(w)
  /\ pc' = "closed"
  /\ UNCHANGED <<envVars, watcherVars, known, remaining, snapshot, pendingOut, view, lost,
                 overlapped, startupCh, outCh, killed>>

----------------------------------------------------------------------------

Environment ==
  \E c \in Container :
    \/ ContainerDown(c) \/ RemoveStale(c) \/ ContainerUp(c)
    \/ \E l \in Listen : ListenAdd(c, l) \/ ListenRemove(c, l)

ContainerWatcher(w) ==
  \/ Dial(w) \/ WatchEnds(w) \/ Retry(w) \/ Finish(w) \/ emit(w)
  \/ ReceiveSync(w) \/ ReceiveAdd(w) \/ ReceiveRemove(w)

Run ==
  \/ ScanDir \/ StartupHold \/ Deadline \/ SendSnapshot \/ Flush \/ Forward \/ Scan
  \/ Stop \/ Close
  \/ \E r \in startupCh : StartupReceive(r)

Next ==
  \/ Environment
  \/ \E w \in W : ContainerWatcher(w)
  \/ Run
  \/ Kill

(* Goroutines run, the startup timer elapses, the consumer reads Changes,  *)
(* and a watcher whose context is done is told so by its connection.       *)
(* Nothing is assumed of the containers, nor of Kill.                      *)
Fairness ==
  /\ WF_vars(ScanDir \/ Deadline \/ SendSnapshot \/ Flush \/ Close)
  /\ WF_vars(Stop)
  /\ \A w \in W :
       /\ WF_vars(emit(w)) /\ WF_vars(Finish(w))
       /\ WF_vars(CtxDone(w) /\ WatchEnds(w))

SafetySpec == Init /\ [][Next]_vars
Spec == SafetySpec /\ Fairness

----------------------------------------------------------------------------
(* Safety.                                                                 *)

(* A watcher counts, for each port, exactly the listens its stream has     *)
(* reported on it: two listens of one port are one open port, and closing  *)
(* one of them does not close it.                                          *)
CountsMatch == \A w \in W : Live(w) /\ wpc[w] # "final" => counts[w] = newCounts(heard[w])

(* What the consumer will have been told once everything under way has     *)
(* been sent: the last batch that mentions a port decides.                 *)
Base == IF pc \in {"scan", "startup", "snap"}
        THEN snapshot \cup UNION {{r.c} \X r.ports : r \in startupCh}
        ELSE view

UnderWay(ws) ==
  pendingOut \o outCh \o (IF \E w \in ws : batch[w] # <<>>
                         THEN batch[CHOOSE w \in ws : batch[w] # <<>>] ELSE <<>>)

Mentions(b, c, p) == b.c = c /\ p \in b.opens \cup b.closes

WillBelieve(ws, c, p) ==
  LET u == UnderWay(ws) IN
  \/ \E i \in 1..Len(u) : /\ u[i].c = c /\ p \in u[i].opens
                          /\ \A j \in (i+1)..Len(u) : ~Mentions(u[j], c, p)
  \/ <<c, p>> \in Base /\ \A j \in 1..Len(u) : ~Mentions(u[j], c, p)

(* A container whose history is regular: its startup result was not thrown *)
(* away, and no two of its watchers overlapped.                            *)
Regular(c) == ~killed /\ c \notin lost /\ c \notin overlapped

(* The consumer is told of every port that opens or closes: what it will   *)
(* believe is what the container's watcher counts as open, across          *)
(* startup, reconnections and races between the two channels; and nothing  *)
(* stays open of a container that has no watcher any more.                 *)
ConsumerInStep ==
  \A c \in Container : Regular(c) =>
    LET ws == {w \in W : Live(w) /\ wcont[w] = c} IN
    \A p \in Port : WillBelieve(ws, c, p) <=> \E w \in ws : p \in Open(counts[w])

(* The next batch the consumer gets is news to it: it opens only ports the *)
(* consumer has closed, and closes only ports it has open.                 *)
ChangesAreNews ==
  LET b == IF pendingOut # <<>> THEN Head(pendingOut) ELSE Head(outCh) IN
  pc \in {"flush", "loop"} /\ pendingOut \o outCh # <<>> /\ Regular(b.c)
    => /\ ({b.c} \X b.opens) \cap view = {}
       /\ {b.c} \X b.closes \subseteq view

----------------------------------------------------------------------------
(* Liveness.                                                               *)

(* A killed client terminates: run, the watchers and the channels between  *)
(* them never wait for each other for ever, whatever is blocked at Kill.   *)
KillTerminates == killed ~> pc = "closed"

(* The first send happens, whatever the containers do.                     *)
SnapshotIsSent == pc \in {"scan", "startup", "snap"} ~> pc \notin {"scan", "startup", "snap"}

----------------------------------------------------------------------------
(* What a comment of client/ says and the code does not keep.              *)

(* Nothing is under way, and every container is watched and up to date.    *)
Quiet ==
  /\ pc = "loop" /\ ~killed /\ outCh = <<>>
  /\ \A w \in W : Live(w) => Connected(w) /\ wpc[w] = "stream" /\ q[w] = <<>>
  /\ \A c \in Container : Knows(c) <=> c \in socket
  /\ \A w, x \in W : Live(w) /\ Live(x) /\ wcont[w] = wcont[x] => w = x

ViewIsRight ==
  view = UNION {{c} \X {PortOf[l] : l \in listens[c]} : c \in socket}

(* client.go:90-95: ports of a container that was too late for the startup *)
(* snapshot appear later as "open" events.                                 *)
LateStartupReported == Quiet /\ overlapped = {} => ViewIsRight
=============================================================================
