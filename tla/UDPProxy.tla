------------------------------ MODULE UDPProxy ------------------------------
(***************************************************************************)
(* One UDP proxy (internal/lo/proxy.go) and the far ends of its tunnels    *)
(* (handleConnect and pipeUDPServer in the peer).                          *)
(*                                                                         *)
(* Threads.  udpLoop reads the proxy's socket and is the only one to open  *)
(* sessions; each session has a return loop; the reaper forgets idle       *)
(* sessions; the peer manager closes the proxy.  They share the map of     *)
(* sessions under a mutex, which is held over several steps by udpLoop,    *)
(* while it dials, and by the reaper, while it sweeps; a return loop       *)
(* records traffic without it.  In the peer, two goroutines per tunnel     *)
(* forward to and from the service.                                        *)
(*                                                                         *)
(* A tunnel is a unix stream socket.  A datagram crosses it as two writes, *)
(* the length and the payload, and the tunnel may be closed between them.  *)
(* A closed end may still read what its bufio.Reader holds.                *)
(***************************************************************************)
EXTENDS Naturals, Sequences, SequencesExt

CONSTANTS
  Addr,      \* source addresses of datagrams
  Foreign,   \* those that rejectsRemote refuses (a wildcard listen only)
  Empty,     \* the datagrams, by number, that have no payload
  MaxSess,   \* bound: sessions opened
  MaxIn,     \* bound: datagrams received from clients
  MaxOut,    \* bound: datagrams sent by the service
  Cap        \* capacity of a tunnel, in writes, for each direction

ASSUME ForeignAssumption == Foreign \subseteq Addr
ASSUME BoundsAssumption == MaxSess \in Nat /\ MaxIn \in Nat /\ MaxOut \in Nat /\ Cap \in Nat \ {0, 1}

Sess == 1..MaxSess
None == 0
Torn == 0

VARIABLES
  proxy,     \* "open"; "cancelled" and "closed" by Proxy.Close
  loop,      \* where udpLoop is
  cur,       \* the source, number and session of the datagram it handles, if any
  sessions,  \* the map of sessions, an absent key being None
  made,      \* sessions opened so far: session s is the s-th
  addrOf,    \* the client of each session
  near,      \* this container's end of each tunnel
  far,       \* the peer's end, closed together with its socket to the service
  up, down,  \* what is in each tunnel, towards the peer and back
  ret,       \* where each return loop is
  retHas,    \* the datagram each return loop has read and has still to write
  idle,      \* sessions with no traffic for udpSessionIdle
  reaper,    \* where reapIdleSessions is
  old,       \* the sessions with lastActive before the reaper's cutoff
  victim,    \* the session the reaper has forgotten and has still to close
  srvOut,    \* where the goroutine from the service to each tunnel is
  srvOutHas,
  in, out,   \* datagrams sent so far by clients and by the service
  sent, got, \* history: what udpLoop began to frame, what the service got
  said, back \* history: what the service sent, what its client got

loopVars == <<loop, cur, in, sent>>
retVars == <<ret, retHas, back>>
reapVars == <<reaper, old, victim>>
srvVars == <<srvOut, srvOutHas, out, got, said>>
mapVars == <<sessions, made, addrOf>>
tunnels == <<near, far, up, down>>
vars == <<proxy, loopVars, mapVars, tunnels, retVars, idle, reapVars, srvVars>>

NoDatagram == [addr |-> None, of |-> 0, sess |-> None]
Number == 0..(MaxIn + MaxOut)
Write == [part : {"length", "payload"}, of : Number]

(* The type of the state; a tunnel never holds more than its capacity.     *)
TypeOK ==
  /\ proxy \in {"open", "cancelled", "closed"}
  /\ loop \in {"read", "lookup", "dial", "answer", "length", "payload", "drop", "close", "end",
               "done"}
  /\ cur \in [addr : Addr \cup {None}, of : Number, sess : Sess \cup {None}]
  /\ sessions \in [Addr -> Sess \cup {None}]
  /\ made \in 0..MaxSess
  /\ addrOf \in [Sess -> Addr \cup {None}]
  /\ near \in [Sess -> {"none", "open", "closed"}]
  /\ far \in [Sess -> {"none", "open", "closed"}]
  /\ up \in [Sess -> Seq(Write)] /\ down \in [Sess -> Seq(Write)]
  /\ \A s \in Sess : Len(up[s]) <= Cap /\ Len(down[s]) <= Cap
  /\ ret \in [Sess -> {"none", "read", "write", "forget", "close", "done"}]
  /\ retHas \in [Sess -> Number]
  /\ idle \in SUBSET Sess
  /\ reaper \in {"wait", "lock", "sweep", "close", "done"}
  /\ old \in SUBSET Sess
  /\ victim \in Sess \cup {None}
  /\ srvOut \in [Sess -> {"none", "read", "length", "payload", "done"}]
  /\ srvOutHas \in [Sess -> Number]
  /\ in \in 0..MaxIn /\ out \in 0..MaxOut
  /\ sent \in [Sess -> Seq(Number)] /\ got \in [Sess -> Seq(Number)]
  /\ said \in [Sess -> Seq(Number)] /\ back \in [Sess -> Seq(Number)]

Init ==
  /\ proxy = "open"
  /\ loop = "read"
  /\ cur = NoDatagram
  /\ sessions = [a \in Addr |-> None]
  /\ made = 0
  /\ addrOf = [s \in Sess |-> None]
  /\ near = [s \in Sess |-> "none"] /\ far = [s \in Sess |-> "none"]
  /\ up = [s \in Sess |-> <<>>] /\ down = [s \in Sess |-> <<>>]
  /\ ret = [s \in Sess |-> "none"] /\ retHas = [s \in Sess |-> 0]
  /\ idle = {}
  /\ reaper = "wait" /\ old = {} /\ victim = None
  /\ srvOut = [s \in Sess |-> "none"] /\ srvOutHas = [s \in Sess |-> 0]
  /\ in = 0 /\ out = 0
  /\ sent = [s \in Sess |-> <<>>] /\ got = [s \in Sess |-> <<>>]
  /\ said = [s \in Sess |-> <<>>] /\ back = [s \in Sess |-> <<>>]

MutexFree == loop \notin {"dial", "answer"} /\ reaper \notin {"sweep", "close"}

----------------------------------------------------------------------------
(* Stream sockets, seen from an end mine whose other end is other.         *)

(* Mutant of WriteFits: a write does not wait for room.                    *)
WriteFitsAlways(mine, other, q) == mine = "open" /\ other = "open"

WriteFits(mine, other, q) == mine = "open" /\ other = "open" /\ Len(q) < Cap
WriteFails(mine, other) == mine = "closed" \/ other = "closed"

Length(d) == [part |-> "length", of |-> d]
Payload(d) == [part |-> "payload", of |-> d]

(* readFrame.  A reader takes a length and then waits for that many bytes, *)
(* if any; nothing else reads its stream, so the two reads are one step.   *)
(* The bytes of another datagram would make a torn one.                    *)
FrameLen(q) == IF Head(q).of \in Empty THEN 1 ELSE 2
FrameReady(q) == q # <<>> /\ Len(q) >= FrameLen(q)
Frame(q) == IF FrameLen(q) = 1 \/ q[2] = Payload(Head(q).of) THEN Head(q).of ELSE Torn
AfterFrame(q) == SubSeq(q, FrameLen(q) + 1, Len(q))

(* The stream ends before a whole frame, or this end is closed.            *)
ReadFails(mine, other, q) == mine = "closed" \/ (other = "closed" /\ ~FrameReady(q))

(* writeFrame.  An empty datagram is its length alone.                     *)
AfterLengthSent(d, idlePC) == IF d \in Empty THEN idlePC ELSE "payload"

----------------------------------------------------------------------------
(* Proxy.Close: cancel the context, then close the socket.                 *)

CloseCancels ==
  /\ proxy = "open"
  /\ proxy' = "cancelled"
  /\ UNCHANGED <<loopVars, mapVars, tunnels, retVars, idle, reapVars, srvVars>>

CloseSocket ==
  /\ proxy = "cancelled"
  /\ proxy' = "closed"
  /\ UNCHANGED <<loopVars, mapVars, tunnels, retVars, idle, reapVars, srvVars>>

----------------------------------------------------------------------------
(* udpLoop.                                                                *)

ReadFrom(a) ==
  /\ loop = "read" /\ proxy # "closed"
  /\ in < MaxIn
  /\ in' = in + 1
  /\ IF a \in Foreign
     THEN UNCHANGED <<loop, cur>>
     ELSE /\ loop' = "lookup"
          /\ cur' = [addr |-> a, of |-> in', sess |-> None]
  /\ UNCHANGED <<proxy, sent, mapVars, tunnels, retVars, idle, reapVars, srvVars>>

(* Mutant of ReadFromFails: an error is skipped, as a foreign datagram is. *)
ReadFromRetries ==
  /\ loop = "read" /\ proxy = "closed"
  /\ UNCHANGED vars

ReadFromFails ==
  /\ loop = "read" /\ proxy = "closed"
  /\ loop' = "end"
  /\ UNCHANGED <<proxy, cur, in, sent, mapVars, tunnels, retVars, idle, reapVars, srvVars>>

(* Mutant of touch: the reaper does not look at lastActive again once it   *)
(* has the mutex.                                                          *)
touchUnseen(s) ==
  /\ idle' = idle \ {s}
  /\ old' = old

touch(s) ==
  /\ idle' = idle \ {s}
  /\ old' = old \ {s}

Lookup ==
  /\ MutexFree
  /\ loop = "lookup"
  /\ LET s == sessions[cur.addr] IN
       IF s = None
       THEN loop' = "dial" /\ UNCHANGED <<cur, idle, old>>
       ELSE loop' = "length" /\ cur' = [cur EXCEPT !.sess = s] /\ touch(s)
  /\ UNCHANGED <<proxy, in, sent, mapVars, tunnels, retVars, reaper, victim, srvVars>>

(* dialConnect, with the mutex held: DialContext fails once the context is *)
(* done; the answer is then waited for, whatever happens to the context.   *)
DialContext ==
  /\ loop = "dial" /\ proxy = "open"
  /\ loop' = "answer"
  /\ UNCHANGED <<proxy, cur, in, sent, mapVars, tunnels, retVars, idle, reapVars, srvVars>>

(* No socket, or a peer that is down or refuses: the datagram is dropped.  *)
DialFails ==
  /\ loop \in {"dial", "answer"}
  /\ loop' = "read" /\ cur' = NoDatagram
  /\ UNCHANGED <<proxy, in, sent, mapVars, tunnels, retVars, idle, reapVars, srvVars>>

Accepted ==
  /\ loop = "answer" /\ made < MaxSess
  /\ LET s == made + 1 IN
       /\ made' = s
       /\ sessions' = [sessions EXCEPT ![cur.addr] = s]
       /\ addrOf' = [addrOf EXCEPT ![s] = cur.addr]
       /\ near' = [near EXCEPT ![s] = "open"]
       /\ far' = [far EXCEPT ![s] = "open"]
       /\ ret' = [ret EXCEPT ![s] = "read"]
       /\ srvOut' = [srvOut EXCEPT ![s] = "read"]
       /\ cur' = [cur EXCEPT !.sess = s]
       /\ touch(s)
  /\ loop' = "length"
  /\ UNCHANGED <<proxy, in, sent, up, down, retHas, back, reaper, victim, srvOutHas, out, got, said>>

(* Mutant of WriteError: the write is tried again.                         *)
WriteErrorRetries ==
  /\ loop \in {"length", "payload"}
  /\ WriteFails(near[cur.sess], far[cur.sess])
  /\ loop' = "length"
  /\ UNCHANGED <<proxy, cur, in, sent, mapVars, tunnels, retVars, idle, reapVars, srvVars>>

WriteError ==
  /\ loop \in {"length", "payload"}
  /\ WriteFails(near[cur.sess], far[cur.sess])
  /\ loop' = "drop"
  /\ UNCHANGED <<proxy, cur, in, sent, mapVars, tunnels, retVars, idle, reapVars, srvVars>>

(* Mutant of WriteLength: an empty datagram is skipped, not framed.        *)
WriteLengthNoEmpty ==
  /\ loop = "length"
  /\ LET s == cur.sess IN
       /\ WriteFits(near[s], far[s], up[s])
       /\ up' = IF cur.of \in Empty THEN up ELSE [up EXCEPT ![s] = Append(@, Length(cur.of))]
       /\ sent' = [sent EXCEPT ![s] = Append(@, cur.of)]
  /\ loop' = AfterLengthSent(cur.of, "read")
  /\ cur' = IF loop' = "read" THEN NoDatagram ELSE cur
  /\ UNCHANGED <<proxy, in, mapVars, near, far, down, retVars, idle, reapVars, srvVars>>

WriteLength ==
  /\ loop = "length"
  /\ LET s == cur.sess IN
       /\ WriteFits(near[s], far[s], up[s])
       /\ up' = [up EXCEPT ![s] = Append(@, Length(cur.of))]
       /\ sent' = [sent EXCEPT ![s] = Append(@, cur.of)]
  /\ loop' = AfterLengthSent(cur.of, "read")
  /\ cur' = IF loop' = "read" THEN NoDatagram ELSE cur
  /\ UNCHANGED <<proxy, in, mapVars, near, far, down, retVars, idle, reapVars, srvVars>>

WritePayload ==
  /\ loop = "payload"
  /\ LET s == cur.sess IN
       /\ WriteFits(near[s], far[s], up[s])
       /\ up' = [up EXCEPT ![s] = Append(@, Payload(cur.of))]
  /\ loop' = "read" /\ cur' = NoDatagram
  /\ UNCHANGED <<proxy, in, sent, mapVars, near, far, down, retVars, idle, reapVars, srvVars>>

(* Mutant of Forget: the entry is kept.                                    *)
ForgetNothing(s) == UNCHANGED sessions

(* delete(sessions, key), if it is still this session's.                   *)
Forget(s) ==
  sessions' = [a \in Addr |-> IF a = addrOf[s] /\ sessions[a] = s THEN None ELSE sessions[a]]

CloseNear(S) ==
  /\ near' = [s \in Sess |-> IF s \in S THEN "closed" ELSE near[s]]
  /\ idle' = idle \ S

DropSession ==
  /\ MutexFree
  /\ loop = "drop"
  /\ loop' = "close"
  /\ Forget(cur.sess)
  /\ UNCHANGED <<proxy, cur, in, sent, made, addrOf, tunnels, retVars, idle, reapVars, srvVars>>

DropCloses ==
  /\ loop = "close"
  /\ loop' = "read" /\ cur' = NoDatagram
  /\ CloseNear({cur.sess})
  /\ UNCHANGED <<proxy, in, sent, mapVars, far, up, down, retVars, reapVars, srvVars>>

LoopEnds ==
  /\ MutexFree
  /\ loop = "end"
  /\ loop' = "done"
  /\ CloseNear({sessions[a] : a \in Addr})
  /\ UNCHANGED <<proxy, cur, in, sent, mapVars, far, up, down, retVars, reapVars, srvVars>>

----------------------------------------------------------------------------
(* udpReturnLoop of session s.                                             *)

RetReads(s) ==
  /\ ret[s] = "read"
  /\ FrameReady(down[s])
  /\ down' = [down EXCEPT ![s] = AfterFrame(@)]
  /\ ret' = [ret EXCEPT ![s] = "write"]
  /\ retHas' = [retHas EXCEPT ![s] = Frame(down[s])]
  /\ UNCHANGED <<proxy, loopVars, mapVars, near, far, up, back, idle, reapVars, srvVars>>

(* Its return loop over, what a session's tunnel still holds is discarded, *)
(* and so is the history of this direction.                                *)
RetEnds(s) ==
  /\ ret' = [ret EXCEPT ![s] = "forget"]
  /\ down' = [down EXCEPT ![s] = <<>>]
  /\ said' = [said EXCEPT ![s] = <<>>] /\ back' = [back EXCEPT ![s] = <<>>]

RetReadFails(s) ==
  /\ ret[s] = "read"
  /\ ReadFails(near[s], far[s], down[s])
  /\ RetEnds(s)
  /\ UNCHANGED <<proxy, loopVars, mapVars, near, far, up, retHas, idle, reapVars, srvOut, srvOutHas,
                 out, got>>

RetWrites(s) ==
  /\ ret[s] = "write"
  /\ touch(s)
  /\ retHas' = [retHas EXCEPT ![s] = 0]
  /\ IF proxy = "closed"
     THEN RetEnds(s)
     ELSE /\ ret' = [ret EXCEPT ![s] = "read"]
          /\ back' = [back EXCEPT ![s] = Append(@, retHas[s])]
          /\ UNCHANGED <<down, said>>
  /\ UNCHANGED <<proxy, loopVars, mapVars, near, far, up, reaper, victim, srvOut, srvOutHas, out, got>>

(* Mutant of RetForgets: whatever session the client has now is deleted.   *)
RetForgetsAny(s) ==
  /\ MutexFree
  /\ ret[s] = "forget"
  /\ ret' = [ret EXCEPT ![s] = "close"]
  /\ sessions' = [sessions EXCEPT ![addrOf[s]] = None]
  /\ UNCHANGED <<proxy, loopVars, made, addrOf, tunnels, retHas, back, idle, reapVars, srvVars>>

RetForgets(s) ==
  /\ MutexFree
  /\ ret[s] = "forget"
  /\ ret' = [ret EXCEPT ![s] = "close"]
  /\ Forget(s)
  /\ UNCHANGED <<proxy, loopVars, made, addrOf, tunnels, retHas, back, idle, reapVars, srvVars>>

RetCloses(s) ==
  /\ ret[s] = "close"
  /\ ret' = [ret EXCEPT ![s] = "done"]
  /\ CloseNear({s})
  /\ UNCHANGED <<proxy, loopVars, mapVars, far, up, down, retHas, back, reapVars, srvVars>>

----------------------------------------------------------------------------
(* reapIdleSessions.  The cutoff is taken before the mutex, and each       *)
(* session of the map is compared with it, forgotten and closed in three   *)
(* steps of which only the first two touch what the mutex guards: a        *)
(* datagram from the service may be recorded before the last.  A tick with *)
(* no session before its cutoff has no effect, as none can fall behind it  *)
(* later, and is left out, and so is the look at a session that is not.    *)

TurnsIdle(s) ==
  /\ near[s] = "open" /\ sessions[addrOf[s]] = s
  /\ s \notin idle
  /\ idle' = idle \cup {s}
  /\ UNCHANGED <<proxy, loopVars, mapVars, tunnels, retVars, reapVars, srvVars>>

Tick ==
  /\ reaper = "wait" /\ idle # {}
  /\ reaper' = "lock"
  /\ old' = idle
  /\ UNCHANGED <<proxy, loopVars, mapVars, tunnels, retVars, idle, victim, srvVars>>

ReaperLocks ==
  /\ MutexFree
  /\ reaper = "lock"
  /\ reaper' = "sweep"
  /\ UNCHANGED <<proxy, loopVars, mapVars, tunnels, retVars, idle, old, victim, srvVars>>

ReaperForgets(s) ==
  /\ reaper = "sweep"
  /\ s \in old /\ sessions[addrOf[s]] = s
  /\ reaper' = "close" /\ victim' = s
  /\ Forget(s)
  /\ UNCHANGED <<proxy, loopVars, made, addrOf, tunnels, retVars, idle, old, srvVars>>

ReaperCloses ==
  /\ reaper = "close"
  /\ reaper' = "sweep" /\ victim' = None
  /\ CloseNear({victim})
  /\ UNCHANGED <<proxy, loopVars, mapVars, far, up, down, retVars, old, srvVars>>

ReaperUnlocks ==
  /\ reaper = "sweep"
  /\ \A a \in Addr : sessions[a] \notin old
  /\ reaper' = "wait" /\ old' = {}
  /\ UNCHANGED <<proxy, loopVars, mapVars, tunnels, retVars, idle, victim, srvVars>>

ReaperEnds ==
  /\ reaper = "wait" /\ proxy # "open"
  /\ reaper' = "done"
  /\ UNCHANGED <<proxy, loopVars, mapVars, tunnels, retVars, idle, old, victim, srvVars>>

----------------------------------------------------------------------------
(* pipeUDPServer in the peer, for session s.  closeBoth closes far, which  *)
(* stands for the tunnel's end and for the socket to the service: both     *)
(* goroutines then fail in their next read or write and return, with no    *)
(* further effect.  What the tunnel still holds for them is discarded, and *)
(* so is the history of this direction.                                    *)

closeBoth(s) ==
  /\ far' = [far EXCEPT ![s] = "closed"]
  /\ up' = [up EXCEPT ![s] = <<>>]
  /\ sent' = [sent EXCEPT ![s] = <<>>] /\ got' = [got EXCEPT ![s] = <<>>]
  /\ srvOut' = [srvOut EXCEPT ![s] = "done"]
  /\ srvOutHas' = [srvOutHas EXCEPT ![s] = 0]

(* From the tunnel to the service.                                         *)
SrvForwards(s) ==
  /\ far[s] = "open"
  /\ FrameReady(up[s])
  /\ up' = [up EXCEPT ![s] = AfterFrame(@)]
  /\ got' = [got EXCEPT ![s] = Append(@, Frame(up[s]))]
  /\ UNCHANGED <<proxy, loopVars, mapVars, near, far, down, retVars, idle, reapVars, srvOut,
                 srvOutHas, out, said>>

SrvReadFails(s) ==
  /\ far[s] = "open"
  /\ ReadFails(far[s], near[s], up[s])
  /\ closeBoth(s)
  /\ UNCHANGED <<proxy, loop, cur, in, mapVars, near, down, retVars, idle, reapVars, out, said>>

(* A read or a write of the socket to the service fails: nobody listens    *)
(* there any more, or the peer is going down.                              *)
ServiceGone(s) ==
  /\ far[s] = "open"
  /\ closeBoth(s)
  /\ UNCHANGED <<proxy, loop, cur, in, mapVars, near, down, retVars, idle, reapVars, out, said>>

(* From the service to the tunnel.                                         *)
ServiceSends(s) ==
  /\ srvOut[s] = "read" /\ far[s] = "open"
  /\ out < MaxOut
  /\ out' = out + 1
  /\ srvOut' = [srvOut EXCEPT ![s] = "length"]
  /\ srvOutHas' = [srvOutHas EXCEPT ![s] = MaxIn + out']
  /\ said' = [said EXCEPT ![s] = Append(@, MaxIn + out')]
  /\ UNCHANGED <<proxy, loopVars, mapVars, tunnels, retVars, idle, reapVars, got>>

SrvWriteFails(s) ==
  /\ srvOut[s] \in {"length", "payload"}
  /\ WriteFails(far[s], near[s])
  /\ closeBoth(s)
  /\ UNCHANGED <<proxy, loop, cur, in, mapVars, near, down, retVars, idle, reapVars, out, said>>

SrvWritesFrame(s) ==
  /\ srvOut[s] \in {"length", "payload"}
  /\ WriteFits(far[s], near[s], down[s])
  /\ IF srvOut[s] = "length"
     THEN /\ down' = [down EXCEPT ![s] = Append(@, Length(srvOutHas[s]))]
          /\ srvOut' = [srvOut EXCEPT ![s] = AfterLengthSent(srvOutHas[s], "read")]
     ELSE /\ down' = [down EXCEPT ![s] = Append(@, Payload(srvOutHas[s]))]
          /\ srvOut' = [srvOut EXCEPT ![s] = "read"]
  /\ srvOutHas' = [srvOutHas EXCEPT ![s] = IF srvOut'[s] = "read" THEN 0 ELSE @]
  /\ UNCHANGED <<proxy, loopVars, mapVars, near, far, up, retVars, idle, reapVars, out, got, said>>

----------------------------------------------------------------------------

LoopRuns ==
  \/ ReadFromFails \/ Lookup \/ DialContext \/ DialFails \/ Accepted
  \/ WriteLength \/ WritePayload \/ WriteError \/ DropSession \/ DropCloses \/ LoopEnds

udpLoop == LoopRuns \/ \E a \in Addr : ReadFrom(a)

udpReturnLoop(s) ==
  RetReads(s) \/ RetReadFails(s) \/ RetWrites(s) \/ RetForgets(s) \/ RetCloses(s)

ReaperSweeps == ReaperCloses \/ ReaperUnlocks \/ \E s \in Sess : ReaperForgets(s)

reapIdleSessions == Tick \/ ReaperLocks \/ ReaperSweeps \/ ReaperEnds

pipeUDPServer(s) ==
  \/ SrvForwards(s) \/ SrvReadFails(s) \/ ServiceGone(s)
  \/ ServiceSends(s) \/ SrvWriteFails(s) \/ SrvWritesFrame(s)

Next ==
  \/ CloseCancels \/ CloseSocket
  \/ udpLoop
  \/ reapIdleSessions
  \/ \E s \in Sess : udpReturnLoop(s) \/ TurnsIdle(s) \/ pipeUDPServer(s)

(* Every goroutine runs, and one that waits for the mutex gets it in the   *)
(* end (for udpLoop weak fairness is enough).  A peer answers a request or *)
(* its connection breaks; the proxy is not assumed to be closed, nor       *)
(* clients or the service to send anything.  As a sweep is shorter than    *)
(* the ticker's period, the reaper notices that its context is done.       *)
Fairness ==
  /\ WF_vars(CloseSocket)
  /\ WF_vars(LoopRuns)
  /\ WF_vars(Tick) /\ SF_vars(ReaperLocks) /\ WF_vars(ReaperSweeps) /\ SF_vars(ReaperEnds)
  /\ \A s \in Sess :
       /\ SF_vars(udpReturnLoop(s))
       /\ WF_vars(SrvForwards(s) \/ SrvReadFails(s))
       /\ WF_vars(SrvWritesFrame(s) \/ SrvWriteFails(s))

SafetySpec == Init /\ [][Next]_vars
Spec == SafetySpec /\ Fairness

----------------------------------------------------------------------------
(* Safety.                                                                 *)

(* A session whose tunnel is open can be found by its client's next        *)
(* datagram, by the reaper and by the end of udpLoop, or is about to be    *)
(* closed by the goroutine that took it out of the map: a return loop that *)
(* ends late never takes out the session that has replaced its own, and no *)
(* tunnel is left open that nobody will close.                             *)
NoTunnelLeaks ==
  \A s \in Sess : near[s] = "open" =>
     \/ sessions[addrOf[s]] = s /\ loop # "done"
     \/ ret[s] = "close"
     \/ loop = "close" /\ cur.sess = s
     \/ reaper = "close" /\ victim = s

(* Datagrams cross a tunnel whole, once and in order, empty ones too, in   *)
(* both directions and whoever closes the tunnel in the middle of one:     *)
(* what arrives is a prefix of what was sent through the session.          *)
DatagramsWhole ==
  \A s \in Sess : IsPrefix(got[s], sent[s]) /\ IsPrefix(back[s], said[s])

(* A session in use is not torn down: this container closes a tunnel only  *)
(* after the peer has closed its end, when the proxy is closed, or when    *)
(* the reaper has taken the session out of the map, which it does only     *)
(* after an idle time with no traffic until then, although it takes its    *)
(* cutoff before the mutex and traffic is recorded without it.  What the   *)
(* service sends after that is too late to save the session.               *)
OnlyDeadOrIdleClosed ==
  [][\A s \in Sess :
        /\ near[s] = "open" /\ near'[s] # "open" =>
              far[s] = "closed" \/ proxy = "closed" \/ victim = s
        /\ near[s] = "open" /\ victim' = s /\ victim # s => s \in idle]_vars

----------------------------------------------------------------------------
(* Liveness.                                                               *)

TornDown(s) ==
  /\ near[s] # "open" /\ far[s] # "open"
  /\ ret[s] \in {"none", "done"}

(* Closing the proxy ends its goroutines and every session, on both sides. *)
CloseEndsAll ==
  proxy = "closed" ~> loop = "done" /\ reaper = "done" /\ \A s \in Sess : TornDown(s)

(* udpLoop never stays with one datagram, however full a tunnel is and     *)
(* whatever happens to its session: no client starves the others.          *)
LoopReturns == loop \notin {"read", "done"} ~> loop \in {"read", "done"}

(* A session that is of no use is not kept: one whose far end is gone, so  *)
(* that the client's next datagram opens a new one, or one that is idle.   *)
Useless(s) == far[s] = "closed" \/ s \in idle
Kept(s) == near[s] = "open" \/ (loop # "done" /\ \E a \in Addr : sessions[a] = s)
UselessForgotten == \A s \in Sess : []<>~(Useless(s) /\ Kept(s))

(* Sessions end: with the proxy, with their peer, and after idle time.     *)
SessionsEnd == CloseEndsAll /\ UselessForgotten
=============================================================================
