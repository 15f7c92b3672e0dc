--------------------------- MODULE UDPProxyProofs ---------------------------
(***************************************************************************)
(* Theorems about UDPProxy, for any clients, any number of sessions and    *)
(* datagrams, and any capacity of the tunnels.                             *)
(***************************************************************************)
EXTENDS UDPProxy, TLAPS

----------------------------------------------------------------------------
(* What the invariants rest on.                                            *)

(* udpLoop has a client while it looks for its session, and a session      *)
(* while it writes to it.                                                  *)
Handling ==
  /\ loop \in {"lookup", "dial", "answer"} => cur.addr \in Addr
  /\ loop \in {"length", "payload", "drop", "close"} => cur.sess \in Sess

(* A session that has not been opened has left no trace.                   *)
Untouched(s) ==
  /\ near[s] = "none" /\ far[s] = "none" /\ ret[s] = "none" /\ srvOut[s] = "none"
  /\ s # cur.sess /\ s # victim /\ s \notin old /\ s \notin idle /\ \A a \in Addr : sessions[a] # s
  /\ up[s] = <<>> /\ down[s] = <<>>
  /\ sent[s] = <<>> /\ got[s] = <<>> /\ said[s] = <<>> /\ back[s] = <<>>
Unopened == \A s \in Sess : s > made => Untouched(s)

(* The map holds a session under its own client only, and has none for a   *)
(* client that udpLoop is dialling for, as the mutex is held.              *)
HasClient == \A s \in Sess : near[s] = "open" => addrOf[s] \in Addr
OwnKey == \A a \in Addr : sessions[a] # None => addrOf[sessions[a]] = a
NoneYet == loop \in {"dial", "answer"} => sessions[cur.addr] = None

MapInv == Handling /\ Unopened /\ HasClient /\ OwnKey /\ NoneYet /\ NoTunnelLeaks

(* Why a session is about to be closed.                                    *)
Dead(s) == near[s] # "open" \/ far[s] = "closed"
CloseInv ==
  /\ loop \in {"drop", "close"} => Dead(cur.sess)
  /\ loop = "end" => proxy = "closed"
  /\ \A s \in Sess : ret[s] \in {"forget", "close"} => Dead(s) \/ proxy = "closed"
  /\ \A s \in old : near[s] = "open" => s \in idle

----------------------------------------------------------------------------
(* The contents of a tunnel.  idx tells which datagram of hist a write     *)
(* belongs to; first datagrams were read before and last written in all.   *)

Complete(w) == w.part = "payload" \/ w.of \in Empty

Follows(q, idx, i) ==
  IF q[i].part = "payload"
  THEN q[i - 1].part = "length" /\ q[i - 1].of \notin Empty /\ idx[i] = idx[i - 1]
  ELSE Complete(q[i - 1]) /\ idx[i] = idx[i - 1] + 1

Indexed(q, hist, first, last, idx) ==
  /\ q = <<>> => last = first
  /\ q # <<>> => q[1].part = "length" /\ idx[1] = first + 1 /\ idx[Len(q)] = last
  /\ \A i \in 1..Len(q) : q[i].of = hist[idx[i]]
  /\ \A i \in 2..Len(q) : Follows(q, idx, i)

Framed(q, hist, first, last) == \E idx \in [1..Len(q) -> 1..Len(hist)] : Indexed(q, hist, first, last, idx)

(* What was received is what was sent, as far as it goes.                  *)
Prefix(s, t) == Len(s) <= Len(t) /\ \A i \in 1..Len(s) : s[i] = t[i]

(* q ends in a length whose payload is missing.                            *)
Ragged(q) == q # <<>> /\ ~Complete(q[Len(q)])

(* Towards the peer.  A ragged end is the datagram udpLoop is writing, or  *)
(* nothing can be written any more.                                        *)
UpInv(s) ==
  IF far[s] = "open"
  THEN /\ Prefix(got[s], sent[s])
       /\ Framed(up[s], sent[s], Len(got[s]), Len(sent[s]))
       /\ Ragged(up[s]) => near[s] # "open" \/ (loop = "payload" /\ cur.sess = s)
       /\ loop = "payload" /\ cur.sess = s => up[s] # <<>> /\ up[s][Len(up[s])] = Length(cur.of)
  ELSE got[s] = <<>>

(* From the peer, as long as the return loop reads.                        *)
Read(s) == Len(back[s]) + IF ret[s] = "write" THEN 1 ELSE 0
Written(s) == Len(said[s]) - IF srvOut[s] = "length" THEN 1 ELSE 0
DownInv(s) ==
  IF ret[s] \in {"read", "write"}
  THEN /\ Prefix(back[s], said[s])
       /\ ret[s] = "write" => Read(s) <= Len(said[s]) /\ retHas[s] = said[s][Read(s)]
       /\ \E last \in 0..Len(said[s]) :
            /\ Framed(down[s], said[s], Read(s), last)
            /\ far[s] = "open" => last = Written(s)
       /\ Ragged(down[s]) => far[s] # "open" \/ srvOut[s] = "payload"
       /\ srvOut[s] = "length" => said[s] # <<>> /\ said[s][Len(said[s])] = srvOutHas[s]
       /\ srvOut[s] = "payload" => down[s] # <<>> /\ down[s][Len(down[s])] = Length(srvOutHas[s])
  ELSE back[s] = <<>>

(* The peer's goroutine runs while its end is open; only a datagram that   *)
(* has a payload has one to write.                                         *)
ServerInv ==
  /\ loop = "payload" => cur.of \notin Empty
  /\ \A s \in Sess :
       /\ srvOut[s] \in {"read", "length", "payload"} <=> far[s] = "open"
       /\ srvOut[s] = "payload" => srvOutHas[s] \notin Empty

FrameInv == ServerInv /\ \A s \in Sess : UpInv(s) /\ DownInv(s)

----------------------------------------------------------------------------
(* Types.                                                                  *)

(* Reading a frame leaves a shorter tunnel.                                *)
LEMMA FrameType ==
  ASSUME NEW q \in Seq(Write), FrameReady(q)
  PROVE  /\ AfterFrame(q) \in Seq(Write) /\ Len(AfterFrame(q)) = Len(q) - FrameLen(q)
         /\ FrameLen(q) \in {1, 2} /\ FrameLen(q) <= Len(q)
         /\ Frame(q) \in Number
<1>1. FrameLen(q) \in {1, 2} /\ FrameLen(q) <= Len(q) /\ Len(q) \in Nat
  BY DEF FrameReady, FrameLen
<1>2. AfterFrame(q) \in Seq(Write) /\ Len(AfterFrame(q)) = Len(q) - FrameLen(q)
  BY <1>1 DEF AfterFrame
<1>3. Head(q) \in Write /\ 0 \in Number
  BY BoundsAssumption DEF FrameReady, Number
<1>4. Frame(q) \in Number
  BY <1>3 DEF Frame, Torn, Write
<1> QED BY <1>1, <1>2, <1>4

(* Writing to a tunnel that has room keeps it within its capacity.         *)
LEMMA WriteType ==
  ASSUME NEW q \in Seq(Write), NEW d \in Number, Len(q) < Cap
  PROVE  /\ Append(q, Length(d)) \in Seq(Write) /\ Append(q, Payload(d)) \in Seq(Write)
         /\ Len(Append(q, Length(d))) <= Cap /\ Len(Append(q, Payload(d))) <= Cap
BY BoundsAssumption DEF Length, Payload, Write

(* Every step keeps the types and what udpLoop has in hand.                *)
LEMMA TypeStep ==
  ASSUME TypeOK, Handling, [Next]_vars
  PROVE  TypeOK' /\ Handling'
<1> USE BoundsAssumption DEF TypeOK, Handling
<1> USE DEF loopVars, retVars, reapVars, srvVars, mapVars, tunnels
<1>0. 0 \in Number /\ MaxIn \in Nat /\ MaxOut \in Nat /\ MaxSess \in Nat /\ Cap \in Nat
  BY DEF Number
<1>1. CASE CloseCancels \/ CloseSocket
  BY <1>1 DEF CloseCancels, CloseSocket
<1>2. ASSUME NEW a \in Addr, ReadFrom(a) PROVE TypeOK' /\ Handling'
  <2>1. in' \in 0..MaxIn /\ in' \in Number
    BY <1>2 DEF ReadFrom, Number
  <2> QED BY <1>2, <2>1, SMTT(30) DEF ReadFrom
<1>3. CASE ReadFromFails \/ DialContext \/ WriteError
  BY <1>3 DEF ReadFromFails, DialContext, WriteError
<1>4. CASE DialFails
  BY <1>0, <1>4 DEF DialFails, NoDatagram
<1>5. CASE Lookup
  BY <1>5 DEF Lookup, touch, None
<1>6. CASE Accepted
  <2>1. made + 1 \in Sess /\ made + 1 \in 0..MaxSess
    BY <1>6 DEF Accepted, Sess
  <2> QED BY <1>6, <2>1 DEF Accepted, touch
<1>7. CASE WriteLength
  <2>1. up[cur.sess] \in Seq(Write) /\ Len(up[cur.sess]) < Cap /\ cur.of \in Number /\ cur.sess \in Sess
    BY <1>7 DEF WriteLength, WriteFits
  <2>2. up' \in [Sess -> Seq(Write)] /\ \A s \in Sess : Len(up'[s]) <= Cap
    BY <1>7, <2>1, WriteType DEF WriteLength
  <2>3. sent' \in [Sess -> Seq(Number)]
    BY <1>7, <2>1 DEF WriteLength
  <2>4. cur' \in [addr : Addr \cup {None}, of : Number, sess : Sess \cup {None}]
    BY <1>0, <1>7 DEF WriteLength, NoDatagram
  <2>5. loop' \in {"read", "payload"} /\ (loop' = "payload" => cur' = cur)
    BY <1>7 DEF WriteLength, AfterLengthSent
  <2> QED BY <1>7, <2>1, <2>2, <2>3, <2>4, <2>5 DEF WriteLength
<1>8. CASE WritePayload
  <2>1. up[cur.sess] \in Seq(Write) /\ Len(up[cur.sess]) < Cap /\ cur.of \in Number /\ cur.sess \in Sess
    BY <1>8 DEF WritePayload, WriteFits
  <2>2. up' \in [Sess -> Seq(Write)] /\ \A s \in Sess : Len(up'[s]) <= Cap
    BY <1>8, <2>1, WriteType DEF WritePayload
  <2> QED BY <1>0, <1>8, <2>2 DEF WritePayload, NoDatagram
<1>9. CASE DropSession
  BY <1>9 DEF DropSession, Forget
<1>10. CASE DropCloses
  BY <1>0, <1>10 DEF DropCloses, CloseNear, NoDatagram
<1>11. CASE LoopEnds
  BY <1>11 DEF LoopEnds, CloseNear
<1>12. ASSUME NEW s \in Sess, RetReads(s) PROVE TypeOK' /\ Handling'
  <2>0. down[s] \in Seq(Write) /\ Len(down[s]) <= Cap /\ Len(down[s]) \in Nat /\ FrameReady(down[s])
    BY <1>12 DEF RetReads
  <2>1. /\ AfterFrame(down[s]) \in Seq(Write) /\ Len(AfterFrame(down[s])) <= Cap
        /\ Frame(down[s]) \in Number
    <3> HIDE DEF TypeOK, Handling
    <3> QED BY <1>0, <2>0, FrameType
  <2> QED BY <1>12, <2>1, SMTT(30) DEF RetReads
<1>13. ASSUME NEW s \in Sess, RetReadFails(s) PROVE TypeOK' /\ Handling'
  BY <1>0, <1>13, SMTT(30) DEF RetReadFails, RetEnds
<1>14. ASSUME NEW s \in Sess, RetWrites(s) PROVE TypeOK' /\ Handling'
  <2>4. UNCHANGED <<proxy, loopVars, mapVars, near, far, up, reaper, victim, srvOut, srvOutHas, out, got>>
    BY <1>14 DEF RetWrites
  <2>5. idle' \in SUBSET Sess /\ old' \in SUBSET Sess
    BY <1>14 DEF RetWrites, touch
  <2>1. Append(back[s], retHas[s]) \in Seq(Number)
    OBVIOUS
  <2>2. CASE proxy = "closed"
    <3>1. RetEnds(s) /\ retHas' \in [Sess -> Number]
      BY <1>0, <1>14, <2>2 DEF RetWrites
    <3>2. /\ down' \in [Sess -> Seq(Write)] /\ \A x \in Sess : Len(down'[x]) <= Cap
          /\ said' \in [Sess -> Seq(Number)] /\ back' \in [Sess -> Seq(Number)]
      BY <1>0, <3>1 DEF RetEnds
    <3>3. ret' \in [Sess -> {"none", "read", "write", "forget", "close", "done"}]
      BY <3>1 DEF RetEnds
    <3>8. Handling'
      BY <2>4
    <3>9. TypeOK'
      BY <2>4, <2>5, <3>1, <3>2, <3>3
    <3> QED BY <3>8, <3>9
  <2>3. CASE proxy # "closed"
    <3>1. retHas' \in [Sess -> Number]
      BY <1>0, <1>14 DEF RetWrites
    <3>2. back' = [back EXCEPT ![s] = Append(@, retHas[s])]
      BY <1>14, <2>3 DEF RetWrites
    <3>3. back' \in [Sess -> Seq(Number)]
      BY <2>1, <3>2
    <3>4. UNCHANGED <<down, said>> /\ ret' \in [Sess -> {"none", "read", "write", "forget", "close", "done"}]
      BY <1>14, <2>3 DEF RetWrites
    <3>8. Handling'
      BY <2>4
    <3>9. TypeOK'
      BY <2>4, <2>5, <3>1, <3>3, <3>4
    <3> QED BY <3>8, <3>9
  <2> QED BY <2>2, <2>3
<1>15. ASSUME NEW s \in Sess, RetForgets(s) \/ RetCloses(s) PROVE TypeOK' /\ Handling'
  <2>1. CASE RetForgets(s)
    BY <2>1, SMTT(30) DEF RetForgets, Forget
  <2>2. CASE RetCloses(s)
    BY <2>2, SMTT(30) DEF RetCloses, CloseNear
  <2> QED BY <1>15, <2>1, <2>2
<1>16. ASSUME NEW s \in Sess, TurnsIdle(s) PROVE TypeOK' /\ Handling'
  BY <1>16, SMTT(30) DEF TurnsIdle
<1>17. CASE Tick \/ ReaperLocks \/ ReaperUnlocks \/ ReaperEnds
  BY <1>17 DEF Tick, ReaperLocks, ReaperUnlocks, ReaperEnds
<1>23. ASSUME NEW s \in Sess, ReaperForgets(s) PROVE TypeOK' /\ Handling'
  BY <1>23 DEF ReaperForgets, Forget
<1>24. CASE ReaperCloses
  BY <1>24 DEF ReaperCloses, CloseNear
<1>18. ASSUME NEW s \in Sess, SrvForwards(s) PROVE TypeOK' /\ Handling'
  <2>0. up[s] \in Seq(Write) /\ Len(up[s]) <= Cap /\ Len(up[s]) \in Nat /\ FrameReady(up[s])
    BY <1>18 DEF SrvForwards
  <2>1. /\ AfterFrame(up[s]) \in Seq(Write) /\ Len(AfterFrame(up[s])) <= Cap
        /\ Frame(up[s]) \in Number
    <3> HIDE DEF TypeOK, Handling
    <3> QED BY <1>0, <2>0, FrameType
  <2>2. UNCHANGED <<proxy, loopVars, mapVars, near, far, down, retVars, idle, reapVars, srvOut,
                    srvOutHas, out, said>>
    BY <1>18 DEF SrvForwards
  <2>3. up' \in [Sess -> Seq(Write)] /\ \A x \in Sess : Len(up'[x]) <= Cap
    BY <1>18, <2>1 DEF SrvForwards
  <2>4. Append(got[s], Frame(up[s])) \in Seq(Number)
    BY <2>1
  <2>5. got' \in [Sess -> Seq(Number)]
    BY <1>18, <2>4 DEF SrvForwards
  <2>8. Handling'
    BY <2>2
  <2>9. TypeOK'
    BY <2>2, <2>3, <2>5
  <2> QED BY <2>8, <2>9
<1>19. ASSUME NEW s \in Sess, SrvReadFails(s) \/ ServiceGone(s) \/ SrvWriteFails(s)
       PROVE  TypeOK' /\ Handling'
  <2>1. closeBoth(s) /\ UNCHANGED <<proxy, loop, cur, in, mapVars, near, down, retVars, idle, reapVars, out, said>>
    BY <1>19 DEF SrvReadFails, ServiceGone, SrvWriteFails
  <2>2. far' \in [Sess -> {"none", "open", "closed"}] /\ srvOutHas' \in [Sess -> Number]
    BY <1>0, <2>1 DEF closeBoth
  <2>3. srvOut' \in [Sess -> {"none", "read", "length", "payload", "done"}]
    BY <2>1 DEF closeBoth
  <2>4. up' \in [Sess -> Seq(Write)] /\ \A x \in Sess : Len(up'[x]) <= Cap
    BY <1>0, <2>1, SMTT(30) DEF closeBoth
  <2>5. sent' \in [Sess -> Seq(Number)] /\ got' \in [Sess -> Seq(Number)]
    BY <2>1, SMTT(30) DEF closeBoth
  <2> QED BY <2>1, <2>2, <2>3, <2>4, <2>5
<1>20. ASSUME NEW s \in Sess, ServiceSends(s) PROVE TypeOK' /\ Handling'
  <2>1. out' \in 0..MaxOut /\ MaxIn + out' \in Number
    BY <1>0, <1>20 DEF ServiceSends, Number
  <2> QED BY <1>20, <2>1, SMTT(30) DEF ServiceSends
<1>21. ASSUME NEW s \in Sess, SrvWritesFrame(s) PROVE TypeOK' /\ Handling'
  <2>1. Len(down[s]) < Cap /\ srvOutHas[s] \in Number
    BY <1>21 DEF SrvWritesFrame, WriteFits
  <2>2. PICK w \in {Length(srvOutHas[s]), Payload(srvOutHas[s])} : down' = [down EXCEPT ![s] = Append(@, w)]
    BY <1>21 DEF SrvWritesFrame
  <2>4. Append(down[s], w) \in Seq(Write) /\ Len(Append(down[s], w)) <= Cap
    BY <2>1, <2>2, WriteType
  <2>5. down' \in [Sess -> Seq(Write)] /\ \A x \in Sess : Len(down'[x]) <= Cap
    BY <2>2, <2>4
  <2>3. srvOut' \in [Sess -> {"none", "read", "length", "payload", "done"}]
    BY <1>21 DEF SrvWritesFrame, AfterLengthSent
  <2>6. UNCHANGED <<proxy, loopVars, mapVars, near, far, up, retVars, idle, reapVars, out, got, said>>
    BY <1>21 DEF SrvWritesFrame
  <2>7. srvOutHas' \in [Sess -> Number]
    BY <1>0, <1>21, <2>1 DEF SrvWritesFrame
  <2>8. Handling'
    BY <2>6
  <2>9. TypeOK'
    BY <2>3, <2>5, <2>6, <2>7
  <2> QED BY <2>8, <2>9
<1>22. CASE UNCHANGED vars
  BY <1>22 DEF vars
<1> QED BY <1>1, <1>2, <1>3, <1>4, <1>5, <1>6, <1>7, <1>8, <1>9, <1>10, <1>11, <1>12, <1>13, <1>14,
           <1>15, <1>16, <1>17, <1>18, <1>19, <1>20, <1>21, <1>22, <1>23, <1>24
        DEF Next, udpLoop, LoopRuns, udpReturnLoop, reapIdleSessions, ReaperSweeps, pipeUDPServer

(* They always hold.                                                       *)
LEMMA TypeAndHandling == SafetySpec => [](TypeOK /\ Handling)
<1>1. Init => TypeOK /\ Handling
  <2>1. <<>> \in Seq(Number) /\ <<>> \in Seq(Write) /\ Len(<<>>) = 0
    OBVIOUS
  <2>2. 0 \in Number /\ 0 <= Cap
    BY BoundsAssumption DEF Number
  <2> QED BY <2>1, <2>2, BoundsAssumption DEF Init, TypeOK, Handling, NoDatagram
<1> QED BY <1>1, TypeStep, PTL DEF SafetySpec

(* The type invariant holds: in particular no tunnel holds more than its   *)
(* capacity, in either direction.                                          *)
THEOREM TypeCorrect == SafetySpec => []TypeOK
BY TypeAndHandling, PTL

----------------------------------------------------------------------------
(* The map of sessions.                                                    *)

(* Every step leaves the sessions alone that have not been opened.         *)
LEMMA UnopenedStep ==
  ASSUME TypeOK, TypeOK', Handling, Unopened, [Next]_vars
  PROVE  Unopened'
<1> USE DEF loopVars, retVars, reapVars, srvVars, mapVars, tunnels
<1>0. made \in Nat /\ made' \in Nat /\ (made' = made \/ made' = made + 1) /\ Sess \subseteq Nat
  <2>1. made \in Nat /\ made' \in Nat /\ Sess \subseteq Nat
    BY BoundsAssumption DEF TypeOK, Sess
  <2>2. made' = made \/ made' = made + 1
    BY DEF Next, vars, udpLoop, LoopRuns, udpReturnLoop, reapIdleSessions, pipeUDPServer,
       CloseCancels, CloseSocket, ReadFrom, ReadFromFails, Lookup, DialContext, DialFails, Accepted,
       WriteLength, WritePayload, WriteError, DropSession, DropCloses, LoopEnds, RetReads,
       RetReadFails, RetWrites, RetForgets, RetCloses, TurnsIdle, Tick, ReaperLocks, ReaperSweeps,
       ReaperForgets, ReaperCloses, ReaperUnlocks, ReaperEnds,
       SrvForwards, SrvReadFails, ServiceGone, ServiceSends, SrvWriteFails, SrvWritesFrame
  <2> QED BY <2>1, <2>2
<1> SUFFICES ASSUME NEW x \in Sess, x > made' PROVE Untouched(x)'
  BY DEF Unopened
<1>a. x > made /\ Untouched(x) /\ x \in Nat \ {0}
  BY <1>0, BoundsAssumption DEF Unopened, Sess
<1> USE <1>a DEF Untouched
<1>1. CASE CloseCancels \/ CloseSocket
  BY <1>1 DEF CloseCancels, CloseSocket
<1>2. ASSUME NEW a \in Addr, ReadFrom(a) PROVE Untouched(x)'
  BY <1>2 DEF ReadFrom, None
<1>3. CASE ReadFromFails \/ DialContext \/ WriteError
  BY <1>3 DEF ReadFromFails, DialContext, WriteError
<1>4. CASE DialFails
  BY <1>4 DEF DialFails, NoDatagram, None
<1>5. CASE Lookup
  <2>1. cur'.sess = cur.sess \/ \E a \in Addr : cur'.sess = sessions[a]
    BY <1>5 DEF Lookup, Handling, TypeOK
  <2> QED BY <1>5, <2>1 DEF Lookup, touch
<1>6. CASE Accepted
  <2>1. x # made + 1 /\ cur'.sess = made + 1
    BY <1>0, <1>6 DEF Accepted, TypeOK
  <2> QED BY <1>6, <2>1, SMTT(30) DEF Accepted, touch, TypeOK
<1>7. CASE WriteLength
  <2>1. cur'.sess \in {cur.sess, None}
    BY <1>7 DEF WriteLength, NoDatagram
  <2>2. sent'[x] = sent[x] /\ up'[x] = up[x]
    BY <1>7 DEF WriteLength, TypeOK
  <2> QED BY <1>7, <2>1, <2>2 DEF WriteLength, None
<1>8. CASE WritePayload
  <2>1. cur'.sess = None /\ up'[x] = up[x]
    BY <1>8 DEF WritePayload, NoDatagram, TypeOK
  <2> QED BY <1>8, <2>1 DEF WritePayload, None
<1>9. CASE DropSession
  BY <1>9 DEF DropSession, Forget, None
<1>10. CASE DropCloses
  BY <1>10 DEF DropCloses, CloseNear, NoDatagram, None, TypeOK
<1>11. CASE LoopEnds
  BY <1>11 DEF LoopEnds, CloseNear
<1>12. ASSUME NEW s \in Sess, RetReads(s) PROVE Untouched(x)'
  BY <1>12 DEF RetReads, TypeOK
<1>13. ASSUME NEW s \in Sess, RetReadFails(s) PROVE Untouched(x)'
  BY <1>13 DEF RetReadFails, RetEnds, TypeOK
<1>14. ASSUME NEW s \in Sess, RetWrites(s) PROVE Untouched(x)'
  <2>1. s # x
    BY <1>14 DEF RetWrites
  <2>2. ret'[x] = ret[x] /\ down'[x] = down[x] /\ said'[x] = said[x] /\ back'[x] = back[x]
    BY <1>14, <2>1 DEF RetWrites, RetEnds, TypeOK
  <2> QED BY <1>14, <2>2 DEF RetWrites, touch
<1>15. ASSUME NEW s \in Sess, RetForgets(s) \/ RetCloses(s) PROVE Untouched(x)'
  <2>1. CASE RetForgets(s)
    BY <2>1 DEF RetForgets, Forget, None, TypeOK
  <2>2. CASE RetCloses(s)
    BY <2>2 DEF RetCloses, CloseNear, TypeOK
  <2> QED BY <1>15, <2>1, <2>2
<1>16. ASSUME NEW s \in Sess, TurnsIdle(s) PROVE Untouched(x)'
  BY <1>16 DEF TurnsIdle
<1>17. CASE Tick \/ ReaperLocks \/ ReaperUnlocks \/ ReaperEnds
  BY <1>17 DEF Tick, ReaperLocks, ReaperUnlocks, ReaperEnds
<1>18. ASSUME NEW s \in Sess, ReaperForgets(s) PROVE Untouched(x)'
  BY <1>18 DEF ReaperForgets, Forget, None, TypeOK
<1>24. CASE ReaperCloses
  BY <1>24 DEF ReaperCloses, CloseNear, None, TypeOK
<1>19. ASSUME NEW s \in Sess, SrvForwards(s) PROVE Untouched(x)'
  BY <1>19 DEF SrvForwards, TypeOK
<1>20. ASSUME NEW s \in Sess, SrvReadFails(s) \/ ServiceGone(s) \/ SrvWriteFails(s)
       PROVE  Untouched(x)'
  <2>1. s # x /\ closeBoth(s)
    BY <1>20 DEF SrvReadFails, ServiceGone, SrvWriteFails
  <2>2. UNCHANGED <<proxy, loop, cur, in, mapVars, near, down, retVars, idle, reapVars, out, said>>
    BY <1>20 DEF SrvReadFails, ServiceGone, SrvWriteFails
  <2> QED BY <2>1, <2>2 DEF closeBoth, TypeOK
<1>21. ASSUME NEW s \in Sess, ServiceSends(s) PROVE Untouched(x)'
  BY <1>21 DEF ServiceSends, TypeOK
<1>22. ASSUME NEW s \in Sess, SrvWritesFrame(s) PROVE Untouched(x)'
  <2>1. s # x
    BY <1>22 DEF SrvWritesFrame
  <2>2. down'[x] = down[x] /\ srvOut'[x] = srvOut[x]
    BY <1>22, <2>1 DEF SrvWritesFrame, TypeOK
  <2> QED BY <1>22, <2>2 DEF SrvWritesFrame
<1>23. CASE UNCHANGED vars
  BY <1>23 DEF vars
<1> QED BY <1>1, <1>2, <1>3, <1>4, <1>5, <1>6, <1>7, <1>8, <1>9, <1>10, <1>11, <1>12, <1>13, <1>14,
           <1>15, <1>16, <1>17, <1>18, <1>19, <1>20, <1>21, <1>22, <1>23, <1>24
        DEF Next, udpLoop, LoopRuns, udpReturnLoop, reapIdleSessions, ReaperSweeps, pipeUDPServer

(* Every step keeps the map and the tunnels in agreement.                  *)
LEMMA MapStep ==
  ASSUME TypeOK, TypeOK', MapInv, Handling', Unopened', [Next]_vars
  PROVE  MapInv'
<1> DEFINE Goal == HasClient' /\ OwnKey' /\ NoneYet' /\ NoTunnelLeaks'
<1> SUFFICES Goal
  BY DEF MapInv
<1> USE DEF MapInv, HasClient, OwnKey, NoneYet, NoTunnelLeaks
<1> USE DEF loopVars, retVars, reapVars, srvVars, mapVars, tunnels
<1>0. made \in Nat /\ Sess \subseteq Nat \ {0} /\ None \notin Sess
  BY BoundsAssumption DEF TypeOK, Sess, None
<1>1. ASSUME UNCHANGED <<sessions, addrOf, near, ret, cur>>,
             (reaper' = reaper /\ victim' = victim) \/ reaper # "close",
             loop' = loop \/ (loop # "close" /\ loop' \notin {"dial", "answer", "done"})
      PROVE  Goal
  BY <1>1
<1>2. CASE CloseCancels \/ CloseSocket \/ ReadFromFails \/ WriteError
  BY <1>1, <1>2 DEF CloseCancels, CloseSocket, ReadFromFails, WriteError
<1>3. ASSUME NEW a \in Addr, ReadFrom(a) PROVE Goal
  BY <1>3 DEF ReadFrom
<1>4. CASE DialContext \/ DialFails \/ WritePayload
  BY <1>4 DEF DialContext, DialFails, WritePayload
<1>5. CASE WriteLength
  BY <1>5 DEF WriteLength, AfterLengthSent
<1>6. CASE Lookup
  BY <1>6 DEF Lookup
<1>7. CASE Accepted
  <2>1. made + 1 \in Sess /\ made + 1 > made /\ cur.addr \in Addr
    BY <1>0, <1>7 DEF Accepted, Handling, Sess, TypeOK
  <2>2. Untouched(made + 1) /\ sessions[cur.addr] = None
    BY <1>7, <2>1 DEF Accepted, Unopened
  <2>3. OwnKey'
    BY <1>7, <2>1, <2>2 DEF Accepted, Untouched, TypeOK
  <2>4. NoTunnelLeaks'
    <3> SUFFICES ASSUME NEW s \in Sess, near'[s] = "open"
                 PROVE  sessions'[addrOf'[s]] = s \/ ret'[s] = "close" \/ (reaper' = "close" /\ victim' = s)
      BY <1>7 DEF Accepted
    <3>1. CASE s = made + 1
      BY <1>7, <2>1, <3>1 DEF Accepted, TypeOK
    <3>2. CASE s # made + 1
      <4>1. near[s] = "open" /\ addrOf'[s] = addrOf[s] /\ ret'[s] = ret[s]
        BY <1>7, <3>2 DEF Accepted, TypeOK
      <4>2. CASE sessions[addrOf[s]] = s
        <5>1. addrOf[s] # cur.addr
          BY <1>0, <2>2, <4>2
        <5> QED BY <1>7, <4>1, <4>2, <5>1 DEF Accepted, TypeOK
      <4> QED BY <1>7, <4>1, <4>2 DEF Accepted
    <3> QED BY <3>1, <3>2
  <2>5. HasClient'
    BY <1>7, <2>1 DEF Accepted, TypeOK
  <2> QED BY <1>7, <2>3, <2>4, <2>5 DEF Accepted
<1>8. CASE DropSession
  <2>1. \A a \in Addr : sessions'[a] = sessions[a] \/ (sessions[a] = cur.sess /\ sessions'[a] = None)
    BY <1>8 DEF DropSession, Forget
  <2>2. UNCHANGED <<addrOf, near, ret, cur, reaper, victim>> /\ loop = "drop" /\ loop' = "close"
    BY <1>8 DEF DropSession
  <2>3. NoTunnelLeaks'
    BY <2>1, <2>2
  <2> QED BY <1>0, <2>1, <2>2, <2>3
<1>9. CASE DropCloses
  BY <1>9 DEF DropCloses, CloseNear
<1>10. CASE LoopEnds
  <2>1. \A s \in Sess : near'[s] = "open" => near[s] = "open" /\ \A a \in Addr : sessions[a] # s
    BY <1>10 DEF LoopEnds, CloseNear
  <2> QED BY <1>10, <2>1 DEF LoopEnds
<1>11. ASSUME NEW s \in Sess, RetReads(s) \/ RetReadFails(s) \/ RetWrites(s) PROVE Goal
  <2>1. \A x \in Sess : ret[x] = "close" => ret'[x] = "close"
    <3>1. ret[s] # "close" /\ \E v \in {"read", "write", "forget"} : ret' = [ret EXCEPT ![s] = v]
      BY <1>11 DEF RetReads, RetReadFails, RetWrites, RetEnds
    <3> QED BY <3>1 DEF TypeOK
  <2>2. UNCHANGED <<sessions, addrOf, near, cur, loop, reaper, victim>>
    BY <1>11 DEF RetReads, RetReadFails, RetWrites
  <2> QED BY <2>1, <2>2
<1>12. ASSUME NEW s \in Sess, RetForgets(s) PROVE Goal
  <2>1. \A a \in Addr : sessions'[a] = sessions[a] \/ (sessions[a] = s /\ sessions'[a] = None)
    BY <1>12 DEF RetForgets, Forget
  <2>2. UNCHANGED <<addrOf, near, loop, cur, reaper, victim>> /\ loop \notin {"dial", "answer"}
    BY <1>12 DEF RetForgets, MutexFree
  <2>3. ret'[s] = "close" /\ \A x \in Sess : ret[x] = "close" => ret'[x] = "close"
    BY <1>12 DEF RetForgets, TypeOK
  <2>4. NoTunnelLeaks'
    BY <2>1, <2>2, <2>3
  <2> QED BY <1>0, <2>1, <2>2, <2>4
<1>13. ASSUME NEW s \in Sess, RetCloses(s) PROVE Goal
  <2>1. near'[s] = "closed" /\ \A x \in Sess : x # s => near'[x] = near[x] /\ ret'[x] = ret[x]
    BY <1>13 DEF RetCloses, CloseNear, TypeOK
  <2>2. UNCHANGED <<sessions, addrOf, loop, cur, reaper, victim>>
    BY <1>13 DEF RetCloses
  <2> QED BY <2>1, <2>2
<1>14. ASSUME NEW s \in Sess, TurnsIdle(s) PROVE Goal
  BY <1>1, <1>14 DEF TurnsIdle
<1>15. CASE Tick \/ ReaperLocks \/ ReaperUnlocks \/ ReaperEnds
  BY <1>1, <1>15 DEF Tick, ReaperLocks, ReaperUnlocks, ReaperEnds
<1>16. ASSUME NEW s \in Sess, ReaperForgets(s) PROVE Goal
  <2>1. \A a \in Addr : sessions'[a] = sessions[a] \/ (sessions[a] = s /\ sessions'[a] = None)
    BY <1>16 DEF ReaperForgets, Forget
  <2>2. UNCHANGED <<addrOf, near, ret, loop, cur>> /\ reaper # "close" /\ reaper' = "close" /\ victim' = s
    BY <1>16 DEF ReaperForgets
  <2>3. NoTunnelLeaks'
    BY <2>1, <2>2
  <2>4. NoneYet'
    BY <2>1, <2>2 DEF Handling
  <2> QED BY <1>0, <2>1, <2>2, <2>3, <2>4
<1>19. CASE ReaperCloses
  <2>1. \A x \in Sess : near'[x] = "open" => near[x] = "open" /\ x # victim
    BY <1>19 DEF ReaperCloses, CloseNear
  <2>2. UNCHANGED <<sessions, addrOf, ret, loop, cur>>
    BY <1>19 DEF ReaperCloses
  <2> QED BY <2>1, <2>2
<1>17. ASSUME NEW s \in Sess, pipeUDPServer(s) PROVE Goal
  <2>1. UNCHANGED <<sessions, addrOf, near, ret, cur, loop, reaper, victim>>
    BY <1>17 DEF pipeUDPServer, SrvForwards, SrvReadFails, ServiceGone, ServiceSends, SrvWriteFails,
       SrvWritesFrame
  <2> QED BY <1>1, <2>1
<1>18. CASE UNCHANGED vars
  BY <1>1, <1>18 DEF vars
<1> QED BY <1>2, <1>3, <1>4, <1>5, <1>6, <1>7, <1>8, <1>9, <1>10, <1>11, <1>12, <1>13, <1>14, <1>15,
           <1>16, <1>17, <1>18, <1>19
        DEF Next, udpLoop, LoopRuns, udpReturnLoop, reapIdleSessions, ReaperSweeps

(* They always agree.                                                      *)
LEMMA MapInvariant == SafetySpec => [](TypeOK /\ MapInv)
<1>1. Init => MapInv
  BY DEF Init, MapInv, Handling, Unopened, Untouched, HasClient, OwnKey, NoneYet, NoTunnelLeaks,
     NoDatagram, None, Sess
<1>2. (TypeOK /\ Handling) /\ (TypeOK /\ Handling)' /\ MapInv /\ [Next]_vars => MapInv'
  BY UnopenedStep, MapStep DEF MapInv
<1> QED BY <1>1, <1>2, TypeAndHandling, PTL DEF SafetySpec

(* No tunnel is left open that nobody will close: for any clients and      *)
(* sessions, in every order of the loop, the return loops, the reaper and  *)
(* the end of the proxy.                                                   *)
THEOREM TunnelsNeverLeak == SafetySpec => []NoTunnelLeaks
<1>1. MapInv => NoTunnelLeaks
  BY DEF MapInv
<1> QED BY <1>1, MapInvariant, PTL

----------------------------------------------------------------------------
(* Why sessions are closed.                                                *)

(* Every step keeps the reasons for closing.                               *)
LEMMA CloseStep ==
  ASSUME TypeOK, TypeOK', MapInv, CloseInv, [Next]_vars
  PROVE  CloseInv'
<1> USE DEF CloseInv, Dead
<1> USE DEF loopVars, retVars, reapVars, srvVars, mapVars, tunnels
<1>1. ASSUME UNCHANGED <<near, ret, cur, old>>, idle \subseteq idle',
             proxy = "closed" => proxy' = "closed",
             \A s \in Sess \cup {cur.sess} : far[s] = "closed" => far'[s] = "closed",
             loop' = loop \/ loop' \notin {"drop", "close", "end"}
      PROVE  CloseInv'
  BY <1>1 DEF TypeOK
<1>2. CASE CloseCancels \/ CloseSocket \/ DialContext
  BY <1>1, <1>2 DEF CloseCancels, CloseSocket, DialContext
<1>3. CASE ReadFromFails
  BY <1>3 DEF ReadFromFails
<1>4. ASSUME NEW a \in Addr, ReadFrom(a) PROVE CloseInv'
  BY <1>4 DEF ReadFrom
<1>5. CASE WriteError
  BY <1>5 DEF WriteError, WriteFails
<1>6. CASE DialFails \/ WritePayload
  BY <1>6 DEF DialFails, WritePayload
<1>7. CASE WriteLength
  BY <1>7 DEF WriteLength, AfterLengthSent
<1>8. CASE Lookup
  BY <1>8 DEF Lookup, touch
<1>9. CASE Accepted
  <2>1. made + 1 \in Sess /\ made + 1 > made /\ made \in Nat
    BY <1>9, BoundsAssumption DEF Accepted, Sess, TypeOK
  <2>2. ret[made + 1] = "none" /\ far[made + 1] = "none"
    BY <2>1 DEF MapInv, Unopened, Untouched
  <2>3. \A s \in Sess : s # made + 1 => near'[s] = near[s] /\ far'[s] = far[s] /\ ret'[s] = ret[s]
    BY <1>9 DEF Accepted, TypeOK
  <2>4. ret'[made + 1] = "read" /\ made + 1 \notin old' /\ old' \subseteq old /\ idle' = idle \ {made + 1}
    BY <1>9, <2>1 DEF Accepted, touch, TypeOK
  <2>5. \A s \in old' : s \in Sess /\ s # made + 1 /\ s \in old
    BY <2>4 DEF TypeOK
  <2>6. \A s \in old' : near'[s] = "open" => s \in idle'
    BY <2>3, <2>4, <2>5
  <2>7. loop' = "length" /\ proxy' = proxy
    BY <1>9 DEF Accepted
  <2>8. \A s \in Sess : ret'[s] \in {"forget", "close"} => s # made + 1
    BY <2>4
  <2> QED BY <2>3, <2>6, <2>7, <2>8
<1>10. CASE DropSession
  BY <1>10 DEF DropSession
<1>11. ASSUME NEW S, CloseNear(S), UNCHANGED <<far, proxy>>, old' \subseteq old,
              (loop' = loop /\ cur' = cur) \/ loop' \notin {"drop", "close", "end"},
              \A s \in Sess : ret'[s] = ret[s] \/ ret'[s] \notin {"forget", "close"}
       PROVE  CloseInv'
  <2>1. \A s \in Sess : near'[s] = "open" => near[s] = "open" /\ s \notin S
    BY <1>11 DEF CloseNear
  <2>2. loop' \in {"drop", "close"} => cur.sess \in Sess
    BY <1>11 DEF MapInv, Handling
  <2>3. \A s \in old' : near'[s] = "open" => s \in idle'
    BY <1>11, <2>1 DEF CloseNear, TypeOK
  <2> QED BY <1>11, <2>1, <2>2, <2>3
<1>12. CASE DropCloses \/ LoopEnds
  BY <1>11, <1>12 DEF DropCloses, LoopEnds
<1>13. ASSUME NEW s \in Sess, RetCloses(s) PROVE CloseInv'
  <2>1. \A x \in Sess : ret'[x] = ret[x] \/ ret'[x] = "done"
    BY <1>13 DEF RetCloses, TypeOK
  <2> QED BY <1>11, <1>13, <2>1 DEF RetCloses
<1>14. CASE ReaperCloses
  BY <1>11, <1>14 DEF ReaperCloses
<1>15. ASSUME NEW s \in Sess, RetReads(s) PROVE CloseInv'
  <2>1. \A x \in Sess : ret'[x] \in {"forget", "close"} => ret'[x] = ret[x]
    BY <1>15 DEF RetReads, TypeOK
  <2>2. UNCHANGED <<proxy, loop, cur, near, far, old, idle>>
    BY <1>15 DEF RetReads
  <2> QED BY <2>1, <2>2
<1>16. ASSUME NEW s \in Sess, RetReadFails(s) PROVE CloseInv'
  BY <1>16, SMTT(30) DEF RetReadFails, RetEnds, ReadFails, TypeOK
<1>17. ASSUME NEW s \in Sess, RetWrites(s) PROVE CloseInv'
  <2>1. \A x \in Sess : ret'[x] \in {"forget", "close"} => ret'[x] = ret[x] \/ proxy = "closed"
    BY <1>17 DEF RetWrites, RetEnds, TypeOK
  <2>2. UNCHANGED <<proxy, loop, cur, near, far>> /\ touch(s)
    BY <1>17 DEF RetWrites
  <2> QED BY <2>1, <2>2 DEF touch
<1>18. ASSUME NEW s \in Sess, RetForgets(s) PROVE CloseInv'
  BY <1>18, SMTT(30) DEF RetForgets, TypeOK
<1>19. ASSUME NEW s \in Sess, TurnsIdle(s) PROVE CloseInv'
  BY <1>1, <1>19 DEF TurnsIdle
<1>20. CASE Tick \/ ReaperLocks \/ ReaperUnlocks \/ ReaperEnds
  BY <1>20 DEF Tick, ReaperLocks, ReaperUnlocks, ReaperEnds
<1>23. ASSUME NEW s \in Sess, ReaperForgets(s) PROVE CloseInv'
  BY <1>1, <1>23 DEF ReaperForgets
<1>21. ASSUME NEW s \in Sess, pipeUDPServer(s) PROVE CloseInv'
  <2>1. UNCHANGED <<proxy, near, ret, cur, loop, old, idle>>
    BY <1>21 DEF pipeUDPServer, SrvForwards, SrvReadFails, ServiceGone, ServiceSends, SrvWriteFails,
       SrvWritesFrame
  <2>2. far' = far \/ far' = [far EXCEPT ![s] = "closed"]
    BY <1>21 DEF pipeUDPServer, SrvForwards, SrvReadFails, ServiceGone, ServiceSends, SrvWriteFails,
       SrvWritesFrame, closeBoth
  <2>3. \A x \in Sess : far[x] = "closed" => far'[x] = "closed"
    <3>1. far \in [Sess -> {"none", "open", "closed"}]
      BY DEF TypeOK
    <3> QED BY ONLY <2>2, <3>1
  <2>4. loop \in {"drop", "close"} => cur.sess \in Sess
    BY DEF MapInv, Handling
  <2> QED BY <2>1, <2>3, <2>4
<1>22. CASE UNCHANGED vars
  BY <1>1, <1>22 DEF vars
<1> QED BY <1>2, <1>3, <1>4, <1>5, <1>6, <1>7, <1>8, <1>9, <1>10, <1>12, <1>13, <1>14, <1>15,
           <1>16, <1>17, <1>18, <1>19, <1>20, <1>21, <1>22, <1>23
        DEF Next, udpLoop, LoopRuns, udpReturnLoop, reapIdleSessions, ReaperSweeps

(* There is always a reason.                                               *)
LEMMA CloseInvariant == SafetySpec => []CloseInv
<1>1. Init => CloseInv
  BY DEF Init, CloseInv
<1>2. (TypeOK /\ MapInv) /\ (TypeOK /\ MapInv)' /\ CloseInv /\ [Next]_vars => CloseInv'
  BY CloseStep
<1> QED BY <1>1, <1>2, MapInvariant, PTL DEF SafetySpec

(* This container closes a tunnel only after its peer did, when the proxy  *)
(* is closed, or when the reaper took the session out of the map, with no  *)
(* traffic for an idle time until then: neither the cutoff that the reaper *)
(* takes before the mutex nor the traffic that return loops record without *)
(* it makes the reaper choose a session in use.                            *)
THEOREM SessionsInUseStay == SafetySpec => OnlyDeadOrIdleClosed
<1> DEFINE Closed == \A s \in Sess : near[s] = "open" /\ near'[s] # "open" =>
                       far[s] = "closed" \/ proxy = "closed" \/ victim = s
           Chosen == \A s \in Sess : near[s] = "open" /\ victim' = s /\ victim # s => s \in idle
           Step == \A s \in Sess :
                     /\ near[s] = "open" /\ near'[s] # "open" =>
                           far[s] = "closed" \/ proxy = "closed" \/ victim = s
                     /\ near[s] = "open" /\ victim' = s /\ victim # s => s \in idle
<1> USE DEF loopVars, retVars, reapVars, srvVars, mapVars, tunnels
<1>1. ASSUME TypeOK, MapInv, CloseInv, [Next]_vars PROVE Closed
  <2>1. CASE near' = near
    BY <2>1
  <2>2. CASE Accepted
    BY <2>2 DEF Accepted, TypeOK
  <2>3. CASE DropCloses
    BY <1>1, <2>3 DEF DropCloses, CloseNear, CloseInv, Dead
  <2>4. CASE LoopEnds
    BY <1>1, <2>4 DEF LoopEnds, CloseInv
  <2>5. ASSUME NEW s \in Sess, RetCloses(s) PROVE Closed
    BY <1>1, <2>5 DEF RetCloses, CloseNear, CloseInv, Dead
  <2>6. CASE ReaperCloses
    BY <2>6 DEF ReaperCloses, CloseNear
  <2>7. ASSUME Next, ~Accepted, ~DropCloses, ~LoopEnds, ~ReaperCloses, \A s \in Sess : ~RetCloses(s)
        PROVE  near' = near
    BY <2>7 DEF Next, udpLoop, LoopRuns, udpReturnLoop, reapIdleSessions, pipeUDPServer,
       CloseCancels, CloseSocket, ReadFrom, ReadFromFails, Lookup, DialContext, DialFails,
       WriteLength, WritePayload, WriteError, DropSession, RetReads,
       RetReadFails, RetWrites, RetForgets, TurnsIdle, Tick, ReaperLocks, ReaperSweeps,
       ReaperForgets, ReaperUnlocks, ReaperEnds,
       SrvForwards, SrvReadFails, ServiceGone, ServiceSends, SrvWriteFails, SrvWritesFrame
  <2>8. CASE UNCHANGED vars
    BY <2>1, <2>8 DEF vars
  <2> QED BY <1>1, <2>1, <2>2, <2>3, <2>4, <2>5, <2>6, <2>7, <2>8
<1>2. ASSUME TypeOK, MapInv, CloseInv, [Next]_vars PROVE Chosen
  <2>1. CASE victim' = victim \/ victim' = None
    BY <2>1, BoundsAssumption DEF Sess, None
  <2>2. ASSUME NEW s \in Sess, ReaperForgets(s) PROVE Chosen
    BY <1>2, <2>2 DEF ReaperForgets, CloseInv
  <2>3. ASSUME Next, \A s \in Sess : ~ReaperForgets(s) PROVE victim' = victim \/ victim' = None
    BY <2>3 DEF Next, udpLoop, LoopRuns, udpReturnLoop, reapIdleSessions, pipeUDPServer,
       CloseCancels, CloseSocket, ReadFrom, ReadFromFails, Lookup, DialContext, DialFails, Accepted,
       WriteLength, WritePayload, WriteError, DropSession, DropCloses, LoopEnds, RetReads,
       RetReadFails, RetWrites, RetForgets, RetCloses, TurnsIdle, Tick, ReaperLocks, ReaperSweeps,
       ReaperCloses, ReaperUnlocks, ReaperEnds,
       SrvForwards, SrvReadFails, ServiceGone, ServiceSends, SrvWriteFails, SrvWritesFrame
  <2>4. CASE UNCHANGED vars
    BY <2>1, <2>4 DEF vars
  <2> QED BY <1>2, <2>1, <2>2, <2>3, <2>4
<1>3. (TypeOK /\ MapInv) /\ CloseInv /\ [Next]_vars => [Step]_vars
  BY <1>1, <1>2
<1> QED BY <1>3, MapInvariant, CloseInvariant, PTL DEF SafetySpec, OnlyDeadOrIdleClosed

----------------------------------------------------------------------------
(* Frames: what a write and a read do to the contents of a tunnel.         *)

(* An empty tunnel holds no datagram.                                      *)
LEMMA FramedEmpty ==
  ASSUME NEW hist \in Seq(Number), NEW n \in Nat
  PROVE  Framed(<<>>, hist, n, n) /\ ~Ragged(<<>>)
<1>1. [i \in 1..Len(<<>>) |-> 1] \in [1..Len(<<>>) -> 1..Len(hist)]
  OBVIOUS
<1>2. Indexed(<<>>, hist, n, n, [i \in 1..Len(<<>>) |-> 1])
  BY DEF Indexed
<1> QED BY <1>1, <1>2 DEF Framed, Ragged

(* A datagram that is sent but not yet written leaves the tunnel as it is. *)
LEMMA FramedMore ==
  ASSUME NEW q \in Seq(Write), NEW hist \in Seq(Number), NEW first \in Nat, NEW last \in Nat,
         Framed(q, hist, first, last), NEW d \in Number
  PROVE  Framed(q, Append(hist, d), first, last)
<1>1. PICK idx \in [1..Len(q) -> 1..Len(hist)] : Indexed(q, hist, first, last, idx)
  BY DEF Framed
<1>2. idx \in [1..Len(q) -> 1..Len(Append(hist, d))]
  BY <1>1
<1>3. \A i \in 1..Len(q) : Append(hist, d)[idx[i]] = hist[idx[i]]
  BY <1>1
<1>4. Indexed(q, Append(hist, d), first, last, idx)
  BY <1>1, <1>3 DEF Indexed
<1> QED BY <1>2, <1>4 DEF Framed

(* The length of the next datagram may follow whole ones.                  *)
LEMMA FramedLength ==
  ASSUME NEW q \in Seq(Write), NEW hist \in Seq(Number), NEW first \in Nat, NEW last \in Nat,
         Framed(q, hist, first, last), ~Ragged(q), last < Len(hist)
  PROVE  Framed(Append(q, Length(hist[last + 1])), hist, first, last + 1)
<1>1. PICK idx \in [1..Len(q) -> 1..Len(hist)] : Indexed(q, hist, first, last, idx)
  BY DEF Framed
<1> DEFINE n == Len(q)
           d == hist[last + 1]
           r == Append(q, Length(d))
           jdx == [i \in 1..n + 1 |-> IF i = n + 1 THEN last + 1 ELSE idx[i]]
<1>2. /\ n \in Nat /\ Len(hist) \in Nat /\ last + 1 \in 1..Len(hist) /\ d \in Number
      /\ Len(r) = n + 1 /\ r # <<>> /\ r[n + 1] = Length(d) /\ \A i \in 1..n : r[i] = q[i]
  <2>1. last + 1 \in 1..Len(hist) /\ d \in Number
    OBVIOUS
  <2>2. Length(d) \in Write
    BY <2>1 DEF Length, Write
  <2>3. \A w \in Write : Len(Append(q, w)) = n + 1 /\ Append(q, w) # <<>> /\ Append(q, w)[n + 1] = w
                         /\ \A i \in 1..n : Append(q, w)[i] = q[i]
    OBVIOUS
  <2> HIDE DEF d
  <2> QED BY <2>1, <2>2, <2>3
<1> HIDE DEF r, d
<1>3. jdx \in [1..Len(r) -> 1..Len(hist)]
  BY <1>1, <1>2
<1>4. jdx[n + 1] = last + 1 /\ \A i \in 1..n : jdx[i] = idx[i]
  BY <1>2
<1>5. Length(d).part = "length" /\ Length(d).of = d
  BY DEF Length
<1>6. r # <<>> /\ r[1].part = "length" /\ jdx[1] = first + 1
  <2>1. CASE n = 0
    <3>1. q = <<>> /\ n + 1 = 1
      BY <2>1
    <3>2. last = first
      BY <1>1, <3>1 DEF Indexed
    <3>3. r[1] = Length(d) /\ jdx[1] = last + 1
      BY <1>2, <1>4, <3>1
    <3> HIDE DEF jdx
    <3> QED BY <1>2, <1>5, <3>2, <3>3
  <2>2. CASE n > 0
    BY <1>1, <1>2, <1>4, <2>2 DEF Indexed
  <2> QED BY <1>2, <2>1, <2>2
<1>7. \A i \in 1..n + 1 : r[i].of = hist[jdx[i]]
  <2>1. r[n + 1].of = hist[jdx[n + 1]]
    BY <1>2, <1>4, <1>5 DEF d
  <2>2. \A i \in 1..n : r[i].of = hist[jdx[i]]
    BY <1>1, <1>2, <1>4 DEF Indexed
  <2> HIDE DEF jdx
  <2> QED BY <1>2, <2>1, <2>2
<1>8. ASSUME NEW i \in 2..n + 1 PROVE Follows(r, jdx, i)
  <2>1. CASE i = n + 1
    <3>1. q # <<>> /\ n \in 1..n /\ i - 1 = n
      BY <1>2, <2>1
    <3>2. Complete(q[n]) /\ idx[n] = last
      BY <1>1, <3>1 DEF Ragged, Indexed
    <3> QED BY <1>2, <1>4, <1>5, <2>1, <3>1, <3>2 DEF Follows
  <2>2. CASE i # n + 1
    <3>1. i \in 2..n /\ i \in 1..n /\ i - 1 \in 1..n
      BY <1>2, <2>2
    <3>2. Follows(q, idx, i)
      BY <1>1, <3>1 DEF Indexed
    <3> QED BY <1>2, <1>4, <3>1, <3>2 DEF Follows
  <2> QED BY <2>1, <2>2
<1> HIDE DEF jdx
<1>9. Indexed(r, hist, first, last + 1, jdx)
  BY <1>2, <1>4, <1>6, <1>7, <1>8 DEF Indexed
<1> QED BY <1>3, <1>9 DEF Framed, r, d

(* A payload may follow its length.                                        *)
LEMMA FramedPayload ==
  ASSUME NEW q \in Seq(Write), NEW hist \in Seq(Number), NEW first \in Nat, NEW last \in Nat,
         Framed(q, hist, first, last), NEW d \in Number, d \notin Empty,
         q # <<>>, q[Len(q)] = Length(d)
  PROVE  Framed(Append(q, Payload(d)), hist, first, last)
<1>1. PICK idx \in [1..Len(q) -> 1..Len(hist)] : Indexed(q, hist, first, last, idx)
  BY DEF Framed
<1> DEFINE n == Len(q)
           r == Append(q, Payload(d))
           jdx == [i \in 1..n + 1 |-> IF i = n + 1 THEN last ELSE idx[i]]
<1>2. /\ n \in Nat /\ n \in 1..n /\ Len(r) = n + 1 /\ r[n + 1] = Payload(d)
      /\ \A i \in 1..n : r[i] = q[i]
  <2>1. Payload(d) \in Write
    BY DEF Payload, Write
  <2> QED BY <2>1
<1> HIDE DEF r
<1>3. idx[n] = last /\ last \in 1..Len(hist) /\ q[n].of = hist[last]
  BY <1>1, <1>2 DEF Indexed
<1>4. jdx \in [1..Len(r) -> 1..Len(hist)]
  BY <1>1, <1>2, <1>3
<1>5. jdx[n + 1] = last /\ \A i \in 1..n : jdx[i] = idx[i]
  BY <1>2
<1>6. /\ Payload(d).part = "payload" /\ Payload(d).of = d
      /\ Length(d).part = "length" /\ Length(d).of = d
  BY DEF Payload, Length
<1>7. r # <<>> /\ r[1].part = "length" /\ jdx[1] = first + 1
  BY <1>1, <1>2, <1>5 DEF Indexed
<1>8. \A i \in 1..n + 1 : r[i].of = hist[jdx[i]]
  BY <1>1, <1>2, <1>3, <1>5, <1>6 DEF Indexed
<1>9. ASSUME NEW i \in 2..n + 1 PROVE Follows(r, jdx, i)
  <2>1. CASE i = n + 1
    BY <1>2, <1>3, <1>5, <1>6, <2>1 DEF Follows
  <2>2. CASE i # n + 1
    <3>1. i \in 2..n /\ i \in 1..n /\ i - 1 \in 1..n
      BY <1>2, <2>2
    <3>2. Follows(q, idx, i)
      BY <1>1, <3>1 DEF Indexed
    <3> QED BY <1>2, <1>5, <3>1, <3>2 DEF Follows
  <2> QED BY <2>1, <2>2
<1> HIDE DEF jdx
<1>10. Indexed(r, hist, first, last, jdx)
  BY <1>2, <1>5, <1>7, <1>8, <1>9 DEF Indexed
<1> QED BY <1>4, <1>10 DEF Framed, r

(* Reading a frame gives the next datagram and leaves those after it.      *)
LEMMA FramedRead ==
  ASSUME NEW q \in Seq(Write), NEW hist \in Seq(Number), NEW first \in Nat, NEW last \in Nat,
         Framed(q, hist, first, last), FrameReady(q)
  PROVE  /\ first < Len(hist) /\ Frame(q) = hist[first + 1]
         /\ Framed(AfterFrame(q), hist, first + 1, last)
         /\ Ragged(AfterFrame(q)) => Ragged(q)
         /\ Ragged(q) => AfterFrame(q) # <<>> /\ AfterFrame(q)[Len(AfterFrame(q))] = q[Len(q)]
<1>1. PICK idx \in [1..Len(q) -> 1..Len(hist)] : Indexed(q, hist, first, last, idx)
  BY DEF Framed
<1> DEFINE n == Len(q)
           k == FrameLen(q)
           r == AfterFrame(q)
           jdx == [i \in 1..n - k |-> idx[i + k]]
<1>2. /\ n \in Nat /\ k \in {1, 2} /\ k <= n /\ q # <<>> /\ Len(hist) \in Nat
      /\ r \in Seq(Write) /\ Len(r) = n - k
  BY FrameType DEF FrameReady
<1>3. \A i \in 1..n - k : r[i] = q[i + k]
  BY <1>2, SMTT(30) DEF AfterFrame
<1>4. Head(q) = q[1] /\ q[1].part = "length" /\ idx[1] = first + 1 /\ q[1].of = hist[first + 1]
  BY <1>1, <1>2 DEF Indexed
<1>5. first < Len(hist)
  BY <1>1, <1>2, <1>4, SMTT(30)
<1>6. k = 1 <=> q[1].of \in Empty
  BY <1>4 DEF FrameLen
<1>7. k = 2 => q[2] = Payload(q[1].of) /\ idx[2] = first + 1
  <2> SUFFICES ASSUME k = 2 PROVE q[2] = Payload(q[1].of) /\ idx[2] = first + 1
    OBVIOUS
  <2>1. 2 \in 2..n /\ 2 \in 1..n /\ q[2] \in Write
    BY <1>2
  <2>2. Follows(q, idx, 2)
    BY <1>1, <2>1 DEF Indexed
  <2>3. q[2].part = "payload" /\ idx[2] = idx[1]
    BY <1>4, <1>6, <2>2 DEF Follows, Complete
  <2>4. q[2].of = q[1].of
    BY <1>1, <1>4, <2>1, <2>3 DEF Indexed
  <2> QED BY <1>4, <2>1, <2>3, <2>4 DEF Payload, Write
<1>8. Frame(q) = hist[first + 1]
  BY <1>2, <1>4, <1>7 DEF Frame
<1>9. idx[k] = first + 1 /\ (k = 2 => q[k].part = "payload") /\ Complete(q[k])
  BY <1>2, <1>4, <1>6, <1>7 DEF Payload, Complete
<1> HIDE DEF r, k
<1>10. n > k => q[k + 1].part = "length" /\ idx[k + 1] = first + 2
  <2> SUFFICES ASSUME n > k PROVE q[k + 1].part = "length" /\ idx[k + 1] = first + 2
    OBVIOUS
  <2>1. k + 1 \in 2..n /\ (k + 1) - 1 = k /\ q[k + 1] \in Write
    BY <1>2
  <2>2. Follows(q, idx, k + 1)
    BY <1>1, <2>1 DEF Indexed
  <2>3. q[k + 1].part \in {"length", "payload"}
    BY <2>1 DEF Write
  <2>4. q[k + 1].part # "payload"
    BY <1>2, <1>6, <1>9, <2>1, <2>2 DEF Follows
  <2>5. idx[k + 1] = idx[k] + 1
    BY <2>1, <2>2, <2>4 DEF Follows
  <2> QED BY <1>9, <2>3, <2>4, <2>5
<1>11. jdx \in [1..Len(r) -> 1..Len(hist)]
  BY <1>1, <1>2
<1>12. n = k => last = first + 1
  BY <1>1, <1>2, <1>9 DEF Indexed
<1>13. n > k => idx[n] = last
  BY <1>1, <1>2 DEF Indexed
<1>14. ASSUME NEW i \in 2..n - k PROVE Follows(r, jdx, i)
  <2>1. /\ i + k \in 2..n /\ i - 1 \in 1..n - k /\ i \in 1..n - k
        /\ (i + k) - 1 = (i - 1) + k
    BY <1>2
  <2>2. Follows(q, idx, i + k)
    BY <1>1, <2>1 DEF Indexed
  <2> QED BY <1>3, <2>1, <2>2 DEF Follows
<1>15. \A i \in 1..n - k : r[i].of = hist[jdx[i]]
  <2> SUFFICES ASSUME NEW i \in 1..n - k PROVE r[i].of = hist[jdx[i]]
    OBVIOUS
  <2>1. i + k \in 1..n
    BY <1>2
  <2> QED BY <1>1, <1>3, <2>1 DEF Indexed
<1>16. r # <<>> => n > k /\ 1 \in 1..n - k /\ n - k \in 1..n - k /\ (n - k) + k = n /\ 1 + k = k + 1
  BY <1>2
<1>17. r # <<>> => r[1].part = "length" /\ jdx[1] = first + 2 /\ jdx[n - k] = last
  BY <1>3, <1>10, <1>13, <1>16
<1>18. r = <<>> => n = k
  BY <1>2
<1> HIDE DEF jdx
<1>19. Indexed(r, hist, first + 1, last, jdx)
  BY <1>2, <1>12, <1>14, <1>15, <1>17, <1>18 DEF Indexed
<1>20. r # <<>> => r[Len(r)] = q[n]
  BY <1>2, <1>3, <1>16
<1>21. Ragged(q) => r # <<>>
  BY <1>2, <1>9, <1>18 DEF Ragged
<1>22. Framed(r, hist, first + 1, last)
  BY <1>11, <1>19 DEF Framed
<1> QED BY <1>2, <1>5, <1>8, <1>20, <1>21, <1>22 DEF Ragged, r

----------------------------------------------------------------------------
(* Datagrams cross a tunnel whole.                                         *)

(* Every step keeps the state of the peer's goroutines.                    *)
LEMMA ServerStep ==
  ASSUME TypeOK, TypeOK', Handling, ServerInv, [Next]_vars
  PROVE  ServerInv'
<1> USE DEF ServerInv
<1> USE DEF loopVars, retVars, reapVars, srvVars, mapVars, tunnels
<1>1. ASSUME UNCHANGED <<far, srvOut, srvOutHas>>,
             loop' = "payload" => (loop = "payload" /\ cur' = cur)
      PROVE  ServerInv'
  BY <1>1
<1>2. CASE \/ CloseCancels \/ CloseSocket \/ ReadFromFails \/ DialContext \/ DialFails
           \/ WriteError \/ WritePayload \/ DropSession \/ DropCloses \/ LoopEnds
           \/ Tick \/ ReaperLocks \/ ReaperSweeps \/ ReaperEnds \/ Lookup
  BY <1>1, <1>2 DEF CloseCancels, CloseSocket, ReadFromFails, DialContext, DialFails, WriteError,
     WritePayload, DropSession, DropCloses, LoopEnds, Tick, ReaperLocks, ReaperSweeps, ReaperForgets,
     ReaperCloses, ReaperUnlocks, ReaperEnds, Lookup
<1>3. ASSUME NEW a \in Addr, ReadFrom(a) PROVE ServerInv'
  BY <1>1, <1>3 DEF ReadFrom
<1>4. CASE WriteLength
  BY <1>4 DEF WriteLength, AfterLengthSent
<1>5. CASE Accepted
  BY <1>5 DEF Accepted, TypeOK
<1>6. ASSUME NEW s \in Sess, udpReturnLoop(s) \/ TurnsIdle(s) PROVE ServerInv'
  BY <1>1, <1>6 DEF udpReturnLoop, RetReads, RetReadFails, RetWrites, RetForgets, RetCloses, TurnsIdle
<1>7. ASSUME NEW s \in Sess, SrvForwards(s) PROVE ServerInv'
  BY <1>1, <1>7 DEF SrvForwards
<1>8. ASSUME NEW s \in Sess, SrvReadFails(s) \/ ServiceGone(s) \/ SrvWriteFails(s) PROVE ServerInv'
  <2>1. closeBoth(s) /\ UNCHANGED <<loop, cur>>
    BY <1>8 DEF SrvReadFails, ServiceGone, SrvWriteFails
  <2> QED BY <2>1 DEF closeBoth, TypeOK
<1>9. ASSUME NEW s \in Sess, ServiceSends(s) PROVE ServerInv'
  BY <1>9 DEF ServiceSends, TypeOK
<1>10. ASSUME NEW s \in Sess, SrvWritesFrame(s) PROVE ServerInv'
  <2>1. UNCHANGED <<loop, cur, far>> /\ far[s] = "open"
    BY <1>10 DEF SrvWritesFrame, WriteFits
  <2>2. \A x \in Sess : x # s => srvOut'[x] = srvOut[x] /\ srvOutHas'[x] = srvOutHas[x]
    BY <1>10 DEF SrvWritesFrame, TypeOK
  <2>3. /\ srvOut'[s] \in {"read", "payload"}
        /\ srvOut'[s] = "payload" => srvOutHas[s] \notin Empty /\ srvOutHas'[s] = srvOutHas[s]
    BY <1>10 DEF SrvWritesFrame, AfterLengthSent, TypeOK
  <2> QED BY <2>1, <2>2, <2>3
<1>11. CASE UNCHANGED vars
  BY <1>1, <1>11 DEF vars
<1> QED BY <1>2, <1>3, <1>4, <1>5, <1>6, <1>7, <1>8, <1>9, <1>10, <1>11
        DEF Next, udpLoop, LoopRuns, reapIdleSessions, pipeUDPServer

(* The end of a sequence that something was appended to.                   *)
LEMMA AppendedWrite ==
  ASSUME NEW q \in Seq(Write), NEW w \in Write
  PROVE  Append(q, w) # <<>> /\ Append(q, w)[Len(Append(q, w))] = w
OBVIOUS

(* What Append does to a history.                                          *)
LEMMA AppendedNumber ==
  ASSUME NEW h \in Seq(Number), NEW d \in Number
  PROVE  /\ Append(h, d) \in Seq(Number) /\ Append(h, d) # <<>>
         /\ Len(h) \in Nat /\ Len(Append(h, d)) = Len(h) + 1 /\ Append(h, d)[Len(h) + 1] = d
         /\ \A i \in 1..Len(h) : Append(h, d)[i] = h[i]
OBVIOUS

(* A datagram is sent and its length is written in one step.               *)
LEMMA FramedSent ==
  ASSUME NEW q \in Seq(Write), NEW hist \in Seq(Number), NEW first \in Nat, NEW d \in Number,
         Framed(q, hist, first, Len(hist)), ~Ragged(q)
  PROVE  Framed(Append(q, Length(d)), Append(hist, d), first, Len(Append(hist, d)))
<1> DEFINE h == Append(hist, d)
<1>1. /\ Len(hist) \in Nat /\ h \in Seq(Number) /\ Len(hist) < Len(h) /\ Len(h) = Len(hist) + 1
      /\ h[Len(hist) + 1] = d
  BY AppendedNumber
<1>2. Framed(q, h, first, Len(hist))
  BY <1>1, FramedMore
<1> HIDE DEF h
<1>3. Framed(Append(q, Length(h[Len(hist) + 1])), h, first, Len(hist) + 1)
  BY <1>1, <1>2, FramedLength
<1> QED BY <1>1, <1>3 DEF h

(* Every step keeps what is under way to the peer.                         *)
LEMMA UpStep ==
  ASSUME TypeOK, TypeOK', MapInv, ServerInv, [Next]_vars, NEW x \in Sess, UpInv(x)
  PROVE  UpInv(x)'
<1> USE DEF loopVars, retVars, reapVars, srvVars, mapVars, tunnels
<1>0. /\ up[x] \in Seq(Write) /\ sent[x] \in Seq(Number) /\ got[x] \in Seq(Number)
      /\ Len(sent[x]) \in Nat /\ Len(got[x]) \in Nat
  <2>1. up[x] \in Seq(Write) /\ sent[x] \in Seq(Number) /\ got[x] \in Seq(Number)
    BY DEF TypeOK
  <2> QED BY <2>1
<1>1. ASSUME UNCHANGED <<far[x], got[x], sent[x], up[x]>>,
             near[x] # "open" => near'[x] # "open",
             loop' = "payload" /\ cur'.sess = x => loop = "payload" /\ cur' = cur,
             loop = "payload" /\ cur.sess = x =>
               \/ loop' = "payload" /\ cur' = cur
               \/ near'[x] # "open" \/ far[x] # "open"
      PROVE  UpInv(x)'
  BY <1>1 DEF UpInv
<1>2. CASE \/ CloseCancels \/ CloseSocket \/ ReadFromFails \/ DialContext \/ DialFails
           \/ Tick \/ ReaperLocks \/ ReaperUnlocks \/ ReaperEnds \/ Lookup \/ DropSession
           \/ \E s \in Sess : ReaperForgets(s)
  BY <1>1, <1>2 DEF CloseCancels, CloseSocket, ReadFromFails, DialContext, DialFails, Tick,
     ReaperLocks, ReaperUnlocks, ReaperForgets, ReaperEnds, Lookup, DropSession
<1>3. ASSUME NEW a \in Addr, ReadFrom(a) PROVE UpInv(x)'
  BY <1>1, <1>3 DEF ReadFrom
<1>4. CASE WriteError
  BY <1>1, <1>4 DEF WriteError, WriteFails
<1>5. CASE DropCloses \/ LoopEnds \/ ReaperCloses
  <2>1. near[x] # "open" => near'[x] # "open"
    BY <1>5 DEF DropCloses, LoopEnds, ReaperCloses, CloseNear
  <2> QED BY <1>1, <1>5, <2>1 DEF DropCloses, LoopEnds, ReaperCloses
<1>6. CASE Accepted
  <2>1. CASE x = made + 1
    <3>1. up[x] = <<>> /\ sent[x] = <<>> /\ got[x] = <<>>
      BY <2>1, BoundsAssumption DEF MapInv, Unopened, Untouched, TypeOK
    <3>2. UNCHANGED <<up, sent, got>> /\ loop' = "length"
      BY <1>6 DEF Accepted
    <3>3. Framed(<<>>, <<>>, 0, 0) /\ ~Ragged(<<>>)
      <4>1. <<>> \in Seq(Number)
        OBVIOUS
      <4> QED BY <4>1, FramedEmpty
    <3> QED BY <3>1, <3>2, <3>3 DEF UpInv, Prefix
  <2>2. CASE x # made + 1
    BY <1>1, <1>6, <2>2 DEF Accepted, TypeOK
  <2> QED BY <2>1, <2>2
<1>7. CASE WriteLength
  <2>1. CASE x # cur.sess
    <3>1. UNCHANGED <<far, got, near>> /\ up'[x] = up[x] /\ sent'[x] = sent[x]
      BY <1>7, <2>1 DEF WriteLength, TypeOK
    <3>2. loop = "length" /\ (loop' = "payload" => cur' = cur)
      BY <1>7 DEF WriteLength
    <3> QED BY <1>1, <2>1, <3>1, <3>2
  <2>2. CASE x = cur.sess
    <3> DEFINE d == cur.of
    <3>1. /\ far[x] = "open" /\ near[x] = "open" /\ loop = "length" /\ d \in Number
          /\ up'[x] = Append(up[x], Length(d)) /\ sent'[x] = Append(sent[x], d)
          /\ UNCHANGED <<got, far, near>>
          /\ IF d \in Empty THEN loop' = "read" ELSE loop' = "payload" /\ cur' = cur
      BY <1>7, <2>2 DEF WriteLength, WriteFits, AfterLengthSent, TypeOK
    <3>2. Prefix(got[x], sent[x]) /\ Framed(up[x], sent[x], Len(got[x]), Len(sent[x])) /\ ~Ragged(up[x])
      BY <3>1 DEF UpInv
    <3>5. Framed(up'[x], sent'[x], Len(got[x]), Len(sent'[x]))
      <4>1. Framed(Append(up[x], Length(d)), Append(sent[x], d), Len(got[x]), Len(Append(sent[x], d)))
        BY <1>0, <3>1, <3>2, FramedSent
      <4> QED BY <3>1, <4>1
    <3>6. Prefix(got'[x], sent'[x])
      BY <1>0, <3>1, <3>2 DEF Prefix
    <3>7. Length(d) \in Write /\ Length(d).of = d
      BY <3>1 DEF Length, Write
    <3>8. up'[x] # <<>> /\ up'[x][Len(up'[x])] = Length(d)
      <4>1. Append(up[x], Length(d)) # <<>>
            /\ Append(up[x], Length(d))[Len(Append(up[x], Length(d)))] = Length(d)
        BY <1>0, <3>7, AppendedWrite
      <4> QED BY <3>1, <4>1
    <3>9. Ragged(up'[x]) => d \notin Empty
      BY <3>7, <3>8 DEF Ragged, Complete
    <3> QED BY <2>2, <3>1, <3>5, <3>6, <3>8, <3>9 DEF UpInv
  <2> QED BY <2>1, <2>2
<1>8. CASE WritePayload
  <2>1. CASE x # cur.sess
    <3>1. UNCHANGED <<far, got, near, sent>> /\ up'[x] = up[x] /\ loop' = "read"
      BY <1>8, <2>1 DEF WritePayload, TypeOK
    <3> QED BY <1>1, <2>1, <3>1
  <2>2. CASE x = cur.sess
    <3> DEFINE d == cur.of
    <3>1. /\ far[x] = "open" /\ near[x] = "open" /\ loop = "payload" /\ d \in Number
          /\ up'[x] = Append(up[x], Payload(d))
          /\ UNCHANGED <<got, far, near, sent>> /\ loop' = "read"
      BY <1>8, <2>2 DEF WritePayload, WriteFits, TypeOK
    <3>2. /\ Prefix(got[x], sent[x]) /\ Framed(up[x], sent[x], Len(got[x]), Len(sent[x]))
          /\ up[x] # <<>> /\ up[x][Len(up[x])] = Length(d) /\ d \notin Empty
      BY <2>2, <3>1 DEF UpInv, ServerInv
    <3>3. Framed(up'[x], sent[x], Len(got[x]), Len(sent[x]))
      BY <1>0, <3>1, <3>2, FramedPayload
    <3>4. Payload(d) \in Write /\ Payload(d).part = "payload"
      BY <3>1 DEF Payload, Write
    <3>5. up'[x][Len(up'[x])] = Payload(d)
      BY <1>0, <3>1, <3>4
    <3>6. ~Ragged(up'[x])
      BY <3>4, <3>5 DEF Ragged, Complete
    <3> QED BY <3>1, <3>2, <3>3, <3>6 DEF UpInv
  <2> QED BY <2>1, <2>2
<1>9. ASSUME NEW s \in Sess, udpReturnLoop(s) \/ TurnsIdle(s) PROVE UpInv(x)'
  <2>1. UNCHANGED <<far, got, sent, up, loop, cur>>
    BY <1>9 DEF udpReturnLoop, RetReads, RetReadFails, RetWrites, RetForgets, RetCloses, TurnsIdle
  <2>2. near[x] # "open" => near'[x] # "open"
    BY <1>9 DEF udpReturnLoop, RetReads, RetReadFails, RetWrites, RetForgets, RetCloses, TurnsIdle,
       CloseNear
  <2> QED BY <1>1, <2>1, <2>2
<1>10. ASSUME NEW s \in Sess, SrvForwards(s) PROVE UpInv(x)'
  <2>1. UNCHANGED <<far, near, sent, loop, cur>>
    BY <1>10 DEF SrvForwards
  <2>2. CASE x # s
    <3>1. up'[x] = up[x] /\ got'[x] = got[x]
      BY <1>10, <2>2 DEF SrvForwards, TypeOK
    <3> QED BY <1>1, <2>1, <3>1
  <2>3. CASE x = s
    <3>1. /\ far[x] = "open" /\ FrameReady(up[x])
          /\ up'[x] = AfterFrame(up[x]) /\ got'[x] = Append(got[x], Frame(up[x]))
      BY <1>10, <2>3 DEF SrvForwards, TypeOK
    <3>2. Prefix(got[x], sent[x]) /\ Framed(up[x], sent[x], Len(got[x]), Len(sent[x]))
      BY <3>1 DEF UpInv
    <3>3. /\ Len(got[x]) < Len(sent[x]) /\ Frame(up[x]) = sent[x][Len(got[x]) + 1]
          /\ Framed(up'[x], sent[x], Len(got[x]) + 1, Len(sent[x]))
          /\ Ragged(up'[x]) => Ragged(up[x])
          /\ Ragged(up[x]) => up'[x] # <<>> /\ up'[x][Len(up'[x])] = up[x][Len(up[x])]
      BY <1>0, <3>1, <3>2, FramedRead
    <3>4. Frame(up[x]) \in Number
      BY <1>0, <3>1, FrameType
    <3>5. /\ Len(got'[x]) = Len(got[x]) + 1 /\ got'[x][Len(got[x]) + 1] = Frame(up[x])
          /\ \A i \in 1..Len(got[x]) : got'[x][i] = got[x][i]
      BY <1>0, <3>1, <3>4
    <3>6. Prefix(got'[x], sent'[x])
      BY <1>0, <2>1, <3>2, <3>3, <3>5, SMTT(30) DEF Prefix
    <3>7. loop = "payload" /\ cur.sess = x => Ragged(up[x]) /\ up[x][Len(up[x])] = Length(cur.of)
      <4>1. Length(cur.of).part = "length" /\ Length(cur.of).of = cur.of
        BY DEF Length
      <4> QED BY <3>1, <4>1 DEF UpInv, ServerInv, Ragged, Complete
    <3> QED BY <2>1, <3>1, <3>3, <3>5, <3>6, <3>7 DEF UpInv
  <2> QED BY <2>2, <2>3
<1>11. ASSUME NEW s \in Sess, SrvReadFails(s) \/ ServiceGone(s) \/ SrvWriteFails(s) PROVE UpInv(x)'
  <2>1. closeBoth(s) /\ UNCHANGED <<loop, cur, near>>
    BY <1>11 DEF SrvReadFails, ServiceGone, SrvWriteFails
  <2>2. CASE x = s
    BY <2>1, <2>2 DEF closeBoth, UpInv, TypeOK
  <2>3. CASE x # s
    <3>1. UNCHANGED <<far[x], got[x], sent[x], up[x]>>
      BY <2>1, <2>3 DEF closeBoth, TypeOK
    <3> QED BY <1>1, <2>1, <3>1
  <2> QED BY <2>2, <2>3
<1>12. ASSUME NEW s \in Sess, ServiceSends(s) \/ SrvWritesFrame(s) PROVE UpInv(x)'
  BY <1>1, <1>12 DEF ServiceSends, SrvWritesFrame
<1>13. CASE UNCHANGED vars
  BY <1>1, <1>13 DEF vars
<1> QED BY <1>2, <1>3, <1>4, <1>5, <1>6, <1>7, <1>8, <1>9, <1>10, <1>11, <1>12, <1>13
        DEF Next, udpLoop, LoopRuns, reapIdleSessions, ReaperSweeps, pipeUDPServer

(* Every step keeps what is under way from the peer.                       *)
LEMMA DownStep ==
  ASSUME TypeOK, TypeOK', MapInv, ServerInv, ServerInv', [Next]_vars, NEW x \in Sess, DownInv(x)
  PROVE  DownInv(x)'
<1> USE DEF loopVars, retVars, reapVars, srvVars, mapVars, tunnels
<1>0. /\ down[x] \in Seq(Write) /\ said[x] \in Seq(Number) /\ back[x] \in Seq(Number)
      /\ Len(said[x]) \in Nat /\ Len(back[x]) \in Nat /\ retHas[x] \in Number
      /\ srvOutHas[x] \in Number
  <2>1. /\ down[x] \in Seq(Write) /\ said[x] \in Seq(Number) /\ back[x] \in Seq(Number)
        /\ retHas[x] \in Number /\ srvOutHas[x] \in Number
    BY DEF TypeOK
  <2> QED BY <2>1
<1>1. ASSUME UNCHANGED <<ret[x], back[x], said[x], retHas[x], down[x], far[x], srvOut[x], srvOutHas[x]>>
      PROVE  DownInv(x)'
  BY <1>1 DEF DownInv, Read, Written
<1>2. CASE \/ CloseCancels \/ CloseSocket \/ ReadFromFails \/ DialContext \/ DialFails
           \/ Tick \/ ReaperEnds \/ Lookup \/ DropSession \/ WriteError \/ WriteLength
           \/ WritePayload \/ DropCloses \/ LoopEnds \/ ReaperLocks \/ ReaperSweeps
  BY <1>1, <1>2 DEF CloseCancels, CloseSocket, ReadFromFails, DialContext, DialFails, Tick,
     ReaperEnds, Lookup, DropSession, WriteError, WriteLength, WritePayload, DropCloses, LoopEnds,
     ReaperLocks, ReaperSweeps, ReaperForgets, ReaperCloses, ReaperUnlocks
<1>3. ASSUME NEW s \in Sess, TurnsIdle(s) \/ SrvForwards(s) PROVE DownInv(x)'
  BY <1>1, <1>3 DEF TurnsIdle, SrvForwards
<1>4. ASSUME NEW a \in Addr, ReadFrom(a) PROVE DownInv(x)'
  BY <1>1, <1>4 DEF ReadFrom
<1>5. CASE Accepted
  <2>1. CASE x = made + 1
    <3>1. down[x] = <<>> /\ said[x] = <<>> /\ back[x] = <<>>
      BY <2>1, BoundsAssumption DEF MapInv, Unopened, Untouched, TypeOK
    <3>2. UNCHANGED <<down, said, back>> /\ ret'[x] = "read" /\ srvOut'[x] = "read"
      BY <1>5, <2>1 DEF Accepted, TypeOK
    <3>3. Framed(<<>>, <<>>, 0, 0) /\ ~Ragged(<<>>)
      <4>1. <<>> \in Seq(Number)
        OBVIOUS
      <4> QED BY <4>1, FramedEmpty
    <3>4. Read(x)' = 0 /\ Written(x)' = 0 /\ 0 \in 0..Len(said'[x])
      BY <3>1, <3>2 DEF Read, Written
    <3>5. Prefix(back'[x], said'[x])
      BY <3>1, <3>2 DEF Prefix
    <3> QED BY <3>1, <3>2, <3>3, <3>4, <3>5 DEF DownInv
  <2>2. CASE x # made + 1
    BY <1>1, <1>5, <2>2 DEF Accepted, TypeOK
  <2> QED BY <2>1, <2>2
<1>6. ASSUME NEW s \in Sess, s # x, udpReturnLoop(s) \/ ServiceSends(s) \/ SrvWritesFrame(s)
      PROVE  DownInv(x)'
  <2>1. CASE udpReturnLoop(s)
    <3>1. UNCHANGED <<far, srvOut, srvOutHas>>
      BY <2>1 DEF udpReturnLoop, RetReads, RetReadFails, RetWrites, RetForgets, RetCloses
    <3>2. CASE RetReads(s)
      BY <1>1, <1>6, <3>1, <3>2 DEF RetReads, TypeOK
    <3>3. CASE RetReadFails(s)
      BY <1>1, <1>6, <3>1, <3>3 DEF RetReadFails, RetEnds, TypeOK
    <3>4. CASE RetWrites(s) /\ proxy = "closed"
      BY <1>1, <1>6, <3>1, <3>4 DEF RetWrites, RetEnds, TypeOK
    <3>5. CASE RetWrites(s) /\ proxy # "closed"
      BY <1>1, <1>6, <3>1, <3>5 DEF RetWrites, TypeOK
    <3>6. CASE RetForgets(s) \/ RetCloses(s)
      BY <1>1, <1>6, <3>1, <3>6 DEF RetForgets, RetCloses, TypeOK
    <3> QED BY <2>1, <3>2, <3>3, <3>4, <3>5, <3>6 DEF udpReturnLoop
  <2>2. CASE ServiceSends(s) \/ SrvWritesFrame(s)
    <3>1. UNCHANGED <<far, ret, retHas, back>>
      BY <2>2 DEF ServiceSends, SrvWritesFrame
    <3>2. said'[x] = said[x] /\ down'[x] = down[x] /\ srvOut'[x] = srvOut[x] /\ srvOutHas'[x] = srvOutHas[x]
      <4>1. x # s
        BY <1>6
      <4>2. CASE ServiceSends(s)
        BY <4>1, <4>2 DEF ServiceSends, tunnels, TypeOK
      <4>3. CASE SrvWritesFrame(s)
        <5>1. said'[x] = said[x] /\ srvOutHas'[x] = srvOutHas[x]
          BY <4>1, <4>3 DEF SrvWritesFrame, TypeOK
        <5>2. down'[x] = down[x] /\ srvOut'[x] = srvOut[x]
          BY <4>1, <4>3, SMTT(30) DEF SrvWritesFrame, TypeOK
        <5> QED BY <5>1, <5>2
      <4> QED BY <2>2, <4>2, <4>3
    <3> QED BY <1>1, <3>1, <3>2
  <2> QED BY <1>6, <2>1, <2>2
<1>7. CASE RetReads(x)
  <2>1. /\ ret[x] = "read" /\ FrameReady(down[x]) /\ ret'[x] = "write"
        /\ down'[x] = AfterFrame(down[x]) /\ retHas'[x] = Frame(down[x])
        /\ UNCHANGED <<back, said, far, srvOut, srvOutHas>>
    BY <1>7 DEF RetReads, TypeOK
  <2>2. PICK last \in 0..Len(said[x]) : /\ Framed(down[x], said[x], Read(x), last)
                                        /\ far[x] = "open" => last = Written(x)
    BY <2>1 DEF DownInv
  <2>3. Read(x) = Len(back[x]) /\ Read(x)' = Len(back[x]) + 1 /\ Written(x)' = Written(x) /\ last \in Nat
    BY <1>0, <2>1 DEF Read, Written
  <2>4. /\ Len(back[x]) < Len(said[x]) /\ Frame(down[x]) = said[x][Len(back[x]) + 1]
        /\ Framed(AfterFrame(down[x]), said[x], Len(back[x]) + 1, last)
        /\ Ragged(AfterFrame(down[x])) => Ragged(down[x])
        /\ Ragged(down[x]) => AfterFrame(down[x]) # <<>>
              /\ AfterFrame(down[x])[Len(AfterFrame(down[x]))] = down[x][Len(down[x])]
    BY <1>0, <2>1, <2>2, <2>3, FramedRead
  <2>5. srvOut[x] = "payload" => Ragged(down[x]) /\ down[x][Len(down[x])] = Length(srvOutHas[x])
    <3>1. Length(srvOutHas[x]).part = "length" /\ Length(srvOutHas[x]).of = srvOutHas[x]
      BY DEF Length
    <3> QED BY <2>1, <3>1 DEF DownInv, ServerInv, Ragged, Complete
  <2>6. Prefix(back[x], said[x]) /\ (Ragged(down[x]) => far[x] # "open" \/ srvOut[x] = "payload")
        /\ (srvOut[x] = "length" => said[x] # <<>> /\ said[x][Len(said[x])] = srvOutHas[x])
    BY <2>1 DEF DownInv
  <2>7. Read(x)' <= Len(said'[x]) /\ retHas'[x] = said'[x][Read(x)']
    BY <1>0, <2>1, <2>3, <2>4
  <2>8. \E l \in 0..Len(said'[x]) : /\ Framed(down'[x], said'[x], Read(x)', l)
                                    /\ far'[x] = "open" => l = Written(x)'
    BY <2>1, <2>2, <2>3, <2>4
  <2> QED BY <2>1, <2>4, <2>5, <2>6, <2>7, <2>8 DEF DownInv
<1>8. CASE RetReadFails(x) \/ RetForgets(x) \/ RetCloses(x) \/ (RetWrites(x) /\ proxy = "closed")
  <2>1. ret'[x] \notin {"read", "write"}
    BY <1>8, SMTT(30) DEF RetReadFails, RetForgets, RetCloses, RetWrites, RetEnds, TypeOK
  <2>2. back'[x] = <<>>
    BY <1>8 DEF RetReadFails, RetForgets, RetCloses, RetWrites, RetEnds, TypeOK, DownInv
  <2> QED BY <2>1, <2>2 DEF DownInv
<1>9. CASE RetWrites(x) /\ proxy # "closed"
  <2>1. /\ ret[x] = "write" /\ ret'[x] = "read" /\ back'[x] = Append(back[x], retHas[x])
        /\ UNCHANGED <<down, said, far, srvOut, srvOutHas>>
    BY <1>9 DEF RetWrites, TypeOK
  <2>2. /\ Len(back'[x]) = Len(back[x]) + 1 /\ back'[x][Len(back[x]) + 1] = retHas[x]
        /\ \A i \in 1..Len(back[x]) : back'[x][i] = back[x][i]
    BY <1>0, <2>1, AppendedNumber
  <2>3. Read(x)' = Read(x) /\ Read(x) = Len(back[x]) + 1 /\ Written(x)' = Written(x)
    BY <1>0, <2>1, <2>2 DEF Read, Written
  <2>4. Prefix(back[x], said[x]) /\ Read(x) <= Len(said[x]) /\ retHas[x] = said[x][Read(x)]
    BY <2>1 DEF DownInv
  <2>5. Prefix(back'[x], said'[x])
    BY <1>0, <2>1, <2>2, <2>3, <2>4 DEF Prefix
  <2> QED BY <2>1, <2>3, <2>5 DEF DownInv
<1>10. ASSUME NEW s \in Sess, SrvReadFails(s) \/ ServiceGone(s) \/ SrvWriteFails(s) PROVE DownInv(x)'
  <2>1. closeBoth(s) /\ UNCHANGED <<ret, retHas, back, said, down>>
    BY <1>10 DEF SrvReadFails, ServiceGone, SrvWriteFails
  <2>2. CASE x = s
    <3>1. far'[x] = "closed" /\ srvOut'[x] = "done" /\ Read(x)' = Read(x)
      BY <2>1, <2>2 DEF closeBoth, TypeOK, Read
    <3> QED BY <2>1, <3>1 DEF DownInv
  <2>3. CASE x # s
    BY <1>1, <2>1, <2>3 DEF closeBoth, TypeOK
  <2> QED BY <2>2, <2>3
<1>11. CASE ServiceSends(x)
  <2> DEFINE d == MaxIn + out'
  <2>1. /\ srvOut[x] = "read" /\ srvOut'[x] = "length" /\ srvOutHas'[x] = d
        /\ said'[x] = Append(said[x], d) /\ UNCHANGED <<ret, retHas, back, down, far>>
    BY <1>11 DEF ServiceSends, TypeOK
  <2>2. d \in Number
    BY <2>1 DEF TypeOK
  <2> HIDE DEF d
  <2>3. /\ said'[x] # <<>> /\ Len(said'[x]) = Len(said[x]) + 1 /\ said'[x][Len(said[x]) + 1] = d
        /\ \A i \in 1..Len(said[x]) : said'[x][i] = said[x][i]
    BY <1>0, <2>1, <2>2, AppendedNumber
  <2>4. Read(x)' = Read(x) /\ Written(x) = Len(said[x]) /\ Written(x)' = Len(said[x]) /\ Read(x) \in Nat
    <3>1. Read(x)' = Read(x)
      BY <2>1 DEF Read
    <3>2. Read(x) \in Nat
      <4>1. CASE ret[x] = "write"
        BY <1>0, <4>1 DEF Read
      <4>2. CASE ret[x] # "write"
        BY <1>0, <4>2 DEF Read
      <4> QED BY <4>1, <4>2
    <3>3. Written(x) = Len(said[x])
      BY <1>0, <2>1 DEF Written
    <3>4. Written(x)' = Len(said[x])
      BY <1>0, <2>1, <2>3 DEF Written
    <3> QED BY <3>1, <3>2, <3>3, <3>4
  <2>5. CASE ret[x] \in {"read", "write"}
    <3>1. PICK last \in 0..Len(said[x]) : /\ Framed(down[x], said[x], Read(x), last)
                                          /\ far[x] = "open" => last = Written(x)
      BY <2>5 DEF DownInv
    <3>2. Framed(down'[x], said'[x], Read(x)', last)
      BY <1>0, <2>1, <2>2, <2>4, <3>1, FramedMore
    <3>3. last \in 0..Len(said'[x]) /\ (far'[x] = "open" => last = Written(x)')
      BY <1>0, <2>1, <2>3, <2>4, <3>1
    <3>4. Prefix(back[x], said[x]) /\ (ret[x] = "write" => Read(x) <= Len(said[x]) /\ retHas[x] = said[x][Read(x)])
      BY <2>5 DEF DownInv
    <3>5. Prefix(back'[x], said'[x])
      BY <1>0, <2>1, <2>3, <3>4 DEF Prefix
    <3>6. ret[x] = "write" => Read(x) \in 1..Len(said[x])
      BY <1>0, <3>4 DEF Read
    <3>7. ret'[x] = "write" => Read(x)' <= Len(said'[x]) /\ retHas'[x] = said'[x][Read(x)']
      BY <1>0, <2>1, <2>3, <2>4, <3>4, <3>6
    <3>8. Ragged(down'[x]) => far'[x] # "open"
      BY <2>1, <2>5 DEF DownInv
    <3> QED BY <2>1, <2>3, <2>5, <3>2, <3>3, <3>5, <3>7, <3>8 DEF DownInv
  <2>6. CASE ret[x] \notin {"read", "write"}
    BY <2>1, <2>6 DEF DownInv
  <2> QED BY <2>5, <2>6
<1>12. CASE SrvWritesFrame(x)
  <2> DEFINE d == srvOutHas[x]
  <2>1. /\ far[x] = "open" /\ UNCHANGED <<ret, retHas, back, said, far>> /\ d \in Number
        /\ srvOut[x] \in {"length", "payload"}
    BY <1>12 DEF SrvWritesFrame, WriteFits, TypeOK
  <2>2. Read(x)' = Read(x) /\ Read(x) \in Nat
    <3>1. Read(x)' = Read(x)
      BY <2>1 DEF Read
    <3>2. Read(x) \in Nat
      <4>1. CASE ret[x] = "write"
        BY <1>0, <4>1 DEF Read
      <4>2. CASE ret[x] # "write"
        BY <1>0, <4>2 DEF Read
      <4> QED BY <4>1, <4>2
    <3> QED BY <3>1, <3>2
  <2>3. CASE ret[x] \notin {"read", "write"}
    BY <2>1, <2>3 DEF DownInv
  <2>4. CASE ret[x] \in {"read", "write"} /\ srvOut[x] = "length"
    <3>1. /\ down'[x] = Append(down[x], Length(d))
          /\ srvOut'[x] = IF d \in Empty THEN "read" ELSE "payload"
          /\ srvOut'[x] = "payload" => srvOutHas'[x] = d
      BY <1>12, <2>4 DEF SrvWritesFrame, AfterLengthSent, TypeOK
    <3>2. Written(x) = Len(said[x]) - 1 /\ Written(x)' = Len(said[x])
      BY <1>0, <2>1, <2>4, <3>1 DEF Written
    <3>3. /\ Framed(down[x], said[x], Read(x), Len(said[x]) - 1) /\ Len(said[x]) - 1 \in 0..Len(said[x])
          /\ ~Ragged(down[x]) /\ d = said[x][Len(said[x])]
      BY <2>1, <2>4, <3>2 DEF DownInv
    <3>4. Framed(down'[x], said[x], Read(x), Len(said[x]))
      <4> DEFINE last == Len(said[x]) - 1
      <4>1. last \in Nat
        BY <1>0, <3>3
      <4>2. last < Len(said[x]) /\ last + 1 = Len(said[x])
        BY <1>0, <4>1
      <4>3. Framed(down[x], said[x], Read(x), last)
        BY <3>3
      <4> HIDE DEF d, last
      <4>4. Framed(Append(down[x], Length(said[x][last + 1])), said[x], Read(x), last + 1)
        BY <1>0, <2>2, <3>3, <4>1, <4>2, <4>3, FramedLength
      <4> QED BY <3>1, <3>3, <4>2, <4>4
    <3>5. Length(d) \in Write /\ Length(d).of = d
      BY <2>1 DEF Length, Write
    <3>6. down'[x] # <<>> /\ down'[x][Len(down'[x])] = Length(d)
      <4>1. Append(down[x], Length(d)) # <<>>
            /\ Append(down[x], Length(d))[Len(Append(down[x], Length(d)))] = Length(d)
        BY <1>0, <3>5, AppendedWrite
      <4> QED BY <3>1, <4>1
    <3>7. Ragged(down'[x]) => srvOut'[x] = "payload"
      BY <3>1, <3>5, <3>6 DEF Ragged, Complete
    <3>8. srvOut'[x] # "length" /\ Len(said'[x]) \in 0..Len(said'[x])
      BY <1>0, <2>1, <3>1
    <3> QED BY <2>1, <2>2, <2>4, <3>1, <3>2, <3>4, <3>6, <3>7, <3>8 DEF DownInv
  <2>5. CASE ret[x] \in {"read", "write"} /\ srvOut[x] = "payload"
    <3>1. down'[x] = Append(down[x], Payload(d)) /\ srvOut'[x] = "read"
      BY <1>12, <2>5 DEF SrvWritesFrame, TypeOK
    <3>2. Written(x) = Len(said[x]) /\ Written(x)' = Len(said[x])
      BY <1>0, <2>1, <2>5, <3>1 DEF Written
    <3>3. /\ Framed(down[x], said[x], Read(x), Len(said[x]))
          /\ down[x] # <<>> /\ down[x][Len(down[x])] = Length(d) /\ d \notin Empty
      BY <2>1, <2>5, <3>2 DEF DownInv, ServerInv
    <3>4. Framed(down'[x], said[x], Read(x), Len(said[x]))
      <4>1. Framed(Append(down[x], Payload(d)), said[x], Read(x), Len(said[x]))
        BY <1>0, <2>1, <2>2, <3>3, FramedPayload
      <4> QED BY <3>1, <4>1
    <3>5. Payload(d) \in Write /\ Payload(d).part = "payload"
      BY <2>1 DEF Payload, Write
    <3>6. down'[x] # <<>> /\ down'[x][Len(down'[x])] = Payload(d)
      <4>1. Append(down[x], Payload(d)) # <<>>
            /\ Append(down[x], Payload(d))[Len(Append(down[x], Payload(d)))] = Payload(d)
        BY <1>0, <3>5, AppendedWrite
      <4> QED BY <3>1, <4>1
    <3>7. ~Ragged(down'[x])
      BY <3>5, <3>6 DEF Ragged, Complete
    <3>8. Len(said'[x]) \in 0..Len(said'[x])
      BY <1>0, <2>1
    <3> QED BY <2>1, <2>2, <2>5, <3>1, <3>2, <3>4, <3>7, <3>8 DEF DownInv
  <2> QED BY <2>1, <2>3, <2>4, <2>5
<1>13. CASE UNCHANGED vars
  BY <1>1, <1>13 DEF vars
<1> QED BY <1>2, <1>3, <1>4, <1>5, <1>6, <1>7, <1>8, <1>9, <1>10, <1>11, <1>12, <1>13
        DEF Next, udpLoop, LoopRuns, reapIdleSessions, pipeUDPServer, udpReturnLoop

(* Both always hold.                                                       *)
LEMMA FrameInvariant == SafetySpec => []FrameInv
<1>1. Init => FrameInv
  <2> SUFFICES ASSUME Init PROVE FrameInv
    OBVIOUS
  <2>1. ServerInv
    BY DEF Init, ServerInv
  <2>2. ASSUME NEW s \in Sess PROVE UpInv(s) /\ DownInv(s)
    BY <2>2 DEF Init, UpInv, DownInv
  <2> QED BY <2>1, <2>2 DEF FrameInv
<1>2. (TypeOK /\ MapInv) /\ (TypeOK /\ MapInv)' /\ FrameInv /\ [Next]_vars => FrameInv'
  <2> SUFFICES ASSUME TypeOK, MapInv, TypeOK', FrameInv, [Next]_vars PROVE FrameInv'
    OBVIOUS
  <2>1. ServerInv'
    BY ServerStep DEF FrameInv, MapInv
  <2>2. ASSUME NEW s \in Sess PROVE UpInv(s)'
    BY UpStep DEF FrameInv
  <2>3. ASSUME NEW s \in Sess PROVE DownInv(s)'
    BY <2>1, DownStep DEF FrameInv
  <2> QED BY <2>1, <2>2, <2>3 DEF FrameInv
<1> QED BY <1>1, <1>2, MapInvariant, PTL DEF SafetySpec

(* Prefix is the library's IsPrefix.                                       *)
LEMMA PrefixIsPrefix ==
  ASSUME NEW s \in Seq(Number), NEW t \in Seq(Number), Prefix(s, t)
  PROVE  IsPrefix(s, t)
<1>1. Len(s) \in Nat /\ Len(t) \in Nat /\ Len(s) <= Len(t) /\ \A i \in 1..Len(s) : s[i] = t[i]
  BY DEF Prefix
<1>2. SubSeq(s, 1, Len(s)) = SubSeq(t, 1, Len(s))
  BY <1>1
<1> QED BY <1>1, <1>2 DEF IsPrefix

(* Whatever number of sessions and datagrams, and however small the        *)
(* tunnels: in both directions what the other side has received is a       *)
(* prefix of what was sent, although a datagram is two writes and a tunnel *)
(* may be closed between them (writeFrame, readFrame, udpReturnLoop and    *)
(* pipeUDPServer).                                                         *)
THEOREM DatagramsAreWhole == SafetySpec => []DatagramsWhole
<1>1. (TypeOK /\ MapInv) /\ FrameInv => DatagramsWhole
  <2> SUFFICES ASSUME TypeOK, FrameInv, NEW s \in Sess
               PROVE  IsPrefix(got[s], sent[s]) /\ IsPrefix(back[s], said[s])
    BY DEF DatagramsWhole
  <2>1. /\ sent[s] \in Seq(Number) /\ got[s] \in Seq(Number)
        /\ said[s] \in Seq(Number) /\ back[s] \in Seq(Number)
    BY DEF TypeOK
  <2>2. \A t \in Seq(Number) : Prefix(<<>>, t)
    BY DEF Prefix
  <2>3. Prefix(got[s], sent[s])
    BY <2>1, <2>2 DEF FrameInv, UpInv
  <2>4. Prefix(back[s], said[s])
    BY <2>1, <2>2 DEF FrameInv, DownInv
  <2> QED BY <2>1, <2>3, <2>4, PrefixIsPrefix
<1> QED BY <1>1, MapInvariant, FrameInvariant, PTL
=============================================================================
