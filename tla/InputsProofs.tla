---------------------------- MODULE InputsProofs ----------------------------
(***************************************************************************)
(* Proofs about Inputs: the functions of Entrypoint and Addresses do what  *)
(* they are for on every input.                                            *)
(***************************************************************************)
EXTENDS Inputs, SequenceTheorems, WellFoundedInduction, TLAPS

----------------------------------------------------------------------------
(* Addresses.                                                              *)

(* An address of n bytes is a sequence of length n.                        *)
LEMMA AddressIsSeq ==
  ASSUME NEW n \in Nat, NEW ip \in Address(n)
  PROVE  ip \in Seq(0..255) /\ Len(ip) = n /\ DOMAIN ip = 1..n
<1>1. ip \in Seq(0..255)  BY SeqDef DEF Address
<1>2. DOMAIN ip = 1..n  BY DEF Address
<1>3. DOMAIN ip = 1..Len(ip) /\ Len(ip) \in Nat  BY <1>1
<1> QED  BY <1>1, <1>2, <1>3

(* The byte that comes first in each word of the kernel's text is the last *)
(* one in the address, and so on: doing it twice undoes it.                *)
LEMMA WordReversal ==
  ASSUME NEW n \in {4, 16}, NEW i \in 1..n
  PROVE  LET j == i + 3 - 2 * ((i - 1) % 4) IN
         j \in 1..n /\ j + 3 - 2 * ((j - 1) % 4) = i
OBVIOUS

(* parseHexIP gives back the address that the kernel printed.              *)
LEMMA HexInverted ==
  ASSUME NEW n \in {4, 16}, NEW ip \in Address(n)
  PROVE  parseHexIP(KernelHex(ip)) = ip /\ Len(KernelHex(ip)) % 4 = 0
<1> DEFINE j(i) == i + 3 - 2 * ((i - 1) % 4)
           hex == [i \in 1..n |-> ip[j(i)]]
<1>1. \A i \in 1..n : j(i) \in 1..n /\ j(j(i)) = i  BY WordReversal
<1>2. n \in Nat  OBVIOUS
<1>3. ip \in [1..n -> 0..255] /\ Len(ip) = n  BY <1>2, AddressIsSeq DEF Address
<1>4. KernelHex(ip) = hex  BY <1>3 DEF KernelHex
<1> HIDE DEF j
<1>5. hex \in Address(n)  BY <1>1, <1>3 DEF Address
<1>6. Len(hex) = n  BY <1>2, <1>5, AddressIsSeq
<1>7. parseHexIP(hex) = [i \in 1..n |-> hex[j(i)]]
  <2> HIDE DEF hex
  <2> QED  BY <1>6 DEF parseHexIP, j
<1>8. \A i \in 1..n : hex[j(i)] = ip[i]  BY <1>1
<1>9. parseHexIP(hex) = ip
  <2> HIDE DEF hex
  <2> QED  BY <1>3, <1>7, <1>8
<1>10. n % 4 = 0  OBVIOUS
<1> QED  BY <1>4, <1>6, <1>9, <1>10

(* What Is4 says of an address of either length.                           *)
LEMMA Is4Means ==
  /\ \A ip \in Address(4) : Len(ip) = 4 /\ Is4(ip) /\ To4(ip) = ip
  /\ \A ip \in Address(16) : /\ Len(ip) = 16
                             /\ Is4(ip) <=> SubSeq(ip, 1, 12) = MapPrefix
                             /\ To4(ip) = SubSeq(ip, 13, 16)
                             /\ To4(ip) \in Address(4)
                             /\ Is4(ip) => ip[11] = 255
<1>1. \A ip \in Address(4) : Len(ip) = 4  BY AddressIsSeq
<1>2. ASSUME NEW ip \in Address(16)
      PROVE  /\ Len(ip) = 16
             /\ Is4(ip) <=> SubSeq(ip, 1, 12) = MapPrefix
             /\ To4(ip) = SubSeq(ip, 13, 16)
             /\ To4(ip) \in Address(4)
             /\ Is4(ip) => ip[11] = 255
  <2>1. Len(ip) = 16 /\ ip \in Seq(0..255) /\ \A i \in 1..16 : ip[i] \in 0..255
    BY AddressIsSeq DEF Address
  <2>2. MapPrefix \in Address(12)  BY DEF MapPrefix, Address
  <2>3. MapPrefix \in Seq(0..255) /\ Len(MapPrefix) = 12  BY <2>2, AddressIsSeq
  <2>4. \A i \in 1..12 : MapPrefix[i] \in 0..255  BY <2>2 DEF Address
  <2>5. SubSeq(MapPrefix, 1, 12) = MapPrefix
    <3> DEFINE q == SubSeq(MapPrefix, 1, 12)
    <3>1. q \in Seq(0..255) /\ Len(q) = 12 /\ \A i \in 1..12 : q[i] = MapPrefix[i]
      BY <2>3, <2>4, SubSeqProperties
    <3> HIDE DEF q
    <3>2. q = MapPrefix  BY <2>3, <3>1, SeqEqual
    <3> QED  BY <3>2 DEF q
  <2>6. Is4(ip) <=> SubSeq(ip, 1, 12) = MapPrefix  BY <2>1, <2>3, <2>5 DEF Is4, IsPrefix
  <2>7. To4(ip) = SubSeq(ip, 13, 16)  BY <2>1 DEF To4
  <2>8. SubSeq(ip, 13, 16) \in Address(4)
    <3> DEFINE q == SubSeq(ip, 13, 16)
    <3>1. q \in Seq(0..255) /\ Len(q) = 4  BY <2>1, SubSeqProperties
    <3> HIDE DEF q
    <3>2. q \in [1..Len(q) -> 0..255]  BY <3>1, LenProperties
    <3>3. q \in Address(4)  BY <3>1, <3>2 DEF Address
    <3> QED  BY <3>3 DEF q
  <2>9. ASSUME SubSeq(ip, 1, 12) = MapPrefix PROVE ip[11] = 255
    <3>1. SubSeq(ip, 1, 12)[11] = ip[11]  BY <2>1, SubSeqProperties
    <3>2. MapPrefix[11] = 255  BY DEF MapPrefix
    <3> QED  BY <2>9, <3>1, <3>2
  <2> QED  BY <2>1, <2>6, <2>7, <2>8, <2>9
<1> QED  BY <1>1, <1>2 DEF Is4, To4

(* The addresses that the code names are different, and none is mapped.    *)
LEMMA WildcardsAndLoops ==
  /\ Zero4 \in Address(4) /\ Loop4 \in Address(4) /\ Zero4[1] = 0 /\ Loop4[1] = 127
  /\ Zero6 \in Address(16) /\ Loop6 \in Address(16) /\ Zero6 # Loop6
  /\ ~Is4(Zero6) /\ ~Is4(Loop6)
<1>1. /\ Zero6 \in Address(16) /\ Loop6 \in Address(16) /\ Zero6[11] = 0 /\ Loop6[11] = 0
      /\ Zero6[16] = 0 /\ Loop6[16] = 1
  BY DEF Zero6, Loop6, Address
<1>2. ~Is4(Zero6) /\ ~Is4(Loop6)  BY <1>1, Is4Means
<1>3. Zero4 \in Address(4) /\ Loop4 \in Address(4) /\ Zero4[1] = 0 /\ Loop4[1] = 127
  BY DEF Zero4, Loop4, Address
<1> QED  BY <1>1, <1>2, <1>3

(* A listen's address: four bytes, or sixteen that are not mapped.         *)
IsText(a) == a \in Address(4) \/ (a \in Address(16) /\ ~Is4(a))

(* The text of an address is of its family, and loopback or unspecified if *)
(* the address is.                                                         *)
LEMMA TextOf ==
  ASSUME NEW ip \in Address(4) \cup Address(16)
  PROVE  /\ IsText(IPString(ip))
         /\ IsText(ip) => IPString(ip) = ip
         /\ Is4(IPString(ip)) <=> Is4(ip)
         /\ IsLoopback(IPString(ip)) <=> IsLoopback(ip)
         /\ IsUnspecified(IPString(ip)) <=> IsUnspecified(ip)
<1>1. CASE ip \in Address(4)
  BY <1>1, Is4Means DEF IPString, IsText
<1>2. CASE ip \in Address(16) /\ Is4(ip)
  <2>1. IPString(ip) = To4(ip) /\ To4(ip) \in Address(4)  BY <1>2, Is4Means DEF IPString
  <2>2. Is4(To4(ip)) /\ To4(To4(ip)) = To4(ip)  BY <2>1, Is4Means
  <2>3. Len(ip) = 16 /\ \A a \in Address(4) : Len(a) = 4  BY <1>2, Is4Means
  <2>4. ~IsText(ip)  BY <1>2, <2>3 DEF IsText
  <2> QED  BY <1>2, <2>1, <2>2, <2>4 DEF IsText, IsLoopback, IsUnspecified
<1>3. CASE ip \in Address(16) /\ ~Is4(ip)  BY <1>3 DEF IPString, IsText
<1> QED  BY <1>1, <1>2, <1>3

(* Go's IsLoopback and IsUnspecified are true of the local addresses.      *)
LEMMA LocalMeans ==
  ASSUME NEW ip \in Address(4) \cup Address(16)
  PROVE  IsLoopback(ip) \/ IsUnspecified(ip) <=> IsLocal(ip)
<1>1. CASE ip \in Address(4)
  BY <1>1, Is4Means DEF IsLoopback, IsUnspecified, IsLocal, IsLocal4
<1>2. CASE ip \in Address(16) /\ Is4(ip)
  <2>1. ip \notin {Zero6, Loop6}  BY <1>2, WildcardsAndLoops
  <2> QED  BY <1>2, <2>1, Is4Means DEF IsLoopback, IsUnspecified, IsLocal, IsLocal4
<1>3. CASE ip \in Address(16) /\ ~Is4(ip)
  BY <1>3, Is4Means DEF IsLoopback, IsUnspecified, IsLocal
<1> QED  BY <1>1, <1>2, <1>3

----------------------------------------------------------------------------
(* Scans.                                                                  *)

IsSocket(s) ==
  /\ s.proto \in {"tcp", "udp"}
  /\ \/ s.fam = "v4" /\ s.ip \in Address(4)
     \/ s.fam = "v6" /\ s.ip \in Address(16)
  /\ s.v6only \in BOOLEAN /\ s.connected \in BOOLEAN

(* A row that is read back gives the listen of its socket, or none.        *)
ListenOf(s) == [stack |-> s.fam, proto |-> s.proto, addr |-> IPString(s.ip)]

(* A row gives a listen if its socket listens on a local address.          *)
LEMMA RowRead ==
  ASSUME NEW s, IsSocket(s)
  PROVE  parseProcNetLine(Row(s), s.proto, s.fam)
           = IF ~s.connected /\ IsLocal(s.ip) THEN {ListenOf(s)} ELSE {}
<1>1. s.ip \in Address(4) \cup Address(16)  BY DEF IsSocket
<1>2. parseHexIP(KernelHex(s.ip)) = s.ip /\ Len(KernelHex(s.ip)) % 4 = 0  BY <1>1, HexInverted
<1>3. Row(s).raw = KernelHex(s.ip) /\ Row(s).st = KernelState(s)  BY DEF Row
<1>4. (KernelState(s) = IF s.proto = "tcp" THEN "0A" ELSE "07") <=> ~s.connected
  BY DEF KernelState, IsSocket
<1>5. IsLoopback(s.ip) \/ IsUnspecified(s.ip) <=> IsLocal(s.ip)  BY <1>1, LocalMeans
<1> HIDE DEF Row
<1> QED  BY <1>2, <1>3, <1>4, <1>5 DEF parseProcNetLine, ListenOf

(* And so do all rows together.                                            *)
LEMMA ScanFinds ==
  ASSUME NEW S, \A s \in S : IsSocket(s)
  PROVE  scanProcNet(S) = {ListenOf(s) : s \in {t \in Listening(S) : IsLocal(t.ip)}}
<1> DEFINE F(p, k) == {t \in S : t.proto = p /\ t.fam = k}
           found == {ListenOf(s) : s \in {t \in Listening(S) : IsLocal(t.ip)}}
<1>1. ASSUME NEW l \in scanProcNet(S) PROVE l \in found
  <2>1. PICK p \in {"tcp", "udp"}, k \in {"v4", "v6"} :
          l \in scanProcFile({Row(s) : s \in F(p, k)}, p, k)
    BY <1>1 DEF scanProcNet
  <2>2. PICK s \in F(p, k) : l \in parseProcNetLine(Row(s), p, k)  BY <2>1 DEF scanProcFile
  <2>3. s \in S /\ s.proto = p /\ s.fam = k /\ IsSocket(s)  BY <2>2
  <2>4. l \in IF ~s.connected /\ IsLocal(s.ip) THEN {ListenOf(s)} ELSE {}  BY <2>2, <2>3, RowRead
  <2> QED  BY <2>3, <2>4 DEF Listening
<1>2. ASSUME NEW l \in found PROVE l \in scanProcNet(S)
  <2>1. PICK s \in S : ~s.connected /\ IsLocal(s.ip) /\ l = ListenOf(s)  BY <1>2 DEF Listening
  <2>2. s.proto \in {"tcp", "udp"} /\ s.fam \in {"v4", "v6"} /\ IsSocket(s)  BY <2>1 DEF IsSocket
  <2>3. l \in parseProcNetLine(Row(s), s.proto, s.fam)  BY <2>1, <2>2, RowRead
  <2>4. s \in F(s.proto, s.fam)  BY <2>1
  <2>5. l \in scanProcFile({Row(t) : t \in F(s.proto, s.fam)}, s.proto, s.fam)
    BY <2>3, <2>4 DEF scanProcFile
  <2> DEFINE G(p, k) == scanProcFile({Row(t) : t \in F(p, k)}, p, k)
  <2>6. scanProcNet(S) = UNION {G(p, k) : p \in {"tcp", "udp"}, k \in {"v4", "v6"}}
    BY DEF scanProcNet
  <2>7. l \in G(s.proto, s.fam)  BY <2>5
  <2> HIDE DEF G
  <2> QED  BY <2>2, <2>6, <2>7
<1> QED  BY <1>1, <1>2

----------------------------------------------------------------------------
(* Proxies.                                                                *)

(* A proxy's socket, where there is one, is bound to the address of the    *)
(* service's, which is then of its family, and serves no other clients     *)
(* than it, all of one family.                                             *)
LEMMA ProxySocket ==
  ASSUME NEW s, IsSocket(s), NEW ps \in StartProxyListen(ListenOf(s))
  PROVE  /\ ps.proto = s.proto
         /\ IPString(s.ip) = s.ip /\ (Is4(s.ip) <=> s.fam = "v4")
         /\ \A d : Serves(ps, d) => Serves(s, d) /\ (Is4(d) <=> Is4(s.ip))
<1> DEFINE addr == IPString(s.ip)
           net == dialNetwork(s.fam, s.proto)
<1>1. s.ip \in Address(4) \cup Address(16) /\ s.fam \in {"v4", "v6"}  BY DEF IsSocket
<1>2. net.proto = s.proto /\ net.suffix = IF s.fam = "v6" THEN "6" ELSE "4"  BY DEF dialNetwork
<1>3. ps \in netListen(net, addr)  BY DEF StartProxyListen, ListenOf
<1>4. ps.proto = s.proto  BY <1>2, <1>3 DEF netListen
<1>5. CASE s.fam = "v4"
  <2>1. net.suffix = "4"  BY <1>2, <1>5
  <2>2. Is4(addr) /\ ps.ip = addr
    <3> HIDE DEF addr, net
    <3> QED  BY <1>3, <2>1 DEF netListen
  <2>3. s.ip \in Address(4)  BY <1>5 DEF IsSocket
  <2>4. addr = s.ip /\ Is4(s.ip)  BY <2>3, Is4Means, TextOf DEF IsText
  <2>5. ASSUME NEW d, Serves(ps, d) PROVE Serves(s, d) /\ (Is4(d) <=> Is4(s.ip))
    BY <2>2, <2>4, <2>5 DEF Serves
  <2> QED  BY <1>4, <1>5, <2>4, <2>5
<1>6. CASE s.fam = "v6"
  <2>1. net.suffix = "6"  BY <1>2, <1>6
  <2>2. ~Is4(addr) /\ ps.ip = addr /\ ps.v6only
    <3> HIDE DEF addr, net
    <3> QED  BY <1>3, <2>1 DEF netListen
  <2>3. ~Is4(s.ip)  BY <1>1, <2>2, TextOf
  <2>4. addr = s.ip  BY <2>3 DEF IPString
  <2>5. ASSUME NEW d, Serves(ps, d) PROVE Serves(s, d) /\ (Is4(d) <=> Is4(s.ip))
    BY <2>2, <2>3, <2>4, <2>5 DEF Serves
  <2> QED  BY <1>4, <1>6, <2>3, <2>4, <2>5
<1> QED  BY <1>1, <1>5, <1>6

(* The address that is dialled for a listen reaches the sockets that would *)
(* have answered the client that its proxy serves.                         *)
LEMMA DialledForClient ==
  ASSUME NEW S, \A s \in S : IsSocket(s), Compatible(S), NEW s \in Listening(S), IsLocal(s.ip),
         NEW ps \in StartProxyListen(ListenOf(s)), NEW d \in Dst, IsLoopback(d), Serves(ps, d)
  PROVE  connectReaches(ListenOf(s), Listening(S))
           = {t \in Listening(S) : t.proto = s.proto /\ Serves(t, d)}
<1> DEFINE l == ListenOf(s)
           target == dialTarget(l)
           net == dialNetwork(s.fam, s.proto)
<1>1. IsSocket(s) /\ s \in S  BY DEF Listening
<1>2. s.ip \in Address(4) \cup Address(16) /\ s.fam \in {"v4", "v6"} /\ s.proto \in {"tcp", "udp"}
  BY <1>1 DEF IsSocket
<1>3. /\ IPString(s.ip) = s.ip /\ (Is4(s.ip) <=> s.fam = "v4")
      /\ Serves(s, d) /\ (Is4(d) <=> Is4(s.ip))
  BY <1>1, ProxySocket
<1>4. l.stack = s.fam /\ l.proto = s.proto /\ l.addr = s.ip  BY <1>3 DEF ListenOf
<1>5. parseListenParams(l)
  <2>1. IsLoopback(s.ip) \/ IsUnspecified(s.ip)  BY <1>2, LocalMeans
  <2> HIDE DEF l
  <2> QED  BY <1>2, <1>3, <1>4, <2>1
           DEF parseListenParams, isLoopbackOrUnspecified, addrMatchesStack
<1>6. net.proto = s.proto /\ (net.suffix = "4" <=> s.fam = "v4")  BY <1>2 DEF dialNetwork
<1>7. target = IF IsUnspecified(s.ip) THEN IF s.fam = "v6" THEN Loop6 ELSE Loop4 ELSE s.ip
  <2> HIDE DEF l
  <2> QED  BY <1>4 DEF dialTarget
<1>8. Is4(target) <=> s.fam = "v4"
  <2>1. Is4(Loop4) /\ ~Is4(Loop6)  BY WildcardsAndLoops, Is4Means
  <2> HIDE DEF target
  <2> QED  BY <1>2, <1>3, <1>7, <2>1
<1>9. connectReaches(l, Listening(S)) = {t \in Listening(S) : t.proto = s.proto /\ Serves(t, target)}
  <2>1. connectReaches(l, Listening(S)) = netDial(dialNetwork(l.stack, l.proto), dialTarget(l), Listening(S))
    <3> HIDE DEF l
    <3> QED  BY <1>5 DEF connectReaches
  <2>2. connectReaches(l, Listening(S)) = netDial(net, target, Listening(S))
    <3> HIDE DEF l
    <3> QED  BY <1>4, <2>1
  <2> HIDE DEF l, net, target
  <2> QED  BY <1>6, <1>8, <2>2 DEF netDial
<1>10. \A t \in Listening(S) : t.proto = s.proto => (Serves(t, target) <=> Serves(t, d))
  <2>1. CASE ~IsUnspecified(s.ip)
    <3>1. IPString(s.ip) = d  BY <1>3, <2>1 DEF Serves
    <3>2. target = d
      <4> HIDE DEF target
      <4> QED  BY <1>3, <1>7, <2>1, <3>1
    <3> QED  BY <3>2
  <2>2. CASE IsUnspecified(s.ip) /\ s.fam = "v6"
    <3>1. ~Is4(d) /\ d = Loop6  BY <1>3, <2>2 DEF IsLoopback
    <3>2. target = Loop6
      <4> HIDE DEF target
      <4> QED  BY <1>7, <2>2
    <3> HIDE DEF target
    <3> QED  BY <3>1, <3>2
  <2>3. CASE IsUnspecified(s.ip) /\ s.fam = "v4"
    <3>1. target = Loop4
      <4> HIDE DEF target
      <4> QED  BY <1>7, <2>3
    <3>2. Is4(Loop4) /\ Loop4 \in Dst  BY WildcardsAndLoops, Is4Means, ClientAssumption
    <3>3. Serves(s, Loop4)  BY <1>3, <2>3, <3>2 DEF Serves
    <3>4. ASSUME NEW t \in Listening(S), t.proto = s.proto, Serves(t, Loop4) \/ Serves(t, d) PROVE t = s
      <4>1. Overlap(s, t)  BY <1>3, <3>2, <3>3, <3>4 DEF Overlap
      <4> QED  BY <4>1 DEF Compatible
    <3> HIDE DEF target
    <3> QED  BY <1>3, <3>1, <3>3, <3>4
  <2> QED  BY <1>2, <2>1, <2>2, <2>3
<1> HIDE DEF l, target
<1>11. connectReaches(l, Listening(S)) = {t \in Listening(S) : t.proto = s.proto /\ Serves(t, d)}
  BY <1>9, <1>10
<1> QED  BY <1>11 DEF l

----------------------------------------------------------------------------
(* Every input is one of those given.                                      *)

Given ==
  /\ in.kind = "command" => /\ in.rt.env \in Env /\ in.cfg.env \in Env
                            /\ in.rt.user = NoUser /\ in.cfg.user = NoUser
  /\ in.kind = "user" => in.spec \in UserSpec /\ in.passwd \in File /\ in.group \in File
  /\ in.kind = "connection" => /\ in.socks \in Container /\ Compatible(in.socks)
                               /\ in.client \in Client

(* Inputs come from the given sets.                                        *)
LEMMA AlwaysGiven == Spec => []Given
<1>1. Init => Given  BY DEF Init, Given
<1>2. Given /\ [Next]_in => Given'
  <2> SUFFICES ASSUME Given, [Next]_in PROVE Given'  OBVIOUS
  <2>1. CASE PickCommand
    <3>1. PICK base \in Env, over \in Env, c \in Commands, fs \in Tree :
            in' = [kind |-> "command", rt |-> Runtime(c[1], base), cfg |-> Runtime(c[2], over),
                   sys |-> [fs |-> fs, passwd |-> NoFile, group |-> NoFile]]
      BY <2>1 DEF PickCommand
    <3>2. in'.kind = "command" /\ in'.rt = Runtime(c[1], base) /\ in'.cfg = Runtime(c[2], over)
      BY <3>1
    <3>3. \A r, e : Runtime(r, e).env = e /\ Runtime(r, e).user = NoUser  BY DEF Runtime
    <3> QED  BY <3>2, <3>3 DEF Given
  <2>2. CASE PickUser
    <3>1. PICK s \in UserSpec, p \in File, g \in File :
            in' = [kind |-> "user", spec |-> s, passwd |-> p, group |-> g]
      BY <2>2 DEF PickUser
    <3> QED  BY <3>1 DEF Given
  <2>3. CASE PickConnection
    <3>1. PICK S \in Container, c \in Client, p \in {"tcp", "udp"} :
            Compatible(S) /\ in' = [kind |-> "connection", socks |-> S, client |-> c, proto |-> p]
      BY <2>3 DEF PickConnection
    <3>2. in'.kind = "connection" /\ in'.socks = S /\ in'.client = c  BY <3>1
    <3> QED  BY <3>1, <3>2 DEF Given
  <2>4. CASE in' = in  BY <2>4 DEF Given
  <2> QED  BY <2>1, <2>2, <2>3, <2>4 DEF Next
<1> QED  BY <1>1, <1>2, PTL DEF Spec

(* A scan of /proc/net reports exactly the sockets that listen on local    *)
(* addresses, whatever sockets there are.                                  *)
THEOREM ScansAreExact == Spec => []ScanIsExact
<1>1. Given => ScanIsExact
  <2> SUFFICES ASSUME Given, in.kind = "connection"
               PROVE  Reported = {ListenOf(s) : s \in {t \in Listening(in.socks) : IsLocal(t.ip)}}
    BY DEF ScanIsExact, ListenOf
  <2>1. \A s \in in.socks : IsSocket(s)  BY SocketAssumption DEF Given, IsSocket
  <2> QED  BY <2>1, ScanFinds DEF Reported
<1> QED  BY <1>1, AlwaysGiven, PTL

(* What a proxy lets through comes from inside the container and reaches   *)
(* the service it would have reached in the owner's, and proxies for one   *)
(* container do not compete, whatever sockets and clients there are.       *)
THEOREM AlwaysForwarded == Spec => []ForwardedToService
<1>1. Given => ForwardedToService
  <2> SUFFICES ASSUME Given, in.kind = "connection"
               PROVE  /\ \A l \in Through : /\ ~in.client.remote
                                            /\ connectReaches(l, Listening(in.socks)) = Service
                      /\ \A l, m \in Reported : l # m =>
                           \A s \in StartProxyListen(l), t \in StartProxyListen(m) : ~Overlap(s, t)
    BY DEF ForwardedToService
  <2> DEFINE S == in.socks
             c == in.client
  <2>1. \A s \in S : IsSocket(s)  BY SocketAssumption DEF Given, IsSocket
  <2>2. Compatible(S) /\ c \in Client /\ c.dst \in Dst  BY ClientAssumption DEF Given
  <2>3. ASSUME NEW l \in Reported PROVE \E s \in Listening(S) : IsLocal(s.ip) /\ l = ListenOf(s)
    <3>1. Reported = {ListenOf(s) : s \in {t \in Listening(S) : IsLocal(t.ip)}}
      BY <2>1, ScanFinds DEF Reported
    <3> QED  BY <2>3, <3>1
  <2>4. ASSUME NEW l \in Through
        PROVE  ~c.remote /\ connectReaches(l, Listening(S)) = Service
    <3>1. l \in Reported /\ l.proto = in.proto /\ ~rejectsRemote(l, c.src)  BY <2>4 DEF Through
    <3>2. PICK ps \in StartProxyListen(l) : Serves(ps, c.dst)  BY <2>4 DEF Through
    <3>3. PICK s \in Listening(S) : IsLocal(s.ip) /\ l = ListenOf(s)  BY <2>3, <3>1
    <3>4. IsSocket(s)  BY <2>1 DEF Listening
    <3>5. l.addr = s.ip /\ l.proto = s.proto /\ IPString(s.ip) = s.ip /\ Serves(s, c.dst)
      BY <3>2, <3>3, <3>4, ProxySocket DEF ListenOf
    <3>6. ~c.remote
      <4> SUFFICES ASSUME c.remote PROVE FALSE  OBVIOUS
      <4>1. /\ ~IsLoopback(c.dst) /\ ~IsUnspecified(c.dst)
            /\ ~IsLoopback(c.src) /\ ~IsUnspecified(c.src)
        BY <2>2, ClientAssumption
      <4>2. IsLoopback(s.ip) \/ IsUnspecified(s.ip)
        <5>1. s.ip \in Address(4) \cup Address(16)  BY <3>4 DEF IsSocket
        <5> QED  BY <3>3, <5>1, LocalMeans
      <4>3. s.ip # c.dst  BY <4>1, <4>2
      <4>4. IsUnspecified(s.ip)  BY <3>5, <4>3 DEF Serves
      <4> QED  BY <3>1, <3>5, <4>1, <4>4 DEF rejectsRemote, isLocalPeer
    <3>7. IsLoopback(c.dst)  BY <2>2, <3>6, ClientAssumption
    <3>8. connectReaches(ListenOf(s), Listening(S))
            = {t \in Listening(S) : t.proto = s.proto /\ Serves(t, c.dst)}
      <4> HIDE DEF S, c
      <4> QED  BY <2>1, <2>2, <3>2, <3>3, <3>7, DialledForClient
    <3>9. Service = {t \in Listening(S) : t.proto = s.proto /\ Serves(t, c.dst)}
      BY <3>1, <3>5 DEF Service
    <3> QED  BY <3>3, <3>6, <3>8, <3>9
  <2>5. ASSUME NEW l \in Reported, NEW m \in Reported, l # m,
               NEW ps \in StartProxyListen(l), NEW pt \in StartProxyListen(m), Overlap(ps, pt)
        PROVE  FALSE
    <3>1. PICK s \in Listening(S) : IsLocal(s.ip) /\ l = ListenOf(s)  BY <2>3
    <3>2. PICK t \in Listening(S) : IsLocal(t.ip) /\ m = ListenOf(t)  BY <2>3
    <3>3. IsSocket(s) /\ IsSocket(t)  BY <2>1 DEF Listening
    <3>4. PICK d \in Dst : Serves(ps, d) /\ Serves(pt, d)  BY <2>5 DEF Overlap
    <3>5. ps.proto = s.proto /\ Serves(s, d)  BY <3>1, <3>3, <3>4, ProxySocket
    <3>6. pt.proto = t.proto /\ Serves(t, d)  BY <3>2, <3>3, <3>4, ProxySocket
    <3>7. Overlap(s, t)  BY <2>5, <3>4, <3>5, <3>6 DEF Overlap
    <3>8. s # t  BY <2>5, <3>1, <3>2
    <3> QED  BY <2>2, <3>7, <3>8 DEF Compatible
  <2> QED  BY <2>4, <2>5
<1> QED  BY <1>1, AlwaysGiven, PTL

----------------------------------------------------------------------------
(* Users.                                                                  *)

(* A nonempty set of numbers has a smallest element, which Min is.         *)
LEMMA MinIs ==
  ASSUME NEW S, S \subseteq Nat, S # {}
  PROVE  Min(S) \in S /\ \A m \in S : Min(S) <= m
<1> DEFINE R == OpToRel(<, Nat)
<1>1. PICK n \in S : \A m \in S : <<m, n>> \notin R
  <2>1. IsWellFoundedOn(R, Nat)  BY NatLessThanWellFounded
  <2> HIDE DEF R
  <2> QED  BY <2>1, WFMin
<1>2. \A m \in S : <<m, n>> \in R <=> m < n  BY DEF OpToRel
<1>3. \A m \in S : ~(m < n)
  <2> HIDE DEF R
  <2> QED  BY <1>1, <1>2
<1>4. \A m \in S : n <= m  BY <1>3
<1> QED  BY <1>4 DEF Min

(* A name that is found has ids that a line of that name holds.            *)
LEMMA LookupFinds ==
  ASSUME NEW file \in File, NEW name, NEW n \in {1, 2}, lookupName(file, name, n).ok
  PROVE  /\ lookupName(file, name, n).ids \in Seq(Nat)
         /\ Len(lookupName(file, name, n).ids) = n
         /\ \A k \in 1..n : Names(file, name, k, lookupName(file, name, n).ids[k])
<1> DEFINE lines == file.lines
           cut == {i \in DOMAIN lines : lines[i].long}
           read == {i \in DOMAIN lines : \A j \in cut : i < j}
           hits == {i \in read : /\ lines[i].name = name /\ Len(lines[i].ids) >= n
                                 /\ \A k \in 1..n : ParseUint(lines[i].ids[k]) # <<>>}
           found == [k \in 1..n |-> ParseUint(lines[Min(hits)].ids[k])[1]]
<1>1. file.open \in {"ok", "missing", "error"} /\ lines \in Seq(Line)  BY UserAssumption
<1>2. lookupName(file, name, n)
        = IF file.open = "error" THEN [ok |-> FALSE, err |-> TRUE]
          ELSE IF file.open = "missing" THEN [ok |-> FALSE, err |-> FALSE]
          ELSE IF hits = {} THEN [ok |-> FALSE, err |-> cut # {}]
          ELSE [ok |-> TRUE, err |-> FALSE, ids |-> found]
  BY DEF lookupName
<1>3. file.open = "ok" /\ hits # {} /\ lookupName(file, name, n).ids = found
  <2> HIDE DEF cut, hits, found
  <2> QED  BY <1>1, <1>2
<1> DEFINE h == Min(hits)
<1>4. h \in hits
  <2>1. hits \subseteq Nat  BY <1>1
  <2> HIDE DEF hits
  <2> QED  BY <1>3, <2>1, MinIs
<1>5. /\ h \in DOMAIN lines /\ lines[h].name = name /\ Len(lines[h].ids) >= n
      /\ \A k \in 1..n : ParseUint(lines[h].ids[k]) # <<>>
  <2> HIDE DEF h
  <2> QED  BY <1>4
<1>6. lines[h] \in Line /\ lines[h].ids \in Seq(Text)
  <2> HIDE DEF h
  <2>1. lines[h] \in Line  BY <1>1, <1>5
  <2> QED  BY <2>1 DEF Line
<1>7. ASSUME NEW k \in 1..n
      PROVE  Value[lines[h].ids[k]] = found[k] /\ found[k] \in Nat /\ Len(lines[h].ids) >= k
  <2>1. ParseUint(lines[h].ids[k]) # <<>>  BY <1>5
  <2>2. /\ ParseUint(lines[h].ids[k]) = <<Value[lines[h].ids[k]]>>
        /\ Value[lines[h].ids[k]] \in 0..(2^Width - 1)
    <3> HIDE DEF h
    <3> QED  BY <2>1 DEF ParseUint
  <2>3. found[k] = ParseUint(lines[h].ids[k])[1]  OBVIOUS
  <2>4. Value[lines[h].ids[k]] = found[k] /\ found[k] \in Nat
    <3> HIDE DEF h, found
    <3> QED  BY <2>2, <2>3
  <2>5. Len(lines[h].ids) \in Nat /\ k <= n
    <3> HIDE DEF h
    <3> QED  BY <1>6
  <2>6. Len(lines[h].ids) >= k
    <3> DEFINE L == Len(lines[h].ids)
    <3>0. L \in Nat /\ L >= n
      <4> HIDE DEF h, hits
      <4> QED  BY <1>5, <2>5
    <3> HIDE DEF h, hits, L
    <3>1. L \in Nat /\ L >= n /\ k <= n /\ k \in Nat /\ n \in Nat  BY <3>0
    <3>2. L >= k  BY <3>1
    <3> QED  BY <3>2 DEF L
  <2> QED  BY <2>4, <2>6
<1>8. \A k \in 1..n : Names(file, name, k, found[k])
  <2> HIDE DEF h, found
  <2> QED  BY <1>3, <1>5, <1>7 DEF Names
<1>9. found \in Seq(Nat) /\ Len(found) = n
  <2>1. found \in [1..n -> Nat]
    <3>1. \A k \in 1..n : found[k] \in Nat  BY <1>7
    <3> QED  BY <3>1
  <2> HIDE DEF found
  <2>2. n \in Nat  OBVIOUS
  <2> QED  BY <2>1, <2>2
<1> HIDE DEF found
<1> QED  BY <1>3, <1>8, <1>9

(* What ParseUint returns is nothing, or the number of the text.           *)
LEMMA ParsedIs ==
  ASSUME NEW text
  PROVE  /\ ParseUint(text) = <<>> \/ ParseUint(text) = <<Value[text]>>
         /\ ParseUint(text) # <<>> => Value[text] \in Nat /\ ParseUint(text) = <<Value[text]>>
BY DEF ParseUint

(* A user's ids are those of a line of that name, or the number given and  *)
(* group 0.                                                                *)
LEMMA UserIdsAre ==
  ASSUME NEW passwd \in File, NEW user, userIds(passwd, user) # <<>>
  PROVE  LET ids == userIds(passwd, user) IN
         \/ Names(passwd, user, 1, ids[1]) /\ Names(passwd, user, 2, ids[2])
         \/ Value[user] = ids[1] /\ ids[2] = 0
<1> DEFINE pu == lookupName(passwd, user, 2)
           ids == userIds(passwd, user)
<1>1. CASE pu.ok
  <2>1. ids = pu.ids
    <3> HIDE DEF pu
    <3> QED  BY <1>1 DEF userIds, pu
  <2>2. \A k \in 1..2 : Names(passwd, user, k, pu.ids[k])  BY <1>1, LookupFinds
  <2> HIDE DEF pu, ids
  <2>3. Names(passwd, user, 1, ids[1]) /\ Names(passwd, user, 2, ids[2])  BY <2>1, <2>2
  <2> QED  BY <2>3 DEF ids
<1>2. CASE ~pu.ok
  <2>1. ParseUint(user) # <<>> /\ ids = ParseUint(user) \o <<0>>
    <3> HIDE DEF pu
    <3> QED  BY <1>2 DEF userIds, pu
  <2>2. Value[user] \in Nat /\ ParseUint(user) = <<Value[user]>>  BY <2>1, ParsedIs
  <2>3. ASSUME NEW w \in Nat PROVE (<<w>> \o <<0>>)[1] = w /\ (<<w>> \o <<0>>)[2] = 0
    <3>1. /\ <<w>> \in Seq(Nat) /\ Len(<<w>>) = 1 /\ <<w>>[1] = w
          /\ <<0>> \in Seq(Nat) /\ Len(<<0>>) = 1 /\ <<0>>[1] = 0
      OBVIOUS
    <3>2. \A i \in 1..2 : (<<w>> \o <<0>>)[i] = IF i <= 1 THEN <<w>>[i] ELSE <<0>>[i - 1]
      BY <3>1, ConcatProperties
    <3> QED  BY <3>1, <3>2
  <2>4. ids[1] = Value[user] /\ ids[2] = 0
    <3> HIDE DEF ids
    <3> QED  BY <2>1, <2>2, <2>3
  <2> QED  BY <2>4
<1> QED  BY <1>1, <1>2

(* A group's id was asked for by number or by name.                        *)
LEMMA GroupIdIs ==
  ASSUME NEW group \in File, NEW name, groupId(group, name) # <<>>
  PROVE  LET gid == groupId(group, name) IN
         Value[name] = gid[1] \/ Names(group, name, 1, gid[1])
<1> DEFINE g == lookupName(group, name, 1)
           gid == groupId(group, name)
<1>1. CASE ParseUint(name) # <<>>
  <2>1. gid = ParseUint(name)  BY <1>1 DEF groupId
  <2>2. gid = <<Value[name]>>  BY <1>1, <2>1, ParsedIs
  <2> HIDE DEF gid
  <2>3. gid[1] = Value[name]  BY <2>2
  <2> QED  BY <2>3 DEF gid
<1>2. CASE ParseUint(name) = <<>>
  <2>1. g.ok /\ gid = g.ids
    <3> HIDE DEF g
    <3> QED  BY <1>2 DEF groupId, g
  <2>2. \A k \in 1..1 : Names(group, name, k, g.ids[k])  BY <2>1, LookupFinds
  <2> HIDE DEF g, gid
  <2>3. Names(group, name, 1, gid[1])  BY <2>1, <2>2
  <2> QED  BY <2>3 DEF gid
<1> QED  BY <1>1, <1>2

(* A process gets an id only because it was asked for, whatever the files  *)
(* of users and groups hold and however many bits an id has.               *)
THEOREM IdsAreAsked == Spec => []IdsAsAsked
<1>1. Given => IdsAsAsked
  <2> SUFFICES ASSUME Given, in.kind = "user", resolveUser(in.passwd, in.group, in.spec) # <<>>
               PROVE  LET ids == resolveUser(in.passwd, in.group, in.spec)
                          s == in.spec IN
                      /\ s = NoUser \/ Value[s.user] = ids[1] \/ Names(in.passwd, s.user, 1, ids[1])
                      /\ IF s.hasGroup
                         THEN Value[s.group] = ids[2] \/ Names(in.group, s.group, 1, ids[2])
                         ELSE \/ Names(in.passwd, s.user, 2, ids[2])
                              \/ ids[2] = 0 /\ (s = NoUser \/ Value[s.user] = ids[1])
    BY DEF IdsAsAsked
  <2> DEFINE s == in.spec
             uids == userIds(in.passwd, s.user)
             gid == groupId(in.group, s.group)
             ids == resolveUser(in.passwd, in.group, s)
  <2>1. /\ s \in [user : Text, hasGroup : BOOLEAN, group : Text] /\ (~s.hasGroup => s.group = "")
        /\ in.passwd \in File /\ in.group \in File
    BY UserAssumption DEF Given
  <2>2. CASE s.user = "" /\ ~s.hasGroup
    <3>1. s = NoUser
      <4>1. s.group = ""  BY <2>1, <2>2
      <4>2. s = [user |-> s.user, hasGroup |-> s.hasGroup, group |-> s.group]  BY <2>1
      <4>3. s.hasGroup = FALSE  BY <2>1, <2>2
      <4> QED  BY <2>2, <4>1, <4>2, <4>3 DEF NoUser
    <3>2. ids = <<0, 0>>  BY <2>2 DEF resolveUser
    <3>3. ids[2] = 0
      <4> HIDE DEF ids
      <4> QED  BY <3>2
    <3> QED  BY <2>2, <3>1, <3>3
  <2>3. CASE ~(s.user = "" /\ ~s.hasGroup)
    <3>1. /\ uids # <<>>
          /\ ~s.hasGroup => ids = uids
          /\ s.hasGroup => gid # <<>> /\ ids = <<uids[1], gid[1]>>
      BY <2>3 DEF resolveUser
    <3>2. \/ Names(in.passwd, s.user, 1, uids[1]) /\ Names(in.passwd, s.user, 2, uids[2])
          \/ Value[s.user] = uids[1] /\ uids[2] = 0
      BY <2>1, <3>1, UserIdsAre
    <3>3. CASE ~s.hasGroup
      <4>1. ids = uids  BY <3>1, <3>3
      <4> HIDE DEF ids, uids
      <4>2. /\ Value[s.user] = ids[1] \/ Names(in.passwd, s.user, 1, ids[1])
            /\ Names(in.passwd, s.user, 2, ids[2]) \/ (ids[2] = 0 /\ Value[s.user] = ids[1])
        BY <3>2, <4>1
      <4> QED  BY <3>3, <4>2 DEF ids
    <3>4. CASE s.hasGroup
      <4>1. gid # <<>> /\ ids = <<uids[1], gid[1]>>  BY <3>1, <3>4
      <4>2. Value[s.group] = gid[1] \/ Names(in.group, s.group, 1, gid[1])  BY <2>1, <4>1, GroupIdIs
      <4>3. ids[1] = uids[1] /\ ids[2] = gid[1]
        <5> HIDE DEF ids, uids, gid
        <5> QED  BY <4>1
      <4> HIDE DEF ids, uids, gid
      <4>4. /\ Value[s.user] = ids[1] \/ Names(in.passwd, s.user, 1, ids[1])
            /\ Value[s.group] = ids[2] \/ Names(in.group, s.group, 1, ids[2])
        BY <3>2, <4>2, <4>3
      <4> QED  BY <3>4, <4>4 DEF ids
    <3> QED  BY <3>3, <3>4
  <2> QED  BY <2>2, <2>3
<1> QED  BY <1>1, AlwaysGiven, PTL

----------------------------------------------------------------------------
(* Environments.                                                           *)

(* mergeSteps is the function its recursive definition describes: there is *)
(* one for every length, or there would be a smallest length without one.  *)
StepsTo(base, over, n, g) ==
  g = [k \in 0..n |-> IF k = 0 THEN base ELSE setEnv(g[k - 1], over[k])]

(* There is such a function for every n, by induction on n: for the        *)
(* smallest n without one, the one for n - 1 can be extended.              *)
LEMMA StepsExist ==
  ASSUME NEW base, NEW over, NEW n \in Nat
  PROVE  \E g : StepsTo(base, over, n, g)
<1> DEFINE S == {m \in Nat : ~\E g : StepsTo(base, over, m, g)}
           m == Min(S)
<1> SUFFICES ASSUME S # {} PROVE FALSE  OBVIOUS
<1>1. m \in S /\ \A k \in S : m <= k
  <2>1. S \subseteq Nat  OBVIOUS
  <2> HIDE DEF S
  <2> QED  BY <2>1, MinIs
<1> HIDE DEF m
<1>2. m # 0
  <2>1. StepsTo(base, over, 0, [k \in 0..0 |-> base])  BY DEF StepsTo
  <2> QED  BY <1>1, <2>1
<1>3. m \in Nat /\ m - 1 \in Nat /\ m - 1 \notin S  BY <1>1, <1>2
<1>4. PICK g : StepsTo(base, over, m - 1, g)  BY <1>3
<1> DEFINE h == [k \in 0..m |-> IF k = m THEN setEnv(g[m - 1], over[m]) ELSE g[k]]
<1>5. ASSUME NEW k \in 0..m
      PROVE  h[k] = IF k = 0 THEN base ELSE setEnv(h[k - 1], over[k])
  <2>1. CASE k = m
    <3>1. h[k] = setEnv(g[m - 1], over[m])  BY <2>1
    <3>2. m - 1 \in 0..m /\ m - 1 # m  BY <1>3
    <3>3. h[m - 1] = g[m - 1]  BY <3>2
    <3> QED  BY <1>2, <2>1, <3>1, <3>3
  <2>2. CASE k # m
    <3>1. k \in 0..(m - 1)  BY <1>3, <2>2
    <3>2. g[k] = IF k = 0 THEN base ELSE setEnv(g[k - 1], over[k])  BY <1>4, <3>1 DEF StepsTo
    <3>3. h[k] = g[k]  BY <2>2
    <3>4. k # 0 => h[k - 1] = g[k - 1]
      <4>1. k # 0 => k - 1 \in 0..m /\ k - 1 # m  BY <1>3, <3>1
      <4> QED  BY <4>1
    <3> QED  BY <3>2, <3>3, <3>4
  <2> QED  BY <2>1, <2>2
<1>6. h = [k \in 0..m |-> h[k]]  OBVIOUS
<1>7. StepsTo(base, over, m, h)
  <2> HIDE DEF h
  <2> QED  BY <1>5, <1>6 DEF StepsTo
<1> QED  BY <1>1, <1>7

(* So mergeSteps satisfies the recursion that defines it.                  *)
LEMMA StepsUnfold ==
  ASSUME NEW base, NEW over, Len(over) \in Nat
  PROVE  /\ mergeSteps(base, over)[0] = base
         /\ \A n \in 1..Len(over) :
              mergeSteps(base, over)[n] = setEnv(mergeSteps(base, over)[n - 1], over[n])
<1> DEFINE G == mergeSteps(base, over)
           L == Len(over)
<1>1. PICK g : StepsTo(base, over, L, g)  BY StepsExist
<1>2. G = CHOOSE h : StepsTo(base, over, L, h)  BY DEF mergeSteps, StepsTo
<1>3. StepsTo(base, over, L, G)  BY <1>1, <1>2
<1>4. G = [k \in 0..L |-> IF k = 0 THEN base ELSE setEnv(G[k - 1], over[k])]  BY <1>3 DEF StepsTo
<1>5. L \in Nat  OBVIOUS
<1> HIDE DEF G, L
<1>6. 0 \in 0..L /\ \A n \in 1..L : n \in 0..L /\ n # 0  BY <1>5
<1>7. G[0] = base  BY <1>4, <1>6
<1>8. \A n \in 1..L : G[n] = setEnv(G[n - 1], over[n])  BY <1>4, <1>6
<1> QED  BY <1>7, <1>8 DEF G, L

(* One override takes the place of the entry of its key.                   *)
LEMMA SetEnvIs ==
  ASSUME NEW out \in Seq(EnvEntry), NoKeyTwice(out), NEW kv \in EnvEntry
  PROVE  /\ setEnv(out, kv) \in Seq(EnvEntry)
         /\ NoKeyTwice(setEnv(out, kv))
         /\ \A e : e \in ToSet(setEnv(out, kv)) <=> e = kv \/ (e \in ToSet(out) /\ e.key # kv.key)
<1> DEFINE same == {i \in DOMAIN out : out[i].key = kv.key}
           L == Len(out)
           o2 == setEnv(out, kv)
<1>1. L \in Nat /\ DOMAIN out = 1..L /\ \A i \in 1..L : out[i] \in EnvEntry  OBVIOUS
<1>2. CASE same = {}
  <2>1. o2 = Append(out, kv)  BY <1>2 DEF setEnv
  <2>2. /\ o2 \in Seq(EnvEntry) /\ Len(o2) = L + 1 /\ DOMAIN o2 = 1..(L + 1)
        /\ o2[L + 1] = kv /\ \A i \in 1..L : o2[i] = out[i]
    <3> HIDE DEF o2
    <3> QED  BY <2>1
  <2>3. \A i \in 1..(L + 1) : i = L + 1 \/ i \in 1..L  BY <1>1
  <2>4. \A i \in 1..L : out[i].key # kv.key  BY <1>1, <1>2
  <2> HIDE DEF o2, L
  <2>5. NoKeyTwice(o2)
    <3> SUFFICES ASSUME NEW i \in 1..(L + 1), NEW j \in 1..(L + 1), o2[i].key = o2[j].key PROVE i = j
      BY <2>2 DEF NoKeyTwice
    <3>1. CASE i \in 1..L /\ j \in 1..L  BY <1>1, <2>2, <3>1 DEF NoKeyTwice
    <3>2. CASE i = L + 1 /\ j \in 1..L  BY <2>2, <2>4, <3>2
    <3>3. CASE i \in 1..L /\ j = L + 1  BY <2>2, <2>4, <3>3
    <3> QED  BY <2>3, <3>1, <3>2, <3>3
  <2>6. ASSUME NEW e PROVE e \in ToSet(o2) <=> e = kv \/ (e \in ToSet(out) /\ e.key # kv.key)
    <3>1. ASSUME e \in ToSet(o2) PROVE e = kv \/ (e \in ToSet(out) /\ e.key # kv.key)
      <4>1. PICK i \in 1..(L + 1) : e = o2[i]  BY <2>2, <3>1 DEF ToSet
      <4> QED  BY <1>1, <2>2, <2>3, <2>4, <4>1 DEF ToSet
    <3>2. ASSUME e = kv PROVE e \in ToSet(o2)
      <4>1. L + 1 \in 1..(L + 1)  BY <1>1
      <4> QED  BY <2>2, <3>2, <4>1 DEF ToSet
    <3>3. ASSUME e \in ToSet(out) PROVE e \in ToSet(o2)
      <4>1. PICK i \in 1..L : e = out[i]  BY <1>1, <3>3 DEF ToSet
      <4>2. i \in 1..(L + 1)  BY <1>1
      <4> QED  BY <2>2, <4>1, <4>2 DEF ToSet
    <3> QED  BY <3>1, <3>2, <3>3
  <2> QED  BY <2>2, <2>5, <2>6 DEF o2
<1>3. CASE same # {}
  <2> DEFINE m == Min(same)
  <2>1. m \in same
    <3>1. same \subseteq Nat  BY <1>1
    <3> HIDE DEF same
    <3> QED  BY <1>3, <3>1, MinIs
  <2>2. m \in 1..L /\ out[m].key = kv.key  BY <1>1, <2>1
  <2>3. o2 = [out EXCEPT ![m] = kv]  BY <1>3 DEF setEnv
  <2>4. \A i \in 1..L : out[i].key = kv.key => i = m  BY <1>1, <2>2 DEF NoKeyTwice
  <2> HIDE DEF m, o2, same
  <2>5. /\ o2 \in Seq(EnvEntry) /\ DOMAIN o2 = 1..L
        /\ o2[m] = kv /\ \A i \in 1..L : i # m => o2[i] = out[i]
    BY <1>1, <2>2, <2>3
  <2> HIDE DEF L
  <2>6. NoKeyTwice(o2)
    <3> SUFFICES ASSUME NEW i \in 1..L, NEW j \in 1..L, o2[i].key = o2[j].key PROVE i = j
      BY <2>5 DEF NoKeyTwice
    <3>1. \A k \in 1..L : o2[k].key = out[k].key  BY <2>2, <2>5
    <3> QED  BY <1>1, <3>1 DEF NoKeyTwice
  <2>7. ASSUME NEW e PROVE e \in ToSet(o2) <=> e = kv \/ (e \in ToSet(out) /\ e.key # kv.key)
    <3>1. ASSUME e \in ToSet(o2) PROVE e = kv \/ (e \in ToSet(out) /\ e.key # kv.key)
      <4>1. PICK i \in 1..L : e = o2[i]  BY <2>5, <3>1 DEF ToSet
      <4> QED  BY <1>1, <2>4, <2>5, <4>1 DEF ToSet
    <3>2. ASSUME e = kv PROVE e \in ToSet(o2)  BY <2>2, <2>5, <3>2 DEF ToSet
    <3>3. ASSUME e \in ToSet(out), e.key # kv.key PROVE e \in ToSet(o2)
      <4>1. PICK i \in 1..L : e = out[i]  BY <1>1, <3>3 DEF ToSet
      <4>2. i # m  BY <2>2, <3>3, <4>1
      <4> QED  BY <2>5, <4>1, <4>2 DEF ToSet
    <3> QED  BY <3>1, <3>2, <3>3
  <2> QED  BY <2>5, <2>6, <2>7 DEF o2
<1> QED  BY <1>2, <1>3

(* What is in an environment after n overrides: the last override of each  *)
(* key, and the entries of the image whose keys none of them has.          *)
LastOf(over, n, e) == \E i \in 1..n : over[i] = e /\ \A j \in 1..n : over[j].key = e.key => j <= i
Untouched(over, n, e) == \A i \in 1..n : over[i].key # e.key

Merged(base, over, n, out) ==
  /\ out \in Seq(EnvEntry) /\ NoKeyTwice(out)
  /\ \A e : e \in ToSet(out) <=> LastOf(over, n, e) \/ (e \in ToSet(base) /\ Untouched(over, n, e))

(* One more override keeps the description true.                           *)
LEMMA MergedStep ==
  ASSUME NEW base, NEW over \in Seq(EnvEntry), NEW n \in 1..Len(over),
         NEW out, Merged(base, over, n - 1, out)
  PROVE  Merged(base, over, n, setEnv(out, over[n]))
<1> DEFINE kv == over[n]
           o2 == setEnv(out, kv)
<1>0. n \in Nat /\ Len(over) \in Nat  OBVIOUS
<1>1. kv \in EnvEntry  OBVIOUS
<1>2. /\ o2 \in Seq(EnvEntry) /\ NoKeyTwice(o2)
      /\ \A e : e \in ToSet(o2) <=> e = kv \/ (e \in ToSet(out) /\ e.key # kv.key)
  BY <1>1, SetEnvIs DEF Merged
<1>3. /\ \A i \in 1..(n - 1) : i \in 1..n /\ i # n /\ i <= n
      /\ \A i \in 1..n : i = n \/ i \in 1..(n - 1)
      /\ n \in 1..n
  BY <1>0
<1>4. \A i, j \in 1..n : i <= j /\ j <= i => i = j  BY <1>0
<1>5. ASSUME NEW e, e.key = kv.key
      PROVE  (LastOf(over, n, e) <=> e = kv) /\ ~Untouched(over, n, e)
  <2>1. ASSUME LastOf(over, n, e) PROVE e = kv
    <3>1. PICK i \in 1..n : over[i] = e /\ \A j \in 1..n : over[j].key = e.key => j <= i
      BY <2>1 DEF LastOf
    <3>2. n <= i  BY <1>3, <1>5, <3>1
    <3>3. i = n  BY <1>0, <3>2
    <3> QED  BY <3>1, <3>3
  <2>2. ASSUME e = kv PROVE LastOf(over, n, e)
    <3>1. \A j \in 1..n : j <= n  BY <1>0
    <3> QED  BY <1>3, <2>2, <3>1 DEF LastOf
  <2>3. ~Untouched(over, n, e)  BY <1>3, <1>5 DEF Untouched
  <2> QED  BY <2>1, <2>2, <2>3
<1>6. ASSUME NEW e, e.key # kv.key
      PROVE  /\ LastOf(over, n, e) <=> LastOf(over, n - 1, e)
             /\ Untouched(over, n, e) <=> Untouched(over, n - 1, e)
  <2>1. Untouched(over, n, e) <=> Untouched(over, n - 1, e)  BY <1>3, <1>6 DEF Untouched
  <2>2. ASSUME LastOf(over, n, e) PROVE LastOf(over, n - 1, e)
    <3>1. PICK i \in 1..n : over[i] = e /\ \A j \in 1..n : over[j].key = e.key => j <= i
      BY <2>2 DEF LastOf
    <3>2. i \in 1..(n - 1)  BY <1>3, <1>6, <3>1
    <3> QED  BY <1>3, <3>1, <3>2 DEF LastOf
  <2>3. ASSUME LastOf(over, n - 1, e) PROVE LastOf(over, n, e)
    <3>1. PICK i \in 1..(n - 1) : over[i] = e /\ \A j \in 1..(n - 1) : over[j].key = e.key => j <= i
      BY <2>3 DEF LastOf
    <3>2. \A j \in 1..n : over[j].key = e.key => j <= i  BY <1>3, <1>6, <3>1
    <3> QED  BY <1>3, <3>1, <3>2 DEF LastOf
  <2> QED  BY <2>1, <2>2, <2>3
<1>7. ASSUME NEW e
      PROVE  e \in ToSet(o2) <=> LastOf(over, n, e) \/ (e \in ToSet(base) /\ Untouched(over, n, e))
  <2>1. CASE e.key = kv.key
    <3> HIDE DEF o2
    <3> QED  BY <1>2, <1>5, <2>1
  <2>2. CASE e.key # kv.key
    <3>1. e \in ToSet(out)
            <=> LastOf(over, n - 1, e) \/ (e \in ToSet(base) /\ Untouched(over, n - 1, e))
      BY DEF Merged
    <3>2. e # kv  BY <2>2
    <3> HIDE DEF o2, kv
    <3> QED  BY <1>2, <1>6, <2>2, <3>1, <3>2
  <2> QED  BY <2>1, <2>2
<1> HIDE DEF o2
<1>8. Merged(base, over, n, o2)  BY <1>2, <1>7 DEF Merged
<1> QED  BY <1>8 DEF o2

(* It is true after all of them, by induction on their number.             *)
LEMMA MergedInTheEnd ==
  ASSUME NEW base \in Env, NoKeyTwice(base), NEW over \in Env
  PROVE  Merged(base, over, Len(over), mergeEnv(base, over))
<1> DEFINE G == mergeSteps(base, over)
           L == Len(over)
           bad == {n \in 0..L : ~Merged(base, over, n, G[n])}
           m == Min(bad)
<1>0. base \in Seq(EnvEntry) /\ over \in Seq(EnvEntry) /\ L \in Nat  BY EnvAssumption
<1>1. G[0] = base /\ \A n \in 1..L : G[n] = setEnv(G[n - 1], over[n])  BY <1>0, StepsUnfold
<1>2. Merged(base, over, 0, base)
  <2>1. 1..0 = {}  OBVIOUS
  <2> QED  BY <1>0, <2>1 DEF Merged, LastOf, Untouched
<1> HIDE DEF G
<1>3. bad = {}
  <2> SUFFICES ASSUME bad # {} PROVE FALSE  OBVIOUS
  <2>1. m \in bad /\ \A k \in bad : m <= k
    <3>1. bad \subseteq Nat  BY <1>0
    <3> HIDE DEF bad
    <3> QED  BY <3>1, MinIs
  <2> HIDE DEF m
  <2>2. m \in 0..L /\ ~Merged(base, over, m, G[m])  BY <2>1
  <2>3. m # 0  BY <1>1, <1>2, <2>2
  <2>4. m \in 1..L /\ m - 1 \in 0..L /\ ~(m <= m - 1)  BY <1>0, <2>2, <2>3
  <2>5. m - 1 \notin bad  BY <2>1, <2>4
  <2>6. Merged(base, over, m - 1, G[m - 1])  BY <2>4, <2>5
  <2>7. Merged(base, over, m, setEnv(G[m - 1], over[m]))  BY <1>0, <2>4, <2>6, MergedStep
  <2> QED  BY <1>1, <2>2, <2>4, <2>7
<1>4. L \in 0..L  BY <1>0
<1>5. Merged(base, over, L, G[L])  BY <1>3, <1>4
<1> QED  BY <1>5 DEF mergeEnv, G

(* In an environment that has no key twice, the first and the last entry   *)
(* of a key are the same, so that lookupEnv and os/exec agree.             *)
LEMMA OneEntry ==
  ASSUME NEW env \in Seq(EnvEntry), NoKeyTwice(env), NEW k
  PROVE  /\ lookupEnv(env, k) = getenv(env, k)
         /\ \A e \in ToSet(env) : e.eq /\ e.key = k => getenv(env, k) = e.val
         /\ (\A e \in ToSet(env) : ~(e.eq /\ e.key = k)) => getenv(env, k) = <<>>
<1> DEFINE E == Entries(env, k)
<1>1. \A i \in E : i \in DOMAIN env /\ i \in Nat /\ env[i].eq /\ env[i].key = k  BY DEF Entries
<1>2. \A i \in E : E = {i}  BY <1>1 DEF NoKeyTwice
<1>3. \A i \in Nat : Min({i}) = i /\ Max({i}) = i
  <2> TAKE i \in Nat
  <2>1. \A x \in {i} : x <= i /\ x >= i  OBVIOUS
  <2> QED  BY <2>1 DEF Min, Max
<1>4. ASSUME NEW i \in E PROVE lookupEnv(env, k) = env[i].val /\ getenv(env, k) = env[i].val
  <2>1. E # {} /\ Min(E) = i /\ Max(E) = i
    <3> HIDE DEF E
    <3> QED  BY <1>1, <1>2, <1>3
  <2> QED  BY <2>1 DEF lookupEnv, getenv
<1>5. E = {} => lookupEnv(env, k) = <<>> /\ getenv(env, k) = <<>>  BY DEF lookupEnv, getenv
<1>6. lookupEnv(env, k) = getenv(env, k)
  <2> HIDE DEF E
  <2> QED  BY <1>4, <1>5
<1>7. ASSUME NEW e \in ToSet(env), e.eq, e.key = k PROVE getenv(env, k) = e.val
  <2>1. PICK i \in DOMAIN env : e = env[i]  BY <1>7 DEF ToSet
  <2>2. i \in E  BY <1>7, <2>1 DEF Entries
  <2> QED  BY <1>4, <2>1, <2>2
<1>8. ASSUME \A e \in ToSet(env) : ~(e.eq /\ e.key = k) PROVE getenv(env, k) = <<>>
  <2>1. E = {}  BY <1>1, <1>8 DEF ToSet
  <2> QED  BY <1>5, <2>1
<1> QED  BY <1>6, <1>7, <1>8

(* A nonempty bounded set of numbers has a largest element.                *)
LEMMA Largest ==
  ASSUME NEW n \in Nat, NEW S, S \subseteq 1..n, S # {}
  PROVE  \E i \in S : \A j \in S : j <= i
<1> DEFINE T == {n - i : i \in S}
           t == Min(T)
<1>0. \A i \in S : n - i \in Nat  OBVIOUS
<1>1. T \subseteq Nat /\ T # {}  BY <1>0
<1>2. t \in T /\ \A u \in T : t <= u
  <2> HIDE DEF T
  <2> QED  BY <1>1, MinIs
<1> HIDE DEF t
<1>3. PICK i \in S : t = n - i  BY <1>2
<1>4. \A j \in S : n - i <= n - j  BY <1>2, <1>3
<1>5. i \in Nat /\ \A j \in S : j \in Nat  OBVIOUS
<1>6. \A j \in S : j <= i  BY <1>4, <1>5
<1> QED  BY <1>6

(* A variable has the value of its last override, or the image's if there  *)
(* is none.                                                                *)
LEMMA OverrideIs ==
  ASSUME NEW base \in Env, NoKeyTwice(base), NEW over \in Env, NEW k
  PROVE  LET last == {i \in DOMAIN over : over[i].key = k /\ \A j \in DOMAIN over : over[j].key = k => j <= i}
         IN  getenv(mergeEnv(base, over), k)
               = IF last = {} THEN getenv(base, k) ELSE over[CHOOSE i \in last : TRUE].val
<1> DEFINE L == Len(over)
           out == mergeEnv(base, over)
           last == {i \in DOMAIN over : over[i].key = k /\ \A j \in DOMAIN over : over[j].key = k => j <= i}
<1>0. /\ base \in Seq(EnvEntry) /\ over \in Seq(EnvEntry) /\ L \in Nat /\ DOMAIN over = 1..L
      /\ \A i \in 1..L : over[i] \in EnvEntry
  BY EnvAssumption
<1>1. Merged(base, over, L, out)  BY MergedInTheEnd
<1>2. /\ out \in Seq(EnvEntry) /\ NoKeyTwice(out)
      /\ \A e : e \in ToSet(out) <=> LastOf(over, L, e) \/ (e \in ToSet(base) /\ Untouched(over, L, e))
  BY <1>1 DEF Merged
<1> HIDE DEF out
<1>3. CASE last = {}
  <2>1. \A i \in 1..L : over[i].key # k
    <3> DEFINE S == {i \in 1..L : over[i].key = k}
    <3> SUFFICES ASSUME S # {} PROVE FALSE  OBVIOUS
    <3>1. PICK i \in S : \A j \in S : j <= i  BY <1>0, Largest
    <3>2. i \in last  BY <1>0, <3>1
    <3> QED  BY <1>3, <3>2
  <2>2. ASSUME NEW e, e.key = k PROVE e \in ToSet(out) <=> e \in ToSet(base)
    <3>1. ~LastOf(over, L, e) /\ Untouched(over, L, e)  BY <2>1, <2>2 DEF LastOf, Untouched
    <3> QED  BY <1>2, <3>1
  <2>3. CASE \E e \in ToSet(base) : e.eq /\ e.key = k
    <3>1. PICK e \in ToSet(base) : e.eq /\ e.key = k  BY <2>3
    <3>2. getenv(base, k) = e.val  BY <1>0, <3>1, OneEntry
    <3>3. e \in ToSet(out)  BY <2>2, <3>1
    <3>4. getenv(out, k) = e.val  BY <1>2, <3>1, <3>3, OneEntry
    <3> QED  BY <1>3, <3>2, <3>4 DEF out
  <2>4. CASE ~\E e \in ToSet(base) : e.eq /\ e.key = k
    <3>1. getenv(base, k) = <<>>  BY <1>0, <2>4, OneEntry
    <3>2. \A e \in ToSet(out) : ~(e.eq /\ e.key = k)  BY <2>2, <2>4
    <3>3. getenv(out, k) = <<>>  BY <1>2, <3>2, OneEntry
    <3> QED  BY <1>3, <3>1, <3>3 DEF out
  <2> QED  BY <2>3, <2>4
<1>4. CASE last # {}
  <2> DEFINE m == CHOOSE i \in last : TRUE
             e == over[m]
  <2>1. m \in last  BY <1>4
  <2> HIDE DEF m
  <2>2. m \in 1..L /\ e.key = k /\ \A j \in 1..L : over[j].key = k => j <= m  BY <1>0, <2>1
  <2>3. e \in EnvEntry  BY <1>0, <2>2
  <2>4. LastOf(over, L, e)
    <3> HIDE DEF L
    <3> QED  BY <2>2 DEF LastOf
  <2>5. e \in ToSet(out)  BY <1>2, <2>4
  <2>6. getenv(out, k) = e.val
    <3>1. CASE e.eq  BY <1>2, <2>2, <2>5, <3>1, OneEntry
    <3>2. CASE ~e.eq
      <4>1. e.val = <<>>  BY <2>3, <3>2, EnvAssumption
      <4>2. ASSUME NEW f \in ToSet(out), f.eq, f.key = k PROVE FALSE
        <5>1. PICK i \in DOMAIN out : f = out[i]  BY <4>2 DEF ToSet
        <5>2. PICK j \in DOMAIN out : e = out[j]  BY <2>5 DEF ToSet
        <5> HIDE DEF e
        <5>3. i = j  BY <1>2, <2>2, <4>2, <5>1, <5>2 DEF NoKeyTwice
        <5> QED  BY <3>2, <4>2, <5>1, <5>2, <5>3
      <4>3. getenv(out, k) = <<>>  BY <1>2, <4>2, OneEntry
      <4> QED  BY <4>1, <4>3
    <3> QED  BY <3>1, <3>2
  <2> QED  BY <1>4, <2>6 DEF out, m
<1> QED  BY <1>3, <1>4

(* With the default for PATH appended, where there is none or an empty     *)
(* one, lookupEnv and os/exec read the same one unless the first is empty. *)
LEMMA OnePath ==
  ASSUME NEW env \in Seq(EnvEntry), NoKeyTwice(env), lookupEnv(env, PATH) = <<>>,
         NEW d, d.eq, d.key = PATH, lookupEnv(Append(env, d), PATH) # <<>>
  PROVE  lookupEnv(Append(env, d), PATH) = d.val /\ getenv(Append(env, d), PATH) = d.val
<1> DEFINE L == Len(env)
           e2 == Append(env, d)
           E == Entries(env, PATH)
           F == Entries(e2, PATH)
<1>1. L \in Nat /\ DOMAIN env = 1..L  OBVIOUS
<1>2. DOMAIN e2 = 1..(L + 1) /\ e2[L + 1] = d /\ \A i \in 1..L : e2[i] = env[i]  OBVIOUS
<1> HIDE DEF e2, L
<1>3. L + 1 \in 1..(L + 1) /\ \A i \in 1..(L + 1) : i \in Nat /\ (i = L + 1 \/ i \in 1..L)
  BY <1>1
<1>4. F \subseteq Nat /\ L + 1 \in F  BY <1>2, <1>3 DEF Entries
<1>5. \A i \in F : i = L + 1 \/ i \in E  BY <1>1, <1>2, <1>3 DEF Entries
<1>6. \A i \in E : i \in F /\ i < L + 1 /\ e2[i] = env[i]  BY <1>1, <1>2 DEF Entries
<1>7. E = {}
  <2> SUFFICES ASSUME E # {} PROVE FALSE  OBVIOUS
  <2>1. PICK i \in E : TRUE  OBVIOUS
  <2>2. Min(F) \in F /\ Min(F) <= i
    <3> HIDE DEF E, F
    <3> QED  BY <1>4, <1>6, <2>1, MinIs
  <2>3. Min(F) # L + 1
    <3>1. i < L + 1 /\ i \in Nat  BY <1>4, <1>6, <2>1
    <3> HIDE DEF E, F
    <3> QED  BY <1>1, <2>2, <3>1
  <2>4. Min(F) \in E
    <3> HIDE DEF E, F
    <3> QED  BY <1>5, <2>2, <2>3
  <2>5. lookupEnv(e2, PATH) = env[Min(F)].val
    <3>1. lookupEnv(e2, PATH) = e2[Min(F)].val  BY <1>4 DEF lookupEnv
    <3> HIDE DEF E, F
    <3> QED  BY <1>6, <2>4, <3>1
  <2>6. env[Min(F)] \in ToSet(env) /\ env[Min(F)].eq /\ env[Min(F)].key = PATH
    <3> HIDE DEF F
    <3> QED  BY <2>4 DEF Entries, ToSet
  <2>7. lookupEnv(env, PATH) = env[Min(F)].val
    <3> HIDE DEF F
    <3> QED  BY <2>6, OneEntry
  <2> QED  BY <2>5, <2>7 DEF e2
<1>8. F = {L + 1}
  <2> HIDE DEF E, F
  <2> QED  BY <1>4, <1>5, <1>7
<1>9. Min({L + 1}) = L + 1 /\ Max({L + 1}) = L + 1
  <2>1. \A x \in {L + 1} : x <= L + 1 /\ x >= L + 1  BY <1>1
  <2> QED  BY <2>1 DEF Min, Max
<1>10. lookupEnv(e2, PATH) = e2[L + 1].val /\ getenv(e2, PATH) = e2[L + 1].val
  BY <1>8, <1>9 DEF lookupEnv, getenv
<1> QED  BY <1>2, <1>10 DEF e2

(* lookPath finds the first executable file of the name on the PATH.       *)
LEMMA LookPathFinds ==
  ASSUME NEW fs, NEW file, file.dir = NoDir, NEW pathEnv \in Seq(STRING),
         lookPath(fs, file, pathEnv) # <<>>
  PROVE  /\ pathEnv # <<>>
         /\ \E i \in DOMAIN pathEnv :
              /\ lookPath(fs, file, pathEnv)[1] = [dir |-> pathEnv[i], name |-> file.name]
              /\ fs[[dir |-> pathEnv[i], name |-> file.name]] = "exec"
              /\ \A j \in 1..(i - 1) :
                   pathEnv[j] = NoDir \/ fs[[dir |-> pathEnv[j], name |-> file.name]] # "exec"
<1> DEFINE P(i) == [dir |-> pathEnv[i], name |-> file.name]
           hits == {i \in DOMAIN pathEnv : pathEnv[i] # NoDir /\ fs[P(i)] = "exec"}
           h == Min(hits)
<1>1. Len(pathEnv) \in Nat /\ DOMAIN pathEnv = 1..Len(pathEnv)  OBVIOUS
<1>2. lookPath(fs, file, pathEnv) = IF hits = {} THEN <<>> ELSE <<P(h)>>
  BY DEF lookPath, checkExecutable
<1>3. hits # {} /\ lookPath(fs, file, pathEnv) = <<P(h)>>
  <2> HIDE DEF hits, h, P
  <2> QED  BY <1>2
<1>4. h \in hits /\ \A j \in hits : h <= j
  <2>1. hits \subseteq Nat  BY <1>1
  <2> HIDE DEF hits
  <2> QED  BY <1>3, <2>1, MinIs
<1> HIDE DEF h
<1>5. h \in DOMAIN pathEnv /\ fs[P(h)] = "exec"  BY <1>4
<1>6. lookPath(fs, file, pathEnv)[1] = P(h)
  <2> HIDE DEF P, hits
  <2> QED  BY <1>3
<1>7. ASSUME NEW j \in 1..(h - 1) PROVE pathEnv[j] = NoDir \/ fs[P(j)] # "exec"
  <2>1. j \in DOMAIN pathEnv /\ ~(h <= j)  BY <1>1, <1>5
  <2>2. j \notin hits  BY <1>4, <2>1
  <2> QED  BY <2>1, <2>2
<1>8. pathEnv # <<>>  BY <1>5
<1> QED  BY <1>5, <1>6, <1>7, <1>8

(* Whatever the image's environment, without a key twice, and the          *)
(* configuration's are, an override wins over what it overrides, nothing   *)
(* else changes, and a program named without a slash is the one the        *)
(* process would find with the PATH it is given.                           *)
THEOREM CommandIsConfigured == Spec => []CommandAsConfigured
<1>1. Given => OverridesWin
  <2> SUFFICES ASSUME Given, in.kind = "command", NoKeyTwice(in.rt.env), NEW k
               PROVE  LET last == {i \in DOMAIN in.cfg.env :
                                     in.cfg.env[i].key = k /\ \A j \in DOMAIN in.cfg.env : in.cfg.env[j].key = k => j <= i}
                      IN  getenv(Merge(in.rt, in.cfg).env, k)
                            = IF last = {} THEN getenv(in.rt.env, k)
                              ELSE in.cfg.env[CHOOSE i \in last : TRUE].val
    BY DEF OverridesWin
  <2> DEFINE base == in.rt.env
             over == in.cfg.env
             last == {i \in DOMAIN over : over[i].key = k /\ \A j \in DOMAIN over : over[j].key = k => j <= i}
  <2>1. base \in Env /\ over \in Env /\ NoKeyTwice(base)  BY DEF Given
  <2>2. Merge(in.rt, in.cfg).env = mergeEnv(base, over)  BY DEF Merge
  <2>3. getenv(mergeEnv(base, over), k)
          = IF last = {} THEN getenv(base, k) ELSE over[CHOOSE i \in last : TRUE].val
    <3> HIDE DEF base, over
    <3> QED  BY <2>1, OverrideIs
  <2>4. getenv(Merge(in.rt, in.cfg).env, k)
          = IF last = {} THEN getenv(base, k) ELSE over[CHOOSE i \in last : TRUE].val
    <3> HIDE DEF base, over, last
    <3> QED  BY <2>2, <2>3
  <2> QED  BY <2>4
<1>2. Given => FoundOnOwnPath
  <2> DEFINE rt == Merge(in.rt, in.cfg)
             d == [key |-> PATH, eq |-> TRUE, val |-> DefaultPath]
             argv == rt.entrypoint \o rt.cmd
             env == IF lookupEnv(rt.env, PATH) = <<>> THEN Append(rt.env, d) ELSE rt.env
             pathEnv == lookupEnv(env, PATH)
             path == lookPath(in.sys.fs, argv[1], pathEnv)
  <2> SUFFICES ASSUME Given, in.kind = "command", NoKeyTwice(in.rt.env),
                      NEW spec \in ToSet(Resolve(in.sys, rt)), spec.argv[1].dir = NoDir
               PROVE  \E i \in DOMAIN getenv(spec.env, PATH) :
                        /\ spec.path = [dir |-> getenv(spec.env, PATH)[i], name |-> spec.argv[1].name]
                        /\ in.sys.fs[spec.path] = "exec"
                        /\ \A j \in 1..(i - 1) :
                             \/ getenv(spec.env, PATH)[j] = NoDir
                             \/ in.sys.fs[[dir |-> getenv(spec.env, PATH)[j], name |-> spec.argv[1].name]] # "exec"
    BY DEF FoundOnOwnPath
  <2>1. spec.path = path[1] /\ spec.argv = argv /\ spec.env = env /\ path # <<>>
    <3> DEFINE ids == resolveUser(in.sys.passwd, in.sys.group, rt.user)
               made == [path |-> path[1], argv |-> argv, env |-> env,
                        dir |-> Or(rt.dir, "/", NoDir), uid |-> ids[1], gid |-> ids[2]]
    <3>1. Resolve(in.sys, rt) = IF argv = <<>> \/ ids = <<>> \/ path = <<>> THEN <<>> ELSE <<made>>
      BY DEF Resolve
    <3> HIDE DEF rt, argv, env, path, ids
    <3>2. path # <<>> /\ spec = made
      <4> HIDE DEF made
      <4>1. \A x : ToSet(<<x>>) = {x}  BY DEF ToSet
      <4>2. ToSet(<<>>) = {}  BY DEF ToSet
      <4> QED  BY <3>1, <4>1, <4>2
    <3> QED  BY <3>2
  <2>2. in.rt.env \in Env /\ in.cfg.env \in Env  BY DEF Given
  <2>3. rt.env \in Seq(EnvEntry) /\ NoKeyTwice(rt.env)
    <3>1. rt.env = mergeEnv(in.rt.env, in.cfg.env)  BY DEF Merge
    <3> HIDE DEF rt
    <3> QED  BY <2>2, <3>1, MergedInTheEnd DEF Merged
  <2>4. \A k : lookupEnv(rt.env, k) \in Seq(STRING)
    <3> HIDE DEF rt
    <3> TAKE k
    <3>1. CASE \E e \in ToSet(rt.env) : e.eq /\ e.key = k
      <4>1. PICK e \in ToSet(rt.env) : e.eq /\ e.key = k  BY <3>1
      <4>2. e \in EnvEntry  BY <2>3 DEF ToSet
      <4>3. e.val \in Seq(STRING)  BY <4>2, EnvAssumption
      <4> QED  BY <2>3, <4>1, <4>3, OneEntry
    <3>2. CASE ~\E e \in ToSet(rt.env) : e.eq /\ e.key = k
      <4>1. lookupEnv(rt.env, k) = <<>>  BY <2>3, <3>2, OneEntry
      <4> QED  BY <4>1
    <3> QED  BY <3>1, <3>2
  <2>5. pathEnv \in Seq(STRING)
    <3> HIDE DEF rt
    <3>1. CASE lookupEnv(rt.env, PATH) # <<>>  BY <2>4, <3>1
    <3>2. CASE lookupEnv(rt.env, PATH) = <<>>
      <4>1. pathEnv = lookupEnv(Append(rt.env, d), PATH)  BY <3>2
      <4>2. d.eq /\ d.key = PATH /\ d.val = DefaultPath  OBVIOUS
      <4> HIDE DEF d, pathEnv
      <4>3. CASE pathEnv = <<>>  BY <4>3
      <4>4. CASE pathEnv # <<>>
        <5>1. pathEnv = d.val  BY <2>3, <3>2, <4>1, <4>2, <4>4, OnePath
        <5> QED  BY <4>2, <5>1, EnvAssumption
      <4> QED  BY <4>3, <4>4
    <3> QED  BY <3>1, <3>2
  <2>6. argv[1].dir = NoDir  BY <2>1
  <2>7. /\ pathEnv # <<>>
        /\ \E i \in DOMAIN pathEnv :
             /\ path[1] = [dir |-> pathEnv[i], name |-> argv[1].name]
             /\ in.sys.fs[[dir |-> pathEnv[i], name |-> argv[1].name]] = "exec"
             /\ \A j \in 1..(i - 1) :
                  pathEnv[j] = NoDir \/ in.sys.fs[[dir |-> pathEnv[j], name |-> argv[1].name]] # "exec"
    <3> DEFINE fs == in.sys.fs
               file == argv[1]
    <3>1. file.dir = NoDir /\ path = lookPath(fs, file, pathEnv) /\ path # <<>>  BY <2>1, <2>6
    <3> HIDE DEF fs, file, path, pathEnv
    <3>2. /\ pathEnv # <<>>
          /\ \E i \in DOMAIN pathEnv :
               /\ path[1] = [dir |-> pathEnv[i], name |-> file.name]
               /\ fs[[dir |-> pathEnv[i], name |-> file.name]] = "exec"
               /\ \A j \in 1..(i - 1) :
                    pathEnv[j] = NoDir \/ fs[[dir |-> pathEnv[j], name |-> file.name]] # "exec"
      <4>1. lookPath(fs, file, pathEnv) # <<>>  BY <3>1
      <4>2. /\ pathEnv # <<>>
            /\ \E i \in DOMAIN pathEnv :
                 /\ lookPath(fs, file, pathEnv)[1] = [dir |-> pathEnv[i], name |-> file.name]
                 /\ fs[[dir |-> pathEnv[i], name |-> file.name]] = "exec"
                 /\ \A j \in 1..(i - 1) :
                      pathEnv[j] = NoDir \/ fs[[dir |-> pathEnv[j], name |-> file.name]] # "exec"
        <5> HIDE DEF argv
        <5>1. file.dir = NoDir  BY <3>1
        <5>2. pathEnv \in Seq(STRING)  BY <2>5
        <5> QED  BY ONLY <4>1, <5>1, <5>2, LookPathFinds, SMTT(30)
      <4> QED  BY <3>1, <4>2
    <3> HIDE DEF argv
    <3> QED  BY <3>2 DEF fs, file
  <2>8. getenv(env, PATH) = pathEnv
    <3> HIDE DEF rt
    <3>1. CASE lookupEnv(rt.env, PATH) # <<>>
      <4>1. env = rt.env  BY <3>1
      <4> HIDE DEF env
      <4> QED  BY <2>3, <4>1, OneEntry
    <3>2. CASE lookupEnv(rt.env, PATH) = <<>>
      <4>1. env = Append(rt.env, d)  BY <3>2
      <4>2. d.eq /\ d.key = PATH  OBVIOUS
      <4> HIDE DEF d, env
      <4> QED  BY <2>3, <2>7, <3>2, <4>1, <4>2, OnePath
    <3> QED  BY <3>1, <3>2
  <2> HIDE DEF argv, env, pathEnv, path
  <2>9. getenv(spec.env, PATH) = pathEnv  BY <2>1, <2>8
  <2>10. PICK i \in DOMAIN pathEnv :
           /\ path[1] = [dir |-> pathEnv[i], name |-> argv[1].name]
           /\ in.sys.fs[[dir |-> pathEnv[i], name |-> argv[1].name]] = "exec"
           /\ \A j \in 1..(i - 1) :
                pathEnv[j] = NoDir \/ in.sys.fs[[dir |-> pathEnv[j], name |-> argv[1].name]] # "exec"
    BY <2>7
  <2>11. /\ i \in DOMAIN getenv(spec.env, PATH)
         /\ spec.path = [dir |-> getenv(spec.env, PATH)[i], name |-> spec.argv[1].name]
         /\ in.sys.fs[spec.path] = "exec"
    BY <2>1, <2>9, <2>10
  <2>12. \A j \in 1..(i - 1) :
           \/ getenv(spec.env, PATH)[j] = NoDir
           \/ in.sys.fs[[dir |-> getenv(spec.env, PATH)[j], name |-> spec.argv[1].name]] # "exec"
    BY <2>1, <2>9, <2>10
  <2> QED  BY <2>11, <2>12
<1>3. Given => CommandAsConfigured  BY <1>1, <1>2 DEF CommandAsConfigured
<1> QED  BY <1>3, AlwaysGiven, PTL
=============================================================================
