----------------------------- MODULE Addresses -----------------------------
(***************************************************************************)
(* What a row of /proc/net becomes on its way to another container: the    *)
(* Listen that is reported (internal/lo/proc.go), the socket a proxy binds *)
(* for it and the clients it turns away (addr.go, proxy.go), the check of  *)
(* the /connect request and the address dialled in the end (server.go).    *)
(*                                                                         *)
(* An address is its bytes, 4 or 16 of them.  A Listen's Addr is text: the *)
(* text of an IPv4-mapped IPv6 address is that of the IPv4 one, so that a  *)
(* text is represented by 4 bytes or by 16 that are not mapped.            *)
(***************************************************************************)
EXTENDS Naturals, Sequences, SequencesExt

----------------------------------------------------------------------------
(* The package net of Go's library.                                        *)

Zero4 == <<0, 0, 0, 0>>
Loop4 == <<127, 0, 0, 1>>
Zero6 == [i \in 1..16 |-> 0]
Loop6 == [Zero6 EXCEPT ![16] = 1]
MapPrefix == [i \in 1..12 |-> IF i > 10 THEN 255 ELSE 0]
Mapped(ip) == MapPrefix \o ip

Is4(ip) == Len(ip) = 4 \/ (Len(ip) = 16 /\ IsPrefix(MapPrefix, ip))
To4(ip) == IF Len(ip) = 4 THEN ip ELSE SubSeq(ip, 13, 16)
IPString(ip) == IF Is4(ip) THEN To4(ip) ELSE ip
IsLoopback(ip) == IF Is4(ip) THEN To4(ip)[1] = 127 ELSE ip = Loop6
IsUnspecified(ip) == IF Is4(ip) THEN To4(ip) = Zero4 ELSE ip = Zero6

----------------------------------------------------------------------------
(* Sockets.  One of family v6 bound to :: serves IPv4 too unless it is     *)
(* v6only; one bound to a mapped address serves IPv4 only.                 *)

Serves(s, dst) ==
  \/ IPString(s.ip) = dst
  \/ IsUnspecified(s.ip) /\ IF Is4(s.ip) THEN Is4(dst) ELSE ~Is4(dst) \/ ~s.v6only

(* net.Listen.  "tcp4" and "tcp6" ask for an address of their family, and  *)
(* "tcp6" sets IPV6_V6ONLY; with "tcp" every wildcard serves both.         *)
netListen(net, addr) ==
  {s \in [proto : {net.proto}, fam : {"v4", "v6"}, ip : {addr, Zero6}, v6only : BOOLEAN] :
     CASE net.suffix = "4" -> Is4(addr) /\ s.fam = "v4" /\ s.ip = addr /\ ~s.v6only
       [] net.suffix = "6" -> ~Is4(addr) /\ s.fam = "v6" /\ s.ip = addr /\ s.v6only
       [] net.suffix = ""  -> /\ s.fam = IF Is4(addr) /\ addr # Zero4 THEN "v4" ELSE "v6"
                              /\ s.ip = IF addr = Zero4 THEN Zero6 ELSE addr
                              /\ ~s.v6only}

(* net.Dial to an address of the network's family: the sockets of S that   *)
(* answer.                                                                 *)
netDial(net, addr, S) ==
  {s \in S : s.proto = net.proto /\ (net.suffix = "4" <=> Is4(addr)) /\ Serves(s, addr)}

(* The row of a socket: each 32-bit word of the address is printed as a    *)
(* number, so that its bytes come in the machine's order.                  *)
KernelHex(ip) == [i \in 1..Len(ip) |-> ip[i + 3 - 2 * ((i - 1) % 4)]]
KernelState(s) == IF s.connected THEN "01" ELSE IF s.proto = "tcp" THEN "0A" ELSE "07"
Row(s) == [st |-> KernelState(s), raw |-> KernelHex(s.ip)]

----------------------------------------------------------------------------
(* proc.go.  A listen is a set of at most one record, so that a row that   *)
(* is malformed, or of no interest, gives none.                            *)

(* Mutant of parseHexIP: the bytes are reversed, not those of each word.   *)
parseHexIPWhole(raw) == Reverse(raw)

parseHexIP(raw) == [i \in 1..Len(raw) |-> raw[i + 3 - 2 * ((i - 1) % 4)]]

parseProcNetLine(row, proto, stack) ==
  LET ip == parseHexIP(row.raw) IN
  IF /\ row.st = IF proto = "tcp" THEN "0A" ELSE "07"
     /\ Len(row.raw) % 4 = 0
     /\ IsLoopback(ip) \/ IsUnspecified(ip)
  THEN {[stack |-> stack, proto |-> proto, addr |-> IPString(ip)]}
  ELSE {}

scanProcFile(rows, proto, stack) == UNION {parseProcNetLine(r, proto, stack) : r \in rows}

(* Four files; one that is missing has no rows.                            *)
scanProcNet(S) ==
  UNION {scanProcFile({Row(s) : s \in {t \in S : t.proto = p /\ t.fam = k}}, p, k)
           : p \in {"tcp", "udp"}, k \in {"v4", "v6"}}

----------------------------------------------------------------------------
(* addr.go and proxy.go.                                                   *)

(* Mutant of dialNetwork: no suffix for IPv6, so that :: serves IPv4 too.  *)
dialNetworkDual(stack, proto) ==
  [proto |-> proto, suffix |-> IF stack = "v6" THEN "" ELSE "4"]

dialNetwork(stack, proto) == [proto |-> proto, suffix |-> IF stack = "v6" THEN "6" ELSE "4"]

(* bindAddr is the reported address itself.                                *)
StartProxyListen(l) == netListen(dialNetwork(l.stack, l.proto), l.addr)

(* Mutant of isLocalPeer: a private IPv4 address is taken for local.       *)
isLocalPeerPrivate(remote) ==
  IsLoopback(remote) \/ IsUnspecified(remote) \/ (Is4(remote) /\ To4(remote)[1] = 10)

isLocalPeer(remote) == IsLoopback(remote) \/ IsUnspecified(remote)
rejectsRemote(l, remote) == IsUnspecified(l.addr) /\ ~isLocalPeer(remote)

(* Mutant of dialTarget: always the IPv4 loopback address.                 *)
dialTarget4(l) == IF IsUnspecified(l.addr) THEN Loop4 ELSE l.addr

dialTarget(l) ==
  IF IsUnspecified(l.addr) THEN IF l.stack = "v6" THEN Loop6 ELSE Loop4 ELSE l.addr

----------------------------------------------------------------------------
(* server.go: what /connect accepts, and the sockets of S it reaches.      *)

isLoopbackOrUnspecified(addr) == IsLoopback(addr) \/ IsUnspecified(addr)
addrMatchesStack(stack, addr) == (stack = "v4") <=> Is4(addr)

parseListenParams(l) ==
  /\ l.stack \in {"v4", "v6"} /\ l.proto \in {"tcp", "udp"}
  /\ isLoopbackOrUnspecified(l.addr)
  /\ addrMatchesStack(l.stack, l.addr)

connectReaches(l, S) ==
  IF parseListenParams(l) THEN netDial(dialNetwork(l.stack, l.proto), dialTarget(l), S) ELSE {}
=============================================================================
