------------------------------- MODULE Tunnel -------------------------------
(***************************************************************************)
(* One TCP connection through a proxy: the client's connection, accepted   *)
(* by acceptLoop (internal/lo/proxy.go); the tunnel, a unix stream opened  *)
(* by dialConnect (client.go) and answered by handleConnect (server.go) in *)
(* the peer; and the connection to the service that handleConnect dials.   *)
(* On each side pipeTCP (pipe.go) copies in both directions, with one      *)
(* goroutine per direction, and closes both of its connections as soon as  *)
(* one of them ends.                                                       *)
(*                                                                         *)
(*    client --c-- proxy pipe --t-- peer's pipe --g-- service              *)
(*                                                                         *)
(* Both ends of the tunnel are read through a bufio.Reader, which may have *)
(* taken in more than the HTTP text it was made for (bufferedConn).        *)
(***************************************************************************)
EXTENDS Naturals, Sequences, SequencesExt

CONSTANTS
  MaxUp,    \* bound: what the client sends, in pieces
  MaxDown,  \* bound: what the service sends
  Cap       \* capacity of a connection, in pieces, for each direction

ASSUME BoundsAssumption == MaxUp \in Nat /\ MaxDown \in Nat /\ Cap \in Nat \ {0}

(* A stream is one direction of one connection: who writes and reads it.   *)
Stream == {"c", "t", "g"} \X {"up", "down"}
Writer(x) ==
  CASE x = <<"c", "up">> -> "client" [] x = <<"c", "down">> -> "pc"
    [] x = <<"t", "up">> -> "pt"     [] x = <<"t", "down">> -> "st"
    [] x = <<"g", "up">> -> "sg"     [] x = <<"g", "down">> -> "service"
Reader(x) == Writer(<<x[1], IF x[2] = "up" THEN "down" ELSE "up">>)
End == {"client", "pc", "pt", "st", "sg", "service"}
App == {"client", "service"}

(* The copying goroutines of the proxy (p) and of the peer (s).            *)
Copier == {"pUp", "pDown", "sUp", "sDown"}
Src(k) == CASE k = "pUp" -> <<"c", "up">> [] k = "pDown" -> <<"t", "down">>
            [] k = "sUp" -> <<"t", "up">> [] k = "sDown" -> <<"g", "down">>
Dst(k) == CASE k = "pUp" -> <<"t", "up">> [] k = "pDown" -> <<"c", "down">>
            [] k = "sUp" -> <<"g", "up">> [] k = "sDown" -> <<"t", "down">>

VARIABLES
  ln,     \* the proxy: its listener and its context, until Proxy.Close
  conn,   \* where the proxy is with the client's connection
  hnd,    \* where the peer's handler is with the tunnel
  end,    \* the six ends of the connections
  shut,   \* applications that have ended their side and still read
  q,      \* what is under way in each stream
  buf,    \* what the bufio.Reader of each end of the tunnel holds
  copy,   \* where each copier is
  has,    \* the piece it has read and has still to write
  sent,   \* history: pieces sent by each application
  got     \* history: pieces received by each application

vars == <<ln, conn, hnd, end, shut, q, buf, copy, has, sent, got>>

Number == 0..(MaxUp + MaxDown)
Piece == [text : {"request", "200", "refused"}] \cup [data : Number]
Data(n) == [data |-> n]
Text(t) == [text |-> t]

(* The type of the state; a connection holds no more than its capacity.    *)
TypeOK ==
  /\ ln \in {"open", "closed"}
  /\ conn \in {"backlog", "dial", "answer", "piped", "done"}
  /\ hnd \in {"none", "request", "piped", "done"}
  /\ end \in [End -> {"none", "open", "closed"}]
  /\ shut \in SUBSET App
  /\ q \in [Stream -> Seq(Piece)] /\ \A x \in Stream : Len(q[x]) <= Cap
  /\ buf \in [{"pDown", "sUp"} -> Seq(Piece)]
  /\ copy \in [Copier -> {"off", "read", "write", "done"}]
  /\ has \in [Copier -> Number]
  /\ sent \in [App -> Seq(Number)] /\ got \in [App -> Seq(Number)]

(* The kernel has completed the client's connection to the listener.       *)
Init ==
  /\ ln = "open" /\ conn = "backlog" /\ hnd = "none"
  /\ end = [e \in End |-> IF e \in {"client", "pc"} THEN "open" ELSE "none"]
  /\ shut = {}
  /\ q = [x \in Stream |-> <<>>]
  /\ buf = [k \in {"pDown", "sUp"} |-> <<>>]
  /\ copy = [k \in Copier |-> "off"]
  /\ has = [k \in Copier |-> 0]
  /\ sent = [a \in App |-> <<>>] /\ got = [a \in App |-> <<>>]

----------------------------------------------------------------------------
(* Streams.                                                                *)

Ended(x) == q[x] = <<>> /\ (end[Writer(x)] = "closed" \/ Writer(x) \in shut)

(* Mutant of Room: a write does not wait.                                  *)
RoomAlways(x) == end[Writer(x)] = "open" /\ end[Reader(x)] = "open"

Room(x) == end[Writer(x)] = "open" /\ end[Reader(x)] = "open" /\ Len(q[x]) < Cap

(* The ends E are closed.  What they have not read is lost; and a TCP end  *)
(* closed with something unread resets its connection, which may lose some *)
(* of what it has written.                                                 *)
Unread(e) == \E x \in Stream : Reader(x) = e /\ q[x] # <<>>
Closed(E) ==
  /\ end' = [e \in End |-> IF e \in E THEN "closed" ELSE end[e]]
  /\ \E kept \in 0..Cap : q' =
       [x \in Stream |->
          IF Reader(x) \in E /\ end[Reader(x)] = "open" THEN <<>>
          ELSE IF /\ x[1] # "t" /\ Len(q[x]) > kept
                  /\ Writer(x) \in E /\ end[Writer(x)] = "open" /\ Unread(Writer(x))
          THEN SubSeq(q[x], 1, kept)
          ELSE q[x]]

----------------------------------------------------------------------------
(* The applications, which may do what they like with their connection.    *)

Out(a) == IF a = "client" THEN <<"c", "up">> ELSE <<"g", "down">>
In(a) == IF a = "client" THEN <<"c", "down">> ELSE <<"g", "up">>

AppSends(a) ==
  /\ end[a] = "open" /\ a \notin shut
  /\ Room(Out(a))
  /\ Len(sent[a]) < IF a = "client" THEN MaxUp ELSE MaxDown
  /\ LET n == Len(sent[a]) + IF a = "client" THEN 1 ELSE MaxUp + 1 IN
       /\ q' = [q EXCEPT ![Out(a)] = Append(@, Data(n))]
       /\ sent' = [sent EXCEPT ![a] = Append(@, n)]
  /\ UNCHANGED <<ln, conn, hnd, end, shut, buf, copy, has, got>>

AppReads(a) ==
  /\ end[a] = "open" /\ q[In(a)] # <<>>
  /\ q' = [q EXCEPT ![In(a)] = Tail(@)]
  /\ got' = [got EXCEPT ![a] = Append(@, Head(q[In(a)]).data)]
  /\ UNCHANGED <<ln, conn, hnd, end, shut, buf, copy, has, sent>>

(* shutdown(SHUT_WR).                                                      *)
AppShuts(a) ==
  /\ end[a] = "open" /\ a \notin shut
  /\ shut' = shut \cup {a}
  /\ UNCHANGED <<ln, conn, hnd, end, q, buf, copy, has, sent, got>>

AppCloses(a) ==
  /\ end[a] = "open"
  /\ Closed({a})
  /\ UNCHANGED <<ln, conn, hnd, shut, buf, copy, has, sent, got>>

----------------------------------------------------------------------------
(* The proxy: acceptLoop and the goroutine of the connection.              *)

(* Closing the listener resets what it has not accepted.  Connections it   *)
(* has accepted go on; only a dial that has not begun fails.               *)
ProxyClose ==
  /\ ln = "open"
  /\ ln' = "closed"
  /\ IF conn = "backlog"
     THEN conn' = "done" /\ Closed({"pc"})
     ELSE UNCHANGED <<conn, end, q>>
  /\ UNCHANGED <<hnd, shut, buf, copy, has, sent, got>>

(* rejectsRemote may turn the connection away.                             *)
Accept ==
  /\ ln = "open" /\ conn = "backlog"
  /\ \/ conn' = "dial" /\ UNCHANGED <<end, q>>
     \/ conn' = "done" /\ Closed({"pc"})
  /\ UNCHANGED <<ln, hnd, shut, buf, copy, has, sent, got>>

(* dialConnect up to its request: DialContext fails once the context is    *)
(* done, or if the peer is not there.                                      *)
DialTunnel ==
  /\ conn = "dial"
  /\ \/ /\ ln = "open"
        /\ conn' = "answer"
        /\ hnd' = "request"
        /\ end' = [end EXCEPT !["pt"] = "open", !["st"] = "open"]
        /\ q' = [q EXCEPT ![<<"t", "up">>] = <<Text("request")>>]
     \/ /\ conn' = "done"
        /\ Closed({"pc"})
        /\ UNCHANGED hnd
  /\ UNCHANGED <<ln, shut, buf, copy, has, sent, got>>

(* Mutant of ReadAnswer: the connection is returned without the reader     *)
(* that parsed the answer.                                                 *)
ReadAnswerUnbuffered ==
  /\ conn = "answer"
  /\ LET x == <<"t", "down">> IN
       \/ /\ q[x] # <<>> /\ Head(q[x]) = Text("200")
          /\ conn' = "piped"
          /\ \E n \in 1..Len(q[x]) : q' = [q EXCEPT ![x] = SubSeq(@, n + 1, Len(@))]
          /\ copy' = [copy EXCEPT !["pUp"] = "read", !["pDown"] = "read"]
          /\ UNCHANGED <<end, buf>>
       \/ /\ Ended(x) \/ (q[x] # <<>> /\ Head(q[x]) # Text("200"))
          /\ conn' = "done"
          /\ Closed({"pc", "pt"})
          /\ UNCHANGED <<buf, copy>>
  /\ UNCHANGED <<ln, hnd, shut, has, sent, got>>

(* dialConnect's answer.  Filling its buffer, the reader takes some of     *)
(* what follows the headers; it then becomes the tunnel's reader.  Any     *)
(* other answer, or its end, closes the tunnel and the connection.         *)
ReadAnswer ==
  /\ conn = "answer"
  /\ LET x == <<"t", "down">> IN
       \/ /\ q[x] # <<>> /\ Head(q[x]) = Text("200")
          /\ conn' = "piped"
          /\ \E n \in 1..Len(q[x]) : /\ buf' = [buf EXCEPT !["pDown"] = SubSeq(q[x], 2, n)]
                                     /\ q' = [q EXCEPT ![x] = SubSeq(@, n + 1, Len(@))]
          /\ copy' = [copy EXCEPT !["pUp"] = "read", !["pDown"] = "read"]
          /\ UNCHANGED end
       \/ /\ Ended(x) \/ (q[x] # <<>> /\ Head(q[x]) # Text("200"))
          /\ conn' = "done"
          /\ Closed({"pc", "pt"})
          /\ UNCHANGED <<buf, copy>>
  /\ UNCHANGED <<ln, hnd, shut, has, sent, got>>

----------------------------------------------------------------------------
(* The peer: handleConnect.  The request is parsed, the connection taken   *)
(* over together with the server's reader, the service dialled, and the    *)
(* answer written before anything is copied.                               *)
handleConnect ==
  /\ hnd = "request"
  /\ LET x == <<"t", "up">> IN
       \/ /\ q[x] # <<>>
          /\ hnd' = "piped"
          /\ \E n \in 1..Len(q[x]) : /\ buf' = [buf EXCEPT !["sUp"] = SubSeq(q[x], 2, n)]
                                     /\ q' = [q EXCEPT ![x] = SubSeq(@, n + 1, Len(@)),
                                                       ![<<"t", "down">>] = <<Text("200")>>]
          /\ end' = [end EXCEPT !["sg"] = "open", !["service"] = "open"]
          /\ copy' = [copy EXCEPT !["sUp"] = "read", !["sDown"] = "read"]
       \/ /\ q[x] # <<>>
          /\ hnd' = "done"
          /\ q' = [q EXCEPT ![x] = Tail(@), ![<<"t", "down">>] = <<Text("refused")>>]
          /\ end' = [end EXCEPT !["st"] = "closed"]
          /\ UNCHANGED <<buf, copy>>
  /\ UNCHANGED <<ln, conn, shut, has, sent, got>>

(* The peer goes down, and its connections with it.                        *)
PeerGone ==
  /\ hnd \in {"request", "piped"}
  /\ hnd' = "done"
  /\ Closed({"st", "sg"})
  /\ copy' = [copy EXCEPT !["sUp"] = "done", !["sDown"] = "done"]
  /\ has' = [has EXCEPT !["sUp"] = 0, !["sDown"] = 0]
  /\ buf' = [buf EXCEPT !["sUp"] = <<>>]
  /\ UNCHANGED <<ln, conn, shut, sent, got>>

----------------------------------------------------------------------------
(* pipeTCP: a copier reads a piece and writes it.  On the end of its       *)
(* source, or on an error, it closes both connections of its side.         *)

Side(k) == IF k \in {"pUp", "pDown"} THEN {"pc", "pt"} ELSE {"st", "sg"}

CopyReads(k) ==
  /\ copy[k] = "read"
  /\ IF k \in DOMAIN buf /\ buf[k] # <<>>
     THEN /\ has' = [has EXCEPT ![k] = Head(buf[k]).data]
          /\ buf' = [buf EXCEPT ![k] = Tail(@)]
          /\ UNCHANGED q
     ELSE /\ end[Reader(Src(k))] = "open" /\ q[Src(k)] # <<>>
          /\ has' = [has EXCEPT ![k] = Head(q[Src(k)]).data]
          /\ q' = [q EXCEPT ![Src(k)] = Tail(@)]
          /\ UNCHANGED buf
  /\ copy' = [copy EXCEPT ![k] = "write"]
  /\ UNCHANGED <<ln, conn, hnd, end, shut, sent, got>>

(* TCP takes a write to a connection that the other end has closed; it is  *)
(* lost, and later ones fail.                                              *)
CopyWrites(k) ==
  /\ copy[k] = "write"
  /\ \/ Room(Dst(k)) /\ q' = [q EXCEPT ![Dst(k)] = Append(@, Data(has[k]))]
     \/ /\ Dst(k)[1] # "t" /\ end[Writer(Dst(k))] = "open" /\ end[Reader(Dst(k))] = "closed"
        /\ UNCHANGED q
  /\ copy' = [copy EXCEPT ![k] = "read"]
  /\ has' = [has EXCEPT ![k] = 0]
  /\ UNCHANGED <<ln, conn, hnd, end, shut, buf, sent, got>>

(* Mutant of CopyEnds: it waits for the other direction to end as well.    *)
CopyEndsWaits(k) ==
  /\ \/ /\ copy[k] = "read"
        /\ k \in DOMAIN buf => buf[k] = <<>>
        /\ end[Reader(Src(k))] = "closed" \/ Ended(Src(k))
     \/ /\ copy[k] = "write"
        /\ end[Writer(Dst(k))] = "closed" \/ end[Reader(Dst(k))] = "closed"
  /\ copy' = [copy EXCEPT ![k] = "done"]
  /\ has' = [has EXCEPT ![k] = 0]
  /\ UNCHANGED <<ln, conn, hnd, shut, end, q, buf, sent, got>>

(* Mutant of CopyEnds: what is read together with the end is dropped.      *)
CopyEndsDropsLast(k) ==
  /\ \/ /\ copy[k] = "read"
        /\ k \in DOMAIN buf => buf[k] = <<>>
        /\ \/ end[Reader(Src(k))] = "closed" \/ Ended(Src(k))
           \/ Len(q[Src(k)]) = 1 /\ (end[Writer(Src(k))] = "closed" \/ Writer(Src(k)) \in shut)
     \/ /\ copy[k] = "write"
        /\ end[Writer(Dst(k))] = "closed" \/ end[Reader(Dst(k))] = "closed"
  /\ copy' = [copy EXCEPT ![k] = "done"]
  /\ has' = [has EXCEPT ![k] = 0]
  /\ Closed(Side(k))
  /\ UNCHANGED <<ln, conn, hnd, shut, buf, sent, got>>

CopyEnds(k) ==
  /\ \/ /\ copy[k] = "read"
        /\ k \in DOMAIN buf => buf[k] = <<>>
        /\ end[Reader(Src(k))] = "closed" \/ Ended(Src(k))
     \/ /\ copy[k] = "write"
        /\ end[Writer(Dst(k))] = "closed" \/ end[Reader(Dst(k))] = "closed"
  /\ copy' = [copy EXCEPT ![k] = "done"]
  /\ has' = [has EXCEPT ![k] = 0]
  /\ Closed(Side(k))
  /\ UNCHANGED <<ln, conn, hnd, shut, buf, sent, got>>

----------------------------------------------------------------------------

Next ==
  \/ \E a \in App : AppSends(a) \/ AppReads(a) \/ AppShuts(a) \/ AppCloses(a)
  \/ ProxyClose \/ Accept \/ DialTunnel \/ ReadAnswer
  \/ handleConnect \/ PeerGone
  \/ \E k \in Copier : CopyReads(k) \/ CopyWrites(k) \/ CopyEnds(k)

(* The goroutines run, and the peer's handler answers: its dial is bounded *)
(* by connectDialTimeout.  Nothing is assumed of the applications.         *)
Fairness ==
  /\ WF_vars(Accept) /\ WF_vars(DialTunnel) /\ WF_vars(ReadAnswer) /\ WF_vars(handleConnect)
  /\ \A k \in Copier : WF_vars(CopyReads(k) \/ CopyWrites(k) \/ CopyEnds(k))

SafetySpec == Init /\ [][Next]_vars
Spec == SafetySpec /\ Fairness

----------------------------------------------------------------------------
(* Each application receives a prefix of what the other sent: nothing is   *)
(* reordered, doubled or left out in the middle, in particular not what    *)
(* arrived in one piece with the answer to /connect.                       *)
Faithful ==
  IsPrefix(got["service"], sent["client"]) /\ IsPrefix(got["client"], sent["service"])

(* What is assumed of the applications: that they read what they are sent. *)
AppsRead == \A a \in App : WF_vars(AppReads(a))

Over(a) == a \in shut \/ end[a] = "closed"

AllClosed ==
  /\ \A e \in {"pc", "pt", "st", "sg"} : end[e] # "open"
  /\ \A k \in Copier : copy[k] \in {"off", "done"}

(* When either application ends its side, the whole chain is taken down,   *)
(* provided the applications read what they are sent (one that does not    *)
(* can keep a copier waiting for room).                                    *)
EndsTogether == AppsRead => \A a \in App : Over(a) ~> AllClosed

(* An application that sends and then ends its side has all of it          *)
(* delivered if the other one only reads, although its end makes the proxy *)
(* close both directions.  (If the other one also sends, a copier that     *)
(* meets a closed connection may cut off what is still under way.)         *)
OnlyReads(a) == sent[a] = <<>> /\ ~Over(a)
DeliveredToReader ==
  AppsRead =>
     /\ [](OnlyReads("service") /\ hnd # "done")
          => (Over("client") /\ conn = "piped" ~> got["service"] = sent["client"])
     /\ [](OnlyReads("client") /\ hnd # "done")
          => (Over("service") ~> got["client"] = sent["service"])
=============================================================================
