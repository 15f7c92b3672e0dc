---------------------------- MODULE TunnelProofs ----------------------------
(***************************************************************************)
(* Theorems about Tunnel, for any number of pieces and any capacity of the *)
(* connections.                                                            *)
(***************************************************************************)
EXTENDS Tunnel, TLAPS

----------------------------------------------------------------------------
(* One direction of the chain:                                             *)
(*                                                                         *)
(*   Source --FirstLeg--> Copy1 --MiddleLeg--> Copy2 --LastLeg--> Sink     *)
(*                                                                         *)
(* Copy2 is the copier that reads through a bufio.Reader.                  *)

Dir == {"up", "down"}
Source(d) == IF d = "up" THEN "client" ELSE "service"
Sink(d) == IF d = "up" THEN "service" ELSE "client"
FirstLeg(d) == IF d = "up" THEN <<"c", "up">> ELSE <<"g", "down">>
MiddleLeg(d) == IF d = "up" THEN <<"t", "up">> ELSE <<"t", "down">>
LastLeg(d) == IF d = "up" THEN <<"g", "up">> ELSE <<"c", "down">>
Copy1(d) == IF d = "up" THEN "pUp" ELSE "sDown"
Copy2(d) == IF d = "up" THEN "sUp" ELSE "pDown"

(* The n-th piece of a direction has the number Base(d) + n.               *)
Base(d) == IF d = "up" THEN 0 ELSE MaxUp
Bound(d) == IF d = "up" THEN MaxUp ELSE MaxDown
Sent(d) == Len(sent[Source(d)])
Got(d) == Len(got[Sink(d)])
Numbers(d) == Base(d) + 1 .. Base(d) + Sent(d)

(* Whether the tunnel starts with an HTTP text that Copy2 is not to read.  *)
Skip(d) ==
  IF d = "up" THEN IF hnd = "request" THEN 1 ELSE 0
              ELSE IF conn = "answer" /\ q[<<"t", "down">>] # <<>> THEN 1 ELSE 0

(* How many pieces have come past each place.                              *)
Holds(k) == IF copy[k] = "write" THEN 1 ELSE 0
AtLast(d) == Got(d) + Len(q[LastLeg(d)])
AtCopy2(d) == AtLast(d) + Holds(Copy2(d))
AtBuf(d) == AtCopy2(d) + Len(buf[Copy2(d)])
AtMiddle(d) == AtBuf(d) + (Len(q[MiddleLeg(d)]) - Skip(d))
AtCopy1(d) == AtMiddle(d) + Holds(Copy1(d))
AtFirst(d) == AtCopy1(d) + Len(q[FirstLeg(d)])

(* p holds, after its first skip elements, the pieces that follow number n.*)
Run(p, skip, n) == \A i \in 1 + skip..Len(p) : p[i].data = n + (i - skip)

Alive(e) == end[e] # "closed"

(* Each place holds the pieces that come next, as far as they can still    *)
(* get to the sink.                                                        *)
Aligned(d) ==
  Alive(Sink(d)) =>
    /\ Run(q[LastLeg(d)], 0, Base(d) + Got(d))
    /\ Alive(Writer(LastLeg(d))) =>
        /\ copy[Copy2(d)] = "write" => has[Copy2(d)] = Base(d) + AtLast(d) + 1
        /\ Run(buf[Copy2(d)], 0, Base(d) + AtCopy2(d))
        /\ Alive(Reader(MiddleLeg(d))) =>
            /\ Run(q[MiddleLeg(d)], Skip(d), Base(d) + AtBuf(d))
            /\ Alive(Writer(MiddleLeg(d))) =>
                /\ copy[Copy1(d)] = "write" => has[Copy1(d)] = Base(d) + AtMiddle(d) + 1
                /\ Alive(Reader(FirstLeg(d))) =>
                    /\ Run(q[FirstLeg(d)], 0, Base(d) + AtCopy1(d))
                    /\ Alive(Source(d)) => Sent(d) = AtFirst(d)

(* What is under way was sent.                                             *)
Within(p, skip, S) == \A i \in 1 + skip..Len(p) : p[i].data \in S
Known(d) ==
  /\ Within(q[FirstLeg(d)], 0, Numbers(d)) /\ Within(q[MiddleLeg(d)], Skip(d), Numbers(d)) /\ Within(q[LastLeg(d)], 0, Numbers(d))
  /\ Within(buf[Copy2(d)], 0, Numbers(d))
  /\ copy[Copy1(d)] = "write" => has[Copy1(d)] \in Numbers(d)
  /\ copy[Copy2(d)] = "write" => has[Copy2(d)] \in Numbers(d)

(* The pieces are sent, and received, in the order of their numbers.       *)
Counted(d) ==
  /\ Sent(d) <= Bound(d) /\ Got(d) <= Sent(d)
  /\ \A i \in 1..Sent(d) : sent[Source(d)][i] = Base(d) + i
  /\ \A i \in 1..Got(d) : got[Sink(d)][i] = Base(d) + i

(* How far the two sides have got with setting up the chain.               *)
Phases ==
  /\ conn \in {"backlog", "dial"} => hnd = "none"
  /\ hnd = "none" => /\ conn \in {"backlog", "dial", "done"}
                     /\ end["pt"] = "none" /\ end["st"] = "none"
                     /\ q[<<"t", "up">>] = <<>> /\ q[<<"t", "down">>] = <<>>
  /\ hnd \in {"none", "request"} =>
       /\ end["sg"] = "none" /\ end["service"] = "none"
       /\ q[<<"g", "up">>] = <<>> /\ q[<<"g", "down">>] = <<>> /\ buf["sUp"] = <<>>
       /\ copy["sUp"] = "off" /\ copy["sDown"] = "off"
  /\ hnd = "request" =>
       /\ conn = "answer" /\ end["st"] = "open"
       /\ q[<<"t", "up">>] = <<Text("request")>> /\ q[<<"t", "down">>] = <<>>
  /\ conn = "answer" => end["pt"] = "open"
  /\ conn \in {"backlog", "dial", "answer"} =>
       /\ end["pc"] = "open" /\ copy["pUp"] = "off" /\ copy["pDown"] = "off"
       /\ buf["pDown"] = <<>>
  /\ conn = "answer" /\ hnd = "piped" => q[<<"t", "down">>] # <<>>
  /\ \A k \in {"pUp", "pDown"} : copy[k] \in {"read", "write"} => conn = "piped"
  /\ \A k \in {"sUp", "sDown"} : copy[k] \in {"read", "write"} => hnd = "piped"

DirInv(d) == Known(d) /\ Counted(d) /\ Aligned(d)
ChainInv == Phases /\ \A d \in Dir : DirInv(d)

----------------------------------------------------------------------------
(* The chain's parts.                                                      *)

(* The streams of a direction, from its source to its sink.                *)
LEMMA Legs ==
  ASSUME NEW d \in Dir
  PROVE  /\ FirstLeg(d) \in Stream /\ MiddleLeg(d) \in Stream /\ LastLeg(d) \in Stream
         /\ FirstLeg(d) # MiddleLeg(d) /\ FirstLeg(d) # LastLeg(d) /\ MiddleLeg(d) # LastLeg(d)
         /\ FirstLeg(d)[1] # "t" /\ MiddleLeg(d)[1] = "t" /\ LastLeg(d)[1] # "t"
         /\ Source(d) \in App /\ Sink(d) \in App /\ Source(d) # Sink(d)
         /\ Out(Source(d)) = FirstLeg(d) /\ In(Sink(d)) = LastLeg(d)
BY DEF Dir, FirstLeg, MiddleLeg, LastLeg, Source, Sink, App, Out, In, Stream

(* The copiers of a direction, and between which streams they copy.        *)
LEMMA Copiers ==
  ASSUME NEW d \in Dir
  PROVE  /\ Copy1(d) \in Copier /\ Copy2(d) \in Copier /\ Copy1(d) # Copy2(d)
         /\ Copy2(d) \in {"pDown", "sUp"} /\ Copy1(d) \notin {"pDown", "sUp"}
         /\ Src(Copy1(d)) = FirstLeg(d) /\ Dst(Copy1(d)) = MiddleLeg(d)
         /\ Src(Copy2(d)) = MiddleLeg(d) /\ Dst(Copy2(d)) = LastLeg(d)
BY DEF Dir, FirstLeg, MiddleLeg, LastLeg, Copy1, Copy2, Copier, Src, Dst

(* The ends of the streams.                                                *)
LEMMA Ends ==
  /\ Writer(<<"c", "up">>) = "client" /\ Reader(<<"c", "up">>) = "pc"
  /\ Writer(<<"c", "down">>) = "pc" /\ Reader(<<"c", "down">>) = "client"
  /\ Writer(<<"t", "up">>) = "pt" /\ Reader(<<"t", "up">>) = "st"
  /\ Writer(<<"t", "down">>) = "st" /\ Reader(<<"t", "down">>) = "pt"
  /\ Writer(<<"g", "up">>) = "sg" /\ Reader(<<"g", "up">>) = "service"
  /\ Writer(<<"g", "down">>) = "service" /\ Reader(<<"g", "down">>) = "sg"
<1>1. /\ Writer(<<"c", "up">>) = "client" /\ Writer(<<"c", "down">>) = "pc"
      /\ Writer(<<"t", "up">>) = "pt" /\ Writer(<<"t", "down">>) = "st"
      /\ Writer(<<"g", "up">>) = "sg" /\ Writer(<<"g", "down">>) = "service"
  BY DEF Writer
<1> QED BY <1>1 DEF Reader

(* Each side of the chain holds two ends that lie between two legs.        *)
LEMMA LegEnds ==
  ASSUME NEW d \in Dir
  PROVE  /\ Writer(FirstLeg(d)) = Source(d) /\ Reader(LastLeg(d)) = Sink(d)
         /\ {Reader(FirstLeg(d)), Writer(MiddleLeg(d))} = IF d = "up" THEN {"pc", "pt"} ELSE {"st", "sg"}
         /\ {Reader(MiddleLeg(d)), Writer(LastLeg(d))} = IF d = "up" THEN {"st", "sg"} ELSE {"pc", "pt"}
         /\ Reader(FirstLeg(d)) \in End /\ Writer(MiddleLeg(d)) \in End
         /\ Reader(MiddleLeg(d)) \in End /\ Writer(LastLeg(d)) \in End
         /\ Source(d) \in End /\ Sink(d) \in End
BY Ends DEF Dir, FirstLeg, MiddleLeg, LastLeg, Source, Sink, End

(* The copiers of the other direction.                                     *)
LEMMA OtherCopiers ==
  ASSUME NEW d \in Dir, NEW k \in Copier, k # Copy1(d), k # Copy2(d)
  PROVE  /\ Src(k) \in Stream /\ Dst(k) \in Stream
         /\ Src(k) \notin {FirstLeg(d), MiddleLeg(d), LastLeg(d)}
         /\ Dst(k) \notin {FirstLeg(d), MiddleLeg(d), LastLeg(d)}
BY DEF Dir, FirstLeg, MiddleLeg, LastLeg, Copy1, Copy2, Copier, Src, Dst, Stream

----------------------------------------------------------------------------
(* Sequences of pieces.                                                    *)

(* What Append, Tail and SubSeq do to pieces.                              *)
LEMMA AppendPiece ==
  ASSUME NEW p \in Seq(Piece), NEW w \in Piece
  PROVE  /\ Append(p, w) \in Seq(Piece) /\ Len(p) \in Nat /\ Len(Append(p, w)) = Len(p) + 1
         /\ Append(p, w) # <<>> /\ Append(p, w)[Len(p) + 1] = w
         /\ \A i \in 1..Len(p) : Append(p, w)[i] = p[i]
OBVIOUS

LEMMA TailPiece ==
  ASSUME NEW p \in Seq(Piece), p # <<>>
  PROVE  /\ Tail(p) \in Seq(Piece) /\ Len(p) \in Nat \ {0} /\ Len(Tail(p)) = Len(p) - 1
         /\ Head(p) = p[1] /\ p[1] \in Piece
         /\ \A i \in 1..Len(p) - 1 : Tail(p)[i] = p[i + 1]
OBVIOUS

LEMMA SubSeqPiece ==
  ASSUME NEW p \in Seq(Piece), NEW m \in Nat, NEW n \in Nat, m >= 1, n <= Len(p), m <= n + 1
  PROVE  /\ SubSeq(p, m, n) \in Seq(Piece) /\ Len(SubSeq(p, m, n)) = n - m + 1
         /\ \A i \in 1..n - m + 1 : SubSeq(p, m, n)[i] = p[m + i - 1]
OBVIOUS

(* A piece of data carries its number.                                     *)
LEMMA DataPiece ==
  ASSUME NEW n \in Number
  PROVE  Data(n) \in Piece /\ Data(n).data = n
BY DEF Data, Piece

(* A piece is written.                                                     *)
LEMMA RunAppend ==
  ASSUME NEW p \in Seq(Piece), NEW skip \in {0, 1}, NEW n \in Nat, NEW m \in Number, skip <= Len(p),
         Run(p, skip, n), m = n + (Len(p) - skip) + 1
  PROVE  Run(Append(p, Data(m)), skip, n)
<1> DEFINE r == Append(p, Data(m))
<1>1. /\ Len(p) \in Nat /\ Len(r) = Len(p) + 1 /\ r[Len(p) + 1].data = m
      /\ \A i \in 1..Len(p) : r[i] = p[i]
  BY AppendPiece, DataPiece
<1> HIDE DEF r
<1> SUFFICES ASSUME NEW i \in 1 + skip..Len(r) PROVE r[i].data = n + (i - skip)
  BY DEF Run, r
<1>2. CASE i = Len(p) + 1
  BY <1>1, <1>2
<1>3. CASE i # Len(p) + 1
  <2>1. i \in 1 + skip..Len(p) /\ i \in 1..Len(p)
    BY <1>1, <1>3
  <2> QED BY <1>1, <2>1 DEF Run
<1> QED BY <1>2, <1>3

(* Appending and removing what belongs to a set.                           *)
LEMMA WithinAppend ==
  ASSUME NEW p \in Seq(Piece), NEW skip \in {0, 1}, NEW S, NEW m \in Number, m \in S, Within(p, skip, S)
  PROVE  Within(Append(p, Data(m)), skip, S)
<1> DEFINE r == Append(p, Data(m))
<1>1. /\ Len(p) \in Nat /\ Len(r) = Len(p) + 1 /\ r[Len(p) + 1].data = m
      /\ \A i \in 1..Len(p) : r[i] = p[i]
  BY AppendPiece, DataPiece
<1> HIDE DEF r
<1> SUFFICES ASSUME NEW i \in 1 + skip..Len(r) PROVE r[i].data \in S
  BY DEF Within, r
<1>2. CASE i = Len(p) + 1
  BY <1>1, <1>2
<1>3. CASE i # Len(p) + 1
  <2>1. i \in 1 + skip..Len(p) /\ i \in 1..Len(p)
    BY <1>1, <1>3
  <2> QED BY <1>1, <2>1 DEF Within
<1> QED BY <1>2, <1>3

(* A piece is read.                                                        *)
LEMMA RunTail ==
  ASSUME NEW p \in Seq(Piece), NEW n \in Nat, p # <<>>, Run(p, 0, n)
  PROVE  Head(p).data = n + 1 /\ Run(Tail(p), 0, n + 1)
<1>1. /\ Len(p) \in Nat \ {0} /\ Len(Tail(p)) = Len(p) - 1 /\ Head(p) = p[1]
      /\ \A i \in 1..Len(p) - 1 : Tail(p)[i] = p[i + 1]
  BY TailPiece
<1>2. Head(p).data = n + 1
  BY <1>1 DEF Run
<1>3. ASSUME NEW i \in 1 + 0..Len(Tail(p)) PROVE Tail(p)[i].data = n + 1 + (i - 0)
  <2>1. i \in 1..Len(p) - 1 /\ i + 1 \in 1 + 0..Len(p)
    BY <1>1
  <2> QED BY <1>1, <2>1 DEF Run
<1> QED BY <1>2, <1>3 DEF Run

LEMMA WithinTail ==
  ASSUME NEW p \in Seq(Piece), NEW S, p # <<>>, Within(p, 0, S)
  PROVE  Head(p).data \in S /\ Within(Tail(p), 0, S)
<1>1. /\ Len(p) \in Nat \ {0} /\ Len(Tail(p)) = Len(p) - 1 /\ Head(p) = p[1]
      /\ \A i \in 1..Len(p) - 1 : Tail(p)[i] = p[i + 1]
  BY TailPiece
<1>2. Head(p).data \in S
  BY <1>1 DEF Within
<1>3. ASSUME NEW i \in 1 + 0..Len(Tail(p)) PROVE Tail(p)[i].data \in S
  <2>1. i \in 1..Len(p) - 1 /\ i + 1 \in 1 + 0..Len(p)
    BY <1>1
  <2> QED BY <1>1, <2>1 DEF Within
<1> QED BY <1>2, <1>3 DEF Within

(* The end of a stream is lost.                                            *)
LEMMA RunShorter ==
  ASSUME NEW p \in Seq(Piece), NEW n \in Nat, NEW m \in Nat, m <= Len(p)
  PROVE  /\ Run(p, 0, n) => Run(SubSeq(p, 1, m), 0, n)
         /\ \A S : Within(p, 0, S) => Within(SubSeq(p, 1, m), 0, S)
<1>1. /\ Len(p) \in Nat /\ Len(SubSeq(p, 1, m)) = m
      /\ \A i \in 1..m : SubSeq(p, 1, m)[i] = p[i]
  <2>1. Len(p) \in Nat /\ m - 1 + 1 = m /\ \A i \in 1..m : 1 + i - 1 = i
    OBVIOUS
  <2> QED BY <2>1, SubSeqPiece
<1>2. \A i \in 1 + 0..m : i \in 1..m /\ i \in 1 + 0..Len(p)
  BY <1>1
<1> QED BY <1>1, <1>2 DEF Run, Within

(* A reader takes a text and m - 1 pieces that follow it.                  *)
LEMMA RunSplit ==
  ASSUME NEW p \in Seq(Piece), NEW n \in Nat, NEW m \in 1..Len(p)
  PROVE  /\ SubSeq(p, 2, m) \in Seq(Piece) /\ Len(SubSeq(p, 2, m)) = m - 1
         /\ SubSeq(p, m + 1, Len(p)) \in Seq(Piece) /\ Len(SubSeq(p, m + 1, Len(p))) = Len(p) - m
         /\ Run(p, 1, n) => /\ Run(SubSeq(p, 2, m), 0, n)
                            /\ Run(SubSeq(p, m + 1, Len(p)), 0, n + (m - 1))
         /\ \A S : Within(p, 1, S) => /\ Within(SubSeq(p, 2, m), 0, S)
                                      /\ Within(SubSeq(p, m + 1, Len(p)), 0, S)
<1> DEFINE a == SubSeq(p, 2, m)
           b == SubSeq(p, m + 1, Len(p))
<1>1. Len(p) \in Nat /\ m \in Nat /\ m + 1 \in Nat /\ 2 <= m + 1 /\ m + 1 <= Len(p) + 1 /\ m <= Len(p)
  OBVIOUS
<1>2. /\ a \in Seq(Piece) /\ Len(a) = m - 2 + 1
      /\ \A i \in 1..m - 2 + 1 : a[i] = p[2 + i - 1]
  BY <1>1, SubSeqPiece
<1>3. /\ b \in Seq(Piece) /\ Len(b) = Len(p) - (m + 1) + 1
      /\ \A i \in 1..Len(p) - (m + 1) + 1 : b[i] = p[m + 1 + i - 1]
  BY <1>1, SubSeqPiece
<1> HIDE DEF a, b
<1>4. Len(a) = m - 1 /\ \A i \in 1 + 0..Len(a) : i + 1 \in 1 + 1..Len(p) /\ a[i] = p[i + 1]
  BY <1>1, <1>2
<1>5. Len(b) = Len(p) - m /\ \A i \in 1 + 0..Len(b) : i + m \in 1 + 1..Len(p) /\ b[i] = p[i + m]
  <2>1. Len(b) = Len(p) - m
    BY <1>1, <1>3
  <2>2. ASSUME NEW i \in 1 + 0..Len(b) PROVE i + m \in 1 + 1..Len(p) /\ b[i] = p[i + m]
    <3>1. i \in 1..Len(p) - (m + 1) + 1 /\ m + 1 + i - 1 = i + m /\ i + m \in 1 + 1..Len(p)
      BY <1>1, <2>1
    <3> QED BY <1>3, <3>1
  <2> QED BY <2>1, <2>2
<1>6. Run(p, 1, n) => Run(a, 0, n) /\ Run(b, 0, n + (m - 1))
  <2> SUFFICES ASSUME Run(p, 1, n) PROVE Run(a, 0, n) /\ Run(b, 0, n + (m - 1))
    OBVIOUS
  <2>1. ASSUME NEW i \in 1 + 0..Len(a) PROVE a[i].data = n + (i - 0)
    <3>1. p[i + 1].data = n + (i + 1 - 1)
      BY <1>4 DEF Run
    <3> QED BY <1>4, <3>1
  <2>2. ASSUME NEW i \in 1 + 0..Len(b) PROVE b[i].data = n + (m - 1) + (i - 0)
    <3>1. p[i + m].data = n + (i + m - 1)
      BY <1>5 DEF Run
    <3>2. i \in Nat
      BY <1>1, <1>5
    <3> QED BY <1>1, <1>5, <3>1, <3>2
  <2> QED BY <2>1, <2>2 DEF Run
<1>7. \A S : Within(p, 1, S) => Within(a, 0, S) /\ Within(b, 0, S)
  BY <1>4, <1>5 DEF Within
<1> QED BY <1>2, <1>3, <1>4, <1>5, <1>6, <1>7 DEF a, b

(* An empty queue holds nothing.                                           *)
LEMMA RunEmpty ==
  ASSUME NEW n, NEW S
  PROVE  <<>> \in Seq(Piece) /\ Len(<<>>) = 0 /\ Run(<<>>, 0, n) /\ Within(<<>>, 0, S)
BY DEF Run, Within

----------------------------------------------------------------------------
(* Types.                                                                  *)

(* What closing the ends E may lose.                                       *)
LEMMA ClosedEffect ==
  ASSUME TypeOK, NEW E, Closed(E)
  PROVE  /\ end' \in [End -> {"none", "open", "closed"}]
         /\ \A e \in End : end'[e] = IF e \in E THEN "closed" ELSE end[e]
         /\ q' \in [Stream -> Seq(Piece)] /\ \A x \in Stream : Len(q'[x]) <= Cap
         /\ \A x \in Stream :
              \/ q'[x] = q[x]
              \/ Reader(x) \in E /\ q'[x] = <<>>
              \/ /\ x[1] # "t" /\ Writer(x) \in E
                 /\ \E kept \in Nat : kept <= Len(q[x]) /\ q'[x] = SubSeq(q[x], 1, kept)
         /\ \A x \in Stream : Reader(x) \in E /\ end[Reader(x)] = "open" => q'[x] = <<>>
<1>1. /\ end \in [End -> {"none", "open", "closed"}] /\ q \in [Stream -> Seq(Piece)]
      /\ \A x \in Stream : Len(q[x]) <= Cap
  BY DEF TypeOK
<1>2. end' = [e \in End |-> IF e \in E THEN "closed" ELSE end[e]]
  BY DEF Closed
<1>3. PICK kept \in 0..Cap : q' =
       [x \in Stream |->
          IF Reader(x) \in E /\ end[Reader(x)] = "open" THEN <<>>
          ELSE IF /\ x[1] # "t" /\ Len(q[x]) > kept
                  /\ Writer(x) \in E /\ end[Writer(x)] = "open" /\ Unread(Writer(x))
          THEN SubSeq(q[x], 1, kept)
          ELSE q[x]]
  BY DEF Closed
<1>4. kept \in Nat /\ kept <= Cap
  BY BoundsAssumption
<1>5. ASSUME NEW x \in Stream
      PROVE  /\ q'[x] \in Seq(Piece) /\ Len(q'[x]) <= Cap
             /\ \/ q'[x] = q[x]
                \/ Reader(x) \in E /\ q'[x] = <<>>
                \/ /\ x[1] # "t" /\ Writer(x) \in E
                   /\ \E m \in Nat : m <= Len(q[x]) /\ q'[x] = SubSeq(q[x], 1, m)
             /\ Reader(x) \in E /\ end[Reader(x)] = "open" => q'[x] = <<>>
  <2>1. q[x] \in Seq(Piece) /\ Len(q[x]) <= Cap /\ Len(q[x]) \in Nat
    BY <1>1
  <2>2. CASE Reader(x) \in E /\ end[Reader(x)] = "open"
    <3>1. q'[x] = <<>>
      BY <1>3, <2>2
    <3>2. <<>> \in Seq(Piece) /\ Len(<<>>) <= Cap
      BY BoundsAssumption
    <3> QED BY <2>2, <3>1, <3>2
  <2>3. CASE /\ ~(Reader(x) \in E /\ end[Reader(x)] = "open")
             /\ x[1] # "t" /\ Len(q[x]) > kept
             /\ Writer(x) \in E /\ end[Writer(x)] = "open" /\ Unread(Writer(x))
    <3>1. q'[x] = SubSeq(q[x], 1, kept)
      BY <1>3, <2>3
    <3>2. kept <= Len(q[x])
      BY <1>4, <2>1, <2>3
    <3>3. SubSeq(q[x], 1, kept) \in Seq(Piece) /\ Len(SubSeq(q[x], 1, kept)) = kept
      <4>1. 1 >= 1 /\ 1 <= kept + 1 /\ kept - 1 + 1 = kept
        BY <1>4
      <4> QED BY <1>4, <2>1, <3>2, <4>1, SubSeqPiece
    <3> QED BY <1>4, <2>3, <3>1, <3>2, <3>3
  <2>4. CASE /\ ~(Reader(x) \in E /\ end[Reader(x)] = "open")
             /\ ~(/\ x[1] # "t" /\ Len(q[x]) > kept
                 /\ Writer(x) \in E /\ end[Writer(x)] = "open" /\ Unread(Writer(x)))
    <3>1. q'[x] = q[x]
      BY <1>3, <2>4
    <3> QED BY <2>1, <2>4, <3>1
  <2> QED BY <2>2, <2>3, <2>4
<1>6. q' \in [Stream -> Seq(Piece)]
  BY <1>3, <1>5
<1> QED BY <1>1, <1>2, <1>5, <1>6

(* Every copier belongs to a direction.                                    *)
LEMMA Whose ==
  ASSUME NEW k \in Copier
  PROVE  \E d \in Dir : k = Copy1(d) \/ k = Copy2(d)
BY DEF Copier, Dir, Copy1, Copy2

(* The numbers of a direction's pieces are numbers.                        *)
LEMMA NumbersType ==
  ASSUME NEW d \in Dir, TypeOK, Counted(d)
  PROVE  /\ Numbers(d) \subseteq Number /\ Base(d) \in Nat /\ Sent(d) \in Nat /\ Got(d) \in Nat
         /\ Bound(d) \in Nat /\ Base(d) + Bound(d) <= MaxUp + MaxDown
<1>1. sent[Source(d)] \in Seq(Number) /\ got[Sink(d)] \in Seq(Number)
  BY Legs DEF TypeOK
<1>2. Sent(d) \in Nat /\ Got(d) \in Nat /\ Sent(d) <= Bound(d)
  BY <1>1 DEF Sent, Got, Counted
<1>3. Base(d) \in Nat /\ Bound(d) \in Nat /\ Base(d) + Bound(d) <= MaxUp + MaxDown
  BY BoundsAssumption DEF Dir, Base, Bound
<1>4. MaxUp + MaxDown \in Nat
  BY BoundsAssumption
<1> QED BY <1>2, <1>3, <1>4 DEF Numbers, Number

(* A text is only at the head of a tunnel whose reader has not started.    *)
LEMMA SkipFacts ==
  ASSUME NEW d \in Dir, TypeOK, Phases
  PROVE  /\ Skip(d) \in {0, 1} /\ Skip(d) <= Len(q[MiddleLeg(d)])
         /\ Len(q[MiddleLeg(d)]) \in Nat
         /\ copy[Copy2(d)] \in {"read", "write"} => Skip(d) = 0
<1>1. q[<<"t", "up">>] \in Seq(Piece) /\ q[<<"t", "down">>] \in Seq(Piece)
  BY DEF TypeOK, Stream
<1>2. CASE d = "up"
  <2>1. hnd = "request" => Len(q[<<"t", "up">>]) = 1
    <3>1. Len(<<Text("request")>>) = 1
      OBVIOUS
    <3> QED BY <3>1 DEF Phases
  <2>2. copy["sUp"] \in {"read", "write"} => hnd = "piped"
    BY DEF Phases
  <2>3. MiddleLeg(d) = <<"t", "up">> /\ Copy2(d) = "sUp" /\ Len(q[<<"t", "up">>]) \in Nat
    BY <1>1, <1>2 DEF MiddleLeg, Copy2
  <2>4. CASE hnd = "request"
    <3>1. Skip(d) = 1
      BY <1>2, <2>4 DEF Skip
    <3> QED BY <2>1, <2>2, <2>3, <2>4, <3>1
  <2>5. CASE hnd # "request"
    <3>1. Skip(d) = 0
      BY <1>2, <2>5 DEF Skip
    <3> QED BY <2>3, <3>1
  <2> QED BY <2>4, <2>5
<1>3. CASE d = "down"
  <2>1. q[<<"t", "down">>] # <<>> => Len(q[<<"t", "down">>]) >= 1
    BY <1>1
  <2> QED BY <1>1, <1>3, <2>1 DEF Skip, MiddleLeg, Copy2, Phases
<1> QED BY <1>2, <1>3 DEF Dir

(* Every step keeps the types.                                             *)
LEMMA TypeStep ==
  ASSUME TypeOK, ChainInv, [Next]_vars
  PROVE  TypeOK'
<1>0. /\ 0 \in Number /\ Cap \in Nat /\ Cap >= 1 /\ MaxUp \in Nat /\ MaxDown \in Nat
      /\ \A t \in {"request", "200", "refused"} : Text(t) \in Piece
  BY BoundsAssumption DEF Number, Text, Piece
<1>1. ASSUME NEW a \in App, AppSends(a) PROVE TypeOK'
  <2> DEFINE n == Len(sent[a]) + IF a = "client" THEN 1 ELSE MaxUp + 1
  <2>1. /\ Room(Out(a)) /\ Len(sent[a]) < (IF a = "client" THEN MaxUp ELSE MaxDown)
        /\ q' = [q EXCEPT ![Out(a)] = Append(@, Data(n))]
        /\ sent' = [sent EXCEPT ![a] = Append(@, n)]
        /\ UNCHANGED <<ln, conn, hnd, end, shut, buf, copy, has, got>>
    BY <1>1 DEF AppSends
  <2>2. sent[a] \in Seq(Number) /\ Out(a) \in Stream
    BY DEF TypeOK, Out, Stream
  <2>3. n \in Number
    <3>1. Len(sent[a]) \in Nat
      BY <2>2
    <3>2. CASE a = "client"
      BY <1>0, <2>1, <3>1, <3>2 DEF Number
    <3>3. CASE a # "client"
      <4>1. n = Len(sent[a]) + (MaxUp + 1) /\ Len(sent[a]) < MaxDown
        BY <2>1, <3>3
      <4>2. \A i, u, v \in Nat : i < v => i + (u + 1) \in 0..(u + v)
        OBVIOUS
      <4> HIDE DEF n
      <4> QED BY <1>0, <3>1, <4>1, <4>2 DEF Number
    <3> QED BY <3>2, <3>3
  <2> HIDE DEF n
  <2>4. q[Out(a)] \in Seq(Piece) /\ Len(q[Out(a)]) < Cap
    BY <2>1, <2>2 DEF Room, TypeOK
  <2>5. Append(q[Out(a)], Data(n)) \in Seq(Piece) /\ Len(Append(q[Out(a)], Data(n))) <= Cap
    BY <1>0, <2>3, <2>4, AppendPiece, DataPiece
  <2>6. Append(sent[a], n) \in Seq(Number)
    BY <2>2, <2>3
  <2> QED BY <2>1, <2>2, <2>5, <2>6 DEF TypeOK
<1>2. ASSUME NEW a \in App, AppReads(a) PROVE TypeOK'
  <2>1. PICK d \in Dir : a = Sink(d)
    BY DEF App, Dir, Sink
  <2>2. In(a) = LastLeg(d) /\ LastLeg(d) \in Stream
    BY <2>1, Legs
  <2>3. q[In(a)] \in Seq(Piece) /\ q[In(a)] # <<>> /\ got[a] \in Seq(Number) /\ Len(q[In(a)]) <= Cap
    BY <1>2, <2>2 DEF AppReads, TypeOK
  <2>4. Head(q[In(a)]).data \in Number
    <3>1. Within(q[In(a)], 0, Numbers(d)) /\ Counted(d)
      BY <2>2 DEF ChainInv, DirInv, Known
    <3> QED BY <2>3, <3>1, WithinTail, NumbersType
  <2>5. Tail(q[In(a)]) \in Seq(Piece) /\ Len(Tail(q[In(a)])) <= Cap
    BY <1>0, <2>3, TailPiece
  <2>6. Append(got[a], Head(q[In(a)]).data) \in Seq(Number)
    BY <2>3, <2>4
  <2> QED BY <1>2, <2>2, <2>5, <2>6 DEF AppReads, TypeOK
<1>3. ASSUME NEW a \in App, AppShuts(a) PROVE TypeOK'
  BY <1>3 DEF AppShuts, TypeOK
<1>4. ASSUME NEW a \in App, AppCloses(a) PROVE TypeOK'
  <2>1. Closed({a})
    BY <1>4 DEF AppCloses
  <2> QED BY <1>4, <2>1, ClosedEffect DEF AppCloses, TypeOK
<1>5. CASE ProxyClose \/ Accept
  <2>1. CASE Closed({"pc"})
    BY <1>5, <2>1, ClosedEffect DEF ProxyClose, Accept, TypeOK
  <2>2. CASE UNCHANGED <<end, q>>
    BY <1>5, <2>2 DEF ProxyClose, Accept, TypeOK
  <2> QED BY <1>5, <2>1, <2>2 DEF ProxyClose, Accept
<1>6. CASE DialTunnel
  <2>1. CASE Closed({"pc"}) /\ conn' = "done" /\ UNCHANGED hnd
    BY <1>6, <2>1, ClosedEffect DEF DialTunnel, TypeOK
  <2>2. CASE ~(Closed({"pc"}) /\ conn' = "done" /\ UNCHANGED hnd)
    <3>1. <<Text("request")>> \in Seq(Piece) /\ Len(<<Text("request")>>) <= Cap
      BY <1>0
    <3>2. /\ conn' = "answer" /\ hnd' = "request"
          /\ end' = [end EXCEPT !["pt"] = "open", !["st"] = "open"]
          /\ q' = [q EXCEPT ![<<"t", "up">>] = <<Text("request")>>]
          /\ UNCHANGED <<ln, shut, buf, copy, has, sent, got>>
      BY <1>6, <2>2 DEF DialTunnel
    <3>3. q' \in [Stream -> Seq(Piece)] /\ \A z \in Stream : Len(q'[z]) <= Cap
      BY <3>1, <3>2 DEF TypeOK
    <3> QED BY <3>2, <3>3 DEF TypeOK
  <2> QED BY <2>1, <2>2
<1>7. CASE ReadAnswer
  <2> DEFINE x == <<"t", "down">>
  <2>1. CASE Closed({"pc", "pt"}) /\ conn' = "done" /\ UNCHANGED <<buf, copy>>
    BY <1>7, <2>1, ClosedEffect DEF ReadAnswer, TypeOK
  <2>2. CASE ~(Closed({"pc", "pt"}) /\ conn' = "done" /\ UNCHANGED <<buf, copy>>)
    <3>1. PICK n \in 1..Len(q[x]) : /\ buf' = [buf EXCEPT !["pDown"] = SubSeq(q[x], 2, n)]
                                     /\ q' = [q EXCEPT ![x] = SubSeq(@, n + 1, Len(@))]
      BY <1>7, <2>2 DEF ReadAnswer
    <3>2. x \in Stream /\ q[x] \in Seq(Piece) /\ Len(q[x]) <= Cap /\ Len(q[x]) \in Nat
      BY DEF TypeOK, Stream
    <3>3. /\ SubSeq(q[x], 2, n) \in Seq(Piece) /\ SubSeq(q[x], n + 1, Len(q[x])) \in Seq(Piece)
          /\ Len(SubSeq(q[x], n + 1, Len(q[x]))) <= Cap
      BY <1>0, <3>2, RunSplit
    <3> HIDE DEF x
    <3>4. q' \in [Stream -> Seq(Piece)] /\ \A y \in Stream : Len(q'[y]) <= Cap
      BY <3>1, <3>2, <3>3 DEF TypeOK
    <3>5. buf' \in [{"pDown", "sUp"} -> Seq(Piece)]
      BY <3>1, <3>3 DEF TypeOK
    <3>6. conn' = "piped" /\ copy' = [copy EXCEPT !["pUp"] = "read", !["pDown"] = "read"]
          /\ UNCHANGED <<ln, hnd, end, shut, has, sent, got>>
      BY <1>7, <2>2 DEF ReadAnswer
    <3> QED BY <3>4, <3>5, <3>6 DEF TypeOK
  <2> QED BY <2>1, <2>2
<1>8. CASE handleConnect
  <2> DEFINE x == <<"t", "up">>
             y == <<"t", "down">>
  <2>0. /\ x \in Stream /\ y \in Stream /\ x # y /\ q[x] \in Seq(Piece) /\ Len(q[x]) <= Cap
        /\ Len(q[x]) \in Nat /\ q[x] # <<>>
    BY <1>8 DEF TypeOK, Stream, handleConnect
  <2>1. \A t \in {"request", "200", "refused"} : <<Text(t)>> \in Seq(Piece) /\ Len(<<Text(t)>>) <= Cap
    BY <1>0
  <2>2. CASE hnd' = "piped"
    <3>1. PICK n \in 1..Len(q[x]) : /\ buf' = [buf EXCEPT !["sUp"] = SubSeq(q[x], 2, n)]
                                     /\ q' = [q EXCEPT ![x] = SubSeq(@, n + 1, Len(@)),
                                                       ![y] = <<Text("200")>>]
      BY <1>8, <2>2 DEF handleConnect
    <3>3. /\ SubSeq(q[x], 2, n) \in Seq(Piece) /\ SubSeq(q[x], n + 1, Len(q[x])) \in Seq(Piece)
          /\ Len(SubSeq(q[x], n + 1, Len(q[x]))) <= Cap
      BY <1>0, <2>0, RunSplit
    <3>6. /\ copy' = [copy EXCEPT !["sUp"] = "read", !["sDown"] = "read"]
          /\ end' = [end EXCEPT !["sg"] = "open", !["service"] = "open"]
          /\ UNCHANGED <<ln, conn, shut, has, sent, got>>
      BY <1>8, <2>2 DEF handleConnect
    <3> HIDE DEF x, y
    <3>4. q' \in [Stream -> Seq(Piece)] /\ \A z \in Stream : Len(q'[z]) <= Cap
      BY <2>0, <2>1, <3>1, <3>3 DEF TypeOK
    <3>5. buf' \in [{"pDown", "sUp"} -> Seq(Piece)]
      BY <3>1, <3>3 DEF TypeOK
    <3> QED BY <2>2, <3>4, <3>5, <3>6 DEF TypeOK
  <2>3. CASE hnd' # "piped"
    <3>1. /\ hnd' = "done"
          /\ q' = [q EXCEPT ![x] = Tail(@), ![y] = <<Text("refused")>>]
          /\ end' = [end EXCEPT !["st"] = "closed"]
          /\ UNCHANGED <<buf, copy, ln, conn, shut, has, sent, got>>
      BY <1>8, <2>3 DEF handleConnect
    <3>2. Tail(q[x]) \in Seq(Piece) /\ Len(Tail(q[x])) <= Cap
      BY <1>0, <2>0, TailPiece
    <3> HIDE DEF x, y
    <3>3. q' \in [Stream -> Seq(Piece)] /\ \A z \in Stream : Len(q'[z]) <= Cap
      BY <2>0, <2>1, <3>1, <3>2 DEF TypeOK
    <3> QED BY <3>1, <3>3 DEF TypeOK
  <2> QED BY <2>2, <2>3
<1>9. CASE PeerGone
  <2>1. Closed({"st", "sg"})
    BY <1>9 DEF PeerGone
  <2>2. <<>> \in Seq(Piece)
    OBVIOUS
  <2> QED BY <1>0, <1>9, <2>1, <2>2, ClosedEffect DEF PeerGone, TypeOK
<1>10. ASSUME NEW k \in Copier, CopyReads(k) PROVE TypeOK'
  <2>1. PICK d \in Dir : k = Copy1(d) \/ k = Copy2(d)
    BY Whose
  <2>2. /\ Src(k) \in Stream /\ Known(d) /\ Numbers(d) \subseteq Number /\ Skip(d) \in {0, 1}
        /\ k = Copy2(d) => Skip(d) = 0 /\ Src(k) = MiddleLeg(d)
        /\ k = Copy1(d) => Src(k) = FirstLeg(d)
        /\ k \in {"pDown", "sUp"} <=> k = Copy2(d)
    BY <1>10, <2>1, Legs, Copiers, SkipFacts, NumbersType DEF ChainInv, DirInv, CopyReads
  <2>3. DOMAIN buf = {"pDown", "sUp"}
    BY DEF TypeOK
  <2>4. CASE k \in DOMAIN buf /\ buf[k] # <<>>
    <3>1. /\ has' = [has EXCEPT ![k] = Head(buf[k]).data] /\ buf' = [buf EXCEPT ![k] = Tail(@)]
          /\ copy' = [copy EXCEPT ![k] = "write"]
          /\ UNCHANGED <<ln, conn, hnd, end, shut, sent, got, q>>
      BY <1>10, <2>4 DEF CopyReads
    <3>2. buf[k] \in Seq(Piece) /\ Within(buf[k], 0, Numbers(d))
      BY <2>2, <2>3, <2>4 DEF TypeOK, Known
    <3>3. Head(buf[k]).data \in Number /\ Tail(buf[k]) \in Seq(Piece)
      BY <2>2, <2>4, <3>2, TailPiece, WithinTail
    <3> QED BY <3>1, <3>3 DEF TypeOK
  <2>5. CASE ~(k \in DOMAIN buf /\ buf[k] # <<>>)
    <3>1. /\ has' = [has EXCEPT ![k] = Head(q[Src(k)]).data] /\ q' = [q EXCEPT ![Src(k)] = Tail(@)]
          /\ copy' = [copy EXCEPT ![k] = "write"] /\ q[Src(k)] # <<>>
          /\ UNCHANGED <<ln, conn, hnd, end, shut, sent, got, buf>>
      BY <1>10, <2>5 DEF CopyReads
    <3>2. q[Src(k)] \in Seq(Piece) /\ Within(q[Src(k)], 0, Numbers(d)) /\ Len(q[Src(k)]) <= Cap
      BY <2>1, <2>2 DEF TypeOK, Known
    <3>3. /\ Head(q[Src(k)]).data \in Number /\ Tail(q[Src(k)]) \in Seq(Piece)
          /\ Len(Tail(q[Src(k)])) <= Cap
      BY <1>0, <2>2, <3>1, <3>2, TailPiece, WithinTail
    <3>4. q' \in [Stream -> Seq(Piece)] /\ \A z \in Stream : Len(q'[z]) <= Cap
      BY <2>2, <3>1, <3>3 DEF TypeOK
    <3> QED BY <3>1, <3>3, <3>4 DEF TypeOK
  <2> QED BY <2>4, <2>5
<1>11. ASSUME NEW k \in Copier, CopyWrites(k) PROVE TypeOK'
  <2>1. CASE UNCHANGED q
    BY <1>0, <1>11, <2>1 DEF CopyWrites, TypeOK
  <2>2. CASE Room(Dst(k)) /\ q' = [q EXCEPT ![Dst(k)] = Append(@, Data(has[k]))]
    <3>1. has[k] \in Number /\ Dst(k) \in Stream
      BY DEF TypeOK, Dst, Stream, Copier
    <3>2. q[Dst(k)] \in Seq(Piece) /\ Len(q[Dst(k)]) < Cap
      BY <2>2, <3>1 DEF Room, TypeOK
    <3>3. Append(q[Dst(k)], Data(has[k])) \in Seq(Piece) /\ Len(Append(q[Dst(k)], Data(has[k]))) <= Cap
      BY <1>0, <3>1, <3>2, AppendPiece, DataPiece
    <3>4. q' \in [Stream -> Seq(Piece)] /\ \A z \in Stream : Len(q'[z]) <= Cap
      BY <2>2, <3>1, <3>3 DEF TypeOK
    <3> QED BY <1>0, <1>11, <3>4 DEF CopyWrites, TypeOK
  <2> QED BY <1>11, <2>1, <2>2 DEF CopyWrites
<1>12. ASSUME NEW k \in Copier, CopyEnds(k) PROVE TypeOK'
  <2>1. Closed(Side(k))
    BY <1>12 DEF CopyEnds
  <2> QED BY <1>0, <1>12, <2>1, ClosedEffect DEF CopyEnds, TypeOK
<1>13. CASE UNCHANGED vars
  BY <1>13 DEF vars, TypeOK
<1> QED BY <1>1, <1>2, <1>3, <1>4, <1>5, <1>6, <1>7, <1>8, <1>9, <1>10, <1>11, <1>12, <1>13 DEF Next

----------------------------------------------------------------------------
(* The two sides set up and take down the chain.                           *)

(* Every step keeps the phases.                                            *)
LEMMA PhaseStep ==
  ASSUME TypeOK, TypeOK', Phases, [Next]_vars
  PROVE  Phases'
<1> USE DEF Phases
<1>0. /\ \A e \in {"pc", "pt", "st", "sg", "service"} : e \in End
      /\ \A x \in {<<"c", "up">>, <<"c", "down">>, <<"t", "up">>, <<"t", "down">>, <<"g", "up">>, <<"g", "down">>} :
            x \in Stream
  BY DEF End, Stream
(* Closing the ends E, while the phases stay or come to an end.            *)
<1>1. ASSUME NEW E, Closed(E),
             \A x \in Stream : q[x] = <<>> => q'[x] = <<>>,
             UNCHANGED <<conn, hnd, buf, copy>>,
             conn \in {"backlog", "dial", "answer"} => "pc" \notin E,
             conn = "answer" => "pt" \notin E,
             hnd \in {"none", "request"} => {"pt", "st", "sg", "service"} \cap E = {}
      PROVE  Phases'
  <2>1. /\ \A e \in End : end'[e] = IF e \in E THEN "closed" ELSE end[e]
        /\ \A x \in Stream :
              \/ q'[x] = q[x]
              \/ Reader(x) \in E
              \/ x[1] # "t"
    BY <1>1, ClosedEffect
  <2>2. conn = "answer" => q'[<<"t", "down">>] = q[<<"t", "down">>]
    BY <1>0, <1>1, <2>1, Ends
  <2>3. hnd \in {"none", "request"} => q'[<<"t", "up">>] = q[<<"t", "up">>]
    BY <1>0, <1>1, <2>1, Ends
  <2> QED BY <1>0, <1>1, <2>1, <2>2, <2>3
<1>2. ASSUME NEW E, Closed(E) PROVE \A x \in Stream : q[x] = <<>> => q'[x] = <<>>
  <2> SUFFICES ASSUME NEW x \in Stream, q[x] = <<>> PROVE q'[x] = <<>>
    OBVIOUS
  <2>1. \A m \in Nat : m <= Len(<<>>) => SubSeq(<<>>, 1, m) = <<>>
    OBVIOUS
  <2> QED BY <1>2, <2>1, ClosedEffect
<1>3. ASSUME NEW a \in App, AppSends(a) PROVE Phases'
  <2>1. a = "service" => end["service"] = "open"
    BY <1>3 DEF AppSends
  <2>2. \A x \in Stream : x # Out(a) => q'[x] = q[x]
    BY <1>3 DEF AppSends, TypeOK
  <2> QED BY <1>0, <1>3, <2>1, <2>2 DEF AppSends, Out, App
<1>4. ASSUME NEW a \in App, AppReads(a) PROVE Phases'
  <2>1. a = "service" => end["service"] = "open"
    BY <1>4 DEF AppReads
  <2>2. \A x \in Stream : x # In(a) => q'[x] = q[x]
    BY <1>4 DEF AppReads, TypeOK
  <2> QED BY <1>0, <1>4, <2>1, <2>2 DEF AppReads, In, App
<1>5. ASSUME NEW a \in App, AppShuts(a) PROVE Phases'
  BY <1>5 DEF AppShuts
<1>6. ASSUME NEW a \in App, AppCloses(a) PROVE Phases'
  <2>1. Closed({a}) /\ UNCHANGED <<conn, hnd, buf, copy>> /\ end[a] = "open"
    BY <1>6 DEF AppCloses
  <2> QED BY <1>1, <1>2, <2>1 DEF App
<1>7. ASSUME Closed({"pc"}), conn' = "done", conn \in {"backlog", "dial"}, UNCHANGED <<hnd, buf, copy>>
      PROVE  Phases'
  <2>1. \A x \in Stream : q[x] = <<>> => q'[x] = <<>>
    BY <1>2, <1>7
  <2>2. \A e \in End : e # "pc" => end'[e] = end[e]
    BY <1>7, ClosedEffect
  <2> QED BY <1>0, <1>7, <2>1, <2>2
<1>8. CASE ProxyClose
  <2>1. CASE conn = "backlog"
    BY <1>7, <1>8, <2>1 DEF ProxyClose
  <2>2. CASE conn # "backlog"
    BY <1>8, <2>2 DEF ProxyClose
  <2> QED BY <2>1, <2>2
<1>9. CASE Accept
  <2>1. CASE Closed({"pc"}) /\ conn' = "done"
    BY <1>7, <1>9, <2>1 DEF Accept
  <2>2. CASE ~(Closed({"pc"}) /\ conn' = "done")
    BY <1>9, <2>2 DEF Accept
  <2> QED BY <2>1, <2>2
<1>10. CASE DialTunnel
  <2>1. CASE Closed({"pc"}) /\ conn' = "done" /\ UNCHANGED hnd
    BY <1>7, <1>10, <2>1 DEF DialTunnel
  <2>2. CASE ~(Closed({"pc"}) /\ conn' = "done" /\ UNCHANGED hnd)
    <3>1. /\ conn = "dial" /\ conn' = "answer" /\ hnd' = "request"
          /\ end' = [end EXCEPT !["pt"] = "open", !["st"] = "open"]
          /\ q' = [q EXCEPT ![<<"t", "up">>] = <<Text("request")>>]
          /\ UNCHANGED <<ln, shut, buf, copy, has, sent, got>>
      BY <1>10, <2>2 DEF DialTunnel
    <3>2. /\ q'[<<"t", "up">>] = <<Text("request")>>
          /\ \A x \in Stream : x # <<"t", "up">> => q'[x] = q[x]
      BY <1>0, <3>1 DEF TypeOK
    <3>3. /\ end'["pt"] = "open" /\ end'["st"] = "open"
          /\ \A e \in End : e \notin {"pt", "st"} => end'[e] = end[e]
      BY <1>0, <3>1 DEF TypeOK
    <3> QED BY <1>0, <3>1, <3>2, <3>3
  <2> QED BY <2>1, <2>2
<1>11. CASE ReadAnswer
  <2> DEFINE x == <<"t", "down">>
  <2>0. conn = "answer" /\ hnd # "none" /\ x \in Stream /\ (q[x] # <<>> => hnd # "request")
    BY <1>0, <1>11 DEF ReadAnswer
  <2>1. CASE conn' = "done"
    <3>1. Closed({"pc", "pt"}) /\ UNCHANGED <<hnd, buf, copy>> /\ (Ended(x) \/ q[x] # <<>>)
      BY <1>11, <2>1 DEF ReadAnswer
    <3>2. hnd # "request"
      BY <2>0, <3>1, Ends DEF Ended, App, TypeOK
    <3> QED BY <2>0, <2>1, <3>1, <3>2
  <2>2. CASE conn' # "done"
    <3>1. /\ q[x] # <<>> /\ conn' = "piped"
          /\ copy' = [copy EXCEPT !["pUp"] = "read", !["pDown"] = "read"]
          /\ UNCHANGED <<hnd, end>>
      BY <1>11, <2>2 DEF ReadAnswer
    <3>2. /\ \A y \in Stream : y # x => q'[y] = q[y]
          /\ buf'["sUp"] = buf["sUp"]
      BY <1>11, <2>2 DEF ReadAnswer, TypeOK
    <3>3. copy'["sUp"] = copy["sUp"] /\ copy'["sDown"] = copy["sDown"]
      BY <3>1 DEF TypeOK, Copier
    <3> QED BY <1>0, <2>0, <3>1, <3>2, <3>3
  <2> QED BY <2>1, <2>2
<1>12. CASE handleConnect
  <2>1. hnd = "request" /\ conn = "answer" /\ hnd' \in {"piped", "done"} /\ UNCHANGED conn
    BY <1>12 DEF handleConnect
  <2>2. end'["pc"] = "open" /\ end'["pt"] = "open"
    BY <1>12, <2>1 DEF handleConnect, TypeOK, End
  <2>3. buf'["pDown"] = <<>>
    BY <1>12, <2>1 DEF handleConnect, TypeOK
  <2>4. q'[<<"t", "down">>] # <<>>
    BY <1>0, <1>12 DEF handleConnect, TypeOK
  <2>5. /\ copy'["pUp"] = "off" /\ copy'["pDown"] = "off"
        /\ hnd' = "done" => copy'["sUp"] = "off" /\ copy'["sDown"] = "off"
    BY <1>12, <2>1 DEF handleConnect, TypeOK, Copier
  <2> QED BY <2>1, <2>2, <2>3, <2>4, <2>5
<1>13. CASE PeerGone
  <2>1. hnd' = "done" /\ Closed({"st", "sg"}) /\ UNCHANGED conn /\ hnd # "none"
    BY <1>13 DEF PeerGone
  <2>2. end'["pc"] = end["pc"] /\ end'["pt"] = end["pt"]
    <3>1. \A e \in End : end'[e] = IF e \in {"st", "sg"} THEN "closed" ELSE end[e]
      BY <2>1, ClosedEffect
    <3> QED BY <3>1 DEF End
  <2>3. copy'["pUp"] = copy["pUp"] /\ copy'["pDown"] = copy["pDown"] /\ buf'["pDown"] = buf["pDown"]
    BY <1>13 DEF PeerGone, TypeOK, Copier
  <2>4. copy'["sUp"] = "done" /\ copy'["sDown"] = "done"
    BY <1>13 DEF PeerGone, TypeOK, Copier
  <2> QED BY <2>1, <2>2, <2>3, <2>4
<1>14. ASSUME NEW k \in Copier, CopyReads(k) PROVE Phases'
  <2>1. /\ copy[k] = "read" /\ copy'[k] = "write" /\ \A j \in Copier : j # k => copy'[j] = copy[j]
        /\ UNCHANGED <<conn, hnd, end>>
    BY <1>14 DEF CopyReads, TypeOK
  <2>2. \A x \in Stream : x # Src(k) => q'[x] = q[x]
    BY <1>14 DEF CopyReads, TypeOK
  <2>3. \A j \in {"pDown", "sUp"} : j # k => buf'[j] = buf[j]
    BY <1>14 DEF CopyReads, TypeOK
  <2>4. CASE k \in {"pUp", "pDown"}
    <3>1. conn = "piped" /\ hnd \notin {"none", "request"}
      BY <2>1, <2>4
    <3> QED BY <2>1, <2>4, <3>1 DEF Copier
  <2>5. CASE k \in {"sUp", "sDown"}
    <3>1. hnd = "piped" /\ Src(k) # <<"t", "down">>
      BY <2>1, <2>5 DEF Src
    <3> QED BY <1>0, <2>1, <2>2, <2>3, <2>5, <3>1 DEF Copier
  <2> QED BY <2>4, <2>5 DEF Copier
<1>15. ASSUME NEW k \in Copier, CopyWrites(k) PROVE Phases'
  <2>1. /\ copy[k] = "write" /\ copy'[k] = "read" /\ \A j \in Copier : j # k => copy'[j] = copy[j]
        /\ UNCHANGED <<conn, hnd, end, buf>>
    BY <1>15 DEF CopyWrites, TypeOK
  <2>2. \A x \in Stream : x # Dst(k) => q'[x] = q[x]
    BY <1>15 DEF CopyWrites, TypeOK
  <2>3. CASE k \in {"pUp", "pDown"}
    <3>1. conn = "piped" /\ hnd \notin {"none", "request"}
      BY <2>1, <2>3
    <3> QED BY <2>1, <2>3, <3>1 DEF Copier
  <2>4. CASE k \in {"sUp", "sDown"}
    <3>1. hnd = "piped"
      BY <2>1, <2>4
    <3>2. q[<<"t", "down">>] # <<>> => q'[<<"t", "down">>] # <<>>
      <4>1. CASE UNCHANGED q
        BY <4>1
      <4>2. CASE q' = [q EXCEPT ![Dst(k)] = Append(@, Data(has[k]))]
        <5>1. Dst(k) \in Stream /\ q[Dst(k)] \in Seq(Piece) /\ has[k] \in Number
          BY DEF Dst, Copier, Stream, TypeOK
        <5>2. q'[Dst(k)] # <<>>
          <6>1. q'[Dst(k)] = Append(q[Dst(k)], Data(has[k]))
            BY <4>2, <5>1 DEF TypeOK
          <6>2. Data(has[k]) \in Piece
            BY <5>1, DataPiece
          <6>3. Append(q[Dst(k)], Data(has[k])) # <<>>
            BY <5>1, <6>2, AppendPiece
          <6> QED BY <6>1, <6>3
        <5> QED BY <1>0, <2>2, <5>2
      <4> QED BY <1>15, <4>1, <4>2 DEF CopyWrites
    <3> QED BY <1>0, <2>1, <2>4, <3>1, <3>2 DEF Copier
  <2> QED BY <2>3, <2>4 DEF Copier
<1>16. ASSUME NEW k \in Copier, CopyEnds(k) PROVE Phases'
  <2>1. /\ copy[k] \in {"read", "write"} /\ copy'[k] = "done"
        /\ \A j \in Copier : j # k => copy'[j] = copy[j]
        /\ UNCHANGED <<conn, hnd, buf>> /\ Closed(Side(k))
    BY <1>16 DEF CopyEnds, TypeOK
  <2>2. CASE k \in {"pUp", "pDown"}
    <3>1. conn = "piped" /\ hnd \notin {"none", "request"}
      BY <2>1, <2>2
    <3> QED BY <2>1, <2>2, <3>1 DEF Copier
  <2>3. CASE k \in {"sUp", "sDown"}
    <3>1. hnd = "piped" /\ Side(k) = {"st", "sg"}
      BY <2>1, <2>3 DEF Side
    <3>2. end'["pc"] = end["pc"] /\ end'["pt"] = end["pt"]
      <4>1. \A e \in End : end'[e] = IF e \in {"st", "sg"} THEN "closed" ELSE end[e]
        BY <2>1, <3>1, ClosedEffect
      <4> QED BY <4>1 DEF End
    <3>3. q'[<<"t", "down">>] = q[<<"t", "down">>]
      BY <1>0, <2>1, <3>1, ClosedEffect, Ends
    <3> QED BY <2>1, <2>3, <3>1, <3>2, <3>3 DEF Copier
  <2> QED BY <2>2, <2>3 DEF Copier
<1>17. CASE UNCHANGED vars
  BY <1>17 DEF vars
<1> QED BY <1>3, <1>4, <1>5, <1>6, <1>8, <1>9, <1>10, <1>11, <1>12, <1>13, <1>14, <1>15, <1>16, <1>17
        DEF Next

----------------------------------------------------------------------------
(* One direction.                                                          *)

(* The types of what is in it.                                             *)
LEMMA DirTypes ==
  ASSUME NEW d \in Dir, TypeOK
  PROVE  /\ q[FirstLeg(d)] \in Seq(Piece) /\ q[MiddleLeg(d)] \in Seq(Piece) /\ q[LastLeg(d)] \in Seq(Piece)
         /\ Len(q[FirstLeg(d)]) \in Nat /\ Len(q[MiddleLeg(d)]) \in Nat /\ Len(q[LastLeg(d)]) \in Nat
         /\ buf[Copy2(d)] \in Seq(Piece) /\ Len(buf[Copy2(d)]) \in Nat
         /\ sent[Source(d)] \in Seq(Number) /\ got[Sink(d)] \in Seq(Number)
         /\ Sent(d) \in Nat /\ Got(d) \in Nat /\ Base(d) \in Nat
         /\ has[Copy1(d)] \in Number /\ has[Copy2(d)] \in Number
         /\ Skip(d) \in {0, 1} /\ Holds(Copy1(d)) \in {0, 1} /\ Holds(Copy2(d)) \in {0, 1}
<1>1. /\ q[FirstLeg(d)] \in Seq(Piece) /\ q[MiddleLeg(d)] \in Seq(Piece) /\ q[LastLeg(d)] \in Seq(Piece)
  BY Legs DEF TypeOK
<1>2. /\ buf[Copy2(d)] \in Seq(Piece) /\ has[Copy1(d)] \in Number /\ has[Copy2(d)] \in Number
  BY Copiers DEF TypeOK
<1>3. sent[Source(d)] \in Seq(Number) /\ got[Sink(d)] \in Seq(Number)
  BY Legs DEF TypeOK
<1>4. Base(d) \in Nat
  BY BoundsAssumption DEF Base
<1>5. Skip(d) \in {0, 1}
  BY DEF Skip
<1>6. Holds(Copy1(d)) \in {0, 1} /\ Holds(Copy2(d)) \in {0, 1}
  BY DEF Holds
<1>7. Len(q[FirstLeg(d)]) \in Nat /\ Len(q[MiddleLeg(d)]) \in Nat /\ Len(q[LastLeg(d)]) \in Nat
  BY <1>1
<1>8. Len(buf[Copy2(d)]) \in Nat /\ Sent(d) \in Nat /\ Got(d) \in Nat
  BY <1>2, <1>3 DEF Sent, Got
<1> QED BY <1>1, <1>2, <1>3, <1>4, <1>5, <1>6, <1>7, <1>8

(* The places of the chain are numbers.                                    *)
LEMMA Positions ==
  ASSUME NEW d \in Dir, TypeOK, Phases
  PROVE  /\ AtLast(d) \in Nat /\ AtCopy2(d) \in Nat /\ AtBuf(d) \in Nat
         /\ AtMiddle(d) \in Nat /\ AtCopy1(d) \in Nat /\ AtFirst(d) \in Nat
<1>1. AtLast(d) \in Nat
  BY DirTypes DEF AtLast
<1>2. AtCopy2(d) \in Nat
  BY <1>1, DirTypes DEF AtCopy2
<1>3. AtBuf(d) \in Nat
  BY <1>2, DirTypes DEF AtBuf
<1>4. AtMiddle(d) \in Nat
  <2>1. Len(q[MiddleLeg(d)]) - Skip(d) \in Nat
    BY SkipFacts
  <2> QED BY <1>3, <2>1 DEF AtMiddle
<1>5. AtCopy1(d) \in Nat
  BY <1>4, DirTypes DEF AtCopy1
<1>6. AtFirst(d) \in Nat
  BY <1>5, DirTypes DEF AtFirst
<1> QED BY <1>1, <1>2, <1>3, <1>4, <1>5, <1>6

(* The ends stay closed once they are.                                     *)
LEMMA StayClosed ==
  ASSUME TypeOK, Phases, [Next]_vars
  PROVE  \A e \in End : ~Alive(e) => ~Alive(e)'
<1> USE DEF Alive
<1>1. ASSUME NEW E, Closed(E) PROVE \A e \in End : ~Alive(e) => ~Alive(e)'
  BY <1>1, ClosedEffect
<1>2. CASE UNCHANGED end
  BY <1>2
<1>3. CASE DialTunnel
  <2>1. CASE Closed({"pc"})
    BY <1>1, <2>1
  <2>2. CASE end' = [end EXCEPT !["pt"] = "open", !["st"] = "open"] /\ conn = "dial"
    <3>1. end["pt"] = "none" /\ end["st"] = "none"
      BY <2>2 DEF Phases
    <3> QED BY <2>2, <3>1 DEF TypeOK
  <2> QED BY <1>3, <2>1, <2>2 DEF DialTunnel
<1>4. CASE handleConnect
  <2>1. end["sg"] = "none" /\ end["service"] = "none"
    BY <1>4 DEF Phases, handleConnect
  <2> QED BY <1>4, <2>1 DEF TypeOK, handleConnect
<1>5. CASE ~handleConnect /\ ~DialTunnel
  <2>1. UNCHANGED end \/ \E E \in SUBSET End : Closed(E)
    <3>1. /\ \A k \in Copier : Side(k) \in SUBSET End
          /\ \A a \in App : {a} \in SUBSET End
          /\ {"pc"} \in SUBSET End /\ {"pc", "pt"} \in SUBSET End /\ {"st", "sg"} \in SUBSET End
      BY DEF Copier, Side, End, App
    <3> QED BY <1>5, <3>1 DEF Next, AppSends, AppReads, AppShuts, AppCloses, ProxyClose, Accept, ReadAnswer,
               PeerGone, CopyReads, CopyWrites, CopyEnds, vars
  <2> QED BY <1>1, <1>2, <2>1
<1> QED BY <1>3, <1>4, <1>5

(* Steps that move nothing in this direction, and may lose what cannot get *)
(* to the sink any more.                                                   *)
LEMMA Loses ==
  ASSUME NEW d \in Dir, TypeOK, TypeOK', Phases, DirInv(d),
         sent'[Source(d)] = sent[Source(d)], got'[Sink(d)] = got[Sink(d)],
         \A e \in End : ~Alive(e) => ~Alive(e)',
         \/ q'[FirstLeg(d)] = q[FirstLeg(d)]
         \/ q'[FirstLeg(d)] = <<>> /\ ~Alive(Reader(FirstLeg(d)))'
         \/ /\ ~Alive(Source(d))'
            /\ \E m \in Nat : m <= Len(q[FirstLeg(d)]) /\ q'[FirstLeg(d)] = SubSeq(q[FirstLeg(d)], 1, m),
         \/ q'[MiddleLeg(d)] = q[MiddleLeg(d)] /\ Skip(d)' = Skip(d)
         \/ q'[MiddleLeg(d)] = <<>> /\ Skip(d)' = 0 /\ ~Alive(Reader(MiddleLeg(d)))',
         \/ q'[LastLeg(d)] = q[LastLeg(d)]
         \/ q'[LastLeg(d)] = <<>> /\ ~Alive(Sink(d))'
         \/ /\ ~Alive(Writer(LastLeg(d)))'
            /\ \E m \in Nat : m <= Len(q[LastLeg(d)]) /\ q'[LastLeg(d)] = SubSeq(q[LastLeg(d)], 1, m),
         \/ copy'[Copy1(d)] = copy[Copy1(d)] /\ has'[Copy1(d)] = has[Copy1(d)]
         \/ copy'[Copy1(d)] # "write" /\ (copy[Copy1(d)] # "write" \/ ~Alive(Writer(MiddleLeg(d)))'),
         \/ copy'[Copy2(d)] = copy[Copy2(d)] /\ has'[Copy2(d)] = has[Copy2(d)]
         \/ copy'[Copy2(d)] # "write" /\ (copy[Copy2(d)] # "write" \/ ~Alive(Writer(LastLeg(d)))'),
         \/ buf'[Copy2(d)] = buf[Copy2(d)]
         \/ buf'[Copy2(d)] = <<>> /\ ~Alive(Writer(LastLeg(d)))'
  PROVE  DirInv(d)'
<1> USE DEF DirInv
<1>1. Sent(d)' = Sent(d) /\ Got(d)' = Got(d) /\ Base(d)' = Base(d) /\ Numbers(d)' = Numbers(d)
  BY DEF Sent, Got, Base, Numbers
<1>2. Counted(d)'
  BY <1>1 DEF Counted
<1>3. /\ Within(q'[FirstLeg(d)], 0, Numbers(d))
      /\ \A n \in Nat : Run(q[FirstLeg(d)], 0, n) /\ Alive(Reader(FirstLeg(d)))' => Run(q'[FirstLeg(d)], 0, n)
  <2>1. q[FirstLeg(d)] \in Seq(Piece) /\ Within(q[FirstLeg(d)], 0, Numbers(d))
    BY DirTypes DEF Known
  <2> QED BY <2>1, RunEmpty, RunShorter
<1>4. Within(q'[MiddleLeg(d)], Skip(d)', Numbers(d))
  BY RunEmpty DEF Known
<1>5. /\ Within(q'[LastLeg(d)], 0, Numbers(d))
      /\ \A n \in Nat : Run(q[LastLeg(d)], 0, n) /\ Alive(Sink(d))' => Run(q'[LastLeg(d)], 0, n)
  <2>1. q[LastLeg(d)] \in Seq(Piece) /\ Within(q[LastLeg(d)], 0, Numbers(d))
    BY DirTypes DEF Known
  <2> QED BY <2>1, RunEmpty, RunShorter
<1>6. Within(buf'[Copy2(d)], 0, Numbers(d))
  BY RunEmpty DEF Known
<1>7. Known(d)'
  BY <1>1, <1>3, <1>4, <1>5, <1>6 DEF Known
<1>8. /\ Alive(Reader(FirstLeg(d)))' => Alive(Reader(FirstLeg(d)))
      /\ Alive(Writer(MiddleLeg(d)))' => Alive(Writer(MiddleLeg(d)))
      /\ Alive(Reader(MiddleLeg(d)))' => Alive(Reader(MiddleLeg(d)))
      /\ Alive(Writer(LastLeg(d)))' => Alive(Writer(LastLeg(d)))
      /\ Alive(Source(d))' => Alive(Source(d))
      /\ Alive(Sink(d))' => Alive(Sink(d))
  BY LegEnds
<1>9. /\ Base(d) + Got(d) \in Nat /\ Base(d) + AtCopy1(d) \in Nat
  BY DirTypes, Positions, SMTT(30)
<1>10. Alive(Sink(d))' /\ Alive(Writer(LastLeg(d)))' =>
         /\ AtLast(d)' = AtLast(d) /\ AtCopy2(d)' = AtCopy2(d) /\ AtBuf(d)' = AtBuf(d)
         /\ buf'[Copy2(d)] = buf[Copy2(d)]
         /\ copy'[Copy2(d)] = "write" => copy[Copy2(d)] = "write" /\ has'[Copy2(d)] = has[Copy2(d)]
  <2> SUFFICES ASSUME Alive(Sink(d))', Alive(Writer(LastLeg(d)))'
               PROVE  /\ AtLast(d)' = AtLast(d) /\ AtCopy2(d)' = AtCopy2(d) /\ AtBuf(d)' = AtBuf(d)
                      /\ buf'[Copy2(d)] = buf[Copy2(d)]
                      /\ copy'[Copy2(d)] = "write" => copy[Copy2(d)] = "write" /\ has'[Copy2(d)] = has[Copy2(d)]
    OBVIOUS
  <2>1. q'[LastLeg(d)] = q[LastLeg(d)] /\ buf'[Copy2(d)] = buf[Copy2(d)] /\ Holds(Copy2(d))' = Holds(Copy2(d))
    BY DEF Holds
  <2>2. AtLast(d)' = AtLast(d)
    BY <1>1, <2>1 DEF AtLast
  <2>3. AtCopy2(d)' = AtCopy2(d)
    BY <2>1, <2>2 DEF AtCopy2
  <2> QED BY <2>1, <2>2, <2>3 DEF AtBuf
<1>11. Alive(Reader(MiddleLeg(d)))' /\ AtBuf(d)' = AtBuf(d) =>
         /\ q'[MiddleLeg(d)] = q[MiddleLeg(d)] /\ Skip(d)' = Skip(d) /\ AtMiddle(d)' = AtMiddle(d)
  BY DEF AtMiddle
<1>12. Alive(Writer(MiddleLeg(d)))' /\ AtMiddle(d)' = AtMiddle(d) =>
         /\ AtCopy1(d)' = AtCopy1(d)
         /\ copy'[Copy1(d)] = "write" => copy[Copy1(d)] = "write" /\ has'[Copy1(d)] = has[Copy1(d)]
  <2>1. Alive(Writer(MiddleLeg(d)))' => Holds(Copy1(d))' = Holds(Copy1(d))
    BY DEF Holds
  <2> QED BY <2>1 DEF AtCopy1
<1>13. Alive(Source(d))' /\ Alive(Reader(FirstLeg(d)))' /\ AtCopy1(d)' = AtCopy1(d) => AtFirst(d)' = AtFirst(d)
  BY DEF AtFirst
<1>14. Aligned(d)'
  <2>1. SUFFICES ASSUME Alive(Sink(d))'
                 PROVE  Aligned(d)'
    BY DEF Aligned
  <2>2. Alive(Sink(d)) /\ Run(q'[LastLeg(d)], 0, Base(d) + Got(d))
    BY <1>5, <1>8, <1>9, <2>1 DEF Aligned
  <2>3. SUFFICES ASSUME Alive(Writer(LastLeg(d)))'
                 PROVE  Aligned(d)'
    BY <1>1, <2>2 DEF Aligned
  <2>4. /\ Alive(Writer(LastLeg(d)))
        /\ copy'[Copy2(d)] = "write" => has'[Copy2(d)] = Base(d) + AtLast(d) + 1
        /\ Run(buf'[Copy2(d)], 0, Base(d) + AtCopy2(d))
    BY <1>8, <1>10, <2>1, <2>2, <2>3 DEF Aligned
  <2>5. SUFFICES ASSUME Alive(Reader(MiddleLeg(d)))'
                 PROVE  Aligned(d)'
    BY <1>1, <1>10, <2>1, <2>2, <2>3, <2>4 DEF Aligned
  <2>6. Alive(Reader(MiddleLeg(d))) /\ Run(q'[MiddleLeg(d)], Skip(d)', Base(d) + AtBuf(d))
    BY <1>8, <1>10, <1>11, <2>1, <2>2, <2>3, <2>4, <2>5 DEF Aligned
  <2>7. SUFFICES ASSUME Alive(Writer(MiddleLeg(d)))'
                 PROVE  Aligned(d)'
    BY <1>1, <1>10, <2>1, <2>2, <2>3, <2>4, <2>6 DEF Aligned
  <2>8. /\ Alive(Writer(MiddleLeg(d))) /\ AtMiddle(d)' = AtMiddle(d) /\ AtCopy1(d)' = AtCopy1(d)
        /\ copy'[Copy1(d)] = "write" => has'[Copy1(d)] = Base(d) + AtMiddle(d) + 1
    BY <1>8, <1>10, <1>11, <1>12, <2>1, <2>2, <2>3, <2>4, <2>5, <2>6, <2>7 DEF Aligned
  <2>9. SUFFICES ASSUME Alive(Reader(FirstLeg(d)))'
                 PROVE  Aligned(d)'
    BY <1>1, <1>10, <2>1, <2>2, <2>3, <2>4, <2>6, <2>8 DEF Aligned
  <2>10. /\ Run(q'[FirstLeg(d)], 0, Base(d) + AtCopy1(d))
         /\ Alive(Source(d))' => Sent(d) = AtFirst(d) /\ AtFirst(d)' = AtFirst(d)
    BY <1>3, <1>8, <1>9, <1>13, <2>2, <2>4, <2>6, <2>8, <2>9 DEF Aligned
  <2> QED BY <1>1, <1>10, <2>1, <2>2, <2>3, <2>4, <2>6, <2>8, <2>10 DEF Aligned
<1> QED BY <1>2, <1>7, <1>14

(* Closing ends, with what the copiers that stop had read.                 *)
LEMMA Closes ==
  ASSUME NEW d \in Dir, TypeOK, TypeOK', Phases, Phases', DirInv(d), NEW E, Closed(E),
         sent'[Source(d)] = sent[Source(d)], got'[Sink(d)] = got[Sink(d)],
         q'[MiddleLeg(d)] = q[MiddleLeg(d)] => Skip(d)' = Skip(d),
         \/ copy'[Copy1(d)] = copy[Copy1(d)] /\ has'[Copy1(d)] = has[Copy1(d)]
         \/ copy'[Copy1(d)] # "write" /\ (copy[Copy1(d)] # "write" \/ Writer(MiddleLeg(d)) \in E),
         \/ copy'[Copy2(d)] = copy[Copy2(d)] /\ has'[Copy2(d)] = has[Copy2(d)]
         \/ copy'[Copy2(d)] # "write" /\ (copy[Copy2(d)] # "write" \/ Writer(LastLeg(d)) \in E),
         \/ buf'[Copy2(d)] = buf[Copy2(d)]
         \/ buf'[Copy2(d)] = <<>> /\ Writer(LastLeg(d)) \in E
  PROVE  DirInv(d)'
<1>1. /\ \A e \in End : end'[e] = IF e \in E THEN "closed" ELSE end[e]
      /\ \A x \in Stream :
              \/ q'[x] = q[x]
              \/ Reader(x) \in E /\ q'[x] = <<>>
              \/ /\ x[1] # "t" /\ Writer(x) \in E
                 /\ \E kept \in Nat : kept <= Len(q[x]) /\ q'[x] = SubSeq(q[x], 1, kept)
  BY ClosedEffect
<1>2. \A e \in End : (e \in E => ~Alive(e)') /\ (~Alive(e) => ~Alive(e)')
  BY <1>1 DEF Alive
<1>3. \/ q'[FirstLeg(d)] = q[FirstLeg(d)]
      \/ q'[FirstLeg(d)] = <<>> /\ ~Alive(Reader(FirstLeg(d)))'
      \/ /\ ~Alive(Source(d))'
         /\ \E m \in Nat : m <= Len(q[FirstLeg(d)]) /\ q'[FirstLeg(d)] = SubSeq(q[FirstLeg(d)], 1, m)
  <2>1. FirstLeg(d) \in Stream /\ Writer(FirstLeg(d)) = Source(d) /\ Reader(FirstLeg(d)) \in End /\ Source(d) \in End
    BY Legs, LegEnds
  <2> QED BY <1>1, <1>2, <2>1
<1>4. \/ q'[MiddleLeg(d)] = q[MiddleLeg(d)] /\ Skip(d)' = Skip(d)
      \/ q'[MiddleLeg(d)] = <<>> /\ Skip(d)' = 0 /\ ~Alive(Reader(MiddleLeg(d)))'
  <2>1. MiddleLeg(d) \in Stream /\ MiddleLeg(d)[1] = "t" /\ Reader(MiddleLeg(d)) \in End
    BY Legs, LegEnds
  <2>3. q'[MiddleLeg(d)] = <<>> => Skip(d)' = 0
    <3>1. CASE d = "up"
      <4>1. hnd' = "request" => q'[<<"t", "up">>] = <<Text("request")>>
        BY DEF Phases
      <4>2. <<Text("request")>> # <<>>
        OBVIOUS
      <4>3. MiddleLeg(d) = <<"t", "up">> /\ (hnd' # "request" => Skip(d)' = 0)
        BY <3>1 DEF Skip, MiddleLeg
      <4> QED BY <4>1, <4>2, <4>3
    <3>2. CASE d = "down"
      BY <3>2 DEF Skip, MiddleLeg
    <3> QED BY <3>1, <3>2 DEF Dir
  <2> QED BY <1>1, <1>2, <2>1, <2>3
<1>5. \/ q'[LastLeg(d)] = q[LastLeg(d)]
      \/ q'[LastLeg(d)] = <<>> /\ ~Alive(Sink(d))'
      \/ /\ ~Alive(Writer(LastLeg(d)))'
         /\ \E m \in Nat : m <= Len(q[LastLeg(d)]) /\ q'[LastLeg(d)] = SubSeq(q[LastLeg(d)], 1, m)
  <2>1. LastLeg(d) \in Stream /\ Reader(LastLeg(d)) = Sink(d) /\ Writer(LastLeg(d)) \in End /\ Sink(d) \in End
    BY Legs, LegEnds
  <2> QED BY <1>1, <1>2, <2>1
<1>6. Writer(MiddleLeg(d)) \in End /\ Writer(LastLeg(d)) \in End
  BY LegEnds
<1> QED BY <1>2, <1>3, <1>4, <1>5, <1>6, Loses

(* What belongs to a set belongs to a larger one.                          *)
LEMMA WithinMore ==
  ASSUME NEW p \in Seq(Piece), NEW skip \in {0, 1}, NEW S, NEW T, S \subseteq T, Within(p, skip, S)
  PROVE  Within(p, skip, T)
BY DEF Within

(* The source sends a piece.                                               *)
LEMMA Sends ==
  ASSUME NEW d \in Dir, TypeOK, TypeOK', Phases, DirInv(d), NEW n \in Number,
         n = Sent(d) + Base(d) + 1, Sent(d) < Bound(d),
         sent'[Source(d)] = Append(sent[Source(d)], n), got'[Sink(d)] = got[Sink(d)],
         \A e \in End : Alive(e)' <=> Alive(e),
         end[Reader(FirstLeg(d))] = "open", end[Source(d)] = "open",
         q'[FirstLeg(d)] = Append(q[FirstLeg(d)], Data(n)),
         q'[MiddleLeg(d)] = q[MiddleLeg(d)], q'[LastLeg(d)] = q[LastLeg(d)], Skip(d)' = Skip(d),
         UNCHANGED <<copy, has, buf>>
  PROVE  DirInv(d)'
<1> USE DEF DirInv
<1>0. /\ q[FirstLeg(d)] \in Seq(Piece) /\ q[MiddleLeg(d)] \in Seq(Piece) /\ q[LastLeg(d)] \in Seq(Piece)
      /\ Len(q[FirstLeg(d)]) \in Nat /\ buf[Copy2(d)] \in Seq(Piece) /\ Skip(d) \in {0, 1}
      /\ sent[Source(d)] \in Seq(Number) /\ Sent(d) \in Nat /\ Got(d) \in Nat /\ Base(d) \in Nat
  BY DirTypes
<1>1. Base(d)' = Base(d) /\ Bound(d)' = Bound(d) /\ Got(d)' = Got(d)
  BY DEF Base, Bound, Got
<1>2. Sent(d)' = Sent(d) + 1
  BY <1>0 DEF Sent
<1>3. Numbers(d) \subseteq Numbers(d)' /\ n \in Numbers(d)'
  <2>1. Numbers(d)' = Base(d) + 1 .. Base(d) + (Sent(d) + 1)
    BY <1>1, <1>2 DEF Numbers
  <2>2. Numbers(d) = Base(d) + 1 .. Base(d) + Sent(d)
    BY DEF Numbers
  <2>3. \A b, k \in Nat : /\ b + 1 .. b + k \subseteq b + 1 .. b + (k + 1)
                          /\ k + b + 1 \in b + 1 .. b + (k + 1)
    OBVIOUS
  <2> QED BY <1>0, <2>1, <2>2, <2>3
<1>4. Counted(d)'
  <2>1. \A i \in 1..Sent(d) + 1 : sent'[Source(d)][i] = Base(d) + i
    <3>1. /\ sent'[Source(d)][Sent(d) + 1] = n
          /\ \A i \in 1..Sent(d) : sent'[Source(d)][i] = sent[Source(d)][i]
      BY <1>0 DEF Sent
    <3>2. \A i \in 1..Sent(d) : sent[Source(d)][i] = Base(d) + i
      BY DEF Counted
    <3>3. n = Base(d) + (Sent(d) + 1) /\ \A i \in 1..Sent(d) + 1 : i = Sent(d) + 1 \/ i \in 1..Sent(d)
      BY <1>0, SMTT(30)
    <3> QED BY <3>1, <3>2, <3>3
  <2>2. Bound(d) \in Nat
    BY BoundsAssumption DEF Bound
  <2>3. Sent(d) + 1 <= Bound(d) /\ Got(d) <= Sent(d) + 1
    BY <1>0, <2>2 DEF Counted
  <2>4. \A i \in 1..Got(d) : got'[Sink(d)][i] = Base(d) + i
    BY DEF Counted
  <2> QED BY <1>1, <1>2, <2>1, <2>3, <2>4 DEF Counted
<1>5. Known(d)'
  <2>1. Within(q'[FirstLeg(d)], 0, Numbers(d)')
    <3>1. Within(q[FirstLeg(d)], 0, Numbers(d)')
      BY <1>0, <1>3, WithinMore DEF Known
    <3> QED BY <1>0, <1>3, <3>1, WithinAppend
  <2>2. Within(q'[MiddleLeg(d)], Skip(d)', Numbers(d)') /\ Within(q'[LastLeg(d)], 0, Numbers(d)')
    BY <1>0, <1>3, WithinMore DEF Known
  <2>3. Within(buf'[Copy2(d)], 0, Numbers(d)')
    BY <1>0, <1>3, WithinMore DEF Known
  <2> QED BY <1>3, <2>1, <2>2, <2>3 DEF Known
<1>6. /\ AtLast(d)' = AtLast(d) /\ AtCopy2(d)' = AtCopy2(d) /\ AtBuf(d)' = AtBuf(d)
      /\ AtMiddle(d)' = AtMiddle(d) /\ AtCopy1(d)' = AtCopy1(d)
  BY <1>1 DEF AtLast, AtCopy2, AtBuf, AtMiddle, AtCopy1, Holds
<1>7. AtFirst(d)' = AtFirst(d) + 1 /\ AtFirst(d) = AtCopy1(d) + Len(q[FirstLeg(d)]) /\ AtCopy1(d) \in Nat
  <2>1. Len(q'[FirstLeg(d)]) = Len(q[FirstLeg(d)]) + 1
    BY <1>0, AppendPiece, DataPiece
  <2>2. AtCopy1(d) \in Nat
    BY Positions
  <2> QED BY <1>0, <1>6, <2>1, <2>2 DEF AtFirst
<1>8. /\ \A e \in {Reader(FirstLeg(d)), Writer(MiddleLeg(d)), Reader(MiddleLeg(d)), Writer(LastLeg(d)),
                    Source(d), Sink(d)} : Alive(e)' <=> Alive(e)
      /\ Alive(Reader(FirstLeg(d))) /\ Alive(Source(d))
  BY LegEnds DEF Alive
<1>9. Sent(d) = AtFirst(d) /\ Run(q[FirstLeg(d)], 0, Base(d) + AtCopy1(d))
        => Sent(d)' = AtFirst(d)' /\ Run(q'[FirstLeg(d)], 0, Base(d) + AtCopy1(d))
  <2> SUFFICES ASSUME Sent(d) = AtFirst(d), Run(q[FirstLeg(d)], 0, Base(d) + AtCopy1(d))
               PROVE  Run(q'[FirstLeg(d)], 0, Base(d) + AtCopy1(d))
    BY <1>2, <1>7
  <2>1. n = Base(d) + AtCopy1(d) + (Len(q[FirstLeg(d)]) - 0) + 1 /\ Base(d) + AtCopy1(d) \in Nat
    <3>1. Sent(d) = AtCopy1(d) + Len(q[FirstLeg(d)])
      BY <1>7
    <3>2. \A a, b, k \in Nat : (a + k) + b + 1 = b + a + (k - 0) + 1 /\ b + a \in Nat
      OBVIOUS
    <3>3. n = (AtCopy1(d) + Len(q[FirstLeg(d)])) + Base(d) + 1
      BY <3>1
    <3>4. AtCopy1(d) \in Nat /\ Base(d) \in Nat /\ Len(q[FirstLeg(d)]) \in Nat
      BY <1>0, <1>7
    <3> QED BY <3>2, <3>3, <3>4
  <2>2. 0 <= Len(q[FirstLeg(d)])
    BY <1>0
  <2> QED BY <1>0, <2>1, <2>2, RunAppend
<1>10. Aligned(d)'
  BY <1>1, <1>6, <1>8, <1>9 DEF Aligned
<1> QED BY <1>4, <1>5, <1>10

(* The sink reads a piece.                                                 *)
LEMMA Receives ==
  ASSUME NEW d \in Dir, TypeOK, TypeOK', Phases, DirInv(d), q[LastLeg(d)] # <<>>,
         got'[Sink(d)] = Append(got[Sink(d)], Head(q[LastLeg(d)]).data), sent'[Source(d)] = sent[Source(d)],
         \A e \in End : Alive(e)' <=> Alive(e), end[Sink(d)] = "open",
         q'[LastLeg(d)] = Tail(q[LastLeg(d)]),
         q'[MiddleLeg(d)] = q[MiddleLeg(d)], q'[FirstLeg(d)] = q[FirstLeg(d)], Skip(d)' = Skip(d),
         UNCHANGED <<copy, has, buf>>
  PROVE  DirInv(d)'
<1> USE DEF DirInv
<1> DEFINE n == Head(q[LastLeg(d)]).data
<1>0. /\ q[LastLeg(d)] \in Seq(Piece) /\ Len(q[LastLeg(d)]) \in Nat
      /\ got[Sink(d)] \in Seq(Number) /\ Sent(d) \in Nat /\ Got(d) \in Nat /\ Base(d) \in Nat
  BY DirTypes
<1>1. Base(d)' = Base(d) /\ Bound(d)' = Bound(d) /\ Sent(d)' = Sent(d) /\ Numbers(d)' = Numbers(d)
  BY DEF Base, Bound, Sent, Numbers
<1>2. Alive(Sink(d)) /\ Run(q[LastLeg(d)], 0, Base(d) + Got(d))
  BY DEF Alive, Aligned
<1>3. n = Base(d) + Got(d) + 1 /\ Run(q'[LastLeg(d)], 0, Base(d) + Got(d) + 1)
  <2> DEFINE p == q[LastLeg(d)]
             m == Base(d) + Got(d)
  <2>1. p \in Seq(Piece) /\ p # <<>> /\ m \in Nat /\ Run(p, 0, m)
    BY <1>0, <1>2
  <2>2. q'[LastLeg(d)] = Tail(p) /\ n = Head(p).data
    OBVIOUS
  <2> HIDE DEF p, m, n
  <2>3. Head(p).data = m + 1 /\ Run(Tail(p), 0, m + 1)
    BY <2>1, RunTail
  <2> QED BY <2>2, <2>3 DEF m
<1>4. n \in Numbers(d) /\ Within(q'[LastLeg(d)], 0, Numbers(d))
  BY <1>0, WithinTail DEF Known
<1>5. n \in Number
  BY <1>4, NumbersType
<1> HIDE DEF n
<1>6. Got(d)' = Got(d) + 1 /\ got'[Sink(d)] = Append(got[Sink(d)], n)
  BY <1>0, <1>5 DEF Got, n
<1>7. Counted(d)'
  <2>1. \A i \in 1..Got(d) + 1 : got'[Sink(d)][i] = Base(d) + i
    <3>1. /\ got'[Sink(d)][Got(d) + 1] = n
          /\ \A i \in 1..Got(d) : got'[Sink(d)][i] = got[Sink(d)][i]
      BY <1>0, <1>5, <1>6 DEF Got
    <3>2. \A i \in 1..Got(d) : got[Sink(d)][i] = Base(d) + i
      BY DEF Counted
    <3>3. n = Base(d) + (Got(d) + 1) /\ \A i \in 1..Got(d) + 1 : i = Got(d) + 1 \/ i \in 1..Got(d)
      BY <1>0, <1>3
    <3> QED BY <3>1, <3>2, <3>3
  <2>2. Got(d) + 1 <= Sent(d)
    BY <1>0, <1>3, <1>4 DEF Numbers
  <2> QED BY <1>1, <1>6, <2>1, <2>2 DEF Counted
<1>8. Known(d)'
  BY <1>1, <1>4 DEF Known
<1>9. AtLast(d)' = AtLast(d)
  <2>1. Len(q'[LastLeg(d)]) = Len(q[LastLeg(d)]) - 1
    BY <1>0, TailPiece
  <2> QED BY <1>0, <1>6, <2>1 DEF AtLast
<1>10. /\ AtCopy2(d)' = AtCopy2(d) /\ AtBuf(d)' = AtBuf(d)
       /\ AtMiddle(d)' = AtMiddle(d) /\ AtCopy1(d)' = AtCopy1(d) /\ AtFirst(d)' = AtFirst(d)
  BY <1>9 DEF AtCopy2, AtBuf, AtMiddle, AtCopy1, AtFirst, Holds
<1>11. \A e \in {Reader(FirstLeg(d)), Writer(MiddleLeg(d)), Reader(MiddleLeg(d)), Writer(LastLeg(d)),
                   Source(d), Sink(d)} : Alive(e)' <=> Alive(e)
  BY LegEnds
<1>12. Run(q'[LastLeg(d)], 0, Base(d) + Got(d)')
  <2>1. Base(d) + Got(d)' = Base(d) + Got(d) + 1
    BY <1>0, <1>6
  <2> QED BY <1>3, <2>1
<1>13. Aligned(d)'
  BY <1>1, <1>9, <1>10, <1>11, <1>12 DEF Aligned
<1> QED BY <1>7, <1>8, <1>13

(* What a move within the chain leaves alone.                              *)
SameEnds(d) ==
  /\ sent'[Source(d)] = sent[Source(d)] /\ got'[Sink(d)] = got[Sink(d)]
  /\ \A e \in End : Alive(e)' <=> Alive(e)

(* Such a step changes nothing at the ends of the chain.                   *)
LEMMA SameEndsFacts ==
  ASSUME NEW d \in Dir, SameEnds(d)
  PROVE  /\ Base(d)' = Base(d) /\ Bound(d)' = Bound(d) /\ Sent(d)' = Sent(d) /\ Got(d)' = Got(d)
         /\ Numbers(d)' = Numbers(d) /\ (Counted(d) => Counted(d)')
         /\ \A e \in {Reader(FirstLeg(d)), Writer(MiddleLeg(d)), Reader(MiddleLeg(d)), Writer(LastLeg(d)),
                       Source(d), Sink(d)} : Alive(e)' <=> Alive(e)
<1>1. /\ Base(d)' = Base(d) /\ Bound(d)' = Bound(d) /\ Sent(d)' = Sent(d) /\ Got(d)' = Got(d)
  BY DEF SameEnds, Base, Bound, Sent, Got
<1>2. Numbers(d)' = Numbers(d)
  BY <1>1 DEF Numbers
<1>3. Counted(d) => Counted(d)'
  BY <1>1 DEF SameEnds, Counted
<1>4. \A e \in {Reader(FirstLeg(d)), Writer(MiddleLeg(d)), Reader(MiddleLeg(d)), Writer(LastLeg(d)),
                       Source(d), Sink(d)} : Alive(e)' <=> Alive(e)
  BY LegEnds DEF SameEnds
<1> QED BY <1>1, <1>2, <1>3, <1>4

(* Copy1 reads a piece of the first leg.                                   *)
LEMMA Copy1Reads ==
  ASSUME NEW d \in Dir, TypeOK, TypeOK', Phases, DirInv(d), SameEnds(d),
         q[FirstLeg(d)] # <<>>, end[Reader(FirstLeg(d))] = "open", copy[Copy1(d)] = "read",
         copy'[Copy1(d)] = "write", has'[Copy1(d)] = Head(q[FirstLeg(d)]).data,
         q'[FirstLeg(d)] = Tail(q[FirstLeg(d)]),
         q'[MiddleLeg(d)] = q[MiddleLeg(d)], q'[LastLeg(d)] = q[LastLeg(d)], Skip(d)' = Skip(d),
         copy'[Copy2(d)] = copy[Copy2(d)], has'[Copy2(d)] = has[Copy2(d)], buf'[Copy2(d)] = buf[Copy2(d)]
  PROVE  DirInv(d)'
<1> USE DEF DirInv
<1>0. q[FirstLeg(d)] \in Seq(Piece) /\ Base(d) \in Nat /\ Len(q[FirstLeg(d)]) \in Nat /\ AtMiddle(d) \in Nat
  BY DirTypes, Positions
<1>1. /\ Base(d)' = Base(d) /\ Sent(d)' = Sent(d) /\ Got(d)' = Got(d)
      /\ Numbers(d)' = Numbers(d) /\ Counted(d)'
      /\ \A e \in {Reader(FirstLeg(d)), Writer(MiddleLeg(d)), Reader(MiddleLeg(d)), Writer(LastLeg(d)),
                    Source(d), Sink(d)} : Alive(e)' <=> Alive(e)
  BY SameEndsFacts
<1>2. Known(d)'
  <2>1. has'[Copy1(d)] \in Numbers(d) /\ Within(q'[FirstLeg(d)], 0, Numbers(d))
    BY <1>0, WithinTail DEF Known
  <2> QED BY <1>1, <2>1 DEF Known
<1>3. AtLast(d)' = AtLast(d) /\ AtCopy2(d)' = AtCopy2(d) /\ AtBuf(d)' = AtBuf(d) /\ AtMiddle(d)' = AtMiddle(d)
  BY <1>1 DEF AtLast, AtCopy2, AtBuf, AtMiddle, Holds
<1>4. AtCopy1(d) = AtMiddle(d) /\ AtCopy1(d)' = AtMiddle(d) + 1
  <2>1. Holds(Copy1(d)) = 0 /\ Holds(Copy1(d))' = 1
    BY DEF Holds
  <2> QED BY <1>0, <1>3, <2>1 DEF AtCopy1
<1>5. AtFirst(d)' = AtFirst(d)
  <2>1. Len(q'[FirstLeg(d)]) = Len(q[FirstLeg(d)]) - 1
    BY <1>0, TailPiece
  <2> QED BY <1>0, <1>4, <2>1 DEF AtFirst
<1>6. Run(q[FirstLeg(d)], 0, Base(d) + AtCopy1(d)) =>
        /\ has'[Copy1(d)] = Base(d) + AtMiddle(d) + 1
        /\ Run(q'[FirstLeg(d)], 0, Base(d) + AtCopy1(d)')
  <2>1. Base(d) + AtCopy1(d) \in Nat /\ Base(d) + AtCopy1(d) + 1 = Base(d) + AtCopy1(d)'
    <3>1. \A m, n \in Nat : m + n \in Nat /\ m + n + 1 = m + (n + 1)
      OBVIOUS
    <3> QED BY <1>0, <1>4, <3>1
  <2> QED BY <1>0, <1>4, <2>1, RunTail
<1>7. Alive(Reader(FirstLeg(d)))
  BY DEF Alive
<1>8. Aligned(d)'
  BY <1>1, <1>3, <1>5, <1>6, <1>7 DEF Aligned
<1> QED BY <1>1, <1>2, <1>8

(* Copy2 reads a piece that is in its buffer.                              *)
LEMMA Copy2Unbuffers ==
  ASSUME NEW d \in Dir, TypeOK, TypeOK', Phases, DirInv(d), SameEnds(d),
         buf[Copy2(d)] # <<>>, copy[Copy2(d)] = "read",
         copy'[Copy2(d)] = "write", has'[Copy2(d)] = Head(buf[Copy2(d)]).data,
         buf'[Copy2(d)] = Tail(buf[Copy2(d)]),
         q'[FirstLeg(d)] = q[FirstLeg(d)], q'[MiddleLeg(d)] = q[MiddleLeg(d)], q'[LastLeg(d)] = q[LastLeg(d)],
         Skip(d)' = Skip(d), copy'[Copy1(d)] = copy[Copy1(d)], has'[Copy1(d)] = has[Copy1(d)]
  PROVE  DirInv(d)'
<1> USE DEF DirInv
<1>0. buf[Copy2(d)] \in Seq(Piece) /\ Base(d) \in Nat /\ Len(buf[Copy2(d)]) \in Nat /\ AtLast(d) \in Nat
  BY DirTypes, Positions
<1>1. /\ Base(d)' = Base(d) /\ Sent(d)' = Sent(d) /\ Got(d)' = Got(d)
      /\ Numbers(d)' = Numbers(d) /\ Counted(d)'
      /\ \A e \in {Reader(FirstLeg(d)), Writer(MiddleLeg(d)), Reader(MiddleLeg(d)), Writer(LastLeg(d)),
                    Source(d), Sink(d)} : Alive(e)' <=> Alive(e)
  BY SameEndsFacts
<1>2. Known(d)'
  <2>1. has'[Copy2(d)] \in Numbers(d) /\ Within(buf'[Copy2(d)], 0, Numbers(d))
    BY <1>0, WithinTail DEF Known
  <2> QED BY <1>1, <2>1 DEF Known
<1>3. AtLast(d)' = AtLast(d)
  BY <1>1 DEF AtLast
<1>4. AtCopy2(d) = AtLast(d) /\ AtCopy2(d)' = AtLast(d) + 1
  <2>1. Holds(Copy2(d)) = 0 /\ Holds(Copy2(d))' = 1
    BY DEF Holds
  <2> QED BY <1>0, <1>3, <2>1 DEF AtCopy2
<1>5. AtBuf(d)' = AtBuf(d)
  <2>1. Len(buf'[Copy2(d)]) = Len(buf[Copy2(d)]) - 1
    BY <1>0, TailPiece
  <2> QED BY <1>0, <1>4, <2>1 DEF AtBuf
<1>6. AtMiddle(d)' = AtMiddle(d) /\ AtCopy1(d)' = AtCopy1(d) /\ AtFirst(d)' = AtFirst(d)
  BY <1>5 DEF AtMiddle, AtCopy1, AtFirst, Holds
<1>7. Run(buf[Copy2(d)], 0, Base(d) + AtCopy2(d)) =>
        /\ has'[Copy2(d)] = Base(d) + AtLast(d) + 1
        /\ Run(buf'[Copy2(d)], 0, Base(d) + AtCopy2(d)')
  <2>1. Base(d) + AtCopy2(d) \in Nat /\ Base(d) + AtCopy2(d) + 1 = Base(d) + AtCopy2(d)'
    <3>1. \A m, n \in Nat : m + n \in Nat /\ m + n + 1 = m + (n + 1)
      OBVIOUS
    <3> QED BY <1>0, <1>4, <3>1
  <2> QED BY <1>0, <1>4, <2>1, RunTail
<1>8. Aligned(d)'
  BY <1>1, <1>3, <1>5, <1>6, <1>7 DEF Aligned
<1> QED BY <1>1, <1>2, <1>8

(* Copy2 reads a piece of the tunnel, its buffer being empty.              *)
LEMMA Copy2Reads ==
  ASSUME NEW d \in Dir, TypeOK, TypeOK', Phases, DirInv(d), SameEnds(d),
         buf[Copy2(d)] = <<>>, q[MiddleLeg(d)] # <<>>, end[Reader(MiddleLeg(d))] = "open",
         copy[Copy2(d)] = "read", copy'[Copy2(d)] = "write", has'[Copy2(d)] = Head(q[MiddleLeg(d)]).data,
         buf'[Copy2(d)] = buf[Copy2(d)], q'[MiddleLeg(d)] = Tail(q[MiddleLeg(d)]),
         q'[FirstLeg(d)] = q[FirstLeg(d)], q'[LastLeg(d)] = q[LastLeg(d)],
         Skip(d)' = Skip(d), copy'[Copy1(d)] = copy[Copy1(d)], has'[Copy1(d)] = has[Copy1(d)]
  PROVE  DirInv(d)'
<1> USE DEF DirInv
<1>0. q[MiddleLeg(d)] \in Seq(Piece) /\ Base(d) \in Nat /\ Len(q[MiddleLeg(d)]) \in Nat /\ AtLast(d) \in Nat
  BY DirTypes, Positions
<1>1. /\ Base(d)' = Base(d) /\ Sent(d)' = Sent(d) /\ Got(d)' = Got(d)
      /\ Numbers(d)' = Numbers(d) /\ Counted(d)'
      /\ \A e \in {Reader(FirstLeg(d)), Writer(MiddleLeg(d)), Reader(MiddleLeg(d)), Writer(LastLeg(d)),
                    Source(d), Sink(d)} : Alive(e)' <=> Alive(e)
  BY SameEndsFacts
<1>2. Skip(d) = 0 /\ Len(buf[Copy2(d)]) = 0
  BY SkipFacts
<1>3. Known(d)'
  <2>1. has'[Copy2(d)] \in Numbers(d) /\ Within(q'[MiddleLeg(d)], 0, Numbers(d))
    BY <1>0, <1>2, WithinTail DEF Known
  <2> QED BY <1>1, <1>2, <2>1 DEF Known
<1>4. AtLast(d)' = AtLast(d)
  BY <1>1 DEF AtLast
<1>5. AtCopy2(d) = AtLast(d) /\ AtCopy2(d)' = AtLast(d) + 1
  <2>1. Holds(Copy2(d)) = 0 /\ Holds(Copy2(d))' = 1
    BY DEF Holds
  <2> QED BY <1>0, <1>4, <2>1 DEF AtCopy2
<1>6. AtBuf(d) = AtLast(d) /\ AtBuf(d)' = AtLast(d) + 1
  BY <1>0, <1>2, <1>5 DEF AtBuf
<1>7. AtMiddle(d)' = AtMiddle(d)
  <2>1. Len(q'[MiddleLeg(d)]) = Len(q[MiddleLeg(d)]) - 1
    BY <1>0, TailPiece
  <2> QED BY <1>0, <1>2, <1>6, <2>1 DEF AtMiddle
<1>8. AtCopy1(d)' = AtCopy1(d) /\ AtFirst(d)' = AtFirst(d)
  BY <1>7 DEF AtCopy1, AtFirst, Holds
<1>9. Run(q[MiddleLeg(d)], 0, Base(d) + AtBuf(d)) =>
        /\ has'[Copy2(d)] = Base(d) + AtLast(d) + 1
        /\ Run(q'[MiddleLeg(d)], 0, Base(d) + AtBuf(d)')
  <2>1. Base(d) + AtBuf(d) \in Nat /\ Base(d) + AtBuf(d) + 1 = Base(d) + AtBuf(d)'
    BY <1>0, <1>6
  <2> QED BY <1>0, <1>6, <2>1, RunTail
<1>10. Alive(Reader(MiddleLeg(d))) /\ Run(buf'[Copy2(d)], 0, Base(d) + AtCopy2(d)')
  BY RunEmpty DEF Alive
<1>11. Aligned(d)'
  BY <1>1, <1>2, <1>4, <1>7, <1>8, <1>9, <1>10 DEF Aligned
<1> QED BY <1>1, <1>3, <1>11

(* Copy1 writes to the tunnel.                                             *)
LEMMA Copy1Writes ==
  ASSUME NEW d \in Dir, TypeOK, TypeOK', Phases, DirInv(d), SameEnds(d),
         copy[Copy1(d)] = "write", copy'[Copy1(d)] = "read",
         end[Reader(MiddleLeg(d))] = "open", end[Writer(MiddleLeg(d))] = "open",
         q'[MiddleLeg(d)] = Append(q[MiddleLeg(d)], Data(has[Copy1(d)])),
         q'[FirstLeg(d)] = q[FirstLeg(d)], q'[LastLeg(d)] = q[LastLeg(d)],
         Skip(d)' = Skip(d), copy'[Copy2(d)] = copy[Copy2(d)], has'[Copy2(d)] = has[Copy2(d)],
         buf'[Copy2(d)] = buf[Copy2(d)]
  PROVE  DirInv(d)'
<1> USE DEF DirInv
<1>0. /\ q[MiddleLeg(d)] \in Seq(Piece) /\ Base(d) \in Nat /\ Len(q[MiddleLeg(d)]) \in Nat
      /\ AtBuf(d) \in Nat /\ AtMiddle(d) \in Nat
      /\ has[Copy1(d)] \in Number /\ Skip(d) \in {0, 1} /\ Skip(d) <= Len(q[MiddleLeg(d)])
  BY DirTypes, Positions, SkipFacts
<1>1. /\ Base(d)' = Base(d) /\ Sent(d)' = Sent(d) /\ Got(d)' = Got(d)
      /\ Numbers(d)' = Numbers(d) /\ Counted(d)'
      /\ \A e \in {Reader(FirstLeg(d)), Writer(MiddleLeg(d)), Reader(MiddleLeg(d)), Writer(LastLeg(d)),
                    Source(d), Sink(d)} : Alive(e)' <=> Alive(e)
  BY SameEndsFacts
<1>2. Known(d)'
  <2>1. Within(q'[MiddleLeg(d)], Skip(d), Numbers(d))
    BY <1>0, WithinAppend DEF Known
  <2> QED BY <1>1, <2>1 DEF Known
<1>3. AtLast(d)' = AtLast(d) /\ AtCopy2(d)' = AtCopy2(d) /\ AtBuf(d)' = AtBuf(d)
  BY <1>1 DEF AtLast, AtCopy2, AtBuf, Holds
<1>4. AtMiddle(d)' = AtMiddle(d) + 1
  <2>1. Len(q'[MiddleLeg(d)]) = Len(q[MiddleLeg(d)]) + 1
    BY <1>0, AppendPiece, DataPiece
  <2>2. AtMiddle(d)' = AtBuf(d) + ((Len(q[MiddleLeg(d)]) + 1) - Skip(d))
    BY <1>3, <2>1 DEF AtMiddle
  <2>3. AtMiddle(d) = AtBuf(d) + (Len(q[MiddleLeg(d)]) - Skip(d))
    BY DEF AtMiddle
  <2>4. \A m, n \in Nat, k \in {0, 1} : m + ((n + 1) - k) = m + (n - k) + 1
    OBVIOUS
  <2>5. AtBuf(d) \in Nat /\ Len(q[MiddleLeg(d)]) \in Nat /\ Skip(d) \in {0, 1}
    BY <1>0
  <2> QED BY <2>2, <2>3, <2>4, <2>5
<1>5. AtCopy1(d)' = AtCopy1(d)
  <2>1. Holds(Copy1(d)) = 1 /\ Holds(Copy1(d))' = 0
    BY DEF Holds
  <2> QED BY <1>0, <1>4, <2>1 DEF AtCopy1
<1>6. AtFirst(d)' = AtFirst(d)
  BY <1>5 DEF AtFirst
<1>7. Run(q[MiddleLeg(d)], Skip(d), Base(d) + AtBuf(d)) /\ has[Copy1(d)] = Base(d) + AtMiddle(d) + 1
        => Run(q'[MiddleLeg(d)], Skip(d), Base(d) + AtBuf(d))
  <2>1. Base(d) + AtBuf(d) \in Nat
    BY <1>0
  <2>2. Base(d) + AtMiddle(d) + 1 = Base(d) + AtBuf(d) + (Len(q[MiddleLeg(d)]) - Skip(d)) + 1
    BY <1>0 DEF AtMiddle
  <2> QED BY <1>0, <2>1, <2>2, RunAppend
<1>8. Alive(Reader(MiddleLeg(d))) /\ Alive(Writer(MiddleLeg(d)))
  BY DEF Alive
<1>9. Aligned(d)'
  BY <1>1, <1>3, <1>5, <1>6, <1>7, <1>8 DEF Aligned
<1> QED BY <1>1, <1>2, <1>9

(* Copy2 writes to the last leg.                                           *)
LEMMA Copy2Writes ==
  ASSUME NEW d \in Dir, TypeOK, TypeOK', Phases, DirInv(d), SameEnds(d),
         copy[Copy2(d)] = "write", copy'[Copy2(d)] = "read",
         end[Sink(d)] = "open", end[Writer(LastLeg(d))] = "open",
         q'[LastLeg(d)] = Append(q[LastLeg(d)], Data(has[Copy2(d)])),
         q'[FirstLeg(d)] = q[FirstLeg(d)], q'[MiddleLeg(d)] = q[MiddleLeg(d)],
         Skip(d)' = Skip(d), copy'[Copy1(d)] = copy[Copy1(d)], has'[Copy1(d)] = has[Copy1(d)],
         buf'[Copy2(d)] = buf[Copy2(d)]
  PROVE  DirInv(d)'
<1> USE DEF DirInv
<1>0. /\ q[LastLeg(d)] \in Seq(Piece) /\ Base(d) \in Nat /\ Len(q[LastLeg(d)]) \in Nat
      /\ Got(d) \in Nat /\ AtLast(d) \in Nat /\ has[Copy2(d)] \in Number
  BY DirTypes, Positions
<1>1. /\ Base(d)' = Base(d) /\ Sent(d)' = Sent(d) /\ Got(d)' = Got(d)
      /\ Numbers(d)' = Numbers(d) /\ Counted(d)'
      /\ \A e \in {Reader(FirstLeg(d)), Writer(MiddleLeg(d)), Reader(MiddleLeg(d)), Writer(LastLeg(d)),
                    Source(d), Sink(d)} : Alive(e)' <=> Alive(e)
  BY SameEndsFacts
<1>2. Known(d)'
  <2>1. Within(q'[LastLeg(d)], 0, Numbers(d))
    BY <1>0, WithinAppend DEF Known
  <2> QED BY <1>1, <2>1 DEF Known
<1>3. AtLast(d)' = AtLast(d) + 1
  <2>1. Len(q'[LastLeg(d)]) = Len(q[LastLeg(d)]) + 1
    BY <1>0, AppendPiece, DataPiece
  <2> QED BY <1>0, <1>1, <2>1 DEF AtLast
<1>4. AtCopy2(d)' = AtCopy2(d)
  <2>1. Holds(Copy2(d)) = 1 /\ Holds(Copy2(d))' = 0
    BY DEF Holds
  <2> QED BY <1>0, <1>3, <2>1 DEF AtCopy2
<1>5. /\ AtBuf(d)' = AtBuf(d) /\ AtMiddle(d)' = AtMiddle(d) /\ AtCopy1(d)' = AtCopy1(d)
      /\ AtFirst(d)' = AtFirst(d)
  BY <1>4 DEF AtBuf, AtMiddle, AtCopy1, AtFirst, Holds
<1>6. Run(q[LastLeg(d)], 0, Base(d) + Got(d)) /\ has[Copy2(d)] = Base(d) + AtLast(d) + 1
        => Run(q'[LastLeg(d)], 0, Base(d) + Got(d))
  <2>1. Base(d) + Got(d) \in Nat /\ 0 <= Len(q[LastLeg(d)])
    BY <1>0
  <2>2. Base(d) + AtLast(d) + 1 = Base(d) + Got(d) + (Len(q[LastLeg(d)]) - 0) + 1
    BY <1>0 DEF AtLast
  <2> QED BY <1>0, <2>1, <2>2, RunAppend
<1>7. Alive(Sink(d)) /\ Alive(Writer(LastLeg(d)))
  BY DEF Alive
<1>8. Aligned(d)'
  BY <1>1, <1>4, <1>5, <1>6, <1>7 DEF Aligned
<1> QED BY <1>1, <1>2, <1>8

(* Copy2 starts: its reader has taken the text, and some of what follows.  *)
LEMMA TakesOver ==
  ASSUME NEW d \in Dir, TypeOK, TypeOK', Phases, DirInv(d), SameEnds(d),
         Alive(Reader(MiddleLeg(d))), Skip(d) = 1, Skip(d)' = 0, buf[Copy2(d)] = <<>>, NEW m \in 1..Len(q[MiddleLeg(d)]),
         buf'[Copy2(d)] = SubSeq(q[MiddleLeg(d)], 2, m),
         q'[MiddleLeg(d)] = SubSeq(q[MiddleLeg(d)], m + 1, Len(q[MiddleLeg(d)])),
         q'[FirstLeg(d)] = q[FirstLeg(d)], q'[LastLeg(d)] = q[LastLeg(d)],
         copy[Copy2(d)] # "write", copy'[Copy2(d)] # "write",
         copy'[Copy1(d)] = copy[Copy1(d)] \/ (copy[Copy1(d)] # "write" /\ copy'[Copy1(d)] # "write"),
         has'[Copy1(d)] = has[Copy1(d)]
  PROVE  DirInv(d)'
<1> USE DEF DirInv
<1>0. /\ q[MiddleLeg(d)] \in Seq(Piece) /\ Base(d) \in Nat /\ Len(q[MiddleLeg(d)]) \in Nat
      /\ AtCopy2(d) \in Nat /\ m \in Nat
  BY DirTypes, Positions
<1>1. /\ Base(d)' = Base(d) /\ Sent(d)' = Sent(d) /\ Got(d)' = Got(d)
      /\ Numbers(d)' = Numbers(d) /\ Counted(d)'
      /\ \A e \in {Reader(FirstLeg(d)), Writer(MiddleLeg(d)), Reader(MiddleLeg(d)), Writer(LastLeg(d)),
                    Source(d), Sink(d)} : Alive(e)' <=> Alive(e)
  BY SameEndsFacts
<1>2. Base(d) + AtCopy2(d) \in Nat
  BY <1>0
<1>3. /\ Len(buf'[Copy2(d)]) = m - 1 /\ Len(q'[MiddleLeg(d)]) = Len(q[MiddleLeg(d)]) - m
      /\ Within(q[MiddleLeg(d)], 1, Numbers(d)) =>
            Within(buf'[Copy2(d)], 0, Numbers(d)) /\ Within(q'[MiddleLeg(d)], 0, Numbers(d))
      /\ Run(q[MiddleLeg(d)], 1, Base(d) + AtCopy2(d)) =>
            /\ Run(buf'[Copy2(d)], 0, Base(d) + AtCopy2(d))
            /\ Run(q'[MiddleLeg(d)], 0, Base(d) + AtCopy2(d) + (m - 1))
  BY <1>0, <1>2, RunSplit, SMTT(30)
<1>4. Known(d)'
  BY <1>1, <1>3 DEF Known
<1>5. AtLast(d)' = AtLast(d) /\ AtCopy2(d)' = AtCopy2(d)
  BY <1>1 DEF AtLast, AtCopy2, Holds
<1>6. AtBuf(d) = AtCopy2(d) /\ AtBuf(d)' = AtCopy2(d) + (m - 1)
  <2>1. Len(buf[Copy2(d)]) = 0
    OBVIOUS
  <2> QED BY <1>0, <1>3, <1>5, <2>1 DEF AtBuf
<1>7. AtMiddle(d)' = AtMiddle(d)
  <2>1. AtMiddle(d)' = AtCopy2(d) + (m - 1) + ((Len(q[MiddleLeg(d)]) - m) - 0)
    BY <1>3, <1>6 DEF AtMiddle
  <2>2. AtMiddle(d) = AtCopy2(d) + (Len(q[MiddleLeg(d)]) - 1)
    BY <1>6 DEF AtMiddle
  <2> QED BY <1>0, <2>1, <2>2
<1>8. AtCopy1(d)' = AtCopy1(d) /\ AtFirst(d)' = AtFirst(d)
  BY <1>7 DEF AtCopy1, AtFirst, Holds
<1>9. Base(d) + AtBuf(d)' = Base(d) + AtCopy2(d) + (m - 1)
  BY <1>0, <1>6
<1>11. Run(q[MiddleLeg(d)], 1, Base(d) + AtBuf(d)) =>
            /\ Run(buf'[Copy2(d)], 0, Base(d) + AtCopy2(d)')
            /\ Run(q'[MiddleLeg(d)], Skip(d)', Base(d) + AtBuf(d)')
  BY <1>3, <1>5, <1>6, <1>9
<1>12. Aligned(d)'
  BY <1>1, <1>5, <1>7, <1>8, <1>11 DEF Aligned
<1> QED BY <1>1, <1>4, <1>12

(* A text is written to the tunnel, before anything else.                  *)
LEMMA WritesText ==
  ASSUME NEW d \in Dir, TypeOK, TypeOK', Phases, DirInv(d),
         sent'[Source(d)] = sent[Source(d)], got'[Sink(d)] = got[Sink(d)],
         \A e \in End : ~Alive(e) => ~Alive(e)',
         Skip(d) = 0, Skip(d)' = 1, q[MiddleLeg(d)] = <<>>, NEW t \in Piece, q'[MiddleLeg(d)] = <<t>>,
         q'[FirstLeg(d)] = q[FirstLeg(d)], q'[LastLeg(d)] = q[LastLeg(d)], buf'[Copy2(d)] = buf[Copy2(d)],
         copy[Copy1(d)] # "write", copy'[Copy1(d)] # "write",
         copy'[Copy2(d)] = copy[Copy2(d)], has'[Copy2(d)] = has[Copy2(d)]
  PROVE  DirInv(d)'
<1> USE DEF DirInv
<1>1. Sent(d)' = Sent(d) /\ Got(d)' = Got(d) /\ Base(d)' = Base(d) /\ Numbers(d)' = Numbers(d)
  BY DEF Sent, Got, Base, Numbers
<1>2. Counted(d)'
  BY <1>1 DEF Counted
<1>3. Within(<<t>>, 1, Numbers(d)) /\ \A n : Run(<<t>>, 1, n)
  BY DEF Within, Run
<1>4. Known(d)'
  BY <1>1, <1>3 DEF Known
<1>5. /\ Alive(Reader(FirstLeg(d)))' => Alive(Reader(FirstLeg(d)))
      /\ Alive(Writer(MiddleLeg(d)))' => Alive(Writer(MiddleLeg(d)))
      /\ Alive(Reader(MiddleLeg(d)))' => Alive(Reader(MiddleLeg(d)))
      /\ Alive(Writer(LastLeg(d)))' => Alive(Writer(LastLeg(d)))
      /\ Alive(Source(d))' => Alive(Source(d))
      /\ Alive(Sink(d))' => Alive(Sink(d))
  BY LegEnds
<1>6. AtLast(d)' = AtLast(d) /\ AtCopy2(d)' = AtCopy2(d) /\ AtBuf(d)' = AtBuf(d)
  BY <1>1 DEF AtLast, AtCopy2, AtBuf, Holds
<1>7. AtMiddle(d)' = AtMiddle(d)
  <2>1. Len(<<t>>) = 1 /\ Len(<<>>) = 0
    OBVIOUS
  <2> QED BY <1>6, <2>1 DEF AtMiddle
<1>8. AtCopy1(d)' = AtCopy1(d) /\ AtFirst(d)' = AtFirst(d)
  BY <1>7 DEF AtCopy1, AtFirst, Holds
<1>9. Aligned(d)'
  BY <1>1, <1>3, <1>5, <1>6, <1>7, <1>8 DEF Aligned
<1> QED BY <1>2, <1>4, <1>9

----------------------------------------------------------------------------
(* Every step keeps both directions in order.                              *)

(* Every step keeps the invariant of a direction.                          *)
LEMMA DirStep ==
  ASSUME TypeOK, TypeOK', Phases, Phases', [Next]_vars, NEW d \in Dir, DirInv(d)
  PROVE  DirInv(d)'
<1> DEFINE F == FirstLeg(d)
           M == MiddleLeg(d)
           L == LastLeg(d)
           k1 == Copy1(d)
           k2 == Copy2(d)
<1>0. \A e \in End : ~Alive(e) => ~Alive(e)'
  BY StayClosed
<1>1. ASSUME UNCHANGED <<q, sent, got, buf, has, copy, conn, hnd>> PROVE DirInv(d)'
  <2>1. Skip(d)' = Skip(d)
    BY <1>1 DEF Skip
  <2> QED BY <1>0, <1>1, <2>1, Loses
<1>2. ASSUME NEW a \in App, AppSends(a) PROVE DirInv(d)'
  <2>0. /\ UNCHANGED <<conn, hnd, end, buf, copy, has, got>> /\ end[a] = "open"
        /\ end[Reader(Out(a))] = "open"
    BY <1>2 DEF AppSends, Room
  <2>1. CASE a = Source(d)
    <3> DEFINE n == Sent(d) + Base(d) + 1
    <3>1. Out(a) = F /\ F \in Stream /\ F # M /\ F # L /\ M \in Stream /\ L \in Stream /\ Source(d) \in App
      BY <2>1, Legs
    <3>2. Sent(d) < Bound(d) /\ Sent(d) \in Nat /\ Base(d) \in Nat /\ Bound(d) \in Nat
      <4>1. Sent(d) \in Nat /\ Base(d) \in Nat
        BY DirTypes
      <4>2. Bound(d) \in Nat
        BY BoundsAssumption DEF Bound
      <4>3. Sent(d) < Bound(d)
        BY <1>2, <2>1 DEF AppSends, Sent, Bound, Source, Dir
      <4> QED BY <4>1, <4>2, <4>3
    <3>3. n \in Number
      <4>1. Base(d) + Bound(d) <= MaxUp + MaxDown /\ MaxUp + MaxDown \in Nat
        BY BoundsAssumption DEF Base, Bound
      <4> QED BY <3>2, <4>1 DEF Number
    <3>4. Len(sent[a]) + (IF a = "client" THEN 1 ELSE MaxUp + 1) = n
      <4>1. CASE d = "up"
        BY <2>1, <3>2, <4>1, BoundsAssumption DEF Source, Sent, Base
      <4>2. CASE d = "down"
        <5>1. a = "service" /\ Base(d) = MaxUp /\ Sent(d) = Len(sent[a])
          BY <2>1, <4>2 DEF Source, Sent, Base
        <5>2. \A i, j \in Nat : i + (j + 1) = i + j + 1
          OBVIOUS
        <5> QED BY <3>2, <5>1, <5>2
      <4> QED BY <4>1, <4>2 DEF Dir
    <3> HIDE DEF n
    <3>5. q' = [q EXCEPT ![F] = Append(@, Data(n))] /\ sent' = [sent EXCEPT ![a] = Append(@, n)]
      BY <1>2, <3>1, <3>4 DEF AppSends
    <3>6. q'[F] = Append(q[F], Data(n)) /\ q'[M] = q[M] /\ q'[L] = q[L]
          /\ sent'[Source(d)] = Append(sent[Source(d)], n)
      BY <2>1, <3>1, <3>5 DEF TypeOK
    <3>7. Skip(d)' = Skip(d)
      BY <2>0, <3>6 DEF Skip, MiddleLeg
    <3>8. (\A e \in End : Alive(e)' <=> Alive(e)) /\ end[Reader(F)] = "open" /\ end[Source(d)] = "open"
      BY <2>0, <2>1, <3>1 DEF Alive
    <3>9. n = Sent(d) + Base(d) + 1
      BY DEF n
    <3> QED BY <2>0, <3>2, <3>3, <3>6, <3>7, <3>8, <3>9, Sends
  <2>2. CASE a # Source(d)
    <3>1. Out(a) \notin {F, M, L} /\ F \in Stream /\ M \in Stream /\ L \in Stream /\ Source(d) \in App
      BY <2>2, Legs DEF App, Dir, Source, Out, FirstLeg, MiddleLeg, LastLeg
    <3>2. q'[F] = q[F] /\ q'[M] = q[M] /\ q'[L] = q[L] /\ sent'[Source(d)] = sent[Source(d)]
      BY <1>2, <2>2, <3>1 DEF AppSends, TypeOK
    <3>3. Skip(d)' = Skip(d)
      BY <2>0, <3>2 DEF Skip, MiddleLeg
    <3> QED BY <1>0, <2>0, <3>2, <3>3, Loses
  <2> QED BY <2>1, <2>2
<1>3. ASSUME NEW a \in App, AppReads(a) PROVE DirInv(d)'
  <2>0. /\ UNCHANGED <<conn, hnd, end, buf, copy, has, sent>> /\ end[a] = "open" /\ q[In(a)] # <<>>
    BY <1>3 DEF AppReads
  <2>1. CASE a = Sink(d)
    <3>1. In(a) = L /\ F \in Stream /\ L # M /\ F # L /\ M \in Stream /\ L \in Stream /\ Sink(d) \in App
      BY <2>1, Legs
    <3>2. q'[L] = Tail(q[L]) /\ q'[M] = q[M] /\ q'[F] = q[F]
          /\ got'[Sink(d)] = Append(got[Sink(d)], Head(q[L]).data)
      BY <1>3, <2>1, <3>1 DEF AppReads, TypeOK
    <3>3. Skip(d)' = Skip(d)
      BY <2>0, <3>2 DEF Skip, MiddleLeg
    <3>4. (\A e \in End : Alive(e)' <=> Alive(e)) /\ q[L] # <<>> /\ end[Sink(d)] = "open"
      BY <2>0, <2>1, <3>1 DEF Alive
    <3> QED BY <2>0, <3>2, <3>3, <3>4, Receives
  <2>2. CASE a # Sink(d)
    <3>1. In(a) \notin {F, M, L} /\ F \in Stream /\ M \in Stream /\ L \in Stream /\ Sink(d) \in App
      BY <2>2, Legs DEF App, Dir, Sink, In, FirstLeg, MiddleLeg, LastLeg
    <3>2. q'[F] = q[F] /\ q'[M] = q[M] /\ q'[L] = q[L] /\ got'[Sink(d)] = got[Sink(d)]
      BY <1>3, <2>2, <3>1 DEF AppReads, TypeOK
    <3>3. Skip(d)' = Skip(d)
      BY <2>0, <3>2 DEF Skip, MiddleLeg
    <3> QED BY <1>0, <2>0, <3>2, <3>3, Loses
  <2> QED BY <2>1, <2>2
<1>4. ASSUME NEW a \in App, AppShuts(a) PROVE DirInv(d)'
  BY <1>1, <1>4 DEF AppShuts
<1>5. ASSUME NEW E, Closed(E), UNCHANGED <<sent, got, buf, has, copy, hnd>>,
             conn' = conn \/ (conn \in {"backlog", "dial"} /\ conn' = "done")
      PROVE  DirInv(d)'
  <2>1. q'[M] = q[M] => Skip(d)' = Skip(d)
    BY <1>5 DEF Skip, MiddleLeg, Dir
  <2> QED BY <1>5, <2>1, Closes
<1>6. ASSUME NEW a \in App, AppCloses(a) PROVE DirInv(d)'
  BY <1>5, <1>6 DEF AppCloses
<1>7. CASE ProxyClose
  <2>1. CASE conn = "backlog"
    BY <1>5, <1>7, <2>1 DEF ProxyClose
  <2>2. CASE conn # "backlog"
    BY <1>1, <1>7, <2>2 DEF ProxyClose
  <2> QED BY <2>1, <2>2
<1>8. CASE Accept
  <2>1. CASE Closed({"pc"}) /\ conn' = "done"
    BY <1>5, <1>8, <2>1 DEF Accept
  <2>2. CASE ~(Closed({"pc"}) /\ conn' = "done")
    <3>1. UNCHANGED <<q, sent, got, buf, has, copy, hnd>> /\ conn = "backlog" /\ conn' = "dial"
      BY <1>8, <2>2 DEF Accept
    <3>2. Skip(d)' = Skip(d)
      BY <3>1 DEF Skip
    <3> QED BY <1>0, <3>1, <3>2, Loses
  <2> QED BY <2>1, <2>2
<1>9. CASE DialTunnel
  <2>1. CASE Closed({"pc"}) /\ conn' = "done" /\ UNCHANGED hnd
    BY <1>5, <1>9, <2>1 DEF DialTunnel
  <2>2. CASE ~(Closed({"pc"}) /\ conn' = "done" /\ UNCHANGED hnd)
    <3>1. /\ conn = "dial" /\ conn' = "answer" /\ hnd' = "request"
          /\ q' = [q EXCEPT ![<<"t", "up">>] = <<Text("request")>>]
          /\ UNCHANGED <<buf, copy, has, sent, got>>
      BY <1>9, <2>2 DEF DialTunnel
    <3>2. /\ hnd = "none" /\ q[<<"t", "up">>] = <<>> /\ q[<<"t", "down">>] = <<>>
          /\ copy["pUp"] = "off" /\ copy["sDown"] = "off"
      BY <3>1 DEF Phases
    <3>3. /\ q'[<<"t", "up">>] = <<Text("request")>>
          /\ \A x \in Stream : x # <<"t", "up">> => q'[x] = q[x]
      BY <3>1 DEF TypeOK, Stream
    <3>4. F \in Stream /\ M \in Stream /\ L \in Stream /\ F # M /\ L # M
      BY Legs
    <3>5. CASE d = "up"
      <4>1. M = <<"t", "up">> /\ Skip(d) = 0 /\ Skip(d)' = 1 /\ k1 = "pUp"
        BY <3>1, <3>2, <3>5 DEF Skip, MiddleLeg, Copy1
      <4>2. q'[F] = q[F] /\ q'[L] = q[L] /\ q[M] = <<>> /\ q'[M] = <<Text("request")>>
        BY <3>2, <3>3, <3>4, <4>1
      <4>3. Text("request") \in Piece /\ copy[k1] # "write"
        BY <3>2, <4>1 DEF Text, Piece
      <4> QED BY <1>0, <3>1, <4>1, <4>2, <4>3, WritesText
    <3>6. CASE d = "down"
      <4>1. /\ M = <<"t", "down">> /\ F # <<"t", "up">> /\ L # <<"t", "up">>
            /\ M # <<"t", "up">>
        BY <3>6 DEF MiddleLeg, FirstLeg, LastLeg
      <4>2. q'[F] = q[F] /\ q'[L] = q[L] /\ q[M] = <<>> /\ q'[M] = q[M]
        BY <3>2, <3>3, <3>4, <4>1
      <4>3. Skip(d) = 0 /\ Skip(d)' = 0
        BY <3>6, <4>1, <4>2 DEF Skip
      <4> QED BY <1>0, <3>1, <4>2, <4>3, Loses
    <3> QED BY <3>5, <3>6 DEF Dir
  <2> QED BY <2>1, <2>2
<1>10. CASE ReadAnswer
  <2> DEFINE x == <<"t", "down">>
  <2>0. conn = "answer" /\ UNCHANGED <<hnd, has, sent, got>> /\ end["pt"] = "open" /\ x \in Stream
        /\ copy["pUp"] = "off" /\ copy["pDown"] = "off" /\ buf["pDown"] = <<>>
    BY <1>10 DEF ReadAnswer, Phases, Stream
  <2>1. CASE conn' = "done"
    <3>1. Closed({"pc", "pt"}) /\ UNCHANGED <<buf, copy>>
      BY <1>10, <2>1 DEF ReadAnswer
    <3>2. q'[x] = <<>>
      BY <2>0, <3>1, ClosedEffect, Ends
    <3>3. q'[M] = q[M] => Skip(d)' = Skip(d)
      <4>1. CASE d = "up"
        BY <2>0, <4>1 DEF Skip
      <4>2. CASE d = "down"
        BY <2>1, <3>2, <4>2 DEF Skip, MiddleLeg
      <4> QED BY <4>1, <4>2 DEF Dir
    <3> QED BY <2>0, <3>1, <3>3, Closes
  <2>2. CASE conn' # "done"
    <3>1. /\ q[x] # <<>> /\ conn' = "piped" /\ UNCHANGED end
          /\ copy' = [copy EXCEPT !["pUp"] = "read", !["pDown"] = "read"]
      BY <1>10, <2>2 DEF ReadAnswer
    <3>2. PICK n \in 1..Len(q[x]) : /\ buf' = [buf EXCEPT !["pDown"] = SubSeq(q[x], 2, n)]
                                     /\ q' = [q EXCEPT ![x] = SubSeq(@, n + 1, Len(@))]
      BY <1>10, <2>2 DEF ReadAnswer
    <3>3. /\ copy'["pUp"] = "read" /\ copy'["pDown"] = "read"
          /\ copy'["sUp"] = copy["sUp"] /\ copy'["sDown"] = copy["sDown"]
          /\ buf'["pDown"] = SubSeq(q[x], 2, n) /\ buf'["sUp"] = buf["sUp"]
      BY <3>1, <3>2 DEF TypeOK, Copier
    <3>4. q'[x] = SubSeq(q[x], n + 1, Len(q[x])) /\ \A y \in Stream : y # x => q'[y] = q[y]
      BY <2>0, <3>2 DEF TypeOK
    <3>5. F \in Stream /\ M \in Stream /\ L \in Stream /\ F # M /\ L # M
      BY Legs
    <3>6. CASE d = "up"
      <4>1. F # x /\ M # x /\ L # x /\ k1 = "pUp" /\ k2 = "sUp"
        BY <3>6 DEF FirstLeg, MiddleLeg, LastLeg, Copy1, Copy2
      <4>2. q'[F] = q[F] /\ q'[M] = q[M] /\ q'[L] = q[L]
        BY <3>4, <3>5, <4>1
      <4>3. Skip(d)' = Skip(d)
        BY <2>0, <3>6 DEF Skip
      <4> QED BY <1>0, <2>0, <3>3, <4>1, <4>2, <4>3, Loses
    <3>7. CASE d = "down"
      <4>1. M = x /\ k1 = "sDown" /\ k2 = "pDown"
        BY <3>7 DEF MiddleLeg, Copy1, Copy2
      <4>2. q'[F] = q[F] /\ q'[L] = q[L]
        BY <3>4, <3>5, <4>1
      <4>3. Skip(d) = 1 /\ Skip(d)' = 0
        BY <2>0, <3>1, <3>7 DEF Skip
      <4>4. Alive(Reader(M)) /\ SameEnds(d)
        BY <2>0, <3>1, <4>1, Ends DEF Alive, SameEnds
      <4> QED BY <2>0, <3>3, <3>4, <4>1, <4>2, <4>3, <4>4, TakesOver
    <3> QED BY <3>6, <3>7 DEF Dir
  <2> QED BY <2>1, <2>2
<1>11. CASE handleConnect
  <2> DEFINE x == <<"t", "up">>
             y == <<"t", "down">>
  <2>0. /\ hnd = "request" /\ conn = "answer" /\ UNCHANGED <<conn, has, sent, got>>
        /\ end["st"] = "open" /\ end["sg"] = "none" /\ end["service"] = "none"
        /\ q[x] = <<Text("request")>> /\ q[y] = <<>> /\ x \in Stream /\ y \in Stream /\ x # y
        /\ copy["sUp"] = "off" /\ copy["sDown"] = "off" /\ buf["sUp"] = <<>>
    BY <1>11 DEF handleConnect, Phases, Stream
  <2>1. F \in Stream /\ M \in Stream /\ L \in Stream /\ F # M /\ L # M
    BY Legs
  <2>2. \A t \in {"200", "refused"} : Text(t) \in Piece
    BY DEF Text, Piece
  <2>3. CASE hnd' = "piped"
    <3>1. PICK n \in 1..Len(q[x]) : /\ buf' = [buf EXCEPT !["sUp"] = SubSeq(q[x], 2, n)]
                                     /\ q' = [q EXCEPT ![x] = SubSeq(@, n + 1, Len(@)),
                                                       ![y] = <<Text("200")>>]
      BY <1>11, <2>3 DEF handleConnect
    <3>2. /\ copy' = [copy EXCEPT !["sUp"] = "read", !["sDown"] = "read"]
          /\ end' = [end EXCEPT !["sg"] = "open", !["service"] = "open"]
      BY <1>11, <2>3 DEF handleConnect
    <3>3. /\ copy'["sUp"] = "read" /\ copy'["sDown"] = "read"
          /\ copy'["pUp"] = copy["pUp"] /\ copy'["pDown"] = copy["pDown"]
          /\ buf'["sUp"] = SubSeq(q[x], 2, n) /\ buf'["pDown"] = buf["pDown"]
      BY <3>1, <3>2 DEF TypeOK, Copier
    <3>4. /\ q'[x] = SubSeq(q[x], n + 1, Len(q[x])) /\ q'[y] = <<Text("200")>>
          /\ \A z \in Stream : z # x /\ z # y => q'[z] = q[z]
      BY <2>0, <3>1 DEF TypeOK
    <3>5. \A e \in End : Alive(e)' <=> Alive(e)
      BY <2>0, <3>2 DEF Alive, TypeOK
    <3>6. CASE d = "up"
      <4>1. M = x /\ F # y /\ L # y /\ k1 = "pUp" /\ k2 = "sUp"
        BY <3>6 DEF FirstLeg, MiddleLeg, LastLeg, Copy1, Copy2
      <4>2. q'[F] = q[F] /\ q'[L] = q[L]
        BY <2>1, <3>4, <4>1
      <4>3. Skip(d) = 1 /\ Skip(d)' = 0
        BY <2>0, <2>3, <3>6 DEF Skip
      <4>4. Alive(Reader(M)) /\ SameEnds(d)
        BY <2>0, <3>5, <4>1, Ends DEF Alive, SameEnds
      <4> QED BY <2>0, <3>3, <3>4, <4>1, <4>2, <4>3, <4>4, TakesOver
    <3>7. CASE d = "down"
      <4>1. M = y /\ F # x /\ L # x /\ k1 = "sDown" /\ k2 = "pDown"
        BY <3>7 DEF FirstLeg, MiddleLeg, LastLeg, Copy1, Copy2
      <4>2. q'[F] = q[F] /\ q'[L] = q[L]
        BY <2>1, <3>4, <4>1
      <4>3. Skip(d) = 0 /\ Skip(d)' = 1
        BY <2>0, <3>4, <3>7 DEF Skip
      <4> QED BY <1>0, <2>0, <2>2, <3>3, <3>4, <4>1, <4>2, <4>3, WritesText
    <3> QED BY <3>6, <3>7 DEF Dir
  <2>4. CASE hnd' # "piped"
    <3>1. /\ hnd' = "done"
          /\ q' = [q EXCEPT ![x] = Tail(@), ![y] = <<Text("refused")>>]
          /\ end' = [end EXCEPT !["st"] = "closed"]
          /\ UNCHANGED <<buf, copy>>
      BY <1>11, <2>4 DEF handleConnect
    <3>2. /\ q'[x] = <<>> /\ q'[y] = <<Text("refused")>>
          /\ \A z \in Stream : z # x /\ z # y => q'[z] = q[z]
      <4>1. Tail(<<Text("request")>>) = <<>>
        OBVIOUS
      <4> QED BY <2>0, <3>1, <4>1 DEF TypeOK
    <3>3. CASE d = "up"
      <4>1. M = x /\ F # y /\ L # y /\ Reader(M) = "st"
        BY <3>3, Ends DEF FirstLeg, MiddleLeg, LastLeg
      <4>2. q'[F] = q[F] /\ q'[L] = q[L] /\ q'[M] = <<>>
        BY <2>1, <3>2, <4>1
      <4>3. Skip(d)' = 0 /\ ~Alive(Reader(M))'
        BY <3>1, <3>3, <4>1 DEF Skip, Alive, TypeOK, End
      <4> QED BY <1>0, <2>0, <3>1, <4>2, <4>3, Loses
    <3>4. CASE d = "down"
      <4>1. M = y /\ F # x /\ L # x /\ k1 = "sDown" /\ k2 = "pDown"
        BY <3>4 DEF FirstLeg, MiddleLeg, LastLeg, Copy1, Copy2
      <4>2. q'[F] = q[F] /\ q'[L] = q[L]
        BY <2>1, <3>2, <4>1
      <4>3. Skip(d) = 0 /\ Skip(d)' = 1
        BY <2>0, <3>2, <3>4 DEF Skip
      <4> QED BY <1>0, <2>0, <2>2, <3>1, <3>2, <4>1, <4>2, <4>3, WritesText
    <3> QED BY <3>3, <3>4 DEF Dir
  <2> QED BY <2>3, <2>4
<1>12. CASE PeerGone
  <2>1. /\ Closed({"st", "sg"}) /\ hnd' = "done" /\ hnd \in {"request", "piped"}
        /\ UNCHANGED <<conn, sent, got>>
    BY <1>12 DEF PeerGone
  <2>2. /\ copy'["pUp"] = copy["pUp"] /\ copy'["pDown"] = copy["pDown"]
        /\ has'["pUp"] = has["pUp"] /\ has'["pDown"] = has["pDown"] /\ buf'["pDown"] = buf["pDown"]
        /\ copy'["sUp"] = "done" /\ copy'["sDown"] = "done" /\ buf'["sUp"] = <<>>
    BY <1>12 DEF PeerGone, TypeOK, Copier
  <2>3. hnd = "request" => q[<<"t", "up">>] # <<>> /\ q'[<<"t", "up">>] = <<>>
    <3>1. \A z \in Stream : Reader(z) \in {"st", "sg"} /\ end[Reader(z)] = "open" => q'[z] = <<>>
      BY <2>1, ClosedEffect
    <3>2. hnd = "request" => end["st"] = "open" /\ q[<<"t", "up">>] = <<Text("request")>>
      BY DEF Phases
    <3>3. <<Text("request")>> # <<>>
      OBVIOUS
    <3> QED BY <3>1, <3>2, <3>3, Ends DEF Stream
  <2>4. CASE d = "up"
    <3>1. k1 = "pUp" /\ k2 = "sUp" /\ Writer(L) = "sg" /\ M = <<"t", "up">>
      BY <2>4, Ends DEF Copy1, Copy2, LastLeg, MiddleLeg
    <3>2. q'[M] = q[M] => Skip(d)' = Skip(d)
      BY <2>1, <2>3, <2>4, <3>1 DEF Skip
    <3> QED BY <2>1, <2>2, <3>1, <3>2, Closes
  <2>5. CASE d = "down"
    <3>1. k1 = "sDown" /\ k2 = "pDown" /\ Writer(M) = "st"
      BY <2>5, Ends DEF Copy1, Copy2, MiddleLeg
    <3>2. q'[M] = q[M] => Skip(d)' = Skip(d)
      BY <2>1, <2>5 DEF Skip, MiddleLeg
    <3> QED BY <2>1, <2>2, <3>1, <3>2, Closes
  <2> QED BY <2>4, <2>5 DEF Dir
<1>13. ASSUME NEW k \in Copier, CopyReads(k) PROVE DirInv(d)'
  <2>0. /\ copy[k] = "read" /\ copy'[k] = "write" /\ \A j \in Copier : j # k => copy'[j] = copy[j] /\ has'[j] = has[j]
        /\ UNCHANGED <<conn, hnd, end, sent, got>> /\ DOMAIN buf = {"pDown", "sUp"} /\ SameEnds(d)
    <3>1. \A j \in Copier : j # k => has'[j] = has[j]
      BY <1>13 DEF CopyReads, TypeOK
    <3> QED BY <1>13, <3>1 DEF CopyReads, TypeOK, SameEnds, Alive
  <2>1. /\ k1 \in Copier /\ k2 \in Copier /\ k1 # k2 /\ k2 \in {"pDown", "sUp"} /\ k1 \notin {"pDown", "sUp"}
        /\ Src(k1) = F /\ Src(k2) = M
    BY Copiers
  <2>2. F \in Stream /\ M \in Stream /\ L \in Stream /\ F # M /\ L # M /\ F # L
    BY Legs
  <2>3. CASE k \in DOMAIN buf /\ buf[k] # <<>>
    <3>1. /\ has'[k] = Head(buf[k]).data /\ buf'[k] = Tail(buf[k]) /\ UNCHANGED q
          /\ \A j \in {"pDown", "sUp"} : j # k => buf'[j] = buf[j]
      BY <1>13, <2>3 DEF CopyReads, TypeOK
    <3>2. Skip(d)' = Skip(d)
      BY <2>0, <3>1 DEF Skip
    <3>3. CASE k = k2
      BY <2>0, <2>1, <2>3, <3>1, <3>2, <3>3, Copy2Unbuffers
    <3>4. CASE k # k2
      <4>1. k # k1
        BY <2>0, <2>1, <2>3
      <4> QED BY <1>0, <2>0, <2>1, <3>1, <3>2, <3>4, <4>1, Loses
    <3> QED BY <3>3, <3>4
  <2>4. CASE ~(k \in DOMAIN buf /\ buf[k] # <<>>)
    <3>1. /\ has'[k] = Head(q[Src(k)]).data /\ q' = [q EXCEPT ![Src(k)] = Tail(@)] /\ UNCHANGED buf
          /\ end[Reader(Src(k))] = "open" /\ q[Src(k)] # <<>>
      BY <1>13, <2>4 DEF CopyReads, TypeOK
    <3>2. CASE k = k1
      <4>1. q'[F] = Tail(q[F]) /\ q'[M] = q[M] /\ q'[L] = q[L]
        BY <2>1, <2>2, <3>1, <3>2 DEF TypeOK
      <4>2. Skip(d)' = Skip(d)
        BY <2>0, <4>1 DEF Skip, MiddleLeg
      <4> QED BY <2>0, <2>1, <3>1, <3>2, <4>1, <4>2, Copy1Reads
    <3>3. CASE k = k2
      <4>1. q'[M] = Tail(q[M]) /\ q'[F] = q[F] /\ q'[L] = q[L] /\ buf[k2] = <<>>
        BY <2>0, <2>1, <2>2, <2>4, <3>1, <3>3 DEF TypeOK
      <4>2. Skip(d)' = Skip(d)
        <5>1. Skip(d) = 0
          BY <2>0, <3>3, SkipFacts
        <5>2. (d = "up" => hnd # "request") /\ (d = "down" => conn # "answer")
          <6>1. q[M] # <<>> /\ copy[k2] = "read"
            BY <2>0, <2>1, <3>1, <3>3
          <6> QED BY <5>1, <6>1 DEF Skip, MiddleLeg, Dir
        <5> QED BY <2>0, <5>1, <5>2 DEF Skip, Dir
      <4> QED BY <2>0, <2>1, <3>1, <3>3, <4>1, <4>2, Copy2Reads
    <3>4. CASE k # k1 /\ k # k2
      <4>1. Src(k) \notin {F, M, L}
        BY <3>4, OtherCopiers
      <4>2. q'[F] = q[F] /\ q'[M] = q[M] /\ q'[L] = q[L]
        BY <2>2, <3>1, <4>1 DEF TypeOK
      <4>3. Skip(d)' = Skip(d)
        BY <2>0, <4>2 DEF Skip, MiddleLeg
      <4> QED BY <1>0, <2>0, <2>1, <3>1, <3>4, <4>2, <4>3, Loses
    <3> QED BY <3>2, <3>3, <3>4
  <2> QED BY <2>3, <2>4
<1>14. ASSUME NEW k \in Copier, CopyWrites(k) PROVE DirInv(d)'
  <2>0. /\ copy[k] = "write" /\ copy'[k] = "read" /\ \A j \in Copier : j # k => copy'[j] = copy[j] /\ has'[j] = has[j]
        /\ UNCHANGED <<conn, hnd, end, sent, got, buf>> /\ SameEnds(d)
    <3>1. \A j \in Copier : j # k => has'[j] = has[j]
      BY <1>14 DEF CopyWrites, TypeOK
    <3> QED BY <1>14, <3>1 DEF CopyWrites, TypeOK, SameEnds, Alive
  <2>1. k1 \in Copier /\ k2 \in Copier /\ k1 # k2 /\ Dst(k1) = M /\ Dst(k2) = L
    BY Copiers
  <2>2. /\ F \in Stream /\ M \in Stream /\ L \in Stream /\ F # M /\ L # M /\ F # L
        /\ M[1] = "t" /\ Reader(L) = Sink(d)
    BY Legs, LegEnds
  <2>3. CASE k = k1
    <3>1. Room(M) /\ q' = [q EXCEPT ![M] = Append(@, Data(has[k1]))]
      BY <1>14, <2>1, <2>2, <2>3 DEF CopyWrites
    <3>2. q'[M] = Append(q[M], Data(has[k1])) /\ q'[F] = q[F] /\ q'[L] = q[L]
          /\ end[Reader(M)] = "open" /\ end[Writer(M)] = "open"
      BY <2>2, <3>1 DEF TypeOK, Room
    <3>3. Skip(d)' = Skip(d)
      <4>1. CASE d = "up"
        BY <2>0, <4>1 DEF Skip
      <4>2. CASE d = "down"
        <5>1. q'[M] # <<>>
          BY <3>2, DirTypes, AppendPiece, DataPiece
        <5>2. conn = "answer" => q[M] # <<>>
          BY <2>0, <2>3, <4>2 DEF Phases, Copy1, MiddleLeg
        <5> QED BY <2>0, <4>2, <5>1, <5>2 DEF Skip, MiddleLeg
      <4> QED BY <4>1, <4>2 DEF Dir
    <3> QED BY <2>0, <2>1, <2>3, <3>2, <3>3, Copy1Writes
  <2>4. CASE k = k2 /\ q' = [q EXCEPT ![L] = Append(@, Data(has[k2]))] /\ Room(L)
    <3>1. q'[L] = Append(q[L], Data(has[k2])) /\ q'[F] = q[F] /\ q'[M] = q[M]
          /\ end[Sink(d)] = "open" /\ end[Writer(L)] = "open"
      BY <2>2, <2>4 DEF TypeOK, Room
    <3>2. Skip(d)' = Skip(d)
      BY <2>0, <3>1 DEF Skip, MiddleLeg
    <3> QED BY <2>0, <2>1, <2>4, <3>1, <3>2, Copy2Writes
  <2>5. CASE k = k2 /\ UNCHANGED q /\ end[Reader(L)] = "closed"
    <3>1. ~Alive(Sink(d))' /\ Skip(d)' = Skip(d)
      BY <2>0, <2>2, <2>5 DEF Alive, Skip
    <3>2. Aligned(d)'
      BY <3>1 DEF Aligned
    <3>3. Counted(d)' /\ Numbers(d)' = Numbers(d)
      BY <2>0, SameEndsFacts DEF DirInv
    <3>4. Known(d)'
      BY <2>0, <2>1, <2>5, <3>1, <3>3 DEF Known, DirInv
    <3> QED BY <3>2, <3>3, <3>4 DEF DirInv
  <2>6. CASE k # k1 /\ k # k2
    <3>1. Dst(k) \notin {F, M, L}
      BY <2>6, OtherCopiers
    <3>2. q'[F] = q[F] /\ q'[M] = q[M] /\ q'[L] = q[L]
      BY <1>14, <2>2, <3>1 DEF CopyWrites, TypeOK
    <3>3. Skip(d)' = Skip(d)
      BY <2>0, <3>2 DEF Skip, MiddleLeg
    <3> QED BY <1>0, <2>0, <2>1, <2>6, <3>2, <3>3, Loses
  <2>7. k = k2 => \/ Room(L) /\ q' = [q EXCEPT ![L] = Append(@, Data(has[k2]))]
                  \/ end[Reader(L)] = "closed" /\ UNCHANGED q
    BY <1>14, <2>1 DEF CopyWrites
  <2> QED BY <2>3, <2>4, <2>5, <2>6, <2>7
<1>15. ASSUME NEW k \in Copier, CopyEnds(k) PROVE DirInv(d)'
  <2>0. /\ copy[k] \in {"read", "write"} /\ copy'[k] = "done"
        /\ \A j \in Copier : j # k => copy'[j] = copy[j] /\ has'[j] = has[j]
        /\ UNCHANGED <<conn, hnd, sent, got, buf>> /\ Closed(Side(k))
    <3>1. \A j \in Copier : j # k => has'[j] = has[j]
      BY <1>15 DEF CopyEnds, TypeOK
    <3> QED BY <1>15, <3>1 DEF CopyEnds, TypeOK
  <2>1. k1 \in Copier /\ k2 \in Copier /\ k1 # k2
    BY Copiers
  <2>2. (k = k1 => Writer(M) \in Side(k)) /\ (k = k2 => Writer(L) \in Side(k))
    BY Ends DEF Side, Copy1, Copy2, MiddleLeg, LastLeg, Dir
  <2>3. q'[M] = q[M] => Skip(d)' = Skip(d)
    BY <2>0 DEF Skip, MiddleLeg
  <2> QED BY <2>0, <2>1, <2>2, <2>3, Closes
<1>16. CASE UNCHANGED vars
  BY <1>1, <1>16 DEF vars
<1> QED BY <1>2, <1>3, <1>4, <1>6, <1>7, <1>8, <1>9, <1>10, <1>11, <1>12, <1>13, <1>14, <1>15, <1>16
        DEF Next

----------------------------------------------------------------------------

(* The invariant holds at first, and always.                               *)
LEMMA InitInv == Init => TypeOK /\ ChainInv
<1> SUFFICES ASSUME Init PROVE TypeOK /\ ChainInv
  OBVIOUS
<1>1. <<>> \in Seq(Piece) /\ <<>> \in Seq(Number) /\ Len(<<>>) = 0 /\ Len(<<>>) <= Cap /\ 0 \in Number
  BY BoundsAssumption DEF Number
<1>2. TypeOK
  BY <1>1 DEF Init, TypeOK
<1>3. /\ \A e \in End : end[e] = IF e \in {"client", "pc"} THEN "open" ELSE "none"
      /\ \A x \in Stream : q[x] = <<>>
      /\ \A k \in Copier : copy[k] = "off"
      /\ conn = "backlog" /\ hnd = "none" /\ buf["pDown"] = <<>> /\ buf["sUp"] = <<>>
      /\ \A a \in App : sent[a] = <<>> /\ got[a] = <<>>
  BY DEF Init
<1>4. Phases
  BY <1>3 DEF Phases, End, Stream, Copier
<1>5. ASSUME NEW d \in Dir PROVE DirInv(d)
  <2>1. /\ q[FirstLeg(d)] = <<>> /\ q[MiddleLeg(d)] = <<>> /\ q[LastLeg(d)] = <<>>
        /\ buf[Copy2(d)] = <<>> /\ copy[Copy1(d)] = "off" /\ copy[Copy2(d)] = "off"
        /\ sent[Source(d)] = <<>> /\ got[Sink(d)] = <<>> /\ Skip(d) = 0
    BY <1>3, <1>5, Legs, Copiers DEF Skip
  <2>2. Sent(d) = 0 /\ Got(d) = 0
    BY <1>1, <2>1 DEF Sent, Got
  <2>3. AtFirst(d) = 0
    BY <1>1, <2>1, <2>2 DEF AtFirst, AtCopy1, AtMiddle, AtBuf, AtCopy2, AtLast, Holds
  <2>4. Bound(d) \in Nat
    BY BoundsAssumption DEF Bound
  <2>5. Counted(d)
    BY <2>2, <2>4 DEF Counted
  <2>6. Known(d)
    BY <2>1, RunEmpty DEF Known
  <2>7. Aligned(d)
    BY <2>1, <2>2, <2>3, RunEmpty DEF Aligned
  <2> QED BY <2>5, <2>6, <2>7 DEF DirInv
<1> QED BY <1>2, <1>4, <1>5 DEF ChainInv

LEMMA ChainInvariant == SafetySpec => [](TypeOK /\ ChainInv)
<1>1. TypeOK /\ ChainInv /\ [Next]_vars => (TypeOK /\ ChainInv)'
  <2> SUFFICES ASSUME TypeOK, ChainInv, [Next]_vars PROVE TypeOK' /\ ChainInv'
    OBVIOUS
  <2>1. TypeOK'
    BY TypeStep
  <2>2. Phases /\ \A d \in Dir : DirInv(d)
    BY DEF ChainInv
  <2>3. Phases'
    BY <2>1, <2>2, PhaseStep
  <2>4. ASSUME NEW d \in Dir PROVE DirInv(d)'
    BY <2>1, <2>2, <2>3, DirStep
  <2> QED BY <2>1, <2>3, <2>4 DEF ChainInv
<1> QED BY <1>1, InitInv, PTL DEF SafetySpec

(* The chain keeps its types: no copier takes an HTTP text of the tunnel   *)
(* for a piece of the stream, and no connection holds more than it may.    *)
THEOREM TypeCorrect == SafetySpec => []TypeOK
<1>1. TypeOK /\ ChainInv => TypeOK
  OBVIOUS
<1> QED BY <1>1, ChainInvariant, PTL

(* However much is sent, however small the connections, and whoever closes *)
(* or shuts whichever end and when: each application has received a prefix *)
(* of what the other has sent, through acceptLoop, dialConnect,            *)
(* handleConnect, pipeTCP and bufferedConn.                                *)
THEOREM AlwaysFaithful == SafetySpec => []Faithful
<1>1. TypeOK /\ ChainInv => Faithful
  <2> SUFFICES ASSUME TypeOK, ChainInv PROVE Faithful
    OBVIOUS
  <2>1. ASSUME NEW d \in Dir PROVE IsPrefix(got[Sink(d)], sent[Source(d)])
    <3> DEFINE s == got[Sink(d)]
               t == sent[Source(d)]
    <3>1. s \in Seq(Number) /\ t \in Seq(Number)
      BY DirTypes
    <3>2. Len(s) <= Len(t) /\ \A i \in 1..Len(s) : s[i] = t[i]
      <4>1. Got(d) \in Nat /\ Sent(d) \in Nat /\ Counted(d)
        BY DirTypes DEF ChainInv, DirInv
      <4>2. \A i \in 1..Got(d) : i \in 1..Sent(d)
        BY <4>1 DEF Counted
      <4> QED BY <4>1, <4>2 DEF Counted, Got, Sent
    <3> HIDE DEF s, t
    <3>3. Len(s) \in Nat /\ SubSeq(s, 1, Len(s)) = SubSeq(t, 1, Len(s))
      BY <3>1, <3>2
    <3> QED BY <3>2, <3>3 DEF IsPrefix, s, t
  <2>2. IsPrefix(got[Sink("up")], sent[Source("up")]) /\ IsPrefix(got[Sink("down")], sent[Source("down")])
    BY <2>1 DEF Dir
  <2> QED BY <2>2 DEF Faithful, Sink, Source
<1> QED BY <1>1, ChainInvariant, PTL
=============================================================================
