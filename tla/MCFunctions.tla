---------------------------- MODULE MCFunctions ----------------------------
(* Instances of Inputs for TLC: every combination of small inputs. *)
EXTENDS Inputs

----------------------------------------------------------------------------
(* Commands.  PATH may be set, set to nothing, or be there without "=".    *)

Assign(k, v) == [key |-> k, eq |-> TRUE, val |-> v]
SomeEntries ==
  {Assign(PATH, <<"/a">>), Assign(PATH, <<NoDir, "/b", "/a">>), Assign(PATH, <<>>),
   [key |-> PATH, eq |-> FALSE, val |-> <<>>], Assign("K", <<"1">>), Assign("K", <<"2">>)}
Envs == SeqOf(SomeEntries, 2)

Prog(d) == [dir |-> d, name |-> "prog"]
SomeCommands == {<<<<>>, <<>>>>, <<<<Prog(NoDir)>>, <<>>>>, <<<<Prog(NoDir)>>, <<Prog("/b")>>>>}
BinOnly == <<"/bin">>
Trees == {fs \in [{Prog(d) : d \in {"/a", "/b", "/bin"}} -> {"none", "dir", "plain", "exec"}] :
            fs[Prog("/bin")] \in {"none", "exec"}}

----------------------------------------------------------------------------
(* Users.  Ids have two bits: "4" is too large, and "-" is no number.      *)

Texts == {"", "-", "0", "1", "4", "u", "g"}
Values == [t \in Texts |-> CASE t = "0" -> 0 [] t = "1" -> 1 [] t = "4" -> 4 [] OTHER -> -1]

SomeLine(n, ids) == [name |-> n, ids |-> ids, long |-> FALSE]
SomeLines ==
  {SomeLine("u", <<"1", "0">>), SomeLine("u", <<"4", "1">>), SomeLine("u", <<"1">>),
   SomeLine("1", <<"0", "1">>), SomeLine("g", <<"1">>), SomeLine("g", <<"4">>),
   [name |-> "", ids |-> <<>>, long |-> TRUE]}
Files == [open : {"ok"}, lines : SeqOf(SomeLines, 2)] \cup [open : {"missing", "error"}, lines : {<<>>}]
Specs == [user : {"", "-", "0", "1", "4", "u"}, hasGroup : {TRUE}, group : {"", "0", "4", "g"}]
         \cup [user : {"", "-", "0", "1", "4", "u"}, hasGroup : {FALSE}, group : {""}]

----------------------------------------------------------------------------
(* Connections.                                                            *)

Own4 == <<10, 0, 0, 5>>
Own6 == [Zero6 EXCEPT ![1] = 254, ![16] = 5]
Far4 == <<10, 0, 0, 9>>
Far6 == [Zero6 EXCEPT ![1] = 254, ![16] = 9]
Loop4b == <<127, 0, 0, 2>>
Bound4 == {Zero4, Loop4, Loop4b, Own4}
Bound6 == {Zero6, Loop6, Own6}
BoundMapped == {Mapped(Loop4), Mapped(Zero4)}
Sockets ==
  [proto : {"tcp", "udp"}, fam : {"v4"}, ip : Bound4, v6only : {FALSE}, connected : {FALSE}]
  \cup [proto : {"tcp", "udp"}, fam : {"v6"}, ip : Bound6, v6only : BOOLEAN, connected : {FALSE}]
  \cup [proto : {"tcp", "udp"}, fam : {"v6"}, ip : BoundMapped, v6only : {FALSE}, connected : {FALSE}]
  \cup [proto : {"tcp", "udp"}, fam : {"v4"}, ip : {Loop4}, v6only : {FALSE}, connected : {TRUE}]
Pairs == {{s, t} : s \in Sockets, t \in Sockets}

Dsts == {Loop4, Loop4b, Own4, Loop6, Own6}
Clients ==
  [remote : {FALSE}, dst : {Loop4, Loop4b}, src : {Loop4}] \cup
  [remote : {FALSE}, dst : {Loop6}, src : {Loop6}] \cup
  [remote : {TRUE}, dst : {Own4}, src : {Far4}] \cup
  [remote : {TRUE}, dst : {Own6}, src : {Far6}]
=============================================================================
