------------------------------- MODULE Inputs -------------------------------
(***************************************************************************)
(* Entrypoint and Addresses put to use, once, on inputs from given sets.   *)
(* A state is the input of one use of them:                                *)
(*   - a command: an image's and a configuration's environment and         *)
(*     command, and where programs are;                                    *)
(*   - a user: a "user[:group]" and the files it is looked up in;          *)
(*   - a connection: the sockets of one container, and a client's          *)
(*     connection to an address of another container.                      *)
(***************************************************************************)
EXTENDS Entrypoint, Addresses

CONSTANTS
  EnvEntry,   \* the entries of environments
  Env,        \* environments
  Commands,   \* the command lines of an image and of a configuration
  Tree,       \* what there is at the paths a program may be at
  UserSpec,   \* users, with a group or without
  File,       \* files of users or of groups
  Socket,     \* sockets
  Container,  \* the sockets of a container
  Client,     \* clients: from where they connect, and to what
  Dst         \* the addresses that tell sockets apart

(* A text without "=" has no value.                                        *)
ASSUME EnvAssumption ==
  /\ Env \subseteq Seq(EnvEntry)
  /\ DefaultPath \in Seq(STRING)
  /\ \A kv \in EnvEntry : kv.val \in Seq(STRING) /\ (~kv.eq => kv.val = <<>>)

Text == DOMAIN Value
Line == [name : Text, ids : Seq(Text), long : BOOLEAN]

ASSUME UserAssumption ==
  /\ UserSpec \subseteq [user : Text, hasGroup : BOOLEAN, group : Text]
  /\ \A s \in UserSpec : ~s.hasGroup => s.group = ""
  /\ File \subseteq [open : {"ok", "missing", "error"}, lines : Seq(Line)]

Address(n) == [1..n -> 0..255]

ASSUME SocketAssumption ==
  /\ Container \subseteq SUBSET Socket
  /\ \A s \in Socket : /\ s.proto \in {"tcp", "udp"}
                        /\ \/ s.fam = "v4" /\ s.ip \in Address(4)
                           \/ s.fam = "v6" /\ s.ip \in Address(16)
                        /\ s.v6only \in BOOLEAN /\ s.connected \in BOOLEAN

(* A client connects from inside its container to a loopback address, from *)
(* one, or from elsewhere to the container's own address.                  *)
ASSUME ClientAssumption ==
  /\ {Loop4, Loop6} \cup {c.dst : c \in Client} \subseteq Dst
  /\ \A d \in Dst : d \in Address(4) \/ (d \in Address(16) /\ ~Is4(d))
  /\ \A c \in Client :
       IF c.remote
       THEN \A ip \in {c.src, c.dst} : ~IsLoopback(ip) /\ ~IsUnspecified(ip)
       ELSE IsLoopback(c.src) /\ IsLoopback(c.dst)

VARIABLE in

----------------------------------------------------------------------------

Runtime(c, e) == [entrypoint |-> c, cmd |-> <<>>, env |-> e, dir |-> NoDir, user |-> NoUser]
NoFile == [open |-> "missing", lines |-> <<>>]

PickCommand ==
  \E base \in Env, over \in Env, c \in Commands, fs \in Tree :
    in' = [kind |-> "command", rt |-> Runtime(c[1], base), cfg |-> Runtime(c[2], over),
           sys |-> [fs |-> fs, passwd |-> NoFile, group |-> NoFile]]

PickUser ==
  \E s \in UserSpec, p \in File, g \in File :
    in' = [kind |-> "user", spec |-> s, passwd |-> p, group |-> g]

(* The listening sockets of a container do not overlap.                    *)
Overlap(s, t) == s.proto = t.proto /\ \E d \in Dst : Serves(s, d) /\ Serves(t, d)
Listening(S) == {s \in S : ~s.connected}
Compatible(S) == \A s, t \in Listening(S) : s # t => ~Overlap(s, t)

PickConnection ==
  \E S \in Container, c \in Client, p \in {"tcp", "udp"} :
    /\ Compatible(S)
    /\ in' = [kind |-> "connection", socks |-> S, client |-> c, proto |-> p]

Init == in = [kind |-> "none"]
Next == in.kind = "none" /\ (PickCommand \/ PickUser \/ PickConnection)
Spec == Init /\ [][Next]_in

----------------------------------------------------------------------------
(* Commands.                                                               *)

NoKeyTwice(env) == \A i, j \in DOMAIN env : env[i].key = env[j].key => i = j

(* An entry of the configuration wins over the image's, and the last one   *)
(* over earlier ones; every other variable is as in the image: mergeEnv    *)
(* replaces the first entry of a key, os/exec keeps the last.  An image    *)
(* that has a key twice is left out: its second entry would win.           *)
OverridesWin ==
  in.kind = "command" /\ NoKeyTwice(in.rt.env) =>
    \A k \in {kv.key : kv \in EnvEntry} :
      LET last == {i \in DOMAIN in.cfg.env :
                     in.cfg.env[i].key = k /\ \A j \in DOMAIN in.cfg.env : in.cfg.env[j].key = k => j <= i}
      IN  getenv(Merge(in.rt, in.cfg).env, k)
            = IF last = {} THEN getenv(in.rt.env, k)
              ELSE in.cfg.env[CHOOSE i \in last : TRUE].val

(* The program that is started, when it is named without a slash, is the   *)
(* one that the process itself would find with the PATH it is given:       *)
(* an executable file, with none of that name earlier on the PATH.         *)
FoundOnOwnPath ==
  in.kind = "command" /\ NoKeyTwice(in.rt.env) =>
    \A spec \in ToSet(Resolve(in.sys, Merge(in.rt, in.cfg))) :
      spec.argv[1].dir = NoDir =>
        LET path == getenv(spec.env, PATH) IN
        \E i \in DOMAIN path :
          /\ spec.path = [dir |-> path[i], name |-> spec.argv[1].name]
          /\ in.sys.fs[spec.path] = "exec"
          /\ \A j \in 1..(i - 1) :
               path[j] = NoDir \/ in.sys.fs[[dir |-> path[j], name |-> spec.argv[1].name]] # "exec"

(* Together: the process is the one configured, in what it is and in what  *)
(* it is told.                                                             *)
CommandAsConfigured == OverridesWin /\ FoundOnOwnPath

----------------------------------------------------------------------------
(* Users.                                                                  *)

Names(file, name, k, id) ==
  file.open = "ok" /\ \E i \in DOMAIN file.lines :
    LET l == file.lines[i] IN l.name = name /\ Len(l.ids) >= k /\ Value[l.ids[k]] = id

(* A process gets an id only because it was asked for: no user and no      *)
(* group at all, the number given, the one a line of that name holds, or   *)
(* group 0 for a user that is only a number.  A number that does not fit,  *)
(* a line that is malformed or a file that cannot be read never ends in    *)
(* another id, in particular not in root's.                                *)
IdsAsAsked ==
  in.kind = "user" =>
    LET ids == resolveUser(in.passwd, in.group, in.spec)
        s == in.spec IN
    ids # <<>> =>
      /\ s = NoUser \/ Value[s.user] = ids[1] \/ Names(in.passwd, s.user, 1, ids[1])
      /\ IF s.hasGroup
         THEN Value[s.group] = ids[2] \/ Names(in.group, s.group, 1, ids[2])
         ELSE \/ Names(in.passwd, s.user, 2, ids[2])
              \/ ids[2] = 0 /\ (s = NoUser \/ Value[s.user] = ids[1])

----------------------------------------------------------------------------
(* Connections.                                                            *)

Reported == scanProcNet(in.socks)

(* 127.0.0.0/8, ::1 and the wildcard addresses, also as mapped ones.       *)
IsLocal4(ip) == ip[1] = 127 \/ ip = Zero4
IsLocal(ip) ==
  IF Len(ip) = 4 THEN IsLocal4(ip)
  ELSE ip \in {Zero6, Loop6} \/ (SubSeq(ip, 1, 12) = MapPrefix /\ IsLocal4(SubSeq(ip, 13, 16)))

(* A scan finds every socket that listens on a loopback or a wildcard      *)
(* address, with that address, and no other, although the kernel prints    *)
(* addresses word by word in the machine's byte order.                     *)
ScanIsExact ==
  in.kind = "connection" =>
    Reported = {[stack |-> s.fam, proto |-> s.proto, addr |-> IPString(s.ip)] :
                  s \in {t \in Listening(in.socks) : IsLocal(t.ip)}}

(* The proxies that take the client's connection and let it through.       *)
Through ==
  {l \in Reported : /\ l.proto = in.proto /\ ~rejectsRemote(l, in.client.src)
                    /\ \E s \in StartProxyListen(l) : Serves(s, in.client.dst)}
Service == {s \in Listening(in.socks) : s.proto = in.proto /\ Serves(s, in.client.dst)}

(* What a proxy lets through comes from inside the container and reaches   *)
(* the very socket that would have answered in the owner's container, by   *)
(* way of a /connect that accepts the listen and of the address dialled    *)
(* for it; and no two proxies for one container's listens compete for a    *)
(* connection: sockets that coexist there have proxies that coexist here.  *)
ForwardedToService ==
  in.kind = "connection" =>
    /\ \A l \in Through : ~in.client.remote /\ connectReaches(l, Listening(in.socks)) = Service
    /\ \A l, m \in Reported : l # m =>
         \A s \in StartProxyListen(l), t \in StartProxyListen(m) : ~Overlap(s, t)

----------------------------------------------------------------------------
(* package.go:36-39 says that a service becomes reachable on localhost     *)
(* "just as if the two containers shared a network namespace": a local     *)
(* client that would be served there is let through here.                  *)
SameReach == in.kind = "connection" /\ ~in.client.remote /\ Service # {} => Through # {}
=============================================================================
