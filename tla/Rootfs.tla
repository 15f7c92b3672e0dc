------------------------------- MODULE Rootfs -------------------------------
(***************************************************************************)
(* Unpacking image layers onto the container's own root filesystem         *)
(* (internal/rootfs/extract.go), one tar entry at a time.                  *)
(*                                                                         *)
(* A path is the sequence of its components below the root, <<>>.  The     *)
(* root filesystem is a function from the paths to nodes; what a file      *)
(* holds is an element of Content, what a symbolic link holds is the path  *)
(* it leads to.  The kernel follows the links in the directories of a path *)
(* before an operation takes place, while ApplyLayer compares the path as  *)
(* it is written with what is protected.                                   *)
(*                                                                         *)
(* Ownership, modes, times and xattrs are left out; a hard link is a file  *)
(* with the content it links to; devices and fifos are files.              *)
(***************************************************************************)
EXTENDS SequencesExt

CONSTANTS
  Path,      \* the paths that may exist, the root excluded
  Content,   \* what a file may hold
  Peel,      \* peel's own binary
  Cut,       \* what is left of a file whose writing was interrupted
  MaxLinks   \* the links the kernel follows on one path

Root == <<>>
sbin == <<"sbin">>
init == <<"sbin", "init">>
peel == <<"peel">>
configJSON == <<"peel", "config.json">>
stateJSON == <<"peel", "state.json">>
stateTmp == <<"peel", "state.json.tmp">>
etc == <<"etc">>
resolvConf == <<"etc", "resolv.conf">>

ASSUME PathAssumption ==
  /\ Path \subseteq Seq(STRING) \ {Root}
  /\ {sbin, init, peel, configJSON, stateJSON, stateTmp, etc, resolvConf} \subseteq Path
  /\ \A p \in Path : Len(p) > 1 => Front(p) \in Path
ASSUME ContentAssumption == {Peel, Cut} \subseteq Content
ASSUME MaxLinksAssumption == MaxLinks \in Nat

None == [kind |-> "none"]
Dir == [kind |-> "dir"]
File(c) == [kind |-> "file", v |-> c]
Link(p) == [kind |-> "link", to |-> p]
Node == {None, Dir} \cup {File(c) : c \in Content} \cup {Link(p) : p \in Path \cup {Root}}

(* A tar entry: an opaque whiteout of a directory, the whiteout of a path, *)
(* a directory, a type that is not supported, a file or a link.  The name  *)
(* of a whiteout may leave nothing behind its prefix: then it is for the   *)
(* directory that holds it, be it the root.                                *)
Entry == [type : {"opaque", "whiteout"}, path : Path \cup {Root}]
         \cup [type : {"dir", "other"}, path : Path]
         \cup [type : {"file"}, path : Path, v : Content]
         \cup [type : {"link"}, path : Path, to : Path \cup {Root}]

Below(p) == {x \in Path : IsPrefix(p, x)}
Above(p) == {x \in Path : IsStrictPrefix(x, p)}
Child(d) == {x \in Path : Len(x) = Len(d) + 1 /\ IsPrefix(d, x)}

(* The LXD image: peel as /sbin/init, and /peel.                           *)
Pristine == [x \in Path |-> IF x \in {sbin, peel} THEN Dir
                            ELSE IF x = init THEN File(Peel) ELSE None]

IsTree(f) == \A x \in Path : f[x] # None => \A a \in Above(x) : f[a] = Dir

----------------------------------------------------------------------------
(* The kernel: where a path leads.                                         *)

Links(f) == [x \in {y \in Path : f[y].kind = "link"} |-> f[x].to]

(* One link on the way is followed: there is at most one that is a prefix  *)
(* of the path, as nothing lies below a link itself.                       *)
OnTheWay(links, p) == {a \in DOMAIN links : IsPrefix(a, p)}
Hop(links, p) ==
  IF OnTheWay(links, p) = {} THEN p
  ELSE LET at == CHOOSE a \in OnTheWay(links, p) : TRUE
       IN links[at] \o SubSeq(p, Len(at) + 1, Len(p))

Walk(links, p) ==
  LET hop[n \in 0..MaxLinks] == IF n = 0 THEN p ELSE Hop(links, hop[n - 1])
  IN IF OnTheWay(links, p) = {} THEN p ELSE hop[MaxLinks]

(* Where p leads, its last component followed too, or not.                 *)
Follow(f, p) == Walk(Links(f), p)
Locate(f, p) == IF p = Root THEN Root ELSE Follow(f, Front(p)) \o <<Last(p)>>

IsDir(f, p) == p = Root \/ (p \in Path /\ f[p] = Dir)

(* What is above p is a directory, or missing; a link that is left after   *)
(* MaxLinks of them is a loop.                                             *)
Room(f, p) == p \in Path /\ \A a \in Above(p) : f[a].kind \in {"none", "dir"}

(* MkdirAll follows a link to a directory, and fails at any other.         *)
Dangles(f, p) ==
  \E d \in Above(p) :
    LET l == Locate(f, d) IN l \in Path /\ f[l].kind = "link" /\ ~IsDir(f, Follow(f, d))

----------------------------------------------------------------------------
(* Operations, at the place a path leads to.                               *)

Put(f, p, n) == [x \in Path |-> IF x = p THEN n ELSE f[x]]
RemoveAll(f, p) == [x \in Path |-> IF x \in Below(p) THEN None ELSE f[x]]

(* MkdirAll of the parent of p.                                            *)
MkParents(f, p) == [x \in Path |-> IF x \in Above(p) /\ f[x] = None THEN Dir ELSE f[x]]

(* A file is created or overwritten, MkdirAll of its parent included.      *)
CanCreate(f, p) == Room(f, p) /\ f[p].kind \in {"none", "file"}
Create(f, p, c) == Put(MkParents(f, p), p, File(c))

----------------------------------------------------------------------------
(* ApplyLayer.                                                             *)

(* Mutant of isProtected: only /peel itself, not what is below it.         *)
isProtectedExact(rel) == rel \in {init, peel}

isProtected(rel) == rel = init \/ IsPrefix(peel, rel)
mustRemainDirs == {sbin, peel}

(* Entries for what is protected are passed over.                          *)
Skipped(e) ==
  \/ isProtected(e.path)
  \/ e.path \in mustRemainDirs /\ e.type \notin {"opaque", "dir"}

(* Where an entry is applied.                                              *)
Where(f, e) == IF e.type = "opaque" THEN Follow(f, e.path) ELSE Locate(f, e.path)

(* relDir is the directory as it is written, d where it is.                *)
clearDir(f, d, relDir) ==
  LET gone == {c \in Child(d) : ~isProtected(relDir \o <<Last(c)>>)}
  IN [x \in Path |-> IF \E c \in gone : x \in Below(c) THEN None ELSE f[x]]

(* Nodes of another type are removed first; an existing directory keeps    *)
(* what is in it.  Nothing takes the place of what an unsupported entry    *)
(* removed.                                                                *)
extractEntry(f, e, p) ==
  LET g == MkParents(f, p)
      h == RemoveAll(g, p)
  IN CASE e.type = "dir" -> IF g[p] = Dir THEN g ELSE Put(h, p, Dir)
       [] e.type = "other" -> h
       [] e.type = "file" -> Put(h, p, File(e.v))
       [] e.type = "link" -> Put(h, p, Link(e.to))

(* The errors that end the unpacking: a file where a directory is needed,  *)
(* a loop of links, a link to nowhere in the parents of what is written.   *)
(* The root itself cannot be removed, once all that is in it is.           *)
Fails(f, e) ==
  /\ ~Skipped(e)
  /\ LET p == Where(f, e) IN
       IF e.type = "opaque"
       THEN p # Root /\ (~Room(f, p) \/ f[p].kind \in {"file", "link"})
       ELSE ~Room(f, p) \/ (e.type # "whiteout" /\ Dangles(f, e.path))

ApplyEntry(f, e) ==
  LET p == Where(f, e) IN
  CASE Skipped(e) -> f
    [] ~Skipped(e) /\ e.type = "opaque" -> clearDir(f, p, e.path)
    [] ~Skipped(e) /\ e.type = "whiteout" -> RemoveAll(f, p)
    [] OTHER -> extractEntry(f, e, p)

(* What an interruption may leave of an entry: some of its changes to the  *)
(* tree, or its path removed, or its file cut short.  Of an entry that     *)
(* fails nothing is done, except that the root is emptied first.           *)
Interrupted(f, e) ==
  LET p == Where(f, e)
      r == IF Fails(f, e) /\ p # Root THEN f ELSE ApplyEntry(f, e)
      changed == {x \in Path : r[x] # f[x]}
      some == {[x \in Path |-> IF x \in s THEN r[x] ELSE f[x]] : s \in SUBSET changed}
      target == IF \/ e.type \in {"opaque", "whiteout"} \/ Skipped(e) \/ Fails(f, e)
                   \/ e.type = "dir" /\ r = f
                THEN {}
                ELSE {Put(r, p, None)}
                     \cup (IF e.type = "file" THEN {Put(r, p, File(Cut))} ELSE {})
  IN {g \in some \cup target : IsTree(g)}

(* Whether an entry is applied, through a link or to the root, to what     *)
(* would have been passed over had its name said so: isProtected looks at  *)
(* the name only, and clearDir at the names of direct children only.       *)
Reaches(f, e) ==
  LET p == Where(f, e) IN
  /\ ~Skipped(e)
  /\ \/ p = Root
     \/ isProtected(p)
     \/ p = sbin /\ (IF e.type = "opaque" THEN e.path # sbin ELSE e.type # "dir")
=============================================================================
