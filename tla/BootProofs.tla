----------------------------- MODULE BootProofs -----------------------------
(***************************************************************************)
(* Proofs about Boot, for every set of images.                             *)
(***************************************************************************)
EXTENDS Boot, SequenceTheorems, WellFoundedInduction, TLAPS

(* A prefix agrees with the path it is a prefix of.                        *)
LEMMA PrefixAgrees ==
  ASSUME NEW p \in Seq(STRING), NEW q \in Seq(STRING), IsPrefix(p, q)
  PROVE  Len(p) <= Len(q) /\ \A i \in 1..Len(p) : p[i] = q[i]
<1>1. Len(p) \in Nat /\ Len(q) \in Nat  OBVIOUS
<1>2. Len(p) <= Len(q)  BY DEF IsPrefix
<1>3. SubSeq(p, 1, Len(p)) = SubSeq(q, 1, Len(p))  BY DEF IsPrefix
<1>4. \A i \in 1..Len(p) : SubSeq(p, 1, Len(p))[i] = p[i]
  <2>1. \A i \in 1..Len(p) : p[i] \in STRING  OBVIOUS
  <2>2. \A i \in 1..(Len(p) - 1 + 1) : SubSeq(p, 1, Len(p))[i] = p[1 + i - 1]
    BY <1>1, <2>1, SubSeqProperties
  <2> QED  BY <1>1, <2>2
<1>5. \A i \in 1..Len(p) : SubSeq(q, 1, Len(p))[i] = q[i]
  <2>1. \A i \in 1..Len(p) : q[i] \in STRING  BY <1>1, <1>2
  <2>2. \A i \in 1..(Len(p) - 1 + 1) : SubSeq(q, 1, Len(p))[i] = q[1 + i - 1]
    BY <1>1, <2>1, SubSeqProperties
  <2> QED  BY <1>1, <2>2
<1> QED  BY <1>2, <1>3, <1>4, <1>5

(* And a path that agrees with a longer one is a prefix of it.             *)
LEMMA AgreesPrefix ==
  ASSUME NEW p \in Seq(STRING), NEW q \in Seq(STRING),
         Len(p) <= Len(q), \A i \in 1..Len(p) : p[i] = q[i]
  PROVE  IsPrefix(p, q)
<1> DEFINE s == SubSeq(p, 1, Len(p))
           t == SubSeq(q, 1, Len(p))
<1>1. Len(p) \in Nat /\ Len(q) \in Nat  OBVIOUS
<1>2. \A i \in 1..Len(p) : p[i] \in STRING /\ q[i] \in STRING  BY <1>1
<1>3. /\ s \in Seq(STRING) /\ Len(s) = Len(p)
      /\ \A i \in 1..(Len(p) - 1 + 1) : s[i] = p[1 + i - 1]
  BY <1>1, <1>2, SubSeqProperties
<1>4. /\ t \in Seq(STRING) /\ Len(t) = Len(p)
      /\ \A i \in 1..(Len(p) - 1 + 1) : t[i] = q[1 + i - 1]
  BY <1>1, <1>2, SubSeqProperties
<1>5. \A i \in 1..Len(s) : s[i] = t[i]  BY <1>1, <1>3, <1>4
<1>6. s = t
  <2> HIDE DEF s, t
  <2> QED  BY <1>3, <1>4, <1>5, SeqEqual
<1> QED  BY <1>6 DEF IsPrefix

(* The components of the paths that peel names.                            *)
LEMMA NamedPaths ==
  /\ sbin \in Path /\ Len(sbin) = 1 /\ sbin[1] = "sbin"
  /\ peel \in Path /\ Len(peel) = 1 /\ peel[1] = "peel"
  /\ init \in Path /\ Len(init) = 2 /\ init[1] = "sbin" /\ init[2] = "init"
  /\ configJSON \in Path /\ Len(configJSON) = 2 /\ configJSON[1] = "peel"
  /\ configJSON[2] = "config.json"
  /\ stateJSON \in Path /\ Len(stateJSON) = 2 /\ stateJSON[1] = "peel"
  /\ stateJSON[2] = "state.json"
  /\ stateTmp \in Path /\ Len(stateTmp) = 2 /\ stateTmp[1] = "peel"
  /\ stateTmp[2] = "state.json.tmp"
<1>1. {sbin, peel, init, configJSON, stateJSON, stateTmp} \subseteq Path  BY PathAssumption
<1>2. Len(sbin) = 1 /\ sbin[1] = "sbin"  BY DEF sbin
<1>3. Len(peel) = 1 /\ peel[1] = "peel"  BY DEF peel
<1>4. Len(init) = 2 /\ init[1] = "sbin" /\ init[2] = "init"  BY DEF init
<1>5. Len(configJSON) = 2 /\ configJSON[1] = "peel" /\ configJSON[2] = "config.json"  BY DEF configJSON
<1>6. Len(stateJSON) = 2 /\ stateJSON[1] = "peel" /\ stateJSON[2] = "state.json"  BY DEF stateJSON
<1>7. Len(stateTmp) = 2 /\ stateTmp[1] = "peel" /\ stateTmp[2] = "state.json.tmp"  BY DEF stateTmp
<1> QED  BY <1>1, <1>2, <1>3, <1>4, <1>5, <1>6, <1>7

(* A path is not empty.                                                    *)
LEMMA PathIsSeq ==
  ASSUME NEW p \in Path
  PROVE  p \in Seq(STRING) /\ Len(p) \in Nat \ {0} /\ p # Root
<1>1. p \in Seq(STRING) /\ p # Root  BY PathAssumption
<1>2. Len(p) # 0  BY <1>1, EmptySeq DEF Root
<1> QED  BY <1>1, <1>2

(* The paths at or below /peel are those whose first component is "peel".  *)
LEMMA BelowPeel ==
  ASSUME NEW p \in Path
  PROVE  IsPrefix(peel, p) <=> p[1] = "peel"
<1>1. p \in Seq(STRING) /\ Len(p) \in Nat \ {0}  BY PathIsSeq
<1>2. peel \in Seq(STRING) /\ Len(peel) = 1 /\ peel[1] = "peel"  BY NamedPaths, PathIsSeq
<1>3. ASSUME IsPrefix(peel, p) PROVE p[1] = "peel"
  <2>1. \A i \in 1..Len(peel) : peel[i] = p[i]  BY <1>1, <1>2, <1>3, PrefixAgrees
  <2> QED  BY <1>2, <2>1
<1>4. ASSUME p[1] = "peel" PROVE IsPrefix(peel, p)  BY <1>1, <1>2, <1>4, AgreesPrefix
<1> QED  BY <1>3, <1>4

(* The paths no layer may touch.                                           *)
Kept == Below(peel) \cup {sbin, init}
KeptIn(f) == \A x \in Kept : f[x] = Pristine[x]
Same(f, h) == \A x \in Kept : h[x] = f[x]

(* The kept paths are paths.                                               *)
LEMMA KeptPath == Kept \subseteq Path
BY NamedPaths DEF Kept, Below

(* Nothing but /sbin and protected paths lies above a kept path.           *)
LEMMA KeptPrefix ==
  ASSUME NEW x \in Kept, NEW p \in Path, IsPrefix(p, x)
  PROVE  isProtected(p) \/ (p = sbin /\ x \in {sbin, init})
<1>1. x \in Path  BY NamedPaths DEF Kept, Below
<1>2. /\ p \in Seq(STRING) /\ Len(p) \in Nat \ {0}
      /\ x \in Seq(STRING) /\ Len(x) \in Nat \ {0}
  BY <1>1, PathIsSeq
<1>3. Len(p) <= Len(x) /\ \A i \in 1..Len(p) : p[i] = x[i]  BY <1>2, PrefixAgrees
<1>4. p[1] = x[1]  BY <1>2, <1>3
<1>5. CASE x \in Below(peel)
  <2>1. p[1] = "peel"  BY <1>1, <1>4, <1>5, BelowPeel DEF Below
  <2> QED  BY <2>1, BelowPeel DEF isProtected
<1>6. CASE x \in {sbin, init} /\ Len(p) = 1
  <2>1. p[1] = "sbin" /\ sbin \in Seq(STRING)  BY <1>4, <1>6, NamedPaths, PathIsSeq
  <2>2. p = sbin  BY <1>2, <1>6, <2>1, NamedPaths, SeqEqual
  <2> QED  BY <1>6, <2>2
<1>7. CASE x \in {sbin, init} /\ Len(p) # 1
  <2> DEFINE n == Len(p)
  <2>1. n \in Nat /\ n # 0 /\ n # 1  BY <1>2, <1>7
  <2>2. n >= 2
    <3> HIDE DEF n
    <3> QED  BY <2>1
  <2>3. x = init /\ Len(p) = 2
    <3>1. CASE x = sbin  BY <1>2, <1>3, <2>2, <3>1, NamedPaths
    <3>2. CASE x = init  BY <1>2, <1>3, <2>2, <3>2, NamedPaths
    <3> QED  BY <1>7, <3>1, <3>2
  <2>4. p = init  BY <1>2, <1>3, <2>3, NamedPaths, SeqEqual
  <2> QED  BY <2>4 DEF isProtected
<1> QED  BY <1>5, <1>6, <1>7 DEF Kept

(* What lies below a kept path is protected, or below /sbin.               *)
LEMMA KeptAbove ==
  ASSUME NEW x \in Below(peel), NEW p \in Path, IsPrefix(x, p)
  PROVE  isProtected(p)
<1>1. x \in Path /\ x[1] = "peel"  BY BelowPeel DEF Below
<1>2. /\ p \in Seq(STRING) /\ x \in Seq(STRING) /\ Len(x) \in Nat \ {0}  BY <1>1, PathIsSeq
<1>3. \A i \in 1..Len(x) : x[i] = p[i]  BY <1>2, PrefixAgrees
<1>4. p[1] = "peel"  BY <1>1, <1>2, <1>3
<1> QED  BY <1>4, BelowPeel DEF isProtected

(* Creating the parents of an unprotected path leaves the kept paths.      *)
LEMMA ParentsKeep ==
  ASSUME NEW f, f[sbin] = Dir, f[init] = File(Peel), NEW p \in Path, ~isProtected(p)
  PROVE  Same(f, MkParents(f, p))
<1> SUFFICES ASSUME NEW x \in Kept PROVE MkParents(f, p)[x] = f[x]  BY DEF Same
<1>1. x \in Path  BY KeptPath
<1>2. ASSUME x \in Above(p), f[x] = None PROVE FALSE
  <2>1. None.kind = "none" /\ Dir.kind = "dir" /\ File(Peel).kind = "file"  BY DEF None, Dir, File
  <2>2. x \in Below(peel)  BY <1>2, <2>1 DEF Kept
  <2>3. IsPrefix(x, p)  BY <1>2 DEF Above, IsStrictPrefix
  <2> QED  BY <2>2, <2>3, KeptAbove
<1> QED  BY <1>1, <1>2 DEF MkParents

(* Removing an unprotected path other than /sbin leaves the kept paths.    *)
LEMMA RemoveKeeps ==
  ASSUME NEW f, NEW p \in Path, ~isProtected(p), p # sbin
  PROVE  Same(f, RemoveAll(f, p))
<1> SUFFICES ASSUME NEW x \in Kept PROVE RemoveAll(f, p)[x] = f[x]  BY DEF Same
<1>1. x \in Path  BY KeptPath
<1>2. x \notin Below(p)  BY KeptPrefix DEF Below
<1> QED  BY <1>1, <1>2 DEF RemoveAll

(* /sbin with init behind it is /sbin/init, and a child of that name has   *)
(* no other directory above it.                                            *)
LEMMA InitChild ==
  /\ sbin \o <<Last(init)>> = init
  /\ \A d \in Path : init \in Child(d) => d = sbin
<1>1. sbin \o <<Last(init)>> = init
  <2> DEFINE t == <<"init">>
             s == sbin \o t
  <2>1. Last(init) = "init"  BY NamedPaths DEF Last
  <2>2. /\ sbin \in Seq(STRING) /\ init \in Seq(STRING)
        /\ t \in Seq(STRING) /\ Len(t) = 1 /\ t[1] = "init"
    BY NamedPaths, PathIsSeq
  <2> HIDE DEF t
  <2>3. /\ s \in Seq(STRING) /\ Len(s) = Len(sbin) + Len(t)
        /\ \A k \in 1..(Len(sbin) + Len(t)) : s[k] = IF k <= Len(sbin) THEN sbin[k] ELSE t[k - Len(sbin)]
    BY <2>2, ConcatProperties
  <2> HIDE DEF s
  <2>4. Len(s) = 2 /\ s[1] = "sbin" /\ s[2] = "init"  BY <2>2, <2>3, NamedPaths
  <2>5. s = init  BY <2>2, <2>3, <2>4, NamedPaths, SeqEqual
  <2> QED  BY <2>1, <2>5 DEF s, t
<1>2. ASSUME NEW d \in Path, init \in Child(d) PROVE d = sbin
  <2>1. Len(init) = Len(d) + 1 /\ IsPrefix(d, init)  BY <1>2 DEF Child
  <2>2. /\ d \in Seq(STRING) /\ Len(d) \in Nat \ {0} /\ init \in Seq(STRING) /\ sbin \in Seq(STRING)
    BY NamedPaths, PathIsSeq
  <2>3. \A i \in 1..Len(d) : d[i] = init[i]  BY <2>1, <2>2, PrefixAgrees
  <2>4. Len(d) = 1
    <3> DEFINE n == Len(d)
    <3>1. n \in Nat /\ 2 = n + 1  BY <2>1, <2>2, NamedPaths
    <3>2. n = 1
      <4> HIDE DEF n
      <4> QED  BY <3>1
    <3> QED  BY <3>2
  <2>5. d[1] = "sbin"  BY <2>3, <2>4, NamedPaths
  <2> QED  BY <2>2, <2>4, <2>5, NamedPaths, SeqEqual
<1> QED  BY <1>1, <1>2

(* An opaque whiteout of an unprotected directory leaves the kept paths,   *)
(* if it is called by its name in the case of /sbin.                       *)
LEMMA ClearKeeps ==
  ASSUME NEW f, NEW d \in Path, ~isProtected(d), NEW relDir, d = sbin => relDir = sbin
  PROVE  Same(f, clearDir(f, d, relDir))
<1> SUFFICES ASSUME NEW x \in Kept PROVE clearDir(f, d, relDir)[x] = f[x]  BY DEF Same
<1>1. x \in Path  BY KeptPath
<1>2. ASSUME NEW c \in Child(d), ~isProtected(relDir \o <<Last(c)>>), x \in Below(c) PROVE FALSE
  <2>1. c \in Path /\ Len(c) = Len(d) + 1 /\ IsPrefix(d, c) /\ IsPrefix(c, x)
    BY <1>2 DEF Child, Below
  <2>2. c \in Seq(STRING) /\ d \in Seq(STRING) /\ Len(d) \in Nat \ {0}  BY <2>1, PathIsSeq
  <2>3. c # sbin
    <3> DEFINE n == Len(d)
    <3>1. n \in Nat \ {0} /\ Len(c) = n + 1 /\ Len(sbin) = 1  BY <2>1, <2>2, NamedPaths
    <3>2. n + 1 # 1
      <4> HIDE DEF n
      <4> QED  BY <3>1
    <3> QED  BY <3>1, <3>2
  <2>4. isProtected(c)  BY <2>1, <2>3, KeptPrefix
  <2>5. c # init
    <3> SUFFICES ASSUME c = init PROVE FALSE  OBVIOUS
    <3>1. d = sbin  BY <1>2, InitChild
    <3>2. relDir \o <<Last(c)>> = init  BY <3>1, InitChild
    <3> QED  BY <1>2, <3>2 DEF isProtected
  <2>6. c[1] = "peel"  BY <2>1, <2>4, <2>5, BelowPeel DEF isProtected
  <2>7. \A i \in 1..Len(d) : d[i] = c[i]  BY <2>1, <2>2, PrefixAgrees
  <2>8. d[1] = "peel"  BY <2>2, <2>6, <2>7
  <2> QED  BY <2>8, BelowPeel DEF isProtected
<1> QED  BY <1>1, <1>2 DEF clearDir

(* Neither does writing any other path.                                    *)
LEMMA PutKeeps ==
  ASSUME NEW f, NEW p, p \notin Kept, NEW n
  PROVE  Same(f, Put(f, p, n))
<1> SUFFICES ASSUME NEW x \in Kept PROVE Put(f, p, n)[x] = f[x]  BY DEF Same
<1>1. x \in Path /\ x # p  BY KeptPath
<1> QED  BY <1>1 DEF Put

(* Only /sbin is kept and not protected.                                   *)
LEMMA KeptProtected ==
  ASSUME NEW p \in Kept, p # sbin
  PROVE  isProtected(p)
BY DEF Kept, Below, isProtected

(* The operations on a root filesystem give one.                           *)
LEMMA OperationTypes ==
  ASSUME NEW f \in [Path -> Node], NEW p
  PROVE  /\ RemoveAll(f, p) \in [Path -> Node]
         /\ MkParents(f, p) \in [Path -> Node]
         /\ \A n \in Node : Put(f, p, n) \in [Path -> Node]
         /\ \A r : clearDir(f, p, r) \in [Path -> Node]
<1>1. None \in Node /\ Dir \in Node  BY DEF Node
<1>2. \A r : clearDir(f, p, r) \in [Path -> Node]  BY <1>1 DEF clearDir
<1> QED  BY <1>1, <1>2 DEF RemoveAll, MkParents, Put

(* Files and links are nodes, and a file that is created gives a root      *)
(* filesystem.                                                             *)
LEMMA FileNode ==
  /\ \A v \in Content : File(v) \in Node
  /\ \A p \in Path \cup {Root} : Link(p) \in Node
BY DEF Node

LEMMA CreateType ==
  ASSUME NEW f \in [Path -> Node], NEW p, NEW v \in Content
  PROVE  Create(f, p, v) \in [Path -> Node]
BY FileNode, OperationTypes DEF Create

(* What the fields of an entry are.                                        *)
LEMMA EntryFields ==
  ASSUME NEW e \in Entry
  PROVE  /\ e.type \in {"opaque", "whiteout", "dir", "other", "file", "link"}
         /\ e.type = "file" => File(e.v) \in Node
         /\ e.type = "link" => Link(e.to) \in Node
<1>1. CASE e \in [type : {"opaque", "whiteout"}, path : Path \cup {Root}]  BY <1>1
<1>2. CASE e \in [type : {"dir", "other"}, path : Path]  BY <1>2
<1>3. CASE e \in [type : {"file"}, path : Path, v : Content]
  <2>1. e.type = "file" /\ e.v \in Content  BY <1>3
  <2> QED  BY <2>1, FileNode
<1>4. CASE e \in [type : {"link"}, path : Path, to : Path \cup {Root}]
  <2>1. e.type = "link" /\ e.to \in Path \cup {Root}  BY <1>4
  <2> QED  BY <2>1, FileNode
<1> QED  BY <1>1, <1>2, <1>3, <1>4 DEF Entry

(* The node that an entry puts in place, if it does.                       *)
Written(e) == IF e.type = "dir" THEN Dir ELSE IF e.type = "file" THEN File(e.v) ELSE Link(e.to)
Extracts(e) == e.type \in {"dir", "other", "file", "link"}

(* The ways in which an entry is applied, at p.                            *)
LEMMA ApplyCases ==
  ASSUME NEW f, NEW e \in Entry
  PROVE  /\ Skipped(e) => ApplyEntry(f, e) = f
         /\ ~Skipped(e) /\ e.type = "opaque" => ApplyEntry(f, e) = clearDir(f, Where(f, e), e.path)
         /\ ~Skipped(e) /\ e.type = "whiteout" => ApplyEntry(f, e) = RemoveAll(f, Where(f, e))
         /\ ~Skipped(e) /\ Extracts(e) => ApplyEntry(f, e) = extractEntry(f, e, Where(f, e))
         /\ Skipped(e) \/ e.type \in {"opaque", "whiteout"} \/ Extracts(e)
<1>1. Skipped(e) => ApplyEntry(f, e) = f  BY DEF ApplyEntry
<1>2. ~Skipped(e) /\ e.type = "opaque" => ApplyEntry(f, e) = clearDir(f, Where(f, e), e.path)
  BY DEF ApplyEntry
<1>3. ~Skipped(e) /\ e.type = "whiteout" => ApplyEntry(f, e) = RemoveAll(f, Where(f, e))
  BY DEF ApplyEntry
<1>4. ~Skipped(e) /\ Extracts(e) => ApplyEntry(f, e) = extractEntry(f, e, Where(f, e))
  BY DEF ApplyEntry, Extracts
<1>5. e.type \in {"opaque", "whiteout"} \/ Extracts(e)  BY EntryFields DEF Extracts
<1> QED  BY <1>1, <1>2, <1>3, <1>4, <1>5

(* The ways in which a directory, file or link is extracted.               *)
LEMMA ExtractCases ==
  ASSUME NEW f, NEW e \in Entry, Extracts(e), NEW p
  PROVE  LET g == MkParents(f, p)
             h == RemoveAll(g, p)
         IN extractEntry(f, e, p) = IF e.type = "dir" /\ g[p] = Dir THEN g
                                    ELSE IF e.type = "other" THEN h
                                    ELSE Put(h, p, Written(e))
<1>1. CASE e.type = "dir"  BY <1>1 DEF extractEntry, Written
<1>2. CASE e.type = "other"  BY <1>2 DEF extractEntry
<1>3. CASE e.type = "file"  BY <1>3 DEF extractEntry, Written
<1>4. CASE e.type = "link"  BY <1>4 DEF extractEntry, Written
<1> QED  BY <1>1, <1>2, <1>3, <1>4 DEF Extracts

(* Applying an entry to a filesystem gives one.                            *)
LEMMA ApplyType ==
  ASSUME NEW f \in [Path -> Node], NEW e \in Entry
  PROVE  ApplyEntry(f, e) \in [Path -> Node]
<1> DEFINE p == Where(f, e)
<1> HIDE DEF p
<1>1. CASE Skipped(e)  BY <1>1, ApplyCases
<1>2. CASE ~Skipped(e) /\ e.type = "opaque"
  <2>1. ApplyEntry(f, e) = clearDir(f, p, e.path)  BY <1>2, ApplyCases DEF p
  <2>2. \A r : clearDir(f, p, r) \in [Path -> Node]  BY OperationTypes
  <2> QED  BY <2>1, <2>2
<1>3. CASE ~Skipped(e) /\ e.type = "whiteout"
  <2>1. ApplyEntry(f, e) = RemoveAll(f, p)  BY <1>3, ApplyCases DEF p
  <2> QED  BY <2>1, OperationTypes
<1>4. CASE ~Skipped(e) /\ Extracts(e)
  <2> DEFINE g == MkParents(f, p)
             h == RemoveAll(g, p)
  <2>1. ApplyEntry(f, e) = extractEntry(f, e, p)  BY <1>4, ApplyCases DEF p
  <2>2. g \in [Path -> Node]  BY OperationTypes
  <2>3. h \in [Path -> Node]  BY <2>2, OperationTypes
  <2>4. e.type # "other" => Written(e) \in Node
    BY <1>4, EntryFields DEF Written, Extracts, Node
  <2>5. e.type # "other" => Put(h, p, Written(e)) \in [Path -> Node]
    <3> HIDE DEF h
    <3> QED  BY <2>3, <2>4, OperationTypes
  <2>6. extractEntry(f, e, p) = IF e.type = "dir" /\ g[p] = Dir THEN g
                                ELSE IF e.type = "other" THEN h
                                ELSE Put(h, p, Written(e))
    BY <1>4, ExtractCases
  <2> HIDE DEF g, h
  <2> QED  BY <2>1, <2>2, <2>3, <2>5, <2>6
<1> QED  BY <1>1, <1>2, <1>3, <1>4, ApplyCases

----------------------------------------------------------------------------
(* No entry touches what peel protects, unless it reaches it.              *)

(* An entry that is applied, and reaches nothing protected, has its place. *)
LEMMA WhereInPath ==
  ASSUME NEW f, NEW e \in Entry, ~Skipped(e), ~Fails(f, e), ~Reaches(f, e)
  PROVE  Where(f, e) \in Path /\ (e.type # "opaque" => Room(f, Where(f, e)))
<1> DEFINE p == Where(f, e)
<1>1. p # Root  BY DEF Reaches
<1>2. Room(f, p)
  <2>1. CASE e.type = "opaque"  BY <1>1, <2>1 DEF Fails
  <2>2. CASE e.type # "opaque"  BY <1>1, <2>2 DEF Fails
  <2> QED  BY <2>1, <2>2
<1>3. p \in Path  BY <1>2 DEF Room
<1> QED  BY <1>2, <1>3

(* An entry that reaches nothing protected leaves the kept paths.          *)
LEMMA ApplyKeeps ==
  ASSUME NEW f, f[sbin] = Dir, f[init] = File(Peel), NEW e \in Entry,
         Skipped(e) \/ Where(f, e) \in Path, ~Reaches(f, e)
  PROVE  Same(f, ApplyEntry(f, e))
<1> DEFINE p == Where(f, e)
<1>0. ASSUME ~Skipped(e)
      PROVE  /\ p \in Path /\ ~isProtected(p)
             /\ p = sbin => IF e.type = "opaque" THEN e.path = sbin ELSE e.type = "dir"
  BY <1>0 DEF Reaches
<1> HIDE DEF p
<1>1. CASE Skipped(e)
  <2>1. ApplyEntry(f, e) = f  BY <1>1, ApplyCases
  <2> QED  BY <2>1 DEF Same
<1>2. CASE ~Skipped(e) /\ e.type = "opaque"
  <2>1. ApplyEntry(f, e) = clearDir(f, p, e.path)  BY <1>2, ApplyCases DEF p
  <2> QED  BY <1>0, <1>2, <2>1, ClearKeeps
<1>3. CASE ~Skipped(e) /\ e.type = "whiteout"
  <2>1. ApplyEntry(f, e) = RemoveAll(f, p)  BY <1>3, ApplyCases DEF p
  <2> QED  BY <1>0, <1>3, <2>1, RemoveKeeps
<1>4. CASE ~Skipped(e) /\ Extracts(e)
  <2> DEFINE g == MkParents(f, p)
             h == RemoveAll(g, p)
  <2>1. ApplyEntry(f, e) = extractEntry(f, e, p)  BY <1>4, ApplyCases DEF p
  <2>2. extractEntry(f, e, p) = IF e.type = "dir" /\ g[p] = Dir THEN g
                                ELSE IF e.type = "other" THEN h
                                ELSE Put(h, p, Written(e))
    BY <1>4, ExtractCases
  <2>3. p \in Path /\ ~isProtected(p) /\ (p = sbin => e.type = "dir")
    BY <1>0, <1>4 DEF Extracts
  <2>4. Same(f, g)  BY <2>3, ParentsKeep
  <2>5. g[sbin] = Dir  BY <2>4 DEF Same, Kept
  <2> HIDE DEF g
  <2>6. CASE p = sbin  BY <2>1, <2>2, <2>3, <2>4, <2>5, <2>6
  <2>7. CASE p # sbin
    <3>1. Same(g, h)  BY <2>3, <2>7, RemoveKeeps
    <3>2. p \notin Kept  BY <2>3, <2>7, KeptProtected
    <3> HIDE DEF h
    <3>3. Same(h, Put(h, p, Written(e)))  BY <3>2, PutKeeps
    <3> QED  BY <2>1, <2>2, <2>4, <3>1, <3>3 DEF Same
  <2> QED  BY <2>6, <2>7
<1> QED  BY <1>1, <1>2, <1>3, <1>4, ApplyCases

(* Nothing is above /sbin.                                                 *)
LEMMA AboveSbin == Above(sbin) = {}
<1> SUFFICES ASSUME NEW x \in Above(sbin) PROVE FALSE  OBVIOUS
<1>1. x \in Path /\ IsPrefix(x, sbin) /\ x # sbin  BY DEF Above, IsStrictPrefix
<1>2. x \in Seq(STRING) /\ sbin \in Seq(STRING) /\ Len(x) \in Nat \ {0}
  BY <1>1, NamedPaths, PathIsSeq
<1>3. Len(x) <= 1 /\ \A i \in 1..Len(x) : x[i] = sbin[i]  BY <1>1, <1>2, NamedPaths, PrefixAgrees
<1> DEFINE n == Len(x)
<1>4. n \in Nat \ {0} /\ n <= 1  BY <1>2, <1>3
<1>5. n = 1
  <2> HIDE DEF n
  <2> QED  BY <1>4
<1>6. x = sbin  BY <1>2, <1>3, <1>5, NamedPaths, SeqEqual
<1> QED  BY <1>1, <1>6

(* What an interrupted entry may leave.                                    *)
LEMMA InterruptedCases ==
  ASSUME NEW f, NEW e, NEW g \in Interrupted(f, e)
  PROVE  LET r == IF Fails(f, e) /\ Where(f, e) # Root THEN f ELSE ApplyEntry(f, e)
         IN /\ IsTree(g)
            /\ \/ \E s \in SUBSET Path : g = [x \in Path |-> IF x \in s THEN r[x] ELSE f[x]]
               \/ /\ ~Skipped(e) /\ e.type \notin {"opaque", "whiteout"} /\ ~Fails(f, e)
                  /\ ~(e.type = "dir" /\ r = f)
                  /\ \E n \in {None, File(Cut)} : g = Put(r, Where(f, e), n)
BY DEF Interrupted

(* Nor does an interrupted one touch them.                                 *)
LEMMA InterruptedKeeps ==
  ASSUME NEW f \in [Path -> Node], f[sbin] = Dir, f[init] = File(Peel), NEW e \in Entry,
         ~Reaches(f, e), NEW g \in Interrupted(f, e)
  PROVE  Same(f, g)
<1> DEFINE p == Where(f, e)
           r == IF Fails(f, e) /\ p # Root THEN f ELSE ApplyEntry(f, e)
<1>1. Same(f, r)
  <2>1. CASE Fails(f, e)
    <3>1. p # Root  BY <2>1 DEF Fails, Reaches
    <3> QED  BY <2>1, <3>1 DEF Same
  <2>2. CASE ~Fails(f, e)
    <3>1. Skipped(e) \/ p \in Path  BY <2>2, WhereInPath
    <3> QED  BY <2>2, <3>1, ApplyKeeps
  <2> QED  BY <2>1, <2>2
<1>2. ASSUME NEW s \in SUBSET Path, g = [x \in Path |-> IF x \in s THEN r[x] ELSE f[x]]
      PROVE  Same(f, g)
  <2> SUFFICES ASSUME NEW x \in Kept PROVE g[x] = f[x]  BY DEF Same
  <2>1. x \in Path  BY KeptPath
  <2>2. r[x] = f[x]  BY <1>1 DEF Same
  <2> HIDE DEF r
  <2> QED  BY <1>2, <2>1, <2>2
<1>3. ASSUME ~Skipped(e), e.type \notin {"opaque", "whiteout"}, ~Fails(f, e),
             ~(e.type = "dir" /\ r = f)
      PROVE  p \notin Kept
  <2>1. ~isProtected(p) /\ p \in Path  BY <1>3, WhereInPath DEF Reaches
  <2>2. ASSUME p = sbin PROVE FALSE
    <3>1. e.type = "dir"  BY <1>3, <2>2 DEF Reaches
    <3>2. MkParents(f, sbin) = f  BY AboveSbin DEF MkParents
    <3>3. ApplyEntry(f, e) = extractEntry(f, e, p)  BY <1>3, <3>1, ApplyCases DEF Extracts
    <3>4. extractEntry(f, e, p) = f  BY <2>2, <3>1, <3>2 DEF extractEntry
    <3>5. r = f  BY <1>3, <3>3, <3>4
    <3> QED  BY <1>3, <3>1, <3>5
  <2> QED  BY <2>1, <2>2, KeptProtected
<1>4. ASSUME NEW n, g = Put(r, p, n), ~Skipped(e), e.type \notin {"opaque", "whiteout"},
             ~Fails(f, e), ~(e.type = "dir" /\ r = f)
      PROVE  Same(f, g)
  <2>1. p \notin Kept  BY <1>3, <1>4
  <2> HIDE DEF r, p
  <2>2. Same(r, g)  BY <1>4, <2>1, PutKeeps
  <2> QED  BY <1>1, <2>2 DEF Same
<1>5. \/ \E s \in SUBSET Path : g = [x \in Path |-> IF x \in s THEN r[x] ELSE f[x]]
      \/ /\ ~Skipped(e) /\ e.type \notin {"opaque", "whiteout"} /\ ~Fails(f, e)
         /\ ~(e.type = "dir" /\ r = f)
         /\ \E n \in {None, File(Cut)} : g = Put(r, p, n)
  BY InterruptedCases
<1> HIDE DEF r, p
<1> QED  BY <1>2, <1>4, <1>5

(* What an interrupted entry leaves is a filesystem, and a tree.           *)
LEMMA InterruptedType ==
  ASSUME NEW f \in [Path -> Node], NEW e \in Entry, NEW g \in Interrupted(f, e)
  PROVE  g \in [Path -> Node] /\ IsTree(g)
<1> DEFINE p == Where(f, e)
           r == IF Fails(f, e) /\ p # Root THEN f ELSE ApplyEntry(f, e)
<1>1. r \in [Path -> Node]  BY ApplyType
<1>2. None \in Node /\ File(Cut) \in Node  BY ContentAssumption, FileNode DEF Node
<1>3. /\ IsTree(g)
      /\ \/ \E s \in SUBSET Path : g = [x \in Path |-> IF x \in s THEN r[x] ELSE f[x]]
         \/ \E n \in {None, File(Cut)} : g = Put(r, p, n)
  BY InterruptedCases
<1> HIDE DEF r, p
<1>4. \A n \in Node : Put(r, p, n) \in [Path -> Node]  BY <1>1, OperationTypes
<1> QED  BY <1>1, <1>2, <1>3, <1>4

----------------------------------------------------------------------------
(* What peel itself writes.                                                *)

OwnFiles == {configJSON, stateJSON, stateTmp}

(* Above peel's files there is /peel only, and none lies below another.    *)
LEMMA AboveOwn ==
  ASSUME NEW q \in OwnFiles, NEW a \in Above(q)
  PROVE  a = peel
<1>1. a \in Path /\ IsPrefix(a, q) /\ a # q  BY DEF Above, IsStrictPrefix
<1>2. q \in Path /\ Len(q) = 2 /\ q[1] = "peel"  BY NamedPaths DEF OwnFiles
<1>3. /\ a \in Seq(STRING) /\ Len(a) \in Nat \ {0} /\ q \in Seq(STRING) /\ peel \in Seq(STRING)
  BY <1>1, <1>2, NamedPaths, PathIsSeq
<1>4. Len(a) <= 2 /\ \A k \in 1..Len(a) : a[k] = q[k]  BY <1>1, <1>2, <1>3, PrefixAgrees
<1>5. Len(a) # 2  BY <1>1, <1>2, <1>3, <1>4, SeqEqual
<1>6. Len(a) = 1
  <2> DEFINE n == Len(a)
  <2>1. n \in Nat \ {0} /\ n <= 2 /\ n # 2  BY <1>3, <1>4, <1>5
  <2>2. n = 1
    <3> HIDE DEF n
    <3> QED  BY <2>1
  <2> QED  BY <2>2
<1>7. a[1] = "peel"  BY <1>2, <1>4, <1>6
<1> QED  BY <1>3, <1>6, <1>7, NamedPaths, SeqEqual

LEMMA BelowOwn ==
  ASSUME NEW q \in OwnFiles, NEW x \in Below(q), x # q
  PROVE  x \in Below(peel) \ OwnFiles /\ Pristine[x] = None
<1>1. x \in Path /\ IsPrefix(q, x)  BY DEF Below
<1>2. q \in Path /\ Len(q) = 2 /\ q[1] = "peel"  BY NamedPaths DEF OwnFiles
<1>3. x \in Seq(STRING) /\ Len(x) \in Nat /\ q \in Seq(STRING)  BY <1>1, <1>2, PathIsSeq
<1>4. 2 <= Len(x) /\ \A k \in 1..2 : q[k] = x[k]  BY <1>1, <1>2, <1>3, PrefixAgrees
<1>5. x[1] = "peel" /\ x[2] = q[2]  BY <1>2, <1>4
<1>6. x \in Below(peel)  BY <1>1, <1>5, BelowPeel DEF Below
<1>7. x \notin OwnFiles  BY <1>5, NamedPaths DEF OwnFiles
<1>8. x \notin {sbin, init, peel}  BY <1>3, <1>4, <1>5, NamedPaths
<1> QED  BY <1>1, <1>6, <1>7, <1>8 DEF Pristine

(* While /peel is there, creating one of them changes nothing else.        *)
LEMMA OwnCreate ==
  ASSUME NEW f, f[peel] = Dir, NEW q \in OwnFiles, NEW v
  PROVE  \A x \in Path : Create(f, q, v)[x] = IF x = q THEN File(v) ELSE f[x]
<1> DEFINE g == MkParents(f, q)
<1>1. \A x \in Path : g[x] = f[x]
  <2> SUFFICES ASSUME NEW x \in Path PROVE g[x] = f[x]  OBVIOUS
  <2>1. ASSUME x \in Above(q), f[x] = None PROVE FALSE  BY <2>1, AboveOwn DEF None, Dir
  <2> QED  BY <2>1 DEF MkParents
<1> HIDE DEF g
<1>2. \A x \in Path : Put(g, q, File(v))[x] = IF x = q THEN File(v) ELSE g[x]  BY DEF Put
<1> QED  BY <1>1, <1>2 DEF Create, g

(* What is intact, with the state file that of image i.                    *)
Intact(f, i) ==
  /\ f[sbin] = Dir /\ f[init] = File(Peel)
  /\ \A x \in Below(peel) \ OwnFiles : f[x] = Pristine[x]
  /\ f[stateJSON] = IF i = NoImage THEN None ELSE File(i)
  /\ f[configJSON].kind \in {"none", "file"} /\ f[stateTmp].kind \in {"none", "file"}

(* /peel itself is part of it.                                             *)
LEMMA IntactPeel ==
  ASSUME NEW f, NEW i, Intact(f, i)
  PROVE  f[peel] = Dir
<1>1. peel \in Below(peel)
  <2>1. peel \in Seq(STRING) /\ peel \in Path  BY NamedPaths, PathIsSeq
  <2> QED  BY <2>1, AgreesPrefix DEF Below
<1>2. peel \notin OwnFiles  BY NamedPaths DEF OwnFiles
<1>3. Pristine[peel] = Dir  BY NamedPaths DEF Pristine
<1> QED  BY <1>1, <1>2, <1>3 DEF Intact

(* The files that peel writes are kept paths.                              *)
LEMMA OwnKept ==
  /\ OwnFiles \subseteq Below(peel) /\ OwnFiles \subseteq Path
  /\ sbin \notin OwnFiles /\ init \notin OwnFiles
  /\ configJSON # stateJSON /\ configJSON # stateTmp /\ stateJSON # stateTmp
<1>1. \A q \in OwnFiles : q \in Path /\ q[1] = "peel"  BY NamedPaths DEF OwnFiles
<1>2. \A q \in OwnFiles : q \in Below(peel)  BY <1>1, BelowPeel DEF Below
<1>3. sbin \notin OwnFiles /\ init \notin OwnFiles  BY NamedPaths DEF OwnFiles
<1>4. configJSON # stateJSON /\ configJSON # stateTmp /\ stateJSON # stateTmp  BY NamedPaths
<1> QED  BY <1>1, <1>2, <1>3, <1>4

(* Intact stays what leaves the kept paths.                                *)
LEMMA IntactSame ==
  ASSUME NEW f, NEW i, Intact(f, i), NEW h, Same(f, h)
  PROVE  Intact(h, i)
<1>1. \A x \in Below(peel) \cup {sbin, init} : h[x] = f[x]  BY DEF Same, Kept
<1>2. {configJSON, stateJSON, stateTmp} \subseteq Below(peel)  BY OwnKept DEF OwnFiles
<1> QED  BY <1>1, <1>2 DEF Intact

(* The writes of Start, SaveTmp, Rename and DeleteConfig.                  *)
LEMMA IntactCreate ==
  ASSUME NEW f, NEW i, Intact(f, i), NEW v
  PROVE  /\ \A q \in {configJSON, stateTmp} : Intact(Create(f, q, v), i)
         /\ v # NoImage => Intact(Create(f, stateJSON, v), v)
<1>1. f[peel] = Dir  BY IntactPeel
<1>2. File(v).kind = "file"  BY DEF File
<1>3. /\ sbin \in Path /\ init \in Path /\ Below(peel) \subseteq Path
  BY NamedPaths DEF Below
<1>4. ASSUME NEW q \in OwnFiles, NEW h, h = Create(f, q, v)
      PROVE  /\ h[sbin] = Dir /\ h[init] = File(Peel)
             /\ \A x \in Below(peel) \ OwnFiles : h[x] = Pristine[x]
             /\ h[q] = File(v) /\ \A x \in OwnFiles \ {q} : h[x] = f[x]
  <2>1. \A x \in Path : h[x] = IF x = q THEN File(v) ELSE f[x]  BY <1>1, <1>4, OwnCreate
  <2>2. /\ h[sbin] = f[sbin] /\ h[init] = f[init]  BY <1>3, <2>1, OwnKept
  <2>3. \A x \in Below(peel) \ OwnFiles : h[x] = f[x]  BY <1>3, <2>1
  <2>4. h[q] = File(v) /\ \A x \in OwnFiles \ {q} : h[x] = f[x]  BY <2>1, OwnKept
  <2> QED  BY <2>2, <2>3, <2>4 DEF Intact
<1>5. ASSUME NEW q \in {configJSON, stateTmp} PROVE Intact(Create(f, q, v), i)
  <2> DEFINE h == Create(f, q, v)
  <2>1. /\ h[sbin] = Dir /\ h[init] = File(Peel)
        /\ \A x \in Below(peel) \ OwnFiles : h[x] = Pristine[x]
        /\ h[q] = File(v) /\ \A x \in OwnFiles \ {q} : h[x] = f[x]
    BY <1>4 DEF OwnFiles
  <2> HIDE DEF h
  <2>2. h[stateJSON] = f[stateJSON]  BY <2>1, OwnKept DEF OwnFiles
  <2>3. h[configJSON].kind \in {"none", "file"} /\ h[stateTmp].kind \in {"none", "file"}
    BY <1>2, <2>1, OwnKept DEF OwnFiles, Intact
  <2> QED  BY <2>1, <2>2, <2>3 DEF Intact, h
<1>6. ASSUME v # NoImage PROVE Intact(Create(f, stateJSON, v), v)
  <2> DEFINE h == Create(f, stateJSON, v)
  <2>1. /\ h[sbin] = Dir /\ h[init] = File(Peel)
        /\ \A x \in Below(peel) \ OwnFiles : h[x] = Pristine[x]
        /\ h[stateJSON] = File(v) /\ \A x \in OwnFiles \ {stateJSON} : h[x] = f[x]
    BY <1>4 DEF OwnFiles
  <2> HIDE DEF h
  <2>2. h[configJSON] = f[configJSON] /\ h[stateTmp] = f[stateTmp]  BY <2>1, OwnKept DEF OwnFiles
  <2> QED  BY <1>6, <2>1, <2>2 DEF Intact, h
<1> QED  BY <1>5, <1>6

LEMMA OwnRemove ==
  ASSUME NEW f, NEW i, Intact(f, i), NEW q \in OwnFiles
  PROVE  \A x \in Path : RemoveAll(f, q)[x] = IF x = q THEN None ELSE f[x]
<1> SUFFICES ASSUME NEW x \in Path PROVE RemoveAll(f, q)[x] = IF x = q THEN None ELSE f[x]  OBVIOUS
<1>1. q \in Below(q)
  <2>1. q \in Seq(STRING) /\ q \in Path  BY OwnKept, PathIsSeq
  <2> QED  BY <2>1, AgreesPrefix DEF Below
<1>2. CASE x \in Below(q) /\ x # q
  <2>1. f[x] = None  BY <1>2, BelowOwn DEF Intact
  <2> QED  BY <1>2, <2>1 DEF RemoveAll
<1>3. CASE x = q  BY <1>1, <1>3 DEF RemoveAll
<1>4. CASE x \notin Below(q)  BY <1>1, <1>4 DEF RemoveAll
<1> QED  BY <1>2, <1>3, <1>4

LEMMA IntactRemove ==
  ASSUME NEW f, NEW i, Intact(f, i), NEW q \in {configJSON, stateTmp}
  PROVE  Intact(RemoveAll(f, q), i)
<1> DEFINE h == RemoveAll(f, q)
<1>1. \A x \in Path : h[x] = IF x = q THEN None ELSE f[x]  BY OwnRemove DEF OwnFiles
<1> HIDE DEF h
<1>2. q \in OwnFiles /\ q # stateJSON  BY OwnKept DEF OwnFiles
<1>3. h[sbin] = f[sbin] /\ h[init] = f[init] /\ h[stateJSON] = f[stateJSON]
  BY <1>1, <1>2, OwnKept, NamedPaths
<1>4. \A x \in Below(peel) \ OwnFiles : h[x] = f[x]  BY <1>1, <1>2 DEF Below
<1>5. None.kind = "none"  BY DEF None
<1>6. h[configJSON].kind \in {"none", "file"} /\ h[stateTmp].kind \in {"none", "file"}
  BY <1>1, <1>5, NamedPaths DEF Intact
<1> QED  BY <1>3, <1>4, <1>6 DEF Intact, h

(* What writing resolv.conf, or being interrupted in it, makes of a root   *)
(* filesystem.                                                             *)
ResolvStep(f, g) ==
  CanWriteResolvConf(f) /\ (g = MkParents(f, Resolv(f)) \/ \E v \in Content : g = Create(f, Resolv(f), v))

(* It leaves the kept paths, unless resolv.conf has been led to one.       *)
LEMMA ResolvKeeps ==
  ASSUME NEW f, f[sbin] = Dir, f[init] = File(Peel), NEW h, ResolvStep(f, h), ~ResolvReaches(f)
  PROVE  Same(f, h)
<1> DEFINE q == Resolv(f)
           g == MkParents(f, q)
<1>1. /\ q \in Path /\ ~isProtected(q) /\ f[q].kind \in {"none", "file"}
  BY DEF ResolvStep, ResolvReaches, CanWriteResolvConf, CanCreate, Room
<1>2. q # sbin  BY <1>1 DEF Dir
<1>3. q \notin Kept  BY <1>1, <1>2, KeptProtected
<1> HIDE DEF q
<1>4. Same(f, g)  BY <1>1, ParentsKeep
<1> HIDE DEF g
<1>5. \A v : Same(g, Put(g, q, File(v)))  BY <1>3, PutKeeps
<1>6. h = g \/ \E v \in Content : h = Put(g, q, File(v))  BY DEF ResolvStep, Create, q, g
<1> QED  BY <1>4, <1>5, <1>6 DEF Same

(* It gives a root filesystem.                                             *)
LEMMA ResolvType ==
  ASSUME NEW f \in [Path -> Node], NEW h, ResolvStep(f, h)
  PROVE  h \in [Path -> Node]
BY OperationTypes, CreateType DEF ResolvStep

(* The steps of a boot in which it is written.                             *)
LEMMA ResolvActions ==
  ASSUME TypeOK, Configure \/ RestoreResolvConf
  PROVE  /\ ~reached' => ~reached
         /\ \/ fs' = fs
            \/ ResolvStep(fs, fs') /\ (~reached' => ~ResolvReaches(fs))
<1>1. ASSUME NEW s \in BOOLEAN, fs' = WriteResolvConf(fs, s), reached' = (reached \/ (s /\ ResolvReaches(fs)))
      PROVE  /\ ~reached' => ~reached
             /\ \/ fs' = fs
                \/ ResolvStep(fs, fs') /\ (~reached' => ~ResolvReaches(fs))
  <2>1. CASE s /\ CanWriteResolvConf(fs)
    <3>1. fs' = Create(fs, Resolv(fs), ByPeel)  BY <1>1, <2>1 DEF WriteResolvConf
    <3>2. ResolvStep(fs, fs')  BY <2>1, <3>1, ByPeelAssumption DEF ResolvStep
    <3> QED  BY <1>1, <2>1, <3>2
  <2>2. CASE ~(s /\ CanWriteResolvConf(fs))
    <3>1. fs' = fs  BY <1>1, <2>2 DEF WriteResolvConf
    <3> QED  BY <1>1, <3>1
  <2> QED  BY <2>1, <2>2
<1>2. CASE Configure
  <2>1. dns' \in BOOLEAN /\ fs' = WriteResolvConf(fs, dns') /\ reached' = (reached \/ (dns' /\ ResolvReaches(fs)))
    BY <1>2 DEF Configure
  <2> QED  BY <1>1, <2>1
<1>3. CASE RestoreResolvConf
  <2>1. dns \in BOOLEAN /\ fs' = WriteResolvConf(fs, dns) /\ reached' = (reached \/ (dns /\ ResolvReaches(fs)))
    BY <1>3 DEF RestoreResolvConf, TypeOK
  <2> QED  BY <1>1, <2>1
<1> QED  BY <1>2, <1>3

(* And the ways in which one ends.                                         *)
LEMMA StopCases ==
  ASSUME Stop
  PROVE  /\ ~reached' => ~reached
         /\ \/ /\ pc = "unpack" /\ pos < Len(Entries[img]) /\ fs' \in Interrupted(fs, NextEntry)
               /\ ~reached' => ~Reaches(fs, NextEntry)
            \/ pc # "unpack" /\ ResolvStep(fs, fs') /\ (~reached' => ~ResolvReaches(fs))
            \/ pc = "save" /\ CanCreate(fs, stateTmp) /\ fs' = Create(fs, stateTmp, Cut)
            \/ fs' = fs
<1>1. \A h \in InterruptedResolvConf(fs) : ResolvStep(fs, h)
  BY ContentAssumption DEF ResolvStep, InterruptedResolvConf
<1>2. CASE /\ pc = "unpack" /\ pos < Len(Entries[img])
           /\ fs' \in Interrupted(fs, NextEntry)
           /\ reached' = (reached \/ Reaches(fs, NextEntry))
  BY <1>2
<1>3. CASE /\ pc = "network" \/ (pc = "resolv" /\ dns)
           /\ fs' \in InterruptedResolvConf(fs)
           /\ reached' = (reached \/ ResolvReaches(fs))
  BY <1>1, <1>3
<1>4. CASE pc = "save" /\ CanCreate(fs, stateTmp) /\ fs' = Create(fs, stateTmp, Cut) /\ UNCHANGED reached
  BY <1>4
<1>5. CASE UNCHANGED <<fs, reached>>  BY <1>5
<1> QED  BY <1>2, <1>3, <1>4, <1>5 DEF Stop

----------------------------------------------------------------------------

(* The next entry is one.                                                  *)
LEMMA NextIsEntry ==
  ASSUME TypeOK, pos < Len(Entries[img])
  PROVE  NextEntry \in Entry
<1>1. Entries[img] \in Seq(Entry) /\ pos \in Nat  BY EntriesAssumption DEF TypeOK
<1>2. pos + 1 \in 1..Len(Entries[img])  BY <1>1
<1> QED  BY <1>1, <1>2 DEF NextEntry

(* The state is well typed.                                                *)
THEOREM TypeCorrect == Spec => []TypeOK
<1> USE EntriesAssumption
<1>1. Init => TypeOK
  <2> SUFFICES ASSUME Init PROVE TypeOK  OBVIOUS
  <2>1. Pristine \in [Path -> Node]
    <3>1. None \in Node /\ Dir \in Node /\ File(Peel) \in Node  BY ContentAssumption, FileNode DEF Node
    <3> QED  BY <3>1 DEF Pristine
  <2>2. Entries[img] \in Seq(Entry)  BY DEF Init
  <2>3. pos \in 0..Len(Entries[img])  BY <2>2 DEF Init
  <2> QED  BY <2>1, <2>3 DEF Init, TypeOK, Steps
<1>2. TypeOK /\ [Next]_vars => TypeOK'
  <2> SUFFICES ASSUME TypeOK, [Next]_vars PROVE TypeOK'  OBVIOUS
  <2>0. fs \in [Path -> Node] /\ img \in Content /\ conf \in Content /\ Cut \in Content
    BY ImageAssumption, ContentAssumption DEF TypeOK
  <2>1. ASSUME NEW i \in Image, SetImage(i) PROVE TypeOK'  BY <2>1 DEF SetImage, TypeOK
  <2>2. CASE Start
    <3>1. fs' \in [Path -> Node]  BY <2>0, <2>2, CreateType DEF Start
    <3> QED  BY <2>2, <3>1 DEF Start, TypeOK, Steps
  <2>3. CASE LoadConfig
    <3>1. img' \in Image /\ pos' = 0  BY <2>3 DEF LoadConfig
    <3>2. Entries[img'] \in Seq(Entry)  BY <3>1
    <3>3. pos' \in 0..Len(Entries[img'])  BY <3>1, <3>2
    <3> QED  BY <2>3, <3>1, <3>3 DEF LoadConfig, TypeOK, Steps
  <2>4. CASE Configure
    <3>1. fs' \in [Path -> Node]  BY <2>0, <2>4, ResolvActions, ResolvType
    <3>2. reached' \in BOOLEAN  BY <2>4 DEF Configure
    <3> QED  BY <2>4, <3>1, <3>2 DEF Configure, TypeOK, Steps
  <2>5. CASE LoadState  BY <2>5 DEF LoadState, TypeOK, Steps
  <2>6. CASE Pull  BY <2>6 DEF Pull, TypeOK, Steps
  <2>7. CASE Unpack
    <3>1. CASE pos < Len(Entries[img])
      <4>1. fs' = ApplyEntry(fs, NextEntry)  BY <2>7, <3>1 DEF Unpack
      <4>2. fs' \in [Path -> Node]  BY <2>0, <3>1, <4>1, NextIsEntry, ApplyType
      <4>3. Entries[img] \in Seq(Entry)  BY DEF TypeOK
      <4>4. pos' \in 0..Len(Entries[img])  BY <2>7, <3>1, <4>3 DEF Unpack, TypeOK
      <4>5. astray' \in BOOLEAN /\ reached' \in BOOLEAN  BY <2>7, <3>1 DEF Unpack
      <4>6. UNCHANGED <<pc, conf, img, dns, mixed, ready>>  BY <2>7, <3>1 DEF Unpack
      <4> QED  BY <4>2, <4>4, <4>5, <4>6 DEF TypeOK
    <3>2. CASE ~(pos < Len(Entries[img]))  BY <2>7, <3>2 DEF Unpack, TypeOK, Steps
    <3> QED  BY <3>1, <3>2
  <2>8. CASE SaveTmp
    <3>1. fs' \in [Path -> Node]  BY <2>0, <2>8, CreateType DEF SaveTmp
    <3> QED  BY <2>8, <3>1 DEF SaveTmp, TypeOK, Steps
  <2>9. CASE Rename
    <3>1. Create(fs, stateJSON, img) \in [Path -> Node]  BY <2>0, CreateType
    <3>2. fs' \in [Path -> Node]  BY <2>9, <3>1, OperationTypes DEF Rename
    <3> QED  BY <2>9, <3>2 DEF Rename, TypeOK, Steps
  <2>10. CASE DeleteConfig
    <3>1. fs' \in [Path -> Node]  BY <2>0, <2>10, OperationTypes DEF DeleteConfig
    <3> QED  BY <2>10, <3>1 DEF DeleteConfig, TypeOK, Steps
  <2>11. CASE RestoreResolvConf
    <3>1. fs' \in [Path -> Node]  BY <2>0, <2>11, ResolvActions, ResolvType
    <3>2. reached' \in BOOLEAN  BY <2>11 DEF RestoreResolvConf
    <3> QED  BY <2>11, <3>1, <3>2 DEF RestoreResolvConf, TypeOK, Steps
  <2>12. CASE Resolve  BY <2>12 DEF Resolve, TypeOK, Steps
  <2>13. CASE Stop
    <3>1. fs' \in [Path -> Node]
      <4>1. CASE pos < Len(Entries[img]) /\ fs' \in Interrupted(fs, NextEntry)
        BY <2>0, <4>1, NextIsEntry, InterruptedType
      <4>2. CASE ResolvStep(fs, fs')  BY <2>0, <4>2, ResolvType
      <4>3. CASE fs' = Create(fs, stateTmp, Cut)  BY <2>0, <4>3, CreateType
      <4> QED  BY <2>0, <2>13, <4>1, <4>2, <4>3, StopCases
    <3>2. reached' \in BOOLEAN  BY <2>13 DEF Stop, TypeOK
    <3> QED  BY <2>13, <3>1, <3>2 DEF Stop, TypeOK
  <2>14. CASE UNCHANGED vars  BY <2>14 DEF vars, TypeOK
  <2> QED  BY <2>1, <2>2, <2>3, <2>4, <2>5, <2>6, <2>7, <2>8, <2>9, <2>10, <2>11, <2>12, <2>13,
              <2>14 DEF Next
<1> QED  BY <1>1, <1>2, PTL DEF Spec

(* Peel and its state file are intact, and what it writes next to it is no *)
(* directory and no link, as long as nothing protected has been reached.   *)
PeelInv == ~reached => Intact(fs, ready)

(* No step changes that.                                                   *)
LEMMA PeelStep ==
  ASSUME TypeOK, PeelInv, [Next]_vars
  PROVE  PeelInv'
<1> SUFFICES ASSUME ~reached' PROVE Intact(fs', ready')  BY DEF PeelInv, Intact
<1>0. ASSUME ~reached PROVE Intact(fs, ready) /\ fs[sbin] = Dir /\ fs[init] = File(Peel)
  BY <1>0 DEF PeelInv, Intact
<1>1. ASSUME ~reached, UNCHANGED <<fs, ready>> PROVE Intact(fs', ready')  BY <1>0, <1>1
<1>2. CASE Start
  <2>1. ~reached /\ fs' = Create(fs, configJSON, conf) /\ ready' = ready  BY <1>2 DEF Start
  <2> QED  BY <1>0, <2>1, IntactCreate
<1>3. CASE Configure \/ RestoreResolvConf
  <2>1. ~reached /\ ready' = ready  BY <1>3, ResolvActions DEF Configure, RestoreResolvConf
  <2>2. CASE fs' = fs  BY <1>0, <2>1, <2>2
  <2>3. CASE fs' # fs
    <3>1. Same(fs, fs')  BY <1>0, <1>3, <2>1, <2>3, ResolvActions, ResolvKeeps
    <3> QED  BY <1>0, <2>1, <3>1, IntactSame
  <2> QED  BY <2>2, <2>3
<1>4. CASE Unpack
  <2>1. CASE pos < Len(Entries[img])
    <3>1. /\ ~Fails(fs, NextEntry) /\ fs' = ApplyEntry(fs, NextEntry) /\ ready' = ready
          /\ reached' = (reached \/ Reaches(fs, NextEntry))
      BY <1>4, <2>1 DEF Unpack
    <3>2. ~reached /\ ~Reaches(fs, NextEntry)  BY <3>1
    <3>3. NextEntry \in Entry  BY <2>1, NextIsEntry
    <3>4. Skipped(NextEntry) \/ Where(fs, NextEntry) \in Path  BY <3>1, <3>2, <3>3, WhereInPath
    <3>5. Same(fs, fs')  BY <1>0, <3>1, <3>2, <3>3, <3>4, ApplyKeeps
    <3> QED  BY <1>0, <3>1, <3>2, <3>5, IntactSame
  <2>2. CASE ~(pos < Len(Entries[img]))  BY <1>1, <1>4, <2>2 DEF Unpack
  <2> QED  BY <2>1, <2>2
<1>5. CASE SaveTmp
  <2>1. ~reached /\ fs' = Create(fs, stateTmp, img) /\ ready' = ready  BY <1>5 DEF SaveTmp
  <2> QED  BY <1>0, <2>1, IntactCreate
<1>6. CASE Rename
  <2>1. /\ ~reached /\ fs' = RemoveAll(Create(fs, stateJSON, img), stateTmp) /\ ready' = img
        /\ img # NoImage
    BY <1>6, ImageAssumption DEF Rename, TypeOK
  <2>2. Intact(Create(fs, stateJSON, img), img)  BY <1>0, <2>1, IntactCreate
  <2> QED  BY <2>1, <2>2, IntactRemove
<1>7. CASE DeleteConfig
  <2>1. ~reached /\ fs' \in {fs, RemoveAll(fs, configJSON)} /\ ready' = ready  BY <1>7 DEF DeleteConfig
  <2> QED  BY <1>0, <2>1, IntactRemove
<1>8. CASE Stop
  <2>1. ~reached /\ ready' = ready  BY <1>8, StopCases DEF Stop
  <2>2. CASE /\ pos < Len(Entries[img]) /\ fs' \in Interrupted(fs, NextEntry)
             /\ ~Reaches(fs, NextEntry)
    <3>1. Same(fs, fs')  BY <1>0, <2>1, <2>2, NextIsEntry, InterruptedKeeps DEF TypeOK
    <3> QED  BY <1>0, <2>1, <3>1, IntactSame
  <2>3. CASE ResolvStep(fs, fs') /\ ~ResolvReaches(fs)
    <3>1. Same(fs, fs')  BY <1>0, <2>1, <2>3, ResolvKeeps
    <3> QED  BY <1>0, <2>1, <3>1, IntactSame
  <2>4. CASE fs' = Create(fs, stateTmp, Cut)  BY <1>0, <2>1, <2>4, IntactCreate
  <2>5. CASE fs' = fs  BY <1>0, <2>1, <2>5
  <2> QED  BY <1>8, <2>2, <2>3, <2>4, <2>5, StopCases
<1>9. CASE LoadConfig \/ LoadState \/ Pull \/ Resolve
  BY <1>1, <1>9 DEF LoadConfig, LoadState, Pull, Resolve
<1>10. ASSUME NEW i \in Image, SetImage(i) PROVE Intact(fs', ready')  BY <1>1, <1>10 DEF SetImage
<1>11. CASE UNCHANGED vars  BY <1>1, <1>11 DEF vars
<1> QED  BY <1>2, <1>3, <1>4, <1>5, <1>6, <1>7, <1>8, <1>9, <1>10, <1>11 DEF Next

(* It is an invariant.                                                     *)
LEMMA PeelInvariant == Spec => []PeelInv
<1>1. Init => PeelInv
  <2> SUFFICES ASSUME Init PROVE Intact(Pristine, NoImage)  BY DEF Init, PeelInv
  <2>1. Pristine[sbin] = Dir /\ Pristine[init] = File(Peel)  BY NamedPaths DEF Pristine
  <2>2. \A q \in OwnFiles : Pristine[q] = None /\ None.kind = "none"
    BY NamedPaths DEF Pristine, OwnFiles, None
  <2> QED  BY <2>1, <2>2 DEF Intact, OwnFiles
<1>2. TypeOK /\ PeelInv /\ [Next]_vars => PeelInv'  BY PeelStep
<1> QED  BY <1>1, <1>2, TypeCorrect, PTL DEF Spec

(* Whatever images are configured, in whatever order and however often     *)
(* their unpacking is interrupted, no layer touches /sbin/init or anything *)
(* below /peel, unless it is led there by a link, or empties or removes    *)
(* the root or /sbin under another name: then reached has been recorded.   *)
THEOREM PeelIsKept == Spec => []PeelSurvives
<1>1. PeelInv => PeelSurvives
  BY DEF PeelInv, PeelSurvives, PeelIntact, Intact, OwnFiles, Recorded
<1> QED  BY <1>1, PeelInvariant, PTL

(* The state file always names the image of the last boot that got past    *)
(* ensureUnpacked, so that image is not pulled again.                      *)
THEOREM PulledOnce == Spec => []NoNeedlessPull
<1>1. Init => NoNeedlessPull  BY DEF Init, NoNeedlessPull
<1>2. TypeOK /\ PeelInv /\ NoNeedlessPull /\ [Next]_vars => NoNeedlessPull'
  <2> SUFFICES ASSUME TypeOK, PeelInv, NoNeedlessPull, [Next]_vars, ~reached',
                      pc' \in {"pull", "unpack", "save"}
               PROVE  img' # ready'
    BY DEF NoNeedlessPull
  <2>1. CASE Unpack
    <3>1. pc = "unpack" /\ UNCHANGED <<img, ready>>  BY <2>1 DEF Unpack
    <3>2. ~reached
      <4>1. CASE pos < Len(Entries[img])  BY <2>1, <4>1 DEF Unpack
      <4>2. CASE ~(pos < Len(Entries[img]))  BY <2>1, <4>2 DEF Unpack
      <4> QED  BY <4>1, <4>2
    <3> QED  BY <3>1, <3>2 DEF NoNeedlessPull
  <2>2. CASE LoadState
    <3>1. ~reached /\ Load(fs) # img /\ UNCHANGED <<img, ready>>  BY <2>2 DEF LoadState
    <3>2. img \in Image /\ img # NoImage  BY ImageAssumption DEF TypeOK
    <3>3. fs[stateJSON] = IF ready = NoImage THEN None ELSE File(ready)  BY <3>1 DEF PeelInv, Intact
    <3>4. ASSUME ready = img PROVE FALSE
      <4>1. fs[stateJSON] = File(img) /\ File(img).v = img  BY <3>2, <3>3, <3>4 DEF File
      <4>2. Load(fs) = img  BY <3>2, <4>1 DEF Load
      <4> QED  BY <3>1, <4>2
    <3> QED  BY <3>1, <3>4
  <2>3. CASE Pull  BY <2>3 DEF Pull, NoNeedlessPull
  <2>4. CASE Start \/ LoadConfig \/ Configure \/ SaveTmp \/ Rename
    BY <2>4 DEF Start, LoadConfig, Configure, SaveTmp, Rename
  <2>5. CASE DeleteConfig \/ RestoreResolvConf \/ Resolve \/ Stop
    BY <2>5 DEF DeleteConfig, RestoreResolvConf, Resolve, Stop
  <2>6. ASSUME NEW i \in Image, SetImage(i) PROVE img' # ready'  BY <2>6 DEF SetImage, NoNeedlessPull
  <2>7. CASE UNCHANGED vars  BY <2>7 DEF vars, NoNeedlessPull
  <2> QED  BY <2>1, <2>2, <2>3, <2>4, <2>5, <2>6, <2>7 DEF Next
<1> QED  BY <1>1, <1>2, TypeCorrect, PeelInvariant, PTL DEF Spec

----------------------------------------------------------------------------
(* What the state file says is true.                                       *)

WellFormed(f) == f \in [Path -> Node] /\ IsTree(f)

(* f has every file and link of g.                                         *)
Agrees(f, g) == \A x \in Path : g[x].kind \in {"file", "link"} => f[x] = g[x]

(* Image i is on the disk but for resolv.conf, and has no file of its own  *)
(* in the place of peel's.                                                 *)
Stands(f, i) == Holds(f, i) /\ KeptIn(Unpacked(i))

(* The root filesystem is a tree; while an image is unpacked, what is      *)
(* there has every file that unpacking it onto the LXD image would have    *)
(* given by now, and the state file is not believed; from Rename on it     *)
(* names the image of this boot.                                           *)
ReadyInv ==
  /\ IsTree(fs)
  /\ pc \in {"network", "state", "pull"} => pos = 0
  /\ pc = "unpack" /\ ~astray /\ ~reached => Agrees(fs, Stages(img)[pos]) /\ KeptIn(Stages(img)[pos])
  /\ pc \in {"save", "rename"} /\ ~astray /\ ~reached => Agrees(fs, Unpacked(img)) /\ KeptIn(Unpacked(img))
  /\ pc \in {"unpack", "save", "rename"} => mixed
  /\ pc \in {"delete", "resolv", "resolve", "running"} /\ ~reached => ready = img
  /\ ready \in Image /\ ~mixed /\ ~astray /\ ~reached => Stands(fs, ready)
  /\ ResolverReady

(* A nonempty set of numbers has a smallest element.                       *)
LEMMA Smallest ==
  ASSUME NEW S, S \subseteq Nat, S # {}
  PROVE  \E n \in S : \A m \in S : n <= m
<1> DEFINE R == OpToRel(<, Nat)
<1>1. PICK n \in S : \A m \in S : <<m, n>> \notin R
  <2>1. IsWellFoundedOn(R, Nat)  BY NatLessThanWellFounded
  <2> HIDE DEF R
  <2> QED  BY <2>1, WFMin
<1>2. \A m \in S : <<m, n>> \in R <=> m < n  BY DEF OpToRel
<1>3. \A m \in S : ~(m < n)
  <2> HIDE DEF R
  <2> QED  BY <1>1, <1>2
<1> QED  BY <1>3

(* Stages is the function its recursive definition describes: there is one *)
(* for every length, or else there would be a smallest length without.     *)
StagesTo(i, n, g) ==
  g = [k \in 0..n |-> IF k = 0 THEN Pristine ELSE ApplyEntry(g[k - 1], Entries[i][k])]

(* There is such a function for every n, by induction on n: for the        *)
(* smallest n without one, the one for n - 1 can be extended.              *)
LEMMA StagesExist ==
  ASSUME NEW i \in Image, NEW n \in Nat
  PROVE  \E g : StagesTo(i, n, g)
<1> DEFINE S == {m \in Nat : ~\E g : StagesTo(i, m, g)}
<1> SUFFICES ASSUME S # {} PROVE FALSE  OBVIOUS
<1>1. PICK m \in S : \A k \in S : m <= k
  <2> HIDE DEF S
  <2>1. S \in SUBSET Nat  BY DEF S
  <2> QED  BY <2>1, Smallest
<1>2. m # 0
  <2>1. StagesTo(i, 0, [k \in 0..0 |-> Pristine])  BY DEF StagesTo
  <2> QED  BY <2>1
<1>3. m - 1 \in Nat /\ m - 1 \notin S  BY <1>1, <1>2
<1>4. PICK g : StagesTo(i, m - 1, g)  BY <1>3
<1> DEFINE h == [k \in 0..m |-> IF k = m THEN ApplyEntry(g[m - 1], Entries[i][m]) ELSE g[k]]
<1>5. ASSUME NEW k \in 0..m
      PROVE  h[k] = IF k = 0 THEN Pristine ELSE ApplyEntry(h[k - 1], Entries[i][k])
  <2>1. CASE k = m
    <3>1. h[k] = ApplyEntry(g[m - 1], Entries[i][m])  BY <2>1
    <3>2. m - 1 \in 0..m /\ m - 1 # m  BY <1>3
    <3>3. h[m - 1] = g[m - 1]  BY <3>2
    <3> QED  BY <1>2, <2>1, <3>1, <3>3
  <2>2. CASE k # m
    <3>1. k \in 0..(m - 1)  BY <2>2, <1>3
    <3>2. g[k] = IF k = 0 THEN Pristine ELSE ApplyEntry(g[k - 1], Entries[i][k])
      BY <1>4, <3>1 DEF StagesTo
    <3>3. h[k] = g[k]  BY <2>2
    <3>4. k # 0 => h[k - 1] = g[k - 1]
      <4>1. k # 0 => k - 1 \in 0..m /\ k - 1 # m  BY <3>1, <1>3
      <4> QED  BY <4>1
    <3> QED  BY <3>2, <3>3, <3>4
  <2> QED  BY <2>1, <2>2
<1>6. h = [k \in 0..m |-> h[k]]  OBVIOUS
<1>7. StagesTo(i, m, h)
  <2> HIDE DEF h
  <2> QED  BY <1>5, <1>6 DEF StagesTo
<1> QED  BY <1>7

(* So Stages is one, although it is defined by recursion.                  *)
LEMMA StagesUnfold ==
  ASSUME NEW i \in Image
  PROVE  StagesTo(i, Len(Entries[i]), Stages(i))
<1>1. Len(Entries[i]) \in Nat  BY EntriesAssumption
<1>2. PICK g : StagesTo(i, Len(Entries[i]), g)  BY <1>1, StagesExist
<1>3. Stages(i) = CHOOSE h : StagesTo(i, Len(Entries[i]), h)  BY DEF Stages, StagesTo
<1> QED  BY <1>2, <1>3

(* The first stage is the LXD image, and each comes from the one before it.*)
LEMMA StagesStep ==
  ASSUME NEW i \in Image
  PROVE  /\ Stages(i)[0] = Pristine
         /\ \A n \in 0..(Len(Entries[i]) - 1) :
              Stages(i)[n + 1] = ApplyEntry(Stages(i)[n], Entries[i][n + 1])
<1> DEFINE L == Len(Entries[i])
           S == Stages(i)
<1>1. L \in Nat  BY EntriesAssumption
<1>2. S = [k \in 0..L |-> IF k = 0 THEN Pristine ELSE ApplyEntry(S[k - 1], Entries[i][k])]
  BY StagesUnfold DEF StagesTo
<1> HIDE DEF L, S
<1>3. S[0] = Pristine
  <2>1. 0 \in 0..L  BY <1>1
  <2> QED  BY <1>2, <2>1
<1>4. ASSUME NEW n \in 0..(L - 1) PROVE S[n + 1] = ApplyEntry(S[n], Entries[i][n + 1])
  <2>1. n + 1 \in 0..L /\ n + 1 # 0 /\ (n + 1) - 1 = n  BY <1>1
  <2>2. S[n + 1] = ApplyEntry(S[(n + 1) - 1], Entries[i][n + 1])  BY <1>2, <2>1
  <2> QED  BY <2>1, <2>2
<1> QED  BY <1>3, <1>4 DEF L, S

(* Being a prefix is an order on paths.                                    *)
LEMMA PrefixOrder ==
  ASSUME NEW p \in Path, NEW q \in Path
  PROVE  /\ IsPrefix(p, p)
         /\ IsPrefix(p, q) /\ IsPrefix(q, p) => p = q
         /\ \A x \in Path : IsPrefix(p, q) /\ IsPrefix(q, x) => IsPrefix(p, x)
<1>1. p \in Seq(STRING) /\ q \in Seq(STRING)  BY PathIsSeq
<1>2. IsPrefix(p, p)  BY <1>1, AgreesPrefix
<1>3. ASSUME IsPrefix(p, q), IsPrefix(q, p) PROVE p = q
  <2>1. /\ Len(p) <= Len(q) /\ Len(q) <= Len(p)
        /\ \A k \in 1..Len(p) : p[k] = q[k]
    BY <1>1, <1>3, PrefixAgrees
  <2>2. Len(p) = Len(q)  BY <1>1, <2>1
  <2> QED  BY <1>1, <2>1, <2>2, SeqEqual
<1>4. ASSUME NEW x \in Path, IsPrefix(p, q), IsPrefix(q, x) PROVE IsPrefix(p, x)
  <2>1. x \in Seq(STRING)  BY PathIsSeq
  <2>2. /\ Len(p) <= Len(q) /\ \A k \in 1..Len(p) : p[k] = q[k]
        /\ Len(q) <= Len(x) /\ \A k \in 1..Len(q) : q[k] = x[k]
    BY <1>1, <1>4, <2>1, PrefixAgrees
  <2>3. Len(p) \in Nat /\ Len(q) \in Nat /\ Len(x) \in Nat  BY <1>1, <2>1
  <2>4. Len(p) <= Len(x) /\ 1..Len(p) \subseteq 1..Len(q)  BY <2>2, <2>3
  <2>5. \A k \in 1..Len(p) : p[k] = x[k]  BY <2>2, <2>4
  <2> QED  BY <1>1, <2>1, <2>4, <2>5, AgreesPrefix
<1> QED  BY <1>2, <1>3, <1>4

(* What is above and below a path.                                         *)
LEMMA PathTree ==
  ASSUME NEW p \in Path
  PROVE  /\ p \in Below(p) /\ p \notin Above(p)
         /\ \A x \in Above(p) : x \in Path /\ x \notin Below(p) /\ Above(x) \subseteq Above(p)
         /\ \A x \in Below(p) : x # p => p \in Above(x)
         /\ \A x \in Path : \A a \in Above(x) : a \in Below(p) => x \in Below(p)
<1>1. p \in Below(p) /\ p \notin Above(p)  BY PrefixOrder DEF Below, Above, IsStrictPrefix
<1>2. ASSUME NEW x \in Above(p)
      PROVE  x \in Path /\ x \notin Below(p) /\ Above(x) \subseteq Above(p)
  <2>1. x \in Path /\ IsPrefix(x, p) /\ x # p  BY DEF Above, IsStrictPrefix
  <2>2. ~IsPrefix(p, x)  BY <2>1, PrefixOrder
  <2>3. ASSUME NEW a \in Above(x) PROVE a \in Above(p)
    <3>1. a \in Path /\ IsPrefix(a, x) /\ a # x  BY DEF Above, IsStrictPrefix
    <3>2. IsPrefix(a, p)  BY <2>1, <3>1, PrefixOrder
    <3>3. a # p  BY <2>1, <2>2, <3>1
    <3> QED  BY <3>1, <3>2, <3>3 DEF Above, IsStrictPrefix
  <2> QED  BY <2>1, <2>2, <2>3 DEF Below
<1>3. \A x \in Below(p) : x # p => p \in Above(x)  BY DEF Below, Above, IsStrictPrefix
<1>4. ASSUME NEW x \in Path, NEW a \in Above(x), a \in Below(p) PROVE x \in Below(p)
  <2>1. a \in Path /\ IsPrefix(a, x) /\ IsPrefix(p, a)  BY <1>4 DEF Below, Above, IsStrictPrefix
  <2>2. IsPrefix(p, x)  BY <2>1, PrefixOrder
  <2> QED  BY <2>2 DEF Below
<1> QED  BY <1>1, <1>2, <1>3, <1>4

(* The kinds of nodes.                                                     *)
LEMMA NodeKinds ==
  ASSUME NEW n \in Node
  PROVE  /\ n.kind \in {"none", "dir", "file", "link"}
         /\ n.kind = "none" <=> n = None
         /\ n.kind = "dir" <=> n = Dir
<1>1. None.kind = "none" /\ Dir.kind = "dir"  BY DEF None, Dir
<1>2. CASE n \in {None, Dir}  BY <1>1, <1>2
<1>3. CASE n \in {File(c) : c \in Content}
  <2>1. PICK c \in Content : n = File(c)  BY <1>3
  <2>2. n.kind = "file"  BY <2>1 DEF File
  <2> QED  BY <1>1, <2>2
<1>4. CASE n \in {Link(p) : p \in Path \cup {Root}}
  <2>1. PICK p \in Path \cup {Root} : n = Link(p)  BY <1>4
  <2>2. n.kind = "link"  BY <2>1 DEF Link
  <2> QED  BY <1>1, <2>2
<1> QED  BY <1>2, <1>3, <1>4 DEF Node

(* The operations give trees.                                              *)
LEMMA RemoveTree ==
  ASSUME NEW f \in [Path -> Node], IsTree(f), NEW p \in Path
  PROVE  IsTree(RemoveAll(f, p))
<1> SUFFICES ASSUME NEW x \in Path, RemoveAll(f, p)[x] # None, NEW a \in Above(x)
             PROVE  RemoveAll(f, p)[a] = Dir
  BY DEF IsTree
<1>1. x \notin Below(p) /\ f[x] # None /\ a \in Path  BY DEF RemoveAll, Above
<1>2. f[a] = Dir  BY <1>1 DEF IsTree
<1>3. a \notin Below(p)  BY <1>1, PathTree
<1> QED  BY <1>1, <1>2, <1>3 DEF RemoveAll

(* Clearing a directory leaves a tree.                                     *)
LEMMA ClearTree ==
  ASSUME NEW f \in [Path -> Node], IsTree(f), NEW d, NEW relDir
  PROVE  IsTree(clearDir(f, d, relDir))
<1> DEFINE gone(x) == \E c \in Child(d) : ~isProtected(relDir \o <<Last(c)>>) /\ x \in Below(c)
<1>0. \A x \in Path : clearDir(f, d, relDir)[x] = IF gone(x) THEN None ELSE f[x]
  BY DEF clearDir
<1> SUFFICES ASSUME NEW x \in Path, clearDir(f, d, relDir)[x] # None, NEW a \in Above(x)
             PROVE  clearDir(f, d, relDir)[a] = Dir
  BY DEF IsTree
<1>1. ~gone(x) /\ f[x] # None /\ a \in Path  BY <1>0 DEF Above
<1>2. f[a] = Dir  BY <1>1 DEF IsTree
<1>3. ~gone(a)
  <2> SUFFICES ASSUME NEW c \in Child(d), ~isProtected(relDir \o <<Last(c)>>), a \in Below(c)
               PROVE  FALSE
    OBVIOUS
  <2>1. c \in Path  BY DEF Child
  <2>2. x \in Below(c)  BY <2>1, PathTree
  <2> QED  BY <1>1, <2>2
<1> QED  BY <1>0, <1>1, <1>2, <1>3

(* Making the directories above a path leaves a tree, if nothing else is   *)
(* there.                                                                  *)
LEMMA ParentsTree ==
  ASSUME NEW f \in [Path -> Node], IsTree(f), NEW p \in Path,
         \A a \in Above(p) : f[a] \in {None, Dir}
  PROVE  IsTree(MkParents(f, p)) /\ \A a \in Above(p) : MkParents(f, p)[a] = Dir
<1>1. ASSUME NEW a \in Above(p) PROVE MkParents(f, p)[a] = Dir
  <2>1. a \in Path  BY DEF Above
  <2> QED  BY <2>1 DEF MkParents
<1>2. ASSUME NEW x \in Path, MkParents(f, p)[x] # None, NEW a \in Above(x)
      PROVE  MkParents(f, p)[a] = Dir
  <2>1. a \in Path  BY DEF Above
  <2>2. CASE x \in Above(p)  BY <1>1, <2>2, PathTree
  <2>3. CASE x \notin Above(p)
    <3>1. f[x] # None  BY <1>2, <2>3 DEF MkParents
    <3>2. f[a] = Dir /\ Dir # None  BY <3>1 DEF IsTree, Dir, None
    <3> QED  BY <2>1, <3>2 DEF MkParents
  <2> QED  BY <2>2, <2>3
<1> QED  BY <1>1, <1>2 DEF IsTree

(* A node put below directories, with nothing below it, leaves a tree.     *)
LEMMA PutTree ==
  ASSUME NEW f \in [Path -> Node], IsTree(f), NEW p \in Path, NEW n,
         \A a \in Above(p) : f[a] = Dir,
         \A x \in Below(p) : x # p => f[x] = None
  PROVE  IsTree(Put(f, p, n))
<1> SUFFICES ASSUME NEW x \in Path, Put(f, p, n)[x] # None, NEW a \in Above(x)
             PROVE  Put(f, p, n)[a] = Dir
  BY DEF IsTree
<1>1. a \in Path  BY DEF Above
<1>2. CASE x = p
  <2>1. a # p  BY <1>2, PathTree
  <2> QED  BY <1>1, <1>2, <2>1 DEF Put
<1>3. CASE x # p
  <2>1. f[x] # None  BY <1>3 DEF Put
  <2>2. x \notin Below(p)  BY <1>3, <2>1
  <2>3. a # p  BY <2>2, PathTree
  <2>4. f[a] = Dir  BY <2>1 DEF IsTree
  <2> QED  BY <1>1, <2>3, <2>4 DEF Put
<1> QED  BY <1>2, <1>3

(* Room for a path is directories above it, or nothing.                    *)
LEMMA RoomAbove ==
  ASSUME NEW f \in [Path -> Node], NEW p, Room(f, p)
  PROVE  p \in Path /\ \A a \in Above(p) : f[a] \in {None, Dir}
<1>1. p \in Path  BY DEF Room
<1>2. ASSUME NEW a \in Above(p) PROVE f[a] \in {None, Dir}
  <2>1. a \in Path /\ f[a].kind \in {"none", "dir"}  BY DEF Room, Above
  <2>2. f[a] \in Node  BY <2>1
  <2> QED  BY <2>1, <2>2, NodeKinds
<1> QED  BY <1>1, <1>2

(* An entry that does not fail leaves a tree.                              *)
LEMMA ApplyTree ==
  ASSUME NEW f \in [Path -> Node], IsTree(f), NEW e \in Entry, ~Fails(f, e)
  PROVE  IsTree(ApplyEntry(f, e))
<1> DEFINE p == Where(f, e)
<1>0. ~Skipped(e) /\ e.type # "opaque" => Room(f, p)  BY DEF Fails
<1> HIDE DEF p
<1>1. CASE Skipped(e)  BY <1>1, ApplyCases
<1>2. CASE ~Skipped(e) /\ e.type = "opaque"
  <2>1. ApplyEntry(f, e) = clearDir(f, p, e.path)  BY <1>2, ApplyCases DEF p
  <2>2. \A r : IsTree(clearDir(f, p, r))  BY ClearTree
  <2> QED  BY <2>1, <2>2
<1>3. CASE ~Skipped(e) /\ e.type = "whiteout"
  <2>1. ApplyEntry(f, e) = RemoveAll(f, p) /\ p \in Path  BY <1>0, <1>3, ApplyCases, RoomAbove DEF p
  <2> QED  BY <2>1, RemoveTree
<1>4. CASE ~Skipped(e) /\ Extracts(e)
  <2> DEFINE g == MkParents(f, p)
             h == RemoveAll(g, p)
  <2>1. ApplyEntry(f, e) = extractEntry(f, e, p)  BY <1>4, ApplyCases DEF p
  <2>2. p \in Path /\ \A a \in Above(p) : f[a] \in {None, Dir}
    BY <1>0, <1>4, RoomAbove DEF Extracts
  <2>3. g \in [Path -> Node]  BY OperationTypes
  <2>4. IsTree(g) /\ \A a \in Above(p) : g[a] = Dir  BY <2>2, ParentsTree
  <2>5. /\ h \in [Path -> Node] /\ IsTree(h)
        /\ \A a \in Above(p) : h[a] = Dir
        /\ \A x \in Below(p) : h[x] = None
    <3> HIDE DEF g
    <3>1. h \in [Path -> Node] /\ IsTree(h)  BY <2>2, <2>3, <2>4, OperationTypes, RemoveTree
    <3>2. \A a \in Above(p) : a \in Path /\ a \notin Below(p)  BY <2>2, PathTree
    <3>3. \A a \in Above(p) : h[a] = Dir  BY <2>4, <3>2 DEF RemoveAll
    <3>4. \A x \in Below(p) : h[x] = None  BY DEF RemoveAll, Below
    <3> QED  BY <3>1, <3>3, <3>4
  <2>6. \A n : IsTree(Put(h, p, n))
    <3> HIDE DEF h
    <3> QED  BY <2>2, <2>5, PutTree
  <2>7. extractEntry(f, e, p) \in {g, h, Put(h, p, Written(e))}  BY <1>4, ExtractCases
  <2> HIDE DEF g, h
  <2> QED  BY <2>1, <2>4, <2>5, <2>6, <2>7
<1> QED  BY <1>1, <1>2, <1>3, <1>4, ApplyCases

(* A file that can be created leaves a tree, and all links; only its own   *)
(* place changes of what is a file or a link.                              *)
LEMMA CreateTree ==
  ASSUME NEW f, WellFormed(f), NEW q, CanCreate(f, q), NEW v
  PROVE  IsTree(MkParents(f, q)) /\ IsTree(Create(f, q, v))
<1> DEFINE g == MkParents(f, q)
<1>0. f \in [Path -> Node] /\ IsTree(f)  BY DEF WellFormed
<1>1. q \in Path /\ \A a \in Above(q) : f[a] \in {None, Dir}  BY <1>0, RoomAbove DEF CanCreate
<1>2. g \in [Path -> Node]  BY <1>0, OperationTypes
<1>3. IsTree(g) /\ \A a \in Above(q) : g[a] = Dir  BY <1>0, <1>1, ParentsTree
<1>4. ASSUME NEW x \in Below(q), x # q PROVE g[x] = None
  <2>1. x \in Path /\ q \in Above(x)  BY <1>1, <1>4, PathTree DEF Below
  <2>2. f[q] # Dir  BY DEF CanCreate, Dir
  <2>3. f[x] = None  BY <1>0, <2>1, <2>2 DEF IsTree
  <2>4. x \notin Above(q)  BY <1>1, <1>4, PathTree
  <2> QED  BY <2>1, <2>3, <2>4 DEF MkParents
<1> HIDE DEF g
<1>5. IsTree(Put(g, q, File(v)))  BY <1>1, <1>2, <1>3, <1>4, PutTree
<1> QED  BY <1>3, <1>5 DEF Create, g

(* Links are what f[x] is a link at.                                       *)
LEMMA SameLinks ==
  ASSUME NEW f, NEW h, \A x \in Path : f[x].kind = "link" \/ h[x].kind = "link" => h[x] = f[x]
  PROVE  Links(h) = Links(f) /\ Resolv(h) = Resolv(f)
<1> DEFINE D == {y \in Path : f[y].kind = "link"}
           E == {y \in Path : h[y].kind = "link"}
<1>1. D = E  OBVIOUS
<1>2. \A x \in D : h[x].to = f[x].to  OBVIOUS
<1> HIDE DEF D, E
<1>3. [x \in E |-> h[x].to] = [x \in D |-> f[x].to]  BY <1>1, <1>2
<1>4. Links(h) = Links(f)  BY <1>3 DEF Links, D, E
<1> QED  BY <1>4 DEF Resolv, Follow

LEMMA CreateLinks ==
  ASSUME NEW f, NEW q, CanCreate(f, q), NEW v, NEW h \in {MkParents(f, q), Create(f, q, v)}
  PROVE  /\ Resolv(h) = Resolv(f)
         /\ \A x \in Path \ {q} : f[x].kind \in {"file", "link"} => h[x] = f[x]
<1> DEFINE g == MkParents(f, q)
<1>0. None.kind = "none" /\ Dir.kind = "dir" /\ File(v).kind = "file"  BY DEF None, Dir, File
<1>1. \A x \in Path : \/ g[x] = f[x]
                      \/ g[x] = Dir /\ f[x] = None
  BY DEF MkParents
<1>2. f[q].kind \in {"none", "file"}  BY DEF CanCreate
<1>3. \A x \in Path : h[x] = g[x] \/ (x = q /\ h[x] = File(v))  BY DEF Create, Put
<1> HIDE DEF g
<1>4. \A x \in Path : f[x].kind = "link" \/ h[x].kind = "link" => h[x] = f[x]
  BY <1>0, <1>1, <1>2, <1>3
<1>5. \A x \in Path \ {q} : f[x].kind \in {"file", "link"} => h[x] = f[x]  BY <1>0, <1>1, <1>3
<1> QED  BY <1>4, <1>5, SameLinks

(* Writing resolv.conf leaves a tree, and an image that stands.            *)
LEMMA ResolvStands ==
  ASSUME NEW f, WellFormed(f), NEW h, ResolvStep(f, h)
  PROVE  IsTree(h) /\ \A i : Stands(f, i) => Stands(h, i)
<1> DEFINE q == Resolv(f)
<1>1. CanCreate(f, q)  BY DEF ResolvStep, CanWriteResolvConf
<1>2. PICK v : h \in {MkParents(f, q), Create(f, q, v)}  BY DEF ResolvStep
<1> HIDE DEF q
<1>3. IsTree(h)  BY <1>1, <1>2, CreateTree
<1>4. Resolv(h) = q /\ \A x \in Path \ {q} : f[x].kind \in {"file", "link"} => h[x] = f[x]
  BY <1>1, <1>2, CreateLinks DEF q
<1>5. ASSUME NEW i, Holds(f, i) PROVE Holds(h, i)
  BY <1>4, <1>5 DEF Holds, q
<1> QED  BY <1>3, <1>5 DEF Stands

(* What is on a disk where peel is intact stays when peel writes its own   *)
(* files: h differs from f in these only, and has no link there.           *)
OwnStep(f, h) ==
  \A x \in Path : \/ h[x] = f[x]
                  \/ x \in OwnFiles /\ f[x].kind \in {"none", "file"} /\ h[x].kind \in {"none", "file"}

(* The state file is none, or a file.                                      *)
LEMMA IntactKinds ==
  ASSUME NEW f, NEW i, Intact(f, i)
  PROVE  \A q \in OwnFiles : f[q].kind \in {"none", "file"}
<1>1. f[stateJSON].kind \in {"none", "file"}  BY DEF Intact, None, File
<1> QED  BY <1>1 DEF OwnFiles, Intact

LEMMA OwnSteps ==
  ASSUME NEW f, NEW i, Intact(f, i), NEW q \in OwnFiles, NEW v
  PROVE  OwnStep(f, Create(f, q, v)) /\ OwnStep(f, RemoveAll(f, q))
<1>1. f[q].kind \in {"none", "file"} /\ File(v).kind = "file" /\ None.kind = "none"
  BY IntactKinds DEF File, None
<1>2. \A x \in Path : Create(f, q, v)[x] = IF x = q THEN File(v) ELSE f[x]
  BY IntactPeel, OwnCreate
<1>3. \A x \in Path : RemoveAll(f, q)[x] = IF x = q THEN None ELSE f[x]  BY OwnRemove
<1>4. OwnStep(f, Create(f, q, v))  BY <1>1, <1>2 DEF OwnStep
<1>5. OwnStep(f, RemoveAll(f, q))  BY <1>1, <1>3 DEF OwnStep
<1> QED  BY <1>4, <1>5

LEMMA OwnStands ==
  ASSUME NEW f, NEW h, OwnStep(f, h)
  PROVE  /\ \A i : Stands(f, i) => Stands(h, i)
         /\ \A g : KeptIn(g) /\ Agrees(f, g) => Agrees(h, g)
<1>1. \A x \in Path : f[x].kind = "link" \/ h[x].kind = "link" => h[x] = f[x]  BY DEF OwnStep
<1>2. Resolv(h) = Resolv(f)  BY <1>1, SameLinks
<1>3. ASSUME NEW g, KeptIn(g), NEW x \in Path, g[x].kind \in {"file", "link"} PROVE h[x] = f[x]
  <2>1. ASSUME x \in OwnFiles PROVE FALSE
    <3>1. x \in Kept /\ x \notin {sbin, peel, init}
      BY <2>1, OwnKept, NamedPaths DEF Kept, OwnFiles
    <3>2. g[x] = None  BY <1>3, <3>1 DEF KeptIn, Pristine
    <3> QED  BY <1>3, <3>2 DEF None
  <2> QED  BY <2>1 DEF OwnStep
<1>4. ASSUME NEW i, Stands(f, i) PROVE Stands(h, i)
  <2>1. KeptIn(Unpacked(i)) /\ Holds(f, i)  BY <1>4 DEF Stands
  <2>2. ASSUME NEW x \in Path, x # Resolv(h), Unpacked(i)[x].kind \in {"file", "link"}
        PROVE  h[x] = Unpacked(i)[x]
    <3>1. f[x] = Unpacked(i)[x]  BY <1>2, <2>1, <2>2 DEF Holds
    <3>2. h[x] = f[x]  BY <1>3, <2>1, <2>2
    <3> QED  BY <3>1, <3>2
  <2>3. Holds(h, i)  BY <2>2 DEF Holds
  <2> QED  BY <2>1, <2>3 DEF Stands
<1>5. ASSUME NEW g, KeptIn(g), Agrees(f, g) PROVE Agrees(h, g)  BY <1>3, <1>5 DEF Agrees
<1> QED  BY <1>4, <1>5

(* An entry leaves on what has every file of g at least the files it       *)
(* leaves on g, if it is for the same place.  The case that counts is a    *)
(* directory entry for what is a directory in g and is not in f, where it  *)
(* is replaced with all below it: g has no file there, as f, a tree, would *)
(* have it too.                                                            *)
LEMMA ApplyAgrees ==
  ASSUME NEW f, WellFormed(f), NEW g, Agrees(f, g), NEW e \in Entry,
         Skipped(e) \/ (Where(f, e) = Where(g, e) /\ Where(f, e) \in Path)
  PROVE  Agrees(ApplyEntry(f, e), ApplyEntry(g, e))
<1> DEFINE p == Where(f, e)
<1>0. None.kind = "none" /\ Dir.kind = "dir"  BY DEF None, Dir
<1>1. CASE Skipped(e)
  <2>1. ApplyEntry(f, e) = f /\ ApplyEntry(g, e) = g  BY <1>1, ApplyCases
  <2> QED  BY <2>1
<1>2. CASE ~Skipped(e) /\ e.type = "opaque"
  <2>1. ApplyEntry(f, e) = clearDir(f, p, e.path) /\ ApplyEntry(g, e) = clearDir(g, p, e.path)
    BY <1>2, ApplyCases
  <2> HIDE DEF p
  <2>2. Agrees(clearDir(f, p, e.path), clearDir(g, p, e.path))  BY <1>0 DEF Agrees, clearDir
  <2> QED  BY <2>1, <2>2
<1>3. CASE ~Skipped(e) /\ e.type = "whiteout"
  <2>1. ApplyEntry(f, e) = RemoveAll(f, p) /\ ApplyEntry(g, e) = RemoveAll(g, p)
    BY <1>3, ApplyCases
  <2> HIDE DEF p
  <2>2. Agrees(RemoveAll(f, p), RemoveAll(g, p))  BY <1>0 DEF Agrees, RemoveAll
  <2> QED  BY <2>1, <2>2
<1>4. CASE ~Skipped(e) /\ Extracts(e)
  <2> DEFINE pf == MkParents(f, p)
             pg == MkParents(g, p)
             rf == RemoveAll(pf, p)
             rg == RemoveAll(pg, p)
             node == Written(e)
             isDir(h) == e.type = "dir" /\ h[p] = Dir
             af == IF isDir(pf) THEN pf ELSE IF e.type = "other" THEN rf ELSE Put(rf, p, node)
             ag == IF isDir(pg) THEN pg ELSE IF e.type = "other" THEN rg ELSE Put(rg, p, node)
  <2>1. p \in Path  BY <1>4
  <2>2. ApplyEntry(f, e) = af /\ ApplyEntry(g, e) = ag
    <3>1. ApplyEntry(f, e) = extractEntry(f, e, p) /\ ApplyEntry(g, e) = extractEntry(g, e, p)
      BY <1>4, ApplyCases
    <3> HIDE DEF p
    <3>2. extractEntry(f, e, p) = af /\ extractEntry(g, e, p) = ag  BY <1>4, ExtractCases
    <3> QED  BY <3>1, <3>2
  <2> HIDE DEF p
  <2>3. ASSUME NEW x \in Path, pg[x].kind \in {"file", "link"} PROVE g[x] = pg[x] /\ pf[x] = pg[x]
    <3>1. g[x] = pg[x]  BY <1>0, <2>3 DEF MkParents
    <3>2. f[x] = g[x] /\ f[x] # None  BY <1>0, <2>3, <3>1 DEF Agrees
    <3>3. pf[x] = f[x]  BY <3>2 DEF MkParents
    <3> QED  BY <3>1, <3>2, <3>3
  <2>4. \A x \in Path : /\ rf[x] = IF x \in Below(p) THEN None ELSE pf[x]
                        /\ rg[x] = IF x \in Below(p) THEN None ELSE pg[x]
    <3> HIDE DEF pf, pg
    <3> QED  BY DEF RemoveAll
  <2>5. \A x \in Path : /\ Put(rf, p, node)[x] = IF x = p THEN node ELSE rf[x]
                        /\ Put(rg, p, node)[x] = IF x = p THEN node ELSE rg[x]
    <3> HIDE DEF rf, rg, node
    <3> QED  BY DEF Put
  <2>6. ASSUME isDir(pg), ~isDir(pf), NEW x \in Below(p), pg[x].kind \in {"file", "link"} PROVE FALSE
    <3>1. x \in Path /\ x # p  BY <1>0, <2>6 DEF Below
    <3>2. p \in Above(x)  BY <2>1, <2>6, <3>1, PathTree
    <3>3. g[x] = pg[x]  BY <2>3, <2>6, <3>1
    <3>4. f[x] = g[x] /\ f[x] # None  BY <1>0, <2>6, <3>1, <3>3 DEF Agrees
    <3>5. f[p] = Dir  BY <3>1, <3>2, <3>4 DEF WellFormed, IsTree
    <3>6. pf[p] = Dir  BY <1>0, <2>1, <3>5 DEF MkParents
    <3> QED  BY <2>6, <3>6
  <2>7. p \in Below(p)  BY <2>1, PathTree
  <2>8. ASSUME NEW x \in Path, ag[x].kind \in {"file", "link"} PROVE af[x] = ag[x]
    <3> HIDE DEF pf, pg
    <3>1. CASE isDir(pg) /\ isDir(pf)  BY <2>3, <2>8, <3>1
    <3>2. CASE isDir(pg) /\ ~isDir(pf)
      <4>1. pg[x].kind \in {"file", "link"} /\ ag[x] = pg[x]  BY <2>8, <3>2
      <4>2. x \notin Below(p)  BY <2>6, <3>2, <4>1
      <4>3. x # p  BY <2>7, <4>2
      <4>4. rf[x] = pf[x]  BY <2>4, <4>2
      <4>5. e.type = "dir" /\ af = Put(rf, p, node)  BY <3>2
      <4> HIDE DEF rf, rg, node, af, ag
      <4> QED  BY <2>3, <2>5, <4>1, <4>3, <4>4, <4>5
    <3>3. CASE ~isDir(pg)
      <4>1. CASE x = p
        <5>1. e.type # "other" /\ ag[x] = node
          <6>1. CASE e.type = "other"
            <7>1. ag = rg  BY <3>3, <6>1
            <7>2. rg[x] = None  BY <2>4, <2>7, <4>1
            <7> HIDE DEF rg, ag
            <7> QED  BY <1>0, <2>8, <7>1, <7>2
          <6>2. CASE e.type # "other"
            <7>1. ag = Put(rg, p, node)  BY <3>3, <6>2
            <7> HIDE DEF rg, rf, ag, node
            <7> QED  BY <2>5, <4>1, <6>2, <7>1
          <6> QED  BY <6>1, <6>2
        <5>2. e.type # "dir"  BY <1>0, <2>8, <5>1 DEF Written
        <5>3. af = Put(rf, p, node)  BY <5>1, <5>2
        <5> HIDE DEF rf, rg, node, af, ag
        <5> QED  BY <2>5, <4>1, <5>1, <5>3
      <4>2. CASE x # p
        <5>1. ag[x] = rg[x]
          <6>1. ag = rg \/ ag = Put(rg, p, node)  BY <3>3
          <6> HIDE DEF rf, rg, node, ag
          <6> QED  BY <2>5, <4>2, <6>1
        <5>2. x \notin Below(p) /\ pg[x] = rg[x]
          <6> HIDE DEF rf, rg, ag
          <6> QED  BY <1>0, <2>4, <2>8, <5>1
        <5>3. pf[x] = pg[x]  BY <2>3, <2>8, <5>1, <5>2
        <5>4. rf[x] = pf[x]  BY <2>4, <5>2
        <5>5. af = pf \/ af = rf \/ af = Put(rf, p, node)  OBVIOUS
        <5> HIDE DEF rf, rg, node, af, ag
        <5> QED  BY <2>5, <4>2, <5>1, <5>2, <5>3, <5>4, <5>5
      <4> QED  BY <4>1, <4>2
    <3> QED  BY <3>1, <3>2, <3>3
  <2> HIDE DEF af, ag
  <2> QED  BY <2>2, <2>8 DEF Agrees
<1> QED  BY <1>1, <1>2, <1>3, <1>4, ApplyCases

(* The unpacking of an image keeps what Agrees and KeptIn say of it.       *)
LEMMA UnpackAgrees ==
  ASSUME NEW f, WellFormed(f), f[sbin] = Dir, f[init] = File(Peel), NEW g, Agrees(f, g), KeptIn(g),
         NEW e \in Entry, ~Fails(f, e), ~Reaches(f, e), Skipped(e) \/ Where(f, e) = Where(g, e)
  PROVE  Agrees(ApplyEntry(f, e), ApplyEntry(g, e)) /\ KeptIn(ApplyEntry(g, e))
<1>1. Skipped(e) \/ (Where(f, e) = Where(g, e) /\ Where(f, e) \in Path)  BY WhereInPath
<1>2. g[sbin] = Dir /\ g[init] = File(Peel)  BY NamedPaths DEF KeptIn, Kept, Pristine
<1>3. Skipped(e) \/ Where(g, e) \in Path  BY <1>1
<1>4. ~Reaches(g, e)
  <2>1. CASE Skipped(e)  BY <2>1 DEF Reaches
  <2>2. CASE Where(f, e) = Where(g, e)  BY <2>2 DEF Reaches
  <2> QED  BY <2>1, <2>2
<1>5. Same(g, ApplyEntry(g, e))  BY <1>2, <1>3, <1>4, ApplyKeeps
<1>6. KeptIn(ApplyEntry(g, e))  BY <1>5 DEF Same, KeptIn
<1> QED  BY <1>1, <1>6, ApplyAgrees

(* Once a boot is to write it, resolv.conf is peel's, or cannot be.        *)
LEMMA RestoredIsReady ==
  ASSUME TypeOK, RestoreResolvConf
  PROVE  ResolverReady'
<1> SUFFICES ASSUME dns, CanWriteResolvConf(fs') PROVE fs'[Resolv(fs')] = File(ByPeel)
  BY DEF RestoreResolvConf, ResolverReady
<1>1. fs' = WriteResolvConf(fs, dns)  BY DEF RestoreResolvConf
<1>2. CanWriteResolvConf(fs)
  <2>1. ASSUME ~CanWriteResolvConf(fs) PROVE FALSE
    <3>1. fs' = fs  BY <1>1, <2>1 DEF WriteResolvConf
    <3> QED  BY <2>1, <3>1
  <2> QED  BY <2>1
<1> DEFINE q == Resolv(fs)
<1>3. fs' = Create(fs, q, ByPeel) /\ CanCreate(fs, q)
  BY <1>1, <1>2 DEF WriteResolvConf, CanWriteResolvConf
<1> HIDE DEF q
<1>4. Resolv(Create(fs, q, ByPeel)) = q  BY <1>3, CreateLinks DEF q
<1>5. q \in Path  BY <1>3 DEF CanCreate, Room
<1>6. Create(fs, q, ByPeel)[q] = File(ByPeel)  BY <1>5 DEF Create, Put
<1> QED  BY <1>3, <1>4, <1>6

(* The invariant is inductive.                                             *)
LEMMA ReadyStep ==
  ASSUME TypeOK, PeelInv, ReadyInv, [Next]_vars
  PROVE  ReadyInv'
<1>0. /\ img \in Image /\ Entries[img] \in Seq(Entry) /\ WellFormed(fs)
      /\ pos \in 0..Len(Entries[img]) /\ Len(Entries[img]) \in Nat
  BY EntriesAssumption DEF TypeOK, ReadyInv, WellFormed
<1>1. ASSUME ~reached
      PROVE  /\ Intact(fs, ready) /\ fs[sbin] = Dir /\ fs[init] = File(Peel)
             /\ ready \in Image => fs[stateJSON] = File(ready)
             /\ ready \notin Image => fs[stateJSON] = None
  BY <1>1, ImageAssumption DEF PeelInv, Intact, TypeOK
<1>2. ASSUME NEW i \in Image, SetImage(i) PROVE ReadyInv'
  BY <1>2 DEF SetImage, ReadyInv, ResolverReady
<1>3. CASE Start
  <2>1. CanCreate(fs, configJSON) /\ fs' = Create(fs, configJSON, conf)  BY <1>3 DEF Start
  <2>2. IsTree(fs')  BY <1>0, <2>1, CreateTree
  <2>3. ASSUME ~reached PROVE \A i : Stands(fs, i) => Stands(fs', i)
    <3>1. OwnStep(fs, fs')  BY <1>1, <2>1, <2>3, OwnSteps DEF OwnFiles
    <3> QED  BY <3>1, OwnStands
  <2> QED  BY <1>3, <2>2, <2>3 DEF Start, ReadyInv, ResolverReady
<1>4. CASE LoadConfig  BY <1>4 DEF LoadConfig, ReadyInv, ResolverReady
<1>5. CASE Configure
  <2>1. IsTree(fs') /\ (\A i : Stands(fs, i) => Stands(fs', i)) /\ (~reached' => ~reached)
    BY <1>0, <1>5, ResolvActions, ResolvStands DEF WellFormed
  <2> QED  BY <1>5, <2>1 DEF Configure, ReadyInv, ResolverReady
<1>6. CASE LoadState
  <2>1. ASSUME ~reached, Load(fs) = img PROVE ready = img
    <3>1. img # NoImage  BY <1>0, ImageAssumption
    <3>2. PICK i \in Image : fs[stateJSON] = File(i)  BY <2>1, <3>1 DEF Load
    <3>3. File(i).kind = "file" /\ None.kind = "none"  BY DEF File, None
    <3>4. ready \in Image  BY <1>1, <2>1, <3>2, <3>3
    <3>5. Load(fs) = File(ready).v  BY <1>1, <2>1, <3>2, <3>4 DEF Load
    <3> QED  BY <2>1, <3>5 DEF File
  <2> QED  BY <1>6, <2>1 DEF LoadState, ReadyInv, ResolverReady
<1>7. CASE Pull
  <2>1. pos = 0 /\ fs' = fs /\ pos' = pos /\ img' = img  BY <1>7 DEF Pull, ReadyInv
  <2>2. Stages(img)[pos] = Pristine  BY <1>0, <2>1, StagesStep
  <2>3. ~reached => Agrees(fs, Pristine)  BY <1>1 DEF Agrees, Pristine, Dir, None
  <2>4. KeptIn(Pristine)  BY DEF KeptIn
  <2> QED  BY <1>7, <2>1, <2>2, <2>3, <2>4 DEF Pull, ReadyInv, ResolverReady
<1>8. CASE Unpack
  <2>1. CASE pos < Len(Entries[img])
    <3> DEFINE e == NextEntry
               g == Stages(img)[pos]
    <3>1. pos \in 0..(Len(Entries[img]) - 1)  BY <1>0, <2>1
    <3>2. e \in Entry  BY <2>1, NextIsEntry
    <3>3. /\ pc = "unpack" /\ fs' = ApplyEntry(fs, e) /\ ~Fails(fs, e) /\ pos' = pos + 1
          /\ UNCHANGED <<pc, img, dns, mixed, ready>>
      BY <1>8, <2>1 DEF Unpack
    <3>4. /\ astray' = (astray \/ LedAstray(fs))
          /\ reached' = (reached \/ Reaches(fs, e))
      BY <1>8, <2>1 DEF Unpack
    <3>5. IsTree(fs')  BY <1>0, <3>2, <3>3, ApplyTree DEF WellFormed
    <3>6. ASSUME ~astray', ~reached'
          PROVE  Agrees(fs', Stages(img)[pos + 1]) /\ KeptIn(Stages(img)[pos + 1])
      <4>1. ~astray /\ ~reached /\ ~LedAstray(fs) /\ ~Reaches(fs, e)  BY <3>4, <3>6
      <4>2. Agrees(fs, g) /\ KeptIn(g)  BY <3>3, <4>1 DEF ReadyInv
      <4>3. Skipped(e) \/ Where(fs, e) = Where(g, e)  BY <4>1 DEF LedAstray
      <4>4. Stages(img)[pos + 1] = ApplyEntry(g, e)  BY <1>0, <3>1, StagesStep DEF NextEntry
      <4>5. fs[sbin] = Dir /\ fs[init] = File(Peel)  BY <1>1, <4>1
      <4> HIDE DEF e, g
      <4> QED  BY <1>0, <3>2, <3>3, <4>1, <4>2, <4>3, <4>4, <4>5, UnpackAgrees
    <3>7. pc' = "unpack" /\ mixed'  BY <3>3 DEF ReadyInv
    <3> QED  BY <3>3, <3>5, <3>6, <3>7 DEF ReadyInv, ResolverReady
  <2>2. CASE ~(pos < Len(Entries[img]))
    <3>1. pos = Len(Entries[img])  BY <1>0, <2>2
    <3>2. Stages(img)[pos] = Unpacked(img)  BY <3>1 DEF Unpacked
    <3>3. pc = "unpack" /\ pc' = "save" /\ UNCHANGED <<fs, img, mixed, astray, reached, ready>>
      BY <1>8, <2>2 DEF Unpack
    <3> QED  BY <3>2, <3>3 DEF ReadyInv, ResolverReady
  <2> QED  BY <2>1, <2>2
<1>9. CASE SaveTmp
  <2>1. CanCreate(fs, stateTmp) /\ fs' = Create(fs, stateTmp, img)  BY <1>9 DEF SaveTmp
  <2>2. IsTree(fs')  BY <1>0, <2>1, CreateTree
  <2>3. ASSUME ~reached PROVE \A g : KeptIn(g) /\ Agrees(fs, g) => Agrees(fs', g)
    <3>1. OwnStep(fs, fs')  BY <1>1, <2>1, <2>3, OwnSteps DEF OwnFiles
    <3> QED  BY <3>1, OwnStands
  <2> QED  BY <1>9, <2>2, <2>3 DEF SaveTmp, ReadyInv, ResolverReady
<1>10. CASE Rename
  <2> DEFINE h == Create(fs, stateJSON, img)
  <2>1. /\ CanCreate(fs, stateJSON) /\ fs' = RemoveAll(h, stateTmp) /\ pc = "rename"
        /\ pc' = "delete" /\ ready' = img /\ UNCHANGED <<img, astray, reached>>
    BY <1>10 DEF Rename
  <2>2. IsTree(h) /\ h \in [Path -> Node]
    <3>1. img \in Content  BY <1>0, ImageAssumption
    <3> QED  BY <1>0, <2>1, <3>1, CreateTree, CreateType DEF WellFormed
  <2>3. IsTree(fs')  BY <2>1, <2>2, NamedPaths, RemoveTree
  <2>4. ASSUME ~astray, ~reached PROVE Stands(fs', img)
    <3>1. Agrees(fs, Unpacked(img)) /\ KeptIn(Unpacked(img))  BY <2>1, <2>4 DEF ReadyInv
    <3>2. OwnStep(fs, h)  BY <1>1, <2>4, OwnSteps DEF OwnFiles
    <3>3. Intact(h, img)
      <4>1. img # NoImage  BY <1>0, ImageAssumption
      <4> QED  BY <1>1, <2>4, <4>1, IntactCreate
    <3> HIDE DEF h
    <3>4. OwnStep(h, fs')  BY <2>1, <3>3, OwnSteps DEF OwnFiles
    <3>5. Agrees(fs', Unpacked(img))  BY <3>1, <3>2, <3>4, OwnStands
    <3> QED  BY <3>1, <3>5 DEF Stands, Holds, Agrees
  <2> HIDE DEF h
  <2> QED  BY <2>1, <2>3, <2>4 DEF ReadyInv, ResolverReady
<1>11. CASE DeleteConfig
  <2>1. fs' = fs \/ fs' = RemoveAll(fs, configJSON)  BY <1>11 DEF DeleteConfig
  <2>2. IsTree(fs')  BY <1>0, <2>1, NamedPaths, RemoveTree DEF WellFormed
  <2>3. ASSUME ~reached PROVE \A i : Stands(fs, i) => Stands(fs', i)
    <3>1. fs' = fs \/ OwnStep(fs, fs')  BY <1>1, <2>1, <2>3, OwnSteps DEF OwnFiles
    <3> QED  BY <3>1, OwnStands
  <2> QED  BY <1>11, <2>2, <2>3 DEF DeleteConfig, ReadyInv, ResolverReady
<1>12. CASE RestoreResolvConf
  <2>1. IsTree(fs') /\ (\A i : Stands(fs, i) => Stands(fs', i)) /\ (~reached' => ~reached)
    BY <1>0, <1>12, ResolvActions, ResolvStands DEF WellFormed
  <2>2. ResolverReady'  BY <1>12, RestoredIsReady
  <2> QED  BY <1>12, <2>1, <2>2 DEF RestoreResolvConf, ReadyInv
<1>13. CASE Resolve  BY <1>13 DEF Resolve, ReadyInv, ResolverReady
<1>14. CASE Stop
  <2>1. pc' = "off" /\ UNCHANGED <<ready, mixed, astray>> /\ (~reached' => ~reached)
    BY <1>14, StopCases DEF Stop
  <2>2. IsTree(fs') /\ (~reached' /\ ~mixed => \A i : Stands(fs, i) => Stands(fs', i))
    <3>1. CASE pc = "unpack" /\ pos < Len(Entries[img]) /\ fs' \in Interrupted(fs, NextEntry)
      <4>1. IsTree(fs')  BY <1>0, <3>1, NextIsEntry, InterruptedType DEF WellFormed
      <4>2. mixed  BY <3>1 DEF ReadyInv
      <4> QED  BY <4>1, <4>2
    <3>2. CASE ResolvStep(fs, fs')  BY <1>0, <3>2, ResolvStands
    <3>3. CASE pc = "save" /\ CanCreate(fs, stateTmp) /\ fs' = Create(fs, stateTmp, Cut)
      <4>1. IsTree(fs')  BY <1>0, <3>3, CreateTree
      <4>2. mixed  BY <3>3 DEF ReadyInv
      <4> QED  BY <4>1, <4>2
    <3>4. CASE fs' = fs  BY <1>0, <3>4 DEF WellFormed
    <3> QED  BY <1>14, <3>1, <3>2, <3>3, <3>4, StopCases
  <2> QED  BY <2>1, <2>2 DEF ReadyInv, ResolverReady
<1>15. CASE UNCHANGED vars  BY <1>15 DEF vars, ReadyInv, ResolverReady
<1> QED  BY <1>2, <1>3, <1>4, <1>5, <1>6, <1>7, <1>8, <1>9, <1>10, <1>11, <1>12, <1>13, <1>14, <1>15
         DEF Next

(* The LXD image is a tree.                                                *)
LEMMA PristineTree == IsTree(Pristine)
<1> SUFFICES ASSUME NEW x \in Path, Pristine[x] # None, NEW a \in Above(x) PROVE Pristine[a] = Dir
  BY DEF IsTree
<1>1. a \in Path /\ IsPrefix(a, x) /\ a # x  BY DEF Above, IsStrictPrefix
<1>2. x \in {sbin, peel, init}  BY DEF Pristine
<1>3. x \in Kept  BY <1>2, NamedPaths, PathTree DEF Kept
<1>4. isProtected(a) \/ a = sbin  BY <1>1, <1>3, KeptPrefix
<1>5. a = sbin
  <2> SUFFICES ASSUME isProtected(a), a # sbin PROVE FALSE  BY <1>4
  <2>1. CASE a = init
    <3>1. IsPrefix(init, x) /\ x # init  BY <1>1, <2>1
    <3>2. Len(init) <= Len(x)  BY <3>1, NamedPaths, PathIsSeq, PrefixAgrees
    <3> QED  BY <1>2, <3>1, <3>2, NamedPaths
  <2>2. CASE a # init
    <3>1. IsPrefix(peel, a)  BY <2>2 DEF isProtected
    <3>2. IsPrefix(peel, x)  BY <1>1, <3>1, NamedPaths, PrefixOrder
    <3>3. x[1] = "peel"  BY <3>2, BelowPeel
    <3>4. x = peel  BY <1>2, <3>3, NamedPaths
    <3>5. a = peel  BY <1>1, <3>1, <3>4, NamedPaths, PrefixOrder
    <3> QED  BY <1>1, <3>4, <3>5
  <2> QED  BY <2>1, <2>2
<1> QED  BY <1>5, NamedPaths DEF Pristine

(* The state file tells the truth, whatever the images, in whatever order  *)
(* they were configured and however often unpacking was interrupted, in an *)
(* entry or between two, unless an unpacking has begun since it was        *)
(* written, or a link left by another image led an entry elsewhere, or     *)
(* peel was reached; and the entrypoint is started only for the image it   *)
(* names, with peel's resolv.conf if there can be one.                     *)
THEOREM EntrypointIsReady == Spec => []EntrypointReady
<1>1. Init => ReadyInv
  <2> SUFFICES ASSUME Init PROVE ReadyInv  OBVIOUS
  <2>1. IsTree(fs)  BY PristineTree DEF Init
  <2>2. ready \notin Image /\ pc = "off"  BY ImageAssumption DEF Init
  <2> QED  BY <2>1, <2>2 DEF ReadyInv, ResolverReady
<1>2. TypeOK /\ PeelInv /\ ReadyInv /\ [Next]_vars => ReadyInv'  BY ReadyStep
<1>3. TypeOK /\ PeelInv /\ ReadyInv => EntrypointReady
  <2> SUFFICES ASSUME TypeOK, PeelInv, ReadyInv PROVE EntrypointReady  OBVIOUS
  <2>1. ASSUME ~reached PROVE Load(fs) = ready
    <3>1. fs[stateJSON] = IF ready = NoImage THEN None ELSE File(ready)  BY <2>1 DEF PeelInv, Intact
    <3>2. \A i : File(i).kind = "file" /\ None.kind = "none" /\ File(i).v = i  BY DEF File, None
    <3>3. CASE ready = NoImage
      <4>1. ~\E i \in Image : fs[stateJSON] = File(i)  BY <3>1, <3>2, <3>3
      <4> QED  BY <3>3, <4>1 DEF Load
    <3>4. CASE ready # NoImage
      <4>1. ready \in Image  BY <3>4 DEF TypeOK
      <4> QED  BY <3>1, <3>2, <3>4, <4>1 DEF Load
    <3> QED  BY <3>3, <3>4
  <2>2. StateIsTrue
    <3> SUFFICES ASSUME Load(fs) # NoImage, ~mixed, ~astray, ~reached PROVE Holds(fs, Load(fs))
      BY DEF StateIsTrue
    <3>1. ready \in Image  BY <2>1 DEF TypeOK
    <3> QED  BY <2>1, <3>1 DEF ReadyInv, Stands
  <2>3. ResolverReady  BY DEF ReadyInv
  <2>4. pc = "running" /\ ~reached => Load(fs) = img  BY <2>1 DEF ReadyInv
  <2> QED  BY <2>2, <2>3, <2>4 DEF EntrypointReady
<1> QED  BY <1>1, <1>2, <1>3, TypeCorrect, PeelInvariant, PTL DEF Spec
=============================================================================
