-------------------------------- MODULE Boot --------------------------------
(***************************************************************************)
(* The boot of a container (cmd/peel/main.go, internal/state): read the    *)
(* configuration LXD rendered, bring up the network, unpack the configured *)
(* image unless /peel/state.json says it is unpacked, delete the           *)
(* configuration, and start the entrypoint.  The container may be stopped, *)
(* crash or fail at any step, in the middle of an entry or of the state    *)
(* file too, and is then booted again, perhaps with another image.         *)
(*                                                                         *)
(* An image is the sequence of its entries, layer after layer.  Peel's own *)
(* files are files of the root filesystem: the configuration and the state *)
(* are the image they name, the runtime configuration cached in the state  *)
(* being a function of the boot that wrote it.  What the entrypoint itself *)
(* writes to the root filesystem is left out.                              *)
(***************************************************************************)
EXTENDS Rootfs

CONSTANTS
  Image,    \* the references the operator may configure
  Entries,  \* the entries of each image
  ByPeel    \* the content of a resolv.conf written by peel

NoImage == "noimage"

ASSUME EntriesAssumption == Entries \in [Image -> Seq(Entry)]
ASSUME ByPeelAssumption == ByPeel \in Content
ASSUME ImageAssumption == Image \subseteq Content /\ Image \cap {NoImage, Cut} = {}

VARIABLES
  conf,    \* the image configured for the instance
  pc,      \* where the boot is
  img,     \* the configured image as read at this boot
  dns,     \* whether Configure obtained nameservers at this boot
  pos,     \* the entries applied at this boot
  fs,      \* the root filesystem
  mixed,   \* history: an unpacking has begun since state.json was written
  astray,  \* history: an entry of the last unpacking was led elsewhere by a link left on the disk
  reached, \* history: a layer or resolv.conf has reached what is protected, past its name
  ready    \* history: the image state.json was last written for

vars == <<conf, pc, img, dns, pos, fs, mixed, astray, reached, ready>>

Steps == {"config", "network", "state", "pull", "unpack", "save", "rename", "delete", "resolv",
          "resolve", "running"}

(* The type of the state; no more entries are applied than there are.      *)
TypeOK ==
  /\ conf \in Image
  /\ pc \in Steps \cup {"off"}
  /\ img \in Image
  /\ dns \in BOOLEAN
  /\ pos \in 0..Len(Entries[img])
  /\ fs \in [Path -> Node]
  /\ mixed \in BOOLEAN /\ astray \in BOOLEAN /\ reached \in BOOLEAN
  /\ ready \in Image \cup {NoImage}

Init ==
  /\ conf \in Image
  /\ pc = "off"
  /\ img = conf
  /\ dns = FALSE
  /\ pos = 0
  /\ fs = Pristine
  /\ mixed = FALSE /\ astray = FALSE /\ reached = FALSE
  /\ ready = NoImage

(* What unpacking image i onto the LXD image leaves after each entry, and  *)
(* in the end.                                                             *)
Stages(i) ==
  LET after[n \in 0..Len(Entries[i])] ==
        IF n = 0 THEN Pristine ELSE ApplyEntry(after[n - 1], Entries[i][n])
  IN after

Unpacked(i) == Stages(i)[Len(Entries[i])]

----------------------------------------------------------------------------
(* The operator and LXD.                                                   *)

SetImage(i) ==
  /\ i # conf
  /\ conf' = i
  /\ UNCHANGED <<pc, img, dns, pos, fs, mixed, astray, reached, ready>>

(* LXD renders the configuration and runs /sbin/init.                      *)
Start ==
  /\ pc = "off"
  /\ fs[init] = File(Peel)
  /\ CanCreate(fs, configJSON)
  /\ pc' = "config"
  /\ fs' = Create(fs, configJSON, conf)
  /\ UNCHANGED <<conf, img, dns, pos, mixed, astray, reached, ready>>

----------------------------------------------------------------------------
(* run.                                                                    *)

(* Mutant of LoadConfig: the position of an interrupted boot is kept.      *)
LoadConfigResumes ==
  /\ pc = "config"
  /\ pc' = "network"
  /\ \E i \in Image : fs[configJSON] = File(i) /\ img' = i
  /\ UNCHANGED <<conf, dns, pos, fs, mixed, astray, reached, ready>>

LoadConfig ==
  /\ pc = "config"
  /\ pc' = "network"
  /\ \E i \in Image : fs[configJSON] = File(i) /\ img' = i
  /\ pos' = 0
  /\ UNCHANGED <<conf, dns, fs, mixed, astray, reached, ready>>

(* resolv.conf is written through links: to the file one leads to, which   *)
(* is created if its directory is there.  Anything else is an error that   *)
(* is only logged.                                                         *)
Resolv(f) == Follow(f, resolvConf)

CanWriteResolvConf(f) ==
  /\ CanCreate(f, Resolv(f))
  /\ ~Dangles(f, resolvConf)
  /\ Resolv(f) = Locate(f, resolvConf) \/ IsDir(f, Front(Resolv(f)))

WriteResolvConf(f, servers) ==
  IF servers /\ CanWriteResolvConf(f) THEN Create(f, Resolv(f), ByPeel) ELSE f

(* What an interruption may leave of it: the directory without the file,   *)
(* or the file cut short.                                                  *)
InterruptedResolvConf(f) ==
  IF CanWriteResolvConf(f) THEN {MkParents(f, Resolv(f)), Create(f, Resolv(f), Cut)} ELSE {}

ResolvReaches(f) == CanWriteResolvConf(f) /\ isProtected(Resolv(f))

Configure ==
  /\ pc = "network"
  /\ pc' = "state"
  /\ dns' \in BOOLEAN
  /\ fs' = WriteResolvConf(fs, dns')
  /\ reached' = (reached \/ (dns' /\ ResolvReaches(fs)))
  /\ UNCHANGED <<conf, img, pos, mixed, astray, ready>>

(* A state file that cannot be parsed is as good as none.                  *)
Load(f) == IF \E i \in Image : f[stateJSON] = File(i) THEN f[stateJSON].v ELSE NoImage

(* Mutant of LoadState: whatever was unpacked is taken to be the image.    *)
LoadStateAny ==
  /\ pc = "state"
  /\ pc' = IF Load(fs) # NoImage THEN "delete" ELSE "pull"
  /\ UNCHANGED <<conf, img, dns, pos, fs, mixed, astray, reached, ready>>

LoadState ==
  /\ pc = "state"
  /\ fs[stateJSON].kind \in {"none", "file"}
  /\ pc' = IF Load(fs) = img THEN "delete" ELSE "pull"
  /\ UNCHANGED <<conf, img, dns, pos, fs, mixed, astray, reached, ready>>

Pull ==
  /\ pc = "pull"
  /\ pc' = "unpack"
  /\ mixed' = TRUE
  /\ astray' = FALSE
  /\ UNCHANGED <<conf, img, dns, pos, fs, reached, ready>>

NextEntry == Entries[img][pos + 1]

(* A link left by another image may lead an entry elsewhere than its own   *)
(* image's files and links would.                                          *)
LedAstray(f) == ~Skipped(NextEntry) /\ Where(f, NextEntry) # Where(Stages(img)[pos], NextEntry)

Unpack ==
  /\ pc = "unpack"
  /\ IF pos < Len(Entries[img])
     THEN /\ ~Fails(fs, NextEntry)
          /\ fs' = ApplyEntry(fs, NextEntry)
          /\ pos' = pos + 1
          /\ astray' = (astray \/ LedAstray(fs))
          /\ reached' = (reached \/ Reaches(fs, NextEntry))
          /\ UNCHANGED pc
     ELSE /\ pc' = "save"
          /\ UNCHANGED <<fs, pos, astray, reached>>
  /\ UNCHANGED <<conf, img, dns, mixed, ready>>

(* Mutant of SaveTmp: the state file is written in place.                  *)
SaveInPlace ==
  /\ pc = "save"
  /\ pc' = "rename"
  /\ CanCreate(fs, stateTmp)
  /\ fs' = Create(Create(fs, stateTmp, img), stateJSON, Cut)
  /\ UNCHANGED <<conf, img, dns, pos, mixed, astray, reached, ready>>

(* state.Save: the temporary file, then the rename that replaces the old.  *)
SaveTmp ==
  /\ pc = "save"
  /\ pc' = "rename"
  /\ CanCreate(fs, stateTmp)
  /\ fs' = Create(fs, stateTmp, img)
  /\ UNCHANGED <<conf, img, dns, pos, mixed, astray, reached, ready>>

Rename ==
  /\ pc = "rename"
  /\ pc' = "delete"
  /\ CanCreate(fs, stateJSON)
  /\ fs' = RemoveAll(Create(fs, stateJSON, img), stateTmp)
  /\ mixed' = FALSE
  /\ ready' = img
  /\ UNCHANGED <<conf, img, dns, pos, astray, reached>>

(* A failure to delete the configuration is only logged.                   *)
DeleteConfig ==
  /\ pc = "delete"
  /\ pc' = "resolv"
  /\ fs' \in {fs, RemoveAll(fs, configJSON)}
  /\ UNCHANGED <<conf, img, dns, pos, mixed, astray, reached, ready>>

RestoreResolvConf ==
  /\ pc = "resolv"
  /\ pc' = "resolve"
  /\ fs' = WriteResolvConf(fs, dns)
  /\ reached' = (reached \/ (dns /\ ResolvReaches(fs)))
  /\ UNCHANGED <<conf, img, dns, pos, mixed, astray, ready>>

Resolve ==
  /\ pc = "resolve"
  /\ pc' = "running"
  /\ UNCHANGED <<conf, img, dns, pos, fs, mixed, astray, reached, ready>>

(* The boot ends, at any step: an error that run returns, a crash, or the  *)
(* container being stopped.  What the step was writing is left half done.  *)
Stop ==
  /\ pc # "off"
  /\ pc' = "off"
  /\ \/ /\ pc = "unpack" /\ pos < Len(Entries[img])
        /\ fs' \in Interrupted(fs, NextEntry)
        /\ reached' = (reached \/ Reaches(fs, NextEntry))
     \/ /\ pc = "network" \/ (pc = "resolv" /\ dns)
        /\ fs' \in InterruptedResolvConf(fs)
        /\ reached' = (reached \/ ResolvReaches(fs))
     \/ /\ pc = "save" /\ CanCreate(fs, stateTmp)
        /\ fs' = Create(fs, stateTmp, Cut)
        /\ UNCHANGED reached
     \/ UNCHANGED <<fs, reached>>
  /\ dns' = FALSE
  /\ UNCHANGED <<conf, img, pos, mixed, astray, ready>>

Next ==
  \/ \E i \in Image : SetImage(i)
  \/ Start \/ LoadConfig \/ Configure \/ LoadState \/ Pull \/ Unpack \/ SaveTmp \/ Rename
  \/ DeleteConfig \/ RestoreResolvConf \/ Resolve
  \/ Stop

Spec == Init /\ [][Next]_vars

----------------------------------------------------------------------------
(* Safety.                                                                 *)

Holds(f, i) ==
  \A x \in Path \ {Resolv(f)} :
    Unpacked(i)[x].kind \in {"file", "link"} => f[x] = Unpacked(i)[x]

(* The state file tells the truth unless an unpacking has begun since it   *)
(* was written: every file and link of the image it names is there and     *)
(* whole, whatever was on the disk before and however often unpacking it   *)
(* was interrupted.  Unpackings that an older image's link has led         *)
(* elsewhere are excluded, and disks on which peel itself was reached.     *)
StateIsTrue ==
  Load(fs) # NoImage /\ ~mixed /\ ~astray /\ ~reached => Holds(fs, Load(fs))

(* The entrypoint finds peel's resolv.conf even when the image wiped or    *)
(* replaced /etc or made it a link, unless nothing can be written there.   *)
ResolverReady ==
  pc \in {"resolve", "running"} /\ dns /\ CanWriteResolvConf(fs) => fs[Resolv(fs)] = File(ByPeel)

(* Together: the entrypoint is started for the image the state file names, *)
(* with peel's resolv.conf, and on the files of that image unless another  *)
(* image's unpacking was begun and given up since it was recorded.         *)
EntrypointReady ==
  /\ StateIsTrue /\ ResolverReady
  /\ pc = "running" /\ ~reached => Load(fs) = img

(* Peel's binary stays, and of what is below /peel nothing changes but by  *)
(* peel's own hand: no layer touches the state file, however it is         *)
(* interrupted, so that the container can always be booted again.  This    *)
(* holds as long as no link and no whiteout of the root has led past the   *)
(* names that isProtected compares.                                        *)
Recorded == IF ready = NoImage THEN None ELSE File(ready)

PeelIntact ==
  /\ fs[sbin] = Dir /\ fs[init] = File(Peel)
  /\ \A x \in Below(peel) \ {configJSON, stateJSON, stateTmp} : fs[x] = Pristine[x]
  /\ fs[stateJSON] = Recorded

PeelSurvives == ~reached => PeelIntact

(* A container that got past ensureUnpacked with an image is not pulled    *)
(* again at the next boot with that image, whatever was tried and          *)
(* interrupted in between (internal/state/package.go).                     *)
NoNeedlessPull == pc \in {"pull", "unpack", "save"} /\ ~reached => img # ready
=============================================================================
