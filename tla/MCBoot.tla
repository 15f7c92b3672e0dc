------------------------------- MODULE MCBoot -------------------------------
(* Instances of Boot for TLC. *)
EXTENDS Boot

CONSTANTS a, b, c, d

app == <<"app">>
appBin == <<"app", "bin">>
etcBin == <<"etc", "bin">>
etcBinInit == <<"etc", "bin", "init">>

Paths == {sbin, init, peel, configJSON, stateJSON, stateTmp, etc, resolvConf, etcBin, etcBinInit,
          app, appBin}
Contents == {Peel, Cut, ByPeel, "v1", "v2", "v3"} \cup Image

dir(p) == [type |-> "dir", path |-> p]
file(p, v) == [type |-> "file", path |-> p, v |-> v]
link(p, q) == [type |-> "link", path |-> p, to |-> q]
whiteout(p) == [type |-> "whiteout", path |-> p]
opaque(p) == [type |-> "opaque", path |-> p]
other(p) == [type |-> "other", path |-> p]

(* Two layers; the second removes a file of the first.  An entry is for    *)
(* what peel protects.  Its resolv.conf is a directory.                    *)
ImageA == <<dir(app), file(appBin, "v1"), file(stateJSON, "v1"),
            whiteout(appBin), file(etcBin, "v2"), dir(resolvConf)>>

(* /sbin is a link, and /etc and /app are emptied; /app has no entry.      *)
ImageB == <<link(sbin, etc), file(init, "v3"), opaque(etc), opaque(app), file(appBin, "v3"),
            opaque(sbin), other(etcBin)>>

(* /app is a link to /etc, and below it lies the file that resolv.conf     *)
(* leads to.  ImageB unpacked over it is led astray, ImageA replaces the   *)
(* link by a directory.                                                    *)
ImageC == <<link(resolvConf, etcBin), link(app, etc), file(appBin, "v3")>>

(* /etc/bin is a directory, which fails over ImageA and ImageC, and then   *)
(* a link to /sbin: its init takes the place of peel.                      *)
ImageD == <<dir(etcBinInit), link(etcBin, sbin), file(etcBinInit, "v1")>>

Images == (a :> ImageA) @@ (b :> ImageB) @@ (c :> ImageC) @@ (d :> ImageD)
=============================================================================
