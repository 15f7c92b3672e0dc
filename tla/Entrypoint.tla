----------------------------- MODULE Entrypoint -----------------------------
(***************************************************************************)
(* From the configuration and the image to the process: Merge and Resolve  *)
(* (internal/entrypoint/entrypoint.go), and what os/exec makes of the      *)
(* result (internal/supervisor/start.go).                                  *)
(*                                                                         *)
(* An environment is a sequence of entries, cut at their first "=": key,   *)
(* value, and whether there was an "=" at all.  A value is a sequence of   *)
(* components, as PATH's is; the empty text is the empty sequence.  A file *)
(* name is a directory, NoDir if it has no slash, and a name in it.        *)
(***************************************************************************)
EXTENDS Integers, Sequences, SequencesExt

CONSTANTS
  Width,        \* the bits of a user or group id
  Value,        \* the number that each decimal text stands for
  DefaultPath   \* defaultPath

PATH == "PATH"
NoDir == ""

----------------------------------------------------------------------------
(* Environments.                                                           *)

Entries(env, key) == {i \in DOMAIN env : env[i].eq /\ env[i].key = key}

lookupEnv(env, key) ==
  IF Entries(env, key) = {} THEN <<>> ELSE env[Min(Entries(env, key))].val

(* Mutant of mergeEnv: only keys the image does not have are added.        *)
mergeEnvKeepsBase(base, override) ==
  base \o SelectSeq(override, LAMBDA kv : \A i \in DOMAIN base : base[i].key # kv.key)

(* One override: it replaces the first entry of its key, or is appended.   *)
setEnv(out, kv) ==
  LET same == {i \in DOMAIN out : out[i].key = kv.key} IN
  IF same = {} THEN Append(out, kv) ELSE [out EXCEPT ![Min(same)] = kv]

(* The environment after each override.                                    *)
mergeSteps(base, override) ==
  LET after[n \in 0..Len(override)] == IF n = 0 THEN base ELSE setEnv(after[n - 1], override[n])
  IN after

mergeEnv(base, override) == mergeSteps(base, override)[Len(override)]

(* os/exec drops all but the last entry of a key.                          *)
getenv(env, key) ==
  IF Entries(env, key) = {} THEN <<>> ELSE env[Max(Entries(env, key))].val

----------------------------------------------------------------------------
(* Files: fs tells what a path is.  A directory has its x bits set.        *)

(* Mutant of checkExecutable: a directory is not told from a program.      *)
checkExecutableDir(fs, p) == fs[p] \in {"exec", "dir"}

checkExecutable(fs, p) == fs[p] = "exec"

(* The path found, or none.                                                *)
lookPath(fs, file, pathEnv) ==
  LET P(i) == [dir |-> pathEnv[i], name |-> file.name]
      hits == {i \in DOMAIN pathEnv : pathEnv[i] # NoDir /\ checkExecutable(fs, P(i))} IN
  IF file.dir # NoDir THEN IF checkExecutable(fs, file) THEN <<file>> ELSE <<>>
  ELSE IF hits = {} THEN <<>> ELSE <<P(Min(hits))>>

----------------------------------------------------------------------------
(* Users and groups.                                                       *)

(* Mutant of ParseUint: the number wraps around.                           *)
ParseUintWraps(text) == IF Value[text] < 0 THEN <<>> ELSE <<Value[text] % 2^Width>>

(* strconv.ParseUint(text, 10, 32): text is no number, or too large.       *)
ParseUint(text) == IF Value[text] \in 0..(2^Width - 1) THEN <<Value[text]>> ELSE <<>>

(* lookupPasswd (two ids: uid and gid) and lookupGroup (one).  Comments    *)
(* are lines of no name.  The scanner stops at a line that is too long,    *)
(* and a file that was not read to its end is an error only if the name    *)
(* was not found before.                                                   *)
lookupName(file, name, ids) ==
  LET lines == file.lines
      cut == {i \in DOMAIN lines : lines[i].long}
      read == {i \in DOMAIN lines : \A j \in cut : i < j}
      hits == {i \in read : /\ lines[i].name = name /\ Len(lines[i].ids) >= ids
                            /\ \A k \in 1..ids : ParseUint(lines[i].ids[k]) # <<>>}
  IN  IF file.open = "error" THEN [ok |-> FALSE, err |-> TRUE]
      ELSE IF file.open = "missing" THEN [ok |-> FALSE, err |-> FALSE]
      ELSE IF hits = {} THEN [ok |-> FALSE, err |-> cut # {}]
      ELSE [ok |-> TRUE, err |-> FALSE,
            ids |-> [k \in 1..ids |-> ParseUint(lines[Min(hits)].ids[k])[1]]]

(* A user's ids: a passwd entry comes before a number, whose gid is 0.     *)
userIds(passwd, user) ==
  LET pu == lookupName(passwd, user, 2) IN
  IF pu.err THEN <<>>
  ELSE IF pu.ok THEN pu.ids
  ELSE IF ParseUint(user) # <<>> THEN ParseUint(user) \o <<0>> ELSE <<>>

(* A group's id: a number comes before a group entry.                      *)
groupId(group, name) ==
  LET g == lookupName(group, name, 1) IN
  IF ParseUint(name) # <<>> THEN ParseUint(name) ELSE IF g.ok THEN g.ids ELSE <<>>

(* The uid and gid, or none if there is an error.                          *)
resolveUser(passwd, group, spec) ==
  LET ids == userIds(passwd, spec.user)
      gid == groupId(group, spec.group) IN
  IF spec.user = "" /\ ~spec.hasGroup THEN <<0, 0>>
  ELSE IF ids = <<>> \/ ~spec.hasGroup THEN ids
  ELSE IF gid = <<>> THEN <<>> ELSE <<ids[1], gid[1]>>

----------------------------------------------------------------------------
(* Merge and Resolve.                                                      *)

Or(override, base, unset) == IF override # unset THEN override ELSE base
NoUser == [user |-> "", hasGroup |-> FALSE, group |-> ""]

Merge(rt, cfg) ==
  [entrypoint |-> Or(cfg.entrypoint, rt.entrypoint, <<>>),
   cmd        |-> Or(cfg.cmd, rt.cmd, <<>>),
   env        |-> mergeEnv(rt.env, cfg.env),
   dir        |-> Or(cfg.dir, rt.dir, NoDir),
   user       |-> Or(cfg.user, rt.user, NoUser)]

(* The process to start, or none if there is an error.                     *)
Resolve(sys, rt) ==
  LET argv == rt.entrypoint \o rt.cmd
      env == IF lookupEnv(rt.env, PATH) = <<>>
             THEN Append(rt.env, [key |-> PATH, eq |-> TRUE, val |-> DefaultPath])
             ELSE rt.env
      ids == resolveUser(sys.passwd, sys.group, rt.user)
      path == lookPath(sys.fs, argv[1], lookupEnv(env, PATH))
  IN  IF argv = <<>> \/ ids = <<>> \/ path = <<>> THEN <<>>
      ELSE <<[path |-> path[1], argv |-> argv, env |-> env,
              dir |-> Or(rt.dir, "/", NoDir), uid |-> ids[1], gid |-> ids[2]]>>
=============================================================================
