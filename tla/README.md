# TLA+ verification of peel

peel is the init process of an LXD container that turns the container into an
OCI application container: at boot it unpacks an image onto its own root
filesystem, starts the image's entrypoint, supervises it as PID 1, and shares
loopback listens with the other peel containers of the same host through Unix
sockets in a shared directory. A small Go library lets a program on the host
follow which ports are open in which container.

This directory holds a model of that behaviour, the TLC configurations that
check it on small instances, and TLAPS proofs of the main safety properties for
every instance. Paths such as `internal/lo/watcher.go` are relative to `src/`.

- [Inventory](#inventory)
- [Modules and the code](#modules-and-the-code)
- [Runs](#runs)
- [Bounds](#bounds)
- [Fairness](#fairness)
- [Proofs](#proofs)
- [Where code and comments disagree](#where-code-and-comments-disagree)
- [What is not modelled](#what-is-not-modelled)
- [Plan](#plan)

## Inventory

| Component | State | Operations | What is hard |
|---|---|---|---|
| Listen registry, `internal/lo/watcher.go` | `current`, `excluded` (reference counts), `subs` (bounded channels) | `scanOnce`, `publish`, `Subscribe` and its cancel, `Exclude`, `Unexclude` | /proc/net is read outside the mutex; slow subscribers; proxies come and go during a scan |
| `/watch` and `/connect`, `internal/lo/server.go` | one stream per client | `handleWatch`, `handleConnect` | snapshot and stream must fit together |
| Proxies, `internal/lo/proxy.go` | one listener; UDP sessions under a mutex | `StartProxy`, `Close`, `acceptLoop`, `udpLoop`, `reapIdleSessions` | a bind that fails after `Exclude`; sessions shared by three goroutines |
| Peer managers, `internal/lo/peer.go` | `proxies`, and per connection `seen`, `synced` | `run`, `watchOnce`, `add`, `remove`, `reconcile`, `stopAll` | events missed while disconnected; addresses shared with own processes and other managers |
| Discovery, `internal/lo/discovery.go` | `peers` | `scan` | cancelled managers overlap their successors |
| Start of sharing, `internal/lo/run.go` | the socket file | `RunDir` | a stopped container leaves its socket behind |
| Tunnels, `pipe.go`, `frame.go`, `internal/lo/client.go` | two connections on each side, readers that buffer | `dialConnect`, `pipeTCP`, `pipeUDPServer`, framing | half-close, truncated frames, bytes read together with the HTTP text |
| /proc/net, `proc.go`, `addr.go`, `types.go` | none | `scanProcNet`, `parseHexIP`, `dialNetwork`, `dialTarget`, `isLocalPeer` | byte order, v4-mapped and dual-stack sockets |
| Supervisor, `internal/supervisor/` | `shuttingDown`, `rebootCmd`, a timer, `sigCh` | `Run`, `beginShutdown`, `reapAll`, `start` | signals are merged and dropped; processes die while PID 1 reaps |
| Boot, `cmd/peel/main.go`, `internal/state/` | `config.json`, `state.json`, the root filesystem | `run`, `ensureUnpacked`, `Load`, `Save`, `Delete` | interrupted at any step and booted again, perhaps with another image |
| Layer extraction, `internal/rootfs/` | the root filesystem | `ApplyLayer`, `clearDir`, `extractEntry`, `isProtected` | whiteouts, replaced types and links over a running root filesystem |
| Network, `internal/network/` | `resolv.conf`, interfaces | `Configure`, `WriteResolvConf` | what is written before unpacking may be wiped by it |
| Entrypoint, `internal/entrypoint/` | none | `Merge`, `Resolve`, `mergeEnv`, `lookPath`, `resolveUser` | keys that occur twice, empty `PATH`, ids that do not fit, unreadable files |
| Client library, `client/` | `containers`, `outCh`, `startupCh`, counts per port | `run`, `scan`, `emit`, `Kill`, `containerWatcher.run`, `watchOnce` | two channels race, a startup timer, watchers that outlive their container |
| Configuration, registry access, image build, system tests | – | – | I/O and tooling |

How they interact:

- the scanner, every `/watch` handler and every proxy share one `Watcher` under
  its mutex; handlers receive from bounded channels the scanner sends to;
- a peer manager is a `/watch` client of another container and starts and
  closes proxies in its own, which call `Exclude` and `Unexclude`;
- a proxy forwards each TCP connection, and the datagrams of each UDP client,
  through a tunnel of its own to `/connect` of the peer;
- discovery starts and cancels peer managers from what is in the directory;
- a `containerWatcher` of the client library is a `/watch` client as well, and
  hands batches to `run` by channel;
- `run` of `cmd/peel` reads and writes the files of `/peel`, unpacks, and ends
  in `supervisor.Run`, whose only inputs are signals and `wait4`.

What makes each part correct:

- registry: counts match the live proxies, no live proxy is advertised, each
  client's stream describes the same set as the registry, in the end the truth;
- managers: no listener is leaked, stolen or kept for a withdrawn listen, no
  manager runs that nothing can cancel, a gone peer leaves nothing behind;
- proxies: no tunnel is left open that nobody closes, none in use is chosen for closing, no
  client and no peer stops the others, closing the proxy ends everything;
- tunnels: bytes and datagrams arrive whole, once and in order; connections end
  together, and what was sent before an orderly end arrives;
- addresses: what a proxy lets through comes from inside and reaches the socket
  that would have answered in the owner's container;
- entrypoint: the program, environment and ids are those asked for;
- supervisor: no lost wakeup, no forgotten entrypoint, no process of the tree
  left at reboot, and the shutdown ends;
- boot: the state file tells the truth, peel survives the images it is given, an
  unpacked image is not pulled again, DNS works;
- client: the consumer's view follows the streams, and `Kill` terminates.

The hazards behind these properties, each with its line, are listed in
`PROJECT.json` under `hazards`.

## Modules and the code

`PROJECT.json`, `map`, gives the source lines of every definition. An
instance for TLC of module `X` is `MCX`, and its theorems are in `XProofs`.

**`Watcher`** – `watcher.go` with all that touches it. `current`, `excluded`
and `subs` are the fields of that name; `px[p][l]` is the life of the proxy of
peer `p` for listen `l` (`Exclude`, bind, close, `Unexclude`); `own` is what the
container's own processes hold. `scanOnce` is split where other goroutines can
interleave: `ScanStart`, one `ScanRow` per row of /proc/net (sockets may open
and close between two rows), `ScanError`, `ScanLock` (filter and diff, mutex
taken), one `PublishAdd`/`PublishRemove` per event, `ScanDone` (mutex released).
A subscriber whose channel is full is dropped and its channel closed, in
`publish`. `handleWatch` is `Subscribe`, `SendSnapshot`, `SendSync`,
`SendEvent`, `ChannelClosed`, `Disconnect`, `Cancel`.

**`Feed`** – what `/watch` promises, without scanner, mutex, exclusions and
capacities: a set of listens that changes one by one, and clients that are told
of the set at one moment and of every later change, once and in order, until they
leave or are cut off. `Watcher` implements it (`FeedImplemented`) under the
mapping `listens <- Reported` (what the scan has published so far), `fed <-
subs`, and the handler's state and channel. It is the stream that `PeerManager`
and `PortsClient` read, there with losses only by disconnection.

**`PeerManager`** – `discovery.go`, `peer.go` and the address side of
`proxy.go`. A manager is a slot of `M`; `peers` is discovery's map. `watchOnce`
is `Dial`, the three `Receive` actions and `WatchEnds`; `reconcile` and
`stopAll` close one proxy per step, because own processes and other managers can
take an address in between. Two binds conflict when they are for the same listen;
that a wildcard address conflicts with a specific one of the same port is not in
the model (`Addresses` says which sockets coexist). The environment stops a peer (its stream breaks,
its socket stays), removes a stale socket, and boots the peer again (`RunDir`
replaces the socket). `own` and `bound` are who holds an address.

**`UDPProxy`** – `udpLoop`, `udpReturnLoop`, `reapIdleSessions` and `Close` of
one UDP proxy, with the forwarders of the peer (`pipeUDPServer`). `sessions` is
the map; the mutex is taken while `loop` is "dial" or "answer", and while `reaper`
is "sweep" or "close"; all other critical sections are one step. The reaper forgets
and closes each session in two steps (`ReaperForgets`, `ReaperCloses`), between
which its return loop, which records traffic without the mutex, may run. A tunnel is a pair of ends (`near`,
`far`) and two bounded queues of writes; `writeFrame` is two writes, and the tunnel
may be closed between them. Time is `idle`, the sessions without traffic for
`udpSessionIdle`; `old` is what lies before the cutoff the reaper has taken.

**`Tunnel`** – one TCP connection: client, proxy (`acceptLoop`, `dialConnect`,
`pipeTCP`), peer (`handleConnect`, `pipeTCP`), service. The six ends and six
streams are those of three connections. Readers of HTTP text take some of what
follows (`buf`, `bufferedConn`). A TCP end that is closed with something unread
resets its connection, which may lose what was written before.

**`Addresses`** – `proc.go`, `addr.go` and `parseListenParams` as operators on
the bytes of addresses, with what `net` and the kernel do with them: which
sockets a `Listen` or `Dial` gives, and which connections a socket gets.
**`Entrypoint`** – `entrypoint.go` as operators; texts are abstracted to what
`strings.Cut`, `strings.Split` and `ParseUint` make of them. **`Inputs`**
applies both to inputs from given sets (environments, files, users, sockets,
clients): a state is one input. **`MCFunctions`** is its instance for TLC, every
combination of small ones.

**`Supervisor`** – `internal/supervisor`, with the kernel as far as the loop
depends on it (processes that fork, exit, become zombies, are reparented or
attached from outside; pending signals as a set). `pend` to `sigCh` is
`signal.Notify`. Each `wait4` of `reapAll` is a step, so that processes die
between two of them.

**`PortsClient`** – `client/client.go` and `client/watcher.go`. A
`containerWatcher` is a slot of `W`; `counts` is `portCounts`; `outCh`,
`startupCh` and `pendingOut` are the channels and the batches held back during
startup. `view` is what the consumer has been told; the remaining histories
(`heard`, `lost`, `overlapped`) only serve the properties.

**`Rootfs`** – `extract.go` as pure operators on a function from paths to
nodes: `ApplyEntry` is one turn of `ApplyLayer`'s loop, `Interrupted` what a
crash in its middle can leave. Every operation takes place where the kernel's walk
through symbolic links leads (`Follow`, `Locate`), while `isProtected` compares
names, as in the code; a whiteout may be for the root (a name with nothing behind
`.wh.`), and an entry of an unsupported type only removes what was there.
**`Boot`** extends it with `main.go`, `state.go` and `resolv.conf`, one action per
step of `run`; `Stop` ends the boot anywhere, in the middle of an entry, of the
state file or of `resolv.conf` too, and `SetImage` changes the configured image at
any time. `config.json`, `state.json` and its temporary file are files of the root
filesystem like any other. `resolv.conf` is written through links, and not written
where `os.WriteFile` or `os.MkdirAll` would fail. Three histories say what an image
has done to the disk: `mixed` (an unpacking has begun since the state file was
written), `astray` (a link that another image left has led an entry elsewhere than
its own image would have) and `reached` (an entry or `resolv.conf` was led, past the
compared name, to the root, to `/sbin` or to something protected).

## Runs

| Run | Checks | Shows |
|---|---|---|
| `watcher` | `TypeOK`, `ProxiesHidden`, `StreamExact`, `FeedImplemented`, `ViewConverges` | Two peers competing for a listen, one client: under every interleaving the counts balance, no live proxy is published, snapshot and channel together tell each client exactly what was reported, which implements `Feed`; if scans keep succeeding, what stays open, closed or proxied is what clients that stay connected believe |
| `watcher_readvertised` | `NeverReadvertised` | Violated, see below |
| `peers` | `TypeOK`, `AddressesOwned`, `NoStaleProxy`, `ManagersAreKnown`, `ProxiesEnd`, `RefusedIsRetried` | A peer that comes and goes, own processes, overlapping managers: no listener leaks, none is taken from a process, nothing stale survives reconciliation; gone peers and withdrawn listens lose their proxies although removes are missed, and a refused bind succeeds after a later reconnection |
| `udp` | `TypeOK`, `NoTunnelLeaks`, `DatagramsWhole`, `OnlyDeadOrIdleClosed`, `LoopReturns`, `SessionsEnd` | However the loops, the reaper, `Close` and the peer interleave: an open tunnel is always known to someone who will close it, also when a late return loop meets its successor; no datagram is torn, not the empty one either; the reaper chooses no session that has traffic until then; `udpLoop` always comes back to its socket; sessions end with the proxy, with their peer and after idle time |
| `tunnel` | `TypeOK`, `Faithful`, `EndsTogether`, `DeliveredToReader` | Bytes arrive in order and without gaps, the first ones included; when one end is closed, all are; what was sent before an orderly end is delivered to an application that reads until the end |
| `functions` | `CommandAsConfigured`, `IdsAsAsked`, `ScanIsExact`, `ForwardedToService` | The configuration's variables win and the program is the one its own `PATH` finds; no id that was not asked for; scans find exactly the loopback and wildcard listens; proxies coexist, let only local clients through and lead to the right socket |
| `functions_reach` | `SameReach` | Violated, see below |
| `supervisor` | `TypeOK`, `NoLostWakeup`, `MainNoticed`, `TreeEmptyAtReboot`, `SupervisorProgresses` | Merged and dropped SIGCHLDs never leave PID 1 asleep, the entrypoint's death is always noticed, ECHILD means the tree is empty, zombies are reaped, and a shutdown ends, unless a process entered after the one SIGKILL and stays |
| `client` | `TypeOK`, `CountsMatch`, `ConsumerInStep`, `ChangesAreNews` | Over startup, reconnections and races of the two channels the consumer's view follows the counts and every change is news, except after a discarded startup result or an overlap of two watchers (see below) |
| `client_live` | `KillTerminates`, `SnapshotIsSent` | No channel blocks termination or the first send |
| `client_late` | `LateStartupReported` | Violated, see below |
| `boot` | `TypeOK`, `EntrypointReady`, `PeelSurvives`, `NoNeedlessPull` | Four images that contradict each other and what peel protects, interrupted everywhere, one of which replaces peel through a link: the entrypoint starts for the image `state.json` names and with peel's `resolv.conf`; that image's files are there unless the disk is `mixed` or `astray`; peel and its files survive, and nothing is pulled twice, on every disk that is not `reached` |

Several properties are conjunctions of parts that a reader will want by name:
`ProxiesHidden` of `RefBalanced` and `NeverAdvertisesLiveProxy`; `StreamExact` of
`NoLostEvent` and `EveryEventCounts`; `ViewConverges` of `OwnListenReported`,
`ClosedListenWithdrawn` and `ProxyStaysHidden`; `AddressesOwned` of
`ProxiesAreBound` and `OwnUndisturbed`; `ProxiesEnd` of `GonePeerReleased` and
`WithdrawnIsClosed`; `SessionsEnd` of `CloseEndsAll` and `UselessForgotten`;
`SupervisorProgresses` of `ShutdownCompletes` and `ZombiesReaped`;
`EntrypointReady` of `StateIsTrue` and `ResolverReady`; `CommandAsConfigured` of
`OverridesWin` and `FoundOnOwnPath`.

To repeat one: `tlc -config MCWatcher.cfg MCWatcher`. Every property of a
passing run is also broken by a mutated definition (`PROJECT.json`, `mutants`;
the mutated forms stand before the definitions they replace).

Deadlock is checked, except in `Supervisor` (the container is off),
`PortsClient` (the client has terminated), `UDPProxy` and `Tunnel` (everything
is closed) and `Inputs` (a state is an input).

## Bounds

- `Watcher`: two peers let counts reach two and proxies compete; the channel of
  two (256 in the code) is overrun by three scans, as each scan changes the one
  listen at most once. Clients do not influence each other except through the
  mutex, so one is enough. One listen is enough for the liveness properties,
  which speak of one; that listens do not disturb each other when one scan
  publishes several events is shown for any number of them by the proofs.
- `PeerManager`: `M` is the number of managers alive at once: one cancelled and
  its successor, which compete for the listen's address with each other and with
  an own process. Several peers compete in the same way, and the proofs cover any
  number. A scan that finds no free slot waits. `MaxStream` bounds events in
  flight on a stream: a peer that has filled it cannot change its listens, which
  only delays it.
- `UDPProxy`: one local client whose session can be replaced by a second one
  while the first is still being torn down, and a foreign one; two datagrams in,
  of which the first is empty, and one out. A tunnel of two writes can be full in
  the middle of a frame. `Cap` must be at least two, or a reader that waits for a
  whole frame would never find one.
- `Tunnel`: two pieces in each direction and connections of two pieces: the
  first can be read together with the HTTP text and the second under way when an
  end is closed.
- `MCFunctions`: environments of up to two entries from six, `PATH`s with an
  empty component, empty, and without "="; ids of two bits (32 in the code),
  files of up to two lines, malformed, too large and too long ones included; up to
  two sockets of any family, address and mode, and clients from inside and outside.
- `Supervisor`: the entrypoint and two processes, of which one can be orphaned
  by the other or attached from outside; `sigCh` of one signal (64 in the code)
  drops whatever comes second. Processes are not created twice.
- `PortsClient`: one container, whose ports are independent of those of others;
  two listens of one port exercise the counts; two watcher slots are the old and
  the new watcher of a restart. `OutBuf` 1 blocks watchers in `emit`.
  `MaxStream` as above; `MaxHeld` bounds `pendingOut`, which grows by at most
  what watchers emit before the startup timer ends.
- `Boot`: twelve paths, four images of up to seven entries with files, links,
  directories, unsupported entries and both kinds of whiteouts on and around what
  peel protects: after a link in an image its own entries and those of others go
  through it, one of them cannot be unpacked over two of the others, and it
  replaces peel. `MaxLinks` (40 in the kernel) is three, one more than any walk in
  these images needs. `Path` must hold every path that a walk leads to, or the walk
  would count as a failure: in `MCBoot` no walk leaves it, except after `reached`.
  Nothing else is bounded.

Symmetry is used in the run `client` only, over sets whose elements no definition
distinguishes.

## Fairness

- `Watcher`: weak fairness for each goroutine's next step, strong fairness for
  what waits for the mutex (`FinishClose`, `Cancel`): a Go mutex is handed to a
  waiter that has waited for a millisecond. The properties assume that scans
  keep succeeding.
- `PeerManager`: weak fairness for goroutines and timers. Strong fairness of
  `Dial` and of receiving: a peer that is up again and again is reached in the
  end, and some connection lasts for its snapshot. `RefusedIsRetried` assumes that
  the connection breaks again and again, as only a reconnection tries again.
- `UDPProxy`: goroutines run, and what waits for the mutex gets it in the end (weak
  fairness is enough for `udpLoop`, strong fairness is assumed of the others). A
  peer answers a `/connect` request or its connection breaks: `dialConnect` has no
  deadline of its own, so a peer that does neither would hold the sessions' mutex
  for ever. The peer's forwarders run. Nothing is assumed of clients, of the service
  or of `Close`. The reaper notices that its context is done, because a sweep is
  much shorter than the ticker's period.
- `Tunnel`: goroutines run and the peer's handler answers (its dial is bounded by
  `connectDialTimeout`). `DeliveredToReader` assumes of the applications that they
  read what arrives.
- `Supervisor`: PID 1 is scheduled, pending signals are delivered, the
  `ShutdownGrace` timer elapses, what SIGKILL has hit dies. Processes may ignore
  everything else.
- `PortsClient`: goroutines run, the startup timer elapses, the consumer reads
  `Changes`, and the request of a watcher whose context is done ends (it is made
  with `NewRequestWithContext`).
- Nothing is assumed of the environment: sockets, containers, processes,
  clients, `Kill`, the operator.

## Proofs

Assumptions on the constants are the named `ASSUME`s of the modules: channel
capacities are positive, sets are finite where they are counted, markers such
as `NoOne` are no elements of the sets they mark, and in `Rootfs` the paths are
closed under parents; of images nothing is assumed but the shape of their entries; in `Inputs` the given sets hold environments, files and
sockets of the right shape, an entry without "=" has no value, and a client
connects from inside to a loopback address or from outside to an outer one. TLC
evaluates them in every run. Every safety property of a passing run is the
statement of a theorem. TLC has checked the inductive invariants too, on the
component's own `MC` instance unless another is named below (ages from 0 to 3 in
`Acyclic`).

`WatcherProofs`
- `TypeCorrect`: types, and no channel exceeds its capacity.
- `RefCountsBalance`: inductive with the types alone. The step that counts is
  that `Exclude` adds exactly one peer to the set of proxies that are not
  "none" and `Unexclude` removes exactly one (`FS_AddElement`,
  `FS_RemoveElement`).
- `LiveProxiesHidden` (`ProxiesHidden`): needs `RefBalanced`: `ScanLock` keeps only listens whose
  count is zero, so no peer has a proxy for them, and while the mutex is held
  no proxy can call `Exclude`.
- `NoEventLost` (`StreamExact`): `NoLostEvent` and `EveryEventCounts` are preserved only
  together, with the facts (`StreamInv`) that during a publication `adds` and
  `removes` are parts of the difference of `next` and `current`, and that a
  handler that streams has sent its snapshot. Lemmas on `Believes` carry it:
  what a client believes after an event is appended to its channel
  (`BelievesAppend`) and after one is received from it (`BelievesTail`).
- `WatcherImplementsFeed`: `Init` maps to `Feed`'s, and every step to one of its
  steps or to none. The state function `Reported` is the crux: `ScanLock` and
  `ScanDone` leave it unchanged, and each publication changes it by one listen
  (`ReportedStep`), which `StreamInv` shows to be absent or present before, as
  `Appear` and `Vanish` require.

`SupervisorProofs`
- `TypeCorrect`.
- `NoWakeupLost`: `NoLostWakeup` speaks of an empty `sigCh`; the inductive form
  (`WakeInv`) says that while PID 1 does not reap and a zombie is there, either
  `CHLD` is pending or `sigCh` holds some signal, whose handling reaps too. A
  SIGCHLD dropped at a full channel keeps it true, because the channel is not
  empty then. The lemma `ExitStep` is about the process that becomes a zombie
  child of PID 1 by its own death or by its parent's.
- `MainDeathNoticed`: strengthened (`MainInv`) by: the entrypoint is a child of
  PID 1 once it exists, so only `reapAll` reaps it, and the second `reapAll` is
  only reached in a shutdown.
- `TreeIsEmptyAtReboot` (`TreeEmptyAtReboot`): `wait4` tells PID 1 about its own
  children only, so ECHILD says nothing of their descendants by itself. `TreeInv`
  says that the parent of a process of the tree is PID 1 or a running process of
  the tree (`Rooted`), and that some assignment of ages makes parents older than
  their children (`Acyclic`; a witness is extended by every `Fork`). The process
  with the smallest age would then be a child of PID 1: if PID 1 has none, the
  tree is empty (`EchildMeansEmpty`).

`BootProofs`
- `TypeCorrect`: also, unpacking never runs past the entries of its image.
- `PeelIsKept` (`PeelSurvives`): `PeelInv` is the property together with what peel
  itself has written to `state.json`, its temporary file and `config.json`. Every
  operator of `Rootfs`, and every interrupted entry, leaves `/sbin/init`, `/sbin` as
  a directory and everything below `/peel` alone unless it is applied at a place
  that `Reaches` names; one lemma per operator, for any set of images and paths.
  The condition `reached` is needed: the code does replace or remove peel then.
- `PulledOnce`: strengthened by: the saved reference is the one of the last boot
  that got past `ensureUnpacked`, the file about to be renamed names the image
  of this boot, and an image being pulled is not the saved one.
- `EntrypointIsReady` (`EntrypointReady`): `ReadyInv` says what is on disk at
  every step. While an image is unpacked onto anything at all, every file and link
  that unpacking the entries so far onto the LXD image would have given is there
  (`Agrees(fs, Stages(img)[pos])`), as long as each entry is applied where it would
  have been there (`~astray`), and the state file is not believed; from
  `Rename` on it names the image of this boot. It needs that the root filesystem
  is a tree (`IsTree`), or a file could hide below another. `ApplyAgrees` is the
  crux: an entry that does not fail keeps the agreement, whatever else is on disk.
  That peel's own files and `resolv.conf` change under it without changing where
  anything leads is `OwnStands` and `ResolvStands`. `Stages` is a recursive function;
  that it satisfies its definition is shown by the smallest length without such a
  function (`StagesExist`). TLC checked `ReadyInv` on `MCBoot`.

`PeerManagerProofs`
- `TypeCorrect`.
- `ProxiesBound` (`AddressesOwned`): `ProxiesAreBound` and `OwnUndisturbed` together, strengthened
  (`ListsInv`) by where `toClose` and `proxies` may overlap: `reconcile` closes
  what is still in the map, `stopAll` what it has taken out of it.
- `NothingStale`: strengthened (`FreshInv`) by: a proxy whose listen is in
  `seen` is for a listen still reported, during `reconcile` all others are in
  `toClose`, and a manager without a connection is not synced.
- `ManagersKnown`: strengthened (`KnownInv`) by: discovery knows only live
  managers, each for the peer it was started for and not cancelled; cancelled
  managers are live, and only cancelled ones stop.

`UDPProxyProofs`
- `TypeCorrect`, with what `udpLoop` has in hand at each of its steps (`Handling`).
- `TunnelsNeverLeak` (`NoTunnelLeaks`): `MapInv` adds that a session that was not
  opened yet has left no trace, that the map holds a session under its own client
  only, and that it holds none for the client being dialled for, because the
  mutex is held: otherwise the new session would displace one nobody closes.
- `SessionsInUseStay` (`OnlyDeadOrIdleClosed`, an action property): `CloseInv`
  carries the reason for closing from the step where it was found to the step that
  closes: the stream broken, the proxy closed, or, for what the reaper takes out of
  the map, the session idle since the reaper took its cutoff. Between that step and
  its close nothing is looked at again, and the property says no more.
- `DatagramsAreWhole` (`DatagramsWhole`): `FrameInv` describes what is in each
  tunnel. A function from its writes to the numbers of datagrams (`Framed`) says
  that they are the frames that come next, in order, each length followed by its
  payload; a length without payload stands only at the end, and then its writer is
  about to write the payload or can write no more. `FramedLength`,
  `FramedPayload` and `FramedRead` are the three ways to change a tunnel.

`TunnelProofs`
- `TypeCorrect`: also, no buffer exceeds its capacity.
- `AlwaysFaithful` (`Faithful`): both directions are one shape, source, copier,
  buffered copier, sink, so everything is stated once for a direction `d`.
  `Aligned` counts the pieces that have come past each of the places of the chain and says
  that a place holds the ones that come next, as far as the ends between it and the
  sink are still open; `Known` and `Counted` say that nothing but what was sent is
  under way and that it is numbered in order. `Phases` relates the two ends of the
  setting up of the chain: where the HTTP text stands and which copiers run. TLC
  checked it (`ChainInv`) with three pieces up, two down and capacity three
  (290,748 states).

`PortsClientProofs`
- `TypeCorrect`, with `BaseInv`: what a watcher holds follows from where it is
  (`SlotInv`), and what the channels hold from where `run` is (`RunInv`; during
  startup, no more callbacks and results are outstanding than `remaining`).
- `CountsAreRight` (`CountsMatch`): `StreamInv` says of the events still on a
  stream that applying them, one by one, to what was heard gives sets in which
  each added listen is new and each removed one present (`Replay`). Counting one
  listen more or less changes one count by one (`CountStep`).
- `ConsumerStaysInStep` (`ConsumerInStep`) and `ChangesStayNews`
  (`ChangesAreNews`): proved together from `ToldInv`. For a container without
  discarded results or overlaps, one watcher works at most; each
  batch on its way opens only ports that are closed, and closes only ports that are
  open, in what the consumer will have been told by then; and after all of them
  the consumer believes what the watcher counts, less the batch in its hand. TLC
  checked it with one container, two listens of one port and two watcher slots
  (5,923,965 states), and on two containers as far as it got.

`InputsProofs`
- `ScansAreExact` (`ScanIsExact`): `parseHexIP` undoes the kernel's order of bytes
  for every address of four or sixteen bytes (`HexInverted`), and a row is reported
  exactly if its socket listens on a local address (`RowRead`).
- `AlwaysForwarded` (`ForwardedToService`): the socket of a proxy serves no
  address that the socket it stands for does not (`ProxySocket`), and what is
  dialled reaches the socket that would have answered (`DialledForClient`), for
  any set of sockets that do not overlap.
- `IdsAreAsked` (`IdsAsAsked`): for any files and any width of ids.
- `CommandIsConfigured` (`CommandAsConfigured`): `Merged` describes the environment
  after n overrides as a set, without a key twice: the last override of each key,
  and the image's entries that none of them overrides. Then the first entry, which
  `lookupEnv` reads, and the last, which os/exec keeps, are the same, and so are
  the two `PATH`s, except that a `PATH=` without value is found first and leads
  to no program (`OnePath`).

Only model-checked: all liveness, as the prover has no fairness and no ENABLED
(`ViewConverges`, `SupervisorProgresses`, `ProxiesEnd`, `RefusedIsRetried`,
`LoopReturns`, `SessionsEnd`, `EndsTogether`, `DeliveredToReader`,
`KillTerminates`, `SnapshotIsSent`), and the three properties that the code
violates. Induction over data is done by smallest counterexamples
(`WFMin` of `WellFoundedInduction`), because the library's induction theorems take
an operator as a parameter.

## Where code and comments disagree

Each is a run whose property states what a comment says and is violated by what
the code does; `PROJECT.json`, `findings`, quotes the comment.

| Run | What happens |
|---|---|
| `client_late` | Ports of a container that answers after the startup timeout are never reported open |
| `watcher_readvertised` | A scan reads the row of a proxy, the proxy is closed and un-excluded before the scan takes the mutex, and the scan publishes the row as an own listen; peers proxy it in turn until the next scan withdraws it |
| `functions_reach` | A socket bound to `::` that serves IPv4 as well (what Go programs open by default), or to an IPv4-mapped address, is in `/proc/net/tcp6` alone; its proxy is bound with "tcp6", which serves IPv6 only, or fails to bind: IPv4 clients do not reach the service |

Other behaviours of the model that a comment of the code does not suggest, and
that the properties are worded around:

- `state.json` is replaced after the last layer: when unpacking image B over A is
  interrupted and the configuration set back to A, `ensureUnpacked` skips the
  unpacking (`main.go:121`) and the entrypoint of A runs on a mixture of the two,
  although "State describes the image that is currently unpacked onto the rootfs"
  (`state.go:38`). TLC reaches such disks; `~mixed` in `StateIsTrue` leaves them out;
- a symbolic link that one image leaves in the place of a directory leads the
  entries of the next image elsewhere (a change from an image with `/bin -> usr/bin`
  to one with a real `/bin` whose archive has no entry for `/bin` itself), where they
  may replace files of that image itself: `~astray` in `StateIsTrue` leaves this out;
- `isProtected` compares names (`extract.go:63-77`), and links in the parents of a
  path are followed (`extract.go:155-170`): a layer with `x -> sbin` and `x/init`
  replaces peel, with `x -> peel` the state file. A whiteout of the root, opaque or
  with nothing behind its prefix (`extract.go:113-117`), removes `/sbin` or all there
  is, because only the names of direct children are compared. `PeelSurvives` speaks
  of the disks to which this has not happened (`~reached`);
- a datagram from the service that is recorded between the reaper's look at
  `lastActive` and its `Close` (`proxy.go:245-247`) does not keep the session: it may
  reach the client, but the session is closed. `OnlyDeadOrIdleClosed` speaks of the
  moment of the look;
- a listen whose address was in use when it was reported is not tried again on
  that connection (`peer.go:38-39`): `RefusedIsRetried` speaks of later ones;
- an image that has a variable twice: an override replaces its first entry, and
  os/exec uses the second (`entrypoint.go:110-111`): `OverridesWin` leaves such
  images out. `PATH=` with an empty value: a default is appended, but the lookup
  still reads the first entry, and the entrypoint is not found
  (`entrypoint.go:40-41`);
- the proxy of a wildcard listen takes the container's other addresses too, and
  refuses what does not come from loopback: a process that connects to its own
  container's outer address is refused as well (`proxy.go:113-116`);
- an own listen is withdrawn while open when a proxy for it is being attempted
  as a scan filters (`types.go:56`), and a client that subscribes between an
  `Exclude` and the next scan gets the excluded listen (`watcher.go:170`):
  `OwnListenReported` and `ProxyStaysHidden` speak of what holds in the end;
- a request of LXD that finds `sigCh` full is lost (`supervisor.go:39-41`):
  `ShutdownCompletes` starts when a request has reached `sigCh`;
- the final closes of a stopped watcher may overtake the opens of its successor
  (`client/watcher.go:84-86`), and after `Kill` they are not sent at all
  (`client/client.go:146`): `Regular` in `ConsumerInStep` leaves both out;
- files of a previous image stay when another one is unpacked
  (`rootfs/package.go:15-17`; the repository's README says that peel deletes
  nothing): `StateIsTrue` asks for the files of the image, not for no others.

## What is not modelled

- Configuration (`config.Load` copies one JSON document, once; in `Boot` a
  configuration is the image it names) and registry access (`pull.Image` is one call
  of a library). Both are sequential and keep no state.
- Netlink, DHCP, SLAAC, registry access: I/O through libraries without state of
  their own. In `Boot`, whether nameservers were obtained and whether a pull
  succeeded are choices.
- Loss of unsynced writes at a power failure of the host: `Boot` models crashes
  after which the kernel keeps what was written.
- Ownership, modes, times and xattrs of files. A hard link is a file with the
  content it links to, and its failure for want of a target is left out; relative
  links and `..` in them are paths from the root here.
- Malformed streams and frames: both ends are peel. Ports in `Addresses`: they are
  carried along unchanged.
- A peer that accepts `/connect` and never answers (see Fairness).
- `Watcher` and `PeerManager` of several containers composed: each is checked
  against the most general behaviour of the other (peers that report and withdraw
  anything at any time; proxies that start and stop at any time), which includes
  what a real one does.
- Build tooling and system tests.

## Plan

1. Safety parts of liveness properties, as theorems of their own: a closed tunnel
   end that is never opened again, the measure that falls with every step of a
   shutdown.
2. `Rootfs`: two complete unpackings of the same image agree on every path that no
   earlier image had.
3. `PeerManager` against `Feed`: a manager's stream as a client's of the abstract
   feed, proved step by step as for `Watcher`.
