# nova-ve: a TLA+ verification project

nova-ve runs network labs on one Linux host. A lab is a JSON document
(`lab.json`) of nodes, networks and links. The FastAPI backend edits it, runs the
nodes (Docker, QEMU, IOL, Dynamips), wires their interfaces to host bridges, and
tells browsers what changed over WebSockets. This directory holds TLA+ models of
the parts where order matters, TLC configurations that check them on small
instances, and TLAPS proofs for every instance.

Paths below are relative to `src/backend/app` unless they start with `frontend`,
`deploy` or `scripts`; `nrs` is `services/node_runtime_service.py`.

## 1. Inventory

| Component | State | Operations | What makes it correct |
|---|---|---|---|
| Link service (`services/link_service.py`) | `links`, `networks` of lab.json; idempotency cache | create, delete, patch | one link per interface, hidden networks of two, rollback leaves nothing, every request ends |
| Runtime mutex (`services/runtime_mutex.py`) | a lock per (lab, node, interface), one per node | acquire with a bounded wait, release | no circular wait, the event loop never waits for a launch |
| Docker runtime (nrs) | runtime records, attachments, generations, containers, veths | start (worker thread), stop, wipe, attach, detach | records match the kernel, running nodes are wired as lab.json says |
| QEMU cards (nrs) | TAPs, QMP objects, PCIe root ports, records | boot, hot-plug, unplug, reconcile | ports exclusive, records whole, kernel follows lab.json |
| Process supervision (nrs, `runtime_pids.py`, `runtime/iol.py`, `runtime/dynamips.py`) | registry, state files, pids.json, processes, VMs | start, stop, wipe, adopt | every workload can be found and stopped, no other one is hit |
| Heartbeat (nrs) | snapshot, suppression window, `status` | probe, apply | no verdict from before a transition |
| Networks and clouds (`services/network_service.py`, `cloud_inventory_service.py`, `host_net.py`, `deploy/nova-ve-net.py`) | network records of all labs, bridges, fingerprints, NAT | create, delete, patch, open a lab, delete a lab or folder, startup sweep | disjoint subnets, references have owners, a bridge belongs to one network, opening repairs |
| Node handlers (`routers/labs.py`) | `nodes` of lab.json, `lab_lock` | create, update, delete, batch, layout, PUT topology, paired templates | the document changes by whole edits |
| Paired templates (`services/template_service.py`) | — | predict, validate, resolve interface names | what was validated can be built |
| lab.json store (`services/lab_service.py`, `lab_lock.py`) | the file | read, write, lock | writes are not lost |
| Runtime migration (`scripts/migrate_runtime_network.py`) | backups, journal, orphan manifest | migrate, roll back, rerun | nothing removed is forgotten, reruns complete |
| Event hub (`services/ws_hub.py`, `routers/ws.py`) | ring of events, numbers, subscribers | publish, handshake, replay, subscribe | no duplicates, bounded loss, the dead leave |
| Browser client (`frontend/src/lib/services/wsClient.ts`) | sockets, timer, visibility | connect, reconnect, hide, show, close | always a way back |
| Browser stores, discovery loop, IPAM, MAC registry | see section 6 | | |
| Auth, users, images, consoles, importer, canvas | database rows, files | CRUD, lookups | not protocols |

**How they interact.** One process, one event loop. A request handler runs alone
between awaits. A link request takes the mutexes of its interfaces, edits
lab.json, calls the runtime synchronously, and publishes events; it yields only
while waiting for a contended mutex (an executor thread blocks on it) and while
publishing, with the mutexes held. `start_node` runs in a worker thread on a copy
of lab.json read before; a QEMU launch holds the node mutex there. The heartbeat
awaits a probe in the executor. Network handlers never await between their first
read and last write, but each is a sequence of host commands that may fail or be
cut off by a crash. A paired-template request awaits one link after the other and
holds `lab_lock`, which some handlers take and others do not. The hub fans events
out one subscriber at a time and yields at every send.

**What is hard.** `PROJECT.json` lists the hazards with their lines and the
properties that would catch each one going wrong.

## 2. Modules

| Module | Models | Used by |
|---|---|---|
| `LabJson` | the document and the pure edits of link_service | LinkService, LabEdits |
| `LinkService` | link requests, mutexes, Docker runtime, node and network handlers | MCLinkService |
| `QemuNics` | the cards of a QEMU node | MCQemuNics |
| `NodeRuntime` | processes, registry, pids.json, heartbeat, backend crashes | run `NodeSupervision` |
| `CloudNets` | networks of several labs on one host | MCCloudNets |
| `PairedTemplates` | interface names and links of a paired template | LabEdits |
| `LabEdits` | edits of lab.json made by the node handlers | LabDocument, LabHandlers |
| `LabDocument` | abstract specification: whole edits only | LabHandlers |
| `LabHandlers` | the handlers of one lab beside a paired request | MCLabHandlers |
| `RuntimeMigration` | the migration script | MCRuntimeMigration |
| `WsHub` | hub and handshake | MCWsHub |
| `WsClient` | the browser's sockets | run `ClientReconnect` |
| `LabJsonProofs`, `LinkServiceProofs`, `QemuNicsProofs`, `NodeRuntimeProofs`, `CloudNetsProofs`, `LabHandlersProofs`, `RuntimeMigrationProofs`, `WsHubProofs` | theorems about these modules; `WsHubProofs` has the one about `WsClient` too | |

The `MC*` modules give endpoint pairs, templates, networks and symmetry sets to TLC.

### LabJson and LinkService

`lab` is the document: `nodes`, `nets` (none, implicit = hidden, explicit) and
`links` with id, endpoints and stamped generation. Labels, styles and positions
decide nothing and are absent. `rec`, `att`, `cur` are the runtime record of a
node: existence, attachment per interface, `current_attach_generation`. `cont`,
`veth`, `bridge` are the host: containers, host-side veths (absent, on no bridge,
or on a network's bridge), bridges (absent, without or with this lab's
fingerprint). `mutex`, `loop`, `req`, `start`, `cache` are the requests: who holds
a port, who runs on the loop, each request's and start thread's program counter,
and the idempotency keys in LRU order.

| Action | Code |
|---|---|
| `CreateBegin`, `DeleteBegin`, `CreateReplayed` | `create_link`, `delete_link` up to the mutexes; cache hit |
| `AcquireFree`, `AcquireContended`, `ExecutorAcquire`, `Resume`, `AcquireTimeout` | `runtime_mutex.acquire`: fast path, executor hop, wake-up, bounded wait |
| `CreateRefused`, `CreateOffline`, `CreateAttached`, `CreateNoBridge`, `CreateRolledBack` | the outcomes of `_create_link_locked` and `_hot_attach_running_endpoints`: 409/404; no node running; attached; bridge not made; attach failed and undone |
| `DeleteVanished`, `DeleteFailed`, `DeleteDone` | the outcomes of `_delete_link_locked` with the detach inside |
| `Finish` | last event sent, cache entry, mutexes released |
| `StartBegin` ... `StartCommit` | `start_node`: read, registry check or adoption, pre-flight and `docker run`, veths, registry entry; `StartRefused`, `StartAborted` are its failures |
| `StopNode`, `CreateNode`, `DeleteNode` | the handlers in `routers/labs.py` |
| `CreateNetwork`, `DeleteNetwork`, `NameNetwork`, `EnsureBridges` | `network_service.py` |

Everything a handler does between awaits is one step: the edit of lab.json, the
attach loop with its rollback, the generation stamp and the rewrite are inside
`CreateAttached` or `CreateRolledBack`. `HostFaults` lets every host *network*
command fail. `docker stop` and `docker rm` are taken to succeed; the veths of a
removed container die with it, so stopping leaves none behind. `CreateRefused`
also refuses what does not fit the model's bounds (`Fits`); it changes nothing.

### QemuNics

One QEMU node. Interfaces below `Boot` are cards QEMU was started with; each has a
permanent TAP and is wired by enslaving it. The others are plugged into a free
PCIe root port over QMP. `n` holds the TAPs, QEMU's netdevs, devices, pending
ejections and carriers, and the runtime record's attachments, ports, generations
and TAP names; `doc` is the link of each interface in lab.json. A link handler does
not await once it has its mutexes, so create and delete are one action each, and
what varies is which command fails and whether one that timed out was applied:
`Attach`, `Detach` and `Reconcile` return the set of their outcomes. `logged` are
interfaces whose drift the last operation reported, `halfway` those whose detach
failed and was reported. `GuestEjects` is the guest's own time. `EnsureLabBridges`
and `PutTopology` are the other two callers of the reconciler and of `set_link`.

### NodeRuntime

Any number of QEMU, IOL and Dynamips nodes. A process is a pid and its creation
time, and pids are reused; a Dynamips VM is a name in the hypervisor. `reg`,
`file`, `pids` are the registry, the state files and pids.json. Starts go through
`StartCheck`, `Launch`, `Register`, `Commit`, `Persist`, each of which a crash may
follow (`KillMode=process`: workloads survive). The heartbeat takes a snapshot
(`BeatBegin`), asks (`BeatNext`), probes in the executor (`BeatProbe`) and applies
(`BeatApply`). Assumptions, as constants: `OneStart` (the browser keeps a second
start of the same node back) and `PromptBeat` (a probe, milliseconds, is over
before a start that overlaps it commits). `lost` remembers the workloads that a crash
orphaned. `OwnUuid` is empty in the run, so that
adoption happens; see section 5.

### CloudNets

`nets` are the networks of every lab, `host` the bridges with fingerprint and NAT,
`hash` the 16-bit hash in bridge names, which two labs may share. A handler puts
its effects into `op.todo`, and `Step` carries out one after the other; `StepFails`
makes a command fail, with the handler's own rollback (`AfterFailure`); `Crash` and
`Reboot` may come between any two and tear the file being written. `patched`,
`damaged`, `leaked` remember the three ways in which the code gives its promises
up: PATCH checks nothing, a torn file, a removal that tears nothing down.

### LabDocument, LabHandlers, PairedTemplates, LabEdits

`LabHandlers` has every handler that writes the lab.json of a lab. All but one are
one step. `create_nodes_from_paired_template` is `PairBegin` (pre-flight, lock,
snapshot, children), `PairLink` per link, and after a failure `PairUndoLink` per
link and `PairRestore`. Handlers that take `lab_lock` are refused meanwhile: they
spin on the event loop, so the holder cannot go on before their five seconds are
over. The links of a paired request take their mutexes like any other, so one from an
interface to itself fails. `view` is the copy of a browser that sends it back with PUT /topology.
`LabDocument` is what users are promised: a document that changes by one request
at a time, a paired template in one piece. `WholeEdits` is the refinement
(`INSTANCE LabDocument WITH`): while a paired request is on its way the document
is the snapshot. The refinement mapping stops following the file at the first step
of a handler that slips past the lock, or that brings back links from an old copy
(`slip`), because there the code breaks the promise.

### RuntimeMigration

The whole script but `--dry-run`. `job` is the running script with its journal,
`stamped`, `pinned`, `torn`, `backup` are the lab files, `docker`, `busy` the host.
`Fault` counts failures and kills. `forgone` are removals whose journal was lost: a
kill, a failed write of lab.json (the exception bypasses the rollback), an
unwritten or overwritten manifest.

### WsHub

A step is what a coroutine does up to its next await: a send writes first and
yields then, so `Publish` contains the first send, and a handshake with nothing
to replay subscribes in the same turn. `since` is an arbitrary `last_seq`: a
browser may bring a number from before a backend restart. `cut` and `joined` are
history: the head when the replay or snapshot was taken and when the connection
subscribed. A connection object is used once.

### WsClient

Callbacks are atomic. `close()` makes a socket "closing"; its close event
(`Closed`) comes later and runs `handleClosure`, which does not look at which
socket it was. Backoff only delays the timer. A failed constructor and a lost
connection count against `MaxFaults`, so that losses stop eventually.

## 3. Runs

| Run | Instance | Checks |
|---|---|---|
| `LinkEdits` | 2 requests, 3 nodes, 2 networks, 3 link ids | `TypeOK`, `OneLinkPerPort`, `LinkedNetworksExist`, `ImplicitAtMostTwo`, `NoWaitCycle`, `HeldWhilePublishing` |
| `LinkFair` | 2 requests with 2 keys, cache of 1, 1 start thread, a self-link, fairness | `CacheBounded`, `RequestsEnd` |
| `LinkRuntime` | 1 request joining a node's two interfaces, 1 start thread, 2 networks, host faults | `RecordBacked`, `HandlersKeepWiring`, `FailedCreateUndone` |
| `QemuHotplug` | 1 boot card, 2 hot-plugged, 3 root ports, 2 networks, 1 fault | `PortsExclusive`, `SlotsExact`, `AttachedWhole`, `HostFollowsDocument`, `TokensAgree` |
| `NodeSupervision` | one node of each kind, 2 pids, 2 launches, 1 crash | `KnownRunning`, `LoopNeverWaits`, `KnownAuthorized`, `NoStrayKill` |
| `Clouds` | 2 labs, 2 hashes, 2 networks each, 3 together, a pool of 2, 1 fault | `CidrsDisjoint`, `ReferencesOwned`, `HostMatchesLabs`, `CreatedIsWhole`, `OpenRepairs` |
| `LabRequests` | 3 nodes, 3 templates (two links; a list format; a broken one), 6 requests, fairness | `HandlersTypeOK`, `LinksOnNodes`, `PreflightMirrors`, `WholeEdits`, `PairEnds` |
| `Migration` | 3 labs, two of the same file name, 4 networks, one foreign bridge, 2 faults, fairness | `StampedClean`, `NothingForgotten`, `DocumentSafe`, `Migrates` |
| `HubFanout` | 2 publishers, 2 connections, ring of 2, 3 events | `EventsOnce`, `OnlyHandshakeGap` |
| `HubFair` | 1 publisher, 2 connections, ring of 1, 3 events, fairness | `GoneLeave`, `PublishesEnd` |
| `ClientReconnect` | 3 sockets, 3 faults, fairness | `NeverStranded`, `Reconnects` |
| `LabBargeDoc` | as `LabRequests` | `RestoreKeepsOthers` is violated |

Together the passing runs take every action and every disjunct of the next-state
relations. Their properties are checked to be about the code: for each of them
`PROJECT.json` names a changed definition (a dropped guard, a missing reset)
under which TLC finds the property violated.

`LabBargeDoc` shows that a comment and the code disagree: `routers/labs.py:983`
says that the lock keeps concurrent writers out between snapshot and restore, but
`create_node`, `update_node` and `delete_node` never take it. A node created while
a paired request awaits a link that then fails is gone after the restore.

**Bounds and why they are enough.** `MaxLink`, `MaxNet`: ids are the largest plus
one, so reuse needs only a create after a delete of the largest; two networks give
one visible and one hidden, three links give the third endpoint that promotes.
`MaxGen`: 1 separates never attached from attached, more adds re-attaches. Two
requests are what a lock conflict or a wait cycle needs, and there are two ports
in a request. One node with two interfaces has everything the Docker runtime
distinguishes; `LinkEdits` has three nodes because it is about the document.
`CacheMax = 1` with two keys makes every insert an eviction. Three root ports of
which one is the boot card's leave two for two hot-plugged cards: a leaked port is
missed at once. Two pids and two launches are what a reused pid needs. Two labs
with two hashes have every case of collision and of sharing; a pool of two blocks
runs out. Six requests are a paired request, what it needs before, and two
handlers that interfere. In `Migration` two faults are a failure and a failure of
its rollback, or a failure and a kill. Ring and events are chosen so that both a
replay of several events and an overflow happen. Requests, connections,
publishers, labs, hashes and networks are interchangeable, hence the symmetry in
runs without liveness. Models that may stop (every event published, every request
made, every lab removed) turn the deadlock check off; the others keep it.

**Fairness.** `LinkService!FairSpec`: strong fairness of a request's steps on the
loop, because asyncio runs ready coroutines in FIFO order and the loop becomes
free again and again; weak fairness of the executor thread that blocks on a free
lock. `AcquireTimeout` is among the fair steps: the wait is bounded by
`acquire`'s timeout. `LabHandlers!FairSpec`: the paired request goes on, because
every wait in it (mutex, send to a browser) has a timeout.
`RuntimeMigration!FairSpec`: the script runs on and is run again by the operator, which is what its
exit code 2 asks for. `WsHub!FairSpec`: weak fairness of senders and handlers; a
send to a peer that stopped reading ends when the server's keep-alive closes the
connection. `ClientFairSpec`: timers fire, connections are answered, close
events arrive. Publishing, connecting and new requests are never fair.

**What `RecordBacked` does not say.** It is checked with one start thread at a
time. With two, the second adopts the first one's container before its veths
exist, and its record names veths that are not there.

## 4. Proofs

Eight modules prove theorems for every value of the constants: any number of
nodes, interfaces, requests, threads, labs, connections, faults and crashes, and
any bound. Each extends the module it is about and uses only that module's named
assumptions (`LabConstants`, `ServiceConstants`, ...), which TLC evaluates in the
runs. Hypotheses beyond those are part of the theorem and are given below.

| Module | Theorem | Property | Hypothesis |
|---|---|---|---|
| `LinkServiceProofs` | `TypeCorrect` | `TypeOK` | |
| | `LinksUnique` | `UniqueLinkIds`, `OneLinkPerPort` | |
| | `MutexesHeld` | `HeldWhilePublishing` | |
| | `NoCircularWait` | `NoWaitCycle` | |
| | `LinkedNetworksKept` | `LinkedNetworksExist` | `PortInEveryPair` |
| | `HiddenNetworksSmall` | `ImplicitAtMostTwo` | `PortInEveryPair` |
| | `IdempotencyCacheBounded` | `CacheBounded` | |
| | `FailedCreatesUndone` | `FailedCreateUndone` (action) | |
| | `RecordsBacked` | `RecordBacked` | `OneStarter` |
| | `HandlersWire` | `HandlersKeepWiring` (action) | |
| `QemuNicsProofs` | `PortsNeverShared` | `PortsExclusive` | |
| | `NoPortLeaks` | `SlotsExact` | |
| | `RecordedCardsWhole` | `AttachedWhole` | |
| | `CardsFollowDocument` | `HostFollowsDocument` | |
| | `DeletesNotStale` | `TokensAgree` | |
| `NodeRuntimeProofs` | `RegisteredForItsNode` | `KnownAuthorized` | |
| | `KillsOwnOnly` | `NoStrayKill` (action) | |
| | `LoopRuns` | `LoopNeverWaits` | `OneStart` |
| | `WorkloadsFound` | `KnownRunning` | `OneStart`, `PromptBeat` |
| `LabHandlersProofs` | `DocumentWellFormed` | `HandlersTypeOK` | |
| | `LinksStayOnNodes` | `LinksOnNodes` | |
| | `PreflightHolds` | `PreflightMirrors` | |
| | `EditsAreWhole` | `WholeEdits` (refinement) | |
| `CloudNetsProofs` | `SubnetsDisjoint` | `CidrsDisjoint` | |
| | `ReferencesKeepOwner` | `ReferencesOwned` | |
| | `CreatedWhole` | `CreatedIsWhole` (action) | |
| | `HostAgrees` | `HostMatchesLabs` | |
| | `OpeningRepairs` | `OpenRepairs` (action) | |
| `RuntimeMigrationProofs` | `MigratedClean` | `StampedClean` | |
| | `RemovalsAccounted` | `NothingForgotten` | |
| | `BackupsKept` | `DocumentSafe` | |
| `WsHubProofs` | `NoEventTwice` | `EventsOnce` | |
| | `GapOnlyInHandshake` | `OnlyHandshakeGap` | |
| | `ClientNeverStranded` | `NeverStranded` of `WsClient` | |

`PortInEveryPair`: every requested pair has a node interface. The code also lets
two networks be joined and then looks up one of them only, so a link may name a
network that does not exist; the theorems are about the other requests.
`OneStarter`: one `start_node` thread at a time; see the end of section 3.
`OneStart`: one start of the same node at a time, as the browser arranges it; with
two, the second finds the mutex of the first one's launch taken.
`PromptBeat`: no start commits while a probe of the heartbeat that began before it
is under way; otherwise the stale verdict drops the record of a live workload.

**LinkService.** `IInv` is `Sound(lab)` (typed, ids distinct, ports used once),
`RuntimeTyped` and `LocksTyped` (the other types), and `LocksTaken`: a request's
lock list is `LockOrder` of its endpoints, it owns exactly the first `held` ports
of the list and these are distinct, it owns all of them while it publishes and not
all while it waits. `OneLinkPerPort` needs the locks in one place: a link from an
interface to itself would put one port at two ends of a pair, and what excludes it
is not the in-use check but the mutex, which is not reentrant, so such a request
never has all its locks. `NoCircularWait` supposes a set in which everyone waits
for another member. The port a member waits for is owned by the next one, which
wants a strictly larger port (`WaitAscends`); so the wanted ports would ascend for
ever, and there are finitely many. `TidyInv` adds that linked networks exist,
that a hidden network has two endpoints at most, and that a create still has
the endpoints it was made for. `BackedInv` adds what a start thread knows: past its
check its node has no record, nobody else runs that container, and the veths it
made stay until its record is there. The two action properties use `IInv` alone,
one step at a time. `LabJsonProofs` has the lemmas on the document: ids handed out
are fresh, and every edit keeps a sound document sound.

**QemuNics.** `NicInv` joins the record with the devices: `CardsSound` (the ports in
`allocated_slots` are those of the entries, each of one card; an entry carries its
card's generation), `LifeSound` (a dead process has no devices, no record means no
entries), `HotSound` (a recorded hot-plugged card is the one of its link with the
same token). Every command has a lemma about the set of its outcomes
(`AttachOutcome`, `DetachOutcome`, `PassDone`): what is left when it succeeds, fails
half-way or times out; the actions only combine them.

**NodeRuntime.** `Supervised`: creation times of processes and records are at most
`launches`, so that a new process is unlike everything recorded; a record that
names a running process names one of its own node, registered in pids.json for it
(`RecordsOwn`); and between spawn and commit nobody but the start thread knows its
process (`ThreadsOwn`). The last part is what makes a kill by number safe: a pid is
handed out again only after the process is gone, and then its creation time is
another. `OneInv` adds, under `OneStart`, that a node being started has no record.
`KnownInv` is what `KnownRunning` needs on top of it, in two parts. `RunInv`: a state
file that the registry does not know names no live process; only between commit and
persist is a workload in the registry and not in the file; a QEMU node has one
process at most; creation times are unique; and while the backend is down every
workload is in its file or among the lost. `BeatInv`: what the heartbeat has read of
a node is still what the registry says, or was dropped there, or the node is young
and the verdict will be suppressed; and it never saw a Dynamips VM alive. The last
two conjuncts are why a probe that is answered late cannot drop a live record.

**LabHandlers.** `HandlersInv` says of a paired request in progress that its snapshot
is as sound as the document (it will be written back), that its children's ids and
remaining links fit, and that until a handler slips past the lock both are linked
to existing nodes only. For the refinement, `Whole` says that the document is the
snapshot with the children and the first `next - 1` links, stage by stage of
`PairStages`; so the last link is the step that `LabDocument` takes in one piece,
and every earlier one is a stutter. Each remaining request is one step of both, and
after a slip the mapping is frozen.

**CloudNets.** The labs are good (`Good`: subnets disjoint, references owned) between
any two effects of a handler only because every file effect still to come, of the
handler *and* of the rollback it would run, leaves them good too. `CloudInv` says
just that: `op.todo` and `op.undo` consist of effects that are safe in the current
state. A failure, crash or torn file at any place is then covered. Each handler has
a lemma that the effects it plans are safe.

The bridges need three more invariants, all about the effects to come. A handler's
plan is a sequence, but what each bridge will be follows from the set of its effects,
so the invariants speak of sets and only feasibility speaks of positions (an address
comes after its bridge). `CreateInv`: the effects of a running `create_network` make
its network whole, or they are the writes of its conflict rollback, whose last one
removes the record. `CalmInv`: while nothing has failed and nothing leaked, there are
networks and files that the file effects to come lead to (`Settles`), in which each
bridge is named after its network (`Named`), and the commands to come raise the bridge
of each network and lower every other one (`Fits`), each of them feasible in its turn
(`Orderly`). At rest nothing is to come, and this is `HostMatchesLabs`. `EnsureInv`
supposes nothing of the host: until one of its commands fails, an
`ensure_lab_bridges` still has the effects that bring each bridge up, give it a
fingerprint and route its subnet, unless it belongs to another network. Only the
address of a reference may find no bridge there, and what the handler then skips
concerns no network of its own. The plans of a whole lab are concatenations, for which
`FlattenInduction` and a lemma on one more network (`MendsOneMore`, `DownStep`) are
proved. `HostBr` is no lab's bridge name (`CloudConstants`), and a host has finitely
many labs (`FiniteLabs`), which the cardinality in `OpenRepairs` needs.

**RuntimeMigration.** `JournalSound` is what the three invariants lack: the journal
speaks of networks of the lab in hand that are not stamped yet, those dealt with
are gone from Docker, and the lab in hand has its backup.

**WsHub.** `HubInv`: the ring is a run of consecutive numbers ending at the head
(`RingSound`), each publish in progress has a number of its own that none of the
connections it has yet to serve was sent (`CallSound`), and a connection was sent,
or will be, everything up to its cut and after its subscription (`Replayed`,
`Served`). `NeverStranded` of the client is inductive as it is.

A proof by induction over a set of numbers is possible here where one with a
predicate is not, so what `ReplaySince`, `ForOthers` and `PairStages` compute is
proved from the set of the numbers up to which it is right; these three are
recursive functions in the models for that reason.

**Only model-checked.** Liveness under fairness (`RequestsEnd`, `PairEnds`, `Migrates`,
`GoneLeave`, `PublishesEnd`, `Reconnects`) is out of the prover's reach: it needs
ENABLED. `RestoreKeepsOthers` is violated. Every other property of the runs, each
invariant and each action property, is stated by a theorem.

## 5. Where documents and code part ways

These are in the models, with no run of their own (lines of the code):

- After a restart of a Docker node the stamped generation is stale: deleting a link
  skips the detach and still removes the link (`nrs:2817`; the docstring at
  `link_service.py:1210` says the link goes on "successful detach").
- A delete that waited for its mutexes removes the link that reused the id
  meanwhile (`link_service.py:1151`: "we acquire one extra mutex").
- A link made between a start's read of lab.json and its commit stays unattached
  (`routers/labs.py:1519`; `link_service.py:750`).
- `delete_node` removes links without the cascade of `delete_link`
  (`link_service.py:1444`: "paired by construction"); the garbage collection of a
  network leaves its kernel bridge (`link_service.py:1448`).
- PUT /topology with an old copy brings deleted links back when `links[]` is empty
  (`lab_service.py:572`).
- A format given as a list passes the pre-flight of a paired template and fails
  when its links are made (`template_service.py:193`); `PreflightMirrors` excepts it.
- Orphaned QEMU processes are recognised by the uuid `<lab>-<node>`, but the
  handlers give every node a uuid of its own, which the command line prefers
  (`nrs:1740`, `nrs:1003`): only nodes of documents without one are adopted.
- The heartbeat's probe does not know Dynamips VMs, so their status goes to stopped
  (`nrs:1569`); `_stop_dynamips_runtime` drops the record when the hypervisor does
  not answer.
- `patch_network` replaces the type and subnet of a cloud without the checks of
  `create_network`; deleting a folder tears no network down; a reference's owner
  bridge is not created when the referring lab is opened.
- The migration's rollback is bypassed when writing lab.json fails; two labs of the
  same file name share a backup; a manifest is overwritten within a second.
- `replay_since(0)` returns an overflowed ring instead of asking for a resnapshot
  (`ws_hub.py:87`). When lab.json cannot be read, `force_resnapshot` is not followed
  by `lab_topology` (`wsClient.ts:172`).
- The close event of an old socket orphans the current one, which then stays open
  while the tab is hidden (`wsClient.ts:220`).

## 6. Not modelled

- `patch_link` and cosmetic patches: no decision reads what they write. `update_node`
  that shrinks a node's interfaces.
- Command lines, overlays, NVRAM, licences, NETMAP, console ports and proxies: a
  launch succeeds, is refused or fails.
- Containers that die by themselves and a `docker rm` that fails.
- The discovery loop: it reads the kernel and publishes, and changes nothing else.
- IPAM: one atomic edit under the lock. MAC addresses and their registry: the
  registry is a cache in memory that only adds a 409.
- The client's `lastSeq`, the order in which events reach it, the browser stores.
- Packet rules of the privileged helper, its argument checks and capabilities.
- Authentication, users, images, consoles, the importer, the canvas and the other
  migration scripts: lookups, CRUD, sequential conversion and rendering.

## 7. Plan

1. Done: document, link service, mutexes, Docker runtime; QEMU cards; supervision
   and heartbeat; clouds; node handlers with the refinement of `LabDocument`;
   migration; hub; client sockets; the theorems above, for every invariant and action
   property of the runs.
2. What a further proof could drop are hypotheses: `OneStarter` by modelling the
   adoption of a container whose veths are still missing as its own state,
   `PortInEveryPair` if `create_link` looked up both networks.
3. Then the browser's `lastSeq` composed with the hub.
