----------------------------- MODULE LinkService -----------------------------
(***************************************************************************)
(* Creating, deleting and hot-plugging the links of one lab of Docker      *)
(* nodes: backend/app/services/link_service.py, the Docker half of         *)
(* node_runtime_service.py it drives, the runtime mutex that serialises    *)
(* both, and the node and network handlers that edit the same lab.json.    *)
(*                                                                         *)
(* The backend is one process with one event loop.  Between two awaits a   *)
(* coroutine runs alone, so `loop` names the request that is running and   *)
(* every step of a coroutine needs it.  A link request yields only where   *)
(* it waits for a contended mutex (an executor thread blocks on it) and    *)
(* while it publishes its events, still holding its mutexes.  start_node   *)
(* runs in a worker thread, from a lab document read before the thread     *)
(* began, and interleaves with everything.                                 *)
(***************************************************************************)
EXTENDS LabJson, Sequences

CONSTANTS Reqs,        \* concurrent link requests
          Starters,    \* concurrent start_node worker threads
          Pairs,       \* endpoint pairs that clients ask to link
          Keys,        \* idempotency keys clients send
          NoKey,       \* a request without a key
          CacheMax,    \* capacity of the idempotency cache
          MaxGen,      \* bound on attach generations
          HostFaults,  \* may a host-side network command fail?
          None         \* no request, no network

ASSUME ServiceConstants ==
  /\ Pairs \subseteq Endpoints \X Endpoints
  /\ NoKey \notin Keys /\ None \notin Reqs
  /\ CacheMax \in Nat /\ MaxGen \in Nat /\ HostFaults \in BOOLEAN

VARIABLES lab,      \* the lab.json document
          rec,      \* rec[n]: node n has a runtime record
          cont,     \* cont[n]: node n's container is running
          att,      \* att[p]: the record's attachment of port p
          cur,      \* cur[p]: the record's current_attach_generation of p
          veth,     \* veth[p]: p's host-side veth: absent (None), on no bridge (0),
                    \* or enslaved to the bridge of a network
          bridge,   \* bridge[k]: network k's host bridge, "bare" if unfingerprinted
          mutex,    \* mutex[p]: the request that holds p's runtime mutex
          loop,     \* the request running on the event loop
          req,      \* the link requests
          start,    \* the start_node threads
          cache     \* completed idempotency keys, least recently used first

json    == <<lab, cache>>
runtime == <<rec, cont, att, cur>>
host    == <<veth, bridge>>
vars    == <<lab, rec, cont, att, cur, veth, bridge, mutex, loop, req, start, cache>>

NetOrNone   == NetIds \cup {None}
Unattached  == [net |-> None, gen |-> 0]
Attachment  == [net : NetOrNone, gen : 0..MaxGen]
IdleReq     == [pc |-> "idle", op |-> "none", link |-> 0, ends |-> <<>>, key |-> NoKey,
                keys |-> <<>>, held |-> 0]
IdleStart   == [pc |-> "idle", node |-> 0, wires |-> [p \in Ports |-> None]]
Request     == [pc : {"idle", "lock", "wait", "woken", "publish"},
                op : {"none", "create", "delete"}, link : 0..MaxLink,
                ends : {<<>>} \cup (Endpoints \X Endpoints), key : Keys \cup {NoKey},
                keys : Seq(Ports), held : Nat]
StartThread == [pc : {"idle", "check", "run", "attach", "commit"}, node : Nodes \cup {0},
                wires : [Ports -> NetOrNone]]

TypeOK ==
  /\ lab \in Lab
  /\ rec \in [Nodes -> BOOLEAN] /\ cont \in [Nodes -> BOOLEAN]
  /\ att \in [Ports -> Attachment] /\ cur \in [Ports -> 0..MaxGen]
  /\ veth \in [Ports -> NetOrNone \cup {0}]
  /\ bridge \in [NetIds -> {"absent", "bare", "owned"}]
  /\ mutex \in [Ports -> Reqs \cup {None}]
  /\ loop \in Reqs \cup {None}
  /\ req \in [Reqs -> Request] /\ \A r \in Reqs : req[r].held <= Len(req[r].keys)
  /\ start \in [Starters -> StartThread]
  /\ cache \in Seq(Keys)

\* A freshly opened lab: its nodes and one explicit network, no link yet,
\* nothing running.
Init ==
  /\ lab = [nodes |-> Nodes,
            nets  |-> [k \in NetIds |-> IF k = 1 THEN "explicit" ELSE "none"],
            links |-> {}]
  /\ rec = [n \in Nodes |-> FALSE] /\ cont = [n \in Nodes |-> FALSE]
  /\ att = [p \in Ports |-> Unattached] /\ cur = [p \in Ports |-> 0]
  /\ veth = [p \in Ports |-> None]
  /\ bridge = [k \in NetIds |-> IF k = 1 THEN "owned" ELSE "absent"]
  /\ mutex = [p \in Ports |-> None] /\ loop = None
  /\ req = [r \in Reqs |-> IdleReq]
  /\ start = [s \in Starters |-> IdleStart]
  /\ cache = <<>>
------------------------------------------------------------------------------
(***************************************************************************)
(* The runtime mutexes: one per port, taken in (node, interface) order     *)
(* before anything else, released when the request ends.                   *)
(***************************************************************************)
PortLess(p, q) == p.id < q.id \/ (p.id = q.id /\ p.ifc < q.ifc)

\* Mutants: endpoints locked as they come, networks too; ports unsorted.
LockEverything(a, b) == <<a, b>>
LockUnsorted(a, b) == SelectSeq(<<a, b>>, IsPort)

LockOrder(a, b) ==
  IF IsPort(a) /\ IsPort(b) THEN (IF PortLess(b, a) THEN <<b, a>> ELSE <<a, b>>)
  ELSE IF IsPort(a) THEN <<a>> ELSE IF IsPort(b) THEN <<b>> ELSE <<>>

Begin(r, op, link, ends, key) ==
  /\ req' = [req EXCEPT ![r] = [pc |-> "lock", op |-> op, link |-> link, ends |-> ends,
                                key |-> key, keys |-> LockOrder(ends[1], ends[2]), held |-> 0]]
  /\ loop' = r

WantedPort(r) == req[r].keys[req[r].held + 1]
HasAllLocks(r) == req[r].held = Len(req[r].keys)
Running(r) == loop = r /\ req[r].pc = "lock"

\* Uncontended acquire: no await, the coroutine keeps the loop.
AcquireFree(r) ==
  /\ Running(r) /\ ~HasAllLocks(r) /\ mutex[WantedPort(r)] = None
  /\ mutex' = [mutex EXCEPT ![WantedPort(r)] = r]
  /\ req' = [req EXCEPT ![r].held = @ + 1]
  /\ UNCHANGED <<json, runtime, host, loop, start>>

\* Contended acquire: an executor thread waits, the loop is released.
AcquireContended(r) ==
  /\ Running(r) /\ ~HasAllLocks(r) /\ mutex[WantedPort(r)] # None
  /\ req' = [req EXCEPT ![r].pc = "wait"]
  /\ loop' = None
  /\ UNCHANGED <<json, runtime, host, mutex, start>>

\* The executor thread gets the lock; the coroutine resumes some time later.
ExecutorAcquire(r) ==
  /\ req[r].pc = "wait" /\ mutex[WantedPort(r)] = None
  /\ mutex' = [mutex EXCEPT ![WantedPort(r)] = r]
  /\ req' = [req EXCEPT ![r].held = @ + 1, ![r].pc = "woken"]
  /\ UNCHANGED <<json, runtime, host, loop, start>>

Resume(r) ==
  /\ loop = None /\ req[r].pc = "woken"
  /\ req' = [req EXCEPT ![r].pc = "lock"]
  /\ loop' = r
  /\ UNCHANGED <<json, runtime, host, mutex, start>>

\* The request is over: its exit stack releases every mutex it took.
EndRequest(r) ==
  /\ mutex' = [p \in Ports |-> IF mutex[p] = r THEN None ELSE mutex[p]]
  /\ req' = [req EXCEPT ![r] = IdleReq]
  /\ loop' = None

\* Mutant: the wait has no bound.
AcquireForever(r) == FALSE

\* The bounded wait (2 s) expires: 409, nothing was touched.
AcquireTimeout(r) ==
  /\ loop = None /\ req[r].pc = "wait"
  /\ EndRequest(r)
  /\ UNCHANGED <<json, runtime, host, start>>

\* Mutant: the mutexes are released before the events are out.
PublishUnlocked(r) ==
  /\ req' = [req EXCEPT ![r].pc = "publish"]
  /\ loop' = None
  /\ mutex' = [p \in Ports |-> IF mutex[p] = r THEN None ELSE mutex[p]]

\* The mutation is done and its events are being published, with the mutexes
\* still held; the loop is free for others at every send.
StartPublishing(r) ==
  /\ req' = [req EXCEPT ![r].pc = "publish"]
  /\ loop' = None
  /\ UNCHANGED mutex
------------------------------------------------------------------------------
(***************************************************************************)
(* create_link                                                             *)
(***************************************************************************)
Cached(c, k) == \E i \in DOMAIN c : c[i] = k
MoveToEnd(c, i) == [j \in 1..Len(c) |-> IF j < i THEN c[j] ELSE IF j < Len(c) THEN c[j + 1]
                                        ELSE c[i]]
MostRecent(c, k) == IF Cached(c, k) THEN MoveToEnd(c, CHOOSE i \in DOMAIN c : c[i] = k)
                                    ELSE Append(c, k)

\* Mutant: one entry too many.
TrimLate(c) == IF Len(c) > CacheMax + 1 THEN Tail(c) ELSE c
Trim(c) == IF Len(c) > CacheMax THEN Tail(c) ELSE c

\* A completed key is answered from the cache, without any lock.
CreateReplayed(key) ==
  /\ loop = None /\ Cached(cache, key)
  /\ cache' = MostRecent(cache, key)
  /\ UNCHANGED <<lab, runtime, host, mutex, loop, req, start>>

CreateBegin(r, ends, key) ==
  /\ loop = None /\ req[r].pc = "idle" /\ ~Cached(cache, key)
  /\ Begin(r, "create", 0, ends, key)
  /\ UNCHANGED <<json, runtime, host, mutex, start>>

\* Mutant: only an equal link is refused.
ConflictPairOnly(a, b) == \E l \in lab.links : SamePair(l, a, b)

\* An equal link exists, or one of the interfaces is wired already: 409.
Conflict(a, b) == \E l \in lab.links :
                    SamePair(l, a, b) \/ \E p \in {a, b} \cap Ports : Touches(l, p)

BothPorts(a, b) == IsPort(a) /\ IsPort(b)

\* Only the first network endpoint is looked up: 404 when it has no record.
MissingNetwork(a, b) == ~BothPorts(a, b) /\ lab.nets[TargetNet(a, b)] = "none"

JoinedNet(a, b) == IF BothPorts(a, b) THEN NextNetworkId(lab) ELSE TargetNet(a, b)
Edited(a, b)    == IF BothPorts(a, b) THEN AddImplicitPair(lab, a, b) ELSE JoinNetwork(lab, a, b)

\* Mutant: the second endpoint is forgotten.
FirstTarget(a, b) == {p \in {a} \cap Ports : rec[p.id]}

\* The interfaces to hot-attach: those of nodes with a runtime record.
Targets(a, b) == {p \in {a, b} \cap Ports : rec[p.id]}

\* The model's id and generation bounds leave room for this link.
Fits(a, b) ==
  /\ NextLinkId(lab) + (IF BothPorts(a, b) THEN 1 ELSE 0) <= MaxLink
  /\ JoinedNet(a, b) <= MaxNet
  /\ \A p \in Targets(a, b) : cur[p] < MaxGen

InCreate(r) == Running(r) /\ HasAllLocks(r) /\ req[r].op = "create"

CreateRefused(r) ==
  LET a == req[r].ends[1]  b == req[r].ends[2] IN
  /\ InCreate(r)
  /\ Conflict(a, b) \/ MissingNetwork(a, b) \/ ~Fits(a, b)
  /\ EndRequest(r)
  /\ UNCHANGED <<json, runtime, host, start>>

Admitted(r) == LET a == req[r].ends[1]  b == req[r].ends[2] IN
  InCreate(r) /\ ~Conflict(a, b) /\ ~MissingNetwork(a, b) /\ Fits(a, b)

\* No endpoint is running: the document is all there is to change.
CreateOffline(r) ==
  LET a == req[r].ends[1]  b == req[r].ends[2] IN
  /\ Admitted(r) /\ Targets(a, b) = {}
  /\ lab' = Edited(a, b)
  /\ StartPublishing(r)
  /\ UNCHANGED <<cache, runtime, host, start>>

\* A record that already shows the port on this network is left as it is;
\* one that shows it elsewhere has no link behind it any more and is
\* detached first (auto-heal).
Kept(p, k)  == att[p].net = k
Stale(p, k) == att[p].net \notin {k, None}

\* `ip link add` fails when the host-side name exists without a record.
NameTaken(p) == att[p].net = None /\ veth[p] # None

Attached(S, k) == [p \in Ports |-> IF p \in S /\ ~Kept(p, k)
                                     THEN [net |-> k, gen |-> cur[p] + 1] ELSE att[p]]
Bumped(S, k)   == [p \in Ports |-> IF p \in S /\ ~Kept(p, k) THEN cur[p] + 1 ELSE cur[p]]

\* A bridge made for a new implicit network carries no ownership fingerprint;
\* one restored for an existing network does.
Provisioned(a, b) == IF BothPorts(a, b) THEN "bare" ELSE "owned"

CreateAttached(r) ==
  LET a == req[r].ends[1]  b == req[r].ends[2]
      k == JoinedNet(a, b)
      S == Targets(a, b)
  IN  /\ Admitted(r) /\ S # {}
      /\ \A p \in S : ~NameTaken(p)
      /\ att' = Attached(S, k) /\ cur' = Bumped(S, k)
      /\ veth' = [p \in Ports |-> IF p \in S /\ ~Kept(p, k) THEN k ELSE veth[p]]
      /\ bridge' = [bridge EXCEPT ![k] = IF @ = "absent" THEN Provisioned(a, b) ELSE @]
      /\ lab' = StampGenerations(Edited(a, b), S, k, att')
      /\ StartPublishing(r)
      /\ UNCHANGED <<cache, rec, cont, start>>

\* Mutant: lab.json keeps the link whose bridge could not be made.
NoBridgeKept(r) ==
  LET a == req[r].ends[1]  b == req[r].ends[2] IN
  /\ Admitted(r) /\ Targets(a, b) # {} /\ HostFaults /\ bridge[JoinedNet(a, b)] = "absent"
  /\ lab' = Edited(a, b)
  /\ EndRequest(r)
  /\ UNCHANGED <<cache, runtime, host, start>>

\* The missing bridge cannot be made, or (for an existing network) cannot be
\* fingerprinted and then stays: lab.json is restored.
CreateNoBridge(r) ==
  LET a == req[r].ends[1]  b == req[r].ends[2] IN
  /\ Admitted(r) /\ Targets(a, b) # {} /\ HostFaults /\ bridge[JoinedNet(a, b)] = "absent"
  /\ \/ UNCHANGED bridge
     \/ ~BothPorts(a, b) /\ bridge' = [bridge EXCEPT ![JoinedNet(a, b)] = "bare"]
  /\ EndRequest(r)
  /\ UNCHANGED <<json, runtime, veth, start>>

\* The attach of target f fails, after `unhealed` stale attachments could not
\* be removed: the target before f is detached again, a bridge made for
\* this link is removed, and lab.json is restored.  Removing a veth (`left`
\* stay behind, shown on k however far they got) or the bridge is best effort.
CreateRolledBack(r) ==
  LET a == req[r].ends[1]  b == req[r].ends[2]
      k == JoinedNet(a, b)
      T == Targets(a, b)
      stale == {p \in T : Stale(p, k)}
      fails(p, unhealed) == p \in unhealed \/ (~Kept(p, k) /\ (HostFaults \/ NameTaken(p)))
  IN  /\ Admitted(r)
      /\ \E f \in T, unhealed \in IF HostFaults THEN SUBSET stale ELSE {{}} :
           LET before == T \cap ({a} \ {f})
               gone   == before \cup (stale \ unhealed)
               swept  == before \cup ({f} \ unhealed)
           IN  /\ fails(f, unhealed)
               /\ \A p \in before : p \notin unhealed /\ ~NameTaken(p)
               /\ att' = [p \in Ports |-> IF p \in gone THEN Unattached ELSE att[p]]
               /\ \E left \in IF HostFaults THEN SUBSET swept ELSE {{}} :
                    veth' = [p \in Ports |-> IF p \in left THEN k
                                             ELSE IF p \in gone \cup swept THEN None ELSE veth[p]]
               /\ cur' = Bumped(before, k)
      /\ \/ UNCHANGED bridge
         \/ HostFaults /\ bridge[k] = "absent" /\ bridge' = [bridge EXCEPT ![k] = Provisioned(a, b)]
      /\ EndRequest(r)
      /\ UNCHANGED <<json, rec, cont, start>>

\* Every event was sent: the key is remembered and the mutexes are released.
Finish(r) ==
  /\ loop = None /\ req[r].pc = "publish"
  /\ cache' = IF req[r].op = "create" /\ req[r].key # NoKey
                 THEN Trim(MostRecent(cache, req[r].key)) ELSE cache
  /\ EndRequest(r)
  /\ UNCHANGED <<lab, runtime, host, start>>
------------------------------------------------------------------------------
(***************************************************************************)
(* delete_link: probe, lock the probed ports, read again by id, detach in  *)
(* the kernel, then edit lab.json.                                         *)
(***************************************************************************)
LinkNamed(id) == {l \in lab.links : l.id = id}

\* A link that is not there is already deleted: nothing happens, so only
\* the probe that finds one is a step.
DeleteBegin(r, id) ==
  /\ loop = None /\ req[r].pc = "idle"
  /\ \E l \in LinkNamed(id) : Begin(r, "delete", id, <<l.a, l.b>>, NoKey)
  /\ UNCHANGED <<json, runtime, host, mutex, start>>

InDelete(r) == Running(r) /\ HasAllLocks(r) /\ req[r].op = "delete"

\* Gone by the time the mutexes are held: idempotent success.
DeleteVanished(r) ==
  /\ InDelete(r) /\ LinkNamed(req[r].link) = {}
  /\ EndRequest(r)
  /\ UNCHANGED <<json, runtime, host, start>>

\* The node side of the link has kernel state to remove.
HasRecord(l) == IsPort(PortOf(l)) /\ rec[PortOf(l).id]

\* `_detach_docker_interface_locked` skips when the port is not attached, or
\* when the link's stamped generation is not the record's current one.
DetachSkipped(l) == LET p == PortOf(l) IN
                      att[p].net = None \/ (l.gen # 0 /\ l.gen # cur[p])

\* Its assertion fails when nobody holds the port's mutex; or the kernel
\* refuses.  The error goes to the client and everything stays.
DeleteFailed(r) ==
  /\ InDelete(r)
  /\ \E l \in LinkNamed(req[r].link) :
       /\ HasRecord(l)
       /\ \/ mutex[PortOf(l)] = None
          \/ HostFaults /\ ~DetachSkipped(l)
  /\ EndRequest(r)
  /\ UNCHANGED <<json, runtime, host, start>>

DeleteDone(r) ==
  /\ InDelete(r)
  /\ \E l \in LinkNamed(req[r].link) :
       /\ HasRecord(l) => mutex[PortOf(l)] # None
       /\ IF HasRecord(l) /\ ~DetachSkipped(l)
            THEN /\ att' = [att EXCEPT ![PortOf(l)] = Unattached]
                 /\ veth' = [veth EXCEPT ![PortOf(l)] = None]
            ELSE UNCHANGED <<att, veth>>
       /\ lab' = RemoveLink(lab, l)
  /\ StartPublishing(r)
  /\ UNCHANGED <<cache, rec, cont, cur, bridge, start>>
------------------------------------------------------------------------------
(***************************************************************************)
(* Nodes: start_node in a worker thread; stop, wipe, create and delete on  *)
(* the loop, without the lab lock and without the runtime mutexes.         *)
(***************************************************************************)
NodePorts(n) == {p \in Ports : p.id = n}

\* The handler reads lab.json, then hands over to the thread.
StartBegin(s, n) ==
  /\ loop = None /\ start[s].pc = "idle" /\ n \in lab.nodes
  /\ start' = [start EXCEPT ![s] =
       [pc |-> "check", node |-> n,
        wires |-> [p \in Ports |-> IF p \in LinkedPorts(lab, n) THEN WiredNet(lab, p) ELSE None]]]
  /\ UNCHANGED <<json, runtime, host, mutex, loop, req>>

\* The record a start writes: the attachments of its snapshot, no generation.
InstallRecord(n, wires) ==
  /\ rec' = [rec EXCEPT ![n] = TRUE]
  /\ att' = [p \in Ports |-> IF p.id # n THEN att[p]
                             ELSE [net |-> wires[p], gen |-> 0]]
  /\ cur' = [p \in Ports |-> IF p.id = n THEN 0 ELSE cur[p]]

WiredPorts(s) == {p \in Ports : start[s].wires[p] # None}

StartEnd(s) == start' = [start EXCEPT ![s] = IdleStart]

\* Already running, or a running container without a record, which is adopted.
StartCheck(s) ==
  LET n == start[s].node IN
  /\ start[s].pc = "check"
  /\ \/ rec[n] /\ StartEnd(s) /\ UNCHANGED <<rec, att, cur>>
     \/ ~rec[n] /\ cont[n] /\ StartEnd(s) /\ InstallRecord(n, start[s].wires)
     \/ ~rec[n] /\ ~cont[n] /\ start' = [start EXCEPT ![s].pc = "run"]
        /\ UNCHANGED <<rec, att, cur>>
  /\ UNCHANGED <<json, cont, host, mutex, loop, req>>

BridgesPresent(s) == \A p \in WiredPorts(s) : bridge[start[s].wires[p]] # "absent"

\* The pre-flight check of the bridges, then docker run.
StartRun(s) ==
  LET n == start[s].node IN
  /\ start[s].pc = "run" /\ BridgesPresent(s) /\ ~cont[n]
  /\ cont' = [cont EXCEPT ![n] = TRUE]
  /\ start' = [start EXCEPT ![s].pc = "attach"]
  /\ UNCHANGED <<json, rec, att, cur, host, mutex, loop, req>>

\* A missing bridge, a running container of the same name, or docker itself
\* stops the start before anything is made.
StartRefused(s) ==
  /\ start[s].pc = "run" /\ (~BridgesPresent(s) \/ cont[start[s].node] \/ HostFaults)
  /\ StartEnd(s)
  /\ UNCHANGED <<json, runtime, host, mutex, loop, req>>

\* One veth per wired interface, without the runtime mutexes.
StartAttach(s) ==
  /\ start[s].pc = "attach" /\ BridgesPresent(s)
  /\ \A p \in WiredPorts(s) : veth[p] = None
  /\ veth' = [p \in Ports |-> IF p \in WiredPorts(s) THEN start[s].wires[p] ELSE veth[p]]
  /\ start' = [start EXCEPT ![s].pc = "commit"]
  /\ UNCHANGED <<json, runtime, bridge, mutex, loop, req>>

\* The attach of p fails: the veths up to p and the container are removed.
\* Only p's own can outlive the container, if its removal fails as well.
StartAborted(s) ==
  /\ start[s].pc = "attach"
  /\ \E p \in WiredPorts(s), left \in IF HostFaults THEN BOOLEAN ELSE {FALSE} :
       /\ HostFaults \/ veth[p] # None \/ bridge[start[s].wires[p]] = "absent"
       /\ veth' = [q \in Ports |->
                     IF left /\ q = p /\ veth[p] = None THEN start[s].wires[p]
                     ELSE IF q \notin WiredPorts(s) \/ PortLess(p, q) \/ (left /\ q = p) THEN veth[q]
                     ELSE None]
  /\ cont' = [cont EXCEPT ![start[s].node] = FALSE]
  /\ StartEnd(s)
  /\ UNCHANGED <<json, rec, att, cur, bridge, mutex, loop, req>>

\* The thread's last act: the record enters the registry.
StartCommit(s) ==
  /\ start[s].pc = "commit"
  /\ InstallRecord(start[s].node, start[s].wires)
  /\ StartEnd(s)
  /\ UNCHANGED <<json, cont, host, mutex, loop, req>>

\* Stopping needs a record; it removes the container, every host-side veth
\* of the node and the record.
\* Mutant: the record goes, its attachments stay.
StoppedHalfway(n) ==
  /\ rec' = [rec EXCEPT ![n] = FALSE] /\ cont' = [cont EXCEPT ![n] = cont[n] /\ ~rec[n]]
  /\ veth' = [p \in Ports |-> IF p.id = n /\ rec[n] THEN None ELSE veth[p]]
  /\ UNCHANGED <<att, cur>>

Stopped(n) ==
  /\ rec' = [rec EXCEPT ![n] = FALSE] /\ cont' = [cont EXCEPT ![n] = cont[n] /\ ~rec[n]]
  /\ att' = [p \in Ports |-> IF p.id = n /\ rec[n] THEN Unattached ELSE att[p]]
  /\ cur' = [p \in Ports |-> IF p.id = n /\ rec[n] THEN 0 ELSE cur[p]]
  /\ veth' = [p \in Ports |-> IF p.id = n /\ rec[n] THEN None ELSE veth[p]]

StopNode(n) ==
  /\ loop = None /\ rec[n] /\ Stopped(n)
  /\ UNCHANGED <<json, bridge, mutex, loop, req, start>>

CreateNode ==
  /\ loop = None /\ NextNodeId(lab) \in Nodes
  /\ lab' = [lab EXCEPT !.nodes = @ \cup {NextNodeId(lab)}]
  /\ UNCHANGED <<cache, runtime, host, mutex, loop, req, start>>

DeleteNode(n) ==
  /\ loop = None /\ n \in lab.nodes /\ Stopped(n)
  /\ lab' = [lab EXCEPT !.nodes = @ \ {n},
                        !.links = {l \in @ : l.a \notin NodePorts(n) /\ l.b \notin NodePorts(n)}]
  /\ UNCHANGED <<cache, bridge, mutex, loop, req, start>>
------------------------------------------------------------------------------
(***************************************************************************)
(* Networks (network_service.py), all within one turn of the loop.         *)
(***************************************************************************)
\* The new id's bridge must not exist, unless it carries this lab's
\* fingerprint; a bare one left behind makes the request fail.
CreateNetwork ==
  LET k == NextNetworkId(lab) IN
  /\ loop = None /\ k \in NetIds /\ bridge[k] # "bare"
  /\ lab' = [lab EXCEPT !.nets[k] = "explicit"]
  /\ bridge' = [bridge EXCEPT ![k] = "owned"]
  /\ UNCHANGED <<cache, runtime, veth, mutex, loop, req, start>>

\* Mutant: the in-use check is gone.
DeleteNetworkInUse(k) ==
  /\ loop = None /\ lab.nets[k] = "explicit"
  /\ lab' = [lab EXCEPT !.nets[k] = "none"]
  /\ bridge' = [bridge EXCEPT ![k] = "absent"]
  /\ veth' = [p \in Ports |-> IF veth[p] = k THEN 0 ELSE veth[p]]
  /\ UNCHANGED <<cache, runtime, mutex, loop, req, start>>

\* Implicit networks are hidden from this call; a network in use stays.
DeleteNetwork(k) ==
  /\ loop = None /\ lab.nets[k] = "explicit" /\ RefCount(lab, k) = 0
  /\ lab' = [lab EXCEPT !.nets[k] = "none"]
  /\ \/ bridge' = [bridge EXCEPT ![k] = "absent"]
        /\ veth' = [p \in Ports |-> IF veth[p] = k THEN 0 ELSE veth[p]]
     \/ HostFaults /\ UNCHANGED <<bridge, veth>>
  /\ UNCHANGED <<cache, runtime, mutex, loop, req, start>>

\* Naming an implicit network makes it visible, for good.
NameNetwork(k) ==
  /\ loop = None /\ lab.nets[k] = "implicit"
  /\ lab' = [lab EXCEPT !.nets[k] = "explicit"]
  /\ UNCHANGED <<cache, runtime, host, mutex, loop, req, start>>

\* Opening the lab makes the missing bridges and fingerprints the bare ones.
EnsureBridges ==
  /\ loop = None
  /\ \E after \in [NetIds -> {"absent", "bare", "owned"}] :
       /\ \A k \in NetIds :
            \/ after[k] = (IF lab.nets[k] = "none" THEN bridge[k] ELSE "owned")
            \/ HostFaults /\ (after[k] = bridge[k] \/ (bridge[k] = "absent" /\ after[k] = "bare"))
       /\ bridge' = after
  /\ UNCHANGED <<json, runtime, veth, mutex, loop, req, start>>
------------------------------------------------------------------------------
LinkStep(r) ==
  \/ \E pr \in Pairs, key \in Keys \cup {NoKey} : CreateBegin(r, pr, key)
  \/ \E id \in LinkIds : DeleteBegin(r, id)
  \/ AcquireFree(r) \/ AcquireContended(r) \/ ExecutorAcquire(r)
  \/ Resume(r) \/ AcquireTimeout(r)
  \/ CreateRefused(r) \/ CreateOffline(r) \/ CreateAttached(r)
  \/ CreateNoBridge(r) \/ CreateRolledBack(r)
  \/ DeleteVanished(r) \/ DeleteFailed(r) \/ DeleteDone(r)
  \/ Finish(r)

StartStep(s) == \/ \E n \in Nodes : StartBegin(s, n)
                \/ StartCheck(s) \/ StartRun(s) \/ StartRefused(s)
                \/ StartAttach(s) \/ StartAborted(s) \/ StartCommit(s)

NodeStep == CreateNode \/ \E n \in Nodes : StopNode(n) \/ DeleteNode(n)

NetworkStep == \/ CreateNetwork \/ EnsureBridges
               \/ \E k \in NetIds : DeleteNetwork(k) \/ NameNetwork(k)

Next == \/ \E r \in Reqs : LinkStep(r)
        \/ \E s \in Starters : StartStep(s)
        \/ \E key \in Keys : CreateReplayed(key)
        \/ NodeStep \/ NetworkStep

Spec == Init /\ [][Next]_vars

\* What the scheduling gives a link request: asyncio runs ready coroutines
\* in order, an executor thread blocked on a free lock gets it, and the
\* bounded wait expires.
OnLoop(r) == \/ AcquireFree(r) \/ AcquireContended(r) \/ Resume(r) \/ AcquireTimeout(r)
             \/ CreateRefused(r) \/ CreateOffline(r) \/ CreateAttached(r) \/ CreateNoBridge(r)
             \/ CreateRolledBack(r) \/ DeleteVanished(r) \/ DeleteFailed(r) \/ DeleteDone(r)
             \/ Finish(r)
FairSpec == Spec /\ \A r \in Reqs : SF_vars(OnLoop(r)) /\ WF_vars(ExecutorAcquire(r))
------------------------------------------------------------------------------
(***************************************************************************)
(* What lab.json promises                                                  *)
(***************************************************************************)
\* A link id names one link, although ids are reused after a delete
\* (_next_link_id under create_link and delete_link).
UniqueLinkIds == DistinctIds(lab)

\* A node interface is wired by at most one link, whatever requests run
\* concurrently (the in-use check of _create_link_locked).
OneLinkPerPort == PortsOnce(lab)

\* A link never names a network without a record: deletes and garbage
\* collection remove only networks that no link uses.
LinkedNetworksExist == \A l \in lab.links, k \in NetIds :
                         Touches(l, NetEp(k)) => lab.nets[k] # "none"

\* A hidden network joins at most two endpoints: the third one promotes it.
ImplicitAtMostTwo == \A k \in NetIds : lab.nets[k] = "implicit" => RefCount(lab, k) <= 2

(***************************************************************************)
(* What the runtime promises                                               *)
(***************************************************************************)
\* Every attachment of a runtime record stands for a veth on that network's
\* bridge (or one whose bridge was removed under it): rollback, detach and
\* stop never keep a row for a veth they removed.  It needs the starts of a
\* node to follow each other: a second thread adopts the first one's
\* container, with a record that names veths not made yet.
RecordBacked == \A p \in Ports : att[p].net # None =>
                  rec[p.id] /\ veth[p] \in {att[p].net, 0}

\* Every linked interface of a node with a record is attached to its network.
Wired == \A l \in lab.links : HasRecord(l) =>
           \A k \in NetIds : Touches(l, NetEp(k)) => att[PortOf(l)].net = k

\* Whatever link, node and network handlers do, they keep running nodes wired
\* as lab.json says; only a start_node thread can change that.
HandlersKeepWiring == [][start' = start /\ Wired => Wired']_vars

\* A create_link that ends in an error leaves lab.json as it was, and no
\* interface with an attachment it did not have (two-endpoint rollback).
FailedCreateUndone ==
  [][\A r \in Reqs : Running(r) /\ req[r].op = "create" /\ req'[r].pc = "idle" =>
       lab' = lab /\ \A p \in Ports : att'[p] \in {att[p], Unattached}]_vars

(***************************************************************************)
(* What the mutexes promise                                                *)
(***************************************************************************)
WaitsFor(r, q) == req[r].pc = "wait" /\ mutex[WantedPort(r)] = q

\* No set of link requests waits in a circle, because every request takes its
\* ports in (node, interface) order.
NoWaitCycle == \A S \in (SUBSET Reqs) \ {{}} :
                 \E r \in S : \A q \in S \ {r} : ~WaitsFor(r, q)

\* A request that is publishing its change still holds every port it locked,
\* so nobody else detaches or attaches them meanwhile.
HeldWhilePublishing == \A r \in Reqs : req[r].pc = "publish" =>
                         \A i \in DOMAIN req[r].keys : mutex[req[r].keys[i]] = r

\* The idempotency cache holds a key once and stays within its capacity.
CacheBounded == /\ Len(cache) <= CacheMax
                /\ \A i, j \in DOMAIN cache : cache[i] = cache[j] => i = j

\* Every link request ends, a link from an interface to itself included: no
\* request waits for a runtime mutex for ever (acquire's bounded wait).
RequestsEnd == \A r \in Reqs : req[r].pc # "idle" ~> req[r].pc = "idle"
==============================================================================
