------------------------------- MODULE CloudNets -------------------------------
(***************************************************************************)
(* Networks of several labs on one host: the create, delete, patch and     *)
(* lab-open handlers of backend/app/services/network_service.py, the       *)
(* NAT-Cloud inventory of cloud_inventory_service.py, the removal of labs  *)
(* and folders, the bridge fingerprints and the startup sweep of           *)
(* host_net.py, and the verbs of deploy/nova-ve-net.py they call.          *)
(*                                                                         *)
(* These handlers do not await between their first read and their last     *)
(* write, so the event loop runs them one at a time; what can come between *)
(* two of their effects is a failing host command or the death of the      *)
(* backend.  A handler is therefore a sequence of effects, computed from   *)
(* the state it reads, that are carried out one by one.  lab.json is       *)
(* rewritten in place: a crash during the write leaves it torn.            *)
(*                                                                         *)
(* A subnet is the set of /24 blocks it covers.  A bridge is named by the  *)
(* 16-bit hash of the lab id and the network id; two labs may share a      *)
(* hash.  Names, positions and address ranges within a subnet are left     *)
(* out, and so are links: a network with attachments is not deleted.       *)
(***************************************************************************)
EXTENDS Naturals, FiniteSets, SequencesExt

CONSTANTS Labs, Hashes,
          MaxNet,     \* bound on the network ids of a lab
          MaxRecords, \* bound on the networks of all labs together
          PoolSize,   \* /24 blocks in NOVA_VE_NAT_CLOUD_POOL
          Asked,      \* subnets that clients ask for; {} asks for any
          HostBr,     \* a host-owned br-eth bridge
          MaxFault,   \* bound on failed host commands, crashes, reboots and
                      \* PATCH requests together
          None

ASSUME CloudConstants ==
  /\ MaxNet \in Nat /\ MaxRecords \in Nat /\ PoolSize \in Nat /\ MaxFault \in Nat
  /\ {} \in Asked /\ \A c \in Asked : c \subseteq Nat
  /\ HostBr # None /\ None \notin Labs \X (1..MaxNet)
  /\ HostBr \notin Hashes \X (1..MaxNet)  \* br-eth is no lab's bridge name

\* A host has finitely many labs.
ASSUME FiniteLabs == IsFiniteSet(Labs)

Ids    == 1..MaxNet
Blocks == 0..(PoolSize - 1)
Names  == Hashes \X Ids
Cloud  == Labs \X Ids

\* A record of networks{} is [type, cidr, shared, bridge]: "linux_bridge",
\* "nat_cloud" or "bridge_cloud", config.cidr, config.shared_cloud_id and
\* runtime.bridge_name.

VARIABLES
  hash,     \* _lab_hash: the 16-bit hash of each lab id
  file,     \* each lab.json: not yet created, whole, torn, removed
  nets,     \* its networks{}
  host,     \* each lab bridge: [up, fp, routed]
  up,       \* the backend runs
  op,       \* the handler that runs: [kind, lab, net, todo, undo, clean]
  spent,    \* faults and patches so far
  patched,  \* history: networks whose type or config a PATCH replaced
  damaged,  \* history: labs whose file a crash left torn
  leaked    \* history: labs removed without tearing down their networks

vars == <<hash, file, nets, host, up, op, spent, patched, damaged, leaked>>
history == <<patched, damaged, leaked>>

Absent == [up |-> FALSE, fp |-> None, routed |-> {}]
Idle   == [kind |-> "idle", lab |-> None, net |-> 0, todo |-> << >>,
           undo |-> << >>, clean |-> TRUE]

Init ==
  /\ hash \in [Labs -> Hashes]
  /\ file = [l \in Labs |-> "new"] /\ nets = [l \in Labs |-> << >>]
  /\ host = [b \in Names |-> Absent]
  /\ up = TRUE /\ op = Idle /\ spent = 0
  /\ patched = {} /\ damaged = {} /\ leaked = {}

------------------------------------------------------------------------------
(* What the handlers read.                                                 *)

Readable == {l \in Labs : file[l] = "ok"}
NetIds(l) == DOMAIN nets[l]
Records  == {c \in Cloud : c[1] \in Readable /\ c[2] \in NetIds(c[1])}
Rec(c)   == nets[c[1]][c[2]]

IsNat(r) == r.type = "nat_cloud"
IsRef(r) == IsNat(r) /\ r.shared # None
IsOwner(r) == IsNat(r) /\ r.shared = None

\* The clouds that own a subnet, in every readable lab.
Owners == {c \in Records : IsOwner(Rec(c))}

\* Mutant: only the lab that owns the cloud is searched.
ReferencesHere(c) == {d \in Records : d[1] = c[1] /\ IsRef(Rec(d)) /\ Rec(d).shared = c}

\* references_for_cloud: the networks of all labs that use cloud c.
References(c) == {d \in Records : IsRef(Rec(d)) /\ Rec(d).shared = c}

\* owner_cidrs and _existing_network_cidrs, as the blocks they cover.
OwnerBlocks == UNION {Rec(c).cidr : c \in Owners}
LabBlocks(l) == UNION {nets[l][n].cidr : n \in NetIds(l)}
\* Mutant: only the subnets of the lab itself are looked at.
UsedBlocksHere(l) == LabBlocks(l)

UsedBlocks(l) == OwnerBlocks \cup LabBlocks(l)

\* list_nat_clouds marks owners whose subnets overlap: they are not reused.
Colliding(c) == \E d \in Owners \ {c} : Rec(c).cidr \cap Rec(d).cidr # {}

\* The blocks of the pool that overlap nothing, the first of which is taken.
FreeBlocks(l) == Blocks \ UsedBlocks(l)
Allocated(l)  == {Min(FreeBlocks(l))}

NextId(l) == IF NetIds(l) = {} THEN 1 ELSE Max(NetIds(l)) + 1

\* References from outside a lab to the clouds it owns.
ExternalRefs(l) == {d \in Records : /\ d[1] # l
                                    /\ \E c \in Owners : c[1] = l /\ d \in References(c)}

\* bridge_fingerprint_check.
Fingerprint(b, c) == IF host[b].fp = None THEN "absent"
                     ELSE IF host[b].fp = c THEN "match" ELSE "mismatch"

------------------------------------------------------------------------------
(* The effects of a handler.                                               *)

Effect(do, on, arg, net) == [do |-> do, on |-> on, arg |-> arg, net |-> net]

\* Mutant: removing the bridge is taken to remove its NAT rules.
UnrouteNever(b)  == << >>

Write(l, new)    == <<Effect("save", l, new, 0)>>
AddBridge(b, n)  == <<Effect("add", b, None, n)>>
Own(b, c)        == <<Effect("own", b, c, c[2])>>
Drop(b)          == <<Effect("drop", b, None, 0)>>
Unroute(b)       == <<Effect("unroute", b, None, 0)>>

\* _ensure_nat_cloud_runtime: the gateway address, forwarding, NAT and DHCP,
\* which are up or missing together.
Route(b, cidr, n) == IF cidr = {} THEN << >> ELSE <<Effect("route", b, cidr, n)>>

HostAfter(e) ==
  CASE e.do = "add"     -> [host EXCEPT ![e.on].up = TRUE]
    [] e.do = "own"     -> [host EXCEPT ![e.on].fp = e.arg]
    [] e.do = "route"   -> [host EXCEPT ![e.on].routed = e.arg]
    [] e.do = "unroute" -> [host EXCEPT ![e.on].routed = {}]
    [] e.do = "drop"    -> [host EXCEPT ![e.on].up = FALSE]
    [] e.do = "disown"  -> [host EXCEPT ![e.on].fp = None]
    [] OTHER            -> host

FileAfter(e) ==
  CASE e.do = "save"   -> [file EXCEPT ![e.on] = "ok"]
    [] e.do = "unlink" -> [file EXCEPT ![e.on] = "gone"]
    [] OTHER           -> file

NetsAfter(e) ==
  CASE e.do = "save"   -> [nets EXCEPT ![e.on] = e.arg]
    [] e.do = "unlink" -> [nets EXCEPT ![e.on] = << >>]
    [] OTHER           -> nets

\* The helper refuses an address on a missing bridge and the removal of one.
Feasible(e) == e.do \in {"route", "drop"} => host[e.on].up

\* bridge_del forgets the fingerprint once the kernel removed the bridge.
Rest(e) == IF e.do = "drop"
           THEN <<Effect("disown", e.on, None, 0)>> \o Tail(op.todo)
           ELSE Tail(op.todo)

Continue(todo, o) == IF todo = << >> THEN Idle ELSE [o EXCEPT !.todo = todo]

\* The effects of s that are for other networks than n.
ForOthers(s, n) ==
  LET kept[i \in 0..Len(s)] == IF i = 0 THEN << >>
                               ELSE IF s[i].net # n THEN Append(kept[i - 1], s[i])
                               ELSE kept[i - 1]
  IN  kept[Len(s)]

\* What a handler does after a host command failed: create_network rolls
\* back, deleting its new bridge first when the fingerprint was the failure;
\* ensure_lab_bridges goes on with the next network, but a fingerprint that
\* cannot be written is no HostNetError and ends it; removals go on.
AfterFailure(e) ==
  CASE op.kind = "create" ->
         Continue((IF e.do = "own" THEN Drop(e.on) ELSE << >>) \o op.undo,
                  [op EXCEPT !.kind = "undo", !.clean = FALSE])
    [] op.kind = "ensure" /\ e.do = "own" -> Idle
    [] op.kind = "ensure" /\ e.do # "own" ->
         Continue(ForOthers(Tail(op.todo), e.net), [op EXCEPT !.clean = FALSE])
    [] OTHER -> Continue(Tail(op.todo), [op EXCEPT !.clean = FALSE])

HostCommands == {"add", "own", "route", "unroute", "drop"}

\* The handler carries out its next effect.
Step ==
  /\ up /\ op.todo # << >>
  /\ LET e == Head(op.todo) IN
       /\ Feasible(e)
       /\ host' = HostAfter(e) /\ file' = FileAfter(e) /\ nets' = NetsAfter(e)
       /\ op' = Continue(Rest(e), op)
  /\ UNCHANGED <<hash, up, spent, history>>

\* The next effect is a host command and fails.
StepFails ==
  /\ up /\ op.todo # << >>
  /\ LET e == Head(op.todo) IN
       /\ e.do \in HostCommands
       /\ Feasible(e) => spent < MaxFault
       /\ spent' = IF Feasible(e) THEN spent + 1 ELSE spent
       /\ op' = AfterFailure(e)
  /\ UNCHANGED <<hash, file, nets, host, up, history>>

------------------------------------------------------------------------------
(* The handlers.                                                           *)

Begin(kind, l, n, todo, undo) ==
  /\ up /\ op = Idle
  /\ op' = Continue(todo, [kind |-> kind, lab |-> l, net |-> n, todo |-> todo,
                           undo |-> undo, clean |-> TRUE])

\* create_lab: the id is fresh, so a lab is created once.
CreateLab(l) ==
  /\ file[l] = "new"
  /\ Begin("lab", l, 0, Write(l, << >>), << >>)
  /\ UNCHANGED <<hash, file, nets, host, up, spent, history>>

With(l, n, r) == [k \in NetIds(l) \cup {n} |-> IF k = n THEN r ELSE nets[l][k]]
Without(l, n) == [k \in NetIds(l) \ {n} |-> nets[l][k]]

\* Mutant: a bridge without a fingerprint is taken over.
ProvisionAbsent(l, n, r) ==
  LET b == r.bridge IN
  IF r.type = "bridge_cloud" \/ IsRef(r) THEN << >>
  ELSE IF host[b].up /\ Fingerprint(b, <<l, n>>) = "mismatch" THEN Write(l, nets[l])
  ELSE (IF host[b].up THEN << >> ELSE AddBridge(b, n) \o Own(b, <<l, n>>))
       \o (IF IsOwner(r) THEN Route(b, r.cidr, n) ELSE << >>)

\* The effects of create_network once the record is written: a bridge that
\* is there already must carry the network's fingerprint.
Provision(l, n, r) ==
  LET b == r.bridge IN
  IF r.type = "bridge_cloud" \/ IsRef(r) THEN << >>
  ELSE IF host[b].up /\ Fingerprint(b, <<l, n>>) # "match" THEN Write(l, nets[l])
  ELSE (IF host[b].up THEN << >> ELSE AddBridge(b, n) \o Own(b, <<l, n>>))
       \o (IF IsOwner(r) THEN Route(b, r.cidr, n) \o Write(l, With(l, n, r)) ELSE << >>)

CreateRecord(l, r) ==
  LET n == NextId(l) IN
  /\ l \in Readable /\ n \in Ids /\ Cardinality(Records) < MaxRecords
  /\ Begin("create", l, n, Write(l, With(l, n, r)) \o Provision(l, n, r),
           Write(l, nets[l]) \o (IF IsOwner(r) THEN Unroute(r.bridge) ELSE << >>))
  /\ UNCHANGED <<hash, file, nets, host, up, spent, history>>

\* create_network, type linux_bridge.
CreateBridge(l) ==
  CreateRecord(l, [type |-> "linux_bridge", cidr |-> {}, shared |-> None,
                   bridge |-> <<hash[l], NextId(l)>>])

\* create_network, type nat_cloud with a subnet of its own.
CreateCloud(l, cidr) ==
  /\ cidr \cap UsedBlocks(l) = {}
  /\ cidr = {} => FreeBlocks(l) # {}
  /\ CreateRecord(l, [type |-> "nat_cloud", shared |-> None,
                      cidr |-> IF cidr = {} THEN Allocated(l) ELSE cidr,
                      bridge |-> <<hash[l], NextId(l)>>])

\* create_network, type nat_cloud with a shared_cloud_id.
CreateReference(l, c) ==
  /\ c \in Owners /\ ~ Colliding(c) /\ Rec(c).cidr # {}
  /\ CreateRecord(l, [type |-> "nat_cloud", cidr |-> Rec(c).cidr, shared |-> c,
                      bridge |-> Rec(c).bridge])

\* create_network, type bridge_cloud.
CreateHostNet(l) ==
  CreateRecord(l, [type |-> "bridge_cloud", cidr |-> {}, shared |-> None,
                   bridge |-> HostBr])

\* The teardown of one record: host bridges and the owner's bridge stay.
Teardown(r) ==
  IF r.type = "bridge_cloud" \/ IsRef(r) THEN << >>
  ELSE (IF IsNat(r) THEN Unroute(r.bridge) ELSE << >>) \o Drop(r.bridge)

DeleteNetwork(l, n) ==
  /\ l \in Readable /\ n \in NetIds(l)
  /\ IsOwner(nets[l][n]) => References(<<l, n>>) = {}
  /\ Begin("delete", l, n, Write(l, Without(l, n)) \o Teardown(nets[l][n]), << >>)
  /\ UNCHANGED <<hash, file, nets, host, up, spent, history>>

\* patch_network with a type or a config: only host bridges are protected,
\* and neither the subnet nor the references are checked.
PatchNetwork(l, n, type, cidr) ==
  /\ l \in Readable /\ n \in NetIds(l) /\ spent < MaxFault
  /\ nets[l][n].type # "bridge_cloud"
  /\ Begin("patch", l, n,
           Write(l, With(l, n, [nets[l][n] EXCEPT !.type = type, !.cidr = cidr,
                                                  !.shared = None])), << >>)
  /\ patched' = patched \cup {<<l, n>>} /\ spent' = spent + 1
  /\ UNCHANGED <<hash, file, nets, host, up, damaged, leaked>>

\* Mutant: a bridge that carries the lab's fingerprint is taken to be up.
EnsureOneStamped(l, n) ==
  LET r == nets[l][n]
      b == r.bridge
      s == Fingerprint(b, <<l, n>>)
  IN IF r.type = "bridge_cloud" \/ IsRef(r) \/ s # "absent" THEN << >>
     ELSE AddBridge(b, n) \o Own(b, <<l, n>>)
          \o (IF IsOwner(r) THEN Route(b, r.cidr, n) ELSE << >>)

\* ensure_lab_bridges for one network.
EnsureOne(l, n) ==
  LET r == nets[l][n]
      b == r.bridge
      s == Fingerprint(b, <<l, n>>)
      c == r.shared
      shared == Route(Rec(c).bridge, Rec(c).cidr, n)
                \o (IF c[1] = l THEN << >> ELSE Write(c[1], nets[c[1]]))
      own == (IF ~ host[b].up THEN AddBridge(b, n) \o Own(b, <<l, n>>)
              ELSE IF s = "absent" THEN Own(b, <<l, n>>) ELSE << >>)
             \o (IF IsOwner(r) THEN Route(b, r.cidr, n) ELSE << >>)
  IN IF r.type = "bridge_cloud" \/ (IsRef(r) /\ c \notin Owners) THEN << >>
     ELSE IF IsRef(r) THEN shared
     ELSE IF host[b].up /\ s = "mismatch" THEN << >> ELSE own

\* ensure_lab_bridges, when a lab is opened.
EnsureLabBridges(l) ==
  /\ l \in Readable /\ NetIds(l) # {}
  /\ Begin("ensure", l, 0,
           FlattenSeq([n \in Ids |-> IF n \in NetIds(l) THEN EnsureOne(l, n) ELSE << >>])
           \o (IF \E n \in NetIds(l) : IsNat(nets[l][n])
               THEN Write(l, nets[l]) ELSE << >>), << >>)
  /\ UNCHANGED <<hash, file, nets, host, up, spent, history>>

\* delete_lab: a file that cannot be read is removed without teardown.
DeleteLab(l) ==
  /\ file[l] \in {"ok", "torn"} /\ ExternalRefs(l) = {}
  /\ Begin("delete", l, 0,
           (IF file[l] = "ok"
            THEN FlattenSeq([n \in Ids |-> IF n \in NetIds(l) THEN Teardown(nets[l][n])
                                                              ELSE << >>])
            ELSE << >>) \o <<Effect("unlink", l, None, 0)>>, << >>)
  /\ leaked' = IF file[l] = "torn" THEN leaked \cup {l} ELSE leaked
  /\ UNCHANGED <<hash, file, nets, host, up, spent, patched, damaged>>

\* delete_folder, and delete_lab of a file without a database row: the file
\* goes and nothing is torn down.
RemoveFile(l) ==
  /\ file[l] \in {"ok", "torn"} /\ ExternalRefs(l) = {}
  /\ Begin("delete", l, 0, <<Effect("unlink", l, None, 0)>>, << >>)
  /\ leaked' = leaked \cup {l}
  /\ UNCHANGED <<hash, file, nets, host, up, spent, patched, damaged>>

------------------------------------------------------------------------------
(* Death and start of the backend.                                         *)

\* The lab whose file is being rewritten in place, and may end up torn.
Writing == IF op.todo # << >> /\ Head(op.todo).do = "save"
           THEN {Head(op.todo).on} ELSE {}

\* The process ends, between two effects of a handler, during a write or at
\* rest.
Dies(torn) ==
  /\ torn \subseteq Writing /\ spent < MaxFault
  /\ up' = FALSE /\ op' = Idle /\ spent' = spent + 1
  /\ file' = [l \in Labs |-> IF l \in torn THEN "torn" ELSE file[l]]
  /\ nets' = [l \in Labs |-> IF l \in torn THEN << >> ELSE nets[l]]
  /\ damaged' = damaged \cup torn
  /\ UNCHANGED <<hash, patched, leaked>>

\* The backend dies.
Crash == up /\ UNCHANGED host /\ \E torn \in SUBSET Writing : Dies(torn)

\* The host reboots: bridges, addresses and rules are gone, files stay.
Reboot ==
  /\ host' = [b \in Names |-> [Absent EXCEPT !.fp = host[b].fp]]
  /\ \E torn \in SUBSET Writing : Dies(torn)

\* sweep_orphan_bridges: bridges whose hash is that of no readable lab.
KnownHashes == {hash[l] : l \in Readable}
Swept(b) == host[b].up /\ b[1] \notin KnownHashes

\* Startup sweeps before the first request is served.
Startup ==
  /\ ~ up /\ up' = TRUE
  /\ host' = [b \in Names |->
                IF Swept(b) THEN [host[b] EXCEPT !.up = FALSE, !.fp = None]
                            ELSE host[b]]
  /\ UNCHANGED <<hash, file, nets, op, spent, history>>

Next ==
  \/ Step \/ StepFails \/ Crash \/ Reboot \/ Startup
  \/ \E l \in Labs :
       \/ CreateLab(l) \/ CreateBridge(l) \/ CreateHostNet(l)
       \/ EnsureLabBridges(l) \/ DeleteLab(l) \/ RemoveFile(l)
       \/ \E cidr \in Asked : CreateCloud(l, cidr)
       \/ \E c \in Owners : CreateReference(l, c)
       \/ \E n \in NetIds(l) :
            \/ DeleteNetwork(l, n)
            \/ \E type \in {"linux_bridge", "nat_cloud"}, cidr \in Asked :
                 PatchNetwork(l, n, type, cidr)

Spec == Init /\ [][Next]_vars

------------------------------------------------------------------------------
(* Properties.                                                             *)

\* Address plan of the host: two NAT-Clouds of whatever labs never have
\* overlapping subnets (allocation and the 409 of _normalize_nat_cloud_config
\* look at every lab), except through a PATCH, which checks nothing.
CidrsDisjoint ==
  \A c, d \in Owners \ patched : c # d => Rec(c).cidr \cap Rec(d).cidr = {}

\* A reference always has its owner, on the same bridge and the same subnet:
\* neither delete_network nor the removal of labs and folders takes an owner
\* that another lab uses, whatever fails or crashes.  What may take it is a
\* PATCH of the owner or of the reference, or a crash that tore the owner's
\* file.
ReferencesOwned ==
  \A d \in Records \ patched :
    IsRef(Rec(d)) =>
      LET c == Rec(d).shared IN
      \/ c \in patched \/ c[1] \in damaged
      \/ c \in Owners /\ Rec(c).bridge = Rec(d).bridge /\ Rec(c).cidr = Rec(d).cidr

\* The networks of all labs that own bridge b.
Holders(b) == {c \in Records : Rec(c).bridge = b /\ ~ IsRef(Rec(c))}

\* As long as no host command failed and nothing crashed, and no PATCH or
\* teardown-free removal interfered, the host carries exactly what the labs
\* say between two handlers: one network per bridge even when two labs have
\* the same hash, its fingerprint, and NAT for its subnet if it is a cloud.
HostMatchesLabs ==
  (spent = 0 /\ leaked = {} /\ op = Idle) =>
    \A b \in Names :
      \/ Holders(b) = {} /\ host[b] = Absent
      \/ \E c \in Holders(b) :
           /\ Holders(b) = {c} /\ host[b].up /\ host[b].fp = c
           /\ host[b].routed = IF IsNat(Rec(c)) THEN Rec(c).cidr ELSE {}

Ends(kind) == op.kind = kind /\ op' = Idle /\ up'

\* A network that create_network reports as created has its bridge, with its
\* own fingerprint on it, and NAT if it is a cloud: a bridge that was left
\* behind by an earlier network or belongs to another lab is never taken
\* over silently.
CreatedIsWhole ==
  [][Ends("create") /\ op.net \in DOMAIN nets'[op.lab] =>
       LET r == nets'[op.lab][op.net] IN
       ~ IsRef(r) /\ r.type # "bridge_cloud" =>
         /\ host'[r.bridge].up /\ host'[r.bridge].fp = <<op.lab, op.net>>
         /\ IsNat(r) => host'[r.bridge].routed = r.cidr]_vars

\* The step that ends ensure_lab_bridges leaves the lab repaired.
LabRepaired ==
  Ends("ensure") /\ op.clean /\ spent' = spent =>
    \A n \in DOMAIN nets'[op.lab] :
      LET r == nets'[op.lab][n]
          h == host'[r.bridge] IN
      ~ IsRef(r) /\ r.type # "bridge_cloud" =>
        \/ h.up /\ h.fp \notin {None, <<op.lab, n>>}
        \/ h.up /\ h.fp = <<op.lab, n>> /\ (\/ IsNat(r) /\ r.cidr # {} => h.routed = r.cidr
                                            \/ Cardinality(Holders(r.bridge)) > 1)

\* Opening a lab repairs it: after ensure_lab_bridges every network of its
\* own has its bridge, with its NAT, unless a host command failed or another
\* network's fingerprint is on the bridge; crashes, reboots, sweeps and
\* half-done creates before it do not matter.  Where a crash left two records
\* for one bridge (the ownership check of create_network comes after the
\* write of the record), a reference to the second one may route over it.
OpenRepairs == [][LabRepaired]_vars
==============================================================================
