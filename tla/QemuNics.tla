------------------------------ MODULE QemuNics ------------------------------
(***************************************************************************)
(* The network cards of one QEMU node: what backend/app/services/          *)
(* node_runtime_service.py does to them when the node starts and stops,    *)
(* when a link is created or deleted while it runs (QMP hot-plug), and     *)
(* when the reconciler converges the boot-time cards to lab.json.          *)
(*                                                                         *)
(* Interfaces below Boot are cards QEMU was started with; each owns a      *)
(* permanent TAP and is wired by enslaving it.  The others are plugged     *)
(* and unplugged over QMP, into the highest free PCIe root port.           *)
(*                                                                         *)
(* A link handler runs on the event loop without awaiting from the moment  *)
(* it holds its mutexes, so create_link and delete_link are one action     *)
(* each; what varies inside it is which host or QMP command fails, and     *)
(* whether a command that timed out was applied.  An operator such as      *)
(* Attach returns the set of its outcomes.  The guest ejects a device in   *)
(* its own time, and start_node runs in a thread, on a document read       *)
(* before.                                                                 *)
(***************************************************************************)
EXTENDS Integers, FiniteSets, FiniteSetsExt

CONSTANTS Boot,       \* cards the node is started with (node.ethernet)
          Hot,        \* further interface indices that links may name
          MaxNics,    \* pre-allocated PCIe root ports (capabilities.max_nics)
          Nets,       \* networks, each with a provisioned bridge
          MaxGen,     \* bound on attach generations
          MaxFaults,  \* bound on the host and QMP commands that fail
          None        \* no network

ASSUME NicConstants ==
  /\ Boot \in Nat /\ Hot \in Nat /\ MaxNics \in Nat /\ MaxGen \in Nat /\ MaxFaults \in Nat
  /\ IsFiniteSet(Nets) /\ Nets \cap {None, "gone", "loose"} = {}

Ifaces     == 0..(Boot + Hot - 1)
BootIfaces == 0..(Boot - 1)
Slots      == 0..(MaxNics - 1)
NoSlot     == -1
BootSlots  == {s \in Slots : s < Boot}

VARIABLES n,       \* the cards: host TAPs, QEMU's objects and the runtime record
          doc,     \* doc[i]: the link of interface i in lab.json
          vm,      \* is the QEMU process alive?
          rec,     \* is there a runtime record?
          start,   \* the start_node thread
          synced,  \* has the reconciler seen the record of this run?
          logged,  \* interfaces whose drift the last operation reported
          halfway, \* interfaces whose last detach failed
          faults   \* commands that failed so far

vars == <<n, doc, vm, rec, start, synced, logged, halfway, faults>>

NoLink == [net |-> None, gen |-> 0]
NoAtt  == [net |-> None, boot |-> FALSE, slot |-> NoSlot, gen |-> 0]

\* The fields of n.  tap: "gone", "loose" (on no bridge) or the network it is on.  netdev,
\* dev, dying, up: QEMU's backends, the root ports of its hot-plugged devices, pending
\* ejections and carriers.  att, slots, gen, taps: the record's interface_attachments,
\* allocated_slots, generations and tap_names.

Forgotten(c) == [c EXCEPT !.att = [i \in Ifaces |-> NoAtt], !.slots = {},
                          !.gen = [i \in Ifaces |-> 0], !.taps = {}]
PoweredOff(c) == [c EXCEPT !.netdev = {}, !.dev = [i \in Ifaces |-> NoSlot],
                           !.dying = {}, !.up = {}]

IdleStart == [pc |-> "idle", wires |-> [i \in Ifaces |-> None]]

Init ==
  /\ n = [tap |-> [i \in Ifaces |-> "gone"], netdev |-> {}, dev |-> [i \in Ifaces |-> NoSlot],
          dying |-> {}, up |-> {}, att |-> [i \in Ifaces |-> NoAtt], slots |-> {},
          gen |-> [i \in Ifaces |-> 0], taps |-> {}]
  /\ doc = [i \in Ifaces |-> NoLink]
  /\ vm = FALSE /\ rec = FALSE /\ start = IdleStart /\ synced = FALSE
  /\ logged = {} /\ halfway = {} /\ faults = 0

Live == rec /\ vm

\* An outcome: the cards after it, whether it succeeded, the faults it took, what it logged.
Out(c, ok, f, l) == [c |-> c, ok |-> ok, f |-> f, log |-> l]

-----------------------------------------------------------------------------
(* Attaching a card.                                                       *)

\* Mutant: trusts the record alone and does not look at query-pci.
OccupiedRecorded(c) == BootSlots \cup c.slots
Occupied(c) == BootSlots \cup {c.dev[j] : j \in Ifaces} \cup c.slots
FreeSlots(c) == Slots \ Occupied(c)

Recorded(c, i, k, s) ==
  LET g == c.gen[i] + 1 IN
  [c EXCEPT !.att[i] = [net |-> k, boot |-> i \in BootIfaces, slot |-> s, gen |-> g],
            !.gen[i] = g, !.taps = @ \cup {i}]

BootAttach(c, i, k) ==
  LET wired == Recorded([c EXCEPT !.tap[i] = k], i, k, NoSlot) IN
  {Out([wired EXCEPT !.up = @ \cup ({i} \cap c.netdev)], TRUE, 0, {}),
   Out(wired, TRUE, 1, {}),                                         \* set_link failed
   Out(c, FALSE, 1, {}),                                            \* link_master failed
   Out([c EXCEPT !.tap[i] = IF @ = "gone" THEN "gone" ELSE "loose"], FALSE, 1, {})}

Plugged(c, i, k, s) ==
  Recorded([c EXCEPT !.tap[i] = k, !.netdev = @ \cup {i}, !.dev[i] = s, !.up = @ \cup {i},
                     !.slots = @ \cup {s}], i, k, s)

\* Mutant: port and record are taken before the device is added, and kept.
PlugFailuresRecorded(c, i, k, s) ==
  {Out([Recorded(c, i, k, s) EXCEPT !.slots = @ \cup {s}], FALSE, 1, {})}

\* What each failing step leaves behind once its rollback ran.
NoBackend(c, i) == [c EXCEPT !.netdev = @ \ {i}, !.up = @ \ {i}]
PlugFailures(c, i, k, s) ==
  {Out(c, FALSE, 1, {}),                                            \* TAP or netdev_add
   Out(NoBackend(c, i), FALSE, 1, {}),                              \* device_add
   Out([c EXCEPT !.tap[i] = k], FALSE, 2, {i})}                     \* tap_del failed too
  \cup (IF c.dev[i] = NoSlot                                        \* timed out, applied
        THEN {Out([NoBackend(c, i) EXCEPT !.dev[i] = s, !.dying = @ \cup {i}], FALSE, 1, {})}
        ELSE {})

HotAttach(c, i, k) ==
  IF FreeSlots(c) = {} \/ c.tap[i] # "gone" THEN {Out(c, FALSE, 0, {})}
  ELSE LET s == Max(FreeSlots(c)) IN
       PlugFailures(c, i, k, s) \cup
       CASE i \in c.netdev        -> {Out(c, FALSE, 0, {})}         \* duplicate netdev id
         [] i \notin c.netdev /\ c.dev[i] # NoSlot -> {Out(NoBackend(c, i), FALSE, 0, {})}
         [] OTHER                 -> {Out(Plugged(c, i, k, s), TRUE, 0, {})}

Attach(c, i, k) ==
  CASE c.att[i].net = k          -> {Out(c, TRUE, 0, {})}
    [] c.att[i].net \notin {k, None} -> {Out(c, FALSE, 0, {})}
    [] OTHER -> IF i \in BootIfaces THEN BootAttach(c, i, k) ELSE HotAttach(c, i, k)

-----------------------------------------------------------------------------
(* Detaching a card.                                                       *)

\* Mutant: the port stays reserved.
DroppedKeepsPort(c, i, keepTap) == [c EXCEPT !.att[i] = NoAtt, !.gen[i] = @ + 1]
Dropped(c, i, keepTap) ==
  [c EXCEPT !.att[i] = NoAtt, !.slots = @ \ {c.att[i].slot}, !.gen[i] = @ + 1,
            !.taps = IF keepTap THEN @ ELSE @ \ {i}]

BootDetach(c, i) ==
  LET down == [c EXCEPT !.up = @ \ {i}] IN
  {Out(Dropped([down EXCEPT !.tap[i] = "loose"], i, TRUE), TRUE, 0, {}),
   Out(Dropped([c EXCEPT !.tap[i] = "loose"], i, TRUE), TRUE, 1, {}), \* set_link failed
   Out(down, FALSE, 1, {})}                                         \* nomaster failed

\* device_del answered DeviceNotFound, or the guest ejected within the poll.
Ejected(c, i) == [c EXCEPT !.dev[i] = NoSlot, !.dying = @ \ {i}]
Unplugged(c, i) ==
  LET e == Ejected(c, i) IN
  {Out(Dropped([NoBackend(e, i) EXCEPT !.tap[i] = "gone"], i, FALSE), TRUE, 0, {}),
   Out([e EXCEPT !.tap[i] = "gone"], FALSE, 1, {}),                 \* netdev_del timed out
   Out([NoBackend(e, i) EXCEPT !.tap[i] = "gone"], FALSE, 1, {})}   \* or was applied
  \cup (IF c.tap[i] = "gone" THEN {} ELSE {Out(NoBackend(e, i), FALSE, 1, {})}) \* tap_del

Asked(c, i) == [c EXCEPT !.dying = @ \cup {i}]
Forced(c, i) ==
  {Out(Asked(c, i), FALSE, 1, {})} \cup                             \* nomaster failed
  (IF c.tap[i] = "gone" THEN {}
   ELSE {Out(Dropped([Asked(c, i) EXCEPT !.tap[i] = "loose"], i, TRUE), TRUE, 0, {})})

HotDetach(c, i) ==
  IF c.dev[i] = NoSlot
  THEN Unplugged(c, i) \cup {Out(c, FALSE, 1, {})}
  ELSE Unplugged(c, i) \cup Forced(c, i)
       \cup {Out(c, FALSE, 1, {}), Out(Asked(c, i), FALSE, 1, {})}  \* device_del, query-pci
       \cup (IF i \in c.dying THEN {Out(c, FALSE, 0, {})} ELSE {})  \* already unplugging

StaleToken(c, i, g) == g # 0 /\ g # c.gen[i]

Detach(c, i, g) ==
  CASE c.att[i].net = None \/ StaleToken(c, i, g) -> {Out(c, TRUE, 0, {})}
    [] OTHER -> IF c.att[i].boot THEN BootDetach(c, i) ELSE HotDetach(c, i)

-----------------------------------------------------------------------------
(* The reconciler: every boot card is made to agree with document D.       *)

WantedGen(l) == IF l.gen = 0 THEN 1 ELSE l.gen

\* `bad` names the one card whose host command or set_link fails in this pass.
HostBad(bad, i) == bad = <<"host", i>>
QmpBad(bad, i)  == bad = <<"qmp", i>>
Passes == {<<"none", 0>>} \cup ({"host", "qmp"} \X BootIfaces)

Wanted(D, i)  == i \in BootIfaces /\ D[i].net # None
Surplus(D, i) == i \in BootIfaces /\ D[i].net = None

\* Mutant: without phase 2, which pins down the cards that have no marked record.
ReconcileTapRecorded(c, D, bad, i) ==
  IF i \notin BootIfaces \/ HostBad(bad, i) THEN c.tap[i]
  ELSE IF Wanted(D, i) THEN D[i].net
  ELSE IF c.att[i].boot THEN "loose" ELSE c.tap[i]
ReconcileTap(c, D, bad, i) ==
  IF i \notin BootIfaces \/ HostBad(bad, i) THEN c.tap[i]
  ELSE IF Wanted(D, i) THEN D[i].net
  ELSE IF c.tap[i] = "gone" THEN "gone" ELSE "loose"

\* Phase 1 records the wanted cards, phase 3 drops the recorded boot cards no link names;
\* a card recorded at start carries no boot_nic mark and is passed over.
ReconcileAtt(c, D, bad, i) ==
  CASE Wanted(D, i) /\ ~HostBad(bad, i) ->
         [net |-> D[i].net, boot |-> TRUE, slot |-> NoSlot, gen |-> WantedGen(D[i])]
    [] Surplus(D, i) /\ c.att[i].boot -> NoAtt
    [] OTHER -> c.att[i]

\* Mutant: bumps the generation instead of copying the document's.
ReconcileGenBumped(c, D, bad, i) ==
  IF Wanted(D, i) /\ ~HostBad(bad, i) THEN c.gen[i] + 1 ELSE c.gen[i]
ReconcileGen(c, D, bad, i) == IF Wanted(D, i) /\ ~HostBad(bad, i) THEN WantedGen(D[i]) ELSE c.gen[i]

CarrierUp(c, D, bad) ==
  LET set == {i \in BootIfaces \cap c.netdev : ~QmpBad(bad, i)}
      on  == {i \in set : Wanted(D, i) /\ ~HostBad(bad, i)}
      off == {i \in set : Surplus(D, i)}
  IN (c.up \cup on) \ off

\* Phase 3 swallows a failed set_link; every other failure is a warning.
Warned(c, D, bad) ==
  {i \in BootIfaces : \/ HostBad(bad, i)
                      \/ Surplus(D, i) /\ c.tap[i] = "gone"
                      \/ QmpBad(bad, i) /\ ~(Surplus(D, i) /\ c.att[i].boot)}

ReconcilePass(c, D, bad) ==
  [c EXCEPT !.tap  = [i \in Ifaces |-> ReconcileTap(c, D, bad, i)],
            !.att  = [i \in Ifaces |-> ReconcileAtt(c, D, bad, i)],
            !.gen  = [i \in Ifaces |-> ReconcileGen(c, D, bad, i)],
            !.up   = CarrierUp(c, D, bad),
            !.taps = @ \cup {i \in Ifaces : Wanted(D, i) /\ ~HostBad(bad, i)}]

Reconcile(c, D) == {Out(ReconcilePass(c, D, bad), TRUE, IF bad[1] = "none" THEN 0 ELSE 1,
                        Warned(c, D, bad)) : bad \in Passes}

-----------------------------------------------------------------------------
(* The handlers.                                                           *)

Spend(k) == faults + k <= MaxFaults /\ faults' = faults + k

\* _runtime_record drops the record of a process that died.
Seen == /\ rec' = Live
        /\ synced' = (synced /\ Live)
        /\ halfway' = IF Live THEN halfway ELSE {}

\* A handler that could not reach a running node only edits the document.
OfflineEdit(D) == /\ ~Live /\ Seen /\ doc' = D /\ n' = Forgotten(n)
                  /\ UNCHANGED <<vm, start, logged, faults>>

\* The handler wrote D and reconciles the cards c that its own work left.
WriteAndReconcile(D, c, f, l) ==
  \E r \in Reconcile(c, D) :
    /\ Spend(f + r.f)
    /\ n' = r.c /\ doc' = D /\ synced' = TRUE
    /\ logged' = (logged \ BootIfaces) \cup l \cup r.log
    /\ UNCHANGED <<vm, rec, start>>

\* create_link detaches a stale attachment first and ignores its failure.
Healed(i, k) == IF n.att[i].net \in {None, k} THEN {Out(n, TRUE, 0, {})} ELSE Detach(n, i, 0)

Bounded(i) == n.gen[i] + 2 <= MaxGen

CreateOffline(i, k) ==
  /\ doc[i].net = None
  /\ OfflineEdit([doc EXCEPT ![i] = [net |-> k, gen |-> 0]])

CreateLink(i, k) ==
  /\ doc[i].net = None /\ Live /\ Bounded(i)
  /\ \E h \in Healed(i, k) : \E a \in Attach(h.c, i, k) :
       /\ a.ok
       /\ WriteAndReconcile([doc EXCEPT ![i] = [net |-> k, gen |-> a.c.att[i].gen]],
                            [a.c EXCEPT !.up = @ \cup ({i} \cap a.c.netdev)],
                            h.f + a.f, {})
       /\ halfway' = halfway \ {i}

\* The document is restored; the host keeps what the failed attach left.
CreateFailed(i, k) ==
  /\ doc[i].net = None /\ Live /\ Bounded(i)
  /\ \E h \in Healed(i, k) : \E a \in Attach(h.c, i, k) :
       /\ ~a.ok /\ Spend(h.f + a.f)
       /\ n' = a.c /\ logged' = logged \cup a.log
       /\ halfway' = IF h.ok THEN halfway ELSE halfway \cup {i}
  /\ UNCHANGED <<doc, vm, rec, start, synced>>

DeleteOffline(i) ==
  /\ doc[i].net # None
  /\ OfflineEdit([doc EXCEPT ![i] = NoLink])

\* delete_link pins the carrier down before it detaches.
Pinned(i) == [n EXCEPT !.up = @ \ {i}]

DeleteLink(i) ==
  /\ doc[i].net # None /\ Live /\ Bounded(i)
  /\ \E d \in Detach(Pinned(i), i, doc[i].gen) :
       /\ d.ok /\ WriteAndReconcile([doc EXCEPT ![i] = NoLink], d.c, d.f, {})
  /\ halfway' = halfway \ {i}

DeleteFailed(i) ==
  /\ doc[i].net # None /\ Live /\ Bounded(i)
  /\ \E d \in Detach(Pinned(i), i, doc[i].gen) :
       /\ ~d.ok /\ Spend(d.f) /\ n' = d.c
  /\ halfway' = halfway \cup {i}
  /\ UNCHANGED <<doc, vm, rec, start, synced, logged>>

\* PUT /topology: the links of the request are taken only by a document that has none.
PutTopology(i, k) ==
  LET D == IF \A j \in Ifaces : doc[j].net = None
           THEN [doc EXCEPT ![i] = [net |-> k, gen |-> 0]] ELSE doc
  IN \/ OfflineEdit(D)
     \/ Live /\ WriteAndReconcile(D, n, 0, {}) /\ UNCHANGED halfway

\* Opening a lab (ensure_lab_bridges): reconcile, then set every boot card's carrier again.
EnsureLabBridges ==
  /\ Live
  /\ \E r \in Reconcile(n, doc) :
       /\ Spend(r.f)
       /\ n' = [r.c EXCEPT !.up = {i \in r.c.netdev : IF i \in BootIfaces THEN doc[i].net # None
                                                      ELSE i \in r.c.up}]
       /\ logged' = (logged \ BootIfaces) \cup r.log
  /\ synced' = TRUE
  /\ UNCHANGED <<doc, vm, rec, start, halfway>>

-----------------------------------------------------------------------------
(* The node's life.                                                        *)

StartRead ==
  /\ start.pc = "idle"
  /\ start' = [pc |-> "check", wires |-> [i \in Ifaces |-> IF i \in BootIfaces THEN doc[i].net ELSE None]]
  /\ UNCHANGED <<n, doc, vm, rec, synced, logged, halfway, faults>>

StartCheck ==
  /\ start.pc = "check" /\ Seen
  /\ start' = IF Live THEN IdleStart ELSE [start EXCEPT !.pc = "boot"]
  /\ n' = IF Live THEN n ELSE Forgotten(n)
  /\ UNCHANGED <<doc, vm, logged, faults>>

BootTap(i) == IF start.wires[i] = None THEN "loose" ELSE start.wires[i]

\* Pinning an unconnected card down is best effort: `lucky` are the ones that listened.
StartBoot ==
  /\ start.pc = "boot" /\ ~vm
  /\ \E missed \in {{}} \cup {{i} : i \in {j \in BootIfaces : start.wires[j] = None}} :
       /\ Spend(Cardinality(missed))
       /\ n' = [n EXCEPT !.tap = [i \in Ifaces |-> IF i \in BootIfaces THEN BootTap(i) ELSE @[i]],
                         !.netdev = BootIfaces,
                         !.up = {i \in BootIfaces : start.wires[i] # None} \cup missed]
  /\ vm' = TRUE /\ start' = [start EXCEPT !.pc = "commit"]
  /\ UNCHANGED <<doc, rec, synced, logged, halfway>>

\* Only the TAPs this start created are swept.
StartFailed ==
  /\ start.pc = "boot" /\ Spend(1)
  /\ n' = [n EXCEPT !.tap = [i \in Ifaces |-> IF i \in BootIfaces /\ @[i] # "gone"
                                              THEN BootTap(i) ELSE @[i]]]
  /\ start' = IdleStart
  /\ UNCHANGED <<doc, vm, rec, synced, logged, halfway>>

StartCommit ==
  /\ start.pc = "commit"
  /\ n' = [Forgotten(n) EXCEPT
             !.att = [i \in Ifaces |-> IF start.wires[i] = None THEN NoAtt
                                       ELSE [NoAtt EXCEPT !.net = start.wires[i]]],
             !.taps = BootIfaces]
  /\ rec' = TRUE /\ start' = IdleStart /\ synced' = FALSE /\ logged' = {} /\ halfway' = {}
  /\ UNCHANGED <<doc, vm, faults>>

StopNode ==
  /\ Live
  /\ n' = [PoweredOff(Forgotten(n)) EXCEPT !.tap = [i \in Ifaces |-> "gone"]]
  /\ vm' = FALSE /\ rec' = FALSE /\ synced' = FALSE /\ logged' = {} /\ halfway' = {}
  /\ UNCHANGED <<doc, start, faults>>

\* The guest lets go of a device it was asked to eject.
GuestEjects(i) == /\ i \in n.dying /\ n' = Ejected(n, i)
                  /\ UNCHANGED <<doc, vm, rec, start, synced, logged, halfway, faults>>

VmExits == /\ vm /\ vm' = FALSE /\ n' = PoweredOff(n)
           /\ UNCHANGED <<doc, rec, start, synced, logged, halfway, faults>>

\* Any read of a dead node's record (listing, heartbeat) drops it; the TAPs stay.
RecordExpires == /\ rec /\ OfflineEdit(doc)

Next == \/ \E i \in Ifaces : \/ \E k \in Nets : \/ CreateOffline(i, k) \/ CreateLink(i, k)
                                                \/ CreateFailed(i, k) \/ PutTopology(i, k)
                             \/ DeleteOffline(i) \/ DeleteLink(i) \/ DeleteFailed(i)
                             \/ GuestEjects(i)
        \/ EnsureLabBridges
        \/ StartRead \/ StartCheck \/ StartBoot \/ StartFailed \/ StartCommit
        \/ StopNode \/ VmExits \/ RecordExpires

Spec == Init /\ [][Next]_vars

-----------------------------------------------------------------------------
(* Properties.                                                             *)

\* No two devices share a PCIe root port, a device the guest never ejected included
\* (_find_free_pcie_slot).
PortsExclusive ==
  \A i, j \in Ifaces : n.dev[i] # NoSlot =>
     /\ n.dev[i] \notin BootSlots
     /\ n.dev[i] = n.dev[j] => i = j

\* The reservations in allocated_slots are exactly the ports of the recorded hot-plugged
\* cards: no failed plug or forced unplug leaks one.
SlotsExact == n.slots = {n.att[i].slot : i \in Ifaces} \ {NoSlot}

\* A recorded hot-plugged card is whole (TAP on its bridge, backend, device in its port)
\* unless a detach of it failed part way and was reported to the client.
AttachedWhole ==
  Live => \A i \in Ifaces \ halfway : n.att[i].slot # NoSlot =>
     /\ n.dev[i] = n.att[i].slot /\ i \in n.netdev /\ i \notin n.dying
     /\ n.tap[i] = n.att[i].net

\* Once the reconciler has seen a running node, a card that QEMU drives is on a bridge only
\* by a link of lab.json, and a linked boot card is on its bridge with its carrier up, unless the
\* difference has been logged or a delete of the link failed and was reported.
HostFollowsDocument ==
  Live /\ synced => \A i \in Ifaces \ logged :
     /\ n.tap[i] \in Nets /\ i \in n.netdev => doc[i].net = n.tap[i]
     /\ Wanted(doc, i) /\ i \notin halfway =>
          n.tap[i] = doc[i].net /\ (i \in n.netdev => i \in n.up)

\* Once the reconciler has seen a running node, the token stored in a link matches the
\* record's generation, so that deleting the link is never taken for a stale request.
TokensAgree ==
  Live /\ synced => \A i \in Ifaces \ logged :
     doc[i].net # None /\ n.att[i].net = doc[i].net => ~StaleToken(n, i, doc[i].gen)
=============================================================================
