--------------------------- MODULE QemuNicsProofs ---------------------------
(***************************************************************************)
(* Proofs about QemuNics, for any number of cards, root ports, networks    *)
(* and failing commands.                                                   *)
(***************************************************************************)
EXTENDS QemuNics, TLAPS, WellFoundedInduction

Att  == [net : Nets \cup {None}, boot : BOOLEAN, slot : Slots \cup {NoSlot}, gen : Nat]
Card == [tap : [Ifaces -> Nets \cup {"gone", "loose"}], netdev : SUBSET Ifaces,
         dev : [Ifaces -> Slots \cup {NoSlot}], dying : SUBSET Ifaces, up : SUBSET Ifaces,
         att : [Ifaces -> Att], slots : SUBSET Slots, gen : [Ifaces -> Nat],
         taps : SUBSET Ifaces]
Link == [net : Nets \cup {None}, gen : Nat]

\* No two devices in one root port.
PortsOnce(dev) ==
  \A i, j \in Ifaces : dev[i] # NoSlot => /\ dev[i] \notin BootSlots
                                          /\ dev[i] = dev[j] => i = j

\* What an entry of interface_attachments says: a boot card holds no port, a hot-plugged
\* card holds one of its own, and its entry carries the card's generation.
EntrySound(a, g, i) ==
  /\ a.net = None => a = NoAtt
  /\ i \in BootIfaces => a.slot = NoSlot
  /\ i \notin BootIfaces /\ a.net # None => ~a.boot /\ a.slot # NoSlot /\ a.gen = g

\* The cards alone: whatever a command did, the record and QEMU's devices are sound.
CardsSound(c) ==
  /\ c \in Card
  /\ PortsOnce(c.dev)
  /\ c.slots = {c.att[i].slot : i \in Ifaces} \ {NoSlot}
  /\ \A i, j \in Ifaces : c.att[i].slot # NoSlot /\ c.att[i].slot = c.att[j].slot => i = j
  /\ \A i \in Ifaces : EntrySound(c.att[i], c.gen[i], i)
  /\ \A i \in c.dying : c.dev[i] # NoSlot

Typed ==
  /\ CardsSound(n) /\ doc \in [Ifaces -> Link]
  /\ vm \in BOOLEAN /\ rec \in BOOLEAN /\ synced \in BOOLEAN
  /\ start \in [pc : {"idle", "check", "boot", "commit"}, wires : [Ifaces -> Nets \cup {None}]]
  /\ logged \subseteq Ifaces /\ halfway \subseteq Ifaces

\* A dead process has no devices, a node without a record has no entries, and while a
\* process runs without a record its start thread is about to commit it.
LifeSound ==
  /\ ~vm => n.netdev = {} /\ n.dying = {} /\ \A i \in Ifaces : n.dev[i] = NoSlot
  /\ ~rec => /\ n.netdev \subseteq BootIfaces /\ n.dying = {}
             /\ \A i \in Ifaces : n.att[i] = NoAtt /\ n.dev[i] = NoSlot
  /\ start.pc \in {"boot", "commit"} => ~rec
  /\ vm /\ ~rec => start.pc = "commit"
  /\ \A i \in Ifaces \ BootIfaces : start.wires[i] = None

\* While the node runs, a recorded hot-plugged card is the one of its link, with the same
\* token; a card QEMU drives is on a bridge only if it is recorded there or was logged.
HotSound ==
  Live => \A i \in Ifaces \ BootIfaces :
     /\ n.att[i].net # None => doc[i].net = n.att[i].net /\ doc[i].gen = n.gen[i]
     /\ i \notin logged /\ n.tap[i] \in Nets /\ i \in n.netdev => n.att[i].net = n.tap[i]

NicInv == Typed /\ LifeSound /\ HotSound /\ AttachedWhole /\ HostFollowsDocument /\ TokensAgree
-----------------------------------------------------------------------------
(* Cards.                                                                  *)

\* Nothing but card i differs.
Elsewhere(c, d, i) ==
  \A j \in Ifaces \ {i} :
     /\ d.tap[j] = c.tap[j] /\ d.dev[j] = c.dev[j] /\ d.att[j] = c.att[j] /\ d.gen[j] = c.gen[j]
     /\ j \in d.netdev <=> j \in c.netdev
     /\ j \in d.dying <=> j \in c.dying
     /\ j \in d.up <=> j \in c.up

\* The interfaces and ports are numbers, and -1 is no port.
LEMMA Numbers ==
  /\ Ifaces \subseteq Nat /\ BootIfaces \subseteq Ifaces
  /\ Slots \subseteq Nat /\ BootSlots \subseteq Slots /\ NoSlot \notin Slots
  /\ None \notin Nets /\ "gone" \notin Nets /\ "loose" \notin Nets
BY NicConstants DEF Ifaces, BootIfaces, Slots, BootSlots, NoSlot

\* Changing one card keeps the cards sound when its device goes to a port of its own, and
\* the reservations follow its entry.
LEMMA CardChanged ==
  ASSUME NEW c, CardsSound(c), NEW d \in Card, NEW i \in Ifaces, Elsewhere(c, d, i),
         EntrySound(d.att[i], d.gen[i], i),
         \/ d.dev[i] = NoSlot
         \/ d.dev[i] = c.dev[i]
         \/ d.dev[i] \notin BootSlots /\ \A j \in Ifaces : c.dev[j] # d.dev[i],
         d.att[i].slot = NoSlot \/ d.att[i].slot = c.att[i].slot \/ d.att[i].slot \notin c.slots,
         d.slots = (c.slots \ {c.att[i].slot}) \cup ({d.att[i].slot} \ {NoSlot}),
         i \in d.dying => d.dev[i] # NoSlot
  PROVE  CardsSound(d)
<1>1. PortsOnce(d.dev)
  BY DEF CardsSound, PortsOnce, Elsewhere
<1>2. \A j \in Ifaces : c.att[j].slot \in c.slots \/ c.att[j].slot = NoSlot
  BY DEF CardsSound
<1>3. \A j, k \in Ifaces : d.att[j].slot # NoSlot /\ d.att[j].slot = d.att[k].slot => j = k
  BY <1>2 DEF CardsSound, Elsewhere
<1>4. d.slots = {d.att[j].slot : j \in Ifaces} \ {NoSlot}
  <2>1. ASSUME NEW j \in Ifaces, d.att[j].slot # NoSlot PROVE d.att[j].slot \in d.slots
    BY <2>1, <1>2 DEF CardsSound, Elsewhere
  <2>2. ASSUME NEW s \in d.slots PROVE s # NoSlot /\ \E j \in Ifaces : s = d.att[j].slot
    <3>1. CASE s \in c.slots /\ s # c.att[i].slot
      <4>1. s # NoSlot /\ \E j \in Ifaces : s = c.att[j].slot
        BY <3>1 DEF CardsSound
      <4> QED BY <3>1, <4>1 DEF Elsewhere
    <3> QED BY <2>2, <3>1
  <2> QED BY <2>1, <2>2
<1>5. \A j \in Ifaces : EntrySound(d.att[j], d.gen[j], j)
  BY DEF CardsSound, Elsewhere
<1>6. \A j \in d.dying : d.dev[j] # NoSlot
  BY DEF CardsSound, Elsewhere, Card
<1> QED BY <1>1, <1>3, <1>4, <1>5, <1>6 DEF CardsSound

\* A change that leaves the entry of card i alone, and its device or takes it out.
LEMMA CardRewired ==
  ASSUME NEW c, CardsSound(c), NEW d \in Card, NEW i \in Ifaces, Elsewhere(c, d, i),
         d.att[i] = c.att[i], d.gen[i] = c.gen[i], d.slots = c.slots,
         d.dev[i] \in {NoSlot, c.dev[i]}, i \in d.dying => d.dev[i] # NoSlot
  PROVE  CardsSound(d)
<1>1. EntrySound(d.att[i], d.gen[i], i)
  BY DEF CardsSound
<1>2. c.att[i].slot = NoSlot => c.att[i].slot \notin c.slots
  BY DEF CardsSound
<1>3. c.att[i].slot # NoSlot => c.att[i].slot \in c.slots
  BY DEF CardsSound
<1> QED BY <1>1, <1>2, <1>3, CardChanged
-----------------------------------------------------------------------------
(* Attaching.                                                              *)

\* A recorded hot-plugged card with everything it is made of.
Whole(c, i) == /\ c.dev[i] = c.att[i].slot /\ i \in c.netdev /\ i \notin c.dying
               /\ c.tap[i] = c.att[i].net

\* The outcome o of an attach or a detach of card i leaves sound cards.
OutcomeSound(c, o, i) ==
  /\ o.ok \in BOOLEAN /\ o.f \in Nat /\ o.log \subseteq {i}
  /\ CardsSound(o.c) /\ Elsewhere(c, o.c, i)

\* What a failed attach changes: never the record, and a TAP it leaves on a bridge is logged.
AttachUndone(c, o, i) ==
  /\ o.c.att[i] = c.att[i] /\ o.c.gen[i] = c.gen[i]
  /\ i \in o.c.netdev => i \in c.netdev
  /\ o.c.tap[i] \in {c.tap[i], "loose"} \/ (i \notin BootIfaces /\ i \in o.log)
  /\ c.att[i].net # None => o.c = c

AttachOutcome(c, o, i, k) ==
  /\ OutcomeSound(c, o, i)
  /\ o.ok => o.c.att[i].net = k
  /\ o.ok /\ i \notin BootIfaces /\ c.att[i].net = None => Whole(o.c, i)
  /\ ~o.ok => AttachUndone(c, o, i)

\* Doing nothing is sound.
LEMMA NothingDone ==
  ASSUME NEW c, CardsSound(c), NEW i \in Ifaces, NEW ok \in BOOLEAN, NEW f \in Nat
  PROVE  OutcomeSound(c, Out(c, ok, f, {}), i) /\ AttachUndone(c, Out(c, ok, f, {}), i)
BY DEF OutcomeSound, Out, Elsewhere, AttachUndone

\* The entry that Recorded writes.
Entry(i, k, s, g) == [net |-> k, boot |-> i \in BootIfaces, slot |-> s, gen |-> g]

\* Its fields.
LEMMA EntryFields ==
  ASSUME NEW i \in Ifaces, NEW k \in Nets, NEW s \in Slots \cup {NoSlot}, NEW g \in Nat
  PROVE  /\ Entry(i, k, s, g) \in Att
         /\ Entry(i, k, s, g).net = k /\ Entry(i, k, s, g).slot = s /\ Entry(i, k, s, g).gen = g
         /\ Entry(i, k, s, g).boot <=> i \in BootIfaces
<1> DEFINE b == i \in BootIfaces
           e == [net |-> k, boot |-> b, slot |-> s, gen |-> g]
<1>1. b \in BOOLEAN
  OBVIOUS
<1>2. Entry(i, k, s, g) = e
  BY DEF Entry
<1> HIDE DEF b
<1>3. e \in Att /\ e.net = k /\ e.slot = s /\ e.gen = g /\ e.boot = b
  BY <1>1 DEF Att
<1> QED BY <1>1, <1>2, <1>3 DEF b

\* The fields of the cards after an attach recorded card i.
LEMMA RecordedFields ==
  ASSUME NEW c \in Card, NEW i \in Ifaces, NEW k \in Nets, NEW s \in Slots \cup {NoSlot}
  PROVE  /\ Recorded(c, i, k, s) \in Card
         /\ Recorded(c, i, k, s).att = [c.att EXCEPT ![i] = Entry(i, k, s, c.gen[i] + 1)]
         /\ Recorded(c, i, k, s).gen = [c.gen EXCEPT ![i] = c.gen[i] + 1]
         /\ Recorded(c, i, k, s).tap = c.tap /\ Recorded(c, i, k, s).dev = c.dev
         /\ Recorded(c, i, k, s).netdev = c.netdev /\ Recorded(c, i, k, s).dying = c.dying
         /\ Recorded(c, i, k, s).up = c.up /\ Recorded(c, i, k, s).slots = c.slots
<1> DEFINE g == c.gen[i] + 1
           a == Entry(i, k, s, g)
           r == [c EXCEPT !.att[i] = a, !.gen[i] = g, !.taps = @ \cup {i}]
<1>1. g \in Nat
  BY DEF Card
<1>2. Recorded(c, i, k, s) = r
  BY DEF Recorded, Entry
<1> HIDE DEF g
<1>3. a \in Att
  BY <1>1, EntryFields
<1> HIDE DEF a
<1>4. /\ r.att = [c.att EXCEPT ![i] = a] /\ r.gen = [c.gen EXCEPT ![i] = g]
      /\ r.tap = c.tap /\ r.dev = c.dev /\ r.netdev = c.netdev /\ r.dying = c.dying
      /\ r.up = c.up /\ r.slots = c.slots
  BY DEF Card
<1>5. c.att \in [Ifaces -> Att] /\ c.gen \in [Ifaces -> Nat]
  BY DEF Card
<1>6. [c.att EXCEPT ![i] = a] \in [Ifaces -> Att] /\ [c.gen EXCEPT ![i] = g] \in [Ifaces -> Nat]
  BY <1>1, <1>3, <1>5
<1>7. r \in Card
  BY <1>6 DEF Card
<1> QED BY <1>2, <1>4, <1>7 DEF a, g

\* A recorded card is sound: a boot card without a port, another card with one.
LEMMA EntryIsSound ==
  ASSUME NEW i \in Ifaces, NEW k \in Nets, NEW s \in Slots \cup {NoSlot}, NEW g \in Nat,
         i \in BootIfaces <=> s = NoSlot
  PROVE  EntrySound(Entry(i, k, s, g), g, i)
BY EntryFields, Numbers DEF EntrySound

\* A boot card: its TAP is enslaved and the card recorded, or nothing is recorded.
LEMMA BootAttached ==
  ASSUME NEW c, CardsSound(c), NEW i \in BootIfaces, NEW k \in Nets, c.att[i].net = None,
         NEW o \in BootAttach(c, i, k)
  PROVE  AttachOutcome(c, o, i, k)
<1> DEFINE m == [c EXCEPT !.tap[i] = k]
           w == Recorded(m, i, k, NoSlot)
           l == [c EXCEPT !.tap[i] = IF @ = "gone" THEN "gone" ELSE "loose"]
           u == [w EXCEPT !.up = @ \cup ({i} \cap c.netdev)]
<1>1. i \in Ifaces /\ c \in Card /\ c.att[i] = NoAtt
  BY Numbers DEF CardsSound, EntrySound
<1>2. /\ m \in Card /\ m.tap = [c.tap EXCEPT ![i] = k] /\ m.dev = c.dev /\ m.att = c.att
      /\ m.gen = c.gen /\ m.netdev = c.netdev /\ m.dying = c.dying /\ m.up = c.up
      /\ m.slots = c.slots
  BY <1>1 DEF Card
<1>3. /\ l \in Card /\ l.tap = [c.tap EXCEPT ![i] = l.tap[i]] /\ l.tap[i] \in {c.tap[i], "loose"}
      /\ l.dev = c.dev /\ l.att = c.att
      /\ l.gen = c.gen /\ l.netdev = c.netdev /\ l.dying = c.dying /\ l.up = c.up
      /\ l.slots = c.slots
  BY <1>1 DEF Card
<1>4. /\ w \in Card /\ w.att = [m.att EXCEPT ![i] = Entry(i, k, NoSlot, m.gen[i] + 1)]
      /\ w.gen = [m.gen EXCEPT ![i] = m.gen[i] + 1]
      /\ w.tap = m.tap /\ w.dev = m.dev /\ w.netdev = m.netdev /\ w.dying = m.dying
      /\ w.up = m.up /\ w.slots = m.slots
  <2> HIDE DEF m
  <2> QED BY <1>1, <1>2, RecordedFields
<1> HIDE DEF m, w, l
<1>5. /\ u \in Card /\ u.att = w.att /\ u.gen = w.gen /\ u.tap = w.tap /\ u.dev = w.dev
      /\ u.netdev = w.netdev /\ u.dying = w.dying /\ u.up = w.up \cup ({i} \cap c.netdev)
      /\ u.slots = w.slots
  BY <1>1, <1>4 DEF Card
<1> HIDE DEF u
<1>6. Elsewhere(c, w, i) /\ Elsewhere(c, u, i) /\ Elsewhere(c, l, i)
  <2>1. c.tap \in [Ifaces -> Nets \cup {"gone", "loose"}] /\ c.att \in [Ifaces -> Att]
        /\ c.gen \in [Ifaces -> Nat]
    BY <1>1 DEF Card
  <2> QED BY <2>1, <1>1, <1>2, <1>3, <1>4, <1>5 DEF Elsewhere
<1>7. i \in c.dying => c.dev[i] # NoSlot
  BY DEF CardsSound
<1>8. CardsSound(l)
  BY <1>1, <1>3, <1>6, <1>7, CardRewired
<1>9. c.att \in [Ifaces -> Att] /\ c.gen \in [Ifaces -> Nat] /\ NoSlot \notin c.slots
      /\ NoAtt.slot = NoSlot
  BY <1>1, Numbers DEF Card, NoAtt
<1>10. w.att[i] = Entry(i, k, NoSlot, c.gen[i] + 1) /\ w.gen[i] = c.gen[i] + 1 /\ c.gen[i] + 1 \in Nat
  BY <1>1, <1>2, <1>4, <1>9
<1>11. EntrySound(w.att[i], w.gen[i], i) /\ w.att[i].slot = NoSlot /\ w.att[i].net = k
  BY <1>1, <1>10, EntryFields, EntryIsSound
<1>12. w.slots = (c.slots \ {c.att[i].slot}) \cup ({w.att[i].slot} \ {NoSlot})
  BY <1>1, <1>2, <1>4, <1>9, <1>11
<1>13. CardsSound(w)
  <2>1. w.dev[i] = c.dev[i] /\ (i \in w.dying => w.dev[i] # NoSlot)
    BY <1>2, <1>4, <1>7
  <2> QED BY <1>1, <1>4, <1>6, <1>11, <1>12, <2>1, CardChanged
<1>14. CardsSound(u)
  <2>1. u.att[i] = w.att[i] /\ u.gen[i] = w.gen[i] /\ u.slots = w.slots
    BY <1>5
  <2>2. u.dev[i] = w.dev[i] /\ (i \in u.dying => u.dev[i] # NoSlot)
    BY <1>2, <1>4, <1>5, <1>7
  <2>3. Elsewhere(w, u, i)
    BY <1>5 DEF Elsewhere
  <2> QED BY <1>1, <1>5, <1>13, <2>1, <2>2, <2>3, CardRewired
<1>15. \/ o = Out(u, TRUE, 0, {}) \/ o = Out(w, TRUE, 1, {}) \/ o = Out(c, FALSE, 1, {})
       \/ o = Out(l, FALSE, 1, {})
  BY DEF BootAttach, u, w, m, l
<1>16. CASE o = Out(u, TRUE, 0, {}) \/ o = Out(w, TRUE, 1, {})
  <2>1. /\ o.c = u \/ o.c = w
        /\ o.ok = TRUE /\ o.f \in Nat /\ o.log = {}
    BY <1>16 DEF Out
  <2>2. OutcomeSound(c, o, i)
    BY <1>6, <1>13, <1>14, <2>1 DEF OutcomeSound
  <2>3. o.c.att[i].net = k
    BY <1>5, <1>11, <2>1
  <2> QED BY <2>1, <2>2, <2>3 DEF AttachOutcome
<1>17. CASE o = Out(c, FALSE, 1, {})
  BY <1>1, <1>17, NothingDone DEF AttachOutcome, Out
<1>18. CASE o = Out(l, FALSE, 1, {})
  BY <1>1, <1>18, <1>3, <1>6, <1>8 DEF AttachOutcome, OutcomeSound, AttachUndone, Out, NoAtt
<1> QED BY <1>15, <1>16, <1>17, <1>18

\* _find_free_pcie_slot picks a port, and the one it picks is free.
LEMMA HighestPort ==
  ASSUME NEW S \in SUBSET Slots, S # {}
  PROVE  Max(S) \in S
<1> DEFINE D == {MaxNics - s : s \in S}
           R == OpToRel(<, Nat)
<1>1. D \in SUBSET Nat /\ D # {}
  <2>1. \A s \in S : MaxNics - s \in Nat
    BY NicConstants DEF Slots
  <2>2. PICK s \in S : TRUE
    OBVIOUS
  <2>3. MaxNics - s \in D
    OBVIOUS
  <2> QED BY <2>1, <2>3
<1>2. \A x, y \in Nat : y < x => <<y, x>> \in R
  BY DEF OpToRel
<1>3. IsWellFoundedOn(R, Nat)
  BY NatLessThanWellFounded
<1> HIDE DEF R
<1>4. PICK m \in D : \A d \in D : ~(<<d, m>> \in R)
  <2> HIDE DEF D
  <2> QED BY <1>1, <1>3, WFMin
<1>5. PICK s \in S : m = MaxNics - s
  OBVIOUS
<1>6. ASSUME NEW y \in S PROVE s >= y
  <2>1. MaxNics - y \in D /\ MaxNics - y \in Nat /\ m \in Nat
    BY <1>1
  <2>2. ~(MaxNics - y < m)
    BY <1>2, <1>4, <2>1
  <2> QED BY <1>5, <2>1, <2>2, NicConstants DEF Slots
<1> QED BY <1>6 DEF Max

\* A free port is none of the ports in use.
LEMMA FreePort ==
  ASSUME NEW c \in Card, NEW s \in FreeSlots(c)
  PROVE  /\ s \in Slots /\ s # NoSlot /\ s \notin BootSlots /\ s \notin c.slots
         /\ \A j \in Ifaces : c.dev[j] # s
BY Numbers DEF FreeSlots, Occupied

\* A card that lost its backend.
LEMMA NoBackendFields ==
  ASSUME NEW c \in Card, NEW i \in Ifaces
  PROVE  /\ NoBackend(c, i) \in Card
         /\ NoBackend(c, i).netdev = c.netdev \ {i} /\ NoBackend(c, i).up = c.up \ {i}
         /\ NoBackend(c, i).tap = c.tap /\ NoBackend(c, i).dev = c.dev
         /\ NoBackend(c, i).att = c.att /\ NoBackend(c, i).gen = c.gen
         /\ NoBackend(c, i).dying = c.dying /\ NoBackend(c, i).slots = c.slots
BY DEF NoBackend, Card

\* A device_add that fails leaves no record behind.
LEMMA PlugFailed ==
  ASSUME NEW c, CardsSound(c), NEW i \in Ifaces \ BootIfaces, NEW k \in Nets,
         c.att[i].net = None, NEW s \in FreeSlots(c), NEW o \in PlugFailures(c, i, k, s)
  PROVE  AttachOutcome(c, o, i, k)
<1> DEFINE b == NoBackend(c, i)
           t == [c EXCEPT !.tap[i] = k]
           z == [b EXCEPT !.dev[i] = s, !.dying = @ \cup {i}]
<1>1. c \in Card /\ c.att[i] = NoAtt /\ (i \in c.dying => c.dev[i] # NoSlot)
  BY DEF CardsSound, EntrySound
<1>2. /\ b \in Card /\ b.netdev = c.netdev \ {i} /\ b.up = c.up \ {i} /\ b.tap = c.tap
      /\ b.dev = c.dev /\ b.att = c.att /\ b.gen = c.gen /\ b.dying = c.dying /\ b.slots = c.slots
  BY <1>1, NoBackendFields
<1>3. /\ t \in Card /\ t.tap = [c.tap EXCEPT ![i] = k] /\ t.netdev = c.netdev /\ t.up = c.up
      /\ t.dev = c.dev /\ t.att = c.att /\ t.gen = c.gen /\ t.dying = c.dying /\ t.slots = c.slots
  BY <1>1 DEF Card
<1> HIDE DEF b, t
<1>4. s \in Slots /\ s # NoSlot /\ s \notin BootSlots /\ \A j \in Ifaces : c.dev[j] # s
  BY <1>1, FreePort
<1>5. /\ z \in Card /\ z.dev = [c.dev EXCEPT ![i] = s] /\ z.dying = c.dying \cup {i}
      /\ z.netdev = b.netdev /\ z.up = b.up /\ z.tap = c.tap
      /\ z.att = c.att /\ z.gen = c.gen /\ z.slots = c.slots
  BY <1>2, <1>4 DEF Card
<1> HIDE DEF z
<1>6. Elsewhere(c, b, i) /\ Elsewhere(c, t, i) /\ Elsewhere(c, z, i)
  <2>1. c.tap \in [Ifaces -> Nets \cup {"gone", "loose"}]
        /\ c.dev \in [Ifaces -> Slots \cup {NoSlot}]
    BY <1>1 DEF Card
  <2> QED BY <2>1, <1>2, <1>3, <1>5 DEF Elsewhere
<1>7. CardsSound(b)
  BY <1>1, <1>2, <1>6, CardRewired
<1>8. CardsSound(t)
  BY <1>1, <1>3, <1>6, CardRewired
<1>9. CardsSound(z)
  <2>1. z.dev[i] = s /\ z.att[i] = NoAtt /\ z.gen[i] = c.gen[i]
    BY <1>1, <1>5 DEF Card
  <2>2. EntrySound(z.att[i], z.gen[i], i)
    BY <1>1, <1>5 DEF CardsSound
  <2>3. NoSlot \notin c.slots /\ z.att[i].slot = NoSlot
    BY <1>1, <2>1, Numbers DEF Card, NoAtt
  <2>4. z.slots = (c.slots \ {c.att[i].slot}) \cup ({z.att[i].slot} \ {NoSlot})
    BY <1>1, <1>5, <2>1, <2>3
  <2> QED BY <1>4, <1>5, <1>6, <2>1, <2>2, <2>3, <2>4, CardChanged
<1>10. \/ o = Out(c, FALSE, 1, {}) \/ o = Out(b, FALSE, 1, {}) \/ o = Out(t, FALSE, 2, {i})
       \/ o = Out(z, FALSE, 1, {})
  BY DEF PlugFailures, b, t, z
<1>11. CASE o = Out(c, FALSE, 1, {})
  BY <1>1, <1>11, NothingDone DEF AttachOutcome, Out
<1>12. CASE o = Out(b, FALSE, 1, {}) \/ o = Out(t, FALSE, 2, {i}) \/ o = Out(z, FALSE, 1, {})
  <2>1. /\ o.ok = FALSE /\ o.f \in Nat /\ o.log \subseteq {i}
        /\ \/ o.c = b \/ o.c = z
           \/ o.c = t /\ o.log = {i}
    BY <1>12 DEF Out
  <2>2. OutcomeSound(c, o, i)
    BY <1>6, <1>7, <1>8, <1>9, <2>1 DEF OutcomeSound
  <2>3. AttachUndone(c, o, i)
    BY <1>1, <1>2, <1>3, <1>5, <2>1 DEF AttachUndone
  <2> QED BY <2>1, <2>2, <2>3 DEF AttachOutcome
<1> QED BY <1>10, <1>11, <1>12

\* A plugged card is whole, in a port of its own.
LEMMA PlugDone ==
  ASSUME NEW c, CardsSound(c), NEW i \in Ifaces \ BootIfaces, NEW k \in Nets,
         c.att[i].net = None, NEW s \in FreeSlots(c), c.dev[i] = NoSlot
  PROVE  AttachOutcome(c, Out(Plugged(c, i, k, s), TRUE, 0, {}), i, k)
<1> DEFINE m == [c EXCEPT !.tap[i] = k, !.netdev = @ \cup {i}, !.dev[i] = s, !.up = @ \cup {i},
                          !.slots = @ \cup {s}]
           p == Recorded(m, i, k, s)
<1>1. c \in Card /\ c.att[i] = NoAtt /\ i \notin c.dying
  BY DEF CardsSound, EntrySound
<1>2. s \in Slots /\ s # NoSlot /\ s \notin BootSlots /\ s \notin c.slots
      /\ \A j \in Ifaces : c.dev[j] # s
  BY <1>1, FreePort
<1>3. /\ m.tap = [c.tap EXCEPT ![i] = k] /\ m.netdev = c.netdev \cup {i}
      /\ m.dev = [c.dev EXCEPT ![i] = s] /\ m.up = c.up \cup {i} /\ m.slots = c.slots \cup {s}
      /\ m.dying = c.dying /\ m.att = c.att /\ m.gen = c.gen /\ m.taps = c.taps
  BY <1>1 DEF Card
<1>4. m \in Card
  BY <1>1, <1>2 DEF Card
<1>5. c.tap \in [Ifaces -> Nets \cup {"gone", "loose"}] /\ c.dev \in [Ifaces -> Slots \cup {NoSlot}]
      /\ c.att \in [Ifaces -> Att] /\ c.gen \in [Ifaces -> Nat]
  BY <1>1 DEF Card
<1> HIDE DEF m
<1>6. /\ p \in Card /\ p.att = [c.att EXCEPT ![i] = Entry(i, k, s, c.gen[i] + 1)]
      /\ p.gen = [c.gen EXCEPT ![i] = c.gen[i] + 1]
      /\ p.tap = m.tap /\ p.dev = m.dev /\ p.netdev = m.netdev /\ p.dying = m.dying
      /\ p.up = m.up /\ p.slots = m.slots
  BY <1>2, <1>3, <1>4, RecordedFields
<1>7. Plugged(c, i, k, s) = p
  BY DEF Plugged, m
<1> HIDE DEF p
<1>8. p.att[i] = Entry(i, k, s, c.gen[i] + 1) /\ p.gen[i] = c.gen[i] + 1 /\ c.gen[i] + 1 \in Nat
      /\ p.dev[i] = s /\ p.tap[i] = k
  BY <1>3, <1>5, <1>6
<1>9. EntrySound(p.att[i], p.gen[i], i) /\ p.att[i].slot = s /\ p.att[i].net = k
  BY <1>2, <1>8, EntryFields, EntryIsSound
<1>10. Elsewhere(c, p, i)
  BY <1>3, <1>5, <1>6 DEF Elsewhere
<1>11. CardsSound(p)
  <2>1. NoSlot \notin c.slots /\ c.att[i].slot = NoSlot
    BY <1>1, Numbers DEF Card, NoAtt
  <2>2. p.slots = (c.slots \ {c.att[i].slot}) \cup ({p.att[i].slot} \ {NoSlot})
    BY <1>2, <1>3, <1>6, <1>9, <2>1
  <2> QED BY <1>2, <1>6, <1>8, <1>9, <1>10, <2>2, CardChanged
<1>12. Whole(p, i)
  BY <1>1, <1>3, <1>6, <1>8, <1>9 DEF Whole
<1> QED BY <1>7, <1>9, <1>10, <1>11, <1>12 DEF AttachOutcome, OutcomeSound, Out

\* A hot-plugged card: it is whole and recorded, or nothing is recorded.
LEMMA HotAttached ==
  ASSUME NEW c, CardsSound(c), NEW i \in Ifaces \ BootIfaces, NEW k \in Nets,
         c.att[i].net = None, NEW o \in HotAttach(c, i, k)
  PROVE  AttachOutcome(c, o, i, k)
<1>1. c \in Card /\ c.att[i] = NoAtt
  BY DEF CardsSound, EntrySound
<1>2. CASE o = Out(c, FALSE, 0, {})
  BY <1>2, NothingDone DEF AttachOutcome, Out
<1>3. CASE FreeSlots(c) # {} /\ o # Out(c, FALSE, 0, {})
  <2> DEFINE s == Max(FreeSlots(c))
  <2>1. s \in FreeSlots(c)
    BY <1>3, HighestPort DEF FreeSlots
  <2> HIDE DEF s
  <2>2. \/ o \in PlugFailures(c, i, k, s)
        \/ o = Out(NoBackend(c, i), FALSE, 0, {})
        \/ c.dev[i] = NoSlot /\ o = Out(Plugged(c, i, k, s), TRUE, 0, {})
    BY <1>3 DEF HotAttach, s
  <2>3. CASE o = Out(NoBackend(c, i), FALSE, 0, {})
    <3>1. /\ NoBackend(c, i) \in Card
          /\ NoBackend(c, i).netdev = c.netdev \ {i} /\ NoBackend(c, i).up = c.up \ {i}
          /\ NoBackend(c, i).tap = c.tap /\ NoBackend(c, i).dev = c.dev
          /\ NoBackend(c, i).att = c.att /\ NoBackend(c, i).gen = c.gen
          /\ NoBackend(c, i).dying = c.dying /\ NoBackend(c, i).slots = c.slots
      BY <1>1, NoBackendFields
    <3>2. Elsewhere(c, NoBackend(c, i), i)
      BY <3>1 DEF Elsewhere
    <3>3. CardsSound(NoBackend(c, i))
      <4>1. i \in c.dying => c.dev[i] # NoSlot
        BY DEF CardsSound
      <4> QED BY <3>1, <3>2, <4>1, CardRewired
    <3>4. o.c = NoBackend(c, i) /\ o.ok = FALSE /\ o.f \in Nat /\ o.log = {}
      BY <2>3 DEF Out
    <3>5. OutcomeSound(c, o, i)
      BY <3>2, <3>3, <3>4 DEF OutcomeSound
    <3>6. AttachUndone(c, o, i)
      BY <1>1, <3>1, <3>4 DEF AttachUndone
    <3> QED BY <3>4, <3>5, <3>6 DEF AttachOutcome
  <2> QED BY <2>1, <2>2, <2>3, PlugFailed, PlugDone
<1>4. FreeSlots(c) = {} => o = Out(c, FALSE, 0, {})
  BY DEF HotAttach
<1> QED BY <1>2, <1>3, <1>4

\* attach_interface: success records card i on network k, and failure records nothing.
LEMMA Attached ==
  ASSUME NEW c, CardsSound(c), NEW i \in Ifaces, NEW k \in Nets, NEW o \in Attach(c, i, k)
  PROVE  AttachOutcome(c, o, i, k)
<1>1. CASE c.att[i].net = None
  <2>1. o \in IF i \in BootIfaces THEN BootAttach(c, i, k) ELSE HotAttach(c, i, k)
    BY <1>1, Numbers DEF Attach
  <2> QED BY <1>1, <2>1, BootAttached, HotAttached
<1>2. CASE c.att[i].net = k
  <2>1. o = Out(c, TRUE, 0, {})
    BY <1>2 DEF Attach
  <2> QED BY <1>2, <2>1, NothingDone, Numbers DEF AttachOutcome, Out
<1>3. CASE c.att[i].net \notin {k, None}
  <2>1. o = Out(c, FALSE, 0, {})
    BY <1>3 DEF Attach
  <2> QED BY <1>3, <2>1, NothingDone DEF AttachOutcome, Out
<1> QED BY <1>1, <1>2, <1>3
-----------------------------------------------------------------------------
(* Detaching.                                                              *)

\* A failed detach keeps the entry and its generation; a successful one drops the entry and
\* takes the card off its bridge, or had nothing to do.
DetachOutcome(c, o, i) ==
  /\ OutcomeSound(c, o, i) /\ o.log = {}
  /\ o.c.tap[i] \in {c.tap[i], "gone", "loose"}
  /\ i \in o.c.netdev => i \in c.netdev
  /\ ~o.ok => o.c.att[i] = c.att[i] /\ o.c.gen[i] = c.gen[i]

\* Unless there was nothing to detach, success means the entry is gone and the TAP is on no
\* bridge.
DetachDone(o, i) == o.ok => o.c.att[i] = NoAtt /\ o.c.tap[i] \in {"gone", "loose"}

\* The fields of the cards after the entry of card i was dropped.
LEMMA DroppedFields ==
  ASSUME NEW c \in Card, NEW i \in Ifaces, NEW keepTap \in BOOLEAN
  PROVE  /\ Dropped(c, i, keepTap) \in Card
         /\ Dropped(c, i, keepTap).att = [c.att EXCEPT ![i] = NoAtt]
         /\ Dropped(c, i, keepTap).slots = c.slots \ {c.att[i].slot}
         /\ Dropped(c, i, keepTap).gen = [c.gen EXCEPT ![i] = c.gen[i] + 1]
         /\ Dropped(c, i, keepTap).tap = c.tap /\ Dropped(c, i, keepTap).dev = c.dev
         /\ Dropped(c, i, keepTap).netdev = c.netdev /\ Dropped(c, i, keepTap).dying = c.dying
         /\ Dropped(c, i, keepTap).up = c.up
<1> DEFINE g == c.gen[i] + 1
           t == IF keepTap THEN c.taps ELSE c.taps \ {i}
           r == [c EXCEPT !.att[i] = NoAtt, !.slots = @ \ {c.att[i].slot}, !.gen[i] = g, !.taps = t]
<1>1. g \in Nat /\ t \in SUBSET Ifaces
  BY DEF Card
<1>2. NoAtt \in Att
  BY DEF NoAtt, Att
<1>3. Dropped(c, i, keepTap) = r
  BY DEF Dropped, Card
<1> HIDE DEF g, t
<1>4. /\ r.att = [c.att EXCEPT ![i] = NoAtt] /\ r.gen = [c.gen EXCEPT ![i] = g]
      /\ r.slots = c.slots \ {c.att[i].slot}
      /\ r.tap = c.tap /\ r.dev = c.dev /\ r.netdev = c.netdev /\ r.dying = c.dying /\ r.up = c.up
  BY DEF Card
<1>5. c.att \in [Ifaces -> Att] /\ c.gen \in [Ifaces -> Nat]
  BY DEF Card
<1>6. [c.att EXCEPT ![i] = NoAtt] \in [Ifaces -> Att] /\ [c.gen EXCEPT ![i] = g] \in [Ifaces -> Nat]
  BY <1>1, <1>2, <1>5
<1>7. r \in Card
  BY <1>1, <1>6 DEF Card
<1> QED BY <1>3, <1>4, <1>7 DEF g

\* Dropping an entry frees its port and keeps the cards sound.
LEMMA DroppedSound ==
  ASSUME NEW c, CardsSound(c), NEW i \in Ifaces, NEW keepTap \in BOOLEAN
  PROVE  /\ CardsSound(Dropped(c, i, keepTap)) /\ Elsewhere(c, Dropped(c, i, keepTap), i)
         /\ Dropped(c, i, keepTap).att[i] = NoAtt /\ Dropped(c, i, keepTap).tap = c.tap
         /\ Dropped(c, i, keepTap).netdev = c.netdev
<1> DEFINE d == Dropped(c, i, keepTap)
<1>1. c \in Card
  BY DEF CardsSound
<1>2. /\ d \in Card
      /\ d.att = [c.att EXCEPT ![i] = NoAtt]
      /\ d.slots = c.slots \ {c.att[i].slot}
      /\ d.gen = [c.gen EXCEPT ![i] = c.gen[i] + 1]
      /\ d.tap = c.tap /\ d.dev = c.dev /\ d.netdev = c.netdev /\ d.dying = c.dying /\ d.up = c.up
  BY <1>1, DroppedFields
<1> HIDE DEF d
<1>3. c.att \in [Ifaces -> Att] /\ c.gen \in [Ifaces -> Nat]
  BY <1>1 DEF Card
<1>4. Elsewhere(c, d, i) /\ d.att[i] = NoAtt
  BY <1>2, <1>3 DEF Elsewhere
<1>5. EntrySound(d.att[i], d.gen[i], i) /\ d.att[i].slot = NoSlot
  BY <1>4 DEF EntrySound, NoAtt
<1>6. i \in d.dying => d.dev[i] # NoSlot
  BY <1>2 DEF CardsSound
<1>7. d.slots = (c.slots \ {c.att[i].slot}) \cup ({d.att[i].slot} \ {NoSlot})
  BY <1>2, <1>5
<1>8. CardsSound(d)
  BY <1>2, <1>4, <1>5, <1>6, <1>7, CardChanged
<1> QED BY <1>2, <1>4, <1>8 DEF d

\* A card whose wiring changed and whose entry did not: what a detach leaves before it
\* touches the record.
Unwired(c, d, i) ==
  /\ d \in Card /\ Elsewhere(c, d, i)
  /\ d.att = c.att /\ d.gen = c.gen /\ d.slots = c.slots
  /\ d.dev[i] \in {NoSlot, c.dev[i]}
  /\ i \in d.dying => d.dev[i] # NoSlot
  /\ d.tap[i] \in {c.tap[i], "gone", "loose"}
  /\ i \in d.netdev => i \in c.netdev

\* A detach that ends there failed.
LEMMA DetachFails ==
  ASSUME NEW c, CardsSound(c), NEW i \in Ifaces, NEW d, Unwired(c, d, i), NEW f \in Nat
  PROVE  DetachOutcome(c, Out(d, FALSE, f, {}), i) /\ DetachDone(Out(d, FALSE, f, {}), i)
<1>1. CardsSound(d)
  BY CardRewired DEF Unwired
<1> QED BY <1>1 DEF DetachOutcome, DetachDone, OutcomeSound, Out, Unwired

\* A detach that then drops the entry of a card off its bridge succeeded.
LEMMA DetachSucceeds ==
  ASSUME NEW c, CardsSound(c), NEW i \in Ifaces, NEW d, Unwired(c, d, i), NEW f \in Nat,
         NEW keepTap \in BOOLEAN, d.tap[i] \in {"gone", "loose"}
  PROVE  /\ DetachOutcome(c, Out(Dropped(d, i, keepTap), TRUE, f, {}), i)
         /\ DetachDone(Out(Dropped(d, i, keepTap), TRUE, f, {}), i)
<1> DEFINE e == Dropped(d, i, keepTap)
<1>1. CardsSound(d) /\ Elsewhere(c, d, i)
  BY CardRewired DEF Unwired
<1>2. CardsSound(e) /\ Elsewhere(d, e, i) /\ e.att[i] = NoAtt /\ e.tap = d.tap
      /\ e.netdev = d.netdev
  BY <1>1, DroppedSound
<1> HIDE DEF e
<1>3. Elsewhere(c, e, i)
  BY <1>1, <1>2 DEF Elsewhere
<1>4. i \in e.netdev => i \in c.netdev
  BY <1>2 DEF Unwired
<1>5. DetachOutcome(c, Out(e, TRUE, f, {}), i)
  BY <1>2, <1>3, <1>4 DEF DetachOutcome, OutcomeSound, Out
<1>6. DetachDone(Out(e, TRUE, f, {}), i)
  BY <1>2 DEF DetachDone, Out
<1> QED BY <1>5, <1>6 DEF e

\* The ways the detaches below change a card.
LEMMA Unwirings ==
  ASSUME NEW c, CardsSound(c), NEW i \in Ifaces
  PROVE  /\ Unwired(c, c, i)
         /\ Unwired(c, [c EXCEPT !.up = @ \ {i}], i)
         /\ c.dev[i] # NoSlot => Unwired(c, Asked(c, i), i)
         /\ Unwired(c, Ejected(c, i), i)
<1> DEFINE d == [c EXCEPT !.up = @ \ {i}]
           a == Asked(c, i)
           e == Ejected(c, i)
<1>1. c \in Card /\ (i \in c.dying => c.dev[i] # NoSlot)
  BY DEF CardsSound
<1>2. /\ d \in Card /\ d.tap = c.tap /\ d.netdev = c.netdev /\ d.dev = c.dev
      /\ d.dying = c.dying /\ d.up = c.up \ {i}
      /\ d.att = c.att /\ d.slots = c.slots /\ d.gen = c.gen
  BY <1>1 DEF Card
<1>3. /\ a \in Card /\ a.tap = c.tap /\ a.netdev = c.netdev /\ a.dev = c.dev
      /\ a.dying = c.dying \cup {i} /\ a.up = c.up
      /\ a.att = c.att /\ a.slots = c.slots /\ a.gen = c.gen
  BY <1>1 DEF Card, Asked
<1>4. /\ e \in Card /\ e.tap = c.tap /\ e.netdev = c.netdev /\ e.dev = [c.dev EXCEPT ![i] = NoSlot]
      /\ e.dying = c.dying \ {i} /\ e.up = c.up
      /\ e.att = c.att /\ e.slots = c.slots /\ e.gen = c.gen
  BY <1>1 DEF Card, Ejected
<1> HIDE DEF d, a, e
<1>5. c.dev \in [Ifaces -> Slots \cup {NoSlot}]
  BY <1>1 DEF Card
<1>6. Unwired(c, c, i) /\ Unwired(c, d, i)
  BY <1>1, <1>2 DEF Unwired, Elsewhere
<1>7. c.dev[i] # NoSlot => Unwired(c, a, i)
  BY <1>1, <1>3 DEF Unwired, Elsewhere
<1>8. Unwired(c, e, i)
  BY <1>1, <1>4, <1>5 DEF Unwired, Elsewhere
<1> QED BY <1>6, <1>7, <1>8 DEF d, a, e

\* The TAP of card i is put in state t.
OnTap(c, i, t) == [c EXCEPT !.tap[i] = t]

\* A card that was unwired may in addition lose its TAP's bridge or its backend.
LEMMA UnwiredMore ==
  ASSUME NEW c, NEW i \in Ifaces, NEW d, Unwired(c, d, i)
  PROVE  /\ Unwired(c, NoBackend(d, i), i)
         /\ \A t \in {"gone", "loose"} : /\ Unwired(c, OnTap(d, i, t), i)
                                         /\ OnTap(d, i, t).tap[i] = t
<1>1. d \in Card
  BY DEF Unwired
<1>2. Unwired(c, NoBackend(d, i), i)
  <2>1. /\ NoBackend(d, i) \in Card
        /\ NoBackend(d, i).netdev = d.netdev \ {i} /\ NoBackend(d, i).up = d.up \ {i}
        /\ NoBackend(d, i).tap = d.tap /\ NoBackend(d, i).dev = d.dev
        /\ NoBackend(d, i).att = d.att /\ NoBackend(d, i).gen = d.gen
        /\ NoBackend(d, i).dying = d.dying /\ NoBackend(d, i).slots = d.slots
    BY <1>1, NoBackendFields
  <2> QED BY <2>1 DEF Unwired, Elsewhere
<1>3. ASSUME NEW t \in {"gone", "loose"}
      PROVE  Unwired(c, OnTap(d, i, t), i) /\ OnTap(d, i, t).tap[i] = t
  <2> DEFINE e == [d EXCEPT !.tap[i] = t]
  <2>1. /\ e \in Card /\ e.tap = [d.tap EXCEPT ![i] = t] /\ e.netdev = d.netdev /\ e.up = d.up
        /\ e.dev = d.dev /\ e.att = d.att /\ e.gen = d.gen /\ e.dying = d.dying /\ e.slots = d.slots
    BY <1>1 DEF Card
  <2>2. d.tap \in [Ifaces -> Nets \cup {"gone", "loose"}]
    BY <1>1 DEF Card
  <2> HIDE DEF e
  <2>3. e.tap[i] = t /\ \A j \in Ifaces \ {i} : e.tap[j] = d.tap[j]
    BY <2>1, <2>2
  <2>4. Unwired(c, e, i)
    BY <2>1, <2>3 DEF Unwired, Elsewhere
  <2> QED BY <2>3, <2>4 DEF e, OnTap
<1> QED BY <1>2, <1>3

\* A boot card's TAP leaves its bridge and its entry goes, or nothing happened to it.
LEMMA BootDetached ==
  ASSUME NEW c, CardsSound(c), NEW i \in Ifaces, NEW o \in BootDetach(c, i)
  PROVE  DetachOutcome(c, o, i) /\ DetachDone(o, i)
<1> DEFINE down == [c EXCEPT !.up = @ \ {i}]
           a == OnTap(down, i, "loose")
           b == OnTap(c, i, "loose")
<1>1. Unwired(c, c, i) /\ Unwired(c, down, i)
  BY Unwirings
<1>2. \/ o = Out(Dropped(a, i, TRUE), TRUE, 0, {}) \/ o = Out(Dropped(b, i, TRUE), TRUE, 1, {})
      \/ o = Out(down, FALSE, 1, {})
  BY DEF BootDetach, OnTap
<1> HIDE DEF down
<1>3. Unwired(c, a, i) /\ a.tap[i] = "loose" /\ Unwired(c, b, i) /\ b.tap[i] = "loose"
  BY <1>1, UnwiredMore
<1> HIDE DEF a, b
<1>4. CASE o = Out(down, FALSE, 1, {})
  BY <1>1, <1>4, DetachFails
<1>5. CASE o = Out(Dropped(a, i, TRUE), TRUE, 0, {})
  BY <1>3, <1>5, DetachSucceeds
<1>6. CASE o = Out(Dropped(b, i, TRUE), TRUE, 1, {})
  BY <1>3, <1>6, DetachSucceeds
<1> QED BY <1>2, <1>4, <1>5, <1>6

\* The guest ejected the device: backend and TAP are removed, then the entry.
LEMMA UnpluggedDetached ==
  ASSUME NEW c, CardsSound(c), NEW i \in Ifaces, NEW o \in Unplugged(c, i)
  PROVE  DetachOutcome(c, o, i) /\ DetachDone(o, i)
<1> DEFINE e == Ejected(c, i)
           b == NoBackend(e, i)
           g == OnTap(b, i, "gone")
           h == OnTap(e, i, "gone")
<1>1. \/ o = Out(Dropped(g, i, FALSE), TRUE, 0, {}) \/ o = Out(h, FALSE, 1, {})
      \/ o = Out(g, FALSE, 1, {}) \/ o = Out(b, FALSE, 1, {})
  BY DEF Unplugged, OnTap
<1>2. Unwired(c, e, i)
  BY Unwirings
<1> HIDE DEF e
<1>3. Unwired(c, b, i) /\ Unwired(c, h, i)
  BY <1>2, UnwiredMore
<1> HIDE DEF b, h
<1>4. Unwired(c, g, i) /\ g.tap[i] = "gone"
  BY <1>3, UnwiredMore
<1> HIDE DEF g
<1>5. CASE o = Out(Dropped(g, i, FALSE), TRUE, 0, {})
  BY <1>4, <1>5, DetachSucceeds
<1>6. CASE o = Out(h, FALSE, 1, {}) \/ o = Out(g, FALSE, 1, {}) \/ o = Out(b, FALSE, 1, {})
  BY <1>3, <1>4, <1>6, DetachFails
<1> QED BY <1>1, <1>5, <1>6

\* The guest did not eject in time: the TAP leaves its bridge and the entry goes, while the
\* device stays in its port.
LEMMA ForcedDetached ==
  ASSUME NEW c, CardsSound(c), NEW i \in Ifaces, c.dev[i] # NoSlot, NEW o \in Forced(c, i)
  PROVE  DetachOutcome(c, o, i) /\ DetachDone(o, i)
<1> DEFINE a == Asked(c, i)
           g == OnTap(a, i, "loose")
<1>1. o = Out(a, FALSE, 1, {}) \/ o = Out(Dropped(g, i, TRUE), TRUE, 0, {})
  BY DEF Forced, OnTap
<1>2. Unwired(c, a, i)
  BY Unwirings
<1> HIDE DEF a
<1>3. Unwired(c, g, i) /\ g.tap[i] = "loose"
  BY <1>2, UnwiredMore
<1> HIDE DEF g
<1>4. CASE o = Out(a, FALSE, 1, {})
  BY <1>2, <1>4, DetachFails
<1>5. CASE o = Out(Dropped(g, i, TRUE), TRUE, 0, {})
  BY <1>3, <1>5, DetachSucceeds
<1> QED BY <1>1, <1>4, <1>5

\* detach_interface of a hot-plugged card.
LEMMA HotDetached ==
  ASSUME NEW c, CardsSound(c), NEW i \in Ifaces, NEW o \in HotDetach(c, i)
  PROVE  DetachOutcome(c, o, i) /\ DetachDone(o, i)
<1>1. Unwired(c, c, i) /\ (c.dev[i] # NoSlot => Unwired(c, Asked(c, i), i))
  BY Unwirings
<1>2. \/ o \in Unplugged(c, i) \/ o = Out(c, FALSE, 1, {}) \/ o = Out(c, FALSE, 0, {})
      \/ c.dev[i] # NoSlot /\ (o \in Forced(c, i) \/ o = Out(Asked(c, i), FALSE, 1, {}))
  BY DEF HotDetach
<1>3. CASE o = Out(c, FALSE, 1, {}) \/ o = Out(c, FALSE, 0, {})
  BY <1>1, <1>3, DetachFails
<1>4. CASE c.dev[i] # NoSlot /\ o = Out(Asked(c, i), FALSE, 1, {})
  BY <1>1, <1>4, DetachFails
<1> QED BY <1>2, <1>3, <1>4, UnpluggedDetached, ForcedDetached

\* detach_interface: with nothing recorded or a stale token it leaves the card alone.
LEMMA Detached ==
  ASSUME NEW c, CardsSound(c), NEW i \in Ifaces, NEW g \in Nat, NEW o \in Detach(c, i, g)
  PROVE  /\ DetachOutcome(c, o, i)
         /\ IF c.att[i].net = None \/ StaleToken(c, i, g) THEN o.c = c /\ o.ok ELSE DetachDone(o, i)
<1>1. CASE c.att[i].net = None \/ StaleToken(c, i, g)
  <2>1. o = Out(c, TRUE, 0, {})
    BY <1>1 DEF Detach
  <2>2. OutcomeSound(c, o, i)
    BY <2>1, NothingDone
  <2> QED BY <1>1, <2>1, <2>2 DEF DetachOutcome, Out
<1>2. CASE ~(c.att[i].net = None \/ StaleToken(c, i, g))
  <2>1. o \in BootDetach(c, i) \/ o \in HotDetach(c, i)
    BY <1>2 DEF Detach
  <2> QED BY <1>2, <2>1, BootDetached, HotDetached
<1> QED BY <1>1, <1>2
-----------------------------------------------------------------------------
(* The reconciler.                                                         *)

\* What a pass over the boot cards leaves: cards of the document on their bridges with
\* their carriers up, the others on none, unless the card is reported; it never touches a
\* hot-plugged card.
PassDone(c, d, D, log) ==
  /\ CardsSound(d) /\ log \subseteq BootIfaces
  /\ d.netdev = c.netdev /\ d.dev = c.dev /\ d.dying = c.dying
  /\ \A i \in Ifaces \ BootIfaces : d.tap[i] = c.tap[i] /\ d.att[i] = c.att[i] /\ d.gen[i] = c.gen[i]
  /\ \A i \in BootIfaces \ log :
       /\ d.tap[i] \in Nets => D[i].net = d.tap[i]
       /\ Wanted(D, i) => d.tap[i] = D[i].net /\ (i \in d.netdev => i \in d.up)
       /\ D[i].net # None => ~StaleToken(d, i, D[i].gen)

\* The fields of the cards after a pass.
LEMMA PassFields ==
  ASSUME NEW c \in Card, NEW D \in [Ifaces -> Link], NEW bad \in Passes
  PROVE  LET d == ReconcilePass(c, D, bad) IN
         /\ d \in Card /\ d.netdev = c.netdev /\ d.dev = c.dev /\ d.dying = c.dying
         /\ d.slots = c.slots
         /\ d.tap = [i \in Ifaces |-> ReconcileTap(c, D, bad, i)]
         /\ d.att = [i \in Ifaces |-> ReconcileAtt(c, D, bad, i)]
         /\ d.gen = [i \in Ifaces |-> ReconcileGen(c, D, bad, i)]
         /\ d.up = CarrierUp(c, D, bad)
<1> DEFINE tap == [i \in Ifaces |-> ReconcileTap(c, D, bad, i)]
           att == [i \in Ifaces |-> ReconcileAtt(c, D, bad, i)]
           gen == [i \in Ifaces |-> ReconcileGen(c, D, bad, i)]
           up  == CarrierUp(c, D, bad)
           new == {i \in Ifaces : Wanted(D, i) /\ ~HostBad(bad, i)}
           d   == [c EXCEPT !.tap = tap, !.att = att, !.gen = gen, !.up = up, !.taps = @ \cup new]
<1>1. tap \in [Ifaces -> Nets \cup {"gone", "loose"}]
  <2>1. ASSUME NEW i \in Ifaces PROVE ReconcileTap(c, D, bad, i) \in Nets \cup {"gone", "loose"}
    <3>1. c.tap[i] \in Nets \cup {"gone", "loose"} /\ D[i].net \in Nets \cup {None}
      BY DEF Card, Link
    <3> QED BY <3>1 DEF ReconcileTap, Wanted
  <2> QED BY <2>1
<1>2. att \in [Ifaces -> Att]
  <2>1. ASSUME NEW i \in Ifaces PROVE ReconcileAtt(c, D, bad, i) \in Att
    <3>1. c.att[i] \in Att /\ NoAtt \in Att /\ D[i].net \in Nets \cup {None} /\ WantedGen(D[i]) \in Nat
      BY DEF Card, Link, NoAtt, Att, WantedGen
    <3>2. [net |-> D[i].net, boot |-> TRUE, slot |-> NoSlot, gen |-> WantedGen(D[i])] \in Att
      BY <3>1 DEF Att
    <3> QED BY <3>1, <3>2 DEF ReconcileAtt
  <2> QED BY <2>1
<1>3. gen \in [Ifaces -> Nat]
  <2>1. ASSUME NEW i \in Ifaces PROVE ReconcileGen(c, D, bad, i) \in Nat
    BY DEF ReconcileGen, Card, Link, WantedGen
  <2> QED BY <2>1
<1>4. up \in SUBSET Ifaces
  BY Numbers DEF CarrierUp, Card
<1>5. new \in SUBSET Ifaces
  OBVIOUS
<1>6. ReconcilePass(c, D, bad) = d
  BY DEF ReconcilePass
<1> HIDE DEF tap, att, gen, up, new
<1>7. /\ d \in Card /\ d.netdev = c.netdev /\ d.dev = c.dev /\ d.dying = c.dying
      /\ d.slots = c.slots /\ d.tap = tap /\ d.att = att /\ d.gen = gen /\ d.up = up
  BY <1>1, <1>2, <1>3, <1>4, <1>5 DEF Card
<1> QED BY <1>6, <1>7 DEF tap, att, gen, up

\* Every pass does what PassDone says.
LEMMA PassReconciles ==
  ASSUME NEW c, CardsSound(c), NEW D \in [Ifaces -> Link], NEW bad \in Passes
  PROVE  PassDone(c, ReconcilePass(c, D, bad), D, Warned(c, D, bad))
<1> DEFINE d == ReconcilePass(c, D, bad)
<1>1. c \in Card
  BY DEF CardsSound
<1>2. /\ d \in Card /\ d.netdev = c.netdev /\ d.dev = c.dev /\ d.dying = c.dying
      /\ d.slots = c.slots
      /\ d.tap = [i \in Ifaces |-> ReconcileTap(c, D, bad, i)]
      /\ d.att = [i \in Ifaces |-> ReconcileAtt(c, D, bad, i)]
      /\ d.gen = [i \in Ifaces |-> ReconcileGen(c, D, bad, i)]
      /\ d.up = CarrierUp(c, D, bad)
  BY <1>1, PassFields
<1> HIDE DEF d
<1>3. \A i \in Ifaces : /\ d.tap[i] = ReconcileTap(c, D, bad, i) /\ d.att[i] = ReconcileAtt(c, D, bad, i)
                        /\ d.gen[i] = ReconcileGen(c, D, bad, i)
  BY <1>2
<1>4. ASSUME NEW i \in Ifaces \ BootIfaces
      PROVE  d.tap[i] = c.tap[i] /\ d.att[i] = c.att[i] /\ d.gen[i] = c.gen[i]
  BY <1>3 DEF ReconcileTap, ReconcileAtt, ReconcileGen, Wanted, Surplus
<1>5. ASSUME NEW i \in BootIfaces
      PROVE  d.att[i].slot = NoSlot /\ EntrySound(d.att[i], d.gen[i], i) /\ c.att[i].slot = NoSlot
  <2>1. i \in Ifaces /\ c.att[i].slot = NoSlot /\ (c.att[i].net = None => c.att[i] = NoAtt)
    BY Numbers DEF CardsSound, EntrySound
  <2>2. \/ d.att[i] = [net |-> D[i].net, boot |-> TRUE, slot |-> NoSlot, gen |-> WantedGen(D[i])]
           /\ D[i].net # None
        \/ d.att[i] = NoAtt
        \/ d.att[i] = c.att[i]
    BY <1>3, <2>1 DEF ReconcileAtt, Wanted
  <2>3. d.att[i].slot = NoSlot /\ (d.att[i].net = None => d.att[i] = NoAtt)
    BY <2>1, <2>2 DEF NoAtt
  <2> QED BY <2>1, <2>3 DEF EntrySound
<1>6. \A i \in Ifaces : d.att[i].slot = c.att[i].slot
  BY <1>4, <1>5
<1>7. CardsSound(d)
  <2>1. PortsOnce(d.dev) /\ \A i \in d.dying : d.dev[i] # NoSlot
    BY <1>2 DEF CardsSound
  <2>2. \A i \in Ifaces : EntrySound(d.att[i], d.gen[i], i)
    BY <1>4, <1>5 DEF CardsSound
  <2>3. d.slots = {d.att[i].slot : i \in Ifaces} \ {NoSlot}
    BY <1>2, <1>6 DEF CardsSound
  <2>4. \A i, j \in Ifaces : d.att[i].slot # NoSlot /\ d.att[i].slot = d.att[j].slot => i = j
    BY <1>6 DEF CardsSound
  <2> QED BY <1>2, <2>1, <2>2, <2>3, <2>4 DEF CardsSound
<1>8. ASSUME NEW i \in BootIfaces \ Warned(c, D, bad)
      PROVE  /\ d.tap[i] \in Nets => D[i].net = d.tap[i]
             /\ Wanted(D, i) => d.tap[i] = D[i].net /\ (i \in d.netdev => i \in d.up)
             /\ D[i].net # None => ~StaleToken(d, i, D[i].gen)
  <2>1. i \in Ifaces /\ ~HostBad(bad, i)
    BY Numbers DEF Warned
  <2>2. d.tap[i] = IF Wanted(D, i) THEN D[i].net ELSE IF c.tap[i] = "gone" THEN "gone" ELSE "loose"
    BY <1>3, <2>1 DEF ReconcileTap
  <2>3. CASE D[i].net = None
    BY <2>2, <2>3, Numbers DEF Wanted
  <2>4. CASE D[i].net # None
    <3>1. Wanted(D, i) /\ ~Surplus(D, i)
      BY <2>4 DEF Wanted, Surplus
    <3>2. ~QmpBad(bad, i)
      BY <3>1 DEF Warned
    <3>3. i \in d.netdev => i \in d.up
      BY <1>2, <2>1, <3>1, <3>2 DEF CarrierUp
    <3>4. d.gen[i] = WantedGen(D[i])
      BY <1>3, <2>1, <3>1 DEF ReconcileGen
    <3>5. ~StaleToken(d, i, D[i].gen)
      BY <3>4 DEF StaleToken, WantedGen
    <3> QED BY <2>2, <3>1, <3>3, <3>5
  <2> QED BY <2>3, <2>4
<1>9. Warned(c, D, bad) \subseteq BootIfaces
  BY DEF Warned
<1>10. PassDone(c, d, D, Warned(c, D, bad))
  BY <1>2, <1>4, <1>7, <1>8, <1>9 DEF PassDone
<1> QED BY <1>10 DEF d
-----------------------------------------------------------------------------
(* The steps.                                                              *)

\* Forgetting the record keeps the cards sound.
LEMMA ForgottenSound ==
  ASSUME NEW c, CardsSound(c)
  PROVE  /\ CardsSound(Forgotten(c))
         /\ Forgotten(c).netdev = c.netdev /\ Forgotten(c).dev = c.dev
         /\ Forgotten(c).dying = c.dying /\ Forgotten(c).tap = c.tap /\ Forgotten(c).up = c.up
         /\ Forgotten(c).slots = {}
         /\ \A i \in Ifaces : Forgotten(c).att[i] = NoAtt
<1> DEFINE d == Forgotten(c)
<1>1. c \in Card
  BY DEF CardsSound
<1>2. NoAtt \in Att
  BY DEF NoAtt, Att
<1>3. /\ d \in Card /\ d.att = [i \in Ifaces |-> NoAtt] /\ d.slots = {}
      /\ d.netdev = c.netdev /\ d.dev = c.dev /\ d.dying = c.dying /\ d.tap = c.tap /\ d.up = c.up
  BY <1>1, <1>2 DEF Card, Forgotten
<1> HIDE DEF d
<1>4. \A i \in Ifaces : d.att[i] = NoAtt /\ d.att[i].slot = NoSlot
  BY <1>3 DEF NoAtt
<1>5. \A i \in Ifaces : EntrySound(d.att[i], d.gen[i], i)
  <2>1. NoAtt.net = None /\ NoAtt.slot = NoSlot
    BY DEF NoAtt
  <2> QED BY <1>4, <2>1 DEF EntrySound
<1>6. d.slots = {d.att[i].slot : i \in Ifaces} \ {NoSlot}
  BY <1>3, <1>4
<1>7. CardsSound(d)
  BY <1>3, <1>4, <1>5, <1>6 DEF CardsSound
<1> QED BY <1>3, <1>4, <1>7 DEF d

\* A step after which the node does not run, or has not been seen by the reconciler, owes
\* nothing to the document.
LEMMA NotRunning ==
  ASSUME Typed', LifeSound', ~(rec' /\ vm')
  PROVE  NicInv'
BY DEF NicInv, HotSound, AttachedWhole, HostFollowsDocument, TokensAgree, Live

\* Nothing of the record survives an edit made while the node does not run.
LEMMA OfflineKeeps ==
  ASSUME NicInv, NEW D \in [Ifaces -> Link], OfflineEdit(D)
  PROVE  NicInv'
<1>1. /\ Typed /\ LifeSound /\ ~(rec /\ vm) /\ rec' = FALSE /\ synced' = FALSE /\ halfway' = {}
      /\ doc' = D /\ n' = Forgotten(n) /\ vm' = vm /\ start' = start /\ logged' = logged
  BY DEF NicInv, OfflineEdit, Seen, Live, Typed
<1>2. /\ CardsSound(n')
      /\ n'.netdev = n.netdev /\ n'.dev = n.dev /\ n'.dying = n.dying
      /\ \A i \in Ifaces : n'.att[i] = NoAtt
  BY <1>1, ForgottenSound DEF Typed
<1>3. Typed'
  BY <1>1, <1>2 DEF Typed
<1>4. LifeSound'
  BY <1>1, <1>2, Numbers DEF LifeSound, Typed
<1> QED BY <1>1, <1>3, <1>4, NotRunning

\* A handler that writes document D and ends with a reconciler pass over cards c, the
\* hot-plugged ones of which agree with D.
LEMMA ReconciledKeeps ==
  ASSUME NicInv, Live, NEW c, NEW D \in [Ifaces -> Link], NEW log,
         PassDone(c, n', D, log), doc' = D, synced' = TRUE,
         logged' = (logged \ BootIfaces) \cup log, halfway' \subseteq Ifaces,
         UNCHANGED <<vm, rec, start>>,
         \A i \in Ifaces \ BootIfaces :
            /\ c.att[i].net # None => D[i].net = c.att[i].net /\ D[i].gen = c.gen[i]
            /\ i \notin logged /\ c.tap[i] \in Nets /\ i \in c.netdev => c.att[i].net = c.tap[i]
            /\ i \notin halfway' /\ c.att[i].slot # NoSlot => Whole(c, i)
  PROVE  NicInv'
<1>1. Typed /\ LifeSound /\ rec = TRUE /\ vm = TRUE
  BY DEF NicInv, Live, Typed
<1>2. /\ CardsSound(n') /\ log \subseteq BootIfaces
      /\ n'.netdev = c.netdev /\ n'.dev = c.dev /\ n'.dying = c.dying
      /\ \A i \in Ifaces \ BootIfaces :
           n'.tap[i] = c.tap[i] /\ n'.att[i] = c.att[i] /\ n'.gen[i] = c.gen[i]
  BY DEF PassDone
<1>3. \A i \in BootIfaces \ log :
        /\ n'.tap[i] \in Nets => D[i].net = n'.tap[i]
        /\ Wanted(D, i) => n'.tap[i] = D[i].net /\ (i \in n'.netdev => i \in n'.up)
        /\ D[i].net # None => ~StaleToken(n', i, D[i].gen)
  BY DEF PassDone
<1>4. Typed'
  BY <1>1, <1>2, Numbers DEF Typed
<1>5. LifeSound'
  BY <1>1 DEF LifeSound, Typed
<1>6. HotSound'
  BY <1>2 DEF HotSound
<1>7. AttachedWhole'
  <2>1. \A i \in BootIfaces : n'.att[i].slot = NoSlot
    BY <1>2, Numbers DEF CardsSound, EntrySound
  <2> QED BY <1>2, <2>1 DEF AttachedWhole, Whole
<1>8. HostFollowsDocument'
  <2> SUFFICES ASSUME NEW i \in Ifaces \ logged'
               PROVE  /\ n'.tap[i] \in Nets /\ i \in n'.netdev => doc'[i].net = n'.tap[i]
                      /\ Wanted(doc', i) /\ i \notin halfway' =>
                           n'.tap[i] = doc'[i].net /\ (i \in n'.netdev => i \in n'.up)
    BY DEF HostFollowsDocument
  <2>1. CASE i \in BootIfaces
    BY <1>3, <2>1
  <2>2. CASE i \notin BootIfaces
    <3>1. i \notin logged /\ ~Wanted(D, i)
      BY <2>2 DEF Wanted
    <3> QED BY <1>2, <2>2, <3>1, Numbers
  <2> QED BY <2>1, <2>2
<1>9. TokensAgree'
  <2> SUFFICES ASSUME NEW i \in Ifaces \ logged', D[i].net # None, n'.att[i].net = D[i].net
               PROVE  ~StaleToken(n', i, D[i].gen)
    BY DEF TokensAgree
  <2>1. CASE i \in BootIfaces
    BY <1>3, <2>1
  <2>2. CASE i \notin BootIfaces
    BY <1>2, <2>2 DEF StaleToken
  <2> QED BY <2>1, <2>2
<1> QED BY <1>4, <1>5, <1>6, <1>7, <1>8, <1>9 DEF NicInv

\* A step of a running node that changes card i and not the document.
LEMMA CardStepKeeps ==
  ASSUME NicInv, Live, NEW i \in Ifaces, CardsSound(n'), Elsewhere(n, n', i),
         UNCHANGED <<doc, vm, rec, start, synced>>,
         logged \subseteq logged', logged' \subseteq Ifaces,
         halfway \subseteq halfway', halfway' \subseteq Ifaces,
         i \in n'.netdev => i \in n.netdev,
         n'.tap[i] \in {n.tap[i], "gone", "loose"} \/ i \in logged',
         doc[i].net # None \/ i \notin BootIfaces => n'.att[i] = n.att[i] /\ n'.gen[i] = n.gen[i],
         \/ doc[i].net = None \/ i \in halfway'
         \/ n'.tap[i] = n.tap[i] /\ n'.up = n.up,
         i \notin halfway' /\ n'.att[i].slot # NoSlot => Whole(n', i)
  PROVE  NicInv'
<1>1. Typed /\ LifeSound /\ rec = TRUE /\ vm = TRUE
  BY DEF NicInv, Live, Typed
<1>2. Typed'
  BY <1>1 DEF Typed
<1>3. LifeSound'
  BY <1>1 DEF LifeSound, Typed
<1>4. HotSound'
  BY Numbers DEF HotSound, NicInv, Live, Elsewhere
<1>5. AttachedWhole'
  BY DEF AttachedWhole, NicInv, Live, Elsewhere, Whole
<1>6. HostFollowsDocument'
  <2> SUFFICES ASSUME synced, NEW j \in Ifaces \ logged'
               PROVE  /\ n'.tap[j] \in Nets /\ j \in n'.netdev => doc[j].net = n'.tap[j]
                      /\ Wanted(doc, j) /\ j \notin halfway' =>
                           n'.tap[j] = doc[j].net /\ (j \in n'.netdev => j \in n'.up)
    BY DEF HostFollowsDocument, Live
  <2>1. /\ n.tap[j] \in Nets /\ j \in n.netdev => doc[j].net = n.tap[j]
        /\ Wanted(doc, j) /\ j \notin halfway => n.tap[j] = doc[j].net /\ (j \in n.netdev => j \in n.up)
    BY DEF HostFollowsDocument, NicInv
  <2>2. CASE j # i
    BY <2>1, <2>2 DEF Elsewhere
  <2>3. CASE j = i
    BY <2>1, <2>3, Numbers DEF Wanted
  <2> QED BY <2>2, <2>3
<1>7. TokensAgree'
  BY DEF TokensAgree, NicInv, Live, Elsewhere, StaleToken
<1> QED BY <1>2, <1>3, <1>4, <1>5, <1>6, <1>7 DEF NicInv

\* The document with the entry of interface i replaced.
LEMMA DocTyped ==
  ASSUME Typed, NEW i \in Ifaces, NEW l \in Link
  PROVE  /\ [doc EXCEPT ![i] = l] \in [Ifaces -> Link]
         /\ [doc EXCEPT ![i] = l][i] = l
         /\ \A j \in Ifaces \ {i} : [doc EXCEPT ![i] = l][j] = doc[j]
BY DEF Typed

\* The part of WriteAndReconcile that the invariant needs.
LEMMA WriteReconciles ==
  ASSUME NEW c, CardsSound(c), NEW D \in [Ifaces -> Link], NEW f, WriteAndReconcile(D, c, f, {})
  PROVE  \E log : /\ PassDone(c, n', D, log) /\ doc' = D /\ synced' = TRUE
                  /\ logged' = (logged \ BootIfaces) \cup log
                  /\ UNCHANGED <<vm, rec, start>>
<1>1. PICK r \in Reconcile(c, D) : /\ n' = r.c /\ doc' = D /\ synced' = TRUE
                                   /\ logged' = (logged \ BootIfaces) \cup {} \cup r.log
                                   /\ UNCHANGED <<vm, rec, start>>
  BY DEF WriteAndReconcile
<1>2. PICK bad \in Passes : r = Out(ReconcilePass(c, D, bad), TRUE,
                                    IF bad[1] = "none" THEN 0 ELSE 1, Warned(c, D, bad))
  BY DEF Reconcile
<1>3. r.c = ReconcilePass(c, D, bad) /\ r.log = Warned(c, D, bad)
  BY <1>2 DEF Out
<1>4. PassDone(c, n', D, Warned(c, D, bad))
  BY <1>1, <1>3, PassReconciles
<1> QED BY <1>1, <1>3, <1>4

\* A link made while the node does not run.
LEMMA CreateOfflineKeeps ==
  ASSUME NicInv, NEW i \in Ifaces, NEW k \in Nets, CreateOffline(i, k)
  PROVE  NicInv'
<1>1. [net |-> k, gen |-> 0] \in Link
  BY DEF Link
<1> QED BY <1>1, DocTyped, OfflineKeeps DEF CreateOffline, NicInv

\* A link deleted while the node does not run.
LEMMA DeleteOfflineKeeps ==
  ASSUME NicInv, NEW i \in Ifaces, DeleteOffline(i)
  PROVE  NicInv'
<1>1. NoLink \in Link
  BY DEF Link, NoLink
<1> QED BY <1>1, DocTyped, OfflineKeeps DEF DeleteOffline, NicInv

\* Before create_link the stale entry of card i is detached; a card that is not a boot card
\* has none.
LEMMA HealedCards ==
  ASSUME NicInv, Live, NEW i \in Ifaces, NEW k \in Nets, doc[i].net = None, NEW h \in Healed(i, k)
  PROVE  /\ CardsSound(h.c) /\ Elsewhere(n, h.c, i)
         /\ h.c.tap[i] \in {n.tap[i], "gone", "loose"} /\ (i \in h.c.netdev => i \in n.netdev)
         /\ i \notin BootIfaces => h.c = n /\ n.att[i].net = None
<1>1. CardsSound(n) /\ 0 \in Nat
  BY DEF NicInv, Typed
<1>2. i \notin BootIfaces => n.att[i].net = None
  BY DEF NicInv, HotSound
<1>3. CASE n.att[i].net \in {None, k}
  <2>1. h = Out(n, TRUE, 0, {})
    BY <1>3 DEF Healed
  <2>2. h.c = n
    BY <2>1 DEF Out
  <2> QED BY <1>1, <1>2, <2>2 DEF Elsewhere
<1>4. CASE n.att[i].net \notin {None, k}
  <2>1. h \in Detach(n, i, 0)
    BY <1>4 DEF Healed
  <2>2. DetachOutcome(n, h, i)
    BY <1>1, <2>1, Detached
  <2> QED BY <1>2, <1>4, <2>2 DEF DetachOutcome, OutcomeSound
<1> QED BY <1>3, <1>4

\* Two changes of the same card are one.
LEMMA ElsewhereTwice ==
  ASSUME NEW c, NEW d, NEW e, NEW i, Elsewhere(c, d, i), Elsewhere(d, e, i)
  PROVE  Elsewhere(c, e, i)
BY DEF Elsewhere

\* create_link of a running node.
LEMMA CreateLinkKeeps ==
  ASSUME NicInv, NEW i \in Ifaces, NEW k \in Nets, CreateLink(i, k)
  PROVE  NicInv'
<1>1. doc[i].net = None /\ Live /\ Typed
  BY DEF CreateLink, NicInv
<1>2. PICK h \in Healed(i, k) : \E a \in Attach(h.c, i, k) :
        /\ a.ok
        /\ WriteAndReconcile([doc EXCEPT ![i] = [net |-> k, gen |-> a.c.att[i].gen]],
                             [a.c EXCEPT !.up = @ \cup ({i} \cap a.c.netdev)], h.f + a.f, {})
        /\ halfway' = halfway \ {i}
  BY DEF CreateLink
<1>3. PICK a \in Attach(h.c, i, k) :
        /\ a.ok
        /\ WriteAndReconcile([doc EXCEPT ![i] = [net |-> k, gen |-> a.c.att[i].gen]],
                             [a.c EXCEPT !.up = @ \cup ({i} \cap a.c.netdev)], h.f + a.f, {})
        /\ halfway' = halfway \ {i}
  BY <1>2
<1>4. /\ CardsSound(h.c) /\ Elsewhere(n, h.c, i)
      /\ i \notin BootIfaces => h.c = n /\ n.att[i].net = None
  BY <1>1, HealedCards
<1>5. AttachOutcome(h.c, a, i, k)
  BY <1>4, Attached
<1>6. /\ CardsSound(a.c) /\ Elsewhere(n, a.c, i) /\ a.c.att[i].net = k
      /\ i \notin BootIfaces => Whole(a.c, i)
  BY <1>3, <1>4, <1>5, ElsewhereTwice DEF AttachOutcome, OutcomeSound
<1> DEFINE g == a.c
           c == [g EXCEPT !.up = @ \cup ({i} \cap g.netdev)]
           l == [net |-> k, gen |-> g.att[i].gen]
           D == [doc EXCEPT ![i] = l]
<1>7. WriteAndReconcile(D, c, h.f + a.f, {}) /\ halfway' = halfway \ {i}
  BY <1>3
<1>8. CardsSound(g) /\ Elsewhere(n, g, i) /\ g.att[i].net = k /\ g \in Card
  BY <1>6 DEF CardsSound
<1>9. i \notin BootIfaces => Whole(g, i) /\ g.att[i].gen = g.gen[i]
  BY <1>6, Numbers DEF CardsSound, EntrySound
<1> HIDE DEF g
<1>10. l \in Link /\ l.net = k /\ l.gen = g.att[i].gen
  BY <1>8 DEF Link, Card, Att
<1> HIDE DEF l
<1>11. /\ D \in [Ifaces -> Link] /\ D[i] = l /\ \A j \in Ifaces \ {i} : D[j] = doc[j]
  BY <1>1, <1>10, DocTyped
<1>12. /\ c \in Card /\ c.tap = g.tap /\ c.dev = g.dev /\ c.att = g.att /\ c.gen = g.gen
       /\ c.netdev = g.netdev /\ c.dying = g.dying /\ c.slots = g.slots
  BY <1>8 DEF Card
<1> HIDE DEF c, D
<1>13. CardsSound(c)
  BY <1>8, <1>12 DEF CardsSound
<1>14. PICK log : /\ PassDone(c, n', D, log) /\ doc' = D /\ synced' = TRUE
                  /\ logged' = (logged \ BootIfaces) \cup log
                  /\ UNCHANGED <<vm, rec, start>>
  BY <1>7, <1>11, <1>13, WriteReconciles
<1>15. ASSUME NEW j \in Ifaces \ BootIfaces
       PROVE  /\ c.att[j].net # None => D[j].net = c.att[j].net /\ D[j].gen = c.gen[j]
              /\ j \notin logged /\ c.tap[j] \in Nets /\ j \in c.netdev => c.att[j].net = c.tap[j]
              /\ j \notin halfway' /\ c.att[j].slot # NoSlot => Whole(c, j)
  <2>1. CASE j = i
    <3>1. Whole(g, i) /\ g.att[i].gen = g.gen[i]
      BY <1>9, <2>1
    <3>2. Whole(c, i)
      BY <1>12, <3>1 DEF Whole
    <3> QED BY <1>8, <1>10, <1>11, <1>12, <2>1, <3>1, <3>2 DEF Whole
  <2>2. CASE j # i
    <3>1. /\ n.att[j].net # None => doc[j].net = n.att[j].net /\ doc[j].gen = n.gen[j]
          /\ j \notin logged /\ n.tap[j] \in Nets /\ j \in n.netdev => n.att[j].net = n.tap[j]
          /\ j \notin halfway /\ n.att[j].slot # NoSlot => Whole(n, j)
      BY <1>1 DEF NicInv, HotSound, AttachedWhole, Whole
    <3>2. D[j] = doc[j] /\ (j \in halfway' <=> j \in halfway)
      BY <1>7, <1>11, <2>2
    <3> QED BY <1>8, <1>12, <2>2, <3>1, <3>2 DEF Elsewhere, Whole
  <2> QED BY <2>1, <2>2
<1>16. halfway' \subseteq Ifaces
  BY <1>1, <1>7 DEF Typed
<1> QED BY <1>1, <1>11, <1>14, <1>15, <1>16, ReconciledKeeps

\* create_link that failed: the record is as before, unless a stale entry was detached.
LEMMA CreateFailedKeeps ==
  ASSUME NicInv, NEW i \in Ifaces, NEW k \in Nets, CreateFailed(i, k)
  PROVE  NicInv'
<1>1. doc[i].net = None /\ Live /\ Typed /\ UNCHANGED <<doc, vm, rec, start, synced>>
  BY DEF CreateFailed, NicInv
<1>2. PICK h \in Healed(i, k) : \E a \in Attach(h.c, i, k) :
        /\ ~a.ok /\ n' = a.c /\ logged' = logged \cup a.log
        /\ halfway' = IF h.ok THEN halfway ELSE halfway \cup {i}
  BY DEF CreateFailed
<1>3. PICK a \in Attach(h.c, i, k) :
        /\ ~a.ok /\ n' = a.c /\ logged' = logged \cup a.log
        /\ halfway' = IF h.ok THEN halfway ELSE halfway \cup {i}
  BY <1>2
<1>4. /\ CardsSound(h.c) /\ Elsewhere(n, h.c, i)
      /\ h.c.tap[i] \in {n.tap[i], "gone", "loose"} /\ (i \in h.c.netdev => i \in n.netdev)
      /\ i \notin BootIfaces => h.c = n /\ n.att[i].net = None
  BY <1>1, HealedCards
<1>5. OutcomeSound(h.c, a, i) /\ AttachUndone(h.c, a, i)
  BY <1>3, <1>4, Attached DEF AttachOutcome
<1>6. CardsSound(n') /\ Elsewhere(n, n', i) /\ a.log \subseteq Ifaces
  BY <1>3, <1>4, <1>5, ElsewhereTwice DEF OutcomeSound
<1>7. /\ i \in n'.netdev => i \in n.netdev
      /\ n'.tap[i] \in {n.tap[i], "gone", "loose"} \/ i \in logged'
      /\ i \notin BootIfaces => n'.att[i] = n.att[i] /\ n'.gen[i] = n.gen[i]
  BY <1>3, <1>4, <1>5 DEF AttachUndone
<1>8. n'.att[i].slot = NoSlot
  <2>1. CASE i \in BootIfaces
    BY <1>6, <2>1 DEF CardsSound, EntrySound
  <2>2. CASE i \notin BootIfaces
    <3>1. n'.att[i] = NoAtt
      BY <1>1, <1>4, <1>7, <2>2 DEF Typed, CardsSound, EntrySound
    <3> QED BY <3>1 DEF NoAtt
  <2> QED BY <2>1, <2>2
<1>9. logged \subseteq logged' /\ logged' \subseteq Ifaces
      /\ halfway \subseteq halfway' /\ halfway' \subseteq Ifaces
  BY <1>1, <1>3, <1>6 DEF Typed
<1> QED BY <1>1, <1>6, <1>7, <1>8, <1>9, CardStepKeeps

\* delete_link first takes the carrier of card i down, which changes nothing else.
LEMMA PinnedCards ==
  ASSUME CardsSound(n), NEW i \in Ifaces
  PROVE  /\ CardsSound(Pinned(i)) /\ Elsewhere(n, Pinned(i), i)
         /\ Pinned(i).tap = n.tap /\ Pinned(i).att = n.att /\ Pinned(i).gen = n.gen
         /\ Pinned(i).netdev = n.netdev
<1>1. Unwired(n, Pinned(i), i)
  BY Unwirings DEF Pinned
<1>2. CardsSound(Pinned(i))
  BY <1>1, CardRewired DEF Unwired
<1>3. n \in Card
  BY DEF CardsSound
<1>4. Pinned(i).tap = n.tap /\ Pinned(i).netdev = n.netdev
  BY <1>3 DEF Card, Pinned
<1> QED BY <1>1, <1>2, <1>4 DEF Unwired

\* delete_link of a running node.
LEMMA DeleteLinkKeeps ==
  ASSUME NicInv, NEW i \in Ifaces, DeleteLink(i)
  PROVE  NicInv'
<1>1. Live /\ Typed /\ halfway' = halfway \ {i}
  BY DEF DeleteLink, NicInv
<1>2. PICK d \in Detach(Pinned(i), i, doc[i].gen) :
        d.ok /\ WriteAndReconcile([doc EXCEPT ![i] = NoLink], d.c, d.f, {})
  BY DEF DeleteLink
<1>3. /\ CardsSound(Pinned(i)) /\ Elsewhere(n, Pinned(i), i)
      /\ Pinned(i).tap = n.tap /\ Pinned(i).att = n.att /\ Pinned(i).gen = n.gen
      /\ Pinned(i).netdev = n.netdev
  BY <1>1, PinnedCards DEF Typed
<1>4. doc[i].gen \in Nat
  BY <1>1 DEF Typed, Link
<1> DEFINE p == Pinned(i)
           c == d.c
           D == [doc EXCEPT ![i] = NoLink]
<1>5. /\ DetachOutcome(p, d, i)
      /\ IF p.att[i].net = None \/ StaleToken(p, i, doc[i].gen) THEN c = p /\ d.ok ELSE DetachDone(d, i)
  BY <1>2, <1>3, <1>4, Detached
<1>6. CardsSound(c) /\ Elsewhere(n, c, i)
  BY <1>3, <1>5, ElsewhereTwice DEF DetachOutcome, OutcomeSound
<1>7. NoLink \in Link /\ NoLink.net = None
  BY DEF NoLink, Link
<1>8. /\ D \in [Ifaces -> Link] /\ D[i] = NoLink /\ \A j \in Ifaces \ {i} : D[j] = doc[j]
  BY <1>1, <1>7, DocTyped
<1>9. WriteAndReconcile(D, c, d.f, {})
  BY <1>2
<1>10. ASSUME i \notin BootIfaces
       PROVE  /\ c.att[i].net = None /\ c.att[i].slot = NoSlot
              /\ ~(i \notin logged /\ c.tap[i] \in Nets /\ i \in c.netdev)
  <2>1. NoAtt.net = None /\ NoAtt.slot = NoSlot
    BY DEF NoAtt
  <2>2. CASE n.att[i].net = None
    <3>1. c = p
      BY <1>3, <1>5, <2>2
    <3>2. n.att[i] = NoAtt
      BY <1>1, <2>2 DEF Typed, CardsSound, EntrySound
    <3>3. ~(i \notin logged /\ n.tap[i] \in Nets /\ i \in n.netdev)
      BY <1>1, <1>10, <2>2, Numbers DEF NicInv, HotSound
    <3> QED BY <1>3, <2>1, <3>1, <3>2, <3>3
  <2>3. CASE n.att[i].net # None
    <3>1. doc[i].gen = n.gen[i]
      BY <1>1, <1>10, <2>3 DEF NicInv, HotSound
    <3>2. ~StaleToken(p, i, doc[i].gen)
      BY <1>3, <3>1 DEF StaleToken
    <3>3. DetachDone(d, i)
      BY <1>3, <1>5, <2>3, <3>2
    <3>4. c.att[i] = NoAtt /\ c.tap[i] \in {"gone", "loose"}
      BY <1>2, <3>3 DEF DetachDone
    <3> QED BY <2>1, <3>4, Numbers
  <2> QED BY <2>2, <2>3
<1> HIDE DEF c, D, p
<1>11. PICK log : /\ PassDone(c, n', D, log) /\ doc' = D /\ synced' = TRUE
                  /\ logged' = (logged \ BootIfaces) \cup log
                  /\ UNCHANGED <<vm, rec, start>>
  BY <1>6, <1>8, <1>9, WriteReconciles
<1>12. ASSUME NEW j \in Ifaces \ BootIfaces
       PROVE  /\ c.att[j].net # None => D[j].net = c.att[j].net /\ D[j].gen = c.gen[j]
              /\ j \notin logged /\ c.tap[j] \in Nets /\ j \in c.netdev => c.att[j].net = c.tap[j]
              /\ j \notin halfway' /\ c.att[j].slot # NoSlot => Whole(c, j)
  <2>1. CASE j = i
    BY <1>10, <2>1
  <2>2. CASE j # i
    <3>1. /\ n.att[j].net # None => doc[j].net = n.att[j].net /\ doc[j].gen = n.gen[j]
          /\ j \notin logged /\ n.tap[j] \in Nets /\ j \in n.netdev => n.att[j].net = n.tap[j]
          /\ j \notin halfway /\ n.att[j].slot # NoSlot => Whole(n, j)
      BY <1>1 DEF NicInv, HotSound, AttachedWhole, Whole
    <3>2. D[j] = doc[j] /\ (j \in halfway' <=> j \in halfway)
      BY <1>1, <1>8, <2>2
    <3> QED BY <1>6, <2>2, <3>1, <3>2 DEF Elsewhere, Whole
  <2> QED BY <2>1, <2>2
<1>13. halfway' \subseteq Ifaces
  BY <1>1 DEF Typed
<1> QED BY <1>1, <1>8, <1>11, <1>12, <1>13, ReconciledKeeps

\* delete_link that failed: the entry and its generation stay, for the retry.
LEMMA DeleteFailedKeeps ==
  ASSUME NicInv, NEW i \in Ifaces, DeleteFailed(i)
  PROVE  NicInv'
<1>1. /\ Live /\ Typed /\ halfway' = halfway \cup {i}
      /\ UNCHANGED <<doc, vm, rec, start, synced, logged>>
  BY DEF DeleteFailed, NicInv
<1>2. PICK d \in Detach(Pinned(i), i, doc[i].gen) : ~d.ok /\ n' = d.c
  BY DEF DeleteFailed
<1>3. /\ CardsSound(Pinned(i)) /\ Elsewhere(n, Pinned(i), i)
      /\ Pinned(i).tap = n.tap /\ Pinned(i).att = n.att /\ Pinned(i).gen = n.gen
      /\ Pinned(i).netdev = n.netdev
  BY <1>1, PinnedCards DEF Typed
<1>4. doc[i].gen \in Nat
  BY <1>1 DEF Typed, Link
<1>5. DetachOutcome(Pinned(i), d, i)
  BY <1>2, <1>3, <1>4, Detached
<1>6. CardsSound(n') /\ Elsewhere(n, n', i)
  BY <1>2, <1>3, <1>5, ElsewhereTwice DEF DetachOutcome, OutcomeSound
<1>7. /\ i \in n'.netdev => i \in n.netdev
      /\ n'.tap[i] \in {n.tap[i], "gone", "loose"}
      /\ n'.att[i] = n.att[i] /\ n'.gen[i] = n.gen[i]
  BY <1>2, <1>3, <1>5 DEF DetachOutcome
<1>8. logged' \subseteq Ifaces /\ halfway' \subseteq Ifaces /\ i \in halfway'
  BY <1>1 DEF Typed
<1> QED BY <1>1, <1>6, <1>7, <1>8, CardStepKeeps

\* The guest ejects card i, which it had been asked to.
LEMMA GuestEjectsKeeps ==
  ASSUME NicInv, NEW i \in Ifaces, GuestEjects(i)
  PROVE  NicInv'
<1>1. /\ Typed /\ i \in n.dying /\ n' = Ejected(n, i)
      /\ UNCHANGED <<doc, vm, rec, start, synced, logged, halfway>>
  BY DEF GuestEjects, NicInv
<1>2. Live
  BY <1>1 DEF NicInv, LifeSound, Live, Typed
<1>3. Unwired(n, n', i)
  BY <1>1, Unwirings DEF Typed
<1>4. CardsSound(n') /\ Elsewhere(n, n', i)
  BY <1>1, <1>3, CardRewired DEF Unwired, Typed
<1>5. n \in Card
  BY <1>1 DEF Typed, CardsSound
<1>6. n'.tap = n.tap /\ n'.up = n.up /\ n'.netdev = n.netdev /\ n'.att = n.att /\ n'.gen = n.gen
  BY <1>1, <1>5 DEF Ejected, Card
<1>7. i \notin halfway => n.att[i].slot = NoSlot
  BY <1>1, <1>2 DEF NicInv, AttachedWhole
<1>8. logged' \subseteq Ifaces /\ halfway' \subseteq Ifaces
  BY <1>1 DEF Typed
<1> QED BY <1>1, <1>2, <1>4, <1>6, <1>7, <1>8, CardStepKeeps

\* A node that runs agrees with its own document, hot-plugged card by hot-plugged card.
LEMMA RunningAgrees ==
  ASSUME NicInv, Live
  PROVE  \A j \in Ifaces \ BootIfaces :
           /\ n.att[j].net # None => doc[j].net = n.att[j].net /\ doc[j].gen = n.gen[j]
           /\ j \notin logged /\ n.tap[j] \in Nets /\ j \in n.netdev => n.att[j].net = n.tap[j]
           /\ j \notin halfway /\ n.att[j].slot # NoSlot => Whole(n, j)
BY DEF NicInv, HotSound, AttachedWhole, Whole

\* PUT /topology, which brings links only to a document that has none.
LEMMA PutTopologyKeeps ==
  ASSUME NicInv, NEW i \in Ifaces, NEW k \in Nets, PutTopology(i, k)
  PROVE  NicInv'
<1> DEFINE l == [net |-> k, gen |-> 0]
           D == IF \A j \in Ifaces : doc[j].net = None THEN [doc EXCEPT ![i] = l] ELSE doc
<1>1. Typed
  BY DEF NicInv
<1>2. l \in Link
  BY DEF Link
<1>3. \/ OfflineEdit(D)
      \/ Live /\ WriteAndReconcile(D, n, 0, {}) /\ UNCHANGED halfway
  BY DEF PutTopology
<1> HIDE DEF l
<1>4. D \in [Ifaces -> Link]
  BY <1>1, <1>2, DocTyped DEF Typed
<1>5. D = doc \/ \A j \in Ifaces : doc[j].net = None
  OBVIOUS
<1> HIDE DEF D
<1>6. CASE OfflineEdit(D)
  BY <1>4, <1>6, OfflineKeeps
<1>7. CASE Live /\ WriteAndReconcile(D, n, 0, {}) /\ UNCHANGED halfway
  <2>1. PICK log : /\ PassDone(n, n', D, log) /\ doc' = D /\ synced' = TRUE
                   /\ logged' = (logged \ BootIfaces) \cup log
                   /\ UNCHANGED <<vm, rec, start>>
    BY <1>1, <1>4, <1>7, WriteReconciles DEF Typed
  <2>2. \A j \in Ifaces \ BootIfaces :
           /\ n.att[j].net # None => D[j].net = n.att[j].net /\ D[j].gen = n.gen[j]
           /\ j \notin logged /\ n.tap[j] \in Nets /\ j \in n.netdev => n.att[j].net = n.tap[j]
           /\ j \notin halfway' /\ n.att[j].slot # NoSlot => Whole(n, j)
    BY <1>5, <1>7, RunningAgrees
  <2>3. halfway' \subseteq Ifaces
    BY <1>1, <1>7 DEF Typed
  <2> QED BY <1>4, <1>7, <2>1, <2>2, <2>3, ReconciledKeeps
<1> QED BY <1>3, <1>6, <1>7

\* Opening a lab: the pass, and the carriers once more.
LEMMA EnsureLabBridgesKeeps ==
  ASSUME NicInv, EnsureLabBridges
  PROVE  NicInv'
<1>1. Live /\ Typed /\ synced' = TRUE /\ UNCHANGED <<doc, vm, rec, start, halfway>>
  BY DEF EnsureLabBridges, NicInv
<1>2. PICK r \in Reconcile(n, doc) :
        /\ n' = [r.c EXCEPT !.up = {i \in r.c.netdev : IF i \in BootIfaces THEN doc[i].net # None
                                                       ELSE i \in r.c.up}]
        /\ logged' = (logged \ BootIfaces) \cup r.log
  BY DEF EnsureLabBridges
<1>3. PICK bad \in Passes : r = Out(ReconcilePass(n, doc, bad), TRUE,
                                    IF bad[1] = "none" THEN 0 ELSE 1, Warned(n, doc, bad))
  BY DEF Reconcile
<1>4. r.c = ReconcilePass(n, doc, bad) /\ r.log = Warned(n, doc, bad)
  BY <1>3 DEF Out
<1>5. CardsSound(n) /\ doc \in [Ifaces -> Link]
  BY <1>1 DEF Typed
<1>6. PassDone(n, r.c, doc, r.log)
  BY <1>4, <1>5, PassReconciles
<1> DEFINE d == r.c
           u == {i \in d.netdev : IF i \in BootIfaces THEN doc[i].net # None ELSE i \in d.up}
<1>7. PassDone(n, d, doc, r.log) /\ n' = [d EXCEPT !.up = u] /\ d \in Card
  BY <1>2, <1>6 DEF PassDone, CardsSound
<1> HIDE DEF d
<1>8. u \in SUBSET Ifaces /\ \A i \in BootIfaces \cap d.netdev : doc[i].net # None => i \in u
  BY <1>7 DEF Card
<1> HIDE DEF u
<1>9. /\ n' \in Card /\ n'.tap = d.tap /\ n'.netdev = d.netdev /\ n'.dev = d.dev
      /\ n'.dying = d.dying /\ n'.att = d.att /\ n'.gen = d.gen /\ n'.slots = d.slots /\ n'.up = u
  BY <1>7, <1>8 DEF Card
<1>10. CardsSound(n')
  BY <1>7, <1>9 DEF PassDone, CardsSound
<1>11. PassDone(n, n', doc, r.log)
  BY <1>7, <1>8, <1>9, <1>10 DEF PassDone, Wanted, StaleToken
<1>12. halfway' \subseteq Ifaces
  BY <1>1 DEF Typed
<1> QED BY <1>1, <1>2, <1>5, <1>11, <1>12, RunningAgrees, ReconciledKeeps
-----------------------------------------------------------------------------
(* The node's life.                                                        *)

\* Cards that differ in TAPs, backends and carriers only, or lost their devices, stay sound.
LEMMA RecordKept ==
  ASSUME NEW c, CardsSound(c), NEW d \in Card, d.att = c.att, d.gen = c.gen, d.slots = c.slots,
         \/ d.dev = c.dev /\ d.dying = c.dying
         \/ d.dying = {} /\ \A i \in Ifaces : d.dev[i] = NoSlot
  PROVE  CardsSound(d)
BY DEF CardsSound, PortsOnce

\* start_node reads the document before it has looked whether the node runs.
LEMMA StartReadKeeps ==
  ASSUME NicInv, StartRead
  PROVE  NicInv'
<1>1. /\ Typed /\ LifeSound /\ start.pc = "idle" /\ start'.pc = "check"
      /\ start' = [pc |-> "check", wires |-> start'.wires]
      /\ start'.wires = [i \in Ifaces |-> IF i \in BootIfaces THEN doc[i].net ELSE None]
      /\ UNCHANGED <<n, doc, vm, rec, synced, logged, halfway>>
  BY DEF StartRead, NicInv
<1>2. start'.wires \in [Ifaces -> Nets \cup {None}]
  BY <1>1 DEF Typed, Link
<1>3. Typed'
  BY <1>1, <1>2 DEF Typed
<1>4. LifeSound'
  BY <1>1 DEF LifeSound, Typed
<1>5. HotSound' /\ AttachedWhole' /\ HostFollowsDocument' /\ TokensAgree'
  BY <1>1 DEF NicInv, HotSound, AttachedWhole, HostFollowsDocument, TokensAgree, Live
<1> QED BY <1>3, <1>4, <1>5 DEF NicInv

\* The check: a live record ends the start, a dead one is dropped.
LEMMA StartCheckKeeps ==
  ASSUME NicInv, StartCheck
  PROVE  NicInv'
<1>1. Typed /\ LifeSound /\ start.pc = "check" /\ UNCHANGED <<doc, vm, logged>>
  BY DEF StartCheck, NicInv
<1>2. CASE Live
  <2>1. /\ rec' = rec /\ synced' = synced /\ halfway' = halfway /\ n' = n /\ start' = IdleStart
        /\ rec = TRUE /\ vm = TRUE
    BY <1>1, <1>2 DEF StartCheck, Seen, Live, Typed
  <2>2. IdleStart \in [pc : {"idle", "check", "boot", "commit"}, wires : [Ifaces -> Nets \cup {None}]]
        /\ IdleStart.pc = "idle" /\ \A i \in Ifaces : IdleStart.wires[i] = None
    BY DEF IdleStart
  <2>3. Typed'
    BY <1>1, <2>1, <2>2 DEF Typed
  <2>4. LifeSound'
    BY <1>1, <2>1, <2>2 DEF LifeSound
  <2>5. HotSound' /\ AttachedWhole' /\ HostFollowsDocument' /\ TokensAgree'
    BY <1>1, <2>1 DEF NicInv, HotSound, AttachedWhole, HostFollowsDocument, TokensAgree, Live
  <2> QED BY <2>3, <2>4, <2>5 DEF NicInv
<1>3. CASE ~Live
  <2>1. /\ rec' = FALSE /\ synced' = FALSE /\ halfway' = {} /\ n' = Forgotten(n)
        /\ start' = [start EXCEPT !.pc = "boot"]
    BY <1>1, <1>3 DEF StartCheck, Seen, Live, Typed
  <2>2. /\ start' \in [pc : {"idle", "check", "boot", "commit"}, wires : [Ifaces -> Nets \cup {None}]]
        /\ start'.pc = "boot" /\ start'.wires = start.wires
    BY <1>1, <2>1 DEF Typed
  <2>3. /\ CardsSound(n')
        /\ n'.netdev = n.netdev /\ n'.dev = n.dev /\ n'.dying = n.dying
        /\ \A i \in Ifaces : n'.att[i] = NoAtt
    BY <1>1, <2>1, ForgottenSound DEF Typed
  <2>4. ~vm
    BY <1>1, <1>3 DEF LifeSound, Live
  <2>5. Typed'
    BY <1>1, <2>1, <2>2, <2>3 DEF Typed
  <2>6. LifeSound'
    BY <1>1, <2>1, <2>2, <2>3, <2>4, Numbers DEF LifeSound
  <2> QED BY <2>1, <2>5, <2>6, NotRunning
<1> QED BY <1>2, <1>3

\* QEMU is launched with the boot cards; there is no record yet.
LEMMA StartBootKeeps ==
  ASSUME NicInv, StartBoot
  PROVE  NicInv'
<1>1. /\ Typed /\ LifeSound /\ start.pc = "boot" /\ ~vm /\ rec = FALSE /\ vm' = TRUE
      /\ start' = [start EXCEPT !.pc = "commit"]
      /\ UNCHANGED <<doc, rec, synced, logged, halfway>>
  BY DEF StartBoot, NicInv, LifeSound, Typed
<1> DEFINE tap == [i \in Ifaces |-> IF i \in BootIfaces THEN BootTap(i) ELSE n.tap[i]]
<1>2. PICK missed \in {{}} \cup {{i} : i \in {j \in BootIfaces : start.wires[j] = None}} :
        n' = [n EXCEPT !.tap = [i \in Ifaces |-> IF i \in BootIfaces THEN BootTap(i) ELSE n.tap[i]],
                       !.netdev = BootIfaces,
                       !.up = {i \in BootIfaces : start.wires[i] # None} \cup missed]
  BY DEF StartBoot
<1> DEFINE up == {i \in BootIfaces : start.wires[i] # None} \cup missed
<1>3. up \in SUBSET Ifaces
  BY Numbers
<1>4. tap \in [Ifaces -> Nets \cup {"gone", "loose"}]
  <2>1. n.tap \in [Ifaces -> Nets \cup {"gone", "loose"}]
    BY <1>1 DEF Typed, CardsSound, Card
  <2>2. \A i \in Ifaces : BootTap(i) \in Nets \cup {"gone", "loose"}
    BY <1>1 DEF Typed, BootTap
  <2> QED BY <2>1, <2>2
<1>5. n' = [n EXCEPT !.tap = tap, !.netdev = BootIfaces, !.up = up] /\ n \in Card
  BY <1>1, <1>2 DEF Typed, CardsSound
<1> HIDE DEF up, tap
<1>6. /\ n' \in Card /\ n'.netdev = BootIfaces /\ n'.dev = n.dev /\ n'.dying = n.dying
      /\ n'.att = n.att /\ n'.gen = n.gen /\ n'.slots = n.slots
  BY <1>3, <1>4, <1>5, Numbers DEF Card
<1>7. CardsSound(n')
  BY <1>1, <1>6, RecordKept DEF Typed
<1>8. /\ start' \in [pc : {"idle", "check", "boot", "commit"}, wires : [Ifaces -> Nets \cup {None}]]
      /\ start'.pc = "commit" /\ start'.wires = start.wires
  BY <1>1 DEF Typed
<1>9. Typed'
  BY <1>1, <1>7, <1>8 DEF Typed
<1>10. LifeSound'
  BY <1>1, <1>6, <1>8 DEF LifeSound
<1> QED BY <1>1, <1>9, <1>10, NotRunning

\* A start that fails leaves the TAPs it found.
LEMMA StartFailedKeeps ==
  ASSUME NicInv, StartFailed
  PROVE  NicInv'
<1>1. /\ Typed /\ LifeSound /\ start.pc = "boot" /\ rec = FALSE /\ vm = FALSE
      /\ start' = IdleStart
      /\ UNCHANGED <<doc, vm, rec, synced, logged, halfway>>
  BY DEF StartFailed, NicInv, LifeSound, Typed
<1> DEFINE tap == [i \in Ifaces |-> IF i \in BootIfaces /\ n.tap[i] # "gone"
                                    THEN BootTap(i) ELSE n.tap[i]]
<1>2. tap \in [Ifaces -> Nets \cup {"gone", "loose"}]
  <2>1. n.tap \in [Ifaces -> Nets \cup {"gone", "loose"}]
    BY <1>1 DEF Typed, CardsSound, Card
  <2>2. \A i \in Ifaces : BootTap(i) \in Nets \cup {"gone", "loose"}
    BY <1>1 DEF Typed, BootTap
  <2> QED BY <2>1, <2>2
<1>3. n' = [n EXCEPT !.tap = tap] /\ n \in Card
  BY <1>1 DEF StartFailed, Typed, CardsSound
<1> HIDE DEF tap
<1>4. /\ n' \in Card /\ n'.netdev = n.netdev /\ n'.dev = n.dev /\ n'.dying = n.dying
      /\ n'.att = n.att /\ n'.gen = n.gen /\ n'.slots = n.slots
  BY <1>2, <1>3 DEF Card
<1>5. CardsSound(n')
  BY <1>1, <1>4, RecordKept DEF Typed
<1>6. IdleStart \in [pc : {"idle", "check", "boot", "commit"}, wires : [Ifaces -> Nets \cup {None}]]
      /\ IdleStart.pc = "idle" /\ \A i \in Ifaces : IdleStart.wires[i] = None
  BY DEF IdleStart
<1>7. Typed'
  BY <1>1, <1>5, <1>6 DEF Typed
<1>8. LifeSound'
  BY <1>1, <1>4, <1>6 DEF LifeSound
<1> QED BY <1>1, <1>7, <1>8, NotRunning

\* The record of the run begins with the boot cards as the start wired them, and the
\* reconciler has not seen it.
LEMMA StartCommitKeeps ==
  ASSUME NicInv, StartCommit
  PROVE  NicInv'
<1>1. /\ Typed /\ LifeSound /\ start.pc = "commit" /\ rec = FALSE /\ rec' = TRUE
      /\ start' = IdleStart /\ synced' = FALSE /\ logged' = {} /\ halfway' = {}
      /\ UNCHANGED <<doc, vm>>
  BY DEF StartCommit, NicInv, LifeSound, Typed
<1> DEFINE f == Forgotten(n)
           att == [i \in Ifaces |-> IF start.wires[i] = None THEN NoAtt
                                    ELSE [NoAtt EXCEPT !.net = start.wires[i]]]
<1>2. \A i \in Ifaces : /\ att[i] \in Att /\ att[i].slot = NoSlot /\ att[i].net = start.wires[i]
                        /\ att[i].net = None => att[i] = NoAtt
  <2> SUFFICES ASSUME NEW i \in Ifaces
               PROVE  /\ att[i] \in Att /\ att[i].slot = NoSlot /\ att[i].net = start.wires[i]
                      /\ att[i].net = None => att[i] = NoAtt
    OBVIOUS
  <2>1. start.wires[i] \in Nets \cup {None}
    BY <1>1 DEF Typed
  <2>2. CASE start.wires[i] = None
    BY <2>2 DEF NoAtt, Att
  <2>3. CASE start.wires[i] # None
    <3>1. att[i] = [NoAtt EXCEPT !.net = start.wires[i]]
      BY <2>3
    <3> QED BY <2>1, <2>3, <3>1 DEF NoAtt, Att
  <2> QED BY <2>2, <2>3
<1>3. att \in [Ifaces -> Att]
  BY <1>2
<1>4. n' = [f EXCEPT !.att = att, !.taps = BootIfaces]
  BY DEF StartCommit
<1>5. CardsSound(f) /\ f.netdev = n.netdev /\ f.dev = n.dev /\ f.dying = n.dying /\ f.slots = {}
  BY <1>1, ForgottenSound DEF Typed
<1> HIDE DEF f, att
<1>6. f \in Card
  BY <1>5 DEF CardsSound
<1>7. /\ n' \in Card /\ n'.att = att /\ n'.slots = {} /\ n'.netdev = n.netdev /\ n'.dev = n.dev
      /\ n'.dying = n.dying
  BY <1>3, <1>4, <1>5, <1>6, Numbers DEF Card
<1>8. \A i \in Ifaces \ BootIfaces : att[i].net = None
  BY <1>1, <1>2 DEF LifeSound
<1>9. CardsSound(n')
  <2>1. PortsOnce(n'.dev) /\ \A i \in n'.dying : n'.dev[i] # NoSlot
    BY <1>1, <1>7 DEF Typed, CardsSound
  <2>2. \A i \in Ifaces : EntrySound(n'.att[i], n'.gen[i], i)
    BY <1>2, <1>7, <1>8 DEF EntrySound
  <2>3. n'.slots = {n'.att[i].slot : i \in Ifaces} \ {NoSlot}
    BY <1>2, <1>7
  <2> QED BY <1>2, <1>7, <2>1, <2>2, <2>3 DEF CardsSound
<1>10. IdleStart \in [pc : {"idle", "check", "boot", "commit"}, wires : [Ifaces -> Nets \cup {None}]]
       /\ IdleStart.pc = "idle" /\ \A i \in Ifaces : IdleStart.wires[i] = None
  BY DEF IdleStart
<1>11. Typed'
  BY <1>1, <1>9, <1>10 DEF Typed
<1>12. LifeSound'
  BY <1>1, <1>7, <1>10 DEF LifeSound
<1>13. HotSound'
  BY <1>1, <1>7, <1>8 DEF HotSound, LifeSound
<1>14. AttachedWhole'
  BY <1>2, <1>7 DEF AttachedWhole
<1>15. HostFollowsDocument' /\ TokensAgree'
  BY <1>1 DEF HostFollowsDocument, TokensAgree
<1> QED BY <1>11, <1>12, <1>13, <1>14, <1>15 DEF NicInv

\* A node that is stopped, or whose process exits, has no devices left.
LEMMA StopsKeep ==
  ASSUME NicInv, StopNode \/ VmExits
  PROVE  NicInv'
<1>1. Typed /\ LifeSound /\ vm' = FALSE /\ UNCHANGED <<doc, start>>
  BY DEF StopNode, VmExits, NicInv
<1>2. \A c \in Card : /\ PoweredOff(c) \in Card /\ PoweredOff(c).netdev = {}
                      /\ PoweredOff(c).dying = {}
                      /\ PoweredOff(c).dev = [i \in Ifaces |-> NoSlot]
                      /\ PoweredOff(c).att = c.att /\ PoweredOff(c).gen = c.gen
                      /\ PoweredOff(c).slots = c.slots
  BY DEF PoweredOff, Card
<1>3. CASE VmExits
  <2>1. /\ n' = PoweredOff(n) /\ vm /\ UNCHANGED <<rec, synced, logged, halfway>>
    BY <1>3 DEF VmExits
  <2>2. n \in Card
    BY <1>1 DEF Typed, CardsSound
  <2>3. /\ n' \in Card /\ n'.netdev = {} /\ n'.dying = {} /\ n'.att = n.att /\ n'.gen = n.gen
        /\ n'.slots = n.slots /\ \A i \in Ifaces : n'.dev[i] = NoSlot
    BY <1>2, <2>1, <2>2
  <2>4. CardsSound(n')
    BY <1>1, <2>3, RecordKept DEF Typed
  <2>5. Typed'
    BY <1>1, <2>1, <2>4 DEF Typed
  <2>6. LifeSound'
    BY <1>1, <2>1, <2>3 DEF LifeSound
  <2> QED BY <1>1, <2>5, <2>6, NotRunning
<1>4. CASE StopNode
  <2> DEFINE p == PoweredOff(Forgotten(n))
  <2>1. /\ n' = [p EXCEPT !.tap = [i \in Ifaces |-> "gone"]] /\ rec' = FALSE /\ synced' = FALSE
        /\ logged' = {} /\ halfway' = {} /\ rec /\ vm
    BY <1>4 DEF StopNode, Live
  <2>2. CardsSound(Forgotten(n)) /\ \A i \in Ifaces : Forgotten(n).att[i] = NoAtt
    BY <1>1, ForgottenSound DEF Typed
  <2>3. Forgotten(n) \in Card
    BY <2>2 DEF CardsSound
  <2>4. /\ p \in Card /\ p.netdev = {} /\ p.dying = {} /\ p.dev = [i \in Ifaces |-> NoSlot]
        /\ p.att = Forgotten(n).att /\ p.gen = Forgotten(n).gen /\ p.slots = Forgotten(n).slots
    BY <1>2, <2>3
  <2> HIDE DEF p
  <2>5. /\ n' \in Card /\ n'.netdev = {} /\ n'.dying = {} /\ n'.dev = p.dev
        /\ n'.att = p.att /\ n'.gen = p.gen /\ n'.slots = p.slots
    BY <2>1, <2>4 DEF Card
  <2>6. \A i \in Ifaces : n'.dev[i] = NoSlot /\ n'.att[i] = NoAtt
    BY <2>2, <2>4, <2>5
  <2>7. CardsSound(n')
    BY <2>2, <2>4, <2>5, <2>6, RecordKept
  <2>8. Typed'
    BY <1>1, <2>1, <2>7 DEF Typed
  <2>9. LifeSound'
    BY <1>1, <2>1, <2>5, <2>6, Numbers DEF LifeSound
  <2> QED BY <1>1, <2>8, <2>9, NotRunning
<1> QED BY <1>3, <1>4
-----------------------------------------------------------------------------
(* The theorems.                                                           *)

\* The initial state: no process, no record, no links.
LEMMA InitHolds == Init => NicInv
<1> SUFFICES ASSUME Init PROVE NicInv
  OBVIOUS
<1>1. NoAtt \in Att /\ NoAtt.slot = NoSlot /\ NoAtt.net = None /\ NoLink \in Link
  BY DEF NoAtt, Att, NoLink, Link
<1>2. /\ n \in Card /\ n.netdev = {} /\ n.dying = {} /\ n.slots = {}
      /\ \A i \in Ifaces : n.dev[i] = NoSlot /\ n.att[i] = NoAtt
  BY <1>1 DEF Init, Card
<1>3. CardsSound(n)
  <2>1. PortsOnce(n.dev)
    BY <1>2 DEF PortsOnce
  <2>2. \A i \in Ifaces : EntrySound(n.att[i], n.gen[i], i)
    BY <1>1, <1>2 DEF EntrySound
  <2>3. n.slots = {n.att[i].slot : i \in Ifaces} \ {NoSlot}
    BY <1>1, <1>2
  <2> QED BY <1>1, <1>2, <2>1, <2>2, <2>3 DEF CardsSound
<1>4. IdleStart \in [pc : {"idle", "check", "boot", "commit"}, wires : [Ifaces -> Nets \cup {None}]]
      /\ IdleStart.pc = "idle" /\ \A i \in Ifaces : IdleStart.wires[i] = None
  BY DEF IdleStart
<1>5. Typed
  BY <1>1, <1>3, <1>4 DEF Init, Typed
<1>6. LifeSound
  BY <1>2, <1>4 DEF Init, LifeSound
<1>7. HotSound /\ AttachedWhole /\ HostFollowsDocument /\ TokensAgree
  BY DEF Init, HotSound, AttachedWhole, HostFollowsDocument, TokensAgree, Live
<1> QED BY <1>5, <1>6, <1>7 DEF NicInv

\* Every step keeps the invariant.
LEMMA NextKeeps == NicInv /\ [Next]_vars => NicInv'
<1> SUFFICES ASSUME NicInv, [Next]_vars PROVE NicInv'
  OBVIOUS
<1>1. CASE UNCHANGED vars
  BY <1>1 DEF vars, NicInv, Typed, LifeSound, HotSound, AttachedWhole, HostFollowsDocument,
              TokensAgree, Live
<1>2. ASSUME NEW i \in Ifaces, NEW k \in Nets,
             CreateOffline(i, k) \/ CreateLink(i, k) \/ CreateFailed(i, k) \/ PutTopology(i, k)
      PROVE  NicInv'
  BY <1>2, CreateOfflineKeeps, CreateLinkKeeps, CreateFailedKeeps, PutTopologyKeeps
<1>3. ASSUME NEW i \in Ifaces, DeleteOffline(i) \/ DeleteLink(i) \/ DeleteFailed(i) \/ GuestEjects(i)
      PROVE  NicInv'
  BY <1>3, DeleteOfflineKeeps, DeleteLinkKeeps, DeleteFailedKeeps, GuestEjectsKeeps
<1>4. CASE RecordExpires
  BY <1>4, OfflineKeeps DEF RecordExpires, NicInv, Typed
<1>5. CASE EnsureLabBridges \/ StartRead \/ StartCheck \/ StartBoot \/ StartFailed \/ StartCommit
           \/ StopNode \/ VmExits
  BY <1>5, EnsureLabBridgesKeeps, StartReadKeeps, StartCheckKeeps, StartBootKeeps,
     StartFailedKeeps, StartCommitKeeps, StopsKeep
<1> QED BY <1>1, <1>2, <1>3, <1>4, <1>5 DEF Next

\* NicInv is an invariant.
LEMMA NicInvariant == Spec => []NicInv
<1>1. Init => NicInv
  BY InitHolds
<1>2. NicInv /\ [Next]_vars => NicInv'
  BY NextKeeps
<1> QED BY <1>1, <1>2, PTL DEF Spec

\* However plugs, forced unplugs and time-outs interleave, two devices never share a PCIe
\* root port, and no device sits in a port of a boot card.
THEOREM PortsNeverShared == Spec => []PortsExclusive
<1>1. NicInv => PortsExclusive
  BY DEF NicInv, Typed, CardsSound, PortsOnce, PortsExclusive
<1> QED BY <1>1, NicInvariant, PTL

\* allocated_slots holds the ports of the recorded hot-plugged cards and nothing else: no
\* failing command leaks a port or frees one that is in use.
THEOREM NoPortLeaks == Spec => []SlotsExact
<1>1. NicInv => SlotsExact
  BY DEF NicInv, Typed, CardsSound, SlotsExact
<1> QED BY <1>1, NicInvariant, PTL

\* A recorded hot-plugged card of a running node is whole, unless a detach of it failed and
\* the client was told.
THEOREM RecordedCardsWhole == Spec => []AttachedWhole
<1>1. NicInv => AttachedWhole
  BY DEF NicInv
<1> QED BY <1>1, NicInvariant, PTL

\* Once the reconciler has seen a running node, its cards are on the bridges that lab.json
\* names, up to what was logged or reported.
THEOREM CardsFollowDocument == Spec => []HostFollowsDocument
<1>1. NicInv => HostFollowsDocument
  BY DEF NicInv
<1> QED BY <1>1, NicInvariant, PTL

\* Nor is the delete of a link then ever dropped as stale.
THEOREM DeletesNotStale == Spec => []TokensAgree
<1>1. NicInv => TokensAgree
  BY DEF NicInv
<1> QED BY <1>1, NicInvariant, PTL
=============================================================================
