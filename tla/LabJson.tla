------------------------------- MODULE LabJson -------------------------------
(***************************************************************************)
(* The part of a lab.json document that links touch, and the pure edits    *)
(* that backend/app/services/link_service.py makes to it.  A document is   *)
(* the record                                                              *)
(*                                                                         *)
(*   nodes : the ids under "nodes"                                         *)
(*   nets  : for every network id, "none" (no record), "implicit"          *)
(*           (synthesised for a node-to-node link, hidden) or "explicit"   *)
(*   links : the entries of "links", each with its id (the number in       *)
(*           "lnk_NNN"), its two endpoints and the attach generation       *)
(*           stamped by the last hot-attach (0: never stamped)             *)
(*                                                                         *)
(* Labels, styles, metrics and positions are not represented: no decision  *)
(* of the service reads them.                                              *)
(***************************************************************************)
EXTENDS Naturals, FiniteSets, FiniteSetsExt

CONSTANTS Nodes,     \* node ids a lab may use
          Ifaces,    \* interface indices a node declares
          MaxNet,    \* bound on network ids
          MaxLink    \* bound on link ids

ASSUME LabConstants == /\ Nodes \subseteq Nat \ {0} /\ IsFiniteSet(Nodes)
                       /\ Ifaces \subseteq Nat /\ IsFiniteSet(Ifaces)
                       /\ MaxNet \in Nat /\ MaxLink \in Nat

NetIds  == 1..MaxNet
LinkIds == 1..MaxLink

\* A normalised endpoint: one interface of a node, or a network.
NodeEp(n, i) == [t |-> "node", id |-> n, ifc |-> i]
NetEp(k)     == [t |-> "net", id |-> k, ifc |-> 0]

Ports     == {NodeEp(n, i) : n \in Nodes, i \in Ifaces}
NetEps    == {NetEp(k) : k \in NetIds}
Endpoints == Ports \cup NetEps

IsPort(e) == e.t = "node"

Link == [id : LinkIds, a : Endpoints, b : Endpoints, gen : Nat]
Lab  == [nodes : SUBSET Nodes,
         nets  : [NetIds -> {"none", "implicit", "explicit"}],
         links : SUBSET Link]

Touches(l, e) == l.a = e \/ l.b = e

\* {a,b} and {b,a} are the same pair (_link_pair_key).
SamePair(l, a, b) == (l.a = a /\ l.b = b) \/ (l.a = b /\ l.b = a)

\* A link id names one link, and a port is an end of at most one link.
DistinctIds(lab) == \A l, m \in lab.links : l.id = m.id => l = m
PortsOnce(lab)   == \A l, m \in lab.links : \A p \in Ports :
                      Touches(l, p) /\ Touches(m, p) => l = m

\* The number of link endpoints that name network k.
RefCount(lab, k) == Cardinality({l \in lab.links : l.a = NetEp(k)})
                      + Cardinality({l \in lab.links : l.b = NetEp(k)})

NextAfter(S) == IF S = {} THEN 1 ELSE Max(S) + 1

\* Ids are one more than the largest in use, so the id of a deleted last
\* link or network is handed out again.
NextLinkId(lab)    == NextAfter({l.id : l \in lab.links})
NextNetworkId(lab) == NextAfter({k \in NetIds : lab.nets[k] # "none"})
NextNodeId(lab)    == NextAfter(lab.nodes)

AddLink(lab, a, b) ==
  [lab EXCEPT !.links = @ \cup {[id |-> NextLinkId(lab), a |-> a, b |-> b, gen |-> 0]}]

\* A node-to-node request becomes a hidden network and one half-link per node.
AddImplicitPair(lab, a, b) ==
  LET k == NextNetworkId(lab)
      withNet == [lab EXCEPT !.nets[k] = "implicit"]
  IN  AddLink(AddLink(withNet, a, NetEp(k)), b, NetEp(k))

\* Mutant: promotion at the fourth endpoint.
PromoteLate(lab, k) ==
  IF lab.nets[k] = "implicit" /\ RefCount(lab, k) = 4
    THEN [lab EXCEPT !.nets[k] = "explicit"]
    ELSE lab

\* The third endpoint on an implicit network makes it a visible one.
Promote(lab, k) ==
  IF lab.nets[k] = "implicit" /\ RefCount(lab, k) = 3
    THEN [lab EXCEPT !.nets[k] = "explicit"]
    ELSE lab

\* The first endpoint that is a network, looking at a before b.
TargetNet(a, b) == IF IsPort(a) THEN b.id ELSE a.id

JoinNetwork(lab, a, b) == Promote(AddLink(lab, a, b), TargetNet(a, b))

DropLinks(lab, S) == [lab EXCEPT !.links = @ \ S]

\* Removing one half of an implicit pair leaves an orphan, dropped with it.
DropOrphanHalf(lab, e) ==
  IF e.t = "net" /\ lab.nets[e.id] = "implicit" /\ RefCount(lab, e.id) = 1
    THEN DropLinks(lab, {l \in lab.links : Touches(l, e)})
    ELSE lab

\* An implicit network that no link names any more loses its record.
CollectNetwork(lab, e) ==
  IF e.t = "net" /\ lab.nets[e.id] = "implicit" /\ RefCount(lab, e.id) = 0
    THEN [lab EXCEPT !.nets[e.id] = "none"]
    ELSE lab

RemoveLink(lab, l) ==
  LET pruned == DropOrphanHalf(DropOrphanHalf(DropLinks(lab, {l}), l.a), l.b)
  IN  CollectNetwork(CollectNetwork(pruned, l.a), l.b)

\* The node side of a link, where it has one.
PortOf(l) == IF IsPort(l.a) THEN l.a ELSE l.b

\* The generations of fresh attachments of ports S to network k, recorded on
\* the links that wire them.
StampGenerations(lab, S, k, attached) ==
  [lab EXCEPT !.links = {IF PortOf(l) \in S /\ Touches(l, NetEp(k))
                           THEN [l EXCEPT !.gen = attached[PortOf(l)].gen] ELSE l : l \in @}]

\* What starting node n wires: its linked interfaces, each with the network
\* at the other end of the link.
LinkedPorts(lab, n) == {p \in Ports : p.id = n /\ \E l \in lab.links, k \in NetIds :
                          Touches(l, p) /\ Touches(l, NetEp(k)) /\ lab.nets[k] # "none"}
WiredNet(lab, p) == CHOOSE k \in NetIds : lab.nets[k] # "none" /\
                      \E l \in lab.links : Touches(l, p) /\ Touches(l, NetEp(k))
==============================================================================
