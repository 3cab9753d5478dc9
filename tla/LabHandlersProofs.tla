--------------------------- MODULE LabHandlersProofs ---------------------------
(***************************************************************************)
(* The handlers of one lab.json keep the document well-formed, links never *)
(* name a node that is gone until a handler slips past the lock, and a     *)
(* paired template that passed the pre-flight finds its interfaces.        *)
(***************************************************************************)
EXTENDS LabHandlers, LabJsonProofs

\* Fields are kept for nodes of the document only.
ConfOn(L, c) == c \in Confs /\ \A n \in Kept \ (L.nodes \cup {0}) : c[n] = 0

\* The links of a document are on its nodes.
LinksOn(L) == \A l \in L.links : IsPort(PortOf(l)) => PortOf(l).id \in L.nodes

Kids(t) == Len(t.kids)

\* The links that the paired request still has to make.
Coming == Len(pair.t.wires) - pair.next + 1

PairTyped == /\ pair \in [pc : {"idle", "link", "undo", "unresolved"},
                          t : Templates \cup {NoTemplate}, next : Nat \ {0},
                          made : Seq(Nat), snap : Lab, old : Confs]
             /\ Preflight(pair.t)

ViewSound == /\ view \in [links : SUBSET Link, conf : Confs, nodes : SUBSET Nodes]
             /\ DistinctIds(view) /\ PortsOnce(view)

\* The snapshot that is written back is as good as the document, and the ids
\* of the children are within the id space.
SnapSound == pair.pc # "idle" =>
               /\ pair.t \in Templates
               /\ Sound(pair.snap) /\ ConfOn(pair.snap, pair.old)
               /\ NewIds(pair.snap, Kids(pair.t)) \subseteq Nodes

\* There is room for the links that are to come, whatever others delete.
RoomLeft == pair.pc = "link" =>
              /\ pair.next <= Len(pair.t.wires) + 1
              /\ NextLinkId(lab) + 2 * Coming <= MaxLink + 1
              /\ NextNetworkId(lab) + Coming <= MaxNet + 1

\* Until a handler slips past the lock the children are there and the links
\* of the document and of the snapshot are on nodes.
OnNodes == ~slip.on =>
             /\ LinksOn(lab)
             /\ pair.pc # "idle" => /\ LinksOn(pair.snap)
                                    /\ NewIds(pair.snap, Kids(pair.t)) \subseteq lab.nodes

LabInv == /\ Sound(lab) /\ ConfOn(lab, conf)
          /\ PairTyped /\ ViewSound /\ slip.on \in BOOLEAN
          /\ SnapSound /\ RoomLeft /\ OnNodes /\ PreflightMirrors

HandlersInv == left \in 0..MaxRequests /\ LabInv
------------------------------------------------------------------------------
(* Ids.                                                                    *)

\* Finitely many numbers have a bound.
LEMMA NumbersBounded ==
  ASSUME NEW A \in SUBSET Nat, IsFiniteSet(A)
  PROVE  \E N \in Nat : A \subseteq 0..N
<1> DEFINE Bounded(T) == \E N \in Nat : T \subseteq 0..N
           C == {T \in SUBSET A : ~Bounded(T)}
           S == {Cardinality(T) : T \in C}
<1>1. SUFFICES ASSUME ~Bounded(A) PROVE FALSE
  OBVIOUS
<1>2. \A T \in SUBSET A : IsFiniteSet(T) /\ Cardinality(T) \in Nat
  BY FS_Subset, FS_CardinalityType
<1> HIDE DEF Bounded
<1>3. S \in SUBSET Nat /\ S # {}
  <2>1. S \in SUBSET Nat
    BY <1>2
  <2>2. A \in C
    BY <1>1
  <2> QED BY <2>1, <2>2
<1>4. PICK m \in S : \A n \in S : m <= n
  <2> HIDE DEF S
  <2> QED BY <1>3, LeastNumber
<1>5. PICK T \in C : m = Cardinality(T)
  BY <1>4
<1>6. T # {}
  BY <1>5 DEF Bounded
<1>7. PICK x \in T : TRUE
  BY <1>6
<1>8. Cardinality(T \ {x}) = m - 1 /\ m \in Nat
  BY <1>2, <1>5, <1>7, FS_RemoveElement
<1>9. T \ {x} \notin C
  <2>1. ASSUME T \ {x} \in C PROVE FALSE
    <3>1. m - 1 \in S
      BY <1>8, <2>1
    <3> HIDE DEF S
    <3> QED BY <1>4, <1>8, <3>1
  <2> QED BY <2>1
<1>10. Bounded(T \ {x})
  BY <1>5, <1>9
<1>11. PICK N \in Nat : T \ {x} \subseteq 0..N
  BY <1>10 DEF Bounded
<1>12. x \in Nat
  BY <1>5, <1>7
<1>13. Bounded(T)
  <2>1. CASE x <= N
    <3>1. T \subseteq 0..N
      BY <1>11, <1>12, <2>1
    <3> QED BY <3>1 DEF Bounded
  <2>2. CASE ~(x <= N)
    <3>1. T \subseteq 0..x
      BY <1>11, <1>12, <2>2
    <3> QED BY <1>12, <3>1 DEF Bounded
  <2> QED BY <2>1, <2>2
<1> QED BY <1>5, <1>13

\* _next_node_id is a number.
LEMMA NextNodeIdNumber ==
  ASSUME NEW L \in Lab
  PROVE  NextNodeId(L) \in Nat
<1>1. PICK N \in Nat : Nodes \subseteq 0..N
  BY LabConstants, NumbersBounded
<1>2. L.nodes \in SUBSET (1..N)
  <2>1. L.nodes \subseteq Nodes
    BY DEF Lab
  <2>2. ASSUME NEW x \in Nodes PROVE x \in 1..N
    <3>1. x \in 0..N /\ x \in Nat \ {0}
      BY <1>1, LabConstants
    <3> QED BY <3>1
  <2> QED BY <2>1, <2>2
<1>3. NextAfter(L.nodes) \in 1..(N + 1)
  BY <1>2, NextAfterFresh
<1> QED BY <1>3 DEF NextNodeId

\* With fewer ids in use the next id is not larger.
LEMMA NextAfterMonotone ==
  ASSUME NEW N \in Nat, NEW T \in SUBSET (1..N), NEW S \in SUBSET T
  PROVE  NextAfter(S) <= NextAfter(T)
<1>1. NextAfter(T) \in 1..(N + 1) /\ \A x \in T : x < NextAfter(T)
  BY NextAfterFresh
<1>2. CASE S = {}
  BY <1>1, <1>2 DEF NextAfter
<1>3. CASE S # {}
  <2>1. S \in SUBSET (0..N)
    OBVIOUS
  <2>2. Max(S) \in S
    BY <1>3, <2>1, MaxOfBounded
  <2>3. NextAfter(S) = Max(S) + 1
    BY <1>3 DEF NextAfter
  <2>4. Max(S) < NextAfter(T) /\ Max(S) \in Nat
    <3> DEFINE m == Max(S)
    <3>1. m \in S /\ m \in T
      BY <2>2
    <3> HIDE DEF m
    <3>2. m < NextAfter(T) /\ m \in Nat
      BY <1>1, <3>1
    <3> QED BY <3>2 DEF m
  <2> HIDE <1>3
  <2> QED BY <1>1, <2>3, <2>4
<1> QED BY <1>2, <1>3

\* Deleting links and nodes makes room.
LEMMA FewerIds ==
  ASSUME NEW L \in Lab, NEW M \in Lab, M.links \subseteq L.links, M.nets = L.nets
  PROVE  NextLinkId(M) <= NextLinkId(L) /\ NextNetworkId(M) = NextNetworkId(L)
<1> DEFINE T == {l.id : l \in L.links}
           S == {l.id : l \in M.links}
<1>1. T \in SUBSET (1..MaxLink) /\ S \in SUBSET T /\ MaxLink \in Nat
  BY LabConstants DEF Lab, Link, LinkIds
<1>2. NextAfter(S) <= NextAfter(T)
  <2> HIDE DEF S, T
  <2> QED BY <1>1, NextAfterMonotone
<1> QED BY <1>2 DEF NextLinkId, NextNetworkId

\* delete_link's edit takes links away and no node.
LEMMA RemoveLinkShape ==
  ASSUME NEW L, Sound(L), NEW l \in L.links
  PROVE  RemoveLink(L, l).nodes = L.nodes /\ RemoveLink(L, l).links \subseteq L.links
<1> DEFINE Good(M) == M \in Lab /\ M.nodes = L.nodes /\ M.links \subseteq L.links
<1>0. l.a \in Endpoints /\ l.b \in Endpoints /\ L \in Lab
  BY DEF Sound, Lab, Link
<1>1. ASSUME NEW M, Good(M), NEW S PROVE Good(DropLinks(M, S))
  BY <1>1 DEF DropLinks, Lab
<1>2. ASSUME NEW M, Good(M), NEW e \in Endpoints PROVE Good(DropOrphanHalf(M, e))
  <2> HIDE DEF Good
  <2> QED BY <1>1, <1>2 DEF DropOrphanHalf
<1>3. ASSUME NEW M, Good(M), NEW e \in Endpoints PROVE Good(CollectNetwork(M, e))
  BY <1>3, EndpointKinds DEF CollectNetwork, Lab
<1>4. Good(L)
  BY <1>0
<1> DEFINE pruned == DropOrphanHalf(DropOrphanHalf(DropLinks(L, {l}), l.a), l.b)
<1>5. RemoveLink(L, l) = CollectNetwork(CollectNetwork(pruned, l.a), l.b)
  BY DEF RemoveLink
<1> HIDE DEF Good
<1>6. Good(pruned)
  BY <1>0, <1>1, <1>2, <1>4
<1> HIDE DEF pruned
<1>7. Good(RemoveLink(L, l))
  BY <1>0, <1>3, <1>5, <1>6
<1> QED BY <1>7 DEF Good

\* A hidden pair takes two link ids and one network id, and its links are on
\* the two ports asked for.
LEMMA AddImplicitPairShape ==
  ASSUME NEW L, Sound(L), NEW a \in Ports, NEW b \in Ports, a # b,
         NextLinkId(L) + 1 <= MaxLink, NextNetworkId(L) <= MaxNet,
         \A l \in L.links : \A p \in {a, b} \cap Ports : ~Touches(l, p)
  PROVE  LET N == AddImplicitPair(L, a, b) IN
         /\ N.nodes = L.nodes
         /\ NextLinkId(N) = NextLinkId(L) + 2
         /\ NextNetworkId(N) = NextNetworkId(L) + 1
         /\ \A l \in N.links : l \in L.links \/ PortOf(l) \in {a, b}
<1> DEFINE k == NextNetworkId(L)
           W == [L EXCEPT !.nets[k] = "implicit"]
           M == AddLink(W, a, NetEp(k))
           N == AddImplicitPair(L, a, b)
<1>0. MaxLink \in Nat /\ MaxNet \in Nat /\ L \in Lab
  BY LabConstants DEF Sound
<1>1. k \in NetIds /\ NextLinkId(L) \in Nat /\ k \in Nat
  BY <1>0, NextNetworkIdFresh, NextLinkIdFresh DEF NetIds
<1>2. N = AddLink(M, b, NetEp(k))
  BY DEF AddImplicitPair
<1>3. k = NextAfter({x \in NetIds : L.nets[x] # "none"})
  BY DEF NextNetworkId
<1> HIDE DEF k, N
<1>4. /\ W \in Lab /\ W.links = L.links /\ W.nodes = L.nodes /\ W.nets[k] = "implicit"
      /\ \A x \in NetIds \ {k} : W.nets[x] = L.nets[x]
  BY <1>0, <1>1 DEF Lab
<1> HIDE DEF W
<1>5. Sound(W) /\ NextLinkId(W) = NextLinkId(L)
  BY <1>4 DEF Sound, DistinctIds, PortsOnce, NextLinkId
<1>6. a \in Endpoints /\ b \in Endpoints /\ NetEp(k) \in Endpoints /\ NetEp(k) \notin Ports
  BY <1>1, EndpointKinds
<1>7. Sound(M) /\ NextLinkId(M) = NextLinkId(L) + 1
  <2>1. NextLinkId(W) <= MaxLink
    BY <1>0, <1>1, <1>5
  <2>2. \A l \in W.links : \A p \in {a, NetEp(k)} \cap Ports : ~Touches(l, p)
    BY <1>4, <1>6
  <2> QED BY <1>5, <1>6, <2>1, <2>2, AddLinkSound
<1> DEFINE u == [id |-> NextLinkId(W), a |-> a, b |-> NetEp(k), gen |-> 0]
           v == [id |-> NextLinkId(M), a |-> b, b |-> NetEp(k), gen |-> 0]
<1>8. M.links = W.links \cup {u} /\ M.nets = W.nets /\ M.nodes = W.nodes
  BY <1>5, AddLinkAdds
<1>9. N.links = M.links \cup {v} /\ N.nets = M.nets /\ N.nodes = M.nodes
  BY <1>2, <1>7, AddLinkAdds
<1>10. u.a = a /\ v.a = b /\ u.b = NetEp(k)
  OBVIOUS
<1> HIDE DEF u, v, M
<1>11. NextLinkId(N) = NextLinkId(L) + 2
  <2>1. NextLinkId(M) <= MaxLink
    BY <1>0, <1>1, <1>7
  <2>2. \A l \in M.links : \A p \in {b, NetEp(k)} \cap Ports : ~Touches(l, p)
    <3>1. ~Touches(u, b)
      BY <1>6, <1>10 DEF Touches
    <3> QED BY <1>4, <1>6, <1>8, <3>1
  <2>3. NextLinkId(AddLink(M, b, NetEp(k))) = NextLinkId(M) + 1
    BY <1>6, <1>7, <2>1, <2>2, AddLinkSound
  <2> QED BY <1>1, <1>2, <1>7, <2>3
<1>12. NextNetworkId(N) = k + 1
  <2> DEFINE S == {x \in NetIds : L.nets[x] # "none"}
  <2>1. S \in SUBSET (1..MaxNet)
    BY DEF NetIds
  <2>2. {x \in NetIds : N.nets[x] # "none"} = S \cup {k}
    BY <1>1, <1>4, <1>8, <1>9
  <2>3. k = NextAfter(S)
    BY <1>3
  <2> HIDE DEF S
  <2>4. NextAfter(S \cup {k}) = k + 1
    BY <1>0, <2>1, <2>3, NextAfterAdded
  <2> QED BY <2>2, <2>4 DEF NextNetworkId
<1>13. IsPort(a) /\ IsPort(b)
  BY <1>6, EndpointKinds
<1>14. PortOf(u) = a /\ PortOf(v) = b
  BY <1>10, <1>13 DEF PortOf
<1> QED BY <1>4, <1>8, <1>9, <1>11, <1>12, <1>14 DEF N, k

\* A link to a network adds one link, on the ends asked for.
LEMMA JoinNetworkShape ==
  ASSUME NEW L, Sound(L), NEW a \in Endpoints, NEW b \in Endpoints, ~(IsPort(a) /\ IsPort(b)),
         NextLinkId(L) <= MaxLink,
         \A l \in L.links : \A p \in {a, b} \cap Ports : ~Touches(l, p)
  PROVE  LET N == JoinNetwork(L, a, b) IN
         /\ N.nodes = L.nodes
         /\ \A l \in N.links : l \in L.links \/ PortOf(l) \in {a, b}
<1> DEFINE new == [id |-> NextLinkId(L), a |-> a, b |-> b, gen |-> 0]
           M == AddLink(L, a, b)
           N == JoinNetwork(L, a, b)
<1>1. M.links = L.links \cup {new} /\ M.nodes = L.nodes
  BY AddLinkAdds
<1>2. Sound(M)
  BY AddLinkSound
<1>3. PortOf(new) \in {a, b}
  BY DEF PortOf
<1>4. N = Promote(M, TargetNet(a, b))
  BY DEF JoinNetwork
<1> HIDE DEF new, M, N
<1>5. N.links = M.links /\ N.nodes = M.nodes
  BY <1>2, <1>4 DEF Promote, Sound, Lab
<1> QED BY <1>1, <1>3, <1>5 DEF N

------------------------------------------------------------------------------
(* Paired templates.                                                       *)

\* A child whose format is no list gets the names the pre-flight predicts.
LEMMA NamesAsPredicted ==
  ASSUME NEW child, child.mode # "list"
  PROVE  Assigned(child) = Predicted(child)
BY DEF Assigned, Predicted

\* The ends of a wire of a template that passed the pre-flight name a child,
\* and an interface of it unless the child's format is a list.
LEMMA EndsKnown ==
  ASSUME NEW t \in Template, Preflight(t), NEW i \in 1..Len(t.wires),
         NEW e \in {t.wires[i].from, t.wires[i].to}
  PROVE  /\ e.child \in 1..Len(t.kids)
         /\ t.kids[e.child].mode # "list" => Found(t, e) # {}
<1>1. t.wires[i] \in Range(t.wires)
  BY DEF Template, Range
<1>2. e \in Ends(t)
  BY <1>1 DEF Ends
<1>3. e.child \in DOMAIN t.kids /\ e.name \in Range(Predicted(t.kids[e.child]))
  BY <1>2 DEF Preflight
<1>4. e.child \in 1..Len(t.kids)
  BY <1>3 DEF Template
<1>5. ASSUME t.kids[e.child].mode # "list" PROVE Found(t, e) # {}
  <2> DEFINE child == t.kids[e.child]
  <2>1. Assigned(child) = Predicted(child)
    BY <1>5, NamesAsPredicted
  <2>2. DOMAIN Predicted(child) = Indices(child)
    BY DEF Predicted
  <2>3. PICK j \in Indices(child) : Predicted(child)[j] = e.name
    BY <1>3, <2>2 DEF Range
  <2> QED BY <2>1, <2>3 DEF Found
<1> QED BY <1>4, <1>5

\* _resolve_iface_index answers an interface of the child.
LEMMA ResolveFound ==
  ASSUME NEW t \in Templates, NEW e, e.child \in DOMAIN t.kids, Found(t, e) # {}
  PROVE  Resolve(t, e) \in Ifaces
<1>1. Found(t, e) \subseteq Ifaces
  BY TemplatesConstant DEF Found
<1>2. Found(t, e) \in SUBSET Nat
  BY <1>1, LabConstants
<1>3. \E i \in Found(t, e) : \A j \in Found(t, e) : i <= j
  BY <1>2, LeastNumber
<1>4. Resolve(t, e) \in Found(t, e)
  BY <1>3 DEF Resolve
<1> QED BY <1>1, <1>4

\* The interface a wire ends at is a port of one of the children.
LEMMA EndPortIsPort ==
  ASSUME NEW t \in Templates, NEW L \in Lab, NewIds(L, Kids(t)) \subseteq Nodes,
         NEW e, e.child \in 1..Len(t.kids), Found(t, e) # {}
  PROVE  LET p == EndPort(t, NextNodeId(L), e) IN p \in Ports /\ p.id \in NewIds(L, Kids(t))
<1> DEFINE first == NextNodeId(L)
           n == first + e.child - 1
<1>1. first \in Nat /\ Len(t.kids) \in Nat
  BY NextNodeIdNumber, TemplatesConstant DEF Template
<1>2. DOMAIN t.kids = 1..Len(t.kids)
  BY TemplatesConstant DEF Template
<1>3. Resolve(t, e) \in Ifaces
  BY <1>2, ResolveFound
<1>4. n \in NewIds(L, Kids(t))
  <2> HIDE DEF first
  <2> DEFINE c == e.child
  <2>0. c \in 1..Len(t.kids)
    OBVIOUS
  <2> HIDE DEF c
  <2>1. c - 1 \in 0..(Len(t.kids) - 1) /\ first + (c - 1) = first + c - 1
    BY <1>1, <2>0
  <2>2. NewIds(L, Kids(t)) = {first + i : i \in 0..(Len(t.kids) - 1)}
    BY DEF NewIds, Kids, first
  <2> QED BY <2>1, <2>2 DEF c
<1>5. EndPort(t, first, e) = NodeEp(n, Resolve(t, e))
  BY DEF EndPort
<1>6. n \in Nodes
  BY <1>4
<1> HIDE DEF n, first
<1>7. NodeEp(n, Resolve(t, e)) \in Ports /\ NodeEp(n, Resolve(t, e)).id = n
  BY <1>3, <1>6 DEF Ports, NodeEp
<1> QED BY <1>4, <1>5, <1>7 DEF first

------------------------------------------------------------------------------
(* Links rebuilt from a topology.                                          *)

\* The links of a browser's copy, numbered anew, are links with ids of their
\* own on the same ports.
LEMMA RevivedSound ==
  ASSUME NEW v, v.links \in SUBSET Link, DistinctIds(v), PortsOnce(v),
         NEW M, M.links = FromTopology(v.links)
  PROVE  M.links \in SUBSET Link /\ DistinctIds(M) /\ PortsOnce(M)
<1> DEFINE wired == {l \in v.links : IsPort(PortOf(l))}
           below(l) == {m \in wired : m.id <= l.id}
           rank(l) == Cardinality(below(l))
           f(l) == [id |-> rank(l), a |-> PortOf(l), b |-> IF IsPort(l.a) THEN l.b ELSE l.a, gen |-> 0]
<1>1. M.links = {f(l) : l \in wired}
  BY DEF FromTopology
<1>2. \A l \in wired : l \in Link /\ l.id \in 1..MaxLink /\ l \in v.links
  BY DEF Link, LinkIds
<1>3. \A l, m \in wired : l.id = m.id => l = m
  BY DEF DistinctIds
<1> HIDE DEF wired
<1>4. ASSUME NEW l \in wired
      PROVE  IsFiniteSet(below(l)) /\ rank(l) \in 1..MaxLink
  <2> DEFINE g == [m \in below(l) |-> m.id]
  <2>1. l.id \in Nat /\ l.id <= MaxLink /\ MaxLink \in Nat
    BY <1>2, LabConstants
  <2>2. g \in Injection(below(l), 1..l.id)
    <3>1. g \in [below(l) -> 1..l.id]
      BY <1>2
    <3>2. \A x, y \in below(l) : g[x] = g[y] => x = y
      BY <1>3
    <3> HIDE DEF g, below
    <3> QED BY <3>1, <3>2 DEF Injection, IsInjective
  <2>3. IsFiniteSet(1..l.id) /\ Cardinality(1..l.id) = l.id
    <3> DEFINE n == l.id
    <3>1. n \in Int /\ 1 \in Int /\ 1 <= n
      BY <1>2, <2>1
    <3> HIDE DEF n
    <3>2. IsFiniteSet(1..n) /\ Cardinality(1..n) = IF 1 > n THEN 0 ELSE n - 1 + 1
      BY <3>1, FS_Interval
    <3>3. IsFiniteSet(1..n) /\ Cardinality(1..n) = n
      BY <3>1, <3>2
    <3> QED BY <3>3 DEF n
  <2> HIDE DEF g
  <2>4. IsFiniteSet(below(l)) /\ Cardinality(below(l)) <= l.id
    BY <2>2, <2>3, FS_Injection
  <2>5. Cardinality(below(l)) \in Nat /\ Cardinality(below(l)) # 0
    <3>1. l \in below(l)
      BY <2>1
    <3> QED BY <2>4, <3>1, FS_EmptySet, FS_CardinalityType
  <2> QED BY <2>1, <2>4, <2>5
<1>5. ASSUME NEW l \in wired, NEW m \in wired, l.id < m.id PROVE rank(l) < rank(m)
  <2>1. below(l) \subseteq below(m) /\ m \in below(m) /\ m \notin below(l)
    <3>1. l.id \in Nat /\ m.id \in Nat /\ \A x \in wired : x.id \in Nat
      BY <1>2
    <3> QED BY <1>5, <3>1
  <2>2. IsFiniteSet(below(m)) /\ IsFiniteSet(below(l))
    BY <1>4
  <2> HIDE DEF below
  <2>3. below(l) \subseteq below(m) /\ below(l) # below(m)
    BY <2>1
  <2>4. Cardinality(below(l)) < Cardinality(below(m))
    <3>1. Cardinality(below(l)) <= Cardinality(below(m))
      BY <2>2, <2>3, FS_Subset
    <3>2. Cardinality(below(l)) # Cardinality(below(m))
      BY <2>2, <2>3, FS_Subset
    <3>3. Cardinality(below(l)) \in Nat /\ Cardinality(below(m)) \in Nat
      BY <2>2, FS_CardinalityType
    <3> QED BY <3>1, <3>2, <3>3
  <2> QED BY <2>4
<1> HIDE DEF below
<1>6. ASSUME NEW l \in wired, NEW m \in wired, rank(l) = rank(m) PROVE l = m
  <2>1. rank(l) \in Nat /\ rank(m) \in Nat /\ l.id \in Nat /\ m.id \in Nat
    BY <1>2, <1>4
  <2> HIDE DEF rank
  <2>2. ~(l.id < m.id) /\ ~(m.id < l.id)
    BY <1>5, <1>6, <2>1
  <2> QED BY <1>3, <2>1, <2>2
<1> HIDE DEF rank
<1>7. ASSUME NEW l \in wired
      PROVE  /\ f(l) \in Link /\ f(l).id = rank(l)
             /\ \A p : Touches(f(l), p) <=> Touches(l, p)
  <2>1. l.a \in Endpoints /\ l.b \in Endpoints
    BY <1>2 DEF Link
  <2>2. rank(l) \in LinkIds
    BY <1>4 DEF LinkIds
  <2>3. f(l) \in Link
    BY <2>1, <2>2 DEF Link, PortOf
  <2>4. f(l).id = rank(l) /\ f(l).a = PortOf(l) /\ f(l).b = IF IsPort(l.a) THEN l.b ELSE l.a
    OBVIOUS
  <2> HIDE DEF f
  <2> QED BY <2>3, <2>4 DEF Touches, PortOf
<1> HIDE DEF f
<1>8. M.links \in SUBSET Link
  BY <1>1, <1>7
<1>9. DistinctIds(M)
  BY <1>1, <1>6, <1>7 DEF DistinctIds
<1>10. ASSUME NEW x \in M.links, NEW y \in M.links, NEW p \in Ports, Touches(x, p), Touches(y, p)
       PROVE  x = y
  <2>1. PICK l \in wired : x = f(l)
    BY <1>1
  <2>2. PICK m \in wired : y = f(m)
    BY <1>1
  <2>3. Touches(l, p) /\ Touches(m, p)
    BY <1>7, <1>10, <2>1, <2>2
  <2>4. l = m
    BY <1>2, <2>3 DEF PortsOnce
  <2> QED BY <2>1, <2>2, <2>4
<1> QED BY <1>8, <1>9, <1>10 DEF PortsOnce

------------------------------------------------------------------------------
(* The steps.                                                              *)

\* No template, no wires.
LEMMA NoTemplatePasses == Preflight(NoTemplate)
<1>1. NoTemplate.wires = << >>
  BY DEF NoTemplate
<1>2. Range(<< >>) = {}
  BY DEF Range
<1>3. Ends(NoTemplate) = {}
  BY <1>1, <1>2 DEF Ends
<1> QED BY <1>3 DEF Preflight

\* The request that is not running.
LEMMA IdlePairTyped ==
  /\ IdlePair.pc = "idle" /\ Preflight(IdlePair.t)
  /\ IdlePair \in [pc : {"idle", "link", "undo", "unresolved"},
                   t : Templates \cup {NoTemplate}, next : Nat \ {0},
                   made : Seq(Nat), snap : Lab, old : Confs]
<1>1. EmptyLab \in Lab
  BY DEF EmptyLab, Lab
<1>2. NoConf \in Confs
  BY DEF NoConf, Confs
<1> QED BY <1>1, <1>2, NoTemplatePasses DEF IdlePair

\* The empty lab is sound.
LEMMA InitHolds == Init => HandlersInv
<1> SUFFICES ASSUME Init PROVE HandlersInv
  OBVIOUS
<1>1. lab = EmptyLab /\ lab.links = {} /\ lab.nodes = {} /\ lab \in Lab
  BY DEF Init, EmptyLab, Lab
<1>2. Sound(lab) /\ LinksOn(lab)
  BY <1>1 DEF Sound, DistinctIds, PortsOnce, LinksOn
<1>3. ConfOn(lab, conf)
  BY DEF Init, ConfOn, NoConf, Confs
<1>4. PairTyped /\ pair.pc = "idle"
  BY IdlePairTyped DEF Init, PairTyped
<1>5. ViewSound
  BY DEF Init, ViewSound, NoConf, Confs, DistinctIds, PortsOnce
<1>6. left \in 0..MaxRequests /\ slip.on = FALSE
  BY RequestsConstant DEF Init
<1> QED BY <1>2, <1>3, <1>4, <1>5, <1>6
        DEF HandlersInv, LabInv, SnapSound, RoomLeft, OnNodes, PreflightMirrors

\* A handler that runs while no paired request does.
LEMMA IdleKeeps ==
  ASSUME LabInv, Unlocked, pair' = pair, Sound(lab'), ConfOn(lab', conf'),
         ViewSound', slip'.on \in BOOLEAN, ~slip'.on => LinksOn(lab')
  PROVE  LabInv'
<1>1. pair'.pc = "idle"
  BY DEF Unlocked
<1>2. PairTyped'
  BY DEF LabInv, PairTyped
<1> QED BY <1>1, <1>2 DEF LabInv, SnapSound, RoomLeft, OnNodes, PreflightMirrors

\* A handler that does not take the lock and makes no link.
LEMMA SlipKeeps ==
  ASSUME LabInv, pair' = pair, view' = view, SlipsPast, Sound(lab'), ConfOn(lab', conf'),
         lab'.links \subseteq lab.links, lab'.nets = lab.nets, LinksOn(lab) => LinksOn(lab')
  PROVE  LabInv'
<1>1. PairTyped' /\ ViewSound' /\ SnapSound' /\ PreflightMirrors'
  BY DEF LabInv, PairTyped, ViewSound, SnapSound, PreflightMirrors
<1>2. slip'.on \in BOOLEAN /\ (~slip'.on => Unlocked /\ ~slip.on)
  BY DEF SlipsPast, LabInv
<1>3. OnNodes'
  BY <1>2 DEF OnNodes, LabInv, Unlocked
<1>4. RoomLeft'
  <2>1. SUFFICES ASSUME pair.pc = "link" PROVE RoomLeft'
    BY DEF RoomLeft
  <2>2. NextLinkId(lab') <= NextLinkId(lab) /\ NextNetworkId(lab') = NextNetworkId(lab)
    BY FewerIds DEF LabInv, Sound
  <2>3. NextLinkId(lab') \in Nat /\ NextLinkId(lab) \in Nat
    BY NextLinkIdFresh DEF LabInv, Sound
  <2>4. Coming' = Coming /\ Coming \in Int
    <3>1. Coming' = Coming
      BY DEF Coming
    <3>2. pair.t \in Template /\ pair.next \in Nat
      BY <2>1, TemplatesConstant DEF LabInv, SnapSound, PairTyped
    <3>3. Len(pair.t.wires) \in Nat
      BY <3>2 DEF Template
    <3> QED BY <3>1, <3>2, <3>3 DEF Coming
  <2>5. /\ pair.next <= Len(pair.t.wires) + 1
        /\ NextLinkId(lab) + 2 * Coming <= MaxLink + 1
        /\ NextNetworkId(lab) + Coming <= MaxNet + 1
    BY <2>1 DEF LabInv, RoomLeft
  <2> HIDE DEF Coming
  <2>6. NextLinkId(lab') + 2 * Coming' <= MaxLink + 1
    BY <2>2, <2>3, <2>4, <2>5, LabConstants
  <2> QED BY <2>2, <2>4, <2>5, <2>6 DEF RoomLeft
<1> QED BY <1>1, <1>2, <1>3, <1>4 DEF LabInv

\* create_node, create_node_from_template and create_nodes_batch.
LEMMA CreateNodesKeeps ==
  ASSUME LabInv, NEW m \in 1..2, CreateNodes(m)
  PROVE  LabInv'
<1>1. lab \in Lab /\ lab' = [lab EXCEPT !.nodes = @ \cup NewIds(lab, m)]
  BY DEF CreateNodes, WithNodes, LabInv, Sound
<1>2. lab' \in Lab /\ lab'.links = lab.links /\ lab'.nets = lab.nets /\ lab.nodes \subseteq lab'.nodes
  BY <1>1 DEF CreateNodes, Lab
<1>3. Sound(lab')
  BY <1>2, SmallerSound DEF LabInv
<1>4. ConfOn(lab', conf')
  BY <1>2 DEF CreateNodes, LabInv, ConfOn
<1>5. LinksOn(lab) => LinksOn(lab')
  BY <1>2 DEF LinksOn
<1>6. pair' = pair /\ view' = view /\ SlipsPast
  BY DEF CreateNodes
<1> QED BY <1>2, <1>3, <1>4, <1>5, <1>6, SlipKeeps

\* Flipping a stored field of a node that exists.
LEMMA FlipKeeps ==
  ASSUME NEW L, NEW c, ConfOn(L, c), NEW n \in Kept \cap (L.nodes \cup {0})
  PROVE  ConfOn(L, [c EXCEPT ![n] = 1 - @])
<1>1. c \in [Kept -> {0, 1}]
  BY DEF ConfOn, Confs
<1>2. 1 - c[n] \in {0, 1}
  BY <1>1
<1> QED BY <1>1, <1>2 DEF ConfOn, Confs

\* update_node and update_lab.
LEMMA UpdateKeeps ==
  ASSUME LabInv, NEW n \in Kept, Update(n)
  PROVE  LabInv'
<1>1. ConfOn(lab, conf')
  BY FlipKeeps DEF Update, LabInv
<1>2. lab' = lab /\ pair' = pair /\ view' = view /\ SlipsPast
  BY DEF Update
<1>3. Sound(lab') /\ ConfOn(lab', conf')
  BY <1>1, <1>2 DEF LabInv
<1> QED BY <1>2, <1>3, SlipKeeps

\* delete_node takes the links of the node.
LEMMA DeleteNodeKeeps ==
  ASSUME LabInv, NEW n \in Nodes, DeleteNode(n)
  PROVE  LabInv'
<1> DEFINE kept == {k \in lab.links : \A i \in Ifaces : ~Touches(k, NodeEp(n, i))}
<1>1. lab \in Lab /\ lab' = [lab EXCEPT !.nodes = @ \ {n}, !.links = kept]
  BY DEF DeleteNode, WithoutNode, LabInv, Sound
<1>2. kept \subseteq lab.links
  OBVIOUS
<1> HIDE DEF kept
<1>3. /\ lab' \in Lab /\ lab'.links = kept /\ lab'.nets = lab.nets /\ lab'.nodes = lab.nodes \ {n}
  BY <1>1, <1>2 DEF Lab
<1>4. Sound(lab')
  BY <1>2, <1>3, SmallerSound DEF LabInv
<1>5. ConfOn(lab', conf')
  BY <1>3 DEF DeleteNode, Cleared, LabInv, ConfOn, Confs
<1>6. ASSUME LinksOn(lab) PROVE LinksOn(lab')
  <2>1. SUFFICES ASSUME NEW l \in kept, IsPort(PortOf(l)) PROVE PortOf(l).id \in lab.nodes \ {n}
    BY <1>3 DEF LinksOn
  <2>2. l \in lab.links /\ PortOf(l).id \in lab.nodes
    BY <1>2, <1>6, <2>1 DEF LinksOn
  <2>3. PortOf(l) \in Ports
    <3>1. l.a \in Endpoints /\ l.b \in Endpoints
      BY <1>1, <2>2 DEF Lab, Link
    <3> QED BY <2>1, <3>1, EndpointKinds DEF PortOf
  <2>4. PICK x \in Nodes, i \in Ifaces : PortOf(l) = NodeEp(x, i)
    BY <2>3 DEF Ports
  <2>5. x # n
    BY <2>1, <2>4 DEF kept, Touches, PortOf
  <2>6. PortOf(l).id = x
    BY <2>4 DEF NodeEp
  <2> QED BY <2>2, <2>5, <2>6
<1>7. pair' = pair /\ view' = view /\ SlipsPast
  BY DEF DeleteNode
<1> QED BY <1>2, <1>3, <1>4, <1>5, <1>6, <1>7, SlipKeeps

\* patch_node_interface and put_layout.
LEMMA PatchNodeKeeps ==
  ASSUME LabInv, NEW n \in Kept, PatchNode(n)
  PROVE  LabInv'
<1>1. ConfOn(lab, conf')
  BY FlipKeeps DEF PatchNode, LabInv
<1>2. lab' = lab /\ pair' = pair /\ view' = view /\ slip' = slip /\ Unlocked
  BY DEF PatchNode
<1>3. Sound(lab') /\ ConfOn(lab', conf') /\ slip'.on \in BOOLEAN /\ (~slip'.on => LinksOn(lab'))
  BY <1>1, <1>2 DEF LabInv, OnNodes
<1>4. ViewSound'
  BY <1>2 DEF LabInv, ViewSound
<1> QED BY <1>2, <1>3, <1>4, IdleKeeps

\* A handler that edits links and networks under the lock.
LEMMA EditKeeps ==
  ASSUME LabInv, Unlocked, UNCHANGED <<conf, pair, view, slip>>,
         Sound(lab'), lab'.nodes = lab.nodes, LinksOn(lab) => LinksOn(lab')
  PROVE  LabInv'
<1>1. ConfOn(lab', conf')
  BY DEF LabInv, ConfOn
<1>2. slip'.on \in BOOLEAN /\ (~slip'.on => LinksOn(lab'))
  BY DEF LabInv, OnNodes
<1>3. ViewSound'
  BY DEF LabInv, ViewSound
<1> QED BY <1>1, <1>2, <1>3, IdleKeeps

\* create_link.
LEMMA CreateLinkKeeps ==
  ASSUME LabInv, NEW p \in Pairs, CreateLink(p)
  PROVE  LabInv'
<1> DEFINE a == p[1]
           b == p[2]
<1>1. a \in Endpoints /\ b \in Endpoints
  BY PairsConstant
<1>2. /\ Unlocked /\ ~SelfLink(a, b) /\ ~Taken(lab, a, b) /\ Room(lab, a, b)
      /\ \A e \in {a, b} : IsPort(e) => e.id \in lab.nodes
      /\ lab' = Wired(lab, a, b) /\ UNCHANGED <<conf, pair, view, slip>>
  BY DEF CreateLink
<1> HIDE DEF a, b
<1>3. \A l \in lab.links : \A e \in {a, b} \cap Ports : ~Touches(l, e)
  BY <1>2 DEF Taken
<1>4. Sound(lab)
  BY DEF LabInv
<1>5. CASE IsPort(a) /\ IsPort(b)
  <2>1. a \in Ports /\ b \in Ports /\ a # b
    BY <1>1, <1>2, <1>5, EndpointKinds DEF SelfLink
  <2>2. NextLinkId(lab) + 1 <= MaxLink /\ NextNetworkId(lab) <= MaxNet
    <3>1. NextLinkId(lab) < MaxLink /\ NextNetworkId(lab) \in NetIds
      BY <1>2, <1>5 DEF Room
    <3>2. NextLinkId(lab) \in Nat
      BY <1>4, NextLinkIdFresh DEF Sound
    <3> QED BY <3>1, <3>2, LabConstants DEF NetIds
  <2>3. lab' = AddImplicitPair(lab, a, b)
    BY <1>2, <1>5 DEF Wired
  <2>4. Sound(lab')
    BY <1>3, <1>4, <2>1, <2>2, <2>3, AddImplicitPairSound
  <2>5. lab'.nodes = lab.nodes /\ \A l \in lab'.links : l \in lab.links \/ PortOf(l) \in {a, b}
    BY <1>3, <1>4, <2>1, <2>2, <2>3, AddImplicitPairShape
  <2>6. LinksOn(lab) => LinksOn(lab')
    BY <1>2, <2>5 DEF LinksOn
  <2> QED BY <1>2, <2>4, <2>5, <2>6, EditKeeps
<1>6. CASE ~(IsPort(a) /\ IsPort(b))
  <2>1. NextLinkId(lab) <= MaxLink
    BY <1>2, <1>6 DEF Room
  <2>2. lab' = JoinNetwork(lab, a, b)
    BY <1>2, <1>6 DEF Wired
  <2>3. Sound(lab')
    BY <1>1, <1>3, <1>4, <1>6, <2>1, <2>2, JoinNetworkSound
  <2>4. lab'.nodes = lab.nodes /\ \A l \in lab'.links : l \in lab.links \/ PortOf(l) \in {a, b}
    BY <1>1, <1>3, <1>4, <1>6, <2>1, <2>2, JoinNetworkShape
  <2>5. LinksOn(lab) => LinksOn(lab')
    BY <1>2, <2>4 DEF LinksOn
  <2> QED BY <1>2, <2>3, <2>4, <2>5, EditKeeps
<1> QED BY <1>5, <1>6

\* delete_link.
LEMMA DeleteLinkKeeps ==
  ASSUME LabInv, NEW l \in lab.links, DeleteLink(l)
  PROVE  LabInv'
<1>1. Sound(lab') /\ lab'.nodes = lab.nodes /\ lab'.links \subseteq lab.links
  BY RemoveLinkSound, RemoveLinkShape DEF DeleteLink, LabInv
<1>2. LinksOn(lab) => LinksOn(lab')
  BY <1>1 DEF LinksOn
<1> QED BY <1>1, <1>2, EditKeeps DEF DeleteLink

\* create_network and delete_network.
LEMMA NetworkKeeps ==
  ASSUME LabInv, CreateNetwork \/ \E k \in NetIds : DeleteNetwork(k)
  PROVE  LabInv'
<1>1. PICK k \in NetIds, s \in {"explicit", "none"} : lab' = [lab EXCEPT !.nets[k] = s]
  BY DEF CreateNetwork, DeleteNetwork
<1>2. lab' \in Lab /\ lab'.links = lab.links /\ lab'.nodes = lab.nodes
  BY <1>1 DEF LabInv, Sound, Lab
<1>3. Sound(lab')
  BY <1>2, SmallerSound DEF LabInv
<1>4. LinksOn(lab) => LinksOn(lab')
  BY <1>2 DEF LinksOn
<1>5. Unlocked /\ UNCHANGED <<conf, pair, view, slip>>
  BY DEF CreateNetwork, DeleteNetwork
<1> QED BY <1>2, <1>3, <1>4, <1>5, EditKeeps

\* The browser's copy is as sound as the document it was loaded from.
LEMMA LoadKeeps ==
  ASSUME LabInv, Load
  PROVE  LabInv'
<1>1. ViewSound'
  <2>1. /\ lab \in Lab /\ DistinctIds(lab) /\ PortsOnce(lab) /\ conf \in Confs
    BY DEF LabInv, Sound, ConfOn
  <2>2. view' = [links |-> lab.links, conf |-> conf, nodes |-> lab.nodes]
    BY DEF Load
  <2>3. view' \in [links : SUBSET Link, conf : Confs, nodes : SUBSET Nodes]
    BY <2>1, <2>2 DEF Lab
  <2>4. DistinctIds(view') /\ PortsOnce(view')
    BY <2>1, <2>2 DEF DistinctIds, PortsOnce
  <2> QED BY <2>3, <2>4 DEF ViewSound
<1>2. UNCHANGED <<lab, conf, pair, slip>>
  BY DEF Load
<1> QED BY <1>1, <1>2 DEF LabInv, PairTyped, SnapSound, RoomLeft, Coming, OnNodes, PreflightMirrors

\* update_topology, also when it brings back the browser's links.
LEMMA PutTopologyKeeps ==
  ASSUME LabInv, NEW n \in Kept, PutTopology(n)
  PROVE  LabInv'
<1> DEFINE revived == lab.links = {} /\ FromTopology(view.links) # {}
           new == FromTopology(view.links)
<1>1. /\ Unlocked /\ pair' = pair /\ n \in view.nodes
      /\ view' = [view EXCEPT !.conf[n] = 1 - @]
      /\ conf' = [m \in Kept |-> IF m \in view.nodes \cap lab.nodes THEN view'.conf[m] ELSE conf[m]]
      /\ lab' = [lab EXCEPT !.links = IF revived THEN new ELSE @]
      /\ slip' = IF revived /\ ~slip.on THEN [on |-> TRUE, lab |-> lab, conf |-> conf] ELSE slip
  BY DEF PutTopology
<1>2. view \in [links : SUBSET Link, conf : Confs, nodes : SUBSET Nodes]
      /\ DistinctIds(view) /\ PortsOnce(view)
  BY DEF LabInv, ViewSound
<1>3. lab \in Lab /\ Sound(lab) /\ ConfOn(lab, conf) /\ slip.on \in BOOLEAN /\ OnNodes
  BY DEF LabInv, Sound
<1>4. ViewSound'
  <2>1. view.conf \in [Kept -> {0, 1}]
    BY <1>2 DEF Confs
  <2>2. 1 - view.conf[n] \in {0, 1}
    BY <2>1
  <2>3. view'.links = view.links
    BY <1>1, <1>2
  <2>4. view' \in [links : SUBSET Link, conf : Confs, nodes : SUBSET Nodes]
    BY <1>1, <1>2, <2>1, <2>2 DEF Confs
  <2> QED BY <1>2, <2>3, <2>4 DEF ViewSound, DistinctIds, PortsOnce
<1>5. view'.conf \in [Kept -> {0, 1}]
  BY <1>4 DEF ViewSound, Confs
<1> HIDE DEF new
<1>6. new \in SUBSET Link
  <2> DEFINE M == [links |-> new]
  <2>1. M.links = FromTopology(view.links) /\ view.links \in SUBSET Link
    BY <1>2 DEF new
  <2>2. M.links \in SUBSET Link
    BY <1>2, <2>1, RevivedSound
  <2> QED BY <2>2
<1>7. CASE revived
  <2>1. lab' \in Lab /\ lab'.links = new /\ lab'.nodes = lab.nodes
    BY <1>1, <1>3, <1>6, <1>7 DEF Lab
  <2>2. DistinctIds(lab') /\ PortsOnce(lab')
    BY <1>2, <2>1, RevivedSound DEF new
  <2>3. Sound(lab')
    BY <2>1, <2>2 DEF Sound
  <2>4. slip'.on = TRUE
    BY <1>1, <1>3, <1>7
  <2>5. ConfOn(lab', conf')
    BY <1>1, <1>3, <1>5, <2>1 DEF ConfOn, Confs
  <2> QED BY <1>1, <1>4, <2>3, <2>4, <2>5, IdleKeeps
<1>8. CASE ~revived
  <2>1. lab' \in Lab /\ lab'.links = lab.links /\ lab'.nodes = lab.nodes
    BY <1>1, <1>3, <1>8 DEF Lab
  <2>2. Sound(lab')
    BY <1>3, <2>1, SmallerSound
  <2>3. slip' = slip
    BY <1>1, <1>8
  <2>4. ConfOn(lab', conf')
    BY <1>1, <1>3, <1>5, <2>1 DEF ConfOn, Confs
  <2>5. ~slip'.on => LinksOn(lab')
    BY <1>3, <2>1, <2>3 DEF OnNodes, LinksOn
  <2> QED BY <1>1, <1>3, <1>4, <2>2, <2>3, <2>4, <2>5, IdleKeeps
<1> QED BY <1>7, <1>8

------------------------------------------------------------------------------
(* create_nodes_from_paired_template.                                      *)

\* The snapshot is the document, and the children are added.
LEMMA PairBeginKeeps ==
  ASSUME LabInv, NEW t \in Templates, PairBegin(t)
  PROVE  LabInv'
<1>1. /\ Unlocked /\ Preflight(t) /\ PairRoom(lab, t)
      /\ pair' = [pc |-> "link", t |-> t, next |-> 1, made |-> << >>, snap |-> lab, old |-> conf]
      /\ lab' = [lab EXCEPT !.nodes = @ \cup NewIds(lab, Kids(t))]
      /\ conf' = conf /\ view' = view /\ slip' = slip
  BY DEF PairBegin, WithNodes, Kids
<1>2. lab \in Lab /\ Sound(lab) /\ ConfOn(lab, conf) /\ conf \in Confs
  BY DEF LabInv, Sound, ConfOn
<1>3. /\ NewIds(lab, Kids(t)) \subseteq Nodes
      /\ NextLinkId(lab) + 2 * Len(t.wires) <= MaxLink + 1
      /\ NextNetworkId(lab) + Len(t.wires) <= MaxNet + 1
  BY <1>1 DEF PairRoom, Kids
<1>4. /\ pair'.pc = "link" /\ pair'.t = t /\ pair'.next = 1 /\ pair'.made = << >>
      /\ pair'.snap = lab /\ pair'.old = conf
  BY <1>1
<1>5. PairTyped'
  BY <1>1, <1>2 DEF PairTyped
<1>6. /\ lab' \in Lab /\ lab'.links = lab.links /\ lab'.nets = lab.nets
      /\ lab'.nodes = lab.nodes \cup NewIds(lab, Kids(t))
  BY <1>1, <1>2, <1>3 DEF Lab
<1>7. Sound(lab') /\ ConfOn(lab', conf')
  <2>1. Sound(lab')
    BY <1>2, <1>6, SmallerSound
  <2>2. ConfOn(lab', conf')
    BY <1>1, <1>2, <1>6 DEF ConfOn
  <2> QED BY <2>1, <2>2
<1>8. ViewSound' /\ slip'.on \in BOOLEAN
  BY <1>1 DEF LabInv, ViewSound
<1>9. SnapSound'
  BY <1>1, <1>2, <1>3, <1>4 DEF SnapSound
<1>10. RoomLeft'
  <2>1. Len(t.wires) \in Nat
    BY TemplatesConstant DEF Template
  <2>2. Coming' = Len(t.wires)
    BY <1>4, <2>1 DEF Coming
  <2>3. NextLinkId(lab') = NextLinkId(lab) /\ NextNetworkId(lab') = NextNetworkId(lab)
    BY <1>6 DEF NextLinkId, NextNetworkId
  <2> QED BY <1>3, <1>4, <2>1, <2>2, <2>3 DEF RoomLeft
<1>11. OnNodes'
  BY <1>1, <1>4, <1>6 DEF OnNodes, LabInv, LinksOn
<1>12. PreflightMirrors'
  BY <1>4 DEF PreflightMirrors
<1> QED BY <1>5, <1>7, <1>8, <1>9, <1>10, <1>11, <1>12 DEF LabInv

\* One link of the template.
LEMMA PairLinkKeeps ==
  ASSUME LabInv, PairLink
  PROVE  LabInv'
<1> DEFINE t == pair.t
           a == Port(Wire.from)
           b == Port(Wire.to)
<1>1. /\ pair.pc = "link" /\ pair.next <= Len(t.wires) /\ Looked
      /\ ~SelfLink(a, b) /\ ~Taken(lab, a, b)
      /\ lab' = AddImplicitPair(lab, a, b)
      /\ pair' = [pair EXCEPT !.next = @ + 1, !.made = Append(@, NextLinkId(lab))]
      /\ conf' = conf /\ view' = view /\ slip' = slip
  BY DEF PairLink
<1>2. /\ t \in Templates /\ t \in Template /\ Preflight(t) /\ pair.snap \in Lab
      /\ NewIds(pair.snap, Kids(t)) \subseteq Nodes
  BY <1>1, TemplatesConstant DEF LabInv, SnapSound, Sound, PairTyped
<1>3. Len(t.wires) \in Nat /\ pair.next \in Nat \ {0} /\ pair.next \in 1..Len(t.wires)
  <2>1. Len(t.wires) \in Nat
    BY <1>2 DEF Template
  <2>2. pair.next \in Nat \ {0}
    BY DEF LabInv, PairTyped
  <2> QED BY <1>1, <2>1, <2>2
<1>4. a \in Ports /\ b \in Ports /\ a.id \in NewIds(pair.snap, Kids(t)) /\ b.id \in NewIds(pair.snap, Kids(t))
  <2>1. ASSUME NEW e \in {Wire.from, Wire.to}, Found(t, e) # {}
        PROVE  Port(e) \in Ports /\ Port(e).id \in NewIds(pair.snap, Kids(t))
    <3>1. e.child \in 1..Len(t.kids)
      BY <1>2, <1>3, EndsKnown DEF Wire
    <3> QED BY <1>2, <2>1, <3>1, EndPortIsPort DEF Port
  <2> QED BY <1>1, <2>1 DEF Looked
<1>5. a # b
  <2>1. IsPort(a)
    BY <1>4, EndpointKinds
  <2> QED BY <1>1, <2>1 DEF SelfLink
<1> HIDE DEF a, b
<1>6. \A l \in lab.links : \A e \in {a, b} \cap Ports : ~Touches(l, e)
  BY <1>1 DEF Taken
<1>7. Sound(lab) /\ lab \in Lab /\ NextLinkId(lab) \in Nat /\ NextNetworkId(lab) \in Nat
  <2>1. Sound(lab) /\ lab \in Lab
    BY DEF LabInv, Sound
  <2> QED BY <2>1, NextLinkIdFresh, NextNetworkIdFresh
<1>8. /\ NextLinkId(lab) + 2 * Coming <= MaxLink + 1
      /\ NextNetworkId(lab) + Coming <= MaxNet + 1
      /\ Coming \in Nat /\ Coming >= 1
  <2>1. Coming = Len(t.wires) - pair.next + 1
    BY DEF Coming
  <2> QED BY <1>1, <1>3, <2>1 DEF LabInv, RoomLeft
<1>9. NextLinkId(lab) + 1 <= MaxLink /\ NextNetworkId(lab) <= MaxNet
  <2> HIDE DEF Coming
  <2> QED BY <1>7, <1>8, LabConstants
<1>10. Sound(lab')
  BY <1>1, <1>4, <1>5, <1>6, <1>7, <1>9, AddImplicitPairSound
<1>11. /\ lab'.nodes = lab.nodes
       /\ NextLinkId(lab') = NextLinkId(lab) + 2
       /\ NextNetworkId(lab') = NextNetworkId(lab) + 1
       /\ \A l \in lab'.links : l \in lab.links \/ PortOf(l) \in {a, b}
  BY <1>1, <1>4, <1>5, <1>6, <1>7, <1>9, AddImplicitPairShape
<1>12. PairTyped' /\ pair'.pc = "link" /\ pair'.next = pair.next + 1 /\ pair'.t = t
       /\ pair'.snap = pair.snap /\ pair'.old = pair.old
  <2>1. PairTyped
    BY DEF LabInv
  <2> DEFINE made == Append(pair.made, NextLinkId(lab))
             next == pair.next + 1
  <2>2. made \in Seq(Nat)
    BY <1>7, <2>1 DEF PairTyped
  <2>3. next \in Nat \ {0}
    BY <1>3
  <2>4. pair' = [pair EXCEPT !.next = next, !.made = made]
    BY <1>1, <2>1 DEF PairTyped
  <2> HIDE DEF made, next
  <2>5. pair' \in [pc : {"idle", "link", "undo", "unresolved"},
                   t : Templates \cup {NoTemplate}, next : Nat \ {0},
                   made : Seq(Nat), snap : Lab, old : Confs]
    BY <2>1, <2>2, <2>3, <2>4 DEF PairTyped
  <2>6. pair'.pc = "link" /\ pair'.next = next /\ pair'.t = t
        /\ pair'.snap = pair.snap /\ pair'.old = pair.old
    BY <1>1, <2>1, <2>4 DEF PairTyped
  <2> QED BY <2>1, <2>5, <2>6 DEF PairTyped, next
<1>13. ConfOn(lab', conf')
  BY <1>1, <1>11 DEF LabInv, ConfOn
<1>14. ViewSound' /\ slip'.on \in BOOLEAN
  BY <1>1 DEF LabInv, ViewSound
<1>15. SnapSound'
  BY <1>1, <1>12 DEF LabInv, SnapSound
<1>16. RoomLeft'
  <2>1. Coming' = Coming - 1
    BY <1>3, <1>12 DEF Coming
  <2>2. pair'.next <= Len(t.wires) + 1
    BY <1>3, <1>12
  <2> HIDE DEF Coming
  <2>3. /\ NextLinkId(lab') + 2 * Coming' <= MaxLink + 1
        /\ NextNetworkId(lab') + Coming' <= MaxNet + 1
    BY <1>7, <1>8, <1>11, <2>1, LabConstants
  <2> QED BY <1>12, <2>2, <2>3 DEF RoomLeft
<1>17. OnNodes'
  <2>1. SUFFICES ASSUME ~slip.on
                 PROVE  /\ LinksOn(lab') /\ LinksOn(pair.snap)
                        /\ NewIds(pair.snap, Kids(t)) \subseteq lab.nodes
    BY <1>1, <1>11, <1>12 DEF OnNodes
  <2>2. LinksOn(lab) /\ LinksOn(pair.snap) /\ NewIds(pair.snap, Kids(t)) \subseteq lab.nodes
    BY <1>1, <2>1 DEF LabInv, OnNodes
  <2>3. LinksOn(lab')
    BY <1>4, <1>11, <2>2 DEF LinksOn
  <2> QED BY <2>2, <2>3
<1>18. PreflightMirrors'
  BY <1>12 DEF PreflightMirrors
<1> QED BY <1>10, <1>12, <1>13, <1>14, <1>15, <1>16, <1>17, <1>18 DEF LabInv

\* A link fails: by a template that names no interface only if a format is a
\* list.
LEMMA PairLinkFailsKeeps ==
  ASSUME LabInv, PairLinkFails
  PROVE  LabInv'
<1> DEFINE t == pair.t
<1>1. /\ pair.pc = "link" /\ pair.next <= Len(t.wires)
      /\ pair' = [pair EXCEPT !.pc = IF Looked THEN "undo" ELSE "unresolved"]
      /\ lab' = lab /\ conf' = conf /\ view' = view /\ slip' = slip
  BY DEF PairLinkFails
<1>2. PairTyped' /\ pair'.pc = (IF Looked THEN "undo" ELSE "unresolved")
      /\ pair'.t = t /\ pair'.snap = pair.snap /\ pair'.old = pair.old
  <2>1. PairTyped
    BY DEF LabInv
  <2> QED BY <1>1, <2>1 DEF PairTyped
<1>3. ViewSound' /\ SnapSound' /\ RoomLeft' /\ OnNodes'
  <2>1. pair'.pc # "idle" /\ pair'.pc # "link"
    BY <1>2
  <2> QED BY <1>1, <1>2, <2>1 DEF LabInv, ViewSound, SnapSound, RoomLeft, OnNodes
<1>4. PreflightMirrors'
  <2>1. SUFFICES ASSUME ~Looked PROVE \E i \in DOMAIN t.kids : t.kids[i].mode = "list"
    BY <1>2 DEF PreflightMirrors
  <2>2. t \in Template /\ Preflight(t)
    BY <1>1, TemplatesConstant DEF LabInv, SnapSound, PairTyped
  <2>3. pair.next \in 1..Len(t.wires)
    <3>1. Len(t.wires) \in Nat
      BY <2>2 DEF Template
    <3>2. pair.next \in Nat \ {0}
      BY DEF LabInv, PairTyped
    <3> QED BY <1>1, <3>1, <3>2
  <2>4. PICK e \in {Wire.from, Wire.to} : Found(t, e) = {}
    BY <2>1 DEF Looked
  <2>5. e.child \in 1..Len(t.kids) /\ t.kids[e.child].mode = "list"
    BY <2>2, <2>3, <2>4, EndsKnown DEF Wire
  <2>6. DOMAIN t.kids = 1..Len(t.kids)
    BY <2>2 DEF Template
  <2> QED BY <2>5, <2>6
<1> QED BY <1>1, <1>2, <1>3, <1>4 DEF LabInv

\* delete_link of a link made.
LEMMA PairUndoLinkKeeps ==
  ASSUME LabInv, PairUndoLink
  PROVE  LabInv'
<1>1. /\ pair.pc \in {"undo", "unresolved"} /\ pair.made # << >>
      /\ pair' = [pair EXCEPT !.made = Front(@)]
      /\ conf' = conf /\ view' = view /\ slip' = slip
  BY DEF PairUndoLink, Undoing
<1>2. Sound(lab') /\ lab'.nodes = lab.nodes /\ lab'.links \subseteq lab.links
  BY RemoveLinkSound, RemoveLinkShape DEF PairUndoLink, LabInv
<1>3. PairTyped' /\ pair'.pc = pair.pc
      /\ pair'.t = pair.t /\ pair'.snap = pair.snap /\ pair'.old = pair.old
  <2>1. PairTyped
    BY DEF LabInv
  <2>2. pair.made \in Seq(Nat)
    BY <2>1 DEF PairTyped
  <2>3. Front(pair.made) \in Seq(Nat)
    BY <1>1, <2>2 DEF Front
  <2> QED BY <1>1, <2>1, <2>3 DEF PairTyped
<1>4. ConfOn(lab', conf')
  BY <1>1, <1>2 DEF LabInv, ConfOn
<1>5. ViewSound' /\ SnapSound' /\ RoomLeft' /\ PreflightMirrors' /\ slip'.on \in BOOLEAN
  <2>1. pair'.pc # "idle" /\ pair'.pc # "link"
    BY <1>1, <1>3
  <2> QED BY <1>1, <1>3, <2>1 DEF LabInv, ViewSound, SnapSound, RoomLeft, PreflightMirrors
<1>6. OnNodes'
  BY <1>1, <1>2, <1>3 DEF LabInv, OnNodes, LinksOn
<1> QED BY <1>2, <1>3, <1>4, <1>5, <1>6 DEF LabInv

\* The request ends, with the document or with the snapshot.
LEMMA PairEndKeeps ==
  ASSUME LabInv, PairRestore \/ PairDone
  PROVE  LabInv'
<1>1. pair' = IdlePair /\ view' = view /\ slip' = slip /\ pair.pc # "idle"
  BY DEF PairRestore, PairDone, Undoing
<1>2. (lab' = pair.snap /\ conf' = pair.old) \/ (lab' = lab /\ conf' = conf)
  BY DEF PairRestore, PairDone
<1>3. Sound(lab') /\ ConfOn(lab', conf')
  BY <1>1, <1>2 DEF LabInv, SnapSound
<1>4. PairTyped' /\ pair'.pc = "idle"
  BY <1>1, IdlePairTyped DEF PairTyped
<1>5. ~slip'.on => LinksOn(lab')
  BY <1>1, <1>2 DEF LabInv, OnNodes
<1>6. ViewSound' /\ slip'.on \in BOOLEAN
  BY <1>1 DEF LabInv, ViewSound
<1> QED BY <1>3, <1>4, <1>5, <1>6 DEF LabInv, SnapSound, RoomLeft, OnNodes, PreflightMirrors

------------------------------------------------------------------------------
(* The theorems.                                                           *)

\* Every request and every step of the paired request keeps the document.
LEMMA NextKeeps == HandlersInv /\ [Next]_vars => HandlersInv'
<1> SUFFICES ASSUME HandlersInv, [Next]_vars PROVE HandlersInv'
  OBVIOUS
<1>0. LabInv /\ left \in 0..MaxRequests /\ MaxRequests \in Nat
  BY RequestsConstant DEF HandlersInv
<1>1. CASE UNCHANGED vars
  BY <1>1 DEF vars, HandlersInv, LabInv, PairTyped, ViewSound, SnapSound, RoomLeft, Coming,
              OnNodes, PreflightMirrors
<1>2. CASE left > 0 /\ left' = left - 1 /\ Request
  <2>1. left' \in 0..MaxRequests
    BY <1>0, <1>2
  <2>2. LabInv'
    <3>1. ASSUME NEW m \in 1..2, CreateNodes(m) PROVE LabInv'
      BY <1>0, <3>1, CreateNodesKeeps
    <3>2. ASSUME NEW n \in Kept, Update(n) \/ PatchNode(n) \/ PutTopology(n) PROVE LabInv'
      BY <1>0, <3>2, UpdateKeeps, PatchNodeKeeps, PutTopologyKeeps
    <3>3. ASSUME NEW n \in Nodes, DeleteNode(n) PROVE LabInv'
      BY <1>0, <3>3, DeleteNodeKeeps
    <3>4. ASSUME NEW p \in Pairs, CreateLink(p) PROVE LabInv'
      BY <1>0, <3>4, CreateLinkKeeps
    <3>5. ASSUME NEW l \in lab.links, DeleteLink(l) PROVE LabInv'
      BY <1>0, <3>5, DeleteLinkKeeps
    <3>6. ASSUME CreateNetwork \/ \E k \in NetIds : DeleteNetwork(k) PROVE LabInv'
      BY <1>0, <3>6, NetworkKeeps
    <3>7. ASSUME Load PROVE LabInv'
      BY <1>0, <3>7, LoadKeeps
    <3>8. ASSUME NEW t \in Templates, PairBegin(t) PROVE LabInv'
      BY <1>0, <3>8, PairBeginKeeps
    <3> QED BY <1>2, <3>1, <3>2, <3>3, <3>4, <3>5, <3>6, <3>7, <3>8 DEF Request
  <2> QED BY <2>1, <2>2 DEF HandlersInv
<1>3. CASE PairStep /\ UNCHANGED left
  <2>1. LabInv'
    BY <1>0, <1>3, PairLinkKeeps, PairLinkFailsKeeps, PairUndoLinkKeeps, PairEndKeeps DEF PairStep
  <2> QED BY <1>0, <1>3, <2>1 DEF HandlersInv
<1> QED BY <1>1, <1>2, <1>3 DEF Next

\* The invariant holds of every behaviour of the handlers.
LEMMA HandlersInvariant == Spec => []HandlersInv
BY InitHolds, NextKeeps, PTL DEF Spec

\* lab.json keeps its shape whatever requests come and wherever they fall
\* between the links of a paired request (routers/labs.py): link ids are
\* distinct, an interface has one link, fields belong to nodes, and the
\* template in progress passed the pre-flight.
THEOREM DocumentWellFormed == Spec => []HandlersTypeOK
<1>1. HandlersInv => HandlersTypeOK
  <2> SUFFICES ASSUME HandlersInv PROVE HandlersTypeOK
    OBVIOUS
  <2>1. pair.pc \in {"idle", "link", "undo", "unresolved"} /\ pair.snap \in Lab
    BY DEF HandlersInv, LabInv, PairTyped
  <2>2. Preflight(pair.t)
    BY DEF HandlersInv, LabInv, PairTyped
  <2> QED BY <2>1, <2>2 DEF HandlersInv, LabInv, HandlersTypeOK, Sound, ConfOn
<1> QED BY <1>1, HandlersInvariant, PTL

\* A link never names a node that is gone, until a handler slips past the
\* lock: delete_node takes the links of the node, and the restore of the
\* paired request brings back nodes and links together.
THEOREM LinksStayOnNodes == Spec => []LinksOnNodes
<1>1. HandlersInv => LinksOnNodes
  BY DEF HandlersInv, LabInv, OnNodes, LinksOn, LinksOnNodes
<1> QED BY <1>1, HandlersInvariant, PTL

\* A paired template that passed validate_paired_template finds the interface
\* of every link among the names its children were given, whatever handler
\* runs between its links, unless a format is a list.
THEOREM PreflightHolds == Spec => []PreflightMirrors
<1>1. HandlersInv => PreflightMirrors
  BY DEF HandlersInv, LabInv
<1> QED BY <1>1, HandlersInvariant, PTL

------------------------------------------------------------------------------
(***************************************************************************)
(* Whole edits.  Until a handler slips past the lock, the document of a    *)
(* paired request in progress is the snapshot with the children and the    *)
(* links made so far, and every link so far was found.                     *)
(***************************************************************************)
Whole ==
  ~slip.on /\ pair.pc # "idle" =>
    /\ conf = pair.old
    /\ pair.pc = "link" =>
         /\ PairRoom(pair.snap, pair.t)
         /\ lab = PairStages(pair.snap, pair.t)[pair.next - 1]
         /\ \A i \in 1..(pair.next - 1) : /\ Found(pair.t, pair.t.wires[i].from) # {}
                                          /\ Found(pair.t, pair.t.wires[i].to) # {}

\* A property of numbers, given as the set of those that have it.
LEMMA NumberInduction ==
  ASSUME NEW S, 0 \in S, \A m \in Nat : m \in S => m + 1 \in S
  PROVE  \A n \in Nat : n \in S
<1> DEFINE T == {n \in Nat : n \notin S}
<1>1. SUFFICES ASSUME T # {} PROVE FALSE
  OBVIOUS
<1>2. PICK n \in T : \A k \in T : n <= k
  BY <1>1, LeastNumber
<1>3. n # 0 /\ n - 1 \in Nat /\ n - 1 + 1 = n
  BY <1>2
<1>4. n - 1 \in S
  BY <1>2, <1>3
<1>5. n - 1 + 1 \in S
  BY <1>3, <1>4
<1> QED BY <1>2, <1>3, <1>5

\* One stage from the one before.
Stage(g, l, t, i) ==
  IF i = 0 THEN WithNodes(l, Len(t.kids))
  ELSE AddImplicitPair(g[i - 1], EndPort(t, NextNodeId(l), t.wires[i].from),
                       EndPort(t, NextNodeId(l), t.wires[i].to))
Stages(g, l, t, m) == g = [i \in 0..m |-> Stage(g, l, t, i)]

\* The recursion has a solution.
LEMMA StagesExist ==
  ASSUME NEW l, NEW t
  PROVE  \A m \in Nat : \E g : Stages(g, l, t, m)
<1> DEFINE S == {m \in Nat : \E g : Stages(g, l, t, m)}
<1>1. 0 \in S
  <2> DEFINE g0 == [i \in 0..0 |-> WithNodes(l, Len(t.kids))]
  <2>1. Stages(g0, l, t, 0)
    BY DEF Stage, Stages
  <2> HIDE DEF g0
  <2> QED BY <2>1
<1>2. ASSUME NEW m \in Nat, m \in S PROVE m + 1 \in S
  <2>1. PICK g : Stages(g, l, t, m)
    BY <1>2
  <2> DEFINE h == [i \in 0..(m + 1) |-> IF i <= m THEN g[i] ELSE Stage(g, l, t, m + 1)]
  <2>2. ASSUME NEW i \in 0..(m + 1) PROVE h[i] = Stage(h, l, t, i)
    <3>1. \A j \in 0..m : g[j] = Stage(g, l, t, j)
      BY <2>1 DEF Stages
    <3>2. h[i] = Stage(g, l, t, i)
      <4>1. CASE i <= m
        <5>1. i \in 0..m
          BY <4>1
        <5> QED BY <3>1, <4>1, <5>1
      <4>2. CASE i = m + 1
        BY <4>2
      <4> QED BY <4>1, <4>2
    <3>3. i # 0 => h[i - 1] = g[i - 1]
      OBVIOUS
    <3> QED BY <3>2, <3>3 DEF Stage
  <2>3. Stages(h, l, t, m + 1)
    <3> DEFINE k == [i \in 0..(m + 1) |-> Stage(h, l, t, i)]
    <3>1. DOMAIN h = 0..(m + 1) /\ \A i \in 0..(m + 1) : h[i] = k[i]
      BY <2>2
    <3>2. h = k
      BY <3>1
    <3> QED BY <3>2 DEF Stages
  <2> HIDE DEF h
  <2> QED BY <2>3
<1> HIDE DEF S
<1>3. \A m \in Nat : m \in S
  BY <1>1, <1>2, NumberInduction
<1> QED BY <1>3 DEF S

\* The stages of a paired request: the children, then one link after another.
LEMMA StagesStep ==
  ASSUME NEW l, NEW t \in Template
  PROVE  /\ PairStages(l, t)[0] = WithNodes(l, Kids(t))
         /\ \A i \in 1..Len(t.wires) :
              PairStages(l, t)[i] = AddImplicitPair(PairStages(l, t)[i - 1],
                                      EndPort(t, NextNodeId(l), t.wires[i].from),
                                      EndPort(t, NextNodeId(l), t.wires[i].to))
<1> DEFINE n == Len(t.wires)
           s == PairStages(l, t)
<1>1. n \in Nat
  BY DEF Template
<1>2. \E g : Stages(g, l, t, n)
  <2> HIDE DEF n
  <2> QED BY <1>1, StagesExist
<1>3. s = CHOOSE g : Stages(g, l, t, n)
  BY DEF PairStages, Stage, Stages
<1> HIDE DEF s, n
<1>4. Stages(s, l, t, n)
  BY <1>2, <1>3
<1>5. \A i \in 0..n : s[i] = Stage(s, l, t, i)
  BY <1>4 DEF Stages
<1>6. 0 \in 0..n /\ \A i \in 1..n : i \in 0..n /\ i # 0
  BY <1>1
<1>7. s[0] = WithNodes(l, Kids(t))
  BY <1>5, <1>6 DEF Stage, Kids
<1>8. ASSUME NEW i \in 1..n
      PROVE  s[i] = AddImplicitPair(s[i - 1], EndPort(t, NextNodeId(l), t.wires[i].from),
                                    EndPort(t, NextNodeId(l), t.wires[i].to))
  BY <1>5, <1>6 DEF Stage
<1> QED BY <1>7, <1>8 DEF s, n

\* The stages survive every step until a handler slips past the lock.
LEMMA WholeKeeps == HandlersInv /\ Whole /\ [Next]_vars => Whole'
<1> SUFFICES ASSUME HandlersInv, Whole, [Next]_vars PROVE Whole'
  OBVIOUS
<1> USE DEF Whole
<1>1. CASE UNCHANGED vars
  BY <1>1 DEF vars
<1>2. CASE \E t \in Templates : PairBegin(t)
  <2>1. PICK t \in Templates : PairBegin(t)
    BY <1>2
  <2>2. /\ pair'.pc = "link" /\ pair'.t = t /\ pair'.next = 1 /\ pair'.snap = lab /\ pair'.old = conf
        /\ conf' = conf /\ PairRoom(lab, t) /\ lab' = WithNodes(lab, Kids(t))
    BY <2>1 DEF PairBegin, Kids
  <2>3. t \in Template
    BY TemplatesConstant
  <2>4. lab' = PairStages(lab, t)[0]
    BY <2>2, <2>3, StagesStep
  <2>5. 1 - 1 = 0 /\ 1..0 = {}
    OBVIOUS
  <2> QED BY <2>2, <2>4, <2>5
<1>3. CASE PairLink
  <2> DEFINE t == pair.t
             k == pair.next
  <2>1. /\ pair.pc = "link" /\ k <= Len(t.wires) /\ Looked
        /\ lab' = AddImplicitPair(lab, Port(Wire.from), Port(Wire.to))
        /\ pair' = [pair EXCEPT !.next = @ + 1, !.made = Append(@, NextLinkId(lab))]
        /\ conf' = conf /\ slip' = slip
    BY <1>3 DEF PairLink
  <2>2. PairTyped /\ t \in Template
    BY <2>1, TemplatesConstant DEF HandlersInv, LabInv, SnapSound
  <2>3. /\ pair'.pc = pair.pc /\ pair'.t = t /\ pair'.snap = pair.snap /\ pair'.old = pair.old
        /\ pair'.next = k + 1 /\ k \in Nat \ {0}
    BY <2>1, <2>2 DEF PairTyped
  <2>4. Len(t.wires) \in Nat
    BY <2>2 DEF Template
  <2>5. k \in 1..Len(t.wires) /\ pair'.next - 1 = k
    BY <2>1, <2>3, <2>4
  <2>6. SUFFICES ASSUME ~slip.on
                 PROVE  /\ lab' = PairStages(pair.snap, t)[k]
                        /\ \A i \in 1..k : Found(t, t.wires[i].from) # {} /\ Found(t, t.wires[i].to) # {}
    BY <2>1, <2>3, <2>5
  <2>7. /\ lab = PairStages(pair.snap, t)[k - 1]
        /\ \A i \in 1..(k - 1) : Found(t, t.wires[i].from) # {} /\ Found(t, t.wires[i].to) # {}
    BY <2>1, <2>6
  <2>8. Port(Wire.from) = EndPort(t, NextNodeId(pair.snap), t.wires[k].from)
        /\ Port(Wire.to) = EndPort(t, NextNodeId(pair.snap), t.wires[k].to)
        /\ Found(t, t.wires[k].from) # {} /\ Found(t, t.wires[k].to) # {}
    BY <2>1 DEF Port, Wire, Looked
  <2> HIDE DEF k
  <2>9. lab' = PairStages(pair.snap, t)[k]
    BY <2>1, <2>2, <2>5, <2>7, <2>8, StagesStep
  <2>10. \A i \in 1..k : i \in 1..(k - 1) \/ i = k
    BY <2>3
  <2> QED BY <2>7, <2>8, <2>9, <2>10
<1>4. CASE PairLinkFails \/ PairUndoLink
  <2>1. PairTyped
    BY DEF HandlersInv, LabInv
  <2>2. /\ pair'.pc # "link" /\ pair.pc # "idle" /\ pair'.old = pair.old
        /\ conf' = conf /\ slip' = slip
    BY <1>4, <2>1 DEF PairLinkFails, PairUndoLink, Undoing, PairTyped
  <2> QED BY <2>2
<1>5. CASE PairRestore \/ PairDone
  BY <1>5, IdlePairTyped DEF PairRestore, PairDone
<1>6. CASE \/ \E m \in 1..2 : CreateNodes(m)
           \/ \E n \in Kept : Update(n)
           \/ \E n \in Nodes : DeleteNode(n)
  <2>1. pair' = pair /\ SlipsPast
    BY <1>6 DEF CreateNodes, Update, DeleteNode
  <2>2. ~slip'.on => pair.pc = "idle"
    BY <2>1 DEF SlipsPast, Unlocked
  <2> QED BY <2>1, <2>2
<1>7. CASE \/ \E n \in Kept : PatchNode(n) \/ PutTopology(n)
           \/ \E p \in Pairs : CreateLink(p)
           \/ \E l \in lab.links : DeleteLink(l)
           \/ CreateNetwork \/ \E k \in NetIds : DeleteNetwork(k)
  <2>1. pair' = pair /\ pair.pc = "idle"
    BY <1>7 DEF PatchNode, PutTopology, CreateLink, DeleteLink, CreateNetwork, DeleteNetwork, Unlocked
  <2> QED BY <2>1
<1>8. CASE Load
  BY <1>8 DEF Load
<1> QED BY <1>1, <1>2, <1>3, <1>4, <1>5, <1>6, <1>7, <1>8 DEF Next, Request, PairStep

\* The whole stages hold of every behaviour.
LEMMA WholeInvariant == Spec => [](HandlersInv /\ Whole)
<1>1. Init => Whole
  BY IdlePairTyped DEF Init, Whole
<1> QED BY <1>1, InitHolds, NextKeeps, WholeKeeps, PTL DEF Spec

------------------------------------------------------------------------------
(* The edits of LabDocument are those of the handlers.                     *)

\* Ids and endpoints.
LEMMA SameBasics ==
  /\ Promised!EmptyLab = EmptyLab /\ Promised!NoConf = NoConf /\ Promised!Confs = Confs
  /\ Promised!NetIds = NetIds /\ Promised!Ports = Ports
  /\ \A n, i : Promised!NodeEp(n, i) = NodeEp(n, i)
  /\ \A k : Promised!NetEp(k) = NetEp(k)
  /\ \A e : Promised!IsPort(e) <=> IsPort(e)
  /\ \A l, e : Promised!Touches(l, e) <=> Touches(l, e)
<1>1. Promised!NetIds = NetIds
  BY DEF NetIds, Promised!NetIds
<1>2. \A n, i : Promised!NodeEp(n, i) = NodeEp(n, i)
  BY DEF NodeEp, Promised!NodeEp
<1>3. Promised!Ports = Ports
  BY <1>2 DEF Ports, Promised!Ports
<1>4. Promised!NoConf = NoConf /\ Promised!Confs = Confs
  BY DEF NoConf, Promised!NoConf, Confs, Promised!Confs
<1>5. Promised!EmptyLab = EmptyLab
  BY <1>1 DEF EmptyLab, Promised!EmptyLab
<1>6. \A k : Promised!NetEp(k) = NetEp(k)
  BY DEF NetEp, Promised!NetEp
<1>7. \A e : Promised!IsPort(e) <=> IsPort(e)
  BY DEF IsPort, Promised!IsPort
<1>8. \A l, e : Promised!Touches(l, e) <=> Touches(l, e)
  BY DEF Touches, Promised!Touches
<1> QED BY <1>1, <1>2, <1>3, <1>4, <1>5, <1>6, <1>7, <1>8

\* The next ids.
LEMMA SameIds ==
  /\ \A L : Promised!NextLinkId(L) = NextLinkId(L)
  /\ \A L : Promised!NextNetworkId(L) = NextNetworkId(L)
  /\ \A L : Promised!NextNodeId(L) = NextNodeId(L)
  /\ \A L, m : Promised!NewIds(L, m) = NewIds(L, m)
<1>1. \A S : Promised!NextAfter(S) = NextAfter(S)
  BY DEF NextAfter, Promised!NextAfter, Max, Promised!Max
<1>2. \A L : Promised!NextLinkId(L) = NextLinkId(L)
  BY <1>1 DEF NextLinkId, Promised!NextLinkId
<1>3. \A L : Promised!NextNetworkId(L) = NextNetworkId(L)
  BY <1>1, SameBasics DEF NextNetworkId, Promised!NextNetworkId
<1>4. \A L : Promised!NextNodeId(L) = NextNodeId(L)
  BY <1>1 DEF NextNodeId, Promised!NextNodeId
<1>5. \A L, m : Promised!NewIds(L, m) = NewIds(L, m)
  BY <1>4 DEF NewIds, Promised!NewIds
<1> QED BY <1>2, <1>3, <1>4, <1>5

\* The edits of links and networks.
LEMMA SameLinkEdits ==
  /\ \A L, a, b : Promised!AddImplicitPair(L, a, b) = AddImplicitPair(L, a, b)
  /\ \A L, a, b : Promised!JoinNetwork(L, a, b) = JoinNetwork(L, a, b)
  /\ \A L, l : Promised!RemoveLink(L, l) = RemoveLink(L, l)
  /\ \A L, k : Promised!RefCount(L, k) = RefCount(L, k)
  /\ \A a, b : Promised!TargetNet(a, b) = TargetNet(a, b)
<1>1. \A L, a, b : Promised!AddLink(L, a, b) = AddLink(L, a, b)
  BY SameIds DEF AddLink, Promised!AddLink
<1>2. \A L, a, b : Promised!AddImplicitPair(L, a, b) = AddImplicitPair(L, a, b)
  BY <1>1, SameIds, SameBasics DEF AddImplicitPair, Promised!AddImplicitPair
<1>3. \A L, k : Promised!RefCount(L, k) = RefCount(L, k)
  <2>1. \A S : Promised!Cardinality(S) = Cardinality(S)
    BY DEF Cardinality, Promised!Cardinality, IsFiniteSet, Promised!IsFiniteSet
  <2> QED BY <2>1, SameBasics DEF RefCount, Promised!RefCount
<1>4. \A a, b : Promised!TargetNet(a, b) = TargetNet(a, b)
  BY SameBasics DEF TargetNet, Promised!TargetNet
<1>5. \A L, k : Promised!Promote(L, k) = Promote(L, k)
  BY <1>3 DEF Promote, Promised!Promote
<1>6. \A L, a, b : Promised!JoinNetwork(L, a, b) = JoinNetwork(L, a, b)
  BY <1>1, <1>4, <1>5 DEF JoinNetwork, Promised!JoinNetwork
<1>7. \A L, S : Promised!DropLinks(L, S) = DropLinks(L, S)
  BY DEF DropLinks, Promised!DropLinks
<1>8. \A L, e : Promised!DropOrphanHalf(L, e) = DropOrphanHalf(L, e)
  BY <1>3, <1>7, SameBasics DEF DropOrphanHalf, Promised!DropOrphanHalf
<1>9. \A L, e : Promised!CollectNetwork(L, e) = CollectNetwork(L, e)
  BY <1>3 DEF CollectNetwork, Promised!CollectNetwork
<1>10. \A L, l : Promised!RemoveLink(L, l) = RemoveLink(L, l)
  BY <1>7, <1>8, <1>9 DEF RemoveLink, Promised!RemoveLink
<1> QED BY <1>2, <1>3, <1>4, <1>6, <1>10

\* The edits of nodes and fields, and what a link asks for.
LEMMA SameNodeEdits ==
  /\ \A L, m : Promised!WithNodes(L, m) = WithNodes(L, m)
  /\ \A L, n : Promised!WithoutNode(L, n) = WithoutNode(L, n)
  /\ \A c, n : Promised!Cleared(c, n) = Cleared(c, n)
  /\ \A L, a, b : Promised!Wired(L, a, b) = Wired(L, a, b)
  /\ \A L, a, b : Promised!Taken(L, a, b) <=> Taken(L, a, b)
  /\ \A L, a, b : Promised!Room(L, a, b) <=> Room(L, a, b)
  /\ \A L, t : Promised!PairRoom(L, t) <=> PairRoom(L, t)
<1>1. \A L, m : Promised!WithNodes(L, m) = WithNodes(L, m)
  BY SameIds DEF WithNodes, Promised!WithNodes
<1>2. \A L, n : Promised!WithoutNode(L, n) = WithoutNode(L, n)
  BY SameBasics DEF WithoutNode, Promised!WithoutNode
<1>3. \A c, n : Promised!Cleared(c, n) = Cleared(c, n)
  BY DEF Cleared, Promised!Cleared
<1>4. \A L, a, b : Promised!Wired(L, a, b) = Wired(L, a, b)
  BY SameBasics, SameLinkEdits DEF Wired, Promised!Wired
<1>5. \A L, a, b : Promised!Taken(L, a, b) <=> Taken(L, a, b)
  BY SameBasics DEF Taken, Promised!Taken
<1>6. \A L, a, b : Promised!Room(L, a, b) <=> Room(L, a, b)
  BY SameBasics, SameIds, SameLinkEdits DEF Room, Promised!Room
<1>7. \A L, t : Promised!PairRoom(L, t) <=> PairRoom(L, t)
  BY SameIds DEF PairRoom, Promised!PairRoom
<1> QED BY <1>1, <1>2, <1>3, <1>4, <1>5, <1>6, <1>7

\* The children of a template and its links.
LEMMA SameTemplates ==
  /\ \A t : Promised!Resolvable(t) <=> Resolvable(t)
  /\ \A t, n, e : Promised!EndPort(t, n, e) = EndPort(t, n, e)
<1>1. \A t, e : Promised!Found(t, e) = Found(t, e)
  BY DEF Found, Promised!Found, Assigned, Promised!Assigned, Indices, Promised!Indices,
         RenderName, Promised!RenderName, DefaultName, Promised!DefaultName, Name, Promised!Name
<1>2. \A t : Promised!Ends(t) = Ends(t)
  BY DEF Ends, Promised!Ends, Range, Promised!Range
<1>3. \A t : Promised!Resolvable(t) <=> Resolvable(t)
  BY <1>1, <1>2 DEF Resolvable, Promised!Resolvable
<1>4. \A t, e : Promised!Resolve(t, e) = Resolve(t, e)
  BY <1>1 DEF Resolve, Promised!Resolve
<1>5. \A t, n, e : Promised!EndPort(t, n, e) = EndPort(t, n, e)
  BY <1>4, SameBasics DEF EndPort, Promised!EndPort
<1> QED BY <1>3, <1>5

\* All children and all links.
LEMMA SameWithPair == \A L, t : Promised!WithPair(L, t) = WithPair(L, t)
<1>1. \A L, t : Promised!PairStages(L, t) = PairStages(L, t)
  BY SameIds, SameNodeEdits, SameLinkEdits, SameTemplates DEF PairStages, Promised!PairStages
<1> QED BY <1>1 DEF WithPair, Promised!WithPair

------------------------------------------------------------------------------
(* The refinement.                                                         *)

\* What the users have been promised.
PromisedLab  == IF slip.on THEN slip.lab ELSE IF Unlocked THEN lab ELSE pair.snap
PromisedConf == IF slip.on THEN slip.conf ELSE IF Unlocked THEN conf ELSE pair.old

\* A request while nothing is in progress and nothing has slipped past.
LEMMA RequestRefines ==
  ASSUME HandlersInv, HandlersInv', ~slip.on, ~slip'.on, Unlocked, Request, pair' = pair
  PROVE  Promised!Next \/ UNCHANGED <<lab, conf>>
<1>1. Unlocked'
  BY DEF Unlocked
<1>3. CASE \E m \in 1..2 : CreateNodes(m)
  <2>1. \E m \in 1..2 : NewIds(lab, m) \subseteq Nodes /\ lab' = WithNodes(lab, m) /\ conf' = conf
    BY <1>3 DEF CreateNodes
  <2>2. Promised!AddNodes
    BY <1>1, <2>1, SameIds, SameNodeEdits DEF Promised!AddNodes
  <2> QED BY <2>2 DEF Promised!Next
<1>4. CASE lab' = lab
  <2>1. conf' \in Confs /\ \A n \in Kept \ (lab.nodes \cup {0}) : conf'[n] = 0
    BY <1>4 DEF HandlersInv, LabInv, ConfOn
  <2>2. Promised!Store
    BY <1>1, <1>4, <2>1, SameBasics DEF Promised!Store
  <2> QED BY <2>2 DEF Promised!Next
<1>5. CASE \E n \in Nodes : DeleteNode(n)
  <2>1. \E n \in lab.nodes : lab' = WithoutNode(lab, n) /\ conf' = Cleared(conf, n)
    BY <1>5 DEF DeleteNode
  <2>2. Promised!RemoveNode
    BY <1>1, <2>1, SameNodeEdits DEF Promised!RemoveNode
  <2> QED BY <2>2 DEF Promised!Next
<1>6. CASE \E p \in Pairs : CreateLink(p)
  <2>1. \E p \in Pairs : /\ ~Taken(lab, p[1], p[2]) /\ Room(lab, p[1], p[2])
                         /\ lab' = Wired(lab, p[1], p[2]) /\ conf' = conf
    BY <1>6 DEF CreateLink
  <2>2. Promised!Wire
    BY <1>1, <2>1, SameNodeEdits DEF Promised!Wire
  <2> QED BY <2>2 DEF Promised!Next
<1>7. CASE \E l \in lab.links : DeleteLink(l)
  <2>1. \E l \in lab.links : lab' = RemoveLink(lab, l) /\ conf' = conf
    BY <1>7 DEF DeleteLink
  <2>2. Promised!Unwire
    BY <1>1, <2>1, SameLinkEdits DEF Promised!Unwire
  <2> QED BY <2>2 DEF Promised!Next
<1>8. CASE CreateNetwork
  <2>1. /\ NextNetworkId(lab) \in NetIds /\ conf' = conf
        /\ lab' = [lab EXCEPT !.nets[NextNetworkId(lab)] = "explicit"]
    BY <1>8 DEF CreateNetwork
  <2>2. Promised!AddNetwork
    BY <1>1, <2>1, SameIds, SameBasics DEF Promised!AddNetwork
  <2> QED BY <2>2 DEF Promised!Next
<1>9. CASE \E k \in NetIds : DeleteNetwork(k)
  <2>1. \E k \in NetIds : /\ lab.nets[k] = "explicit" /\ RefCount(lab, k) = 0
                          /\ lab' = [lab EXCEPT !.nets[k] = "none"] /\ conf' = conf
    BY <1>9 DEF DeleteNetwork
  <2>2. Promised!RemoveNetwork
    BY <1>1, <2>1, SameLinkEdits, SameBasics DEF Promised!RemoveNetwork
  <2> QED BY <2>2 DEF Promised!Next
<1>10. CASE \E n \in Kept : Update(n) \/ PatchNode(n)
  <2>1. lab' = lab
    BY <1>10 DEF Update, PatchNode
  <2> QED BY <1>4, <2>1
<1>11. CASE \E n \in Kept : PutTopology(n)
  <2>1. lab \in Lab /\ slip.on \in BOOLEAN
    BY DEF HandlersInv, LabInv, Sound
  <2> DEFINE revived == lab.links = {} /\ FromTopology(view.links) # {}
  <2>2. /\ lab' = [lab EXCEPT !.links = IF revived THEN FromTopology(view.links) ELSE @]
        /\ slip' = IF revived /\ ~slip.on THEN [on |-> TRUE, lab |-> lab, conf |-> conf] ELSE slip
    BY <1>11 DEF PutTopology
  <2>3. ~revived
    BY <2>2
  <2>4. lab' = lab
    BY <2>1, <2>2, <2>3 DEF Lab
  <2> QED BY <1>4, <2>4
<1>12. CASE Load
  BY <1>12 DEF Load
<1>13. ASSUME NEW t \in Templates, PairBegin(t) PROVE FALSE
  BY <1>1, <1>13 DEF PairBegin, Unlocked
<1> QED BY <1>3, <1>5, <1>6, <1>7, <1>8, <1>9, <1>10, <1>11, <1>12, <1>13 DEF Request

\* The paired request ends well: all children and all links at once.
LEMMA PairDoneRefines ==
  ASSUME HandlersInv, Whole, ~slip.on, PairDone
  PROVE  Promised!Next
<1> DEFINE t == pair.t
<1>1. /\ pair.pc = "link" /\ pair.next > Len(t.wires) /\ pair' = IdlePair
      /\ lab' = lab /\ conf' = conf /\ slip' = slip
  BY DEF PairDone
<1>2. t \in Templates /\ t \in Template /\ Preflight(t) /\ pair.next \in Nat
  BY <1>1, TemplatesConstant DEF HandlersInv, LabInv, SnapSound, PairTyped
<1>3. Len(t.wires) \in Nat
  BY <1>2 DEF Template
<1>4. pair.next - 1 = Len(t.wires)
  BY <1>1, <1>2, <1>3 DEF HandlersInv, LabInv, RoomLeft
<1>5. /\ conf = pair.old /\ PairRoom(pair.snap, t) /\ lab = WithPair(pair.snap, t)
      /\ \A i \in 1..Len(t.wires) : Found(t, t.wires[i].from) # {} /\ Found(t, t.wires[i].to) # {}
  BY <1>1, <1>4 DEF Whole, WithPair
<1>6. Resolvable(t)
  <2>1. SUFFICES ASSUME NEW e \in Ends(t) PROVE e.child \in DOMAIN t.kids /\ Found(t, e) # {}
    BY DEF Resolvable
  <2>2. PICK w \in Range(t.wires) : e \in {w.from, w.to}
    BY DEF Ends
  <2>3. PICK i \in 1..Len(t.wires) : w = t.wires[i]
    BY <1>2, <2>2 DEF Range, Template
  <2>4. e.child \in DOMAIN t.kids
    BY <1>2 DEF Preflight
  <2> QED BY <1>5, <2>2, <2>3, <2>4
<1>7. ~Unlocked /\ Unlocked' /\ ~slip'.on
  BY <1>1, IdlePairTyped DEF Unlocked
<1>8. \E u \in Templates : /\ Resolvable(u) /\ PairRoom(pair.snap, u)
                           /\ lab' = WithPair(pair.snap, u) /\ conf' = pair.old
  BY <1>1, <1>2, <1>5, <1>6
<1>9. Promised!AddPair
  BY <1>7, <1>8, SameWithPair, SameTemplates, SameNodeEdits DEF Promised!AddPair
<1> QED BY <1>9 DEF Promised!Next

\* Every step is an edit of the promised document, or leaves it alone.
LEMMA StepRefines ==
  HandlersInv /\ HandlersInv' /\ Whole /\ [Next]_vars => [Promised!Next]_(Promised!document)
<1> SUFFICES ASSUME HandlersInv, HandlersInv', Whole, [Next]_vars
             PROVE  Promised!Next \/ UNCHANGED <<PromisedLab, PromisedConf>>
  BY DEF Promised!document, PromisedLab, PromisedConf
<1>0. slip.on \in BOOLEAN /\ PairTyped
  BY DEF HandlersInv, LabInv
<1>1. CASE UNCHANGED vars
  BY <1>1 DEF vars, PromisedLab, PromisedConf, Unlocked
<1>2. CASE slip.on
  <2>1. slip' = slip
    BY <1>2 DEF Next, vars, Request, PairStep, CreateNodes, Update, DeleteNode, PatchNode, CreateLink,
                DeleteLink, CreateNetwork, DeleteNetwork, Load, PutTopology, PairBegin, PairLink,
                PairLinkFails, PairUndoLink, PairRestore, PairDone, SlipsPast
  <2> QED BY <1>2, <2>1 DEF PromisedLab, PromisedConf
<1>3. CASE ~slip.on /\ Unlocked /\ Request
  <2>1. CASE \E t \in Templates : PairBegin(t)
    <3>1. slip' = slip /\ pair'.pc = "link" /\ pair'.snap = lab /\ pair'.old = conf
      BY <2>1 DEF PairBegin
    <3> QED BY <1>3, <3>1 DEF PromisedLab, PromisedConf, Unlocked
  <2>2. CASE pair' = pair /\ ~slip'.on
    <3>1. Promised!Next \/ UNCHANGED <<lab, conf>>
      BY <1>3, <2>2, RequestRefines
    <3> QED BY <1>3, <2>2, <3>1 DEF PromisedLab, PromisedConf, Unlocked
  <2>3. CASE pair' = pair /\ slip'.on
    <3>1. slip' = slip \/ slip' = [on |-> TRUE, lab |-> lab, conf |-> conf]
      BY <1>3, <2>3 DEF Request, CreateNodes, Update, DeleteNode, PatchNode, CreateLink,
                DeleteLink, CreateNetwork, DeleteNetwork, Load, PutTopology, PairBegin, SlipsPast
    <3>2. slip'.lab = lab /\ slip'.conf = conf
      BY <1>3, <2>3, <3>1
    <3> QED BY <1>3, <2>3, <3>2 DEF PromisedLab, PromisedConf
  <2>4. pair' = pair \/ \E t \in Templates : PairBegin(t)
    BY <1>3 DEF Request, CreateNodes, Update, DeleteNode, PatchNode, CreateLink,
                DeleteLink, CreateNetwork, DeleteNetwork, Load, PutTopology
  <2> QED BY <2>1, <2>2, <2>3, <2>4
<1>4. CASE ~slip.on /\ ~Unlocked /\ Request
  <2>1. pair' = pair /\ (Load \/ SlipsPast)
    BY <1>4 DEF Request, CreateNodes, Update, DeleteNode, PatchNode, CreateLink,
                DeleteLink, CreateNetwork, DeleteNetwork, Load, PutTopology, PairBegin
  <2>2. CASE Load
    BY <1>4, <2>1, <2>2 DEF Load, PromisedLab, PromisedConf, Unlocked
  <2>3. CASE SlipsPast
    <3>1. slip' = [on |-> TRUE, lab |-> pair.snap, conf |-> pair.old]
      BY <1>4, <2>3 DEF SlipsPast
    <3> QED BY <1>4, <3>1 DEF PromisedLab, PromisedConf
  <2> QED BY <2>1, <2>2, <2>3
<1>5. CASE ~slip.on /\ PairStep
  <2>1. CASE PairLink \/ PairLinkFails \/ PairUndoLink
    <3>1. /\ slip' = slip /\ pair.pc # "idle" /\ pair'.pc # "idle"
          /\ pair'.snap = pair.snap /\ pair'.old = pair.old
      BY <1>0, <2>1 DEF PairLink, PairLinkFails, PairUndoLink, Undoing, PairTyped
    <3> QED BY <1>5, <3>1 DEF PromisedLab, PromisedConf, Unlocked
  <2>2. CASE PairRestore
    <3>1. /\ slip' = slip /\ pair.pc # "idle" /\ pair'.pc = "idle"
          /\ lab' = pair.snap /\ conf' = pair.old
      BY <2>2, IdlePairTyped DEF PairRestore, Undoing
    <3> QED BY <1>5, <3>1 DEF PromisedLab, PromisedConf, Unlocked
  <2>3. CASE PairDone
    BY <1>5, <2>3, PairDoneRefines
  <2> QED BY <1>5, <2>1, <2>2, <2>3 DEF PairStep
<1> QED BY <1>1, <1>2, <1>3, <1>4, <1>5 DEF Next

\* create_nodes_from_paired_template is a transaction, and every other
\* handler a single edit: LabHandlers implements LabDocument.  Whatever link
\* of a template fails and whatever fails while it is undone, and whatever
\* requests come in between, lab.json moves from one whole edit to the next,
\* until a handler that takes no lock runs between two links.
THEOREM EditsAreWhole == Spec => WholeEdits
<1>1. Init => Promised!Init
  <2> SUFFICES ASSUME Init PROVE Promised!Init
    OBVIOUS
  <2>1. slip.on = FALSE /\ pair.pc = "idle" /\ lab = EmptyLab /\ conf = NoConf
    BY IdlePairTyped DEF Init
  <2> QED BY <2>1, SameBasics DEF Promised!Init, Unlocked
<1>2. Spec => [](HandlersInv /\ Whole)
  BY WholeInvariant
<1> QED BY <1>1, <1>2, StepRefines, PTL DEF Spec, WholeEdits, Promised!Spec
==============================================================================
