---------------------------- MODULE LabJsonProofs ----------------------------
(***************************************************************************)
(* What the edits of LabJson preserve, for every lab document: it stays    *)
(* well-formed, a link id names one link, and a port ends one link.        *)
(***************************************************************************)
EXTENDS LabJson, TLAPS, FiniteSetTheorems

\* A non-empty set of numbers has a smallest member.
LEMMA LeastNumber ==
  ASSUME NEW S \in SUBSET Nat, S # {}
  PROVE  \E m \in S : \A n \in S : m <= n
<1> DEFINE R == OpToRel(<, Nat)
<1>1. \A x, y \in Nat : y < x => <<y, x>> \in R
  BY DEF OpToRel
<1>2. IsWellFoundedOn(R, Nat)
  BY NatLessThanWellFounded
<1> HIDE DEF R
<1>3. PICK m \in S : \A n \in S : ~(<<n, m>> \in R)
  BY <1>2, WFMin
<1>4. ASSUME NEW n \in S PROVE m <= n
  <2>1. m \in Nat /\ n \in Nat
    OBVIOUS
  <2>2. ~(n < m)
    BY <1>1, <1>3, <2>1
  <2> QED BY <2>1, <2>2
<1> QED BY <1>4

\* A bounded non-empty set of numbers has a largest member, which Max picks.
LEMMA MaxOfBounded ==
  ASSUME NEW N \in Nat, NEW S \in SUBSET (0..N), S # {}
  PROVE  Max(S) \in S /\ \A x \in S : x <= Max(S)
<1> DEFINE U == {n \in 0..N : \A x \in S : x <= n}
<1>1. U \in SUBSET Nat /\ U # {}
  <2>1. N \in U
    OBVIOUS
  <2> QED BY <2>1
<1>2. PICK m \in U : \A n \in U : m <= n
  <2> HIDE DEF U
  <2> QED BY <1>1, LeastNumber
<1>3. m \in S
  <2>1. SUFFICES ASSUME m \notin S PROVE FALSE
    OBVIOUS
  <2>2. PICK x \in S : TRUE
    OBVIOUS
  <2>3. m # 0
    BY <2>1, <2>2
  <2>4. m - 1 \in U
    BY <2>1, <2>3
  <2> QED BY <1>2, <2>4
<1>4. \E x \in S : \A y \in S : x >= y
  BY <1>3
<1> QED BY <1>4 DEF Max

\* The next id is larger than every id in use.
LEMMA NextAfterFresh ==
  ASSUME NEW N \in Nat, NEW S \in SUBSET (1..N)
  PROVE  /\ NextAfter(S) \in 1..(N + 1)
         /\ \A x \in S : x < NextAfter(S)
<1>1. CASE S = {}
  BY <1>1 DEF NextAfter
<1>2. CASE S # {}
  <2>1. Max(S) \in S /\ \A x \in S : x <= Max(S)
    BY <1>2, MaxOfBounded
  <2>2. NextAfter(S) = Max(S) + 1
    BY <1>2 DEF NextAfter
  <2>3. Max(S) \in 1..N
    BY <2>1
  <2> HIDE <1>2
  <2> QED BY <2>1, <2>2, <2>3
<1> QED BY <1>1, <1>2

\* Adding the next id moves the next id by one.
LEMMA NextAfterAdded ==
  ASSUME NEW N \in Nat, NEW S \in SUBSET (1..N)
  PROVE  NextAfter(S \cup {NextAfter(S)}) = NextAfter(S) + 1
<1> DEFINE n == NextAfter(S)
           T == S \cup {n}
<1>1. n \in 1..(N + 1) /\ \A x \in S : x < n
  BY NextAfterFresh
<1>2. T \in SUBSET (0..(N + 1)) /\ T # {}
  <2> HIDE DEF n
  <2> QED BY <1>1
<1>3. Max(T) \in T /\ \A x \in T : x <= Max(T)
  BY <1>2, MaxOfBounded
<1>4. Max(T) = n
  <2>1. Max(T) \in Nat /\ n \in Nat
    BY <1>2, <1>3, <1>1
  <2>2. n <= Max(T)
    BY <1>3
  <2>3. Max(T) \in S => Max(T) < n
    BY <1>1
  <2> HIDE DEF n
  <2> QED BY <1>3, <2>1, <2>2, <2>3
<1> QED BY <1>2, <1>4 DEF NextAfter
------------------------------------------------------------------------------
Sound(L) == L \in Lab /\ DistinctIds(L) /\ PortsOnce(L)

\* Ports and networks are told apart by their kind.
LEMMA EndpointKinds ==
  /\ Ports \subseteq Endpoints
  /\ \A k \in NetIds : NetEp(k) \in Endpoints /\ NetEp(k) \notin Ports
  /\ \A e \in Endpoints : IsPort(e) <=> e \in Ports
  /\ \A e \in Endpoints : ~IsPort(e) => e.id \in NetIds /\ e = NetEp(e.id)
  /\ \A p \in Ports : p.id \in Nodes /\ p.ifc \in Ifaces
<1>1. Ports \subseteq Endpoints /\ \A k \in NetIds : NetEp(k) \in Endpoints
  BY DEF NetEps, Endpoints
<1>2. ASSUME NEW p \in Ports PROVE IsPort(p) /\ p.id \in Nodes /\ p.ifc \in Ifaces
  BY DEF Ports, NodeEp, IsPort
<1>3. ASSUME NEW e \in NetEps PROVE ~IsPort(e) /\ e.id \in NetIds /\ e = NetEp(e.id)
  <2>1. PICK k \in NetIds : e = NetEp(k)
    BY DEF NetEps
  <2> QED BY <2>1 DEF NetEp, IsPort
<1>4. \A k \in NetIds : NetEp(k) \in NetEps
  BY DEF NetEps
<1> QED BY <1>1, <1>2, <1>3, <1>4 DEF Endpoints

\* The next link and network ids are fresh and one more than a bound at most.
LEMMA NextLinkIdFresh ==
  ASSUME NEW L \in Lab
  PROVE  NextLinkId(L) \in 1..(MaxLink + 1) /\ \A l \in L.links : l.id < NextLinkId(L)
<1> DEFINE S == {l.id : l \in L.links}
<1>1. MaxLink \in Nat
  BY LabConstants
<1>2. S \in SUBSET (1..MaxLink)
  BY DEF Lab, Link, LinkIds
<1>3. NextAfter(S) \in 1..(MaxLink + 1) /\ \A x \in S : x < NextAfter(S)
  <2> HIDE DEF S
  <2> QED BY <1>1, <1>2, NextAfterFresh
<1>4. NextLinkId(L) = NextAfter(S)
  BY DEF NextLinkId
<1> QED BY <1>3, <1>4

\* _next_network_id answers a number of the id space or the first one past it.
LEMMA NextNetworkIdFresh ==
  ASSUME NEW L \in Lab
  PROVE  NextNetworkId(L) \in 1..(MaxNet + 1)
<1> DEFINE S == {k \in NetIds : L.nets[k] # "none"}
<1>1. MaxNet \in Nat
  BY LabConstants
<1>2. S \in SUBSET (1..MaxNet)
  BY DEF NetIds
<1>3. NextAfter(S) \in 1..(MaxNet + 1)
  <2> HIDE DEF S
  <2> QED BY <1>1, <1>2, NextAfterFresh
<1> QED BY <1>3 DEF NextNetworkId

\* AddLink takes the next id, within the bound, and ports that are free.
LEMMA AddLinkSound ==
  ASSUME NEW L, Sound(L), NEW a \in Endpoints, NEW b \in Endpoints,
         NextLinkId(L) <= MaxLink,
         \A l \in L.links : \A p \in {a, b} \cap Ports : ~Touches(l, p)
  PROVE  /\ Sound(AddLink(L, a, b))
         /\ NextLinkId(AddLink(L, a, b)) = NextLinkId(L) + 1
<1> DEFINE n == NextLinkId(L)
           new == [id |-> n, a |-> a, b |-> b, gen |-> 0]
           M == AddLink(L, a, b)
<1>0. MaxLink \in Nat /\ L \in Lab
  BY LabConstants DEF Sound
<1>1. n \in 1..MaxLink /\ \A l \in L.links : l.id < n
  BY <1>0, NextLinkIdFresh
<1>2. M = [L EXCEPT !.links = @ \cup {new}]
  BY DEF AddLink
<1> HIDE DEF n, M
<1>3. new \in Link
  BY <1>1 DEF Link, LinkIds
<1>4. M \in Lab /\ M.links = L.links \cup {new}
  BY <1>0, <1>2, <1>3 DEF Lab
<1>5. \A l \in L.links : l.id # n
  BY <1>0, <1>1 DEF Lab, Link, LinkIds
<1>6. DistinctIds(M)
  BY <1>4, <1>5 DEF DistinctIds, Sound
<1>7. ASSUME NEW l \in M.links, NEW m \in M.links, NEW p \in Ports, Touches(l, p), Touches(m, p)
      PROVE  l = m
  <2>1. \A x \in L.links : Touches(x, p) => ~Touches(new, p)
    BY DEF Touches
  <2> HIDE DEF new
  <2> QED BY <1>4, <1>7, <2>1 DEF PortsOnce, Sound
<1>8. PortsOnce(M)
  BY <1>7 DEF PortsOnce
<1>9. NextLinkId(M) = n + 1
  <2> DEFINE S == {l.id : l \in L.links}
  <2>1. S \in SUBSET (1..MaxLink)
    BY <1>0 DEF Lab, Link, LinkIds
  <2>2. n = NextAfter(S)
    BY DEF n, NextLinkId
  <2>3. {l.id : l \in M.links} = S \cup {n}
    <3>1. new.id = n
      OBVIOUS
    <3> HIDE DEF new
    <3> QED BY <1>4, <3>1
  <2> HIDE DEF S
  <2>4. NextAfter(S \cup {n}) = n + 1
    BY <1>0, <2>1, <2>2, NextAfterAdded
  <2> QED BY <2>3, <2>4 DEF NextLinkId
<1> QED BY <1>4, <1>6, <1>8, <1>9 DEF Sound, n, M

\* A hidden network and two half-links, for two distinct free ports.
LEMMA AddImplicitPairSound ==
  ASSUME NEW L, Sound(L), NEW a \in Ports, NEW b \in Ports, a # b,
         NextLinkId(L) + 1 <= MaxLink, NextNetworkId(L) <= MaxNet,
         \A l \in L.links : \A p \in {a, b} \cap Ports : ~Touches(l, p)
  PROVE  Sound(AddImplicitPair(L, a, b))
<1> DEFINE k == NextNetworkId(L)
           W == [L EXCEPT !.nets[k] = "implicit"]
           M == AddLink(W, a, NetEp(k))
<1>0. MaxLink \in Nat /\ MaxNet \in Nat /\ L \in Lab
  BY LabConstants DEF Sound
<1>1. k \in NetIds /\ NextLinkId(L) \in Nat
  BY <1>0, NextNetworkIdFresh, NextLinkIdFresh DEF NetIds
<1>2. NetEp(k) \in Endpoints /\ NetEp(k) \notin Ports /\ a \in Endpoints /\ b \in Endpoints
  BY <1>1, EndpointKinds
<1>3. AddImplicitPair(L, a, b) = AddLink(M, b, NetEp(k))
  BY DEF AddImplicitPair
<1> HIDE DEF k
<1>4. W \in Lab /\ W.links = L.links
  BY <1>0, <1>1 DEF Lab
<1> HIDE DEF W
<1>5. Sound(W) /\ NextLinkId(W) = NextLinkId(L)
  BY <1>4 DEF Sound, DistinctIds, PortsOnce, NextLinkId
<1>6. Sound(M) /\ NextLinkId(M) = NextLinkId(L) + 1
  <2>1. \A l \in W.links : \A p \in {a, NetEp(k)} \cap Ports : ~Touches(l, p)
    BY <1>2, <1>4
  <2>2. NextLinkId(W) <= MaxLink
    BY <1>0, <1>1, <1>5
  <2> QED BY <1>2, <1>5, <2>1, <2>2, AddLinkSound
<1>7. \A l \in M.links : \A p \in {b, NetEp(k)} \cap Ports : ~Touches(l, p)
  <2> DEFINE new == [id |-> NextLinkId(W), a |-> a, b |-> NetEp(k), gen |-> 0]
  <2>1. M.links = W.links \cup {new}
    BY <1>4 DEF AddLink, Lab
  <2>2. ~Touches(new, b)
    BY <1>2 DEF Touches
  <2> HIDE DEF new, M
  <2> QED BY <1>2, <1>4, <2>1, <2>2
<1> HIDE DEF M
<1> QED BY <1>2, <1>3, <1>6, <1>7, AddLinkSound

\* Edits that only drop links or change a network keep a document sound.
LEMMA SmallerSound ==
  ASSUME NEW L, Sound(L), NEW M \in Lab, M.links \subseteq L.links
  PROVE  Sound(M)
BY DEF Sound, DistinctIds, PortsOnce

\* Promoting a hidden network leaves the links, and so a sound document, alone.
LEMMA PromoteSound ==
  ASSUME NEW L, Sound(L), NEW k \in NetIds
  PROVE  Sound(Promote(L, k))
<1>1. Promote(L, k) \in Lab /\ Promote(L, k).links = L.links
  BY DEF Promote, Sound, Lab
<1> QED BY <1>1, SmallerSound

\* Linking free ports to an existing network keeps a document sound.
LEMMA JoinNetworkSound ==
  ASSUME NEW L, Sound(L), NEW a \in Endpoints, NEW b \in Endpoints, ~(IsPort(a) /\ IsPort(b)),
         NextLinkId(L) <= MaxLink,
         \A l \in L.links : \A p \in {a, b} \cap Ports : ~Touches(l, p)
  PROVE  Sound(JoinNetwork(L, a, b))
<1>1. TargetNet(a, b) \in NetIds
  BY EndpointKinds DEF TargetNet
<1>2. Sound(AddLink(L, a, b))
  BY AddLinkSound
<1> QED BY <1>1, <1>2, PromoteSound DEF JoinNetwork

\* Removing links keeps a document sound.
LEMMA DropLinksSound ==
  ASSUME NEW L, Sound(L), NEW S
  PROVE  Sound(DropLinks(L, S))
<1>1. DropLinks(L, S) \in Lab /\ DropLinks(L, S).links \subseteq L.links
  BY DEF DropLinks, Sound, Lab
<1> QED BY <1>1, SmallerSound

\* delete_link's edit (the link, an orphaned half, an emptied hidden network)
\* keeps a document sound.
LEMMA RemoveLinkSound ==
  ASSUME NEW L, Sound(L), NEW l \in L.links
  PROVE  Sound(RemoveLink(L, l))
<1>1. ASSUME NEW M, Sound(M), NEW e \in Endpoints PROVE Sound(DropOrphanHalf(M, e))
  BY <1>1, DropLinksSound DEF DropOrphanHalf
<1>2. ASSUME NEW M, Sound(M), NEW e \in Endpoints PROVE Sound(CollectNetwork(M, e))
  <2>1. CollectNetwork(M, e) \in Lab /\ CollectNetwork(M, e).links = M.links
    BY <1>2, EndpointKinds DEF CollectNetwork, Sound, Lab
  <2> QED BY <1>2, <2>1, SmallerSound
<1>3. l.a \in Endpoints /\ l.b \in Endpoints
  BY DEF Sound, Lab, Link
<1> DEFINE pruned == DropOrphanHalf(DropOrphanHalf(DropLinks(L, {l}), l.a), l.b)
<1>4. Sound(pruned)
  BY <1>1, <1>3, DropLinksSound
<1>5. RemoveLink(L, l) = CollectNetwork(CollectNetwork(pruned, l.a), l.b)
  BY DEF RemoveLink
<1> HIDE DEF pruned
<1> QED BY <1>2, <1>3, <1>4, <1>5

\* Stamping generations changes neither ids nor ends.
LEMMA StampSound ==
  ASSUME NEW L, Sound(L), NEW S \in SUBSET Ports, NEW k, NEW attached,
         \A p \in S : attached[p].gen \in Nat
  PROVE  Sound(StampGenerations(L, S, k, attached))
<1> DEFINE f(l) == IF PortOf(l) \in S /\ Touches(l, NetEp(k))
                     THEN [l EXCEPT !.gen = attached[PortOf(l)].gen] ELSE l
           M == StampGenerations(L, S, k, attached)
<1>1. M = [L EXCEPT !.links = {f(l) : l \in L.links}]
  BY DEF StampGenerations
<1>2. ASSUME NEW l \in L.links
      PROVE  f(l) \in Link /\ f(l).id = l.id /\ f(l).a = l.a /\ f(l).b = l.b
  BY DEF Sound, Lab, Link
<1> HIDE DEF M, f
<1>3. M \in Lab /\ M.links = {f(l) : l \in L.links}
  BY <1>1, <1>2 DEF Sound, Lab
<1>4. DistinctIds(M)
  BY <1>2, <1>3 DEF Sound, DistinctIds
<1>5. PortsOnce(M)
  BY <1>2, <1>3 DEF Sound, PortsOnce, Touches
<1> QED BY <1>3, <1>4, <1>5 DEF Sound, M
------------------------------------------------------------------------------
(***************************************************************************)
(* Networks in use: a link names networks that have a record, and a hidden *)
(* network joins two endpoints at most.                                    *)
(***************************************************************************)
NetsLinked(L)  == \A l \in L.links, k \in NetIds : Touches(l, NetEp(k)) => L.nets[k] # "none"
HiddenPairs(L) == \A k \in NetIds : L.nets[k] = "implicit" => RefCount(L, k) <= 2
Tidy(L)        == NetsLinked(L) /\ HiddenPairs(L)

EndsA(L, k) == {l \in L.links : l.a = NetEp(k)}
EndsB(L, k) == {l \in L.links : l.b = NetEp(k)}

\* A document has finitely many links, because their ids are bounded.
LEMMA LinksFinite ==
  ASSUME NEW L, Sound(L)
  PROVE  IsFiniteSet(L.links)
<1> DEFINE f == [l \in L.links |-> l.id]
<1>1. f \in Injection(L.links, 1..MaxLink)
  <2>1. f \in [L.links -> 1..MaxLink]
    BY DEF Sound, Lab, Link, LinkIds
  <2>2. \A l, m \in L.links : f[l] = f[m] => l = m
    BY DEF Sound, DistinctIds
  <2> HIDE DEF f
  <2> QED BY <2>1, <2>2 DEF Injection, IsInjective
<1>2. IsFiniteSet(1..MaxLink)
  BY LabConstants, FS_Interval
<1> HIDE DEF f
<1> QED BY <1>1, <1>2, FS_Injection

\* The two counts of RefCount are numbers of finite sets.
LEMMA RefCountParts ==
  ASSUME NEW L, Sound(L), NEW k
  PROVE  /\ IsFiniteSet(EndsA(L, k)) /\ IsFiniteSet(EndsB(L, k))
         /\ Cardinality(EndsA(L, k)) \in Nat /\ Cardinality(EndsB(L, k)) \in Nat
         /\ RefCount(L, k) = Cardinality(EndsA(L, k)) + Cardinality(EndsB(L, k))
         /\ RefCount(L, k) \in Nat
<1>1. EndsA(L, k) \in SUBSET L.links /\ EndsB(L, k) \in SUBSET L.links
  BY DEF EndsA, EndsB
<1>2. IsFiniteSet(EndsA(L, k)) /\ IsFiniteSet(EndsB(L, k))
  BY <1>1, LinksFinite, FS_Subset
<1>3. Cardinality(EndsA(L, k)) \in Nat /\ Cardinality(EndsB(L, k)) \in Nat
  BY <1>2, FS_CardinalityType
<1>4. RefCount(L, k) = Cardinality(EndsA(L, k)) + Cardinality(EndsB(L, k))
  BY DEF RefCount, EndsA, EndsB
<1> QED BY <1>2, <1>3, <1>4

\* Nothing refers to a network whose count is zero, and conversely.
LEMMA RefCountZero ==
  ASSUME NEW L, Sound(L), NEW k
  PROVE  RefCount(L, k) = 0 <=> \A l \in L.links : ~Touches(l, NetEp(k))
<1>1. RefCount(L, k) = 0 <=> EndsA(L, k) = {} /\ EndsB(L, k) = {}
  <2>1. /\ Cardinality(EndsA(L, k)) = 0 <=> EndsA(L, k) = {}
        /\ Cardinality(EndsB(L, k)) = 0 <=> EndsB(L, k) = {}
    BY RefCountParts, FS_EmptySet
  <2> QED BY <2>1, RefCountParts
<1> QED BY <1>1 DEF EndsA, EndsB, Touches

\* Fewer links, fewer references.
LEMMA RefCountShrinks ==
  ASSUME NEW L, Sound(L), NEW M, Sound(M), M.links \subseteq L.links, NEW k
  PROVE  RefCount(M, k) <= RefCount(L, k)
<1>1. EndsA(M, k) \in SUBSET EndsA(L, k) /\ EndsB(M, k) \in SUBSET EndsB(L, k)
  BY DEF EndsA, EndsB
<1>2. /\ Cardinality(EndsA(M, k)) <= Cardinality(EndsA(L, k))
      /\ Cardinality(EndsB(M, k)) <= Cardinality(EndsB(L, k))
  BY <1>1, RefCountParts, FS_Subset
<1> QED BY <1>2, RefCountParts

\* A new link adds one reference for each of its ends that is the network.
LEMMA RefCountAdded ==
  ASSUME NEW L, Sound(L), NEW M, Sound(M), NEW new, new \notin L.links,
         M.links = L.links \cup {new}, NEW k
  PROVE  RefCount(M, k) = RefCount(L, k) + (IF new.a = NetEp(k) THEN 1 ELSE 0)
                                         + (IF new.b = NetEp(k) THEN 1 ELSE 0)
<1>1. EndsA(M, k) = IF new.a = NetEp(k) THEN EndsA(L, k) \cup {new} ELSE EndsA(L, k)
  BY DEF EndsA
<1>2. EndsB(M, k) = IF new.b = NetEp(k) THEN EndsB(L, k) \cup {new} ELSE EndsB(L, k)
  BY DEF EndsB
<1>3. new \notin EndsA(L, k) /\ new \notin EndsB(L, k)
  BY DEF EndsA, EndsB
<1>4. Cardinality(EndsA(M, k)) = Cardinality(EndsA(L, k)) + (IF new.a = NetEp(k) THEN 1 ELSE 0)
  <2>1. Cardinality(EndsA(L, k) \cup {new}) = Cardinality(EndsA(L, k)) + 1
    BY <1>3, RefCountParts, FS_AddElement
  <2> QED BY <1>1, <2>1, RefCountParts
<1>5. Cardinality(EndsB(M, k)) = Cardinality(EndsB(L, k)) + (IF new.b = NetEp(k) THEN 1 ELSE 0)
  <2>1. Cardinality(EndsB(L, k) \cup {new}) = Cardinality(EndsB(L, k)) + 1
    BY <1>3, RefCountParts, FS_AddElement
  <2> QED BY <1>2, <2>1, RefCountParts
<1>6. RefCount(M, k) = Cardinality(EndsA(M, k)) + Cardinality(EndsB(M, k))
  BY RefCountParts
<1>7. RefCount(L, k) = Cardinality(EndsA(L, k)) + Cardinality(EndsB(L, k))
      /\ Cardinality(EndsA(L, k)) \in Nat /\ Cardinality(EndsB(L, k)) \in Nat
  BY RefCountParts
<1> QED BY <1>4, <1>5, <1>6, <1>7

\* What AddLink adds.
LEMMA AddLinkAdds ==
  ASSUME NEW L, Sound(L), NEW a, NEW b
  PROVE  LET new == [id |-> NextLinkId(L), a |-> a, b |-> b, gen |-> 0]
         IN  /\ AddLink(L, a, b).links = L.links \cup {new} /\ new \notin L.links
             /\ AddLink(L, a, b).nets = L.nets /\ AddLink(L, a, b).nodes = L.nodes
<1> DEFINE new == [id |-> NextLinkId(L), a |-> a, b |-> b, gen |-> 0]
<1>1. L \in Lab /\ NextLinkId(L) \in Nat /\ \A l \in L.links : l.id < NextLinkId(L)
  BY NextLinkIdFresh DEF Sound
<1>2. new \notin L.links
  <2>1. \A l \in L.links : l.id \in Nat
    BY <1>1 DEF Lab, Link, LinkIds
  <2>2. new.id = NextLinkId(L)
    OBVIOUS
  <2> HIDE DEF new
  <2> QED BY <1>1, <2>1, <2>2
<1> QED BY <1>1, <1>2 DEF AddLink, Lab

\* Fewer links, and the networks kept or unused ones dropped.
LEMMA FewerTidy ==
  ASSUME NEW L, Sound(L), Tidy(L), NEW M, Sound(M), M.links \subseteq L.links,
         \A k \in NetIds : \/ M.nets[k] = L.nets[k] \/ M.nets[k] = "explicit"
                           \/ M.nets[k] = "none" /\ RefCount(M, k) = 0
  PROVE  Tidy(M)
<1>1. NetsLinked(M)
  BY RefCountZero DEF Tidy, NetsLinked
<1>2. ASSUME NEW k \in NetIds, M.nets[k] = "implicit" PROVE RefCount(M, k) <= 2
  <2>1. RefCount(M, k) <= RefCount(L, k) /\ RefCount(L, k) <= 2
    BY <1>2, RefCountShrinks DEF Tidy, HiddenPairs
  <2>2. RefCount(M, k) \in Nat /\ RefCount(L, k) \in Nat
    BY RefCountParts
  <2> QED BY <2>1, <2>2
<1> QED BY <1>1, <1>2 DEF Tidy, HiddenPairs

\* delete_link's edit keeps the networks tidy.
LEMMA RemoveLinkTidy ==
  ASSUME NEW L, Sound(L), Tidy(L), NEW l \in L.links
  PROVE  Tidy(RemoveLink(L, l))
<1> DEFINE Good(M) == Sound(M) /\ Tidy(M)
<1>1. ASSUME NEW M, Good(M), NEW S PROVE Good(DropLinks(M, S))
  <2>1. Sound(DropLinks(M, S))
    BY <1>1, DropLinksSound
  <2>2. DropLinks(M, S).links \subseteq M.links /\ DropLinks(M, S).nets = M.nets
    BY <1>1 DEF DropLinks, Sound, Lab
  <2> QED BY <1>1, <2>1, <2>2, FewerTidy
<1>2. ASSUME NEW M, Good(M), NEW e \in Endpoints PROVE Good(DropOrphanHalf(M, e))
  BY <1>1, <1>2 DEF DropOrphanHalf
<1>3. ASSUME NEW M, Good(M), NEW e \in Endpoints PROVE Good(CollectNetwork(M, e))
  <2>1. CASE ~(e.t = "net" /\ M.nets[e.id] = "implicit" /\ RefCount(M, e.id) = 0)
    BY <1>3, <2>1 DEF CollectNetwork
  <2>2. CASE e.t = "net" /\ M.nets[e.id] = "implicit" /\ RefCount(M, e.id) = 0
    <3> DEFINE C == [M EXCEPT !.nets[e.id] = "none"]
    <3>1. e.id \in NetIds
      BY <2>2, EndpointKinds DEF IsPort
    <3>2. C \in Lab /\ C.links = M.links
          /\ \A k \in NetIds : C.nets[k] = M.nets[k] \/ (k = e.id /\ C.nets[k] = "none")
      BY <1>3, <3>1 DEF Sound, Lab
    <3>3. CollectNetwork(M, e) = C
      BY <2>2 DEF CollectNetwork
    <3> HIDE DEF C
    <3>4. Sound(C)
      BY <1>3, <3>2, SmallerSound
    <3>5. RefCount(C, e.id) = 0
      BY <2>2, <3>2 DEF RefCount
    <3>6. Tidy(C)
      BY <1>3, <3>2, <3>4, <3>5, FewerTidy
    <3> QED BY <3>3, <3>4, <3>6
  <2> QED BY <2>1, <2>2
<1>4. l.a \in Endpoints /\ l.b \in Endpoints
  BY DEF Sound, Lab, Link
<1> DEFINE dropped == DropLinks(L, {l})
           pruned == DropOrphanHalf(DropOrphanHalf(dropped, l.a), l.b)
<1>5. Good(dropped)
  BY <1>1
<1> HIDE DEF dropped, Good
<1>6. Good(pruned)
  BY <1>2, <1>4, <1>5
<1>7. RemoveLink(L, l) = CollectNetwork(CollectNetwork(pruned, l.a), l.b)
  BY DEF RemoveLink, dropped
<1> HIDE DEF pruned
<1>8. Good(RemoveLink(L, l))
  BY <1>3, <1>4, <1>6, <1>7
<1> QED BY <1>8 DEF Good

\* An unused network has no references, and stays unused by others.
LEMMA UnusedUncounted ==
  ASSUME NEW L, Sound(L), NetsLinked(L), NEW k \in NetIds, L.nets[k] = "none"
  PROVE  RefCount(L, k) = 0
BY RefCountZero DEF NetsLinked

\* A hidden network made for two ports has these two references.
LEMMA AddImplicitPairTidy ==
  ASSUME NEW L, Sound(L), Tidy(L), NEW a \in Ports, NEW b \in Ports, a # b,
         NextLinkId(L) + 1 <= MaxLink, NextNetworkId(L) <= MaxNet,
         \A l \in L.links : \A p \in {a, b} \cap Ports : ~Touches(l, p)
  PROVE  Tidy(AddImplicitPair(L, a, b))
<1> DEFINE k == NextNetworkId(L)
           W == [L EXCEPT !.nets[k] = "implicit"]
           M == AddLink(W, a, NetEp(k))
           N == AddImplicitPair(L, a, b)
<1>0. MaxLink \in Nat /\ MaxNet \in Nat /\ L \in Lab
  BY LabConstants DEF Sound
<1>1. k \in NetIds /\ NextLinkId(L) \in Nat /\ L.nets[k] = "none"
  <2> DEFINE S == {x \in NetIds : L.nets[x] # "none"}
  <2>1. S \in SUBSET (1..MaxNet)
    BY DEF NetIds
  <2>2. k \in 1..MaxNet /\ NextLinkId(L) \in Nat
    BY <1>0, NextNetworkIdFresh, NextLinkIdFresh
  <2>3. k = NextAfter(S)
    BY DEF NextNetworkId
  <2> HIDE DEF S, k
  <2>4. \A x \in S : x < k
    BY <1>0, <2>1, <2>3, NextAfterFresh
  <2>5. k \notin S
    BY <2>2, <2>4
  <2> QED BY <2>2, <2>5 DEF NetIds, S
<1>2. N = AddLink(M, b, NetEp(k))
  BY DEF AddImplicitPair
<1>3. Sound(N)
  BY AddImplicitPairSound
<1> HIDE DEF k, N
<1>4. W \in Lab /\ W.links = L.links /\ W.nets[k] = "implicit"
      /\ \A x \in NetIds \ {k} : W.nets[x] = L.nets[x]
  BY <1>0, <1>1 DEF Lab
<1> HIDE DEF W
<1>5. Sound(W) /\ NextLinkId(W) = NextLinkId(L)
  BY <1>4 DEF Sound, DistinctIds, PortsOnce, NextLinkId
<1>6. a \in Endpoints /\ b \in Endpoints /\ NetEp(k) \in Endpoints
      /\ \A x \in NetIds : NetEp(x) \notin Ports /\ (NetEp(x) = NetEp(k) => x = k)
  BY <1>1, EndpointKinds DEF NetEp
<1>7. Sound(M)
  <2>1. NextLinkId(W) <= MaxLink
    BY <1>0, <1>1, <1>5
  <2>2. \A l \in W.links : \A p \in {a, NetEp(k)} \cap Ports : ~Touches(l, p)
    BY <1>1, <1>4, <1>6
  <2> QED BY <1>5, <1>6, <2>1, <2>2, AddLinkSound
<1> DEFINE u == [id |-> NextLinkId(W), a |-> a, b |-> NetEp(k), gen |-> 0]
           v == [id |-> NextLinkId(M), a |-> b, b |-> NetEp(k), gen |-> 0]
<1>8. M.links = W.links \cup {u} /\ u \notin W.links /\ M.nets = W.nets
  BY <1>5, AddLinkAdds
<1>9. N.links = M.links \cup {v} /\ v \notin M.links /\ N.nets = M.nets
  BY <1>2, <1>7, AddLinkAdds
<1>10. u.a = a /\ u.b = NetEp(k) /\ v.a = b /\ v.b = NetEp(k)
  OBVIOUS
<1> HIDE DEF u, v, M
<1>11. ASSUME NEW x \in NetIds
       PROVE  RefCount(N, x) = RefCount(L, x) + (IF x = k THEN 2 ELSE 0)
  <2>1. RefCount(W, x) = RefCount(L, x) /\ RefCount(L, x) \in Nat
    BY <1>4, RefCountParts DEF RefCount
  <2>2. u.a # NetEp(x) /\ v.a # NetEp(x) /\ (u.b = NetEp(x) <=> x = k) /\ (v.b = NetEp(x) <=> x = k)
    BY <1>6, <1>10
  <2>3. RefCount(M, x) = RefCount(W, x) + (IF x = k THEN 1 ELSE 0)
    <3>1. RefCount(M, x) = RefCount(W, x) + (IF u.a = NetEp(x) THEN 1 ELSE 0)
                                          + (IF u.b = NetEp(x) THEN 1 ELSE 0)
      BY <1>5, <1>7, <1>8, RefCountAdded
    <3> QED BY <2>1, <2>2, <3>1
  <2>4. RefCount(N, x) = RefCount(M, x) + (IF x = k THEN 1 ELSE 0)
    <3>1. RefCount(N, x) = RefCount(M, x) + (IF v.a = NetEp(x) THEN 1 ELSE 0)
                                          + (IF v.b = NetEp(x) THEN 1 ELSE 0)
      BY <1>3, <1>7, <1>9, RefCountAdded
    <3> QED BY <2>1, <2>2, <2>3, <3>1
  <2> QED BY <2>1, <2>3, <2>4
<1>12. RefCount(L, k) = 0
  BY <1>1, UnusedUncounted DEF Tidy
<1>13. HiddenPairs(N)
  <2>1. ASSUME NEW x \in NetIds, N.nets[x] = "implicit" PROVE RefCount(N, x) <= 2
    <3>1. CASE x = k
      BY <1>11, <1>12, <3>1
    <3>2. CASE x # k
      <4>1. L.nets[x] = "implicit"
        BY <1>4, <1>8, <1>9, <2>1, <3>2
      <4>2. RefCount(L, x) <= 2 /\ RefCount(L, x) \in Nat
        BY <4>1, RefCountParts DEF Tidy, HiddenPairs
      <4> QED BY <1>11, <3>2, <4>2
    <3> QED BY <3>1, <3>2
  <2> QED BY <2>1 DEF HiddenPairs
<1>14. NetsLinked(N)
  <2>1. ASSUME NEW l \in N.links, NEW x \in NetIds, Touches(l, NetEp(x)) PROVE N.nets[x] # "none"
    <3>1. CASE x = k
      BY <1>4, <1>8, <1>9, <3>1
    <3>2. CASE x # k
      <4>1. l \in L.links
        BY <1>4, <1>6, <1>8, <1>9, <1>10, <2>1, <3>2 DEF Touches
      <4> QED BY <1>4, <1>8, <1>9, <2>1, <3>2, <4>1 DEF Tidy, NetsLinked
    <3> QED BY <3>1, <3>2
  <2> QED BY <2>1 DEF NetsLinked
<1> QED BY <1>13, <1>14 DEF Tidy, N

\* A port joins an existing network: at the third endpoint a hidden one is
\* made visible.
LEMMA JoinNetworkTidy ==
  ASSUME NEW L, Sound(L), Tidy(L), NEW a \in Endpoints, NEW b \in Endpoints,
         ~(IsPort(a) /\ IsPort(b)), IsPort(a) \/ IsPort(b),
         NextLinkId(L) <= MaxLink, L.nets[TargetNet(a, b)] # "none",
         \A l \in L.links : \A p \in {a, b} \cap Ports : ~Touches(l, p)
  PROVE  Tidy(JoinNetwork(L, a, b))
<1> DEFINE k == TargetNet(a, b)
           M == AddLink(L, a, b)
           N == JoinNetwork(L, a, b)
           new == [id |-> NextLinkId(L), a |-> a, b |-> b, gen |-> 0]
<1>1. k \in NetIds
  BY EndpointKinds DEF TargetNet
<1>2. Sound(M) /\ Sound(N)
  BY AddLinkSound, JoinNetworkSound
<1>3. M.links = L.links \cup {new} /\ new \notin L.links /\ M.nets = L.nets
  BY AddLinkAdds
<1>4. N = Promote(M, k)
  BY DEF JoinNetwork
<1>5. \A x \in NetIds : NetEp(x) \notin Ports /\ (NetEp(x) = NetEp(k) => x = k)
  BY EndpointKinds DEF NetEp
<1>6. (new.a = NetEp(k) /\ new.b \in Ports) \/ (new.b = NetEp(k) /\ new.a \in Ports)
  BY EndpointKinds DEF TargetNet
<1> HIDE DEF new, M, N, k
<1>7. ASSUME NEW x \in NetIds
      PROVE  RefCount(M, x) = RefCount(L, x) + (IF x = k THEN 1 ELSE 0) /\ RefCount(L, x) \in Nat
  <2>1. RefCount(M, x) = RefCount(L, x) + (IF new.a = NetEp(x) THEN 1 ELSE 0)
                                        + (IF new.b = NetEp(x) THEN 1 ELSE 0)
    BY <1>2, <1>3, RefCountAdded
  <2>2. RefCount(L, x) \in Nat
    BY RefCountParts
  <2> QED BY <1>5, <1>6, <2>1, <2>2
<1>8. NetsLinked(M)
  <2>1. L.nets[k] # "none"
    BY DEF k
  <2>2. \A x \in NetIds : Touches(new, NetEp(x)) => x = k
    BY <1>5, <1>6 DEF Touches
  <2> QED BY <1>3, <2>1, <2>2 DEF Tidy, NetsLinked
<1>9. CASE M.nets[k] = "implicit" /\ RefCount(M, k) = 3
  <2>1. N = [M EXCEPT !.nets[k] = "explicit"]
    BY <1>4, <1>9 DEF Promote
  <2>2. N.links = M.links /\ N.nets[k] = "explicit" /\ \A x \in NetIds \ {k} : N.nets[x] = M.nets[x]
    BY <1>1, <1>2, <2>1 DEF Sound, Lab
  <2>3. NetsLinked(N)
    BY <1>8, <2>2 DEF NetsLinked
  <2>4. ASSUME NEW x \in NetIds, N.nets[x] = "implicit" PROVE RefCount(N, x) <= 2
    <3>1. x # k /\ L.nets[x] = "implicit"
      BY <1>3, <2>2, <2>4
    <3>2. RefCount(L, x) <= 2
      BY <3>1 DEF Tidy, HiddenPairs
    <3>3. RefCount(N, x) = RefCount(M, x)
      BY <2>2 DEF RefCount
    <3> QED BY <1>7, <3>1, <3>2, <3>3
  <2> QED BY <2>3, <2>4 DEF Tidy, HiddenPairs, N
<1>10. CASE ~(M.nets[k] = "implicit" /\ RefCount(M, k) = 3)
  <2>1. N = M
    BY <1>4, <1>10 DEF Promote
  <2>2. ASSUME NEW x \in NetIds, M.nets[x] = "implicit" PROVE RefCount(M, x) <= 2
    <3>1. RefCount(L, x) <= 2 /\ RefCount(L, x) \in Nat
      BY <1>3, <1>7, <2>2 DEF Tidy, HiddenPairs
    <3> QED BY <1>7, <1>10, <2>2, <3>1
  <2> QED BY <1>8, <2>1, <2>2 DEF Tidy, HiddenPairs, N
<1> QED BY <1>9, <1>10

\* Stamping generations changes no end.
LEMMA StampTidy ==
  ASSUME NEW L, Sound(L), Tidy(L), NEW S \in SUBSET Ports, NEW k, NEW attached,
         \A p \in S : attached[p].gen \in Nat
  PROVE  Tidy(StampGenerations(L, S, k, attached))
<1> DEFINE f(l) == IF PortOf(l) \in S /\ Touches(l, NetEp(k))
                     THEN [l EXCEPT !.gen = attached[PortOf(l)].gen] ELSE l
           M == StampGenerations(L, S, k, attached)
<1>1. ASSUME NEW l \in L.links PROVE f(l).a = l.a /\ f(l).b = l.b
  BY DEF Sound, Lab, Link
<1>2. M = [L EXCEPT !.links = {f(l) : l \in L.links}]
  BY DEF StampGenerations
<1> HIDE DEF f
<1>3. M.nets = L.nets /\ M.links = {f(l) : l \in L.links}
  BY <1>2 DEF Sound, Lab
<1>4. Sound(M)
  BY StampSound
<1> HIDE DEF M
<1>5. ASSUME NEW x PROVE RefCount(M, x) <= RefCount(L, x)
  <2>1. Cardinality(EndsA(M, x)) <= Cardinality(EndsA(L, x))
    <3> DEFINE g == [l \in EndsA(L, x) |-> f(l)]
    <3>1. g \in Surjection(EndsA(L, x), EndsA(M, x))
      BY <1>1, <1>3 DEF EndsA, Surjection
    <3> QED BY <3>1, RefCountParts, FS_Surjection
  <2>2. Cardinality(EndsB(M, x)) <= Cardinality(EndsB(L, x))
    <3> DEFINE g == [l \in EndsB(L, x) |-> f(l)]
    <3>1. g \in Surjection(EndsB(L, x), EndsB(M, x))
      BY <1>1, <1>3 DEF EndsB, Surjection
    <3> QED BY <3>1, RefCountParts, FS_Surjection
  <2>3. /\ Cardinality(EndsA(M, x)) \in Nat /\ Cardinality(EndsB(M, x)) \in Nat
        /\ RefCount(M, x) = Cardinality(EndsA(M, x)) + Cardinality(EndsB(M, x))
    BY <1>4, RefCountParts
  <2>4. /\ Cardinality(EndsA(L, x)) \in Nat /\ Cardinality(EndsB(L, x)) \in Nat
        /\ RefCount(L, x) = Cardinality(EndsA(L, x)) + Cardinality(EndsB(L, x))
    BY RefCountParts
  <2> QED BY <2>1, <2>2, <2>3, <2>4
<1>6. NetsLinked(M)
  BY <1>1, <1>3 DEF Tidy, NetsLinked, Touches
<1>7. ASSUME NEW x \in NetIds, M.nets[x] = "implicit" PROVE RefCount(M, x) <= 2
  <2>1. RefCount(L, x) <= 2 /\ RefCount(L, x) \in Nat /\ RefCount(M, x) \in Nat
    BY <1>3, <1>4, <1>7, RefCountParts DEF Tidy, HiddenPairs
  <2> QED BY <1>5, <2>1
<1> QED BY <1>6, <1>7 DEF Tidy, HiddenPairs, M
==============================================================================
