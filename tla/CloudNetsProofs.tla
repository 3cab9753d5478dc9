---------------------------- MODULE CloudNetsProofs ----------------------------
(***************************************************************************)
(* The subnets of the host's NAT-Clouds never overlap, and a reference to  *)
(* a cloud of another lab always has its owner, whatever host command      *)
(* fails and wherever the backend dies.                                    *)
(*                                                                         *)
(* A handler is a sequence of effects.  What makes the invariant           *)
(* inductive is that every file effect still to come, of the handler and   *)
(* of its rollback, would leave the labs in a good state, on whichever of  *)
(* them the handler stops.                                                 *)
(*                                                                         *)
(* The second half is about the bridges: what create_network reports, what *)
(* a host without failures looks like, and what opening a lab repairs.     *)
(***************************************************************************)
EXTENDS CloudNets, TLAPS, WellFoundedInduction, NaturalsInduction, SequenceTheorems,
        FiniteSetTheorems

------------------------------------------------------------------------------
(* The labs of the host, as networks N and file states F.                  *)

Fields    == [type : {"linux_bridge", "nat_cloud", "bridge_cloud"}, cidr : SUBSET Nat,
              shared : Cloud \cup {None}, bridge : Names \cup {HostBr}]
NetRecord == {r \in Fields : r.type # "bridge_cloud" => r.bridge \in Names}
NetMaps   == UNION {[K -> NetRecord] : K \in SUBSET Ids}
States    == {"new", "ok", "torn", "gone"}

RecordsOf(N, F) == {c \in Cloud : F[c[1]] = "ok" /\ c[2] \in DOMAIN N[c[1]]}
At(N, c) == N[c[1]][c[2]]

\* Two clouds that own a subnet, neither of them patched, are disjoint.
DisjointIn(N, F, P) ==
  \A c, d \in RecordsOf(N, F) \ P :
    c # d /\ IsOwner(At(N, c)) /\ IsOwner(At(N, d)) => At(N, c).cidr \cap At(N, d).cidr = {}

\* Cloud c is owned, with the bridge and the subnet of record r.
OwnerFor(N, F, c, r) == /\ c \in RecordsOf(N, F) /\ IsOwner(At(N, c))
                        /\ At(N, c).bridge = r.bridge /\ At(N, c).cidr = r.cidr

OwnedIn(N, F, P, D) ==
  \A d \in RecordsOf(N, F) \ P :
    IsRef(At(N, d)) => \/ At(N, d).shared \in P \/ At(N, d).shared[1] \in D
                       \/ OwnerFor(N, F, At(N, d).shared, At(N, d))

Good(N, F, P, D) == /\ N \in [Labs -> NetMaps] /\ F \in [Labs -> States]
                    /\ DisjointIn(N, F, P) /\ OwnedIn(N, F, P, D)

------------------------------------------------------------------------------
(* Effects to come.                                                        *)

Effects == [do : {"save", "unlink", "add", "own", "route", "unroute", "drop", "disown"},
            on : Labs \cup Names \cup {HostBr},
            arg : {None} \cup (SUBSET Nat) \cup Cloud \cup NetMaps, net : Nat]

NetsWith(e, N) == [N EXCEPT ![e.on] = IF e.do = "save" THEN e.arg ELSE << >>]
FileWith(e, F) == [F EXCEPT ![e.on] = IF e.do = "save" THEN "ok" ELSE "gone"]

\* An effect on a file is one of the handler's own lab that leaves the labs
\* good, or rewrites a lab as it is.
Harmless(e, N, F, P, D, l) ==
  e.do \in {"save", "unlink"} =>
    /\ e.on \in Labs
    /\ \/ e.on = l /\ Good(NetsWith(e, N), FileWith(e, F), P, D)
       \/ e.do = "save" /\ F[e.on] = "ok" /\ e.arg = N[e.on]

SafeEffects(N, F, P, D, l) == {e \in Effects : Harmless(e, N, F, P, D, l)}

\* The effects that are safe in the current state for the running handler.
Safe == SafeEffects(nets, file, patched, damaged, op.lab)

Kinds == {"idle", "lab", "create", "undo", "delete", "patch", "ensure"}

Ops == [kind : Kinds, lab : Labs \cup {None}, net : Nat, todo : Seq(Effects),
        undo : Seq(Effects), clean : BOOLEAN]

CloudInv == /\ hash \in [Labs -> Hashes] /\ op \in Ops
            /\ Good(nets, file, patched, damaged)
            /\ op.todo \in Seq(Safe) /\ op.undo \in Seq(Safe)

------------------------------------------------------------------------------
(* Numbers and sequences.                                                  *)

\* A non-empty set of numbers has a smallest member.
LEMMA LeastNumber ==
  ASSUME NEW S \in SUBSET Nat, S # {}
  PROVE  \E m \in S : \A n \in S : m <= n
<1> DEFINE R == OpToRel(<, Nat)
<1>1. \A x, y \in Nat : y < x => <<y, x>> \in R
  BY DEF OpToRel
<1>2. IsWellFoundedOn(R, Nat)
  BY NatLessThanWellFounded
<1> HIDE DEF R
<1>3. PICK m \in S : \A n \in S : ~(<<n, m>> \in R)
  BY <1>2, WFMin
<1>4. ASSUME NEW n \in S PROVE m <= n
  <2>1. m \in Nat /\ n \in Nat
    OBVIOUS
  <2>2. ~(n < m)
    BY <1>1, <1>3, <2>1
  <2> QED BY <2>1, <2>2
<1> QED BY <1>4

\* A property of numbers, given as the set of those that have it.
LEMMA NumberInduction ==
  ASSUME NEW S, 0 \in S, \A m \in Nat : m \in S => m + 1 \in S
  PROVE  \A n \in Nat : n \in S
<1> DEFINE T == {n \in Nat : n \notin S}
<1>1. SUFFICES ASSUME T # {} PROVE FALSE
  OBVIOUS
<1>2. PICK n \in T : \A k \in T : n <= k
  BY <1>1, LeastNumber
<1>3. n # 0 /\ n - 1 \in Nat /\ n - 1 + 1 = n
  BY <1>2
<1>4. n - 1 \in S
  BY <1>2, <1>3
<1>5. n - 1 + 1 \in S
  BY <1>3, <1>4
<1> QED BY <1>2, <1>3, <1>5

\* The largest number of a bounded set, which Max picks.
LEMMA MaxOfIds ==
  ASSUME NEW S \in SUBSET Ids, S # {}
  PROVE  Max(S) \in S /\ \A x \in S : x <= Max(S)
<1> DEFINE U == {n \in Nat : \A x \in S : x <= n}
<1>0. MaxNet \in Nat /\ S \in SUBSET (1..MaxNet)
  BY CloudConstants DEF Ids
<1>1. U \in SUBSET Nat /\ U # {}
  <2>1. MaxNet \in U
    BY <1>0
  <2> QED BY <2>1
<1>2. PICK m \in U : \A n \in U : m <= n
  <2> HIDE DEF U
  <2> QED BY <1>1, LeastNumber
<1>3. m \in S
  <2>1. SUFFICES ASSUME m \notin S PROVE FALSE
    OBVIOUS
  <2>2. PICK x \in S : TRUE
    OBVIOUS
  <2>3. m # 0
    BY <1>0, <2>1, <2>2
  <2>4. m - 1 \in U
    BY <1>0, <2>1, <2>3
  <2> QED BY <1>2, <2>4
<1>4. \E x \in S : \A y \in S : x >= y
  BY <1>0, <1>3
<1>5. Max(S) \in S /\ \A y \in S : Max(S) >= y
  BY <1>4 DEF Max
<1> QED BY <1>0, <1>5

\* One step of the filter, and of the concatenation.
KeptStep(g, s, n, i) ==
  IF i = 0 THEN << >> ELSE IF s[i].net # n THEN Append(g[i - 1], s[i]) ELSE g[i - 1]
KeptSteps(g, s, n, m) == g = [i \in 0..m |-> KeptStep(g, s, n, i)]
FlatStep(g, q, i) == IF i = 1 THEN q[i] ELSE g[i - 1] \o q[i]
FlatSteps(g, q, m) == g = [i \in 1..m |-> FlatStep(g, q, i)]

\* The recursion of the filter has a solution.
LEMMA KeptExists ==
  ASSUME NEW s, NEW n
  PROVE  \A m \in Nat : \E g : KeptSteps(g, s, n, m)
<1> DEFINE S == {m \in Nat : \E g : KeptSteps(g, s, n, m)}
<1>1. 0 \in S
  <2> DEFINE g0 == [i \in 0..0 |-> <<>>]
  <2>1. KeptSteps(g0, s, n, 0)
    BY DEF KeptSteps, KeptStep
  <2> QED BY <2>1
<1>2. ASSUME NEW m \in Nat, m \in S PROVE m + 1 \in S
  <2>1. PICK g : KeptSteps(g, s, n, m)
    BY <1>2
  <2> DEFINE h == [i \in 0..(m + 1) |-> IF i <= m THEN g[i] ELSE KeptStep(g, s, n, m + 1)]
  <2>2. ASSUME NEW i \in 0..(m + 1) PROVE h[i] = KeptStep(h, s, n, i)
    <3>1. \A j \in 0..m : g[j] = KeptStep(g, s, n, j)
      BY <2>1 DEF KeptSteps
    <3>2. h[i] = KeptStep(g, s, n, i)
      <4>1. CASE i <= m
        <5>1. i \in 0..m
          BY <4>1
        <5> QED BY <3>1, <4>1, <5>1
      <4>2. CASE i = m + 1
        BY <4>2
      <4> QED BY <4>1, <4>2
    <3>3. i # 0 => h[i - 1] = g[i - 1]
      OBVIOUS
    <3> QED BY <3>2, <3>3 DEF KeptStep
  <2>3. KeptSteps(h, s, n, m + 1)
    <3> DEFINE k == [i \in 0..(m + 1) |-> KeptStep(h, s, n, i)]
    <3>1. DOMAIN h = 0..(m + 1) /\ \A i \in 0..(m + 1) : h[i] = k[i]
      BY <2>2
    <3>2. h = k
      BY <3>1
    <3> QED BY <3>2 DEF KeptSteps
  <2> HIDE DEF h
  <2> QED BY <2>3
<1> HIDE DEF S
<1>3. \A m \in Nat : m \in S
  BY <1>1, <1>2, NumberInduction
<1> QED BY <1>3 DEF S

\* The effects for other networks are some of the effects.
LEMMA ForOthersTyped ==
  ASSUME NEW S, NEW s \in Seq(S), NEW n
  PROVE  ForOthers(s, n) \in Seq(S)
<1>0. Len(s) \in Nat
  OBVIOUS
<1>1. \E g : KeptSteps(g, s, n, Len(s))
  BY <1>0, KeptExists
<1>2. PICK kept : KeptSteps(kept, s, n, Len(s)) /\ ForOthers(s, n) = kept[Len(s)]
  BY <1>1 DEF ForOthers, KeptSteps, KeptStep
<1>3. \A m \in 0..Len(s) : kept[m] = KeptStep(kept, s, n, m)
  BY <1>2 DEF KeptSteps
<1> DEFINE G == {m \in Nat : m <= Len(s) => kept[m] \in Seq(S)}
<1>4. 0 \in G
  <2>1. kept[0] = << >>
    BY <1>0, <1>3 DEF KeptStep
  <2>2. << >> \in Seq(S)
    OBVIOUS
  <2>3. kept[0] \in Seq(S)
    BY <2>1, <2>2
  <2> QED BY <2>3
<1>5. ASSUME NEW m \in Nat, m \in G PROVE m + 1 \in G
  <2> SUFFICES ASSUME m + 1 <= Len(s) PROVE kept[m + 1] \in Seq(S)
    OBVIOUS
  <2>1. kept[m] \in Seq(S) /\ m + 1 \in 0..Len(s) /\ m + 1 \in 1..Len(s) /\ m + 1 # 0 /\ m + 1 - 1 = m
    BY <1>0, <1>5
  <2>2. kept[m + 1] = KeptStep(kept, s, n, m + 1) /\ s[m + 1] \in S
    BY <1>3, <2>1
  <2>3. kept[m + 1] = Append(kept[m], s[m + 1]) \/ kept[m + 1] = kept[m]
    BY <2>1, <2>2 DEF KeptStep
  <2> DEFINE k == kept[m]
             x == s[m + 1]
  <2>4. k \in Seq(S) /\ x \in S
    BY <2>1, <2>2
  <2> HIDE DEF k, x
  <2>5. Append(k, x) \in Seq(S)
    BY <2>4
  <2> QED BY <2>3, <2>4, <2>5 DEF k, x
<1> HIDE DEF G
<1>6. Len(s) \in G
  BY <1>0, <1>4, <1>5, NumberInduction
<1>7. kept[Len(s)] \in Seq(S)
  BY <1>0, <1>6 DEF G
<1> QED BY <1>2, <1>7

\* The recursion of the concatenation has a solution.
LEMMA FlatExists ==
  ASSUME NEW q
  PROVE  \A m \in Nat : \E g : FlatSteps(g, q, m)
<1> DEFINE S == {m \in Nat : \E g : FlatSteps(g, q, m)}
<1>1. 0 \in S
  <2> DEFINE g0 == [i \in 1..0 |-> <<>>]
  <2>1. FlatSteps(g0, q, 0)
    BY DEF FlatSteps
  <2> QED BY <2>1
<1>2. ASSUME NEW m \in Nat, m \in S PROVE m + 1 \in S
  <2>1. PICK g : FlatSteps(g, q, m)
    BY <1>2
  <2> DEFINE h == [i \in 1..(m + 1) |-> IF i <= m THEN g[i] ELSE FlatStep(g, q, m + 1)]
  <2>2. ASSUME NEW i \in 1..(m + 1) PROVE h[i] = FlatStep(h, q, i)
    <3>1. \A j \in 1..m : g[j] = FlatStep(g, q, j)
      BY <2>1 DEF FlatSteps
    <3>2. h[i] = FlatStep(g, q, i)
      <4>1. CASE i <= m
        <5>1. i \in 1..m
          BY <4>1
        <5> QED BY <3>1, <4>1, <5>1
      <4>2. CASE i = m + 1
        BY <4>2
      <4> QED BY <4>1, <4>2
    <3>3. i # 1 => h[i - 1] = g[i - 1]
      OBVIOUS
    <3> QED BY <3>2, <3>3 DEF FlatStep
  <2>3. FlatSteps(h, q, m + 1)
    <3> DEFINE k == [i \in 1..(m + 1) |-> FlatStep(h, q, i)]
    <3>1. DOMAIN h = 1..(m + 1) /\ \A i \in 1..(m + 1) : h[i] = k[i]
      BY <2>2
    <3>2. h = k
      BY <3>1
    <3> QED BY <3>2 DEF FlatSteps
  <2> HIDE DEF h
  <2> QED BY <2>3
<1> HIDE DEF S
<1>3. \A m \in Nat : m \in S
  BY <1>1, <1>2, NumberInduction
<1> QED BY <1>3 DEF S

\* The effects of all networks, one after another.
LEMMA FlattenTyped ==
  ASSUME NEW S, NEW N \in Nat, NEW q \in [1..N -> Seq(S)]
  PROVE  FlattenSeq(q) \in Seq(S)
<1>0. q \in Seq(Seq(S)) /\ Len(q) = N
  OBVIOUS
<1>1. CASE N = 0
  <2>1. q = << >>
    BY <1>0, <1>1
  <2>2. FlattenSeq(q) = << >>
    BY <1>0, <1>1, <2>1 DEF FlattenSeq
  <2> QED BY <2>2
<1>2. CASE N # 0
  <2>1. \E g : FlatSteps(g, q, N)
    BY FlatExists
  <2>2. PICK flat : FlatSteps(flat, q, N) /\ FlattenSeq(q) = flat[N]
    BY <1>0, <1>2, <2>1 DEF FlattenSeq, FlatSteps, FlatStep
  <2>3. \A m \in 1..N : flat[m] = FlatStep(flat, q, m)
    BY <2>2 DEF FlatSteps
  <2> DEFINE G == {m \in Nat : m + 1 <= N => flat[m + 1] \in Seq(S)}
  <2>4. 0 \in G
    <3>1. 0 + 1 = 1 /\ 1 \in 1..N
      BY <1>2
    <3>2. flat[1] = q[1] /\ q[1] \in Seq(S)
      BY <2>3, <3>1 DEF FlatStep
    <3> QED BY <3>1, <3>2
  <2>5. ASSUME NEW m \in Nat, m \in G PROVE m + 1 \in G
    <3> SUFFICES ASSUME m + 1 + 1 <= N PROVE flat[m + 1 + 1] \in Seq(S)
      OBVIOUS
    <3>1. flat[m + 1] \in Seq(S) /\ m + 1 + 1 \in 1..N /\ m + 1 + 1 # 1 /\ m + 1 + 1 - 1 = m + 1
      BY <2>5
    <3> DEFINE i == m + 1 + 1
               j == m + 1
    <3>2. flat[j] \in Seq(S) /\ i \in 1..N /\ i # 1 /\ i - 1 = j
      BY <3>1
    <3> HIDE DEF i, j
    <3>3. flat[i] = FlatStep(flat, q, i)
      BY <2>3, <3>2
    <3>4. flat[i] = flat[j] \o q[i]
      BY <3>2, <3>3 DEF FlatStep
    <3> DEFINE k == flat[j]
               x == q[i]
    <3>5. k \in Seq(S) /\ x \in Seq(S)
      BY <3>2
    <3> HIDE DEF k, x
    <3>6. k \o x \in Seq(S)
      BY <3>5
    <3>7. flat[i] \in Seq(S)
      BY <3>4, <3>6 DEF k, x
    <3> QED BY <3>7 DEF i
  <2> HIDE DEF G
  <2>6. N - 1 \in Nat /\ N - 1 + 1 = N
    BY <1>2
  <2>7. N - 1 \in G
    BY <2>4, <2>5, <2>6, NumberInduction
  <2>8. flat[N] \in Seq(S)
    BY <2>6, <2>7 DEF G
  <2> QED BY <2>2, <2>8
<1> QED BY <1>1, <1>2

\* More is safe, more sequences of it are.
LEMMA SeqMonotone ==
  ASSUME NEW S, NEW T, S \subseteq T, NEW s \in Seq(S)
  PROVE  s \in Seq(T)
OBVIOUS

------------------------------------------------------------------------------
(* Changes that keep the labs good.                                        *)

\* Records go, or become patched, and no owner goes that is still used.
LEMMA FewerGood ==
  ASSUME NEW N, NEW F, NEW P, NEW D, Good(N, F, P, D),
         NEW M \in [Labs -> NetMaps], NEW G \in [Labs -> States],
         NEW Q, P \subseteq Q, NEW E, D \subseteq E,
         RecordsOf(M, G) \subseteq RecordsOf(N, F),
         \A c \in RecordsOf(M, G) \ Q : At(M, c) = At(N, c),
         \A d \in RecordsOf(M, G) \ Q :
           IsRef(At(N, d)) /\ At(N, d).shared[1] \notin E
             /\ At(N, d).shared \in RecordsOf(N, F) /\ IsOwner(At(N, At(N, d).shared))
             => At(N, d).shared \in RecordsOf(M, G)
  PROVE  Good(M, G, Q, E)
<1>1. DisjointIn(M, G, Q)
  <2> SUFFICES ASSUME NEW c \in RecordsOf(M, G) \ Q, NEW d \in RecordsOf(M, G) \ Q,
                      c # d, IsOwner(At(M, c)), IsOwner(At(M, d))
               PROVE  At(M, c).cidr \cap At(M, d).cidr = {}
    BY DEF DisjointIn
  <2>1. At(M, c) = At(N, c) /\ At(M, d) = At(N, d)
    OBVIOUS
  <2>2. c \in RecordsOf(N, F) \ P /\ d \in RecordsOf(N, F) \ P
    OBVIOUS
  <2> QED BY <2>1, <2>2 DEF Good, DisjointIn
<1>2. OwnedIn(M, G, Q, E)
  <2> SUFFICES ASSUME NEW d \in RecordsOf(M, G) \ Q, IsRef(At(M, d)),
                      At(M, d).shared \notin Q, At(M, d).shared[1] \notin E
               PROVE  OwnerFor(M, G, At(M, d).shared, At(M, d))
    BY DEF OwnedIn
  <2> DEFINE c == At(N, d).shared
  <2>1. At(M, d) = At(N, d) /\ d \in RecordsOf(N, F) \ P
    OBVIOUS
  <2>2. c \notin P /\ c[1] \notin D
    BY <2>1
  <2>3. OwnerFor(N, F, c, At(N, d))
    BY <2>1, <2>2 DEF Good, OwnedIn
  <2>4. c \in RecordsOf(M, G)
    BY <2>1, <2>3 DEF OwnerFor
  <2>5. At(M, c) = At(N, c)
    BY <2>1, <2>4
  <2> QED BY <2>1, <2>3, <2>4, <2>5 DEF OwnerFor
<1> QED BY <1>1, <1>2 DEF Good

\* A record comes, with a subnet of its own or the one of its owner.
LEMMA OneMoreGood ==
  ASSUME NEW N, NEW F, NEW P, NEW D, Good(N, F, P, D),
         NEW M \in [Labs -> NetMaps], NEW G \in [Labs -> States], NEW x,
         RecordsOf(M, G) = RecordsOf(N, F) \cup {x},
         \A c \in RecordsOf(N, F) : At(M, c) = At(N, c),
         \A c \in RecordsOf(N, F) :
           IsOwner(At(N, c)) /\ IsOwner(At(M, x)) => At(N, c).cidr \cap At(M, x).cidr = {},
         IsRef(At(M, x)) => OwnerFor(N, F, At(M, x).shared, At(M, x))
  PROVE  Good(M, G, P, D)
<1>1. DisjointIn(M, G, P)
  <2> SUFFICES ASSUME NEW c \in RecordsOf(M, G) \ P, NEW d \in RecordsOf(M, G) \ P,
                      c # d, IsOwner(At(M, c)), IsOwner(At(M, d))
               PROVE  At(M, c).cidr \cap At(M, d).cidr = {}
    BY DEF DisjointIn
  <2>1. CASE c # x /\ d # x
    <3>1. c \in RecordsOf(N, F) \ P /\ d \in RecordsOf(N, F) \ P
      BY <2>1
    <3>2. At(M, c) = At(N, c) /\ At(M, d) = At(N, d)
      BY <3>1
    <3> QED BY <3>1, <3>2 DEF Good, DisjointIn
  <2>2. CASE c = x
    <3>1. d \in RecordsOf(N, F) /\ At(M, d) = At(N, d)
      BY <2>2
    <3>2. At(N, d).cidr \cap At(M, x).cidr = {}
      BY <2>2, <3>1
    <3> QED BY <2>2, <3>1, <3>2
  <2>3. CASE d = x
    <3>1. c \in RecordsOf(N, F) /\ At(M, c) = At(N, c)
      BY <2>3
    <3>2. At(N, c).cidr \cap At(M, x).cidr = {}
      BY <2>3, <3>1
    <3> QED BY <2>3, <3>1, <3>2
  <2> QED BY <2>1, <2>2, <2>3
<1>2. ASSUME NEW c, NEW r, OwnerFor(N, F, c, r) PROVE OwnerFor(M, G, c, r)
  BY <1>2 DEF OwnerFor
<1>3. OwnedIn(M, G, P, D)
  <2> SUFFICES ASSUME NEW d \in RecordsOf(M, G) \ P, IsRef(At(M, d)),
                      At(M, d).shared \notin P, At(M, d).shared[1] \notin D
               PROVE  OwnerFor(M, G, At(M, d).shared, At(M, d))
    BY DEF OwnedIn
  <2>1. CASE d = x
    BY <1>2, <2>1
  <2>2. CASE d # x
    <3>1. d \in RecordsOf(N, F) \ P /\ At(M, d) = At(N, d)
      BY <2>2
    <3>2. OwnerFor(N, F, At(N, d).shared, At(N, d))
      BY <3>1 DEF Good, OwnedIn
    <3> QED BY <1>2, <3>1, <3>2
  <2> QED BY <2>1, <2>2
<1> QED BY <1>1, <1>3 DEF Good

------------------------------------------------------------------------------
(* Carrying out an effect.                                                 *)

\* Rewriting a lab as it is changes nothing.
LEMMA RewriteAsIs ==
  ASSUME NEW N, NEW F, NEW P, NEW D, Good(N, F, P, D), NEW e, e.on \in Labs,
         e.do = "save", F[e.on] = "ok", e.arg = N[e.on]
  PROVE  NetsWith(e, N) = N /\ FileWith(e, F) = F
<1>1. N \in [Labs -> NetMaps] /\ F \in [Labs -> States]
  BY DEF Good
<1> HIDE DEF NetMaps, States
<1> QED BY <1>1 DEF NetsWith, FileWith

\* The later of two effects on one lab is the one that counts.
LEMMA LastCounts ==
  ASSUME NEW N \in [Labs -> NetMaps], NEW F \in [Labs -> States],
         NEW e, NEW x, e.on \in Labs, x.on = e.on
  PROVE  /\ NetsWith(x, NetsWith(e, N)) = NetsWith(x, N)
         /\ FileWith(x, FileWith(e, F)) = FileWith(x, F)
BY DEF NetsWith, FileWith

\* Once a safe effect on a file is carried out, the labs are good and what
\* was safe still is.
LEMMA EffectKeeps ==
  ASSUME NEW N, NEW F, NEW P, NEW D, NEW l, Good(N, F, P, D),
         NEW e \in SafeEffects(N, F, P, D, l), e.do \in {"save", "unlink"}
  PROVE  /\ Good(NetsWith(e, N), FileWith(e, F), P, D)
         /\ SafeEffects(N, F, P, D, l)
              \subseteq SafeEffects(NetsWith(e, N), FileWith(e, F), P, D, l)
<1>0. N \in [Labs -> NetMaps] /\ F \in [Labs -> States]
  BY DEF Good
<1>1. /\ e.on \in Labs
      /\ \/ e.on = l /\ Good(NetsWith(e, N), FileWith(e, F), P, D)
         \/ e.do = "save" /\ F[e.on] = "ok" /\ e.arg = N[e.on]
  BY DEF SafeEffects, Harmless
<1>2. CASE e.do = "save" /\ F[e.on] = "ok" /\ e.arg = N[e.on]
  <2>1. NetsWith(e, N) = N /\ FileWith(e, F) = F
    BY <1>1, <1>2, RewriteAsIs
  <2> QED BY <2>1
<1>3. CASE e.on = l /\ Good(NetsWith(e, N), FileWith(e, F), P, D)
  <2> SUFFICES ASSUME NEW x \in SafeEffects(N, F, P, D, l), x.do \in {"save", "unlink"}
               PROVE  Harmless(x, NetsWith(e, N), FileWith(e, F), P, D, l)
    BY <1>3 DEF SafeEffects, Harmless
  <2>1. /\ x.on \in Labs
        /\ \/ x.on = l /\ Good(NetsWith(x, N), FileWith(x, F), P, D)
           \/ x.do = "save" /\ F[x.on] = "ok" /\ x.arg = N[x.on]
    BY DEF SafeEffects, Harmless
  <2>2. CASE x.on = l
    <3>1. Good(NetsWith(x, N), FileWith(x, F), P, D)
      <4>1. CASE x.do = "save" /\ F[x.on] = "ok" /\ x.arg = N[x.on]
        <5>1. NetsWith(x, N) = N /\ FileWith(x, F) = F
          BY <2>1, <4>1, RewriteAsIs
        <5> QED BY <5>1
      <4> QED BY <2>1, <4>1
    <3>2. /\ NetsWith(x, NetsWith(e, N)) = NetsWith(x, N)
          /\ FileWith(x, FileWith(e, F)) = FileWith(x, F)
      BY <1>0, <1>1, <1>3, <2>2, LastCounts
    <3> QED BY <2>1, <2>2, <3>1, <3>2 DEF Harmless
  <2>3. CASE x.on # l
    <3>1. x.do = "save" /\ F[x.on] = "ok" /\ x.arg = N[x.on]
      BY <2>1, <2>3
    <3>2. FileWith(e, F)[x.on] = F[x.on] /\ NetsWith(e, N)[x.on] = N[x.on]
      BY <1>0, <1>3, <2>1, <2>3 DEF NetsWith, FileWith
    <3> QED BY <2>1, <3>1, <3>2 DEF Harmless
  <2> QED BY <2>2, <2>3
<1> QED BY <1>1, <1>2, <1>3

\* Effects on the host are safe.
LEMMA HostEffectSafe ==
  ASSUME NEW do \in HostCommands \cup {"disown"}, NEW on \in Labs \cup Names \cup {HostBr},
         NEW arg \in {None} \cup (SUBSET Nat) \cup Cloud, NEW n \in Nat,
         NEW N, NEW F, NEW P, NEW D, NEW l
  PROVE  Effect(do, on, arg, n) \in SafeEffects(N, F, P, D, l)
<1>1. Effect(do, on, arg, n) \in Effects
  BY DEF Effect, Effects, HostCommands
<1>2. Effect(do, on, arg, n).do = do /\ do \notin {"save", "unlink"}
  BY DEF Effect, HostCommands
<1> QED BY <1>1, <1>2 DEF SafeEffects, Harmless

\* A handler that writes its own lab so that the labs are good is safe.
LEMMA WriteSafe ==
  ASSUME NEW N, NEW F, NEW P, NEW D, NEW l \in Labs, NEW new \in NetMaps,
         Good([N EXCEPT ![l] = new], [F EXCEPT ![l] = "ok"], P, D)
  PROVE  Write(l, new) \in Seq(SafeEffects(N, F, P, D, l))
<1> DEFINE e == Effect("save", l, new, 0)
<1>1. e \in Effects /\ e.do = "save" /\ e.on = l /\ e.arg = new
  BY DEF Effect, Effects
<1>2. Write(l, new) = <<e>>
  BY DEF Write
<1> HIDE DEF e
<1>3. NetsWith(e, N) = [N EXCEPT ![l] = new] /\ FileWith(e, F) = [F EXCEPT ![l] = "ok"]
  BY <1>1 DEF NetsWith, FileWith
<1>4. e \in SafeEffects(N, F, P, D, l)
  BY <1>1, <1>3 DEF SafeEffects, Harmless
<1> QED BY <1>2, <1>4

\* So is rewriting a lab, of whatever handler, as it is.
LEMMA RewriteSafe ==
  ASSUME NEW N \in [Labs -> NetMaps], NEW F, NEW P, NEW D, NEW l, NEW k \in Labs, F[k] = "ok"
  PROVE  Write(k, N[k]) \in Seq(SafeEffects(N, F, P, D, l))
<1> DEFINE e == Effect("save", k, N[k], 0)
<1>0. N[k] \in NetMaps
  OBVIOUS
<1>1. e \in Effects /\ e.do = "save" /\ e.on = k /\ e.arg = N[k]
  BY <1>0 DEF Effect, Effects
<1>2. Write(k, N[k]) = <<e>>
  BY DEF Write
<1> HIDE DEF e
<1>4. e \in SafeEffects(N, F, P, D, l)
  BY <1>1 DEF SafeEffects, Harmless
<1> QED BY <1>2, <1>4

\* And removing its own lab.
LEMMA UnlinkSafe ==
  ASSUME NEW N, NEW F, NEW P, NEW D, NEW l \in Labs,
         Good([N EXCEPT ![l] = << >>], [F EXCEPT ![l] = "gone"], P, D)
  PROVE  <<Effect("unlink", l, None, 0)>> \in Seq(SafeEffects(N, F, P, D, l))
<1> DEFINE e == Effect("unlink", l, None, 0)
<1>1. e \in Effects /\ e.do = "unlink" /\ e.on = l
  BY DEF Effect, Effects
<1> HIDE DEF e
<1>2. NetsWith(e, N) = [N EXCEPT ![l] = << >>] /\ FileWith(e, F) = [F EXCEPT ![l] = "gone"]
  BY <1>1 DEF NetsWith, FileWith
<1>3. e \in SafeEffects(N, F, P, D, l)
  BY <1>1, <1>2 DEF SafeEffects, Harmless
<1> QED BY <1>3 DEF e

------------------------------------------------------------------------------
(* The effects of the handlers are safe.                                   *)

\* Two sequences of safe effects, one after the other.
LEMMA Joined ==
  ASSUME NEW S, NEW s \in Seq(S), NEW t \in Seq(S)
  PROVE  s \o t \in Seq(S)
OBVIOUS

\* A handler that does nothing.
LEMMA NoEffect ==
  ASSUME NEW S
  PROVE  << >> \in Seq(S)
OBVIOUS

\* The commands of the privileged helper that a handler calls.
LEMMA CommandsSafe ==
  ASSUME NEW N, NEW F, NEW P, NEW D, NEW l, NEW b \in Names \cup {HostBr}, NEW c \in Cloud,
         NEW cidr \in SUBSET Nat, NEW n \in Ids
  PROVE  /\ AddBridge(b, n) \in Seq(SafeEffects(N, F, P, D, l))
         /\ Own(b, c) \in Seq(SafeEffects(N, F, P, D, l))
         /\ Drop(b) \in Seq(SafeEffects(N, F, P, D, l))
         /\ Unroute(b) \in Seq(SafeEffects(N, F, P, D, l))
         /\ Route(b, cidr, n) \in Seq(SafeEffects(N, F, P, D, l))
<1> DEFINE S == SafeEffects(N, F, P, D, l)
<1>0. n \in Nat /\ c[2] \in Nat
  BY CloudConstants DEF Ids, Cloud
<1>1. Effect("add", b, None, n) \in S
  BY <1>0, HostEffectSafe DEF HostCommands
<1>2. Effect("own", b, c, c[2]) \in S
  BY <1>0, HostEffectSafe DEF HostCommands
<1>3. Effect("drop", b, None, 0) \in S
  BY HostEffectSafe DEF HostCommands
<1>4. Effect("unroute", b, None, 0) \in S
  BY HostEffectSafe DEF HostCommands
<1>5. Effect("route", b, cidr, n) \in S
  BY <1>0, HostEffectSafe DEF HostCommands
<1> HIDE DEF S
<1>6. AddBridge(b, n) \in Seq(S)
  BY <1>1 DEF AddBridge
<1>7. Own(b, c) \in Seq(S)
  BY <1>2 DEF Own
<1>8. Drop(b) \in Seq(S)
  BY <1>3 DEF Drop
<1>9. Unroute(b) \in Seq(S)
  BY <1>4 DEF Unroute
<1>10. Route(b, cidr, n) \in Seq(S)
  BY <1>5 DEF Route
<1> QED BY <1>6, <1>7, <1>8, <1>9, <1>10 DEF S

\* What is read of the labs: the records, and the networks of one of them.
LEMMA Reading ==
  ASSUME Good(nets, file, patched, damaged)
  PROVE  /\ Records = RecordsOf(nets, file)
         /\ \A c : Rec(c) = At(nets, c)
         /\ \A l \in Labs : nets[l] \in NetMaps /\ NetIds(l) \in SUBSET Ids
         /\ \A l \in Labs : \A n \in NetIds(l) : nets[l][n] \in NetRecord
         /\ \A c \in Records : Rec(c) \in NetRecord
<1>1. nets \in [Labs -> NetMaps] /\ file \in [Labs -> States]
  BY DEF Good
<1>2. Records = RecordsOf(nets, file)
  BY <1>1 DEF Records, RecordsOf, Readable, NetIds, Cloud
<1>3. \A c : Rec(c) = At(nets, c)
  BY DEF Rec, At
<1>4. ASSUME NEW l \in Labs
      PROVE  nets[l] \in NetMaps /\ NetIds(l) \in SUBSET Ids
             /\ \A n \in NetIds(l) : nets[l][n] \in NetRecord
  <2>1. nets[l] \in NetMaps
    BY <1>1
  <2>2. PICK K \in SUBSET Ids : nets[l] \in [K -> NetRecord]
    BY <2>1 DEF NetMaps
  <2> QED BY <2>1, <2>2 DEF NetIds
<1>5. ASSUME NEW c \in Records PROVE Rec(c) \in NetRecord
  <2>1. c[1] \in Labs /\ c[2] \in NetIds(c[1])
    BY DEF Records, Cloud
  <2> QED BY <1>4, <2>1 DEF Rec
<1> QED BY <1>2, <1>3, <1>4, <1>5

\* The handler that is none.
LEMMA IdleTyped ==
  Idle \in Ops /\ Idle.todo = << >> /\ Idle.undo = << >>
<1> DEFINE z == << >>
<1>1. z \in Seq(Effects)
  OBVIOUS
<1>2. Idle = [kind |-> "idle", lab |-> None, net |-> 0, todo |-> z, undo |-> z, clean |-> TRUE]
  BY DEF Idle
<1> HIDE DEF z
<1>3. Idle.todo = z /\ Idle.undo = z
  BY <1>2
<1>4. Idle \in Ops
  BY <1>1, <1>2 DEF Ops, Kinds
<1> QED BY <1>3, <1>4 DEF z

\* Good labs and no handler.
LEMMA AtRest ==
  ASSUME hash' \in [Labs -> Hashes], Good(nets', file', patched', damaged'), op' = Idle
  PROVE  CloudInv'
<1>1. op' \in Ops /\ op'.todo = << >> /\ op'.undo = << >>
  BY IdleTyped
<1>2. << >> \in Seq(Safe')
  BY NoEffect
<1> QED BY <1>1, <1>2 DEF CloudInv

\* A handler begins, with safe effects to carry out and to roll back.
LEMMA BeginKeeps ==
  ASSUME CloudInv, NEW kind \in Kinds, NEW l \in Labs, NEW n \in Nat, NEW todo, NEW undo,
         Begin(kind, l, n, todo, undo), UNCHANGED <<hash, file, nets, damaged>>,
         Good(nets, file, patched', damaged),
         todo \in Seq(SafeEffects(nets, file, patched', damaged, l)),
         undo \in Seq(SafeEffects(nets, file, patched', damaged, l))
  PROVE  CloudInv'
<1> DEFINE S == SafeEffects(nets, file, patched', damaged, l)
<1>1. S \subseteq Effects
  BY DEF SafeEffects
<1>2. todo \in Seq(S) /\ undo \in Seq(S)
  OBVIOUS
<1>3. todo \in Seq(Effects) /\ undo \in Seq(Effects)
  <2> HIDE DEF S
  <2> QED BY <1>1, <1>2, SeqMonotone
<1>4. CASE todo = << >>
  <2>1. op' = Idle
    BY <1>4 DEF Begin, Continue
  <2> QED BY <2>1, AtRest DEF CloudInv
<1>5. CASE todo # << >>
  <2> DEFINE o == [kind |-> kind, lab |-> l, net |-> n, todo |-> todo,
                   undo |-> undo, clean |-> TRUE]
  <2>1. op' = o
    BY <1>5 DEF Begin, Continue
  <2>2. op' \in Ops /\ op'.todo = todo /\ op'.undo = undo /\ op'.lab = l
    BY <1>3, <2>1 DEF Ops
  <2>3. Safe' = S
    BY <2>2 DEF Safe
  <2> HIDE DEF S, o
  <2> QED BY <1>2, <2>2, <2>3 DEF CloudInv
<1> QED BY <1>4, <1>5

\* A handler goes on, with safe effects to carry out and to roll back.
LEMMA ContinueKeeps ==
  ASSUME hash' \in [Labs -> Hashes], Good(nets', file', patched', damaged'),
         NEW o \in Ops, NEW todo, NEW S,
         S = SafeEffects(nets', file', patched', damaged', o.lab),
         todo \in Seq(S), o.undo \in Seq(S), op' = Continue(todo, o)
  PROVE  CloudInv'
<1>1. S \subseteq Effects
  BY DEF SafeEffects
<1>2. todo \in Seq(Effects)
  BY <1>1, SeqMonotone
<1>3. CASE todo = << >>
  <2>1. op' = Idle
    BY <1>3 DEF Continue
  <2> QED BY <2>1, AtRest
<1>4. CASE todo # << >>
  <2>1. op' = [o EXCEPT !.todo = todo]
    BY <1>4 DEF Continue
  <2>2. op' \in Ops /\ op'.todo = todo /\ op'.undo = o.undo /\ op'.lab = o.lab
    BY <1>2, <2>1 DEF Ops
  <2>3. Safe' = S
    BY <2>2 DEF Safe
  <2> QED BY <2>2, <2>3 DEF CloudInv
<1> QED BY <1>3, <1>4

\* The effects that remain are safe, the forgetting of a fingerprint included.
LEMMA RestSafe ==
  ASSUME CloudInv, op.todo # << >>
  PROVE  /\ Head(op.todo) \in Safe /\ Tail(op.todo) \in Seq(Safe)
         /\ Rest(Head(op.todo)) \in Seq(Safe)
<1> DEFINE e == Head(op.todo)
           S == Safe
<1>0. op.todo \in Seq(S)
  BY DEF CloudInv
<1>1. e \in S /\ Tail(op.todo) \in Seq(S)
  <2> HIDE DEF S
  <2> QED BY <1>0
<1>2. e \in Effects
  BY <1>1 DEF Safe, SafeEffects
<1>3. e.on \in Labs \cup Names \cup {HostBr}
  BY <1>2 DEF Effects
<1>4. Effect("disown", e.on, None, 0) \in S
  BY <1>3, HostEffectSafe DEF Safe
<1> DEFINE d == Effect("disown", e.on, None, 0)
           t == Tail(op.todo)
<1>5. Rest(e) = IF e.do = "drop" THEN <<d>> \o t ELSE t
  BY DEF Rest
<1>6. d \in S /\ t \in Seq(S)
  BY <1>1, <1>4
<1> HIDE DEF d, t, S, e
<1>7. <<d>> \in Seq(S)
  BY <1>6
<1>8. <<d>> \o t \in Seq(S)
  BY <1>6, <1>7, Joined
<1>9. Rest(e) \in Seq(S)
  BY <1>5, <1>6, <1>8
<1> QED BY <1>1, <1>9 DEF S, e, t

\* A handler carries out an effect.
LEMMA StepKeeps ==
  ASSUME CloudInv, Step
  PROVE  CloudInv'
<1> DEFINE e == Head(op.todo)
           S == SafeEffects(nets', file', patched', damaged', op.lab)
<1>1. /\ op.todo # << >> /\ file' = FileAfter(e) /\ nets' = NetsAfter(e)
      /\ op' = Continue(Rest(e), op) /\ hash' = hash /\ patched' = patched /\ damaged' = damaged
  BY DEF Step, history
<1>2. e \in Safe /\ Rest(e) \in Seq(Safe)
  BY <1>1, RestSafe
<1>3. Good(nets, file, patched, damaged) /\ op \in Ops /\ op.undo \in Seq(Safe)
      /\ hash \in [Labs -> Hashes]
  BY DEF CloudInv
<1> HIDE DEF e
<1>4. Good(nets', file', patched', damaged') /\ Safe \subseteq S
  <2>1. CASE e.do \in {"save", "unlink"}
    <3>1. nets' = NetsWith(e, nets) /\ file' = FileWith(e, file)
      BY <1>1, <2>1 DEF NetsAfter, FileAfter, NetsWith, FileWith
    <3>2. e \in SafeEffects(nets, file, patched, damaged, op.lab)
      BY <1>2 DEF Safe
    <3>3. /\ Good(NetsWith(e, nets), FileWith(e, file), patched, damaged)
          /\ SafeEffects(nets, file, patched, damaged, op.lab)
             \subseteq SafeEffects(NetsWith(e, nets), FileWith(e, file), patched, damaged, op.lab)
      BY <1>3, <2>1, <3>2, EffectKeeps
    <3> QED BY <1>1, <3>1, <3>3 DEF Safe
  <2>2. CASE e.do \notin {"save", "unlink"}
    <3>1. nets' = nets /\ file' = file
      BY <1>1, <2>2 DEF NetsAfter, FileAfter
    <3> QED BY <1>1, <1>3, <3>1 DEF Safe
  <2> QED BY <2>1, <2>2
<1>5. hash' \in [Labs -> Hashes]
  BY <1>1, <1>3
<1>6. Rest(e) \in Seq(S) /\ op.undo \in Seq(S)
  <2> HIDE DEF S
  <2> QED BY <1>2, <1>3, <1>4, SeqMonotone
<1>7. S = SafeEffects(nets', file', patched', damaged', op.lab)
  OBVIOUS
<1> HIDE DEF S
<1> QED BY <1>1, <1>3, <1>4, <1>5, <1>6, <1>7, ContinueKeeps

\* A host command fails, and the handler goes on as its error path says.
LEMMA StepFailsKeeps ==
  ASSUME CloudInv, StepFails
  PROVE  CloudInv'
<1> DEFINE e == Head(op.todo)
           t == Tail(op.todo)
           S == Safe
<1>1. /\ op.todo # << >> /\ op' = AfterFailure(e)
      /\ UNCHANGED <<hash, file, nets, patched, damaged>>
  BY DEF StepFails, history
<1>2. e \in S /\ t \in Seq(S)
  BY <1>1, RestSafe
<1>3. Good(nets', file', patched', damaged') /\ op \in Ops /\ op.undo \in Seq(S)
      /\ hash' \in [Labs -> Hashes]
  BY <1>1 DEF CloudInv
<1>4. S = SafeEffects(nets', file', patched', damaged', op.lab)
  BY <1>1 DEF Safe
<1>5. e.on \in Labs \cup Names \cup {HostBr}
  BY <1>2 DEF Safe, SafeEffects, Effects
<1>6. Drop(e.on) \in Seq(S)
  <2>1. Effect("drop", e.on, None, 0) \in S
    BY <1>5, HostEffectSafe DEF Safe, HostCommands
  <2> HIDE DEF S, e
  <2> QED BY <2>1 DEF Drop
<1> HIDE DEF e, t, S
<1>7. << >> \in Seq(S)
  BY NoEffect
<1>8. CASE op.kind = "create"
  <2> DEFINE d == IF e.do = "own" THEN Drop(e.on) ELSE << >>
             o == [op EXCEPT !.kind = "undo", !.clean = FALSE]
  <2>1. op' = Continue(d \o op.undo, o)
    BY <1>1, <1>8 DEF AfterFailure, e
  <2>2. o \in Ops /\ o.lab = op.lab /\ o.undo = op.undo
    BY <1>3 DEF Ops, Kinds
  <2>3. d \in Seq(S)
    BY <1>6, <1>7
  <2> HIDE DEF d, o
  <2>4. d \o op.undo \in Seq(S)
    BY <1>3, <2>3, Joined
  <2> QED BY <1>3, <1>4, <2>1, <2>2, <2>4, ContinueKeeps
<1> DEFINE o == [op EXCEPT !.clean = FALSE]
<1>9. o \in Ops /\ o.lab = op.lab /\ o.undo = op.undo
  BY <1>3 DEF Ops
<1>10. CASE op.kind = "ensure" /\ e.do = "own"
  <2>1. op' = Idle
    BY <1>1, <1>10 DEF AfterFailure, e
  <2> QED BY <1>3, <2>1, AtRest
<1>11. CASE op.kind = "ensure" /\ e.do # "own"
  <2>1. op' = Continue(ForOthers(t, e.net), o)
    BY <1>1, <1>11 DEF AfterFailure, e, t
  <2>2. ForOthers(t, e.net) \in Seq(S)
    BY <1>2, ForOthersTyped
  <2> HIDE DEF o
  <2> QED BY <1>3, <1>4, <1>9, <2>1, <2>2, ContinueKeeps
<1>12. CASE op.kind # "create" /\ op.kind # "ensure"
  <2>1. op' = Continue(t, o)
    BY <1>1, <1>12 DEF AfterFailure, e, t
  <2> HIDE DEF o
  <2> QED BY <1>2, <1>3, <1>4, <1>9, <2>1, ContinueKeeps
<1> QED BY <1>8, <1>10, <1>11, <1>12

\* The teardown of one record.
LEMMA TeardownSafe ==
  ASSUME NEW N, NEW F, NEW P, NEW D, NEW l, NEW r \in NetRecord
  PROVE  Teardown(r) \in Seq(SafeEffects(N, F, P, D, l))
<1> DEFINE S == SafeEffects(N, F, P, D, l)
           b == r.bridge
<1>1. b \in Labs \cup Names \cup {HostBr}
  BY DEF NetRecord, Fields
<1>2. Effect("drop", b, None, 0) \in S /\ Effect("unroute", b, None, 0) \in S
  BY <1>1, HostEffectSafe DEF HostCommands
<1> HIDE DEF S
<1>3. Drop(b) \in Seq(S) /\ Unroute(b) \in Seq(S) /\ << >> \in Seq(S)
  BY <1>2 DEF Drop, Unroute
<1> DEFINE u == IF IsNat(r) THEN Unroute(b) ELSE << >>
<1>4. u \in Seq(S)
  BY <1>3
<1>5. Teardown(r) = IF r.type = "bridge_cloud" \/ IsRef(r) THEN << >> ELSE u \o Drop(b)
  BY DEF Teardown
<1> HIDE DEF u, b
<1>6. u \o Drop(b) \in Seq(S)
  BY <1>3, <1>4, Joined
<1>7. Teardown(r) \in Seq(S)
  BY <1>3, <1>5, <1>6
<1> QED BY <1>7 DEF S

\* W is what the networks of lab l become with record r as number n, or
\* without number n.
IsWith(W, l, n, r) == /\ W \in NetMaps /\ DOMAIN W = NetIds(l) \cup {n} /\ W[n] = r
                      /\ \A k \in NetIds(l) \ {n} : W[k] = nets[l][k]
IsWithout(W, l, n) == /\ W \in NetMaps /\ DOMAIN W = NetIds(l) \ {n}
                      /\ \A k \in NetIds(l) \ {n} : W[k] = nets[l][k]

\* The networks of a lab, with one more or one less.
LEMMA MapsTyped ==
  ASSUME Good(nets, file, patched, damaged), NEW l \in Labs, NEW n \in Ids, NEW r \in NetRecord
  PROVE  IsWith(With(l, n, r), l, n, r) /\ IsWithout(Without(l, n), l, n)
<1>1. NetIds(l) \in SUBSET Ids /\ \A k \in NetIds(l) : nets[l][k] \in NetRecord
  BY Reading
<1> HIDE DEF NetRecord, Fields, NetIds
<1>2. With(l, n, r) \in [NetIds(l) \cup {n} -> NetRecord] /\ NetIds(l) \cup {n} \in SUBSET Ids
  BY <1>1 DEF With
<1>3. Without(l, n) \in [NetIds(l) \ {n} -> NetRecord] /\ NetIds(l) \ {n} \in SUBSET Ids
  BY <1>1 DEF Without
<1>4. With(l, n, r) \in NetMaps /\ Without(l, n) \in NetMaps
  BY <1>2, <1>3 DEF NetMaps
<1>5. With(l, n, r)[n] = r /\ \A k \in NetIds(l) \ {n} : With(l, n, r)[k] = nets[l][k]
  BY DEF With
<1>6. \A k \in NetIds(l) \ {n} : Without(l, n)[k] = nets[l][k]
  BY DEF Without
<1>7. DOMAIN With(l, n, r) = NetIds(l) \cup {n} /\ DOMAIN Without(l, n) = NetIds(l) \ {n}
  BY DEF With, Without
<1> QED BY <1>4, <1>5, <1>6, <1>7 DEF IsWith, IsWithout

\* create_network takes an id that no network of the lab has.
LEMMA NextIdFresh ==
  ASSUME Good(nets, file, patched, damaged), NEW l \in Labs
  PROVE  NextId(l) \in Nat \ {0} /\ NextId(l) \notin NetIds(l)
<1>1. NetIds(l) \in SUBSET Ids /\ Ids \subseteq Nat \ {0}
  BY Reading, CloudConstants DEF Ids
<1>2. CASE NetIds(l) = {}
  BY <1>2 DEF NextId
<1>3. CASE NetIds(l) # {}
  <2> DEFINE m == Max(NetIds(l))
  <2>1. m \in NetIds(l) /\ \A x \in NetIds(l) : x <= m
    BY <1>1, <1>3, MaxOfIds
  <2>2. NextId(l) = m + 1
    BY <1>3 DEF NextId
  <2> HIDE DEF m
  <2>0. m \in Nat \ {0}
    <3> HIDE DEF NetIds, Ids
    <3> QED BY <1>1, <2>1
  <2>3. m \in Nat /\ m + 1 \in Nat \ {0}
    BY <2>0
  <2>4. ASSUME m + 1 \in NetIds(l) PROVE FALSE
    <3>1. m + 1 <= m
      BY <2>1, <2>4
    <3> QED BY <2>3, <3>1
  <2> QED BY <2>2, <2>3, <2>4
<1> QED BY <1>2, <1>3

\* The first free block of the pool is free.
LEMMA AllocatedFree ==
  ASSUME NEW l, FreeBlocks(l) # {}
  PROVE  Allocated(l) \in SUBSET Nat /\ Allocated(l) \cap UsedBlocks(l) = {}
<1>1. FreeBlocks(l) \in SUBSET Nat
  BY CloudConstants DEF FreeBlocks, Blocks
<1>2. PICK m \in FreeBlocks(l) : \A n \in FreeBlocks(l) : m <= n
  BY <1>1, LeastNumber
<1>3. Min(FreeBlocks(l)) \in FreeBlocks(l)
  <2> DEFINE S == FreeBlocks(l)
  <2>1. \E x \in S : \A y \in S : x <= y
    BY <1>2
  <2> HIDE DEF S
  <2>2. Min(S) \in S
    BY <2>1 DEF Min
  <2> QED BY <2>2 DEF S
<1> QED BY <1>1, <1>3 DEF Allocated, FreeBlocks

\* The networks after lab l was saved with networks{} W.
Put(l, W) == [nets EXCEPT ![l] = W]

\* The records with one more.
LEMMA RecordsWith ==
  ASSUME Good(nets, file, patched, damaged), NEW l \in Readable, NEW n \in Ids \ NetIds(l),
         NEW r \in NetRecord
  PROVE  LET M == Put(l, With(l, n, r)) IN
         /\ M \in [Labs -> NetMaps] /\ [file EXCEPT ![l] = "ok"] = file
         /\ RecordsOf(M, file) = RecordsOf(nets, file) \cup {<<l, n>>} /\ At(M, <<l, n>>) = r
         /\ \A c \in RecordsOf(nets, file) : At(M, c) = At(nets, c)
<1> DEFINE W == With(l, n, r)
           M == Put(l, W)
           G == [file EXCEPT ![l] = "ok"]
           x == <<l, n>>
<1>0. /\ l \in Labs /\ file[l] = "ok" /\ nets \in [Labs -> NetMaps] /\ file \in [Labs -> States]
      /\ x \in Cloud /\ x[1] = l /\ x[2] = n
  BY DEF Readable, Good, Cloud
<1>1. /\ W \in NetMaps /\ DOMAIN W = NetIds(l) \cup {n} /\ W[n] = r
      /\ \A k \in NetIds(l) : W[k] = nets[l][k]
  <2>1. n \in Ids /\ NetIds(l) \ {n} = NetIds(l)
    OBVIOUS
  <2>2. IsWith(W, l, n, r)
    BY <1>0, <2>1, MapsTyped
  <2> HIDE DEF W
  <2> QED BY <2>1, <2>2 DEF IsWith
<1> HIDE DEF W, x
<1>2. G = file
  BY <1>0
<1>3. M \in [Labs -> NetMaps] /\ M[l] = W /\ \A k \in Labs : k # l => M[k] = nets[k]
  BY <1>0, <1>1 DEF Put
<1> HIDE DEF M, G
<1>4. RecordsOf(M, file) = RecordsOf(nets, file) \cup {x}
  <2>1. ASSUME NEW c \in Cloud PROVE c \in RecordsOf(M, file) <=> c \in RecordsOf(nets, file) \cup {x}
    <3>1. c[1] \in Labs /\ c[2] \in Ids /\ c = <<c[1], c[2]>>
      BY DEF Cloud
    <3>2. CASE c[1] = l
      <4>1. c \in RecordsOf(M, file) <=> c[2] \in NetIds(l) \cup {n}
        BY <1>0, <1>1, <1>3, <3>2 DEF RecordsOf
      <4>2. c \in RecordsOf(nets, file) <=> c[2] \in NetIds(l)
        BY <1>0, <3>2 DEF RecordsOf, NetIds
      <4>3. c = x <=> c[2] = n
        BY <1>0, <3>1, <3>2 DEF x
      <4> QED BY <4>1, <4>2, <4>3
    <3>3. CASE c[1] # l
      <4>1. c # x
        BY <1>0, <3>3
      <4> QED BY <1>3, <3>1, <3>3, <4>1 DEF RecordsOf
    <3> QED BY <3>2, <3>3
  <2>2. RecordsOf(M, file) \subseteq Cloud /\ RecordsOf(nets, file) \cup {x} \subseteq Cloud
    BY <1>0 DEF RecordsOf
  <2> QED BY <2>1, <2>2
<1>5. At(M, x) = r
  BY <1>0, <1>1, <1>3 DEF At
<1>6. ASSUME NEW c \in RecordsOf(nets, file) PROVE At(M, c) = At(nets, c)
  <2>1. c[1] \in Labs /\ c[2] \in DOMAIN nets[c[1]]
    BY DEF RecordsOf, Cloud
  <2>2. CASE c[1] = l
    BY <1>1, <1>3, <2>1, <2>2 DEF At, NetIds
  <2>3. CASE c[1] # l
    BY <1>3, <2>1, <2>3 DEF At
  <2> QED BY <2>2, <2>3
<1> QED BY <1>2, <1>3, <1>4, <1>5, <1>6 DEF M, W, G, x

\* The labs are good with one more record, of a subnet that overlaps no
\* owner's or of an owner that is there.
LEMMA CreatedGood ==
  ASSUME Good(nets, file, patched, damaged), NEW l \in Readable, NEW n \in Ids \ NetIds(l),
         NEW r \in NetRecord,
         IsOwner(r) => \A c \in Owners : Rec(c).cidr \cap r.cidr = {},
         IsRef(r) => /\ r.shared \in Owners /\ Rec(r.shared).bridge = r.bridge
                     /\ Rec(r.shared).cidr = r.cidr
  PROVE  Good([nets EXCEPT ![l] = With(l, n, r)], [file EXCEPT ![l] = "ok"], patched, damaged)
<1> DEFINE M == [nets EXCEPT ![l] = With(l, n, r)]
           x == <<l, n>>
<1>1. /\ M \in [Labs -> NetMaps] /\ [file EXCEPT ![l] = "ok"] = file
      /\ RecordsOf(M, file) = RecordsOf(nets, file) \cup {x} /\ At(M, x) = r
      /\ \A c \in RecordsOf(nets, file) : At(M, c) = At(nets, c)
  <2>1. M = Put(l, With(l, n, r))
    BY DEF Put
  <2> HIDE DEF M
  <2> QED BY <2>1, RecordsWith
<1> HIDE DEF M, x
<1>7. Records = RecordsOf(nets, file) /\ \A c : Rec(c) = At(nets, c)
  BY Reading
<1>8. ASSUME NEW c \in RecordsOf(nets, file), IsOwner(At(nets, c)), IsOwner(At(M, x))
      PROVE  At(nets, c).cidr \cap At(M, x).cidr = {}
  <2>1. c \in Owners /\ IsOwner(r)
    BY <1>1, <1>7, <1>8 DEF Owners
  <2>2. Rec(c).cidr \cap r.cidr = {}
    BY <2>1
  <2> QED BY <1>1, <1>7, <2>2
<1>9. ASSUME IsRef(At(M, x)) PROVE OwnerFor(nets, file, At(M, x).shared, At(M, x))
  <2>1. r.shared \in Owners /\ Rec(r.shared).bridge = r.bridge /\ Rec(r.shared).cidr = r.cidr
    BY <1>1, <1>9
  <2>2. r.shared \in RecordsOf(nets, file) /\ IsOwner(At(nets, r.shared))
    BY <1>7, <2>1 DEF Owners
  <2> QED BY <1>1, <1>7, <2>1, <2>2 DEF OwnerFor
<1>10. file \in [Labs -> States]
  BY DEF Good
<1>11. Good(M, file, patched, damaged)
  BY <1>1, <1>8, <1>9, <1>10, OneMoreGood
<1> QED BY <1>1, <1>11 DEF M

\* The commands of create_network.
LEMMA ProvisionSafe ==
  ASSUME Good(nets, file, patched, damaged), NEW l \in Readable, NEW n \in Ids,
         NEW r \in NetRecord, NEW S, S = SafeEffects(nets, file, patched, damaged, l),
         Write(l, With(l, n, r)) \in Seq(S)
  PROVE  Provision(l, n, r) \in Seq(S)
<1> DEFINE b == r.bridge
           c == <<l, n>>
<1>0. b \in Names \cup {HostBr} /\ r.cidr \in SUBSET Nat /\ l \in Labs /\ c \in Cloud
      /\ file[l] = "ok" /\ nets \in [Labs -> NetMaps]
  BY DEF NetRecord, Fields, Readable, Cloud, Good
<1>1. Write(l, nets[l]) \in Seq(S)
  BY <1>0, RewriteSafe
<1>2. /\ AddBridge(b, n) \in Seq(S) /\ Own(b, c) \in Seq(S)
      /\ Route(b, r.cidr, n) \in Seq(S)
  BY <1>0, CommandsSafe
<1> DEFINE bring == IF host[b].up THEN << >> ELSE AddBridge(b, n) \o Own(b, c)
           route == IF IsOwner(r) THEN Route(b, r.cidr, n) \o Write(l, With(l, n, r)) ELSE << >>
<1>3. Provision(l, n, r) = IF r.type = "bridge_cloud" \/ IsRef(r) THEN << >>
                           ELSE IF host[b].up /\ Fingerprint(b, c) # "match"
                                THEN Write(l, nets[l]) ELSE bring \o route
  BY DEF Provision
<1>4. AddBridge(b, n) \o Own(b, c) \in Seq(S) /\ Route(b, r.cidr, n) \o Write(l, With(l, n, r)) \in Seq(S)
  BY <1>2, Joined
<1>5. << >> \in Seq(S)
  BY NoEffect
<1>6. bring \in Seq(S) /\ route \in Seq(S)
  BY <1>4, <1>5
<1> HIDE DEF bring, route
<1>7. bring \o route \in Seq(S)
  BY <1>6, Joined
<1> QED BY <1>1, <1>3, <1>5, <1>7

\* create_network, of whatever kind.
LEMMA CreateRecordKeeps ==
  ASSUME CloudInv, NEW l \in Labs, NEW r \in NetRecord, CreateRecord(l, r),
         IsOwner(r) => \A c \in Owners : Rec(c).cidr \cap r.cidr = {},
         IsRef(r) => /\ r.shared \in Owners /\ Rec(r.shared).bridge = r.bridge
                     /\ Rec(r.shared).cidr = r.cidr
  PROVE  CloudInv'
<1> DEFINE n == NextId(l)
           S == SafeEffects(nets, file, patched, damaged, l)
           undo == Write(l, nets[l]) \o (IF IsOwner(r) THEN Unroute(r.bridge) ELSE << >>)
           todo == Write(l, With(l, n, r)) \o Provision(l, n, r)
<1>0. /\ l \in Readable /\ n \in Ids /\ Begin("create", l, n, todo, undo)
      /\ UNCHANGED <<hash, file, nets, damaged>> /\ patched' = patched
  BY DEF CreateRecord, history
<1>1. Good(nets, file, patched, damaged)
  BY DEF CloudInv
<1>2. n \notin NetIds(l) /\ n \in Nat
  BY <1>1, NextIdFresh
<1> HIDE DEF n
<1>3. Good([nets EXCEPT ![l] = With(l, n, r)], [file EXCEPT ![l] = "ok"], patched, damaged)
  BY <1>0, <1>1, <1>2, CreatedGood
<1>4. With(l, n, r) \in NetMaps
  BY <1>0, <1>1, MapsTyped DEF IsWith
<1>5. Write(l, With(l, n, r)) \in Seq(S)
  BY <1>3, <1>4, WriteSafe
<1>6. Provision(l, n, r) \in Seq(S)
  BY <1>0, <1>1, <1>5, ProvisionSafe
<1>7. r.bridge \in Labs \cup Names \cup {HostBr} /\ file[l] = "ok" /\ nets \in [Labs -> NetMaps]
  BY <1>0, <1>1 DEF NetRecord, Fields, Readable, Good
<1>8. Write(l, nets[l]) \in Seq(S)
  BY <1>7, RewriteSafe
<1>9. Effect("unroute", r.bridge, None, 0) \in S
  BY <1>7, HostEffectSafe DEF HostCommands
<1> HIDE DEF S
<1>10. Unroute(r.bridge) \in Seq(S) /\ << >> \in Seq(S)
  BY <1>9 DEF Unroute
<1>11. todo \in Seq(S)
  BY <1>5, <1>6, Joined
<1> DEFINE u == IF IsOwner(r) THEN Unroute(r.bridge) ELSE << >>
<1>12. u \in Seq(S)
  BY <1>10
<1>13. undo = Write(l, nets[l]) \o u
  OBVIOUS
<1> HIDE DEF u, todo, undo
<1>14. undo \in Seq(S)
  BY <1>8, <1>12, <1>13, Joined
<1>15. "create" \in Kinds
  BY DEF Kinds
<1>16. /\ Good(nets, file, patched', damaged)
       /\ todo \in Seq(SafeEffects(nets, file, patched', damaged, l))
       /\ undo \in Seq(SafeEffects(nets, file, patched', damaged, l))
  BY <1>0, <1>1, <1>11, <1>14 DEF S
<1> QED BY <1>0, <1>2, <1>15, <1>16, BeginKeeps

\* A network without a subnet.
LEMMA CreatePlainKeeps ==
  ASSUME CloudInv, NEW l \in Labs, CreateBridge(l) \/ CreateHostNet(l)
  PROVE  CloudInv'
<1>0. hash \in [Labs -> Hashes]
  BY DEF CloudInv
<1>1. CASE CreateBridge(l)
  <2> DEFINE r == [type |-> "linux_bridge", cidr |-> {}, shared |-> None,
                   bridge |-> <<hash[l], NextId(l)>>]
  <2>1. CreateRecord(l, r)
    BY <1>1 DEF CreateBridge
  <2>2. NextId(l) \in Ids /\ hash[l] \in Hashes
    BY <1>0, <2>1 DEF CreateRecord
  <2>3. r \in NetRecord /\ ~IsNat(r)
    BY <2>2 DEF NetRecord, Fields, Names, IsNat
  <2> HIDE DEF r
  <2>4. ~IsOwner(r) /\ ~IsRef(r)
    BY <2>3 DEF IsOwner, IsRef
  <2> QED BY <2>1, <2>3, <2>4, CreateRecordKeeps
<1>2. CASE CreateHostNet(l)
  <2> DEFINE r == [type |-> "bridge_cloud", cidr |-> {}, shared |-> None, bridge |-> HostBr]
  <2>1. CreateRecord(l, r)
    BY <1>2 DEF CreateHostNet
  <2>3. r \in NetRecord /\ ~IsNat(r)
    BY DEF NetRecord, Fields, IsNat
  <2> HIDE DEF r
  <2>4. ~IsOwner(r) /\ ~IsRef(r)
    BY <2>3 DEF IsOwner, IsRef
  <2> QED BY <2>1, <2>3, <2>4, CreateRecordKeeps
<1> QED BY <1>1, <1>2

\* A NAT-Cloud with a subnet of its own, asked for or allocated.
LEMMA CreateCloudKeeps ==
  ASSUME CloudInv, NEW l \in Labs, NEW cidr \in Asked, CreateCloud(l, cidr)
  PROVE  CloudInv'
<1> DEFINE take == IF cidr = {} THEN Allocated(l) ELSE cidr
           r == [type |-> "nat_cloud", shared |-> None, cidr |-> take,
                 bridge |-> <<hash[l], NextId(l)>>]
<1>0. hash \in [Labs -> Hashes]
  BY DEF CloudInv
<1>1. CreateRecord(l, r) /\ cidr \cap UsedBlocks(l) = {} /\ (cidr = {} => FreeBlocks(l) # {})
  BY DEF CreateCloud
<1>2. take \in SUBSET Nat /\ take \cap UsedBlocks(l) = {}
  <2>1. CASE cidr = {}
    BY <1>1, <2>1, AllocatedFree
  <2>2. CASE cidr # {}
    BY <1>1, <2>2, CloudConstants
  <2> QED BY <2>1, <2>2
<1>3. NextId(l) \in Ids /\ hash[l] \in Hashes
  BY <1>0, <1>1 DEF CreateRecord
<1> HIDE DEF take
<1>4. r \in NetRecord /\ r.shared = None /\ r.cidr = take
  BY <1>2, <1>3 DEF NetRecord, Fields, Names
<1> HIDE DEF r
<1>5. ~IsRef(r)
  BY <1>4 DEF IsRef
<1>6. ASSUME NEW c \in Owners PROVE Rec(c).cidr \cap r.cidr = {}
  <2>1. Rec(c).cidr \subseteq UsedBlocks(l)
    BY DEF UsedBlocks, OwnerBlocks
  <2> QED BY <1>2, <1>4, <2>1
<1> QED BY <1>1, <1>4, <1>5, <1>6, CreateRecordKeeps

\* A reference to a cloud.
LEMMA CreateReferenceKeeps ==
  ASSUME CloudInv, NEW l \in Labs, NEW c \in Owners, CreateReference(l, c)
  PROVE  CloudInv'
<1> DEFINE o == Rec(c)
           r == [type |-> "nat_cloud", cidr |-> o.cidr, shared |-> c, bridge |-> o.bridge]
<1>1. CreateRecord(l, r)
  BY DEF CreateReference
<1>2. c \in Records /\ Rec(c) \in NetRecord /\ c \in Cloud
  BY Reading DEF Owners, CloudInv, Records
<1>3. c # None
  BY <1>2, CloudConstants DEF Cloud, Ids
<1>4. o.cidr \in SUBSET Nat /\ o.bridge \in Names
  <2>1. o.type = "nat_cloud"
    BY DEF Owners, IsOwner, IsNat
  <2> QED BY <1>2, <2>1 DEF NetRecord, Fields
<1> HIDE DEF o
<1>5. r \in NetRecord /\ r.shared = c /\ r.cidr = o.cidr /\ r.bridge = o.bridge
  BY <1>2, <1>4 DEF NetRecord, Fields
<1> HIDE DEF r
<1>6. ~IsOwner(r)
  BY <1>3, <1>5 DEF IsOwner
<1>7. r.shared \in Owners /\ Rec(r.shared).bridge = r.bridge /\ Rec(r.shared).cidr = r.cidr
  BY <1>5 DEF o
<1> QED BY <1>1, <1>5, <1>6, <1>7, CreateRecordKeeps

\* A lab without networks.
LEMMA NothingMap ==
  << >> \in NetMaps /\ DOMAIN << >> = {}
<1>1. DOMAIN << >> = {}
  OBVIOUS
<1>2. << >> \in [{} -> NetRecord]
  OBVIOUS
<1>3. {} \in SUBSET Ids
  OBVIOUS
<1> QED BY <1>1, <1>2, <1>3 DEF NetMaps

\* A new lab has no networks.
LEMMA CreateLabKeeps ==
  ASSUME CloudInv, NEW l \in Labs, CreateLab(l)
  PROVE  CloudInv'
<1> DEFINE M == [nets EXCEPT ![l] = << >>]
           G == [file EXCEPT ![l] = "ok"]
           S == SafeEffects(nets, file, patched, damaged, l)
<1>0. Good(nets, file, patched, damaged) /\ nets \in [Labs -> NetMaps] /\ file \in [Labs -> States]
  BY DEF CloudInv, Good
<1>1. /\ file[l] = "new" /\ Begin("lab", l, 0, Write(l, << >>), << >>)
      /\ UNCHANGED <<hash, file, nets, damaged>> /\ patched' = patched
  BY DEF CreateLab, history
<1>2. << >> \in NetMaps
  BY NothingMap
<1>3. M \in [Labs -> NetMaps] /\ G \in [Labs -> States] /\ DOMAIN M[l] = {}
      /\ \A k \in Labs : k # l => M[k] = nets[k] /\ G[k] = file[k]
  BY <1>0, <1>2, NothingMap DEF States
<1> HIDE DEF M, G
<1>4. ASSUME NEW c \in RecordsOf(M, G) PROVE c[1] \in Labs \ {l} /\ c \in RecordsOf(nets, file)
                                            /\ At(M, c) = At(nets, c)
  <2>1. c[1] \in Labs /\ c \in Cloud /\ G[c[1]] = "ok" /\ c[2] \in DOMAIN M[c[1]]
    BY DEF RecordsOf, Cloud
  <2>2. c[1] # l
    BY <1>3, <2>1
  <2> QED BY <1>3, <2>1, <2>2 DEF RecordsOf, At
<1>5. ASSUME NEW c \in RecordsOf(nets, file) PROVE c \in RecordsOf(M, G)
  <2>1. c[1] \in Labs /\ c \in Cloud /\ file[c[1]] = "ok" /\ c[1] # l
    BY <1>1 DEF RecordsOf, Cloud
  <2> QED BY <1>3, <2>1 DEF RecordsOf
<1>6. Good(M, G, patched, damaged)
  BY <1>0, <1>3, <1>4, <1>5, FewerGood
<1>7. Write(l, << >>) \in Seq(S) /\ << >> \in Seq(S)
  BY <1>2, <1>6, WriteSafe, NoEffect DEF M, G
<1>8. "lab" \in Kinds /\ 0 \in Nat
  BY DEF Kinds
<1>9. /\ Good(nets, file, patched', damaged)
      /\ Write(l, << >>) \in Seq(SafeEffects(nets, file, patched', damaged, l))
      /\ << >> \in Seq(SafeEffects(nets, file, patched', damaged, l))
  BY <1>0, <1>1, <1>7
<1> QED BY <1>1, <1>8, <1>9, BeginKeeps

\* The records with one less.
LEMMA RecordsWithout ==
  ASSUME Good(nets, file, patched, damaged), NEW l \in Readable, NEW n \in NetIds(l)
  PROVE  LET M == Put(l, Without(l, n)) IN
         /\ M \in [Labs -> NetMaps] /\ [file EXCEPT ![l] = "ok"] = file
         /\ RecordsOf(M, file) = RecordsOf(nets, file) \ {<<l, n>>}
         /\ \A c \in RecordsOf(M, file) : At(M, c) = At(nets, c)
<1> DEFINE W == Without(l, n)
           M == Put(l, W)
           x == <<l, n>>
<1>0. l \in Labs /\ nets \in [Labs -> NetMaps] /\ file \in [Labs -> States] /\ file[l] = "ok"
  BY DEF Good, Readable
<1>2. n \in Ids
  BY <1>0, Reading
<1>3. IsWithout(W, l, n)
  <2>1. \E r : r \in NetRecord
    BY <1>0, Reading
  <2> QED BY <1>0, <1>2, <2>1, MapsTyped
<1>6. x[1] = l /\ x[2] = n
  OBVIOUS
<1> HIDE DEF W
<1>7. M \in [Labs -> NetMaps] /\ M[l] = W /\ \A k \in Labs : k # l => M[k] = nets[k]
  BY <1>0, <1>3 DEF IsWithout, Put
<1>8. [file EXCEPT ![l] = "ok"] = file
  BY <1>0
<1> HIDE DEF M
<1>9. ASSUME NEW c \in Cloud
      PROVE  /\ c \in RecordsOf(M, file) <=> c \in RecordsOf(nets, file) /\ c # x
             /\ c \in RecordsOf(M, file) => At(M, c) = At(nets, c)
  <2>1. c[1] \in Labs /\ c[2] \in Ids /\ c = <<c[1], c[2]>>
    BY DEF Cloud
  <2>2. CASE c[1] = l
    <3>1. c = x <=> c[2] = n
      BY <2>1, <2>2
    <3>2. c \in RecordsOf(M, file) <=> c[2] \in NetIds(l) \ {n}
      BY <1>0, <1>3, <1>7, <2>2 DEF RecordsOf, IsWithout
    <3>3. c \in RecordsOf(nets, file) <=> c[2] \in NetIds(l)
      BY <1>0, <2>2 DEF RecordsOf, NetIds
    <3>4. c[2] \in NetIds(l) \ {n} => At(M, c) = At(nets, c)
      BY <1>3, <1>7, <2>2 DEF At, IsWithout
    <3> QED BY <3>1, <3>2, <3>3, <3>4
  <2>3. CASE c[1] # l
    <3>1. c # x
      BY <1>6, <2>3
    <3> QED BY <1>7, <2>1, <2>3, <3>1 DEF RecordsOf, At
  <2> QED BY <2>2, <2>3
<1> HIDE DEF x
<1>10. RecordsOf(M, file) \subseteq Cloud /\ RecordsOf(nets, file) \subseteq Cloud
  BY DEF RecordsOf
<1>11. RecordsOf(M, file) = RecordsOf(nets, file) \ {x}
  BY <1>9, <1>10
<1>12. \A c \in RecordsOf(M, file) : At(M, c) = At(nets, c)
  BY <1>9, <1>10
<1> QED BY <1>7, <1>8, <1>11, <1>12 DEF M, W, x

\* delete_network takes no cloud that is still used.
LEMMA DeleteNetworkKeeps ==
  ASSUME CloudInv, NEW l \in Labs, NEW n \in NetIds(l), DeleteNetwork(l, n)
  PROVE  CloudInv'
<1> DEFINE W == Without(l, n)
           M == [nets EXCEPT ![l] = W]
           S == SafeEffects(nets, file, patched, damaged, l)
           x == <<l, n>>
           r == nets[l][n]
           todo == Write(l, W) \o Teardown(r)
<1>0. Good(nets, file, patched, damaged) /\ nets \in [Labs -> NetMaps] /\ file \in [Labs -> States]
  BY DEF CloudInv, Good
<1>1. /\ l \in Readable /\ (IsOwner(r) => References(x) = {})
      /\ Begin("delete", l, n, todo, << >>)
      /\ UNCHANGED <<hash, file, nets, damaged>> /\ patched' = patched
  BY DEF DeleteNetwork, history
<1>2. n \in Ids /\ r \in NetRecord /\ file[l] = "ok"
  BY <1>0, <1>1, Reading DEF Readable
<1>3. IsWithout(W, l, n)
  BY <1>0, <1>2, MapsTyped
<1>4. Teardown(r) \in Seq(S)
  BY <1>2, TeardownSafe
<1>5. Records = RecordsOf(nets, file) /\ \A c : Rec(c) = At(nets, c)
  BY <1>0, Reading
<1>6. x[1] = l /\ x[2] = n /\ At(nets, x) = r
  BY DEF At
<1>7. /\ M \in [Labs -> NetMaps] /\ [file EXCEPT ![l] = "ok"] = file
      /\ RecordsOf(M, file) = RecordsOf(nets, file) \ {x}
      /\ \A c \in RecordsOf(M, file) : At(M, c) = At(nets, c)
  <2>1. M = Put(l, Without(l, n))
    BY DEF Put
  <2> HIDE DEF M
  <2> QED BY <1>0, <1>1, <2>1, RecordsWithout
<1> HIDE DEF W, M, r, x
<1>11. ASSUME NEW d \in RecordsOf(M, file), IsRef(At(nets, d)),
              At(nets, d).shared \in RecordsOf(nets, file), IsOwner(At(nets, At(nets, d).shared))
       PROVE  At(nets, d).shared \in RecordsOf(M, file)
  <2> DEFINE c == At(nets, d).shared
  <2>1. d \in Records
    BY <1>5, <1>7
  <2>2. c # x
    <3> SUFFICES ASSUME c = x PROVE FALSE
      OBVIOUS
    <3>1. IsOwner(r)
      BY <1>6, <1>11
    <3>2. d \in References(x)
      BY <1>5, <1>11, <2>1 DEF References
    <3> QED BY <1>1, <3>1, <3>2
  <2> QED BY <1>7, <1>11, <2>2
<1>12. RecordsOf(M, file) \subseteq RecordsOf(nets, file)
       /\ \A c \in RecordsOf(M, file) : At(M, c) = At(nets, c)
  BY <1>7
<1>13. Good(M, file, patched, damaged)
  BY <1>0, <1>7, <1>11, <1>12, FewerGood
<1>14. Write(l, W) \in Seq(S)
  BY <1>3, <1>7, <1>13, WriteSafe DEF M, IsWithout
<1>15. todo \in Seq(S) /\ << >> \in Seq(S)
  BY <1>4, <1>14, Joined, NoEffect DEF r
<1>16. "delete" \in Kinds /\ n \in Nat
  BY <1>2, CloudConstants DEF Kinds, Ids
<1> HIDE DEF todo
<1>17. /\ Good(nets, file, patched', damaged)
       /\ todo \in Seq(SafeEffects(nets, file, patched', damaged, l))
       /\ << >> \in Seq(SafeEffects(nets, file, patched', damaged, l))
  BY <1>0, <1>1, <1>15
<1> QED BY <1>1, <1>16, <1>17, BeginKeeps

\* patch_network checks nothing, and what it patched is exempt.
LEMMA PatchNetworkKeeps ==
  ASSUME CloudInv, NEW l \in Labs, NEW n \in NetIds(l),
         NEW type \in {"linux_bridge", "nat_cloud"}, NEW cidr \in Asked,
         PatchNetwork(l, n, type, cidr)
  PROVE  CloudInv'
<1> DEFINE r == [nets[l][n] EXCEPT !.type = type, !.cidr = cidr, !.shared = None]
           W == With(l, n, r)
           M == [nets EXCEPT ![l] = W]
           x == <<l, n>>
           Q == patched \cup {x}
           S == SafeEffects(nets, file, Q, damaged, l)
<1>0. Good(nets, file, patched, damaged) /\ nets \in [Labs -> NetMaps] /\ file \in [Labs -> States]
  BY DEF CloudInv, Good
<1>1. /\ l \in Readable /\ Begin("patch", l, n, Write(l, W), << >>)
      /\ UNCHANGED <<hash, file, nets, damaged>> /\ patched' = Q
      /\ nets[l][n].type # "bridge_cloud"
  BY DEF PatchNetwork
<1>2. n \in Ids /\ nets[l][n] \in NetRecord /\ file[l] = "ok"
  BY <1>0, <1>1, Reading DEF Readable
<1>3. cidr \in SUBSET Nat
  BY CloudConstants
<1>4. r \in NetRecord
  BY <1>1, <1>2, <1>3 DEF NetRecord, Fields
<1> HIDE DEF r
<1>5. IsWith(W, l, n, r)
  BY <1>0, <1>2, <1>4, MapsTyped
<1>6. W \in NetMaps /\ DOMAIN W = NetIds(l) /\ \A k \in NetIds(l) \ {n} : W[k] = nets[l][k]
  <2>1. NetIds(l) \cup {n} = NetIds(l)
    OBVIOUS
  <2> HIDE DEF W
  <2> QED BY <1>5, <2>1 DEF IsWith
<1> HIDE DEF W
<1>7. M \in [Labs -> NetMaps] /\ M[l] = W /\ \A k \in Labs : k # l => M[k] = nets[k]
  BY <1>0, <1>6
<1>8. [file EXCEPT ![l] = "ok"] = file
  BY <1>0, <1>2
<1> HIDE DEF M
<1>9. ASSUME NEW c \in Cloud
      PROVE  /\ c \in RecordsOf(M, file) <=> c \in RecordsOf(nets, file)
             /\ c \in RecordsOf(M, file) \ Q => At(M, c) = At(nets, c)
  <2>1. c[1] \in Labs /\ c[2] \in Ids /\ c = <<c[1], c[2]>>
    BY DEF Cloud
  <2>2. CASE c[1] = l
    <3>1. c = x <=> c[2] = n
      BY <2>1, <2>2
    <3>2. c \in RecordsOf(M, file) <=> c[2] \in NetIds(l)
      BY <1>2, <1>6, <1>7, <2>2 DEF RecordsOf
    <3>3. c \in RecordsOf(nets, file) <=> c[2] \in NetIds(l)
      BY <1>2, <2>2 DEF RecordsOf, NetIds
    <3>4. c[2] \in NetIds(l) \ {n} => At(M, c) = At(nets, c)
      BY <1>6, <1>7, <2>2 DEF At
    <3> QED BY <3>1, <3>2, <3>3, <3>4
  <2>3. CASE c[1] # l
    BY <1>7, <2>1, <2>3 DEF RecordsOf, At
  <2> QED BY <2>2, <2>3
<1> HIDE DEF x
<1>10. RecordsOf(M, file) \subseteq Cloud /\ RecordsOf(nets, file) \subseteq Cloud
  BY DEF RecordsOf
<1>11. RecordsOf(M, file) = RecordsOf(nets, file)
       /\ \A c \in RecordsOf(M, file) \ Q : At(M, c) = At(nets, c)
  BY <1>9, <1>10
<1>12. patched \subseteq Q
  OBVIOUS
<1> HIDE DEF Q
<1>13. Good(M, file, Q, damaged)
  BY <1>0, <1>7, <1>11, <1>12, FewerGood
<1>14. Good(nets, file, Q, damaged)
  BY <1>0, <1>12, FewerGood
<1>15. Write(l, W) \in Seq(S)
  BY <1>6, <1>8, <1>13, WriteSafe DEF M
<1>16. << >> \in Seq(S)
  BY NoEffect
<1>17. "patch" \in Kinds /\ n \in Nat
  BY <1>2, CloudConstants DEF Kinds, Ids
<1>18. /\ Good(nets, file, patched', damaged)
       /\ Write(l, W) \in Seq(SafeEffects(nets, file, patched', damaged, l))
       /\ << >> \in Seq(SafeEffects(nets, file, patched', damaged, l))
  BY <1>1, <1>14, <1>15, <1>16
<1> QED BY <1>1, <1>17, <1>18, BeginKeeps

\* The labs L lose all they hold: their files are removed or torn, and no
\* other lab uses a cloud of theirs, unless they count as damaged.
LEMMA EmptiedGood ==
  ASSUME Good(nets, file, patched, damaged), NEW L \in SUBSET Labs,
         NEW M \in [Labs -> NetMaps], NEW G \in [Labs -> States], NEW E, damaged \subseteq E,
         \A k \in L : G[k] # "ok", \A k \in Labs \ L : M[k] = nets[k] /\ G[k] = file[k],
         \A d \in Records : IsRef(Rec(d)) /\ d[1] \notin L /\ Rec(d).shared \in Owners
                            /\ Rec(d).shared[1] \in L => Rec(d).shared[1] \in E
  PROVE  Good(M, G, patched, E)
<1>1. Records = RecordsOf(nets, file) /\ \A c : Rec(c) = At(nets, c)
  BY Reading
<1>2. ASSUME NEW c \in RecordsOf(M, G)
      PROVE  c[1] \in Labs \ L /\ c \in RecordsOf(nets, file) /\ At(M, c) = At(nets, c)
  <2>1. c[1] \in Labs /\ c \in Cloud /\ G[c[1]] = "ok" /\ c[2] \in DOMAIN M[c[1]]
    BY DEF RecordsOf, Cloud
  <2>2. c[1] \notin L
    BY <2>1
  <2> QED BY <2>1, <2>2 DEF RecordsOf, At
<1>3. ASSUME NEW c \in RecordsOf(nets, file), c[1] \notin L PROVE c \in RecordsOf(M, G)
  <2>1. c[1] \in Labs /\ c \in Cloud /\ file[c[1]] = "ok"
    BY DEF RecordsOf, Cloud
  <2> QED BY <1>3, <2>1 DEF RecordsOf
<1>4. ASSUME NEW d \in RecordsOf(M, G), IsRef(At(nets, d)), At(nets, d).shared[1] \notin E,
             At(nets, d).shared \in RecordsOf(nets, file), IsOwner(At(nets, At(nets, d).shared))
      PROVE  At(nets, d).shared \in RecordsOf(M, G)
  <2> DEFINE c == At(nets, d).shared
  <2>1. d \in Records /\ d[1] \notin L /\ IsRef(Rec(d)) /\ Rec(d).shared = c
    BY <1>1, <1>2, <1>4
  <2>2. c \in Owners
    BY <1>1, <1>4 DEF Owners
  <2>3. c[1] \notin L
    BY <1>4, <2>1, <2>2
  <2> QED BY <1>3, <1>4, <2>3
<1>5. RecordsOf(M, G) \subseteq RecordsOf(nets, file) /\ \A c \in RecordsOf(M, G) : At(M, c) = At(nets, c)
  BY <1>2
<1> QED BY <1>4, <1>5, FewerGood

\* The file of a lab that no other lab refers to is removed.
LEMMA RemovalSafe ==
  ASSUME CloudInv, NEW l \in Labs, ExternalRefs(l) = {}
  PROVE  <<Effect("unlink", l, None, 0)>> \in Seq(SafeEffects(nets, file, patched, damaged, l))
<1> DEFINE M == [nets EXCEPT ![l] = << >>]
           G == [file EXCEPT ![l] = "gone"]
<1>0. Good(nets, file, patched, damaged) /\ nets \in [Labs -> NetMaps] /\ file \in [Labs -> States]
  BY DEF CloudInv, Good
<1>1. M \in [Labs -> NetMaps]
  BY <1>0, NothingMap
<1>2. G \in [Labs -> States] /\ G[l] = "gone"
  BY <1>0 DEF States
<1>3. \A k \in Labs \ {l} : M[k] = nets[k] /\ G[k] = file[k]
  BY <1>0
<1>4. ASSUME NEW d \in Records, IsRef(Rec(d)), d[1] \notin {l}, Rec(d).shared \in Owners,
             Rec(d).shared[1] \in {l}
      PROVE  FALSE
  <2>1. d \in References(Rec(d).shared)
    BY <1>4 DEF References
  <2>2. d \in ExternalRefs(l)
    BY <1>4, <2>1 DEF ExternalRefs
  <2> QED BY <2>2
<1> HIDE DEF M, G
<1>5. {l} \in SUBSET Labs /\ \A k \in {l} : G[k] # "ok"
  BY <1>2
<1>6. Good(M, G, patched, damaged)
  BY <1>0, <1>1, <1>2, <1>3, <1>4, <1>5, EmptiedGood
<1> QED BY <1>6, UnlinkSafe DEF M, G

\* Removing a lab, with or without the teardown of its networks.
LEMMA RemoveLabKeeps ==
  ASSUME CloudInv, NEW l \in Labs, DeleteLab(l) \/ RemoveFile(l)
  PROVE  CloudInv'
<1> DEFINE S == SafeEffects(nets, file, patched, damaged, l)
           gone == <<Effect("unlink", l, None, 0)>>
           q == [n \in Ids |-> IF n \in NetIds(l) THEN Teardown(nets[l][n]) ELSE << >>]
           down == IF file[l] = "ok" THEN FlattenSeq(q) ELSE << >>
<1>0. Good(nets, file, patched, damaged)
  BY DEF CloudInv
<1>1. ExternalRefs(l) = {} /\ UNCHANGED <<hash, file, nets, damaged>> /\ patched' = patched
  BY DEF DeleteLab, RemoveFile
<1>2. Begin("delete", l, 0, down \o gone, << >>) \/ Begin("delete", l, 0, gone, << >>)
  BY DEF DeleteLab, RemoveFile
<1>3. gone \in Seq(S) /\ << >> \in Seq(S)
  BY <1>1, RemovalSafe, NoEffect
<1>4. q \in [1..MaxNet -> Seq(S)]
  <2>1. ASSUME NEW n \in Ids PROVE q[n] \in Seq(S)
    <3>1. CASE n \in NetIds(l)
      <4>1. nets[l][n] \in NetRecord
        BY <1>0, <3>1, Reading
      <4>2. Teardown(nets[l][n]) \in Seq(S)
        BY <4>1, TeardownSafe
      <4> QED BY <3>1, <4>2
    <3>2. CASE n \notin NetIds(l)
      BY <1>3, <3>2
    <3> QED BY <3>1, <3>2
  <2> HIDE DEF S
  <2> QED BY <2>1 DEF Ids
<1> HIDE DEF q, S
<1>5. FlattenSeq(q) \in Seq(S)
  BY <1>4, FlattenTyped, CloudConstants
<1>6. down \in Seq(S)
  BY <1>3, <1>5
<1> HIDE DEF down, gone
<1>7. down \o gone \in Seq(S)
  BY <1>3, <1>6, Joined
<1>8. "delete" \in Kinds /\ 0 \in Nat
  BY DEF Kinds
<1>9. /\ Good(nets, file, patched', damaged)
      /\ S = SafeEffects(nets, file, patched', damaged, l)
  BY <1>0, <1>1 DEF S
<1>10. CASE Begin("delete", l, 0, gone, << >>)
  BY <1>1, <1>3, <1>8, <1>9, <1>10, BeginKeeps
<1>11. CASE Begin("delete", l, 0, down \o gone, << >>)
  <2> DEFINE todo == down \o gone
  <2>1. Begin("delete", l, 0, todo, << >>) /\ todo \in Seq(S)
    BY <1>7, <1>11
  <2> HIDE DEF todo
  <2> QED BY <1>1, <1>3, <1>8, <1>9, <2>1, BeginKeeps
<1> QED BY <1>2, <1>10, <1>11

\* The commands of ensure_lab_bridges for one network.
LEMMA EnsureOneSafe ==
  ASSUME Good(nets, file, patched, damaged), NEW l \in Labs, NEW n \in NetIds(l),
         NEW S, S = SafeEffects(nets, file, patched, damaged, l)
  PROVE  EnsureOne(l, n) \in Seq(S)
<1> DEFINE r == nets[l][n]
           b == r.bridge
           c == r.shared
           x == <<l, n>>
           route == Route(Rec(c).bridge, Rec(c).cidr, n)
           write == IF c[1] = l THEN << >> ELSE Write(c[1], nets[c[1]])
           bring == IF ~ host[b].up THEN AddBridge(b, n) \o Own(b, x)
                    ELSE IF Fingerprint(b, x) = "absent" THEN Own(b, x) ELSE << >>
           mine == IF IsOwner(r) THEN Route(b, r.cidr, n) ELSE << >>
<1>1. n \in Ids /\ r \in NetRecord /\ x \in Cloud
  BY Reading DEF Cloud
<1>2. b \in Names \cup {HostBr} /\ r.cidr \in SUBSET Nat
  BY <1>1 DEF NetRecord, Fields
<1>3. << >> \in Seq(S)
  BY NoEffect
<1>4. \/ EnsureOne(l, n) = << >>
      \/ IsRef(r) /\ c \in Owners /\ EnsureOne(l, n) = route \o write
      \/ EnsureOne(l, n) = bring \o mine
  BY DEF EnsureOne
<1>5. ASSUME c \in Owners PROVE route \o write \in Seq(S)
  <2>1. c \in Records /\ Rec(c) \in NetRecord /\ c[1] \in Labs /\ file[c[1]] = "ok"
    BY <1>5, Reading DEF Owners, Records, Readable
  <2>2. Rec(c).bridge \in Names \cup {HostBr} /\ Rec(c).cidr \in SUBSET Nat
    BY <2>1 DEF NetRecord, Fields
  <2>3. route \in Seq(S)
    BY <1>1, <2>2, CommandsSafe
  <2>4. nets \in [Labs -> NetMaps]
    BY DEF Good
  <2>5. Write(c[1], nets[c[1]]) \in Seq(S)
    BY <2>1, <2>4, RewriteSafe
  <2>6. write \in Seq(S)
    BY <1>3, <2>5
  <2> HIDE DEF route, write
  <2> QED BY <2>3, <2>6, Joined
<1>6. bring \o mine \in Seq(S)
  <2>1. AddBridge(b, n) \in Seq(S) /\ Own(b, x) \in Seq(S) /\ Route(b, r.cidr, n) \in Seq(S)
    BY <1>1, <1>2, CommandsSafe
  <2>2. AddBridge(b, n) \o Own(b, x) \in Seq(S)
    BY <2>1, Joined
  <2>3. bring \in Seq(S) /\ mine \in Seq(S)
    BY <1>3, <2>1, <2>2
  <2> HIDE DEF bring, mine
  <2> QED BY <2>3, Joined
<1> HIDE DEF route, write, bring, mine, c, r
<1> QED BY <1>3, <1>4, <1>5, <1>6

\* Opening a lab.
LEMMA EnsureKeeps ==
  ASSUME CloudInv, NEW l \in Labs, EnsureLabBridges(l)
  PROVE  CloudInv'
<1> DEFINE S == SafeEffects(nets, file, patched, damaged, l)
           q == [n \in Ids |-> IF n \in NetIds(l) THEN EnsureOne(l, n) ELSE << >>]
           save == IF \E n \in NetIds(l) : IsNat(nets[l][n]) THEN Write(l, nets[l]) ELSE << >>
<1>0. Good(nets, file, patched, damaged) /\ nets \in [Labs -> NetMaps]
  BY DEF CloudInv, Good
<1>1. /\ l \in Readable /\ Begin("ensure", l, 0, FlattenSeq(q) \o save, << >>)
      /\ UNCHANGED <<hash, file, nets, damaged>> /\ patched' = patched
  BY DEF EnsureLabBridges, history
<1>2. << >> \in Seq(S)
  BY NoEffect
<1>3. file[l] = "ok"
  BY <1>1 DEF Readable
<1>4. Write(l, nets[l]) \in Seq(S)
  BY <1>0, <1>3, RewriteSafe
<1>5. save \in Seq(S)
  BY <1>2, <1>4
<1>6. q \in [1..MaxNet -> Seq(S)]
  <2>1. ASSUME NEW n \in Ids PROVE q[n] \in Seq(S)
    <3>1. CASE n \in NetIds(l)
      <4>1. EnsureOne(l, n) \in Seq(S)
        BY <1>0, <3>1, EnsureOneSafe
      <4> QED BY <3>1, <4>1
    <3>2. CASE n \notin NetIds(l)
      BY <1>2, <3>2
    <3> QED BY <3>1, <3>2
  <2> HIDE DEF S
  <2> QED BY <2>1 DEF Ids
<1> HIDE DEF q, S, save
<1>7. FlattenSeq(q) \in Seq(S)
  BY <1>6, FlattenTyped, CloudConstants
<1> DEFINE todo == FlattenSeq(q) \o save
<1>8. todo \in Seq(S)
  BY <1>5, <1>7, Joined
<1>9. Begin("ensure", l, 0, todo, << >>)
  BY <1>1
<1> HIDE DEF todo
<1>10. "ensure" \in Kinds /\ 0 \in Nat
  BY DEF Kinds
<1>11. Good(nets, file, patched', damaged) /\ S = SafeEffects(nets, file, patched', damaged, l)
  BY <1>0, <1>1 DEF S
<1> QED BY <1>1, <1>2, <1>8, <1>9, <1>10, <1>11, BeginKeeps

\* The backend dies, and the lab it was writing may be torn.
LEMMA DiesKeeps ==
  ASSUME CloudInv, NEW torn \in SUBSET Writing, Dies(torn)
  PROVE  CloudInv'
<1>0. Good(nets, file, patched, damaged) /\ nets \in [Labs -> NetMaps] /\ file \in [Labs -> States]
      /\ hash \in [Labs -> Hashes]
  BY DEF CloudInv, Good
<1>1. /\ op' = Idle /\ hash' = hash /\ patched' = patched /\ damaged' = damaged \cup torn
      /\ file' = [l \in Labs |-> IF l \in torn THEN "torn" ELSE file[l]]
      /\ nets' = [l \in Labs |-> IF l \in torn THEN << >> ELSE nets[l]]
  BY DEF Dies
<1>2. torn \in SUBSET Labs
  <2>1. CASE op.todo # << >> /\ Head(op.todo).do = "save"
    <3>1. Head(op.todo) \in Safe
      BY <2>1, RestSafe
    <3>2. Head(op.todo).on \in Labs
      BY <2>1, <3>1 DEF Safe, SafeEffects, Harmless
    <3> QED BY <2>1, <3>2 DEF Writing
  <2>2. CASE ~(op.todo # << >> /\ Head(op.todo).do = "save")
    BY <2>2 DEF Writing
  <2> QED BY <2>1, <2>2
<1>3. nets' \in [Labs -> NetMaps] /\ \A k \in Labs \ torn : nets'[k] = nets[k]
  BY <1>0, <1>1, NothingMap
<1>4. file' \in [Labs -> States] /\ (\A k \in Labs \ torn : file'[k] = file[k])
      /\ \A k \in torn : file'[k] # "ok"
  BY <1>0, <1>1, <1>2 DEF States
<1>5. damaged \subseteq damaged' /\ torn \subseteq damaged'
  BY <1>1
<1>6. Good(nets', file', patched, damaged')
  BY <1>0, <1>2, <1>3, <1>4, <1>5, EmptiedGood
<1> QED BY <1>0, <1>1, <1>6, AtRest

\* What CloudInv speaks of is unchanged.
LEMMA SameKeeps ==
  ASSUME CloudInv, UNCHANGED <<hash, file, nets, op, patched, damaged>>
  PROVE  CloudInv'
BY DEF CloudInv, Safe

------------------------------------------------------------------------------
(* The invariant.                                                          *)

\* No lab exists at first.
LEMMA InitHolds == Init => CloudInv
<1> SUFFICES ASSUME Init PROVE CloudInv
  OBVIOUS
<1>1. nets = [l \in Labs |-> << >>] /\ file = [l \in Labs |-> "new"] /\ op = Idle
      /\ hash \in [Labs -> Hashes]
  BY DEF Init
<1>2. nets \in [Labs -> NetMaps] /\ file \in [Labs -> States]
  BY <1>1, NothingMap DEF States
<1>3. RecordsOf(nets, file) = {}
  BY <1>1 DEF RecordsOf, Cloud
<1>4. Good(nets, file, patched, damaged)
  BY <1>2, <1>3 DEF Good, DisjointIn, OwnedIn
<1>5. op \in Ops /\ op.todo = << >> /\ op.undo = << >>
  BY <1>1, IdleTyped
<1>6. << >> \in Seq(Safe)
  BY NoEffect
<1> QED BY <1>1, <1>4, <1>5, <1>6 DEF CloudInv

\* Every step of a handler, of the host or of the backend keeps it.
LEMMA NextKeeps == CloudInv /\ [Next]_vars => CloudInv'
<1> SUFFICES ASSUME CloudInv, [Next]_vars PROVE CloudInv'
  OBVIOUS
<1>1. CASE UNCHANGED vars
  BY <1>1, SameKeeps DEF vars
<1>2. CASE Step
  BY <1>2, StepKeeps
<1>3. CASE StepFails
  BY <1>3, StepFailsKeeps
<1>4. CASE Crash \/ Reboot
  <2>1. PICK torn \in SUBSET Writing : Dies(torn)
    BY <1>4 DEF Crash, Reboot
  <2> QED BY <2>1, DiesKeeps
<1>5. CASE Startup
  BY <1>5, SameKeeps DEF Startup, history
<1>6. ASSUME NEW l \in Labs, CreateLab(l) PROVE CloudInv'
  BY <1>6, CreateLabKeeps
<1>7. ASSUME NEW l \in Labs, CreateBridge(l) \/ CreateHostNet(l) PROVE CloudInv'
  BY <1>7, CreatePlainKeeps
<1>8. ASSUME NEW l \in Labs, EnsureLabBridges(l) PROVE CloudInv'
  BY <1>8, EnsureKeeps
<1>9. ASSUME NEW l \in Labs, DeleteLab(l) \/ RemoveFile(l) PROVE CloudInv'
  BY <1>9, RemoveLabKeeps
<1>10. ASSUME NEW l \in Labs, NEW cidr \in Asked, CreateCloud(l, cidr) PROVE CloudInv'
  BY <1>10, CreateCloudKeeps
<1>11. ASSUME NEW l \in Labs, NEW c \in Owners, CreateReference(l, c) PROVE CloudInv'
  BY <1>11, CreateReferenceKeeps
<1>12. ASSUME NEW l \in Labs, NEW n \in NetIds(l), DeleteNetwork(l, n) PROVE CloudInv'
  BY <1>12, DeleteNetworkKeeps
<1>13. ASSUME NEW l \in Labs, NEW n \in NetIds(l), NEW type \in {"linux_bridge", "nat_cloud"},
              NEW cidr \in Asked, PatchNetwork(l, n, type, cidr)
       PROVE  CloudInv'
  BY <1>13, PatchNetworkKeeps
<1> QED BY <1>1, <1>2, <1>3, <1>4, <1>5, <1>6, <1>7, <1>8, <1>9, <1>10, <1>11, <1>12, <1>13
        DEF Next

\* The labs are good and every effect to come is safe, in every state.
LEMMA CloudsSafe == Spec => []CloudInv
<1>1. Init => CloudInv
  BY InitHolds
<1>2. CloudInv /\ [Next]_vars => CloudInv'
  BY NextKeeps
<1> QED BY <1>1, <1>2, PTL DEF Spec

\* The invariant implies the two properties of the address plan.
LEMMA GoodImplies == CloudInv => CidrsDisjoint /\ ReferencesOwned
<1> SUFFICES ASSUME CloudInv PROVE CidrsDisjoint /\ ReferencesOwned
  OBVIOUS
<1>0. Good(nets, file, patched, damaged)
  BY DEF CloudInv
<1>1. Records = RecordsOf(nets, file) /\ \A c : Rec(c) = At(nets, c)
  BY <1>0, Reading
<1>2. CidrsDisjoint
  <2> SUFFICES ASSUME NEW c \in Owners \ patched, NEW d \in Owners \ patched, c # d
               PROVE  Rec(c).cidr \cap Rec(d).cidr = {}
    BY DEF CidrsDisjoint
  <2>1. /\ c \in RecordsOf(nets, file) \ patched /\ IsOwner(At(nets, c))
        /\ d \in RecordsOf(nets, file) \ patched /\ IsOwner(At(nets, d))
    BY <1>1 DEF Owners
  <2>2. At(nets, c).cidr \cap At(nets, d).cidr = {}
    BY <1>0, <2>1 DEF Good, DisjointIn
  <2> QED BY <1>1, <2>2
<1>3. ReferencesOwned
  <2> SUFFICES ASSUME NEW d \in Records \ patched, IsRef(Rec(d)),
                      Rec(d).shared \notin patched, Rec(d).shared[1] \notin damaged
               PROVE  /\ Rec(d).shared \in Owners
                      /\ Rec(Rec(d).shared).bridge = Rec(d).bridge
                      /\ Rec(Rec(d).shared).cidr = Rec(d).cidr
    BY DEF ReferencesOwned
  <2> DEFINE c == At(nets, d).shared
  <2>1. OwnerFor(nets, file, c, At(nets, d))
    BY <1>0, <1>1 DEF Good, OwnedIn
  <2> QED BY <1>1, <2>1 DEF OwnerFor, Owners
<1> QED BY <1>2, <1>3

\* For every number of labs, networks and faults: the subnets of two clouds
\* of whatever labs overlap in no state, whatever host command failed in a
\* create or a delete and wherever the backend died, unless a PATCH replaced
\* one of them.
THEOREM SubnetsDisjoint == Spec => []CidrsDisjoint
<1>1. CloudInv => CidrsDisjoint
  BY GoodImplies
<1> QED BY <1>1, CloudsSafe, PTL

\* And a reference to a cloud keeps its owner, with the same bridge and the
\* same subnet, unless a PATCH or a torn file took it.
THEOREM ReferencesKeepOwner == Spec => []ReferencesOwned
<1>1. CloudInv => ReferencesOwned
  BY GoodImplies
<1> QED BY <1>1, CloudsSafe, PTL

------------------------------------------------------------------------------
(***************************************************************************)
(* The bridges of the host.  What a handler has still to do, seen as a     *)
(* set of effects, tells what each bridge will be when it ends.            *)
(***************************************************************************)

\* What a bridge can hold.
Args      == {None} \cup (SUBSET Nat) \cup Cloud \cup NetMaps
HostState == [up : BOOLEAN, fp : Args, routed : Args]
HostTyped == host \in [Names -> HostState]

\* What effect e makes of the bridges H.
HostMoved(e, H, K) ==
  \A b \in Names :
    /\ b # e.on => K[b] = H[b]
    /\ b = e.on =>
         /\ K[b].up = IF e.do = "add" THEN TRUE ELSE IF e.do = "drop" THEN FALSE ELSE H[b].up
         /\ K[b].fp = IF e.do = "own" THEN e.arg ELSE IF e.do = "disown" THEN None ELSE H[b].fp
         /\ K[b].routed = IF e.do = "route" THEN e.arg ELSE IF e.do = "unroute" THEN {} ELSE H[b].routed

\* Networks without a bridge of their own.
Plain(r) == IsRef(r) \/ r.type = "bridge_cloud"

\* Among the effects s there is one of this kind.
Pend(s, do, b) == \E e \in ToSet(s) : e.do = do /\ e.on = b

\* The effects s that make r network n of lab l, on the host H and with the
\* networks N, are still to come.
Making(l, n, r, s, N, H) ==
  /\ \A e \in ToSet(s) : /\ e.do \in {"save", "add", "own", "route"}
                         /\ e.do = "save" => e.on = l /\ n \in DOMAIN e.arg /\ e.arg[n] = r
                         /\ e.do = "own" => e.arg = <<l, n>>
                         /\ e.do = "route" => e.arg = r.cidr
  /\ (n \in DOMAIN N[l] /\ N[l][n] = r) \/ Pend(s, "save", l)
  /\ ~Plain(r) =>
       LET b == r.bridge IN
       /\ H[b].up \/ Pend(s, "add", b)
       /\ H[b].fp = <<l, n>> \/ Pend(s, "own", b)
       /\ IsNat(r) => H[b].routed = r.cidr \/ Pend(s, "route", b)

\* The effects s write the networks, and the last time without network n.
Conflict(l, n, s) == /\ \A e \in ToSet(s) : e.do = "save"
                     /\ LET e == s[Len(s)] IN e.on = l /\ n \notin DOMAIN e.arg

\* A create_network that runs goes on to make the network whole, unless its
\* bridge belongs to another one.
CreateInv ==
  op.kind = "create" =>
    /\ op.undo # << >> /\ op.todo # << >> /\ op.lab \in Labs
    /\ \/ Conflict(op.lab, op.net, op.todo)
       \/ \E r \in NetRecord : Making(op.lab, op.net, r, op.todo, nets, host)

\* No handler runs while the backend is down.
HostInv == HostTyped /\ spent \in Nat /\ (~up => op = Idle)

BridgeInv == CloudInv /\ HostInv /\ CreateInv

\* The effects of a sequence.
LEMMA SetOfTail ==
  ASSUME NEW S, NEW s \in Seq(S), s # << >>
  PROVE  /\ Head(s) \in S /\ Tail(s) \in Seq(S) /\ Head(s) = s[1]
         /\ Len(s) \in Nat \ {0} /\ Len(Tail(s)) = Len(s) - 1
         /\ \A i \in 1..(Len(s) - 1) : Tail(s)[i] = s[i + 1]
         /\ Tail(s) = << >> <=> Len(s) = 1
         /\ ToSet(s) = {Head(s)} \cup ToSet(Tail(s)) /\ ToSet(s) \subseteq S
<1>1. /\ Head(s) \in S /\ Tail(s) \in Seq(S) /\ Head(s) = s[1]
      /\ Len(s) \in Nat \ {0} /\ Len(Tail(s)) = Len(s) - 1
      /\ \A i \in 1..(Len(s) - 1) : Tail(s)[i] = s[i + 1]
      /\ Tail(s) = << >> <=> Len(s) = 1
  <2>1. Head(s) \in S /\ Tail(s) \in Seq(S) /\ Head(s) = s[1] /\ Len(s) \in Nat \ {0}
    OBVIOUS
  <2>2. Len(Tail(s)) = Len(s) - 1 /\ \A i \in 1..Len(Tail(s)) : Tail(s)[i] = s[i + 1]
    BY HeadTailProperties
  <2>3. Tail(s) = << >> <=> Len(Tail(s)) = 0
    BY <2>1, EmptySeq
  <2> QED BY <2>1, <2>2, <2>3
<1>2. \A i \in 1..Len(s) : s[i] \in S /\ (i = 1 \/ i - 1 \in 1..(Len(s) - 1))
  OBVIOUS
<1>3. ToSet(s) \subseteq S
  BY <1>2 DEF ToSet
<1>4. ToSet(s) = {Head(s)} \cup ToSet(Tail(s))
  <2>1. ASSUME NEW x \in ToSet(s) PROVE x \in {Head(s)} \cup ToSet(Tail(s))
    <3>1. PICK i \in 1..Len(s) : x = s[i]
      BY DEF ToSet
    <3>2. CASE i = 1
      BY <1>1, <3>1, <3>2
    <3>3. CASE i # 1
      <4>1. i - 1 \in 1..(Len(s) - 1) /\ i - 1 + 1 = i
        BY <1>1, <1>2, <3>3
      <4>2. Tail(s)[i - 1] = x /\ DOMAIN Tail(s) = 1..(Len(s) - 1)
        BY <1>1, <3>1, <4>1
      <4> QED BY <4>1, <4>2 DEF ToSet
    <3> QED BY <3>2, <3>3
  <2>2. ASSUME NEW x \in ToSet(Tail(s)) PROVE x \in ToSet(s)
    <3>1. PICK i \in 1..Len(Tail(s)) : x = Tail(s)[i]
      BY <1>1 DEF ToSet
    <3>2. i + 1 \in 1..Len(s) /\ x = s[i + 1]
      BY <1>1, <3>1
    <3> QED BY <3>2 DEF ToSet
  <2>3. Head(s) \in ToSet(s)
    BY <1>1 DEF ToSet
  <2> QED BY <2>1, <2>2, <2>3
<1> QED BY <1>1, <1>3, <1>4

\* The effects of two sequences, one after the other.
LEMMA SetOfJoin ==
  ASSUME NEW S, NEW s \in Seq(S), NEW t \in Seq(S)
  PROVE  ToSet(s \o t) = ToSet(s) \cup ToSet(t)
<1>1. /\ Len(s) \in Nat /\ Len(t) \in Nat /\ Len(s \o t) = Len(s) + Len(t)
      /\ DOMAIN s = 1..Len(s) /\ DOMAIN t = 1..Len(t) /\ DOMAIN (s \o t) = 1..(Len(s) + Len(t))
      /\ \A i \in 1..(Len(s) + Len(t)) : (s \o t)[i] = IF i <= Len(s) THEN s[i] ELSE t[i - Len(s)]
  OBVIOUS
<1>2. ASSUME NEW x \in ToSet(s \o t) PROVE x \in ToSet(s) \cup ToSet(t)
  <2>1. PICK i \in 1..(Len(s) + Len(t)) : x = (s \o t)[i]
    BY <1>1 DEF ToSet
  <2>2. CASE i <= Len(s)
    BY <1>1, <2>1, <2>2 DEF ToSet
  <2>3. CASE ~(i <= Len(s))
    <3>1. i - Len(s) \in 1..Len(t) /\ x = t[i - Len(s)]
      BY <1>1, <2>1, <2>3
    <3> QED BY <1>1, <3>1 DEF ToSet
  <2> QED BY <2>2, <2>3
<1>3. ASSUME NEW x \in ToSet(s) PROVE x \in ToSet(s \o t)
  <2>1. PICK i \in 1..Len(s) : x = s[i]
    BY <1>1 DEF ToSet
  <2>2. i \in 1..(Len(s) + Len(t)) /\ (s \o t)[i] = x
    BY <1>1, <2>1
  <2> QED BY <1>1, <2>2 DEF ToSet
<1>4. ASSUME NEW x \in ToSet(t) PROVE x \in ToSet(s \o t)
  <2>1. PICK i \in 1..Len(t) : x = t[i]
    BY <1>1 DEF ToSet
  <2>2. Len(s) + i \in 1..(Len(s) + Len(t)) /\ (s \o t)[Len(s) + i] = x
    BY <1>1, <2>1
  <2> QED BY <1>1, <2>2 DEF ToSet
<1> QED BY <1>2, <1>3, <1>4

\* Two sequences of effects put together.
LEMMA JoinSet ==
  \A s, t \in Seq(Effects) : /\ s \o t \in Seq(Effects)
                             /\ ToSet(s \o t) = ToSet(s) \cup ToSet(t)
                             /\ Len(s \o t) = Len(s) + Len(t)
                             /\ \A i \in 1..Len(t) : (s \o t)[Len(s) + i] = t[i]
BY Joined, SetOfJoin

\* The lengths of two sequences add up.
LEMMA LenJoin ==
  ASSUME NEW S, NEW s \in Seq(S), NEW t \in Seq(S)
  PROVE  /\ Len(s) \in Nat /\ Len(t) \in Nat /\ Len(s \o t) = Len(s) + Len(t)
         /\ s # << >> => Len(s) # 0
OBVIOUS

\* None, and one.
LEMMA SetOfOne ==
  /\ ToSet(<< >>) = {}
  /\ \A e : ToSet(<<e>>) = {e}
BY DEF ToSet

\* The addresses of a bridge, of one subnet.
LEMMA RouteTyped ==
  ASSUME NEW b \in Names \cup {HostBr}, NEW cidr \in SUBSET Nat, NEW n \in Nat
  PROVE  /\ Route(b, cidr, n) \in Seq(Effects)
         /\ ToSet(Route(b, cidr, n)) = IF cidr = {} THEN {} ELSE {Effect("route", b, cidr, n)}
<1>1. Effect("route", b, cidr, n) \in Effects
  BY DEF Effect, Effects
<1>2. \A e \in Effects : <<e>> \in Seq(Effects)
  OBVIOUS
<1>3. << >> \in Seq(Effects)
  OBVIOUS
<1> QED BY <1>1, <1>2, <1>3, SetOfOne DEF Route

\* The effects that the handlers are made of.
LEMMA PartsTyped ==
  /\ \A l \in Labs, m \in NetMaps :
       Write(l, m) \in Seq(Effects) /\ ToSet(Write(l, m)) = {Effect("save", l, m, 0)}
  /\ \A b \in Names \cup {HostBr}, n \in Nat :
       AddBridge(b, n) \in Seq(Effects) /\ ToSet(AddBridge(b, n)) = {Effect("add", b, None, n)}
  /\ \A b \in Names \cup {HostBr}, c \in Cloud :
       Own(b, c) \in Seq(Effects) /\ ToSet(Own(b, c)) = {Effect("own", b, c, c[2])}
  /\ \A b \in Names \cup {HostBr} :
       /\ Drop(b) \in Seq(Effects) /\ ToSet(Drop(b)) = {Effect("drop", b, None, 0)}
       /\ Unroute(b) \in Seq(Effects) /\ ToSet(Unroute(b)) = {Effect("unroute", b, None, 0)}
<1>1. \A e \in Effects : <<e>> \in Seq(Effects)
  OBVIOUS
<1>2. << >> \in Seq(Effects)
  OBVIOUS
<1>3. ASSUME NEW l \in Labs, NEW m \in NetMaps
      PROVE  Write(l, m) \in Seq(Effects) /\ ToSet(Write(l, m)) = {Effect("save", l, m, 0)}
  <2>1. Effect("save", l, m, 0) \in Effects
    BY DEF Effect, Effects
  <2> QED BY <1>1, <2>1, SetOfOne DEF Write
<1>4. ASSUME NEW b \in Names \cup {HostBr}, NEW n \in Nat
      PROVE  AddBridge(b, n) \in Seq(Effects) /\ ToSet(AddBridge(b, n)) = {Effect("add", b, None, n)}
  <2>1. Effect("add", b, None, n) \in Effects
    BY DEF Effect, Effects
  <2> QED BY <1>1, <2>1, SetOfOne DEF AddBridge
<1>5. ASSUME NEW b \in Names \cup {HostBr}, NEW c \in Cloud
      PROVE  Own(b, c) \in Seq(Effects) /\ ToSet(Own(b, c)) = {Effect("own", b, c, c[2])}
  <2>1. c[2] \in Nat
    BY CloudConstants DEF Cloud, Ids
  <2>2. Effect("own", b, c, c[2]) \in Effects
    BY <2>1 DEF Effect, Effects
  <2> QED BY <1>1, <2>2, SetOfOne DEF Own
<1>6. ASSUME NEW b \in Names \cup {HostBr}
      PROVE  /\ Drop(b) \in Seq(Effects) /\ ToSet(Drop(b)) = {Effect("drop", b, None, 0)}
             /\ Unroute(b) \in Seq(Effects) /\ ToSet(Unroute(b)) = {Effect("unroute", b, None, 0)}
  <2>1. Effect("drop", b, None, 0) \in Effects /\ Effect("unroute", b, None, 0) \in Effects
    BY DEF Effect, Effects
  <2> QED BY <1>1, <2>1, SetOfOne DEF Drop, Unroute
<1> QED BY <1>3, <1>4, <1>5, <1>6

\* The effects to come.
LEMMA TodoTyped ==
  ASSUME CloudInv
  PROVE  /\ op \in Ops /\ op.todo \in Seq(Effects) /\ op.undo \in Seq(Effects)
         /\ \A e \in ToSet(op.todo) : e \in Safe /\ e \in Effects
         /\ \A e \in ToSet(op.todo) : e.do \in {"save", "unlink"} => e.on \in Labs
<1>1. op \in Ops /\ op.todo \in Seq(Safe)
  BY DEF CloudInv
<1>2. op.todo \in Seq(Effects) /\ op.undo \in Seq(Effects)
  BY <1>1 DEF Ops
<1>3. ASSUME NEW e \in ToSet(op.todo)
      PROVE  e \in Safe
  <2> DEFINE S == Safe
  <2>1. op.todo \in Seq(S)
    BY <1>1
  <2> HIDE DEF S
  <2>2. PICK i \in DOMAIN op.todo : e = op.todo[i]
    BY DEF ToSet
  <2>3. e \in S
    BY <2>1, <2>2
  <2> QED BY <2>3 DEF S
<1>4. \A e \in Safe : e \in Effects /\ (e.do \in {"save", "unlink"} => e.on \in Labs)
  BY DEF Safe, SafeEffects, Harmless
<1> QED BY <1>1, <1>2, <1>3, <1>4

\* What a handler that goes on keeps.
LEMMA ContinueFacts ==
  ASSUME NEW o \in Ops, NEW t \in Seq(Effects)
  PROVE  /\ t = << >> => Continue(t, o) = Idle
         /\ t # << >> => LET q == Continue(t, o) IN
              /\ q.kind = o.kind /\ q.lab = o.lab /\ q.net = o.net /\ q.undo = o.undo
              /\ q.clean = o.clean /\ q.todo = t
         /\ Idle.kind = "idle" /\ Idle.todo = << >>
BY DEF Continue, Ops, Idle

\* One effect on the host.
LEMMA HostStep ==
  ASSUME HostTyped, NEW e \in Effects, host' = HostAfter(e)
  PROVE  HostTyped' /\ HostMoved(e, host, host')
<1> DEFINE h == host[e.on]
           k == CASE e.do = "add"     -> [h EXCEPT !.up = TRUE]
                  [] e.do = "own"     -> [h EXCEPT !.fp = e.arg]
                  [] e.do = "route"   -> [h EXCEPT !.routed = e.arg]
                  [] e.do = "unroute" -> [h EXCEPT !.routed = {}]
                  [] e.do = "drop"    -> [h EXCEPT !.up = FALSE]
                  [] e.do = "disown"  -> [h EXCEPT !.fp = None]
                  [] OTHER            -> h
<1>0. /\ host \in [Names -> HostState]
      /\ e.arg \in Args /\ None \in Args /\ {} \in Args
  BY DEF HostTyped, Effects, Args
<1>1. host' = [host EXCEPT ![e.on] = k]
  <2>1. CASE e.do \in {"add", "own", "route", "unroute", "drop", "disown"}
    BY <2>1 DEF HostAfter
  <2>2. CASE e.do \notin {"add", "own", "route", "unroute", "drop", "disown"}
    <3>1. host' = host /\ k = host[e.on]
      BY <2>2 DEF HostAfter
    <3> QED BY <1>0, <3>1
  <2> QED BY <2>1, <2>2
<1>2. ASSUME e.on \in Names
      PROVE  /\ k \in HostState
             /\ k.up = IF e.do = "add" THEN TRUE ELSE IF e.do = "drop" THEN FALSE ELSE h.up
             /\ k.fp = IF e.do = "own" THEN e.arg ELSE IF e.do = "disown" THEN None ELSE h.fp
             /\ k.routed = IF e.do = "route" THEN e.arg ELSE IF e.do = "unroute" THEN {} ELSE h.routed
  <2>1. h \in HostState
    BY <1>0, <1>2
  <2> HIDE DEF h
  <2>2. CASE e.do = "add"
    <3>1. k = [h EXCEPT !.up = TRUE]
      BY <2>2
    <3> HIDE DEF k
    <3>2. k \in HostState /\ k.up = TRUE /\ k.fp = h.fp /\ k.routed = h.routed
      BY <1>0, <2>1, <3>1 DEF HostState
    <3> QED BY <2>2, <3>2
  <2>3. CASE e.do = "own"
    <3>1. k = [h EXCEPT !.fp = e.arg]
      BY <2>3
    <3> HIDE DEF k
    <3>2. k \in HostState /\ k.up = h.up /\ k.fp = e.arg /\ k.routed = h.routed
      BY <1>0, <2>1, <3>1 DEF HostState
    <3> QED BY <2>3, <3>2
  <2>4. CASE e.do = "route"
    <3>1. k = [h EXCEPT !.routed = e.arg]
      BY <2>4
    <3> HIDE DEF k
    <3>2. k \in HostState /\ k.up = h.up /\ k.fp = h.fp /\ k.routed = e.arg
      BY <1>0, <2>1, <3>1 DEF HostState
    <3> QED BY <2>4, <3>2
  <2>5. CASE e.do = "unroute"
    <3>1. k = [h EXCEPT !.routed = {}]
      BY <2>5
    <3> HIDE DEF k
    <3>2. k \in HostState /\ k.up = h.up /\ k.fp = h.fp /\ k.routed = {}
      BY <1>0, <2>1, <3>1 DEF HostState
    <3> QED BY <2>5, <3>2
  <2>6. CASE e.do = "drop"
    <3>1. k = [h EXCEPT !.up = FALSE]
      BY <2>6
    <3> HIDE DEF k
    <3>2. k \in HostState /\ k.up = FALSE /\ k.fp = h.fp /\ k.routed = h.routed
      BY <1>0, <2>1, <3>1 DEF HostState
    <3> QED BY <2>6, <3>2
  <2>7. CASE e.do = "disown"
    <3>1. k = [h EXCEPT !.fp = None]
      BY <2>7
    <3> HIDE DEF k
    <3>2. k \in HostState /\ k.up = h.up /\ k.fp = None /\ k.routed = h.routed
      BY <1>0, <2>1, <3>1 DEF HostState
    <3> QED BY <2>7, <3>2
  <2>8. CASE e.do \notin {"add", "own", "route", "unroute", "drop", "disown"}
    BY <2>1, <2>8
  <2> QED BY <2>2, <2>3, <2>4, <2>5, <2>6, <2>7, <2>8
<1> HIDE DEF k
<1>3. host' \in [Names -> HostState] /\ \A b \in Names : host'[b] = IF b = e.on THEN k ELSE host[b]
  <2>1. host' = [b \in Names |-> IF b = e.on THEN k ELSE host[b]]
    BY <1>0, <1>1
  <2> QED BY <1>0, <1>2, <2>1
<1> QED BY <1>2, <1>3 DEF HostTyped, HostMoved

\* A handler carries out an effect, seen as a change of the labs and the host.
LEMMA StepFacts ==
  ASSUME CloudInv, HostInv, Step
  PROVE  LET e == Head(op.todo) IN
         /\ op.todo # << >> /\ op.todo \in Seq(Effects) /\ e \in Effects /\ e \in ToSet(op.todo)
         /\ e.do \in {"save", "unlink"} => e.on \in Labs
         /\ HostInv' /\ HostMoved(e, host, host')
         /\ nets' = NetsAfter(e) /\ file' = FileAfter(e)
         /\ op' = Continue(Rest(e), op) /\ op \in Ops
         /\ UNCHANGED <<hash, up, spent, patched, damaged, leaked>> /\ up
<1> DEFINE e == Head(op.todo)
<1>1. /\ op.todo # << >> /\ host' = HostAfter(e) /\ nets' = NetsAfter(e) /\ file' = FileAfter(e)
      /\ op' = Continue(Rest(e), op) /\ up
      /\ UNCHANGED <<hash, up, spent, patched, damaged, leaked>>
  BY DEF Step, history
<1>2. /\ op \in Ops /\ op.todo \in Seq(Effects) /\ \A x \in ToSet(op.todo) : x \in Effects
      /\ \A x \in ToSet(op.todo) : x.do \in {"save", "unlink"} => x.on \in Labs
  BY TodoTyped
<1>3. ToSet(op.todo) = {e} \cup ToSet(Tail(op.todo))
  BY <1>1, <1>2, SetOfTail
<1>4. e \in ToSet(op.todo) /\ e \in Effects /\ (e.do \in {"save", "unlink"} => e.on \in Labs)
  BY <1>2, <1>3
<1>5. HostTyped' /\ HostMoved(e, host, host')
  BY <1>1, <1>4, HostStep DEF HostInv
<1>6. HostInv'
  BY <1>1, <1>5 DEF HostInv
<1> HIDE DEF e
<1> QED BY <1>1, <1>2, <1>4, <1>5, <1>6 DEF e

\* An effect of a create_network brings the network nearer.
LEMMA MakingStep ==
  ASSUME NEW l \in Labs, NEW n, NEW r \in NetRecord, NEW s \in Seq(Effects), s # << >>,
         NEW N \in [Labs -> NetMaps], NEW M, NEW H, NEW K,
         Making(l, n, r, s, N, H), HostMoved(Head(s), H, K),
         M = IF Head(s).do = "save" THEN [N EXCEPT ![Head(s).on] = Head(s).arg] ELSE N
  PROVE  Making(l, n, r, Tail(s), M, K)
<1> DEFINE e == Head(s)
           t == Tail(s)
<1>1. ToSet(s) = {e} \cup ToSet(t)
  BY SetOfTail
<1>2. /\ e.do \in {"save", "add", "own", "route"}
      /\ e.do = "save" => e.on = l /\ n \in DOMAIN e.arg /\ e.arg[n] = r
      /\ e.do = "own" => e.arg = <<l, n>>
      /\ e.do = "route" => e.arg = r.cidr
  BY <1>1 DEF Making
<1>3. \A do, b : Pend(s, do, b) => (e.do = do /\ e.on = b) \/ Pend(t, do, b)
  BY <1>1 DEF Pend
<1>4. HostMoved(e, H, K)
  OBVIOUS
<1> HIDE DEF e, t
<1>5. \A x \in ToSet(t) : /\ x.do \in {"save", "add", "own", "route"}
                          /\ x.do = "save" => x.on = l /\ n \in DOMAIN x.arg /\ x.arg[n] = r
                          /\ x.do = "own" => x.arg = <<l, n>>
                          /\ x.do = "route" => x.arg = r.cidr
  BY <1>1 DEF Making
<1>6. (n \in DOMAIN M[l] /\ M[l][n] = r) \/ Pend(t, "save", l)
  <2>1. (n \in DOMAIN N[l] /\ N[l][n] = r) \/ Pend(s, "save", l)
    BY DEF Making
  <2>2. CASE e.do = "save"
    <3>1. M = [N EXCEPT ![l] = e.arg] /\ n \in DOMAIN e.arg /\ e.arg[n] = r
      BY <1>2, <2>2 DEF e
    <3>2. M[l] = e.arg
      BY <3>1
    <3> QED BY <3>1, <3>2
  <2>3. CASE e.do # "save"
    <3>1. M = N
      BY <2>3 DEF e
    <3> QED BY <1>3, <2>1, <2>3, <3>1
  <2> QED BY <2>2, <2>3
<1>7. ASSUME ~Plain(r)
      PROVE  LET b == r.bridge IN
             /\ K[b].up \/ Pend(t, "add", b)
             /\ K[b].fp = <<l, n>> \/ Pend(t, "own", b)
             /\ IsNat(r) => K[b].routed = r.cidr \/ Pend(t, "route", b)
  <2> DEFINE b == r.bridge
  <2>1. b \in Names
    BY <1>7 DEF Plain, NetRecord
  <2>2. /\ H[b].up \/ Pend(s, "add", b)
        /\ H[b].fp = <<l, n>> \/ Pend(s, "own", b)
        /\ IsNat(r) => H[b].routed = r.cidr \/ Pend(s, "route", b)
    BY <1>7 DEF Making
  <2>3. /\ b # e.on => K[b] = H[b]
        /\ b = e.on =>
             /\ K[b].up = IF e.do = "add" THEN TRUE ELSE IF e.do = "drop" THEN FALSE ELSE H[b].up
             /\ K[b].fp = IF e.do = "own" THEN e.arg ELSE IF e.do = "disown" THEN None ELSE H[b].fp
             /\ K[b].routed = IF e.do = "route" THEN e.arg ELSE IF e.do = "unroute" THEN {}
                              ELSE H[b].routed
    BY <1>4, <2>1 DEF HostMoved
  <2> HIDE DEF b
  <2>4. K[b].up \/ Pend(t, "add", b)
    BY <1>2, <1>3, <2>2, <2>3
  <2>5. K[b].fp = <<l, n>> \/ Pend(t, "own", b)
    BY <1>2, <1>3, <2>2, <2>3
  <2>6. ASSUME IsNat(r) PROVE K[b].routed = r.cidr \/ Pend(t, "route", b)
    <3>1. H[b].routed = r.cidr \/ Pend(s, "route", b)
      BY <2>2, <2>6
    <3>2. CASE e.do = "route" /\ e.on = b
      BY <1>2, <2>3, <3>2
    <3>3. CASE ~(e.do = "route" /\ e.on = b)
      <4>1. K[b].routed = H[b].routed
        BY <1>2, <2>3, <3>3
      <4> QED BY <1>3, <3>1, <3>3, <4>1
    <3> QED BY <3>2, <3>3
  <2> QED BY <2>4, <2>5, <2>6 DEF b
<1>8. Making(l, n, r, t, M, K)
  BY <1>5, <1>6, <1>7 DEF Making
<1> QED BY <1>8 DEF t

\* Nothing is left to do: the network is whole.
LEMMA MadeWhole ==
  ASSUME NEW l, NEW n, NEW r, NEW s, s = << >>, NEW N, NEW H, Making(l, n, r, s, N, H)
  PROVE  /\ n \in DOMAIN N[l] /\ N[l][n] = r
         /\ ~Plain(r) => /\ H[r.bridge].up /\ H[r.bridge].fp = <<l, n>>
                         /\ IsNat(r) => H[r.bridge].routed = r.cidr
<1>1. \A do, b : ~Pend(s, do, b)
  BY SetOfOne DEF Pend
<1> QED BY <1>1 DEF Making

\* The last effect of a longer sequence is the last of what remains.
LEMMA ConflictStep ==
  ASSUME NEW l, NEW n, NEW s \in Seq(Effects), s # << >>, Conflict(l, n, s)
  PROVE  /\ Head(s).do = "save"
         /\ Tail(s) = << >> => Head(s).on = l /\ n \notin DOMAIN Head(s).arg
         /\ Tail(s) # << >> => Conflict(l, n, Tail(s))
<1>1. /\ Head(s) = s[1] /\ Len(s) \in Nat \ {0} /\ Len(Tail(s)) = Len(s) - 1
      /\ \A i \in 1..(Len(s) - 1) : Tail(s)[i] = s[i + 1]
      /\ Tail(s) = << >> <=> Len(s) = 1
      /\ ToSet(s) = {Head(s)} \cup ToSet(Tail(s))
  BY SetOfTail
<1>2. CASE Len(s) = 1
  BY <1>1, <1>2 DEF Conflict
<1>3. CASE Len(s) # 1
  <2>1. Len(s) - 1 \in 1..(Len(s) - 1) /\ Len(s) - 1 + 1 = Len(s)
    BY <1>1, <1>3
  <2>2. Tail(s)[Len(Tail(s))] = s[Len(s)]
    BY <1>1, <2>1
  <2> QED BY <1>1, <1>3, <2>2 DEF Conflict
<1> QED BY <1>2, <1>3

\* What CreatedIsWhole says of a step.
CreatedWholeNow ==
  Ends("create") /\ op.net \in DOMAIN nets'[op.lab] =>
    LET r == nets'[op.lab][op.net] IN
    ~ IsRef(r) /\ r.type # "bridge_cloud" =>
      /\ host'[r.bridge].up /\ host'[r.bridge].fp = <<op.lab, op.net>>
      /\ IsNat(r) => host'[r.bridge].routed = r.cidr

\* A create_network goes on, and its last effect makes the network whole.
LEMMA CreateStep ==
  ASSUME BridgeInv, Step
  PROVE  CreateInv' /\ CreatedWholeNow
<1> DEFINE e == Head(op.todo)
           t == Tail(op.todo)
           l == op.lab
           n == op.net
<1>0. nets \in [Labs -> NetMaps]
  BY DEF BridgeInv, CloudInv, Good
<1>1. /\ op.todo # << >> /\ op.todo \in Seq(Effects) /\ e \in Effects
      /\ HostMoved(e, host, host') /\ nets' = NetsAfter(e)
      /\ op' = Continue(Rest(e), op) /\ op \in Ops
  BY StepFacts DEF BridgeInv
<1>2. t \in Seq(Effects)
  BY <1>1, SetOfTail
<1>3. Rest(e) = IF e.do = "drop" THEN <<Effect("disown", e.on, None, 0)>> \o t ELSE t
  BY DEF Rest
<1>4. CASE op.kind = "create"
  <2>0. op.undo # << >> /\ l \in Labs
    BY <1>4 DEF BridgeInv, CreateInv
  <2>1. CASE Conflict(l, n, op.todo)
    <3>1. /\ e.do = "save" /\ (t = << >> => e.on = l /\ n \notin DOMAIN e.arg)
          /\ t # << >> => Conflict(l, n, t)
      BY <1>1, <2>1, ConflictStep
    <3>2. op' = Continue(t, op) /\ nets' = [nets EXCEPT ![e.on] = e.arg]
      BY <1>1, <1>3, <3>1 DEF NetsAfter
    <3> HIDE DEF e, t
    <3>3. CASE t = << >>
      <4>1. op' = Idle /\ op'.kind = "idle"
        BY <1>1, <1>2, <3>2, <3>3, ContinueFacts
      <4>2. nets'[l] = e.arg /\ n \notin DOMAIN nets'[l]
        BY <1>0, <2>0, <3>1, <3>2, <3>3
      <4> QED BY <4>1, <4>2 DEF CreateInv, CreatedWholeNow
    <3>4. CASE t # << >>
      <4>1. op'.kind = "create" /\ op'.lab = l /\ op'.net = n /\ op'.undo = op.undo /\ op'.todo = t
        BY <1>1, <1>2, <1>4, <3>2, <3>4, ContinueFacts
      <4>2. op' # Idle
        BY <4>1, ContinueFacts, <1>1, <1>2
      <4>3. Conflict(op'.lab, op'.net, op'.todo)
        BY <3>1, <3>4, <4>1
      <4> QED BY <2>0, <3>4, <4>1, <4>2, <4>3 DEF CreateInv, CreatedWholeNow, Ends
    <3> QED BY <3>3, <3>4
  <2>2. ASSUME NEW r \in NetRecord, Making(l, n, r, op.todo, nets, host)
        PROVE  CreateInv' /\ CreatedWholeNow
    <3>1. e.do \in {"save", "add", "own", "route"}
      <4>1. ToSet(op.todo) = {e} \cup ToSet(t)
        BY <1>1, SetOfTail
      <4> QED BY <2>2, <4>1 DEF Making
    <3>2. op' = Continue(t, op)
      BY <1>1, <1>3, <3>1
    <3>3. nets' = IF e.do = "save" THEN [nets EXCEPT ![e.on] = e.arg] ELSE nets
      BY <1>1, <3>1 DEF NetsAfter
    <3>4. Making(l, n, r, t, nets', host')
      BY <1>0, <1>1, <2>0, <2>2, <3>3, MakingStep
    <3> HIDE DEF e, t
    <3>5. CASE t = << >>
      <4>1. op' = Idle /\ op'.kind = "idle"
        BY <1>1, <1>2, <3>2, <3>5, ContinueFacts
      <4>2. /\ nets'[l][n] = r
            /\ ~Plain(r) => /\ host'[r.bridge].up /\ host'[r.bridge].fp = <<l, n>>
                            /\ IsNat(r) => host'[r.bridge].routed = r.cidr
        BY <3>4, <3>5, MadeWhole
      <4> QED BY <4>1, <4>2 DEF CreateInv, CreatedWholeNow, Plain
    <3>6. CASE t # << >>
      <4>1. op'.kind = "create" /\ op'.lab = l /\ op'.net = n /\ op'.undo = op.undo /\ op'.todo = t
        BY <1>1, <1>2, <1>4, <3>2, <3>6, ContinueFacts
      <4>2. op' # Idle
        BY <4>1, ContinueFacts, <1>1, <1>2
      <4>3. Making(op'.lab, op'.net, r, op'.todo, nets', host')
        BY <3>4, <4>1
      <4> QED BY <2>0, <3>6, <4>1, <4>2, <4>3 DEF CreateInv, CreatedWholeNow, Ends
    <3> QED BY <3>5, <3>6
  <2> QED BY <1>4, <2>1, <2>2 DEF BridgeInv, CreateInv
<1>5. CASE op.kind # "create"
  <2>1. Rest(e) \in Seq(Effects)
    <3> DEFINE d == Effect("disown", e.on, None, 0)
    <3>1. d \in Effects
      BY <1>1 DEF Effect, Effects
    <3> HIDE DEF d, t, e
    <3>2. <<d>> \in Seq(Effects)
      BY <3>1
    <3>3. <<d>> \o t \in Seq(Effects)
      BY <1>2, <3>2
    <3> QED BY <1>2, <1>3, <3>3 DEF d
  <2>2. op'.kind # "create"
    <3> HIDE DEF e
    <3> QED BY <1>1, <1>5, <2>1, ContinueFacts
  <2> QED BY <1>5, <2>2 DEF CreateInv, CreatedWholeNow, Ends
<1> QED BY <1>4, <1>5

\* A step of no create_network, or one that rolls a create_network back.
LEMMA NotCreating ==
  ASSUME op'.kind # "create", op.kind # "create" \/ op' # Idle
  PROVE  CreateInv' /\ CreatedWholeNow
BY DEF CreateInv, CreatedWholeNow, Ends

\* A create_network that fails rolls back.
LEMMA CreateFails ==
  ASSUME BridgeInv, StepFails
  PROVE  CreateInv' /\ CreatedWholeNow
<1> DEFINE e == Head(op.todo)
<1>1. op' = AfterFailure(e) /\ op.todo # << >> /\ op \in Ops /\ op.todo \in Seq(Effects)
      /\ op.undo \in Seq(Effects)
  BY TodoTyped DEF StepFails, BridgeInv
<1>2. op.kind = "create" => op.undo # << >>
  BY DEF BridgeInv, CreateInv
<1>3. e \in Effects /\ Tail(op.todo) \in Seq(Effects)
  BY <1>1, SetOfTail
<1> HIDE DEF e
<1>4. CASE op.kind = "create"
  <2> DEFINE d == IF e.do = "own" THEN Drop(e.on) ELSE << >>
             o == [op EXCEPT !.kind = "undo", !.clean = FALSE]
             u == op.undo
  <2>1. op' = Continue(d \o u, o)
    BY <1>1, <1>4 DEF AfterFailure
  <2>2. o \in Ops /\ o.kind = "undo"
    BY <1>1 DEF Ops, Kinds
  <2>3. d \in Seq(Effects) /\ u \in Seq(Effects) /\ u # << >>
    <3>1. Effect("drop", e.on, None, 0) \in Effects
      BY <1>3 DEF Effect, Effects
    <3>2. Drop(e.on) \in Seq(Effects)
      BY <3>1 DEF Drop
    <3> QED BY <1>1, <1>2, <1>4, <3>2
  <2> HIDE DEF d, o, u
  <2>4. d \o u \in Seq(Effects) /\ d \o u # << >>
    <3>1. d \o u \in Seq(Effects) /\ Len(d \o u) = Len(d) + Len(u)
      BY <2>3
    <3>2. Len(d) \in Nat /\ Len(u) \in Nat /\ Len(u) # 0
      BY <2>3
    <3>3. Len(d \o u) # 0
      BY <3>1, <3>2
    <3> QED BY <3>1, <3>3
  <2> DEFINE v == d \o u
  <2>5. op'.kind = "undo"
    <3>1. v \in Seq(Effects) /\ v # << >> /\ op' = Continue(v, o)
      BY <2>1, <2>4
    <3> HIDE DEF v
    <3> QED BY <2>2, <3>1, ContinueFacts, SMTT(30)
  <2> QED BY <1>4, <2>5, NotCreating DEF Idle
<1>5. CASE op.kind # "create"
  <2>1. op' = Idle \/ op'.kind = op.kind
    <3> DEFINE o == [op EXCEPT !.clean = FALSE]
    <3>1. o.kind = op.kind
      BY <1>1 DEF Ops
    <3>2. \A t : Continue(t, o) = Idle \/ Continue(t, o).kind = op.kind
      BY <1>1 DEF Continue, Ops
    <3> QED BY <1>1, <1>5, <3>2 DEF AfterFailure
  <2> QED BY ONLY <1>5, <2>1, NotCreating DEF Idle
<1> QED BY <1>4, <1>5

\* A bridge with the fingerprint of a network.
LEMMA Matching ==
  ASSUME NEW b, NEW c \in Cloud
  PROVE  Fingerprint(b, c) = "match" <=> host[b].fp = c
<1>1. c # None
  BY CloudConstants DEF Cloud, Ids
<1> QED BY <1>1 DEF Fingerprint

\* The effects of a create_network make its network whole.
LEMMA ProvisionMakes ==
  ASSUME BridgeInv, NEW l \in Readable, NEW n \in Ids \ NetIds(l), NEW r \in NetRecord,
         IsOwner(r) => r.cidr # {}
  PROVE  LET todo == Write(l, With(l, n, r)) \o Provision(l, n, r) IN
         /\ todo # << >> /\ todo \in Seq(Effects)
         /\ Conflict(l, n, todo) \/ Making(l, n, r, todo, nets, host)
<1> DEFINE W == With(l, n, r)
           c == <<l, n>>
           b == r.bridge
           save == Write(l, W)
           todo == save \o Provision(l, n, r)
<1>0. /\ l \in Labs /\ n \in Nat /\ c \in Cloud /\ c[2] = n /\ Good(nets, file, patched, damaged)
      /\ b \in Names \cup {HostBr} /\ r.cidr \in SUBSET Nat /\ nets[l] \in NetMaps
      /\ n \notin DOMAIN nets[l]
  <2>1. Good(nets, file, patched, damaged)
    BY DEF BridgeInv, CloudInv
  <2>2. nets \in [Labs -> NetMaps] /\ l \in Labs
    BY <2>1 DEF Good, Readable
  <2> QED BY <2>1, <2>2, CloudConstants DEF Cloud, Ids, NetIds, NetRecord, Fields
<1>1. W \in NetMaps /\ n \in DOMAIN W /\ W[n] = r
  <2>1. n \in Ids
    OBVIOUS
  <2>2. IsWith(W, l, n, r)
    BY <1>0, <2>1, MapsTyped
  <2> HIDE DEF W
  <2> QED BY <2>2 DEF IsWith
<1>2. /\ save \in Seq(Effects) /\ ToSet(save) = {Effect("save", l, W, 0)}
      /\ Write(l, nets[l]) \in Seq(Effects)
      /\ ToSet(Write(l, nets[l])) = {Effect("save", l, nets[l], 0)}
      /\ AddBridge(b, n) \in Seq(Effects) /\ ToSet(AddBridge(b, n)) = {Effect("add", b, None, n)}
      /\ Own(b, c) \in Seq(Effects) /\ ToSet(Own(b, c)) = {Effect("own", b, c, n)}
      /\ Route(b, r.cidr, n) \in Seq(Effects)
      /\ ToSet(Route(b, r.cidr, n)) = IF r.cidr = {} THEN {} ELSE {Effect("route", b, r.cidr, n)}
  <2> HIDE DEF W, b, c
  <2>0. /\ l \in Labs /\ n \in Nat /\ b \in Names \cup {HostBr} /\ c \in Cloud /\ c[2] = n
        /\ W \in NetMaps /\ nets[l] \in NetMaps /\ r.cidr \in SUBSET Nat
    BY <1>0, <1>1
  <2>1. Write(l, W) \in Seq(Effects) /\ ToSet(Write(l, W)) = {Effect("save", l, W, 0)}
    BY <2>0, PartsTyped
  <2>2. /\ AddBridge(b, n) \in Seq(Effects) /\ ToSet(AddBridge(b, n)) = {Effect("add", b, None, n)}
        /\ Own(b, c) \in Seq(Effects) /\ ToSet(Own(b, c)) = {Effect("own", b, c, c[2])}
    BY <2>0, PartsTyped
  <2>3. /\ Route(b, r.cidr, n) \in Seq(Effects)
        /\ ToSet(Route(b, r.cidr, n)) = IF r.cidr = {} THEN {} ELSE {Effect("route", b, r.cidr, n)}
    BY <2>0, RouteTyped
  <2>4. /\ Write(l, nets[l]) \in Seq(Effects)
        /\ ToSet(Write(l, nets[l])) = {Effect("save", l, nets[l], 0)}
    BY <2>0, PartsTyped
  <2> QED BY <2>0, <2>1, <2>2, <2>3, <2>4
<1>3. save = <<Effect("save", l, W, 0)>> /\ Write(l, nets[l]) = <<Effect("save", l, nets[l], 0)>>
  BY DEF Write
<1>4. \A p \in Seq(Effects) : /\ save \o p \in Seq(Effects) /\ save \o p # << >>
                              /\ ToSet(save \o p) = {Effect("save", l, W, 0)} \cup ToSet(p)
  <2> SUFFICES ASSUME NEW p \in Seq(Effects)
               PROVE  /\ save \o p \in Seq(Effects) /\ save \o p # << >>
                      /\ ToSet(save \o p) = {Effect("save", l, W, 0)} \cup ToSet(p)
    OBVIOUS
  <2> DEFINE x == Effect("save", l, W, 0)
  <2>1. x \in Effects /\ save = <<x>>
    BY <1>0, <1>1, <1>3 DEF Effect, Effects
  <2> HIDE DEF x, save
  <2>2. ToSet(save \o p) = ToSet(save) \cup ToSet(p)
    BY <1>2, SetOfJoin
  <2>3. save \o p \in Seq(Effects) /\ Len(save \o p) = 1 + Len(p) /\ Len(p) \in Nat
    BY <2>1
  <2>4. Len(save \o p) # 0
    BY <2>3
  <2> QED BY <1>2, <2>2, <2>3, <2>4 DEF x
<1> DEFINE bring == IF host[b].up THEN << >> ELSE AddBridge(b, n) \o Own(b, c)
           route == IF IsOwner(r) THEN Route(b, r.cidr, n) \o save ELSE << >>
<1>5. << >> \in Seq(Effects) /\ ToSet(<< >>) = {}
  BY SetOfOne
<1>6. CASE Plain(r)
  <2>1. Provision(l, n, r) = << >>
    BY <1>6 DEF Provision, Plain
  <2>2. todo \in Seq(Effects) /\ todo # << >> /\ ToSet(todo) = {Effect("save", l, W, 0)}
    BY <1>4, <1>5, <2>1
  <2> HIDE DEF todo, W
  <2>3. Making(l, n, r, todo, nets, host)
    BY <1>1, <1>6, <2>2 DEF Making, Pend, Effect
  <2> QED BY <2>2, <2>3 DEF todo, W
<1>7. CASE ~Plain(r) /\ host[b].up /\ Fingerprint(b, c) # "match"
  <2> DEFINE x == Effect("save", l, W, 0)
             y == Effect("save", l, nets[l], 0)
  <2>1. Provision(l, n, r) = <<y>>
    BY <1>3, <1>7 DEF Provision, Plain
  <2>2. todo \in Seq(Effects) /\ todo # << >> /\ ToSet(todo) = {x} \cup {y}
    BY <1>2, <1>3, <1>4, <2>1
  <2>3. todo = <<x>> \o <<y>>
    BY <1>3, <2>1
  <2>4. x.do = "save" /\ y.do = "save" /\ y.on = l /\ y.arg = nets[l]
    BY DEF Effect
  <2> HIDE DEF x, y, todo
  <2>5. Len(todo) = 2 /\ todo[2] = y
    BY <2>3
  <2>6. Conflict(l, n, todo)
    BY <1>0, <2>2, <2>4, <2>5 DEF Conflict
  <2> QED BY <2>2, <2>6 DEF todo
<1>8. CASE ~Plain(r) /\ ~(host[b].up /\ Fingerprint(b, c) # "match")
  <2>1. Provision(l, n, r) = bring \o route
    BY <1>8 DEF Provision, Plain
  <2>2. AddBridge(b, n) \o Own(b, c) \in Seq(Effects)
        /\ ToSet(AddBridge(b, n) \o Own(b, c)) = ToSet(AddBridge(b, n)) \cup ToSet(Own(b, c))
    <3> DEFINE p == AddBridge(b, n)
               q == Own(b, c)
    <3>1. p \in Seq(Effects) /\ q \in Seq(Effects)
      BY <1>2
    <3> HIDE DEF p, q
    <3>2. p \o q \in Seq(Effects) /\ ToSet(p \o q) = ToSet(p) \cup ToSet(q)
      BY <3>1, Joined, SetOfJoin
    <3> QED BY <3>2 DEF p, q
  <2>3. Route(b, r.cidr, n) \o save \in Seq(Effects)
        /\ ToSet(Route(b, r.cidr, n) \o save) = ToSet(Route(b, r.cidr, n)) \cup ToSet(save)
    <3> DEFINE z == Route(b, r.cidr, n)
               w == z \o save
    <3>1. z \in Seq(Effects) /\ save \in Seq(Effects) /\ w = z \o save
      BY <1>2
    <3> HIDE DEF save, w, z
    <3>2. w \in Seq(Effects) /\ ToSet(w) = ToSet(z) \cup ToSet(save)
      BY <3>1, JoinSet, Zenon
    <3> QED BY <3>2 DEF w, z
  <2>4. /\ bring \in Seq(Effects) /\ route \in Seq(Effects)
        /\ ToSet(bring) = IF host[b].up THEN {} ELSE {Effect("add", b, None, n), Effect("own", b, c, n)}
    BY <1>2, <1>5, <2>2, <2>3
  <2>5. ToSet(route) = IF IsOwner(r) THEN {Effect("route", b, r.cidr, n), Effect("save", l, W, 0)}
                       ELSE {}
    BY <1>2, <1>5, <2>3
  <2> HIDE DEF bring, route
  <2>6. bring \o route \in Seq(Effects) /\ ToSet(bring \o route) = ToSet(bring) \cup ToSet(route)
    BY <2>4, Joined, SetOfJoin
  <2>7. todo \in Seq(Effects) /\ todo # << >>
        /\ ToSet(todo) = {Effect("save", l, W, 0)} \cup ToSet(bring) \cup ToSet(route)
    BY <1>4, <2>1, <2>6
  <2>8. host[b].up => host[b].fp = c
    BY <1>0, <1>8, Matching
  <2>9. IsNat(r) => IsOwner(r)
    BY <1>8 DEF Plain, IsRef, IsOwner
  <2> DEFINE x1 == Effect("save", l, W, 0)
             x2 == Effect("add", b, None, n)
             x3 == Effect("own", b, c, n)
             x4 == Effect("route", b, r.cidr, n)
  <2>10. /\ x1.do = "save" /\ x1.on = l /\ x1.arg = W /\ x2.do = "add" /\ x2.on = b
         /\ x3.do = "own" /\ x3.on = b /\ x3.arg = c
         /\ x4.do = "route" /\ x4.on = b /\ x4.arg = r.cidr
    BY DEF Effect
  <2>11. /\ \A e \in ToSet(todo) : e \in {x1, x2, x3, x4}
         /\ x1 \in ToSet(todo) /\ (~host[b].up => x2 \in ToSet(todo) /\ x3 \in ToSet(todo))
         /\ IsOwner(r) => x4 \in ToSet(todo)
    BY <2>4, <2>5, <2>7
  <2> HIDE DEF x1, x2, x3, x4, todo, W
  <2>12. \A e \in ToSet(todo) : /\ e.do \in {"save", "add", "own", "route"}
                                /\ e.do = "save" => e.on = l /\ n \in DOMAIN e.arg /\ e.arg[n] = r
                                /\ e.do = "own" => e.arg = <<l, n>>
                                /\ e.do = "route" => e.arg = r.cidr
    BY <1>1, <2>10, <2>11
  <2>13. /\ Pend(todo, "save", l) /\ (host[b].up \/ Pend(todo, "add", b))
         /\ host[b].fp = <<l, n>> \/ Pend(todo, "own", b)
         /\ IsNat(r) => Pend(todo, "route", b)
    BY <2>8, <2>9, <2>10, <2>11 DEF Pend
  <2>14. Making(l, n, r, todo, nets, host)
    BY <2>12, <2>13 DEF Making
  <2> QED BY <2>7, <2>14 DEF todo, W
<1> QED BY <1>6, <1>7, <1>8

\* create_network, of whatever kind.
LEMMA CreateBegins ==
  ASSUME BridgeInv, NEW l \in Labs, NEW r \in NetRecord, CreateRecord(l, r),
         IsOwner(r) => r.cidr # {}
  PROVE  CreateInv' /\ CreatedWholeNow
<1> DEFINE n == NextId(l)
           todo == Write(l, With(l, n, r)) \o Provision(l, n, r)
           u == IF IsOwner(r) THEN Unroute(r.bridge) ELSE << >>
           undo == Write(l, nets[l]) \o u
           o == [kind |-> "create", lab |-> l, net |-> n, todo |-> todo, undo |-> undo,
                 clean |-> TRUE]
<1>1. /\ l \in Readable /\ n \in Ids /\ op = Idle /\ op' = Continue(todo, o)
      /\ UNCHANGED <<nets, host>>
  BY DEF CreateRecord, Begin
<1>2. Good(nets, file, patched, damaged)
  BY DEF BridgeInv, CloudInv
<1>3. n \in Ids \ NetIds(l)
  BY <1>1, <1>2, NextIdFresh
<1>4. undo # << >>
  <2>1. r.bridge \in Names \cup {HostBr} /\ nets[l] \in NetMaps
    BY <1>2 DEF NetRecord, Fields, Good
  <2>2. u \in Seq(Effects) /\ Write(l, nets[l]) \in Seq(Effects) /\ Len(Write(l, nets[l])) = 1
    <3>1. Effect("unroute", r.bridge, None, 0) \in Effects
          /\ Effect("save", l, nets[l], 0) \in Effects
      BY <2>1 DEF Effect, Effects
    <3> QED BY <3>1 DEF Unroute, Write
  <2> DEFINE w == Write(l, nets[l])
  <2> HIDE DEF u, w
  <2>3. undo = w \o u
    BY DEF w
  <2>4. w \in Seq(Effects) /\ u \in Seq(Effects) /\ Len(w) = 1
    BY <2>2 DEF w
  <2>5. Len(w \o u) = Len(w) + Len(u) /\ Len(u) \in Nat
    BY <2>4, LenJoin
  <2> HIDE DEF undo
  <2>6. Len(undo) # 0
    BY <2>3, <2>4, <2>5
  <2> QED BY <2>6
<1> HIDE DEF n
<1>5. /\ todo # << >> /\ todo \in Seq(Effects)
      /\ Conflict(l, n, todo) \/ Making(l, n, r, todo, nets, host)
  BY <1>1, <1>3, ProvisionMakes
<1> HIDE DEF todo, undo
<1>6. op' = [o EXCEPT !.todo = todo]
  BY <1>1, <1>5 DEF Continue
<1>7. op'.kind = "create" /\ op'.lab = l /\ op'.net = n /\ op'.undo = undo /\ op'.todo = todo
  BY <1>6
<1>8. CreateInv'
  BY <1>1, <1>4, <1>5, <1>7 DEF CreateInv
<1>9. CreatedWholeNow
  BY <1>1 DEF CreatedWholeNow, Ends, Idle
<1> QED BY <1>8, <1>9

\* A handler that begins.
LEMMA BeginFacts ==
  ASSUME NEW kind, NEW l, NEW n, NEW todo, NEW undo, Begin(kind, l, n, todo, undo)
  PROVE  /\ up /\ op = Idle
         /\ todo = << >> => op' = Idle
         /\ todo # << >> => op' = [kind |-> kind, lab |-> l, net |-> n, todo |-> todo,
                                   undo |-> undo, clean |-> TRUE]
BY DEF Begin, Continue

\* The handlers that are no create_network.
OtherHandler ==
  \E l \in Labs : \/ CreateLab(l) \/ EnsureLabBridges(l) \/ DeleteLab(l) \/ RemoveFile(l)
                  \/ \E n \in NetIds(l) :
                       \/ DeleteNetwork(l, n)
                       \/ \E type \in {"linux_bridge", "nat_cloud"}, cidr \in Asked :
                            PatchNetwork(l, n, type, cidr)
CreateHandler ==
  \E l \in Labs : \/ CreateBridge(l) \/ CreateHostNet(l)
                  \/ \E cidr \in Asked : CreateCloud(l, cidr)
                  \/ \E c \in Owners : CreateReference(l, c)

\* They leave the host alone and are no create_network.
LEMMA OtherBegins ==
  ASSUME OtherHandler
  PROVE  /\ op = Idle /\ up /\ UNCHANGED <<up, host>>
         /\ spent' = spent \/ spent' = spent + 1
         /\ op' = Idle \/ op'.kind \in {"lab", "ensure", "delete", "patch"}
<1> SUFFICES ASSUME NEW l \in Labs,
                    \/ CreateLab(l) \/ EnsureLabBridges(l) \/ DeleteLab(l) \/ RemoveFile(l)
                    \/ \E n \in NetIds(l) :
                         \/ DeleteNetwork(l, n)
                         \/ \E type \in {"linux_bridge", "nat_cloud"}, cidr \in Asked :
                              PatchNetwork(l, n, type, cidr)
             PROVE  /\ op = Idle /\ up /\ UNCHANGED <<up, host>>
                    /\ spent' = spent \/ spent' = spent + 1
                    /\ op' = Idle \/ op'.kind \in {"lab", "ensure", "delete", "patch"}
  BY DEF OtherHandler
<1>1. \A kind, n, todo, undo : Begin(kind, l, n, todo, undo) =>
        /\ up /\ op = Idle /\ (op' = Idle \/ op'.kind = kind)
  BY BeginFacts
<1>2. CASE CreateLab(l)
  BY <1>1, <1>2 DEF CreateLab
<1>3. CASE EnsureLabBridges(l)
  BY <1>1, <1>3 DEF EnsureLabBridges
<1>4. CASE DeleteLab(l)
  BY <1>1, <1>4 DEF DeleteLab
<1>5. CASE RemoveFile(l)
  BY <1>1, <1>5 DEF RemoveFile
<1>6. ASSUME NEW n \in NetIds(l), DeleteNetwork(l, n)
      PROVE  /\ op = Idle /\ up /\ UNCHANGED <<up, host>>
             /\ spent' = spent \/ spent' = spent + 1
             /\ op' = Idle \/ op'.kind \in {"lab", "ensure", "delete", "patch"}
  BY <1>1, <1>6 DEF DeleteNetwork
<1>7. ASSUME NEW n \in NetIds(l), NEW type, NEW cidr, PatchNetwork(l, n, type, cidr)
      PROVE  /\ op = Idle /\ up /\ UNCHANGED <<up, host>>
             /\ spent' = spent \/ spent' = spent + 1
             /\ op' = Idle \/ op'.kind \in {"lab", "ensure", "delete", "patch"}
  BY <1>1, <1>7 DEF PatchNetwork
<1> QED BY <1>2, <1>3, <1>4, <1>5, <1>6, <1>7

\* A create_network of record r: its bridge is named after the new network.
Creates(l, r) ==
  /\ CreateRecord(l, r) /\ (IsOwner(r) => r.cidr # {})
  /\ ~Plain(r) => r.bridge = <<hash[l], NextId(l)>>
  /\ r.type = "bridge_cloud" => r.bridge = HostBr

\* A create_network begins, with a subnet that is not empty for a cloud.
LEMMA CreateHandlerBegins ==
  ASSUME CloudInv, CreateHandler
  PROVE  \E l \in Labs, r \in NetRecord : Creates(l, r)
<1>0. hash \in [Labs -> Hashes] /\ Good(nets, file, patched, damaged)
  BY DEF CloudInv
<1> SUFFICES ASSUME NEW l \in Labs,
                    \/ CreateBridge(l) \/ CreateHostNet(l)
                    \/ \E cidr \in Asked : CreateCloud(l, cidr)
                    \/ \E c \in Owners : CreateReference(l, c)
             PROVE  \E r \in NetRecord : Creates(l, r)
  BY DEF CreateHandler
<1>1. CASE CreateBridge(l)
  <2> DEFINE r == [type |-> "linux_bridge", cidr |-> {}, shared |-> None,
                   bridge |-> <<hash[l], NextId(l)>>]
  <2>1. CreateRecord(l, r)
    BY <1>1 DEF CreateBridge
  <2>2. NextId(l) \in Ids /\ hash[l] \in Hashes
    BY <1>0, <2>1 DEF CreateRecord
  <2>3. r \in NetRecord /\ ~IsOwner(r) /\ r.type # "bridge_cloud" /\ r.bridge = <<hash[l], NextId(l)>>
    BY <2>2 DEF NetRecord, Fields, Names, IsNat, IsOwner
  <2> HIDE DEF r
  <2> QED BY <2>1, <2>3 DEF Creates
<1>2. CASE CreateHostNet(l)
  <2> DEFINE r == [type |-> "bridge_cloud", cidr |-> {}, shared |-> None, bridge |-> HostBr]
  <2>1. CreateRecord(l, r)
    BY <1>2 DEF CreateHostNet
  <2>2. r \in NetRecord /\ ~IsOwner(r) /\ Plain(r) /\ r.bridge = HostBr
    BY DEF NetRecord, Fields, IsNat, IsOwner, Plain
  <2> HIDE DEF r
  <2> QED BY <2>1, <2>2 DEF Creates
<1>3. ASSUME NEW cidr \in Asked, CreateCloud(l, cidr)
      PROVE  \E r \in NetRecord : Creates(l, r)
  <2> DEFINE take == IF cidr = {} THEN Allocated(l) ELSE cidr
             r == [type |-> "nat_cloud", shared |-> None, cidr |-> take,
                   bridge |-> <<hash[l], NextId(l)>>]
  <2>1. CreateRecord(l, r) /\ (cidr = {} => FreeBlocks(l) # {})
    BY <1>3 DEF CreateCloud
  <2>2. take \in SUBSET Nat /\ take # {}
    <3>1. Allocated(l) # {}
      BY DEF Allocated
    <3>2. cidr = {} => Allocated(l) \in SUBSET Nat
      BY <2>1, AllocatedFree
    <3> QED BY <3>1, <3>2, CloudConstants
  <2>3. NextId(l) \in Ids /\ hash[l] \in Hashes
    BY <1>0, <2>1 DEF CreateRecord
  <2> HIDE DEF take
  <2>4. r \in NetRecord /\ r.cidr # {} /\ r.type # "bridge_cloud" /\ r.bridge = <<hash[l], NextId(l)>>
    BY <2>2, <2>3 DEF NetRecord, Fields, Names
  <2> HIDE DEF r
  <2> QED BY <2>1, <2>4 DEF Creates
<1>4. ASSUME NEW c \in Owners, CreateReference(l, c)
      PROVE  \E r \in NetRecord : Creates(l, r)
  <2> DEFINE o == Rec(c)
             r == [type |-> "nat_cloud", cidr |-> o.cidr, shared |-> c, bridge |-> o.bridge]
  <2>1. CreateRecord(l, r)
    BY <1>4 DEF CreateReference
  <2>2. c \in Records /\ Rec(c) \in NetRecord /\ c \in Cloud
    BY <1>0, Reading DEF Owners, Records
  <2>3. c # None
    BY <2>2, CloudConstants DEF Cloud, Ids
  <2>4. o.cidr \in SUBSET Nat /\ o.bridge \in Names
    <3>1. o.type = "nat_cloud"
      BY DEF Owners, IsOwner, IsNat
    <3> QED BY <2>2, <3>1 DEF NetRecord, Fields
  <2> HIDE DEF o
  <2>5. r \in NetRecord /\ ~IsOwner(r) /\ Plain(r) /\ r.type # "bridge_cloud"
    BY <2>2, <2>3, <2>4 DEF NetRecord, Fields, IsOwner, Plain, IsRef, IsNat
  <2> HIDE DEF r
  <2> QED BY <2>1, <2>5 DEF Creates
<1> QED BY <1>1, <1>2, <1>3, <1>4

\* The kinds of steps.
LEMMA NextKinds ==
  ASSUME [Next]_vars
  PROVE  \/ UNCHANGED vars \/ Step \/ StepFails \/ Crash \/ Reboot \/ Startup
         \/ OtherHandler \/ CreateHandler
BY DEF Next, OtherHandler, CreateHandler

\* The bridges stay well-formed, and a dead backend does nothing.
LEMMA HostNext == BridgeInv /\ [Next]_vars => HostInv'
<1> SUFFICES ASSUME BridgeInv, [Next]_vars PROVE HostInv'
  OBVIOUS
<1>0. CloudInv /\ HostInv
  BY DEF BridgeInv
<1>1. CASE UNCHANGED vars
  BY <1>0, <1>1 DEF HostInv, HostTyped, vars
<1>2. CASE Step
  BY <1>0, <1>2, StepFacts
<1>3. CASE StepFails
  BY <1>0, <1>3 DEF HostInv, HostTyped, StepFails
<1>4. CASE Crash
  BY <1>0, <1>4 DEF HostInv, HostTyped, Crash, Dies
<1>5. CASE Reboot
  <2>1. host \in [Names -> HostState] /\ up' = FALSE /\ op' = Idle /\ spent' = spent + 1
        /\ host' = [b \in Names |-> [Absent EXCEPT !.fp = host[b].fp]]
    BY <1>0, <1>5 DEF HostInv, HostTyped, Reboot, Dies
  <2>2. ASSUME NEW b \in Names PROVE [Absent EXCEPT !.fp = host[b].fp] \in HostState
    <3>1. host[b] \in HostState /\ {} \in Args
      BY <2>1 DEF Args
    <3> QED BY <3>1 DEF Absent, HostState
  <2>3. host' \in [Names -> HostState]
    BY <2>1, <2>2
  <2> QED BY <1>0, <2>1, <2>3 DEF HostInv, HostTyped
<1>6. CASE Startup
  <2>1. host \in [Names -> HostState] /\ up' = TRUE /\ spent' = spent
        /\ host' = [b \in Names |-> IF Swept(b) THEN [host[b] EXCEPT !.up = FALSE, !.fp = None]
                                                 ELSE host[b]]
    BY <1>0, <1>6 DEF HostInv, HostTyped, Startup
  <2>2. ASSUME NEW b \in Names PROVE [host[b] EXCEPT !.up = FALSE, !.fp = None] \in HostState
    <3>1. host[b] \in HostState /\ None \in Args
      BY <2>1 DEF Args
    <3> QED BY <3>1 DEF HostState
  <2>3. host' \in [Names -> HostState]
    BY <2>1, <2>2
  <2> QED BY <1>0, <2>1, <2>3 DEF HostInv, HostTyped
<1>7. CASE OtherHandler
  BY <1>0, <1>7, OtherBegins DEF HostInv, HostTyped
<1>8. CASE CreateHandler
  <2>1. PICK l \in Labs, r \in NetRecord : CreateRecord(l, r)
    BY <1>0, <1>8, CreateHandlerBegins DEF Creates
  <2> QED BY <1>0, <2>1 DEF HostInv, HostTyped, CreateRecord, Begin
<1> QED BY <1>1, <1>2, <1>3, <1>4, <1>5, <1>6, <1>7, <1>8, NextKinds

\* Every step keeps what a create_network still has to do.
LEMMA CreateNext == BridgeInv /\ [Next]_vars => CreateInv' /\ (CreatedWholeNow \/ UNCHANGED vars)
<1> SUFFICES ASSUME BridgeInv, [Next]_vars
             PROVE  CreateInv' /\ (CreatedWholeNow \/ UNCHANGED vars)
  OBVIOUS
<1>0. CloudInv /\ HostInv /\ CreateInv /\ Idle.kind = "idle"
  BY DEF BridgeInv, Idle
<1>1. CASE UNCHANGED vars
  BY <1>0, <1>1 DEF CreateInv, vars
<1>2. CASE Step
  BY <1>2, CreateStep
<1>3. CASE StepFails
  BY <1>3, CreateFails
<1>4. CASE Crash \/ Reboot
  BY <1>0, <1>4 DEF CreateInv, CreatedWholeNow, Ends, Crash, Reboot, Dies
<1>5. CASE Startup
  BY <1>0, <1>5 DEF CreateInv, CreatedWholeNow, Ends, Startup, HostInv
<1>6. CASE OtherHandler
  BY <1>0, <1>6, OtherBegins DEF CreateInv, CreatedWholeNow, Ends
<1>7. CASE CreateHandler
  <2>1. PICK l \in Labs, r \in NetRecord : Creates(l, r)
    BY <1>0, <1>7, CreateHandlerBegins
  <2> QED BY <2>1, CreateBegins DEF Creates
<1> QED BY <1>1, <1>2, <1>3, <1>4, <1>5, <1>6, <1>7, NextKinds

\* At first there is no bridge and no handler.
LEMMA BridgeInit == Init => BridgeInv
<1> SUFFICES ASSUME Init PROVE BridgeInv
  OBVIOUS
<1>1. CloudInv
  BY InitHolds
<1>2. host = [b \in Names |-> Absent] /\ up = TRUE /\ op = Idle /\ spent = 0
  BY DEF Init
<1>3. Absent \in HostState
  <2>1. None \in Args /\ {} \in Args
    BY DEF Args
  <2> QED BY <2>1 DEF Absent, HostState
<1>4. HostInv
  BY <1>2, <1>3 DEF HostInv, HostTyped
<1>5. CreateInv
  BY <1>2 DEF CreateInv, Idle
<1> QED BY <1>1, <1>4, <1>5 DEF BridgeInv

\* What is said of the bridges holds in every state.
LEMMA BridgesSafe == Spec => []BridgeInv
<1>1. BridgeInv /\ [Next]_vars => BridgeInv'
  <2>1. BridgeInv => CloudInv
    BY DEF BridgeInv
  <2> QED BY <2>1, NextKeeps, HostNext, CreateNext DEF BridgeInv
<1> QED BY <1>1, BridgeInit, PTL DEF Spec

\* For every number of labs, networks and faults: a network that
\* create_network reports as created is whole.  Its bridge is up and carries
\* its own fingerprint, with NAT for its subnet if it is a cloud, whatever
\* bridges of other labs, of failed creates or of crashes were there.
THEOREM CreatedWhole == Spec => CreatedIsWhole
<1>1. BridgeInv /\ [Next]_vars => CreatedWholeNow \/ UNCHANGED vars
  BY CreateNext
<1>2. CreatedWholeNow \/ UNCHANGED vars <=>
        [Ends("create") /\ op.net \in DOMAIN nets'[op.lab] =>
           LET r == nets'[op.lab][op.net] IN
           ~ IsRef(r) /\ r.type # "bridge_cloud" =>
             /\ host'[r.bridge].up /\ host'[r.bridge].fp = <<op.lab, op.net>>
             /\ IsNat(r) => host'[r.bridge].routed = r.cidr]_vars
  BY DEF CreatedWholeNow
<1> QED BY <1>1, <1>2, BridgesSafe, PTL DEF Spec, CreatedIsWhole

------------------------------------------------------------------------------
(***************************************************************************)
(* As long as nothing failed, the effects to come lead to a host that is   *)
(* what the labs say.  M, G and H are the networks, the files and the      *)
(* bridges that are there, N and F the networks and files to come.         *)
(***************************************************************************)

IsFileEffect(e) == e.do \in {"save", "unlink"}

HoldersOf(N, F, b) == {c \in RecordsOf(N, F) : At(N, c).bridge = b /\ ~IsRef(At(N, c))}

\* A network's own bridge is named after the network, with the hashes h.
Named(h, N, F) ==
  \A c \in RecordsOf(N, F) :
    /\ ~Plain(At(N, c)) => At(N, c).bridge = <<h[c[1]], c[2]>>
    /\ At(N, c).type = "bridge_cloud" => At(N, c).bridge = HostBr

\* The file effects among s lead from M and G to N and F: each of them on its
\* own does, or they are writes of one lab and the last of them does.
Settles(N, F, M, G, s) ==
  \/ /\ \A e \in ToSet(s) : IsFileEffect(e) =>
          e.on \in Labs /\ NetsWith(e, M) = N /\ FileWith(e, G) = F
     /\ (N = M /\ F = G) \/ \E e \in ToSet(s) : IsFileEffect(e)
  \/ LET last == s[Len(s)] IN
     /\ s # << >> /\ last.on \in Labs
     /\ \A e \in ToSet(s) : e.do = "save" /\ e.on = last.on
     /\ N = NetsWith(last, M) /\ F = FileWith(last, G)

\* The subnet that the bridge of network r serves.
Routed(r) == IF IsNat(r) THEN r.cidr ELSE {}

\* Bridge b will be that of network c, which is r.
Raised(r, c, b, s, H) ==
  /\ \A e \in ToSet(s) : e.on = b /\ ~IsFileEffect(e) =>
       /\ e.do \in {"add", "own", "route"}
       /\ e.do = "own" => e.arg = c
       /\ e.do = "route" => e.arg = Routed(r)
  /\ H[b].up \/ Pend(s, "add", b)
  /\ H[b].fp = c \/ Pend(s, "own", b)
  /\ H[b].routed = Routed(r) \/ Pend(s, "route", b)

\* Bridge b will be gone.
Lowered(b, s, H) ==
  /\ \A e \in ToSet(s) : e.on = b /\ ~IsFileEffect(e) => e.do \in {"unroute", "drop", "disown"}
  /\ H[b].up <=> Pend(s, "drop", b)
  /\ H[b].fp = None \/ Pend(s, "drop", b) \/ Pend(s, "disown", b)
  /\ H[b].routed = {} \/ Pend(s, "unroute", b)

\* No bridge is removed twice.
DropsOnce(s) ==
  \A i, j \in 1..Len(s) : s[i].do = "drop" /\ s[j].do = "drop" /\ s[i].on = s[j].on => i = j

\* An address finds its bridge.
RoutesReady(s, H) ==
  \A i \in 1..Len(s) : s[i].do = "route" =>
    H[s[i].on].up \/ \E j \in 1..(i - 1) : s[j].do = "add" /\ s[j].on = s[i].on

\* Every effect of s will be feasible when its turn comes.
Orderly(s, H) ==
  /\ DropsOnce(s) /\ RoutesReady(s, H)
  /\ (\E e \in ToSet(s) : e.do = "drop") => \A e \in ToSet(s) : e.do # "route"
  /\ \A e \in ToSet(s) : IsFileEffect(e) \/ e.on \in Names

\* Bridge b will be what N and F say.
Fits(N, F, b, s, H) ==
  \/ HoldersOf(N, F, b) = {} /\ Lowered(b, s, H)
  \/ \E c \in Cloud : HoldersOf(N, F, b) = {c} /\ Raised(At(N, c), c, b, s, H)

Leads(h, N, F, M, G, H, s) ==
  /\ Settles(N, F, M, G, s) /\ Named(h, N, F) /\ Orderly(s, H)
  /\ \A b \in Names : Fits(N, F, b, s, H)

CalmInv ==
  spent = 0 /\ leaked = {} =>
    up /\ \E N \in [Labs -> NetMaps], F \in [Labs -> States] :
            Leads(hash, N, F, nets, file, host, op.todo)

\* The effects that remain after the first of s.
RestOf(s) == IF Head(s).do = "drop"
             THEN <<Effect("disown", Head(s).on, None, 0)>> \o Tail(s) ELSE Tail(s)

\* They are the ones that were there, and the forgetting of a fingerprint.
LEMMA RestFacts ==
  ASSUME NEW s \in Seq(Effects), s # << >>
  PROVE  /\ Head(s) \in Effects /\ RestOf(s) \in Seq(Effects) /\ ToSet(s) = {Head(s)} \cup ToSet(Tail(s))
         /\ Head(s).do # "drop" => RestOf(s) = Tail(s)
         /\ Head(s).do = "drop" =>
              /\ ToSet(RestOf(s)) = {Effect("disown", Head(s).on, None, 0)} \cup ToSet(Tail(s))
              /\ Len(RestOf(s)) = Len(s)
              /\ RestOf(s)[1] = Effect("disown", Head(s).on, None, 0)
              /\ \A i \in 2..Len(s) : RestOf(s)[i] = s[i]
<1> DEFINE e == Head(s)
           t == Tail(s)
           d == Effect("disown", e.on, None, 0)
<1>1. /\ e \in Effects /\ t \in Seq(Effects) /\ Len(s) \in Nat \ {0} /\ Len(t) = Len(s) - 1
      /\ \A i \in 1..(Len(s) - 1) : t[i] = s[i + 1]
      /\ ToSet(s) = {e} \cup ToSet(t)
  BY SetOfTail
<1>2. d \in Effects
  BY <1>1 DEF Effect, Effects
<1> HIDE DEF d, t, e
<1>3. <<d>> \in Seq(Effects) /\ <<d>> \o t \in Seq(Effects) /\ Len(<<d>> \o t) = 1 + Len(t)
      /\ (<<d>> \o t)[1] = d /\ \A i \in 2..(1 + Len(t)) : (<<d>> \o t)[i] = t[i - 1]
  BY <1>1, <1>2
<1>4. ToSet(<<d>> \o t) = {d} \cup ToSet(t)
  <2> DEFINE z == <<d>>
  <2>0. z \in Seq(Effects)
    BY <1>3
  <2> HIDE DEF z
  <2>1. ToSet(z \o t) = ToSet(z) \cup ToSet(t)
    BY <1>1, <2>0, SetOfJoin
  <2>2. ToSet(z) = {d}
    BY SetOfOne DEF z
  <2> QED BY <2>1, <2>2 DEF z
<1>5. \A i \in 2..Len(s) : t[i - 1] = s[i]
  BY <1>1
<1>6. RestOf(s) = IF e.do = "drop" THEN <<d>> \o t ELSE t
  BY DEF RestOf, d, e, t
<1>7. e.do = "drop" => /\ ToSet(RestOf(s)) = {d} \cup ToSet(t) /\ Len(RestOf(s)) = Len(s)
                       /\ RestOf(s)[1] = d /\ \A i \in 2..Len(s) : RestOf(s)[i] = s[i]
  BY <1>1, <1>3, <1>4, <1>5, <1>6
<1>8. RestOf(s) \in Seq(Effects) /\ (e.do # "drop" => RestOf(s) = t)
  BY <1>1, <1>3, <1>6
<1> QED BY <1>1, <1>7, <1>8 DEF d, e, t

\* Orderly effects stay so, and the first of them is feasible.
LEMMA OrderlyStep ==
  ASSUME NEW s \in Seq(Effects), s # << >>, NEW H, NEW K, Orderly(s, H), HostMoved(Head(s), H, K)
  PROVE  /\ Orderly(RestOf(s), K)
         /\ Head(s).do = "route" => H[Head(s).on].up
         /\ Head(s).do = "drop" => ~Pend(Tail(s), "drop", Head(s).on)
<1> DEFINE e == Head(s)
           t == Tail(s)
           d == Effect("disown", e.on, None, 0)
           u == RestOf(s)
<1>1. /\ e = s[1] /\ t \in Seq(Effects) /\ Len(s) \in Nat \ {0} /\ Len(t) = Len(s) - 1
      /\ \A i \in 1..(Len(s) - 1) : t[i] = s[i + 1]
      /\ ToSet(s) = {e} \cup ToSet(t)
  BY SetOfTail
<1>2. /\ e.do # "drop" => u = t
      /\ e.do = "drop" => /\ ToSet(u) = {d} \cup ToSet(t) /\ Len(u) = Len(s)
                          /\ u[1] = d /\ \A i \in 2..Len(s) : u[i] = s[i]
  BY RestFacts
<1>3. d.do = "disown" /\ d.on = e.on
  BY DEF Effect
<1>4. /\ DropsOnce(s) /\ RoutesReady(s, H) /\ HostMoved(e, H, K)
      /\ (\E x \in ToSet(s) : x.do = "drop") => \A x \in ToSet(s) : x.do # "route"
      /\ \A x \in ToSet(s) : IsFileEffect(x) \/ x.on \in Names
  BY DEF Orderly
<1> HIDE DEF e, t, u, d
<1>5. e.do = "route" => H[e.on].up
  <2>1. 1 \in 1..Len(s) /\ 1..(1 - 1) = {}
    BY <1>1
  <2> QED BY <1>1, <1>4, <2>1 DEF RoutesReady
<1>6. ASSUME e.do = "drop", NEW x \in ToSet(t), x.do = "drop", x.on = e.on PROVE FALSE
  <2>1. PICK i \in 1..(Len(s) - 1) : x = t[i]
    BY <1>1 DEF ToSet
  <2>2. x = s[i + 1] /\ i + 1 \in 1..Len(s) /\ i + 1 # 1 /\ 1 \in 1..Len(s)
    BY <1>1, <2>1
  <2> QED BY <1>1, <1>4, <1>6, <2>2 DEF DropsOnce
<1>7. ASSUME e.do = "drop" PROVE Orderly(u, K)
  <2>1. DropsOnce(u)
    <3> SUFFICES ASSUME NEW i \in 1..Len(u), NEW j \in 1..Len(u), u[i].do = "drop",
                        u[j].do = "drop", u[i].on = u[j].on
                 PROVE  i = j
      BY DEF DropsOnce
    <3>1. i \in 2..Len(s) /\ j \in 2..Len(s)
      BY <1>1, <1>2, <1>3, <1>7
    <3>2. u[i] = s[i] /\ u[j] = s[j] /\ i \in 1..Len(s) /\ j \in 1..Len(s)
      BY <1>2, <1>7, <3>1
    <3> QED BY <1>4, <3>2 DEF DropsOnce
  <2>2. \A x \in ToSet(u) : x.do # "route" /\ (IsFileEffect(x) \/ x.on \in Names)
    BY <1>1, <1>2, <1>3, <1>4, <1>7 DEF IsFileEffect
  <2>3. RoutesReady(u, K)
    <3>1. \A i \in 1..Len(u) : u[i] \in ToSet(u)
      <4>1. u \in Seq(Effects)
        BY RestFacts DEF u
      <4> QED BY <4>1 DEF ToSet
    <3> QED BY <2>2, <3>1 DEF RoutesReady
  <2> QED BY <2>1, <2>2, <2>3 DEF Orderly
<1>8. ASSUME e.do # "drop" PROVE Orderly(u, K)
  <2>1. DropsOnce(t)
    <3> SUFFICES ASSUME NEW i \in 1..Len(t), NEW j \in 1..Len(t), t[i].do = "drop",
                        t[j].do = "drop", t[i].on = t[j].on
                 PROVE  i = j
      BY DEF DropsOnce
    <3>1. /\ t[i] = s[i + 1] /\ t[j] = s[j + 1] /\ i + 1 \in 1..Len(s) /\ j + 1 \in 1..Len(s)
          /\ i \in Nat /\ j \in Nat
      BY <1>1
    <3>2. i + 1 = j + 1
      BY <1>4, <3>1 DEF DropsOnce
    <3> QED BY <3>1, <3>2
  <2>2. RoutesReady(t, K)
    <3> SUFFICES ASSUME NEW i \in 1..Len(t), t[i].do = "route"
                 PROVE  K[t[i].on].up \/ \E j \in 1..(i - 1) : t[j].do = "add" /\ t[j].on = t[i].on
      BY DEF RoutesReady
    <3>1. t[i] = s[i + 1] /\ i + 1 \in 1..Len(s) /\ i \in Nat /\ i + 1 - 1 = i
      BY <1>1
    <3> DEFINE b == t[i].on
    <3>2. b \in Names
      <4>1. t[i] \in ToSet(t)
        BY <1>1 DEF ToSet
      <4> QED BY <1>1, <1>4, <4>1 DEF IsFileEffect
    <3>3. H[b].up \/ \E j \in 1..i : s[j].do = "add" /\ s[j].on = b
      BY <1>4, <3>1 DEF RoutesReady
    <3>4. H[b].up => K[b].up
      BY <1>4, <1>8, <3>2 DEF HostMoved
    <3>5. ASSUME NEW j \in 1..i, s[j].do = "add", s[j].on = b
          PROVE  K[b].up \/ \E k \in 1..(i - 1) : t[k].do = "add" /\ t[k].on = b
      <4>1. CASE j = 1
        BY <1>1, <1>4, <3>2, <3>5, <4>1 DEF HostMoved
      <4>2. CASE j # 1
        <5>1. j - 1 \in 1..(i - 1) /\ j - 1 \in 1..(Len(s) - 1) /\ j - 1 + 1 = j
          BY <1>1, <3>1, <4>2
        <5>2. t[j - 1] = s[j]
          BY <1>1, <5>1
        <5> QED BY <3>5, <5>1, <5>2
      <4> QED BY <4>1, <4>2
    <3> QED BY <3>3, <3>4, <3>5
  <2> QED BY <1>1, <1>2, <1>4, <1>8, <2>1, <2>2 DEF Orderly
<1>9. e.do = "drop" => ~Pend(t, "drop", e.on)
  BY <1>6 DEF Pend
<1>10. Orderly(u, K)
  BY <1>7, <1>8
<1> QED BY <1>5, <1>9, <1>10 DEF e, t, u

\* A bridge that will be that of a network is nearer to it.
LEMMA RaisedStep ==
  ASSUME NEW s \in Seq(Effects), s # << >>, NEW H, NEW K, NEW b \in Names,
         HostMoved(Head(s), H, K), NEW r, NEW c, Raised(r, c, b, s, H)
  PROVE  /\ Raised(r, c, b, RestOf(s), K)
         /\ Head(s).on = b => Head(s).do # "drop"
<1> DEFINE e == Head(s)
           t == Tail(s)
           d == Effect("disown", e.on, None, 0)
           u == RestOf(s)
<1>1. /\ ToSet(s) = {e} \cup ToSet(t) /\ (e.do # "drop" => u = t)
      /\ e.do = "drop" => ToSet(u) = {d} \cup ToSet(t)
  BY RestFacts
<1>2. d.do = "disown" /\ d.on = e.on
  BY DEF Effect
<1>3. HostMoved(e, H, K)
  OBVIOUS
<1> HIDE DEF e, t, d, u
<1>4. /\ \A x \in ToSet(s) : x.on = b /\ ~IsFileEffect(x) =>
           /\ x.do \in {"add", "own", "route"}
           /\ x.do = "own" => x.arg = c
           /\ x.do = "route" => x.arg = Routed(r)
      /\ H[b].up \/ Pend(s, "add", b)
      /\ H[b].fp = c \/ Pend(s, "own", b)
      /\ H[b].routed = Routed(r) \/ Pend(s, "route", b)
  BY DEF Raised
<1>5. e.on = b => /\ e.do \in {"save", "unlink", "add", "own", "route"}
                  /\ e.do = "own" => e.arg = c
                  /\ e.do = "route" => e.arg = Routed(r)
  BY <1>1, <1>4 DEF IsFileEffect
<1>6. \A do : Pend(s, do, b) => (e.do = do /\ e.on = b) \/ Pend(t, do, b)
  BY <1>1 DEF Pend
<1>7. \A do : Pend(t, do, b) => Pend(u, do, b)
  BY <1>1 DEF Pend
<1>8. /\ b # e.on => K[b] = H[b]
      /\ b = e.on =>
           /\ K[b].up = IF e.do = "add" THEN TRUE ELSE IF e.do = "drop" THEN FALSE ELSE H[b].up
           /\ K[b].fp = IF e.do = "own" THEN e.arg ELSE IF e.do = "disown" THEN None ELSE H[b].fp
           /\ K[b].routed = IF e.do = "route" THEN e.arg ELSE IF e.do = "unroute" THEN {}
                            ELSE H[b].routed
  BY <1>3 DEF HostMoved
<1>9. \A x \in ToSet(u) : x.on = b /\ ~IsFileEffect(x) =>
        /\ x.do \in {"add", "own", "route"}
        /\ x.do = "own" => x.arg = c
        /\ x.do = "route" => x.arg = Routed(r)
  <2>1. CASE e.do = "drop"
    <3>1. b # e.on
      BY <1>5, <2>1
    <3> QED BY <1>1, <1>2, <1>4, <2>1, <3>1
  <2>2. CASE e.do # "drop"
    BY <1>1, <1>4, <2>2
  <2> QED BY <2>1, <2>2
<1>10. K[b].up \/ Pend(u, "add", b)
  <2>1. CASE b = e.on
    BY <1>4, <1>5, <1>6, <1>7, <1>8, <2>1
  <2>2. CASE b # e.on
    BY <1>4, <1>6, <1>7, <1>8, <2>2
  <2> QED BY <2>1, <2>2
<1>11. K[b].fp = c \/ Pend(u, "own", b)
  <2>1. CASE b = e.on
    BY <1>4, <1>5, <1>6, <1>7, <1>8, <2>1
  <2>2. CASE b # e.on
    BY <1>4, <1>6, <1>7, <1>8, <2>2
  <2> QED BY <2>1, <2>2
<1>12. K[b].routed = Routed(r) \/ Pend(u, "route", b)
  <2>1. CASE b = e.on /\ e.do = "route"
    BY <1>5, <1>8, <2>1
  <2>2. CASE ~(b = e.on /\ e.do = "route")
    <3>1. K[b].routed = H[b].routed
      BY <1>5, <1>8, <2>2
    <3> QED BY <1>4, <1>6, <1>7, <2>2, <3>1
  <2> QED BY <2>1, <2>2
<1>13. Raised(r, c, b, u, K)
  BY <1>9, <1>10, <1>11, <1>12 DEF Raised
<1> QED BY <1>5, <1>13 DEF e, u

\* A bridge that will be gone is nearer to it.
LEMMA LoweredStep ==
  ASSUME NEW s \in Seq(Effects), s # << >>, NEW H \in [Names -> HostState],
         NEW K \in [Names -> HostState], NEW b \in Names,
         HostMoved(Head(s), H, K), Lowered(b, s, H),
         Head(s).do = "drop" => ~Pend(Tail(s), "drop", Head(s).on)
  PROVE  /\ Lowered(b, RestOf(s), K)
         /\ Head(s).on = b /\ Head(s).do = "drop" => H[b].up
<1> DEFINE e == Head(s)
           t == Tail(s)
           d == Effect("disown", e.on, None, 0)
           u == RestOf(s)
<1>1. /\ ToSet(s) = {e} \cup ToSet(t) /\ (e.do # "drop" => u = t)
      /\ e.do = "drop" => ToSet(u) = {d} \cup ToSet(t)
  BY RestFacts
<1>2. d.do = "disown" /\ d.on = e.on
  BY DEF Effect
<1>3. HostMoved(e, H, K) /\ (e.do = "drop" => ~Pend(t, "drop", e.on))
  OBVIOUS
<1>0. H[b].up \in BOOLEAN /\ K[b].up \in BOOLEAN
  BY DEF HostState
<1> HIDE DEF e, t, d, u
<1>4. /\ \A x \in ToSet(s) : x.on = b /\ ~IsFileEffect(x) => x.do \in {"unroute", "drop", "disown"}
      /\ H[b].up <=> Pend(s, "drop", b)
      /\ H[b].fp = None \/ Pend(s, "drop", b) \/ Pend(s, "disown", b)
      /\ H[b].routed = {} \/ Pend(s, "unroute", b)
  BY DEF Lowered
<1>5. e.on = b => e.do \in {"save", "unlink", "unroute", "drop", "disown"}
  BY <1>1, <1>4 DEF IsFileEffect
<1>6. \A do : Pend(s, do, b) <=> (e.do = do /\ e.on = b) \/ Pend(t, do, b)
  BY <1>1 DEF Pend
<1>7. /\ \A do : Pend(t, do, b) => Pend(u, do, b)
      /\ \A do : do # "disown" => (Pend(u, do, b) => Pend(t, do, b))
      /\ e.do = "drop" /\ e.on = b => Pend(u, "disown", b)
  BY <1>1, <1>2 DEF Pend
<1>8. /\ b # e.on => K[b] = H[b]
      /\ b = e.on =>
           /\ K[b].up = IF e.do = "add" THEN TRUE ELSE IF e.do = "drop" THEN FALSE ELSE H[b].up
           /\ K[b].fp = IF e.do = "own" THEN e.arg ELSE IF e.do = "disown" THEN None ELSE H[b].fp
           /\ K[b].routed = IF e.do = "route" THEN e.arg ELSE IF e.do = "unroute" THEN {}
                            ELSE H[b].routed
  BY <1>3 DEF HostMoved
<1>9. \A x \in ToSet(u) : x.on = b /\ ~IsFileEffect(x) => x.do \in {"unroute", "drop", "disown"}
  BY <1>1, <1>2, <1>4
<1>10. K[b].up <=> Pend(u, "drop", b)
  <2>1. CASE b = e.on /\ e.do = "drop"
    <3>1. K[b].up = FALSE /\ ~Pend(t, "drop", b)
      BY <1>3, <1>8, <2>1
    <3> QED BY <1>7, <3>1
  <2>2. CASE ~(b = e.on /\ e.do = "drop")
    <3>1. K[b].up = H[b].up
      BY <1>5, <1>8, <2>2
    <3>2. Pend(s, "drop", b) <=> Pend(t, "drop", b)
      BY <1>6, <2>2
    <3>3. Pend(t, "drop", b) <=> Pend(u, "drop", b)
      BY <1>7
    <3> QED BY <1>4, <3>1, <3>2, <3>3
  <2> QED BY <2>1, <2>2
<1>11. K[b].fp = None \/ Pend(u, "drop", b) \/ Pend(u, "disown", b)
  <2>1. CASE b = e.on
    BY <1>4, <1>5, <1>6, <1>7, <1>8, <2>1
  <2>2. CASE b # e.on
    BY <1>4, <1>6, <1>7, <1>8, <2>2
  <2> QED BY <2>1, <2>2
<1>12. K[b].routed = {} \/ Pend(u, "unroute", b)
  <2>1. CASE b = e.on
    BY <1>4, <1>5, <1>6, <1>7, <1>8, <2>1
  <2>2. CASE b # e.on
    BY <1>4, <1>6, <1>7, <1>8, <2>2
  <2> QED BY <2>1, <2>2
<1>13. Lowered(b, u, K)
  BY <1>9, <1>10, <1>11, <1>12 DEF Lowered
<1>14. e.on = b /\ e.do = "drop" => H[b].up
  BY <1>4, <1>6
<1> QED BY <1>13, <1>14 DEF e, u

\* An effect on a file brings the labs nearer to what they will be.
LEMMA SettlesStep ==
  ASSUME NEW s \in Seq(Effects), s # << >>, NEW M \in [Labs -> NetMaps], NEW G \in [Labs -> States],
         NEW N, NEW F, Settles(N, F, M, G, s)
  PROVE  LET e == Head(s)
             A == IF IsFileEffect(e) THEN NetsWith(e, M) ELSE M
             B == IF IsFileEffect(e) THEN FileWith(e, G) ELSE G
         IN  Settles(N, F, A, B, RestOf(s))
<1> DEFINE e == Head(s)
           t == Tail(s)
           d == Effect("disown", e.on, None, 0)
           u == RestOf(s)
           A == IF IsFileEffect(e) THEN NetsWith(e, M) ELSE M
           B == IF IsFileEffect(e) THEN FileWith(e, G) ELSE G
<1>1. /\ ToSet(s) = {e} \cup ToSet(t) /\ (e.do # "drop" => u = t)
      /\ e.do = "drop" => ToSet(u) = {d} \cup ToSet(t)
  BY RestFacts
<1>2. ~IsFileEffect(d)
  BY DEF Effect, IsFileEffect
<1>3. /\ Len(s) \in Nat \ {0} /\ Len(t) = Len(s) - 1
      /\ \A i \in 1..(Len(s) - 1) : t[i] = s[i + 1]
      /\ (t = << >> <=> Len(s) = 1) /\ e = s[1]
  BY SetOfTail
<1> HIDE DEF e, t, d, u
<1>4. \A x \in ToSet(u) : IsFileEffect(x) => x \in ToSet(t)
  BY <1>1, <1>2
<1>5. \A x \in ToSet(t) : x \in ToSet(u) /\ x \in ToSet(s)
  BY <1>1
<1>6. ASSUME \A x \in ToSet(s) : IsFileEffect(x) =>
               x.on \in Labs /\ NetsWith(x, M) = N /\ FileWith(x, G) = F,
             (N = M /\ F = G) \/ \E x \in ToSet(s) : IsFileEffect(x)
      PROVE  Settles(N, F, A, B, u)
  <2>1. CASE IsFileEffect(e)
    <3>1. A = N /\ B = F
      BY <1>1, <1>6, <2>1
    <3>2. ASSUME NEW x \in ToSet(u), IsFileEffect(x)
          PROVE  x.on \in Labs /\ NetsWith(x, N) = N /\ FileWith(x, F) = F
      <4>1. x.on \in Labs /\ NetsWith(x, M) = N /\ FileWith(x, G) = F
        BY <1>4, <1>5, <1>6, <3>2
      <4>2. NetsWith(x, NetsWith(x, M)) = NetsWith(x, M) /\ FileWith(x, FileWith(x, G)) = FileWith(x, G)
        BY <4>1, LastCounts
      <4> QED BY <4>1, <4>2
    <3> QED BY <3>1, <3>2 DEF Settles
  <2>2. CASE ~IsFileEffect(e)
    <3>1. A = M /\ B = G
      BY <2>2
    <3>2. \A x \in ToSet(u) : IsFileEffect(x) =>
            x.on \in Labs /\ NetsWith(x, M) = N /\ FileWith(x, G) = F
      BY <1>4, <1>5, <1>6
    <3>3. (N = M /\ F = G) \/ \E x \in ToSet(u) : IsFileEffect(x)
      BY <1>1, <1>5, <1>6, <2>2
    <3> QED BY <3>1, <3>2, <3>3 DEF Settles
  <2> QED BY <2>1, <2>2
<1>7. ASSUME LET last == s[Len(s)] IN
             /\ last.on \in Labs /\ \A x \in ToSet(s) : x.do = "save" /\ x.on = last.on
             /\ N = NetsWith(last, M) /\ F = FileWith(last, G)
      PROVE  Settles(N, F, A, B, u)
  <2> DEFINE last == s[Len(s)]
  <2>1. e.do = "save" /\ e.on = last.on /\ IsFileEffect(e) /\ u = t /\ last.on \in Labs
    BY <1>1, <1>7 DEF IsFileEffect
  <2>2. A = NetsWith(e, M) /\ B = FileWith(e, G)
    BY <2>1
  <2>3. CASE t = << >>
    <3>1. e = last
      BY <1>3, <2>3
    <3>2. A = N /\ B = F
      BY <1>7, <2>2, <3>1
    <3> QED BY <2>1, <2>3, <3>2, SetOfOne DEF Settles
  <2>4. CASE t # << >>
    <3>1. t[Len(t)] = last
      BY <1>3, <2>4
    <3>2. NetsWith(last, A) = N /\ FileWith(last, B) = F
      <4>1. NetsWith(last, NetsWith(e, M)) = NetsWith(last, M)
            /\ FileWith(last, FileWith(e, G)) = FileWith(last, G)
        BY <2>1, LastCounts
      <4> QED BY <1>7, <2>2, <4>1
    <3>3. \A x \in ToSet(t) : x.do = "save" /\ x.on = last.on
      BY <1>5, <1>7
    <3> HIDE DEF A, B, last
    <3> QED BY <2>1, <2>4, <3>1, <3>2, <3>3 DEF Settles
  <2> QED BY <2>3, <2>4
<1>8. Settles(N, F, A, B, u)
  BY <1>6, <1>7 DEF Settles
<1> QED BY <1>8 DEF e, u

\* What s leads to, the rest of s leads to once its first effect is done.
LEMMA LeadsStep ==
  ASSUME NEW s \in Seq(Effects), s # << >>, NEW h, NEW N, NEW F,
         NEW M \in [Labs -> NetMaps], NEW G \in [Labs -> States],
         NEW H \in [Names -> HostState], NEW K \in [Names -> HostState],
         Leads(h, N, F, M, G, H, s), HostMoved(Head(s), H, K)
  PROVE  LET e == Head(s)
             A == IF IsFileEffect(e) THEN NetsWith(e, M) ELSE M
             B == IF IsFileEffect(e) THEN FileWith(e, G) ELSE G
         IN  Leads(h, N, F, A, B, K, RestOf(s))
<1> DEFINE e == Head(s)
           A == IF IsFileEffect(e) THEN NetsWith(e, M) ELSE M
           B == IF IsFileEffect(e) THEN FileWith(e, G) ELSE G
<1>1. Settles(N, F, M, G, s) /\ Named(h, N, F) /\ Orderly(s, H)
      /\ \A b \in Names : Fits(N, F, b, s, H)
  BY DEF Leads
<1>2. Settles(N, F, A, B, RestOf(s))
  BY <1>1, SettlesStep
<1>3. Orderly(RestOf(s), K) /\ (e.do = "drop" => ~Pend(Tail(s), "drop", e.on))
  BY <1>1, OrderlyStep
<1>4. ASSUME NEW b \in Names PROVE Fits(N, F, b, RestOf(s), K)
  <2>1. CASE HoldersOf(N, F, b) = {} /\ Lowered(b, s, H)
    <3>1. Lowered(b, RestOf(s), K)
      BY <1>3, <2>1, LoweredStep
    <3> QED BY <2>1, <3>1 DEF Fits
  <2>2. ASSUME NEW c \in Cloud, HoldersOf(N, F, b) = {c}, Raised(At(N, c), c, b, s, H)
        PROVE  Fits(N, F, b, RestOf(s), K)
    <3>1. Raised(At(N, c), c, b, RestOf(s), K)
      BY <2>2, RaisedStep
    <3> QED BY <2>2, <3>1 DEF Fits
  <2>3. Fits(N, F, b, s, H)
    BY <1>1
  <2> QED BY <2>1, <2>2, <2>3 DEF Fits
<1> HIDE DEF A, B
<1>5. Leads(h, N, F, A, B, K, RestOf(s))
  BY <1>1, <1>2, <1>3, <1>4 DEF Leads
<1> QED BY <1>5 DEF A, B

\* The first effect of s is feasible.
LEMMA LeadsFeasible ==
  ASSUME NEW s \in Seq(Effects), s # << >>, NEW h, NEW N, NEW F, NEW M, NEW G, NEW H,
         Leads(h, N, F, M, G, H, s), Head(s).do \in {"route", "drop"}
  PROVE  H[Head(s).on].up
<1> DEFINE e == Head(s)
           b == e.on
<1>1. e = s[1] /\ Len(s) \in Nat \ {0} /\ e \in ToSet(s)
  BY SetOfTail
<1>2. Orderly(s, H) /\ \A x \in Names : Fits(N, F, x, s, H)
  BY DEF Leads
<1>3. CASE e.do = "route"
  <2>1. 1 \in 1..Len(s) /\ 1..(1 - 1) = {}
    BY <1>1
  <2> QED BY <1>1, <1>2, <1>3, <2>1 DEF Orderly, RoutesReady
<1>4. CASE e.do = "drop"
  <2>1. b \in Names
    BY <1>1, <1>2, <1>4 DEF Orderly, IsFileEffect
  <2>2. Pend(s, "drop", b) /\ ~IsFileEffect(e)
    BY <1>1, <1>4 DEF Pend, IsFileEffect
  <2>3. Fits(N, F, b, s, H)
    BY <1>2, <2>1
  <2> HIDE DEF e, b
  <2>4. ~ \E r, c : Raised(r, c, b, s, H)
    BY <1>1, <1>4, <2>2 DEF Raised, b
  <2>5. Lowered(b, s, H)
    BY <2>3, <2>4 DEF Fits
  <2> QED BY <2>2, <2>5 DEF Lowered, b, e
<1> QED BY <1>3, <1>4

\* No host command fails for want of its bridge.
LEMMA CalmFeasible ==
  ASSUME CloudInv, CalmInv, spent = 0, leaked = {}, op.todo # << >>
  PROVE  Feasible(Head(op.todo))
<1>1. PICK N \in [Labs -> NetMaps], F \in [Labs -> States] :
        Leads(hash, N, F, nets, file, host, op.todo)
  BY DEF CalmInv
<1>2. op.todo \in Seq(Effects)
  BY TodoTyped
<1>3. Head(op.todo).do \in {"route", "drop"} => host[Head(op.todo).on].up
  BY <1>1, <1>2, LeadsFeasible
<1> QED BY <1>3 DEF Feasible

\* A handler carries out an effect.
LEMMA CalmStep ==
  ASSUME CloudInv, HostInv, CalmInv, Step
  PROVE  CalmInv'
<1> SUFFICES ASSUME spent' = 0, leaked' = {}
             PROVE  up' /\ \E N \in [Labs -> NetMaps], F \in [Labs -> States] :
                             Leads(hash', N, F, nets', file', host', op'.todo)
  BY DEF CalmInv
<1> DEFINE s == op.todo
           e == Head(s)
           A == IF IsFileEffect(e) THEN NetsWith(e, nets) ELSE nets
           B == IF IsFileEffect(e) THEN FileWith(e, file) ELSE file
<1>1. /\ s # << >> /\ s \in Seq(Effects) /\ e \in Effects
      /\ HostInv' /\ HostMoved(e, host, host')
      /\ nets' = NetsAfter(e) /\ file' = FileAfter(e)
      /\ op' = Continue(Rest(e), op) /\ op \in Ops
      /\ UNCHANGED <<hash, up, spent, patched, damaged, leaked>> /\ up
  BY StepFacts
<1>2. PICK N \in [Labs -> NetMaps], F \in [Labs -> States] : Leads(hash, N, F, nets, file, host, s)
  BY <1>1 DEF CalmInv
<1>3. nets \in [Labs -> NetMaps] /\ file \in [Labs -> States]
  BY DEF CloudInv, Good
<1>4. host \in [Names -> HostState] /\ host' \in [Names -> HostState]
  BY <1>1 DEF HostInv, HostTyped
<1>5. Leads(hash, N, F, A, B, host', RestOf(s))
  BY <1>1, <1>2, <1>3, <1>4, LeadsStep
<1>6. A = nets' /\ B = file'
  <2> HIDE DEF e
  <2>1. CASE e.do = "save"
    BY <1>1, <2>1 DEF NetsAfter, FileAfter, NetsWith, FileWith, IsFileEffect
  <2>2. CASE e.do = "unlink"
    BY <1>1, <2>2 DEF NetsAfter, FileAfter, NetsWith, FileWith, IsFileEffect
  <2>3. CASE ~IsFileEffect(e)
    BY <1>1, <2>3 DEF NetsAfter, FileAfter, IsFileEffect
  <2> QED BY <2>1, <2>2, <2>3 DEF IsFileEffect
<1>7. op'.todo = RestOf(s)
  <2>1. Rest(e) = RestOf(s)
    BY DEF Rest, RestOf
  <2>2. RestOf(s) \in Seq(Effects)
    BY <1>1, RestFacts
  <2> DEFINE u == RestOf(s)
  <2>3. op' = Continue(u, op) /\ u \in Seq(Effects) /\ op \in Ops
    BY <1>1, <2>1, <2>2
  <2> HIDE DEF u
  <2>4. op'.todo = u
    <3>1. CASE u = << >>
      BY <2>3, <3>1 DEF Continue, Idle
    <3>2. CASE u # << >>
      BY <2>3, <3>2 DEF Continue, Ops
    <3> QED BY <3>1, <3>2
  <2> QED BY <2>4 DEF u
<1> HIDE DEF A, B, e
<1>8. Leads(hash', N, F, nets', file', host', op'.todo)
  BY <1>1, <1>5, <1>6, <1>7
<1> QED BY <1>1, <1>8

\* Bridge b is what the networks say, and carries their fingerprint.
Agrees(b) ==
  \/ HoldersOf(nets, file, b) = {} /\ host[b] = Absent
  \/ \E c \in Cloud : /\ HoldersOf(nets, file, b) = {c} /\ host[b].up /\ host[b].fp = c
                      /\ host[b].routed = Routed(At(nets, c))

AllAgree == Named(hash, nets, file) /\ \A b \in Names : Agrees(b)

\* With nothing to come, every bridge is what the labs say.
LEMMA CalmAtRest ==
  ASSUME CloudInv, HostInv, CalmInv, spent = 0, leaked = {}, op = Idle
  PROVE  up /\ AllAgree
<1>1. op.todo = << >>
  BY IdleTyped
<1>2. up
  BY DEF CalmInv
<1>3. PICK N \in [Labs -> NetMaps], F \in [Labs -> States] :
        Leads(hash, N, F, nets, file, host, << >>)
  BY <1>1 DEF CalmInv
<1>4. ToSet(<< >>) = {}
  BY SetOfOne
<1>5. Settles(N, F, nets, file, << >>) /\ Named(hash, N, F) /\ \A b \in Names : Fits(N, F, b, << >>, host)
  BY <1>3 DEF Leads
<1>6. N = nets /\ F = file
  BY <1>4, <1>5 DEF Settles
<1>7. \A do, b : ~Pend(<< >>, do, b)
  BY <1>4 DEF Pend
<1>8. ASSUME NEW b \in Names PROVE Agrees(b)
  <2>1. host[b] \in HostState
    BY DEF HostInv, HostTyped
  <2>2. CASE HoldersOf(nets, file, b) = {} /\ Lowered(b, << >>, host)
    <3>1. host[b].up = FALSE /\ host[b].fp = None /\ host[b].routed = {}
      BY <1>7, <2>1, <2>2 DEF Lowered, HostState
    <3>2. host[b] = Absent
      BY <2>1, <3>1 DEF HostState, Absent
    <3> QED BY <2>2, <3>2 DEF Agrees
  <2>3. ASSUME NEW c \in Cloud, HoldersOf(nets, file, b) = {c}, Raised(At(nets, c), c, b, << >>, host)
        PROVE  Agrees(b)
    BY <1>7, <2>3 DEF Raised, Agrees
  <2>4. Fits(nets, file, b, << >>, host)
    BY <1>5, <1>6
  <2> QED BY <2>2, <2>3, <2>4 DEF Fits
<1> QED BY <1>2, <1>5, <1>6, <1>8 DEF AllAgree

\* That is what HostMatchesLabs says.
LEMMA CalmMatches ==
  ASSUME CloudInv, HostInv, CalmInv
  PROVE  HostMatchesLabs
<1> SUFFICES ASSUME spent = 0, leaked = {}, op = Idle, NEW b \in Names
             PROVE  \/ Holders(b) = {} /\ host[b] = Absent
                    \/ \E c \in Holders(b) :
                         /\ Holders(b) = {c} /\ host[b].up /\ host[b].fp = c
                         /\ host[b].routed = IF IsNat(Rec(c)) THEN Rec(c).cidr ELSE {}
  BY DEF HostMatchesLabs
<1>1. Agrees(b)
  BY CalmAtRest DEF AllAgree
<1>2. Records = RecordsOf(nets, file) /\ \A c : Rec(c) = At(nets, c)
  BY Reading DEF CloudInv
<1>3. Holders(b) = HoldersOf(nets, file, b)
  BY <1>2 DEF Holders, HoldersOf
<1>4. ASSUME NEW c \in Cloud, HoldersOf(nets, file, b) = {c}, host[b].up, host[b].fp = c,
             host[b].routed = Routed(At(nets, c))
      PROVE  \E d \in Holders(b) :
                /\ Holders(b) = {d} /\ host[b].up /\ host[b].fp = d
                /\ host[b].routed = IF IsNat(Rec(d)) THEN Rec(d).cidr ELSE {}
  <2>1. Rec(c) = At(nets, c) /\ c \in Holders(b) /\ Holders(b) = {c}
    BY <1>2, <1>3, <1>4
  <2>2. host[b].routed = IF IsNat(Rec(c)) THEN Rec(c).cidr ELSE {}
    BY <1>4, <2>1 DEF Routed
  <2> QED BY <1>4, <2>1, <2>2
<1> QED BY <1>1, <1>3, <1>4 DEF Agrees

\* A bridge that s leaves alone and whose network stays will be what it is.
LEMMA UntouchedFits ==
  ASSUME NEW b \in Names, Agrees(b), NEW N, NEW F, NEW s,
         \A e \in ToSet(s) : e.on = b => IsFileEffect(e),
         HoldersOf(N, F, b) = HoldersOf(nets, file, b),
         \A c \in HoldersOf(nets, file, b) : At(N, c) = At(nets, c)
  PROVE  Fits(N, F, b, s, host)
<1>1. ASSUME NEW do, do \notin {"save", "unlink"} PROVE ~Pend(s, do, b)
  BY <1>1 DEF Pend, IsFileEffect
<1>2. CASE HoldersOf(nets, file, b) = {} /\ host[b] = Absent
  <2>1. host[b].up = FALSE /\ host[b].fp = None /\ host[b].routed = {}
    BY <1>2 DEF Absent
  <2>2. ~Pend(s, "drop", b)
    BY <1>1
  <2>3. Lowered(b, s, host)
    BY <2>1, <2>2 DEF Lowered
  <2> QED BY <1>2, <2>3 DEF Fits
<1>3. ASSUME NEW c \in Cloud, HoldersOf(nets, file, b) = {c}, host[b].up, host[b].fp = c,
             host[b].routed = Routed(At(nets, c))
      PROVE  Fits(N, F, b, s, host)
  <2>1. At(N, c) = At(nets, c)
    BY <1>3
  <2>2. Raised(At(N, c), c, b, s, host)
    BY <1>3, <2>1 DEF Raised
  <2> QED BY <1>3, <2>2 DEF Fits
<1> QED BY <1>2, <1>3 DEF Agrees

\* Writes are feasible at any time.
LEMMA FilesOrderly ==
  ASSUME NEW s \in Seq(Effects), \A e \in ToSet(s) : IsFileEffect(e), NEW H
  PROVE  Orderly(s, H)
<1>1. \A i \in 1..Len(s) : s[i] \in ToSet(s)
  BY DEF ToSet
<1>2. \A i \in 1..Len(s) : s[i].do \in {"save", "unlink"}
  BY <1>1 DEF IsFileEffect
<1>3. DropsOnce(s)
  BY <1>2 DEF DropsOnce
<1>4. RoutesReady(s, H)
  BY <1>2 DEF RoutesReady
<1>5. \A e \in ToSet(s) : e.do # "drop"
  BY DEF IsFileEffect
<1> QED BY <1>3, <1>4, <1>5 DEF Orderly

\* A handler begins whose effects lead to such labs.
LEMMA CalmBegin ==
  ASSUME NEW kind, NEW l, NEW n, NEW todo \in Seq(Effects), NEW undo, Begin(kind, l, n, todo, undo),
         UNCHANGED <<hash, file, nets, host, up>>,
         NEW N \in [Labs -> NetMaps], NEW F \in [Labs -> States],
         Leads(hash, N, F, nets, file, host, todo)
  PROVE  CalmInv'
<1>1. up /\ (todo = << >> => op' = Idle)
      /\ (todo # << >> => op' = [kind |-> kind, lab |-> l, net |-> n, todo |-> todo,
                                 undo |-> undo, clean |-> TRUE])
  BY BeginFacts
<1>2. op'.todo = todo
  BY <1>1 DEF Idle
<1>3. Leads(hash', N, F, nets', file', host', op'.todo)
  BY <1>2
<1> QED BY <1>1, <1>3 DEF CalmInv

\* The writes of s all leave lab l with networks{} W.
LEMMA SettlesSave ==
  ASSUME NEW l \in Labs, NEW W, NEW s,
         \A e \in ToSet(s) : IsFileEffect(e) => e.do = "save" /\ e.on = l /\ e.arg = W,
         \E e \in ToSet(s) : IsFileEffect(e)
  PROVE  Settles(Put(l, W), [file EXCEPT ![l] = "ok"], nets, file, s)
<1> DEFINE F == [file EXCEPT ![l] = "ok"]
<1>1. ASSUME NEW e \in ToSet(s), IsFileEffect(e)
      PROVE  e.on \in Labs /\ NetsWith(e, nets) = Put(l, W) /\ FileWith(e, file) = F
  BY <1>1 DEF NetsWith, FileWith, Put
<1> HIDE DEF F
<1>2. Settles(Put(l, W), F, nets, file, s)
  BY <1>1 DEF Settles
<1> QED BY <1>2 DEF F

\* Handlers that only write, and leave every network with a bridge alone.
LEMMA CalmFiles ==
  ASSUME CloudInv, AllAgree, NEW kind, NEW l, NEW n, NEW todo \in Seq(Effects), NEW undo,
         Begin(kind, l, n, todo, undo), UNCHANGED <<hash, file, nets, host, up>>,
         NEW N \in [Labs -> NetMaps], NEW F \in [Labs -> States],
         Settles(N, F, nets, file, todo), \A e \in ToSet(todo) : IsFileEffect(e), Named(hash, N, F),
         \A b \in Names : /\ HoldersOf(N, F, b) = HoldersOf(nets, file, b)
                          /\ \A c \in HoldersOf(nets, file, b) : At(N, c) = At(nets, c)
  PROVE  CalmInv'
<1>1. Orderly(todo, host)
  BY FilesOrderly
<1>2. ASSUME NEW b \in Names PROVE Fits(N, F, b, todo, host)
  <2>1. Agrees(b)
    BY DEF AllAgree
  <2> QED BY <2>1, UntouchedFits
<1>3. Leads(hash, N, F, nets, file, host, todo)
  BY <1>1, <1>2 DEF Leads
<1> QED BY <1>3, CalmBegin

\* create_lab makes an empty lab.
LEMMA CalmCreateLab ==
  ASSUME CloudInv, AllAgree, NEW l \in Labs, CreateLab(l)
  PROVE  CalmInv'
<1> DEFINE N == Put(l, << >>)
           F == [file EXCEPT ![l] = "ok"]
           todo == Write(l, << >>)
<1>1. /\ file[l] = "new" /\ Begin("lab", l, 0, todo, << >>)
      /\ UNCHANGED <<hash, file, nets, host, up>>
  BY DEF CreateLab, Begin
<1>2. nets \in [Labs -> NetMaps] /\ file \in [Labs -> States]
  BY DEF CloudInv, Good
<1>3. N \in [Labs -> NetMaps] /\ F \in [Labs -> States] /\ N[l] = << >> /\ F[l] = "ok"
      /\ \A k \in Labs : k # l => N[k] = nets[k] /\ F[k] = file[k]
  BY <1>2, NothingMap DEF Put, States
<1>4. todo \in Seq(Effects) /\ ToSet(todo) = {Effect("save", l, << >>, 0)}
  BY NothingMap, PartsTyped
<1> DEFINE e == Effect("save", l, << >>, 0)
<1>5. e.do = "save" /\ e.on = l /\ e.arg = << >> /\ IsFileEffect(e)
  BY DEF Effect, IsFileEffect
<1> HIDE DEF todo, e
<1>6. Settles(N, F, nets, file, todo)
  <2> DEFINE W == << >>
  <2>1. \A x \in ToSet(todo) : IsFileEffect(x) => x.do = "save" /\ x.on = l /\ x.arg = W
    BY <1>4, <1>5 DEF e
  <2>2. \E x \in ToSet(todo) : IsFileEffect(x)
    BY <1>4, <1>5 DEF e
  <2> HIDE DEF W
  <2>3. Settles(Put(l, W), F, nets, file, todo)
    BY <2>1, <2>2, SettlesSave
  <2> QED BY <2>3 DEF W
<1> HIDE DEF N, F
<1>7. ASSUME NEW c \in Cloud
      PROVE  /\ c \in RecordsOf(N, F) <=> c \in RecordsOf(nets, file)
             /\ c \in RecordsOf(nets, file) => At(N, c) = At(nets, c)
  <2>1. c[1] \in Labs
    BY DEF Cloud
  <2>2. CASE c[1] = l
    BY <1>1, <1>3, <2>2, NothingMap DEF RecordsOf
  <2>3. CASE c[1] # l
    BY <1>3, <2>1, <2>3 DEF RecordsOf, At
  <2> QED BY <2>2, <2>3
<1>8. RecordsOf(N, F) = RecordsOf(nets, file)
  BY <1>7 DEF RecordsOf
<1>9. \A c \in RecordsOf(nets, file) : c \in Cloud /\ At(N, c) = At(nets, c)
  BY <1>7 DEF RecordsOf
<1>10. Named(hash, N, F)
  BY <1>8, <1>9 DEF AllAgree, Named
<1>11. \A b \in Names : /\ HoldersOf(N, F, b) = HoldersOf(nets, file, b)
                        /\ \A c \in HoldersOf(nets, file, b) : At(N, c) = At(nets, c)
  BY <1>8, <1>9 DEF HoldersOf
<1>12. \A x \in ToSet(todo) : IsFileEffect(x)
  BY <1>4, <1>5 DEF e
<1> QED BY <1>1, <1>3, <1>4, <1>6, <1>10, <1>11, <1>12, CalmFiles DEF todo

\* A sequence of one.
LEMMA OneTyped ==
  ASSUME NEW S, NEW e \in S
  PROVE  <<e>> \in Seq(S) /\ ToSet(<<e>>) = {e} /\ Len(<<e>>) = 1 /\ <<e>>[1] = e
BY SetOfOne

\* Two sequences one after the other.
LEMMA JoinTyped ==
  ASSUME NEW S, NEW s \in Seq(S), NEW t \in Seq(S)
  PROVE  /\ s \o t \in Seq(S) /\ ToSet(s \o t) = ToSet(s) \cup ToSet(t)
         /\ Len(s) \in Nat /\ Len(t) \in Nat /\ Len(s \o t) = Len(s) + Len(t)
         /\ \A i \in 1..Len(s) : (s \o t)[i] = s[i]
         /\ \A i \in 1..Len(t) : (s \o t)[Len(s) + i] = t[i]
<1>1. ToSet(s \o t) = ToSet(s) \cup ToSet(t)
  BY SetOfJoin
<1> QED BY <1>1

\* The effects that bring up bridge b for network n of lab l, record r.
BringUp(l, n, W, b, r) ==
  Write(l, W) \o ((AddBridge(b, n) \o Own(b, <<l, n>>))
                  \o (IF IsOwner(r) THEN Route(b, r.cidr, n) \o Write(l, W) ELSE << >>))

\* The effects that bring up the bridge of a new network, in their order.
LEMMA BringsUp ==
  ASSUME NEW l \in Labs, NEW n \in Ids, NEW W \in NetMaps, NEW b \in Names, NEW r \in NetRecord,
         NEW s, s = BringUp(l, n, W, b, r)
  PROVE  /\ s \in Seq(Effects) /\ s[1].do = "save" /\ s[2].do = "add" /\ s[2].on = b
         /\ 1 \in 1..Len(s) /\ 2 \in 1..Len(s)
         /\ \A e \in ToSet(s) :
              /\ e.do \in {"save", "add", "own", "route"}
              /\ e.do = "save" => e.on = l /\ e.arg = W
              /\ e.do # "save" => e.on = b
              /\ e.do = "own" => e.arg = <<l, n>>
              /\ e.do = "route" => IsOwner(r) /\ e.arg = r.cidr
         /\ Pend(s, "save", l) /\ Pend(s, "add", b) /\ Pend(s, "own", b)
         /\ IsOwner(r) /\ r.cidr # {} => Pend(s, "route", b)
<1> DEFINE c == <<l, n>>
           sv == Effect("save", l, W, 0)
           ad == Effect("add", b, None, n)
           ow == Effect("own", b, c, n)
           rt == Effect("route", b, r.cidr, n)
           w == Write(l, W)
           p == AddBridge(b, n) \o Own(b, c)
           v == Route(b, r.cidr, n)
           t == IF IsOwner(r) THEN v \o w ELSE << >>
<1>1. /\ l \in Labs /\ n \in Nat /\ c \in Cloud /\ c[2] = n /\ b \in Names \cup {HostBr}
      /\ r.cidr \in SUBSET Nat
  BY CloudConstants DEF Cloud, Ids, NetRecord, Fields
<1>2. /\ sv.do = "save" /\ sv.on = l /\ sv.arg = W /\ ad.do = "add" /\ ad.on = b
      /\ ow.do = "own" /\ ow.on = b /\ ow.arg = c
      /\ rt.do = "route" /\ rt.on = b /\ rt.arg = r.cidr
      /\ sv \in Effects /\ ad \in Effects /\ ow \in Effects
  BY <1>1 DEF Effect, Effects
<1>3. /\ w = <<sv>> /\ AddBridge(b, n) = <<ad>> /\ Own(b, c) = <<ow>>
  BY <1>1 DEF Write, AddBridge, Own
<1>4. v \in Seq(Effects) /\ ToSet(v) = IF r.cidr = {} THEN {} ELSE {rt}
  BY <1>1, RouteTyped
<1>5. s = w \o (p \o t) /\ p = <<ad>> \o <<ow>> /\ c = <<l, n>>
  BY <1>3 DEF BringUp
<1> HIDE DEF c, sv, ad, ow, rt, w, p, v
<1>6. w \in Seq(Effects) /\ ToSet(w) = {sv} /\ Len(w) = 1 /\ w[1] = sv
  <2>1. sv \in Effects /\ w = <<sv>>
    BY <1>2, <1>3
  <2> QED BY <2>1, OneTyped
<1>7. p \in Seq(Effects) /\ ToSet(p) = {ad, ow} /\ Len(p) = 2 /\ p[1] = ad
  <2> DEFINE y == <<ad>>
             z == <<ow>>
  <2>1. y \in Seq(Effects) /\ z \in Seq(Effects) /\ ToSet(y) = {ad} /\ ToSet(z) = {ow}
        /\ Len(y) = 1 /\ Len(z) = 1 /\ y[1] = ad
    BY <1>2, OneTyped
  <2>2. p = y \o z
    BY <1>5
  <2> HIDE DEF y, z
  <2>3. 1 \in 1..Len(y)
    BY <2>1
  <2>4. p \in Seq(Effects) /\ ToSet(p) = ToSet(y) \cup ToSet(z) /\ Len(p) = Len(y) + Len(z)
        /\ p[1] = y[1]
    BY <2>1, <2>2, <2>3, JoinTyped
  <2> QED BY <2>1, <2>4
<1>8. t \in Seq(Effects) /\ Len(t) \in Nat
      /\ ToSet(t) = IF IsOwner(r) THEN ToSet(v) \cup {sv} ELSE {}
  <2>1. v \o w \in Seq(Effects) /\ ToSet(v \o w) = ToSet(v) \cup ToSet(w)
    BY <1>4, <1>6, Joined, SetOfJoin
  <2>2. << >> \in Seq(Effects) /\ ToSet(<< >>) = {}
    BY SetOfOne
  <2>3. t \in Seq(Effects) /\ ToSet(t) = IF IsOwner(r) THEN ToSet(v) \cup {sv} ELSE {}
    BY <1>6, <2>1, <2>2
  <2> HIDE DEF t
  <2> QED BY <2>3
<1> HIDE DEF t
<1>9. p \o t \in Seq(Effects) /\ ToSet(p \o t) = {ad, ow} \cup ToSet(t)
      /\ Len(p \o t) = 2 + Len(t) /\ (p \o t)[1] = ad
  <2>1. p \in Seq(Effects) /\ t \in Seq(Effects) /\ 1 \in 1..Len(p)
    BY <1>7, <1>8
  <2>2. /\ p \o t \in Seq(Effects) /\ ToSet(p \o t) = ToSet(p) \cup ToSet(t)
        /\ Len(p \o t) = Len(p) + Len(t) /\ (p \o t)[1] = p[1]
    BY <2>1, JoinTyped
  <2> QED BY <1>7, <2>2
<1> DEFINE u == p \o t
<1>10. s = w \o u /\ u \in Seq(Effects) /\ ToSet(u) = {ad, ow} \cup ToSet(t)
       /\ Len(u) = 2 + Len(t) /\ u[1] = ad
  BY <1>5, <1>9
<1> HIDE DEF u
<1>11. s \in Seq(Effects) /\ ToSet(s) = {sv} \cup ToSet(u)
       /\ Len(s) = 3 + Len(t) /\ s[1] = sv /\ s[2] = ad
  <2>1. /\ w \in Seq(Effects) /\ u \in Seq(Effects) /\ s = w \o u
        /\ 1 \in 1..Len(w) /\ 1 \in 1..Len(u)
    BY <1>6, <1>8, <1>10
  <2>2. /\ s \in Seq(Effects) /\ ToSet(s) = ToSet(w) \cup ToSet(u)
        /\ Len(s) = Len(w) + Len(u) /\ s[1] = w[1] /\ s[Len(w) + 1] = u[1]
    BY <2>1, JoinTyped
  <2>3. Len(w) + 1 = 2 /\ Len(w) + Len(u) = 3 + Len(t)
    BY <1>6, <1>8, <1>10
  <2> QED BY <1>6, <1>10, <2>2, <2>3
<1>12. 1 \in 1..Len(s) /\ 2 \in 1..Len(s)
  BY <1>8, <1>11
<1>13. /\ \A e \in ToSet(s) : e \in {sv, ad, ow} \/ (e = rt /\ IsOwner(r))
       /\ sv \in ToSet(s) /\ ad \in ToSet(s) /\ ow \in ToSet(s)
       /\ IsOwner(r) /\ r.cidr # {} => rt \in ToSet(s)
  BY <1>4, <1>8, <1>10, <1>11
<1>14. \A e \in ToSet(s) :
         /\ e.do \in {"save", "add", "own", "route"}
         /\ e.do = "save" => e.on = l /\ e.arg = W
         /\ e.do # "save" => e.on = b
         /\ e.do = "own" => e.arg = c
         /\ e.do = "route" => IsOwner(r) /\ e.arg = r.cidr
  BY <1>2, <1>13
<1>15. /\ Pend(s, "save", l) /\ Pend(s, "add", b) /\ Pend(s, "own", b)
       /\ IsOwner(r) /\ r.cidr # {} => Pend(s, "route", b)
  BY <1>2, <1>13 DEF Pend
<1> QED BY <1>2, <1>5, <1>11, <1>12, <1>14, <1>15

\* create_network: at rest its bridge is there only if another network has
\* it, and then it writes the record back out.
LEMMA CalmCreate ==
  ASSUME BridgeInv, AllAgree, NEW l \in Labs, NEW r \in NetRecord, Creates(l, r)
  PROVE  CalmInv'
<1> DEFINE n == NextId(l)
           x == <<l, n>>
           b == r.bridge
           W == With(l, n, r)
           N == Put(l, W)
           todo == Write(l, W) \o Provision(l, n, r)
           undo == Write(l, nets[l]) \o (IF IsOwner(r) THEN Unroute(b) ELSE << >>)
<1>1. /\ l \in Readable /\ n \in Ids /\ Begin("create", l, n, todo, undo)
      /\ UNCHANGED <<hash, file, nets, host, up>>
      /\ ~Plain(r) => b = <<hash[l], n>>
      /\ r.type = "bridge_cloud" => b = HostBr
      /\ IsOwner(r) => r.cidr # {}
  BY DEF Creates, CreateRecord, Begin
<1>2. CloudInv /\ Good(nets, file, patched, damaged) /\ hash \in [Labs -> Hashes]
      /\ nets \in [Labs -> NetMaps] /\ file \in [Labs -> States]
  BY DEF BridgeInv, CloudInv, Good
<1>3. n \in Ids \ NetIds(l)
  BY <1>1, <1>2, NextIdFresh
<1> HIDE DEF n
<1>4. /\ N \in [Labs -> NetMaps] /\ [file EXCEPT ![l] = "ok"] = file
      /\ RecordsOf(N, file) = RecordsOf(nets, file) \cup {x} /\ At(N, x) = r
      /\ \A c \in RecordsOf(nets, file) : At(N, c) = At(nets, c)
  BY <1>1, <1>2, <1>3, RecordsWith
<1>5. x \in Cloud /\ x[1] = l /\ x[2] = n /\ x \notin RecordsOf(nets, file)
  BY <1>3 DEF Cloud, RecordsOf, NetIds
<1>6. todo \in Seq(Effects)
  BY <1>1, <1>3, ProvisionMakes
<1>7. W \in NetMaps
  <2>1. IsWith(W, l, n, r)
    BY <1>1, <1>2, MapsTyped
  <2> QED BY <2>1 DEF IsWith
<1>8. Write(l, W) = <<Effect("save", l, W, 0)>> /\ Write(l, nets[l]) = <<Effect("save", l, nets[l], 0)>>
      /\ Effect("save", l, W, 0) \in Effects /\ Effect("save", l, nets[l], 0) \in Effects
  BY <1>2, <1>7 DEF Write, Effect, Effects
<1> HIDE DEF x, W, N, undo
<1>9. Named(hash, nets, file) /\ \A d \in Names : Agrees(d)
  BY DEF AllAgree
<1>10. Named(hash, N, file)
  <2> SUFFICES ASSUME NEW c \in RecordsOf(N, file)
               PROVE  /\ ~Plain(At(N, c)) => At(N, c).bridge = <<hash[c[1]], c[2]>>
                      /\ At(N, c).type = "bridge_cloud" => At(N, c).bridge = HostBr
    BY DEF Named
  <2>1. CASE c = x
    BY <1>1, <1>4, <1>5, <2>1
  <2>2. CASE c \in RecordsOf(nets, file)
    BY <1>4, <1>9, <2>2 DEF Named
  <2> QED BY <1>4, <2>1, <2>2
<1>11. ASSUME NEW d
       PROVE  /\ HoldersOf(N, file, d) = HoldersOf(nets, file, d)
                                         \cup (IF b = d /\ ~IsRef(r) THEN {x} ELSE {})
              /\ \A c \in HoldersOf(nets, file, d) : At(N, c) = At(nets, c)
  BY <1>4 DEF HoldersOf
<1>12. HostBr \notin Names
  BY CloudConstants DEF Names, Ids
<1>13. CASE Plain(r)
  <2>1. todo = Write(l, W) \o << >>
    BY <1>13 DEF Provision, Plain
  <2> DEFINE e == Effect("save", l, W, 0)
  <2>2. e.do = "save" /\ e.on = l /\ e.arg = W /\ e \in Effects /\ Write(l, W) = <<e>>
    BY <1>8 DEF Effect
  <2> HIDE DEF e, todo
  <2>3. todo = <<e>>
    BY <2>1, <2>2
  <2>4. ToSet(todo) = {e} /\ IsFileEffect(e)
    BY <2>2, <2>3, SetOfOne DEF IsFileEffect
  <2>5. Settles(N, file, nets, file, todo)
    <3>1. Settles(Put(l, W), [file EXCEPT ![l] = "ok"], nets, file, todo)
      BY <2>2, <2>4, SettlesSave
    <3> QED BY <1>4, <3>1 DEF N
  <2>6. ASSUME NEW d \in Names PROVE ~(b = d /\ ~IsRef(r))
    BY <1>1, <1>12, <1>13 DEF Plain
  <2>7. \A d \in Names : /\ HoldersOf(N, file, d) = HoldersOf(nets, file, d)
                         /\ \A c \in HoldersOf(nets, file, d) : At(N, c) = At(nets, c)
    BY <1>11, <2>6
  <2>8. todo \in Seq(Effects) /\ Begin("create", l, n, todo, undo)
    BY <1>1, <1>6 DEF todo, undo
  <2>9. \A y \in ToSet(todo) : IsFileEffect(y)
    BY <2>4
  <2> QED BY <1>1, <1>2, <1>4, <1>10, <2>5, <2>7, <2>8, <2>9, CalmFiles
<1>14. CASE ~Plain(r) /\ host[b].up /\ Fingerprint(b, x) # "match"
  <2> DEFINE e == Effect("save", l, W, 0)
             g == Effect("save", l, nets[l], 0)
  <2>1. e.do = "save" /\ e.on = l /\ g.do = "save" /\ g.on = l /\ g.arg = nets[l]
        /\ e \in Effects /\ g \in Effects
    BY <1>8 DEF Effect
  <2>2. todo = <<e>> \o <<g>>
    BY <1>8, <1>14 DEF Provision, Plain, x
  <2> DEFINE y == <<e>>
             z == <<g>>
  <2> HIDE DEF e, g, todo
  <2>3. todo = y \o z
    BY <2>2
  <2>y. y \in Seq(Effects) /\ ToSet(y) = {e} /\ Len(y) = 1
    BY <2>1, OneTyped
  <2>z. z \in Seq(Effects) /\ ToSet(z) = {g} /\ Len(z) = 1 /\ z[1] = g
    BY <2>1, OneTyped
  <2> HIDE DEF y, z
  <2>4. /\ ToSet(y \o z) = ToSet(y) \cup ToSet(z) /\ Len(y \o z) = Len(y) + Len(z)
        /\ \A i \in 1..Len(z) : (y \o z)[Len(y) + i] = z[i]
    BY <2>y, <2>z, JoinSet, Zenon
  <2>5. ToSet(todo) = {e, g} /\ Len(todo) = 2 /\ todo[2] = g
    <3>1. 1 \in 1..Len(z) /\ Len(y) + 1 = 2
      BY <2>y, <2>z
    <3>2. (y \o z)[Len(y) + 1] = z[1]
      BY <2>4, <3>1
    <3> QED BY <2>3, <2>y, <2>z, <2>4, <3>1, <3>2
  <2>6. NetsWith(g, nets) = nets /\ FileWith(g, file) = file
    BY <1>1, <1>2, <2>1, RewriteAsIs DEF Readable
  <2>7. Settles(nets, file, nets, file, todo)
    <3>1. todo # << >>
      BY <2>5
    <3> QED BY <2>1, <2>5, <2>6, <3>1 DEF Settles
  <2>8. todo \in Seq(Effects) /\ Begin("create", l, n, todo, undo)
    BY <1>1, <1>6 DEF todo, undo
  <2>9. \A v \in ToSet(todo) : IsFileEffect(v)
    BY <2>1, <2>5 DEF IsFileEffect
  <2> QED BY <1>1, <1>2, <1>9, <2>7, <2>8, <2>9, CalmFiles
<1>15. CASE ~Plain(r) /\ ~(host[b].up /\ Fingerprint(b, x) # "match")
  <2>1. b \in Names /\ ~IsRef(r)
    BY <1>1, <1>2, <1>15, SMTT(40) DEF Names, Plain
  <2>2. HoldersOf(nets, file, b) = {} /\ host[b] = Absent
    <3>1. ASSUME NEW c \in Cloud, HoldersOf(nets, file, b) = {c}, host[b].up, host[b].fp = c
          PROVE  FALSE
      <4>1. c # x
        BY <1>5, <3>1 DEF HoldersOf
      <4>2. host[b].fp = x
        BY <1>5, <1>15, <3>1, Matching
      <4> QED BY <3>1, <4>1, <4>2
    <3>2. Agrees(b)
      BY <1>9, <2>1
    <3> QED BY <3>1, <3>2 DEF Agrees
  <2>3. host[b].up = FALSE /\ host[b].fp = None /\ host[b].routed = {}
    BY <2>2 DEF Absent
  <2>4. todo = BringUp(l, n, W, b, r)
    BY <1>15, <2>3 DEF Provision, Plain, BringUp, x, W
  <2> HIDE DEF todo
  <2>5. /\ todo \in Seq(Effects) /\ todo[1].do = "save" /\ todo[2].do = "add" /\ todo[2].on = b
        /\ \A e \in ToSet(todo) :
             /\ e.do \in {"save", "add", "own", "route"}
             /\ e.do = "save" => e.on = l /\ e.arg = W
             /\ e.do # "save" => e.on = b
             /\ e.do = "own" => e.arg = <<l, n>>
             /\ e.do = "route" => IsOwner(r) /\ e.arg = r.cidr
        /\ Pend(todo, "save", l) /\ Pend(todo, "add", b) /\ Pend(todo, "own", b)
        /\ IsOwner(r) /\ r.cidr # {} => Pend(todo, "route", b)
    <3> DEFINE bb == b
    <3>1. bb \in Names /\ todo = BringUp(l, n, W, bb, r)
      BY <2>1, <2>4
    <3> HIDE DEF bb
    <3> QED BY <1>1, <1>7, <3>1, BringsUp DEF bb
  <2>6. Settles(N, file, nets, file, todo)
    <3>1. \A e \in ToSet(todo) : IsFileEffect(e) => e.do = "save" /\ e.on = l /\ e.arg = W
      BY <2>5 DEF IsFileEffect
    <3>2. \E e \in ToSet(todo) : IsFileEffect(e)
      BY <2>5 DEF Pend, IsFileEffect
    <3>3. Settles(Put(l, W), [file EXCEPT ![l] = "ok"], nets, file, todo)
      BY <3>1, <3>2, SettlesSave
    <3> QED BY <1>4, <3>3 DEF N
  <2>7. Orderly(todo, host)
    <3>1. \A i \in 1..Len(todo) : todo[i] \in ToSet(todo)
      BY DEF ToSet
    <3>2. DropsOnce(todo) /\ \A e \in ToSet(todo) : e.do # "drop"
      BY <2>5, <3>1 DEF DropsOnce
    <3>3. RoutesReady(todo, host)
      <4> SUFFICES ASSUME NEW i \in 1..Len(todo), todo[i].do = "route"
                   PROVE  \E j \in 1..(i - 1) : todo[j].do = "add" /\ todo[j].on = todo[i].on
        BY DEF RoutesReady
      <4>1. todo[i].on = b
        BY <2>5, <3>1
      <4>2. i # 1 /\ i # 2
        BY <2>5
      <4>3. 2 \in 1..(i - 1)
        <5>1. Len(todo) \in Nat
          BY <2>5
        <5> QED BY <4>2, <5>1
      <4> QED BY <2>5, <4>1, <4>3
    <3>4. \A e \in ToSet(todo) : IsFileEffect(e) \/ e.on \in Names
      BY <2>1, <2>5 DEF IsFileEffect
    <3> QED BY <3>2, <3>3, <3>4 DEF Orderly
  <2>8. ASSUME NEW d \in Names PROVE Fits(N, file, d, todo, host)
    <3>1. CASE d = b
      <4>1. HoldersOf(N, file, b) = {x}
        BY <1>11, <2>1, <2>2
      <4>2. IsNat(r) => IsOwner(r)
        BY <2>1 DEF IsRef, IsOwner
      <4>3. Routed(r) = IF IsOwner(r) THEN r.cidr ELSE {}
        BY <4>2 DEF Routed, IsOwner
      <4>4. Raised(r, x, b, todo, host)
        <5>1. ASSUME NEW e \in ToSet(todo), ~IsFileEffect(e)
              PROVE  /\ e.do \in {"add", "own", "route"}
                     /\ e.do = "own" => e.arg = x
                     /\ e.do = "route" => e.arg = Routed(r)
          BY <2>5, <4>3, <5>1 DEF IsFileEffect, x
        <5>2. host[b].routed = Routed(r) \/ Pend(todo, "route", b)
          BY <2>3, <2>5, <4>3
        <5>3. Pend(todo, "add", b) /\ Pend(todo, "own", b)
          BY <2>5
        <5> HIDE DEF b
        <5> QED BY <5>1, <5>2, <5>3 DEF Raised
      <4>5. HoldersOf(N, file, d) = {x} /\ Raised(At(N, x), x, d, todo, host)
        BY <1>4, <3>1, <4>1, <4>4
      <4> HIDE DEF b
      <4> QED BY <1>5, <4>5 DEF Fits
    <3>2. CASE d # b
      <4>1. \A e \in ToSet(todo) : e.on = d => IsFileEffect(e)
        BY <2>5, <3>2 DEF IsFileEffect
      <4>2. HoldersOf(N, file, d) = HoldersOf(nets, file, d)
        BY <1>11, <3>2
      <4>3. Agrees(d) /\ \A c \in HoldersOf(nets, file, d) : At(N, c) = At(nets, c)
        BY <1>9, <1>11
      <4> QED BY <4>1, <4>2, <4>3, UntouchedFits
    <3> QED BY <3>1, <3>2
  <2>9. Leads(hash, N, file, nets, file, host, todo)
    BY <1>10, <2>6, <2>7, <2>8 DEF Leads
  <2>10. Begin("create", l, n, todo, undo)
    BY <1>1 DEF todo, undo
  <2> QED BY <1>1, <1>2, <1>4, <2>5, <2>9, <2>10, CalmBegin
<1> QED BY <1>13, <1>14, <1>15

\* Two sequences that remove different bridges.
LEMMA DropsJoin ==
  ASSUME NEW s \in Seq(Effects), NEW t \in Seq(Effects), DropsOnce(s), DropsOnce(t),
         \A d \in ToSet(s), e \in ToSet(t) : d.do = "drop" /\ e.do = "drop" => d.on # e.on
  PROVE  DropsOnce(s \o t)
<1>1. /\ Len(s) \in Nat /\ Len(t) \in Nat /\ Len(s \o t) = Len(s) + Len(t)
      /\ \A i \in 1..Len(s) : (s \o t)[i] = s[i]
      /\ \A i \in 1..Len(t) : (s \o t)[Len(s) + i] = t[i]
  BY JoinTyped
<1> DEFINE u == s \o t
<1>2. /\ Len(u) = Len(s) + Len(t) /\ \A i \in 1..Len(s) : u[i] = s[i]
      /\ \A i \in 1..Len(t) : u[Len(s) + i] = t[i]
  BY <1>1
<1> HIDE DEF u
<1>3. ASSUME NEW i \in 1..Len(u)
      PROVE  \/ i \in 1..Len(s) /\ u[i] = s[i] /\ s[i] \in ToSet(s)
             \/ \E k \in 1..Len(t) : i = Len(s) + k /\ u[i] = t[k] /\ t[k] \in ToSet(t)
  <2>1. CASE i \in 1..Len(s)
    BY <1>2, <2>1 DEF ToSet
  <2>2. CASE i \notin 1..Len(s)
    <3> DEFINE k == i - Len(s)
    <3>1. k \in 1..Len(t) /\ i = Len(s) + k
      BY <1>1, <1>2, <2>2
    <3> HIDE DEF k
    <3>2. u[i] = t[k] /\ t[k] \in ToSet(t)
      BY <1>2, <3>1 DEF ToSet
    <3> QED BY <3>1, <3>2
  <2> QED BY <2>1, <2>2
<1>4. ASSUME NEW i \in 1..Len(u), NEW j \in 1..Len(u), u[i].do = "drop", u[j].do = "drop",
             u[i].on = u[j].on
      PROVE  i = j
  <2>1. CASE i \in 1..Len(s) /\ j \in 1..Len(s) /\ u[i] = s[i] /\ u[j] = s[j]
    BY <1>4, <2>1 DEF DropsOnce
  <2>2. ASSUME NEW k \in 1..Len(t), NEW m \in 1..Len(t), i = Len(s) + k, j = Len(s) + m,
               u[i] = t[k], u[j] = t[m]
        PROVE  i = j
    BY <1>4, <2>2 DEF DropsOnce
  <2> QED BY <1>3, <1>4, <2>1, <2>2
<1>5. DropsOnce(u)
  BY <1>4 DEF DropsOnce
<1> QED BY <1>5 DEF u

\* The teardown of a network removes its bridge, once.
LEMMA TeardownFacts ==
  ASSUME NEW r \in NetRecord
  PROVE  /\ Teardown(r) \in Seq(Effects) /\ DropsOnce(Teardown(r))
         /\ Plain(r) => Teardown(r) = << >>
         /\ ~Plain(r) =>
              /\ \A e \in ToSet(Teardown(r)) : e.on = r.bridge /\ e.do \in {"unroute", "drop"}
              /\ Pend(Teardown(r), "drop", r.bridge)
              /\ IsNat(r) => Pend(Teardown(r), "unroute", r.bridge)
<1> DEFINE b == r.bridge
           ur == Effect("unroute", b, None, 0)
           dr == Effect("drop", b, None, 0)
           u == IF IsNat(r) THEN Unroute(b) ELSE << >>
           d == Drop(b)
<1>1. << >> \in Seq(Effects) /\ DropsOnce(<< >>) /\ ToSet(<< >>) = {}
  BY SetOfOne DEF DropsOnce
<1>2. CASE Plain(r)
  <2>1. Teardown(r) = << >>
    BY <1>2 DEF Teardown, Plain
  <2> QED BY <1>1, <1>2, <2>1
<1>3. CASE ~Plain(r)
  <2>1. b \in Names \cup {HostBr}
    BY DEF NetRecord, Fields
  <2>2. ur.do = "unroute" /\ ur.on = b /\ dr.do = "drop" /\ dr.on = b
        /\ ur \in Effects /\ dr \in Effects
    BY <2>1 DEF Effect, Effects
  <2>3. Unroute(b) = <<ur>> /\ Drop(b) = <<dr>>
    BY DEF Unroute, Drop
  <2>4. Teardown(r) = u \o d
    BY <1>3 DEF Teardown, Plain
  <2> HIDE DEF ur, dr, b
  <2>r. Unroute(b) \in Seq(Effects) /\ ToSet(Unroute(b)) = {ur}
    BY <2>2, <2>3, OneTyped
  <2>5. d \in Seq(Effects) /\ ToSet(d) = {dr} /\ Len(d) = 1
    BY <2>2, <2>3, OneTyped
  <2>6. u \in Seq(Effects) /\ ToSet(u) = IF IsNat(r) THEN {ur} ELSE {}
    BY <1>1, <2>r
  <2>7. DropsOnce(d)
    BY <2>5 DEF DropsOnce
  <2> HIDE DEF u, d
  <2>8. DropsOnce(u) /\ \A e \in ToSet(u) : e.do # "drop"
    <3>1. \A e \in ToSet(u) : e.do # "drop"
      BY <2>2, <2>6
    <3>2. \A i \in 1..Len(u) : u[i] \in ToSet(u)
      BY <2>6 DEF ToSet
    <3> QED BY <3>1, <3>2 DEF DropsOnce
  <2>9. u \o d \in Seq(Effects) /\ ToSet(u \o d) = ToSet(u) \cup {dr} /\ DropsOnce(u \o d)
    <3>1. u \o d \in Seq(Effects) /\ ToSet(u \o d) = ToSet(u) \cup ToSet(d)
      BY <2>5, <2>6, JoinTyped
    <3>2. DropsOnce(u \o d)
      BY <2>5, <2>6, <2>7, <2>8, DropsJoin
    <3> QED BY <2>5, <3>1, <3>2
  <2> DEFINE T == Teardown(r)
  <2>10. T \in Seq(Effects) /\ DropsOnce(T) /\ ToSet(T) = ToSet(u) \cup {dr}
    BY <2>4, <2>9
  <2> HIDE DEF T
  <2>11. \A e \in ToSet(T) : e.on = b /\ e.do \in {"unroute", "drop"}
    BY <2>2, <2>6, <2>10
  <2>12. Pend(T, "drop", b) /\ (IsNat(r) => Pend(T, "unroute", b))
    BY <2>2, <2>6, <2>10 DEF Pend
  <2> QED BY <1>3, <2>10, <2>11, <2>12 DEF T, b
<1> QED BY <1>2, <1>3

\* The bridge of a network that is torn down will be gone.
LEMMA TornDown ==
  ASSUME NEW b, NEW s, host[b].up, NEW r, host[b].routed = Routed(r),
         \A e \in ToSet(s) : e.on = b => IsFileEffect(e) \/ e.do \in {"unroute", "drop"},
         Pend(s, "drop", b), IsNat(r) => Pend(s, "unroute", b)
  PROVE  Lowered(b, s, host)
<1>1. host[b].routed = {} \/ Pend(s, "unroute", b)
  BY DEF Routed
<1> QED BY <1>1 DEF Lowered

\* delete_network removes the bridge with the network.
LEMMA CalmDelete ==
  ASSUME BridgeInv, AllAgree, NEW l \in Labs, NEW n \in NetIds(l), DeleteNetwork(l, n)
  PROVE  CalmInv'
<1> DEFINE r == nets[l][n]
           x == <<l, n>>
           b == r.bridge
           W == Without(l, n)
           N == Put(l, W)
           w == Write(l, W)
           T == Teardown(r)
           todo == w \o T
<1>1. /\ l \in Readable /\ Begin("delete", l, n, todo, << >>)
      /\ UNCHANGED <<hash, file, nets, host, up>>
  BY DEF DeleteNetwork, Begin
<1>2. CloudInv /\ Good(nets, file, patched, damaged) /\ hash \in [Labs -> Hashes]
      /\ nets \in [Labs -> NetMaps] /\ file \in [Labs -> States] /\ file[l] = "ok"
  BY <1>1 DEF BridgeInv, CloudInv, Good, Readable
<1>3. n \in Ids /\ r \in NetRecord
  BY <1>2, Reading
<1>4. W \in NetMaps
  <2>1. IsWithout(W, l, n)
    BY <1>2, <1>3, MapsTyped
  <2> QED BY <2>1 DEF IsWithout
<1>5. x \in Cloud /\ x[1] = l /\ x[2] = n /\ At(nets, x) = r /\ x \in RecordsOf(nets, file)
  BY <1>2, <1>3 DEF Cloud, RecordsOf, NetIds, At
<1>6. /\ N \in [Labs -> NetMaps] /\ [file EXCEPT ![l] = "ok"] = file
      /\ RecordsOf(N, file) = RecordsOf(nets, file) \ {x}
      /\ \A c \in RecordsOf(N, file) : At(N, c) = At(nets, c)
  BY <1>1, <1>2, RecordsWithout
<1>7. /\ T \in Seq(Effects) /\ DropsOnce(T)
      /\ Plain(r) => T = << >>
      /\ ~Plain(r) => /\ \A e \in ToSet(T) : e.on = b /\ e.do \in {"unroute", "drop"}
                      /\ Pend(T, "drop", b)
                      /\ IsNat(r) => Pend(T, "unroute", b)
  BY <1>3, TeardownFacts
<1> DEFINE sv == Effect("save", l, W, 0)
<1>8. w \in Seq(Effects) /\ ToSet(w) = {sv} /\ sv.do = "save" /\ sv.on = l /\ sv.arg = W
  <2>1. sv.do = "save" /\ sv.on = l /\ sv.arg = W
    BY DEF Effect
  <2>2. w \in Seq(Effects) /\ ToSet(w) = {sv}
    BY <1>4, PartsTyped
  <2> QED BY <2>1, <2>2
<1> HIDE DEF sv, w, T, W, N, x, r
<1>9. todo \in Seq(Effects) /\ ToSet(todo) = {sv} \cup ToSet(T)
  BY <1>7, <1>8, JoinTyped
<1>10. Named(hash, nets, file) /\ \A d \in Names : Agrees(d)
  BY DEF AllAgree
<1>11. Named(hash, N, file)
  BY <1>6, <1>10 DEF Named
<1>12. ASSUME NEW d
       PROVE  /\ HoldersOf(N, file, d) = HoldersOf(nets, file, d) \ {x}
              /\ \A c \in HoldersOf(N, file, d) : At(N, c) = At(nets, c)
  BY <1>6 DEF HoldersOf
<1>13. HostBr \notin Names
  BY CloudConstants DEF Names, Ids
<1>14. IsFileEffect(sv)
  BY <1>8 DEF IsFileEffect
<1>15. ASSUME NEW e \in ToSet(T) PROVE e.on = b /\ ~Plain(r) /\ e.do \in {"unroute", "drop"} /\ ~IsFileEffect(e)
  <2>1. ~Plain(r)
    BY <1>7, <1>15, SetOfOne
  <2> QED BY <1>7, <2>1 DEF IsFileEffect
<1>16. Settles(N, file, nets, file, todo)
  <2>1. \A e \in ToSet(todo) : IsFileEffect(e) => e.do = "save" /\ e.on = l /\ e.arg = W
    BY <1>8, <1>9, <1>15
  <2>2. \E e \in ToSet(todo) : IsFileEffect(e)
    BY <1>9, <1>14
  <2> HIDE DEF todo
  <2>3. Settles(Put(l, W), [file EXCEPT ![l] = "ok"], nets, file, todo)
    BY <2>1, <2>2, SettlesSave
  <2> QED BY <1>6, <2>3 DEF N
<1>17. ~Plain(r) => b \in Names /\ ~IsRef(r) /\ x \in HoldersOf(nets, file, b)
  <2>1. ~Plain(r) => b = <<hash[l], n>> /\ ~IsRef(r)
    BY <1>5, <1>10 DEF Named, Plain
  <2> QED BY <1>2, <1>3, <1>5, <2>1 DEF Names, HoldersOf
<1>18. Orderly(todo, host)
  <2>1. DropsOnce(w)
    <3>1. \A i \in 1..Len(w) : w[i] \in ToSet(w)
      BY <1>8 DEF ToSet
    <3> QED BY <1>8, <3>1 DEF DropsOnce
  <2>2. DropsOnce(todo)
    BY <1>7, <1>8, <2>1, DropsJoin
  <2> HIDE DEF todo
  <2>3. \A e \in ToSet(todo) : e.do \in {"save", "unroute", "drop"} /\ (IsFileEffect(e) \/ e.on \in Names)
    BY <1>8, <1>9, <1>14, <1>15, <1>17
  <2>4. \A i \in 1..Len(todo) : todo[i] \in ToSet(todo)
    BY DEF ToSet
  <2>5. RoutesReady(todo, host)
    BY <2>3, <2>4 DEF RoutesReady
  <2> QED BY <2>2, <2>3, <2>5 DEF Orderly
<1>19. ASSUME NEW d \in Names PROVE Fits(N, file, d, todo, host)
  <2>1. Agrees(d)
    BY <1>10
  <2>2. CASE x \in HoldersOf(nets, file, d)
    <3>1. ~Plain(r) /\ d = b
      BY <1>5, <1>10, <1>13, <2>2 DEF HoldersOf, Named, Plain
    <3>2. HoldersOf(nets, file, d) = {x} /\ host[d].up /\ host[d].routed = Routed(r)
      BY <1>5, <2>1, <2>2 DEF Agrees
    <3>3. Pend(todo, "drop", d) /\ (IsNat(r) => Pend(todo, "unroute", d))
      BY <1>7, <1>9, <3>1 DEF Pend
    <3>4. \A e \in ToSet(todo) : e.on = d => IsFileEffect(e) \/ e.do \in {"unroute", "drop"}
      BY <1>9, <1>14, <1>15
    <3> HIDE DEF todo
    <3>5. Lowered(d, todo, host)
      BY <3>2, <3>3, <3>4, TornDown
    <3>6. HoldersOf(N, file, d) = {}
      BY <1>12, <3>2
    <3> QED BY <3>5, <3>6 DEF Fits
  <2>3. CASE x \notin HoldersOf(nets, file, d)
    <3>1. HoldersOf(N, file, d) = HoldersOf(nets, file, d)
          /\ \A c \in HoldersOf(nets, file, d) : At(N, c) = At(nets, c)
      BY <1>12, <2>3
    <3>2. \A e \in ToSet(todo) : e.on = d => IsFileEffect(e)
      BY <1>9, <1>14, <1>15, <1>17, <2>3
    <3> HIDE DEF todo
    <3> QED BY <2>1, <3>1, <3>2, UntouchedFits
  <2> QED BY <2>2, <2>3
<1> HIDE DEF todo
<1>20. Leads(hash, N, file, nets, file, host, todo)
  BY <1>11, <1>16, <1>18, <1>19 DEF Leads
<1>21. todo \in Seq(Effects) /\ Begin("delete", l, n, todo, << >>)
  BY <1>1, <1>9 DEF todo, w, T, W, r
<1> QED BY <1>1, <1>2, <1>6, <1>20, <1>21, CalmBegin

\* Effects that change nothing of bridges that are what the labs say.
Quiet ==
  {e \in Effects :
     \/ e.do = "save" /\ e.on \in Labs /\ file[e.on] = "ok" /\ e.arg = nets[e.on]
     \/ /\ e.do = "route" /\ e.on \in Names /\ host[e.on].up
        /\ \E c \in Cloud : HoldersOf(nets, file, e.on) = {c} /\ e.arg = Routed(At(nets, c))}

\* They lead to where the labs are.
LEMMA QuietLeads ==
  ASSUME CloudInv, AllAgree, NEW s \in Seq(Quiet)
  PROVE  s \in Seq(Effects) /\ Leads(hash, nets, file, nets, file, host, s)
<1>1. \A i \in 1..Len(s) : s[i] \in Quiet
  OBVIOUS
<1>2. \A e \in ToSet(s) : e \in Quiet
  BY <1>1 DEF ToSet
<1>3. s \in Seq(Effects)
  <2> DEFINE Q == Quiet
  <2>1. Q \subseteq Effects /\ s \in Seq(Q)
    BY DEF Quiet
  <2> HIDE DEF Q
  <2> QED BY <2>1, SeqMonotone
<1>4. nets \in [Labs -> NetMaps] /\ file \in [Labs -> States] /\ Good(nets, file, patched, damaged)
  BY DEF CloudInv, Good
<1>5. Settles(nets, file, nets, file, s)
  <2>1. ASSUME NEW e \in ToSet(s), IsFileEffect(e)
        PROVE  e.on \in Labs /\ NetsWith(e, nets) = nets /\ FileWith(e, file) = file
    <3>1. e.do = "save" /\ e.on \in Labs /\ file[e.on] = "ok" /\ e.arg = nets[e.on]
      BY <1>2, <2>1 DEF Quiet, IsFileEffect
    <3> QED BY <1>4, <3>1, RewriteAsIs
  <2> QED BY <2>1 DEF Settles
<1>6. Orderly(s, host)
  <2>1. \A i \in 1..Len(s) : s[i].do \in {"save", "route"} /\ (s[i].do = "route" => host[s[i].on].up)
    BY <1>1 DEF Quiet
  <2>2. DropsOnce(s) /\ RoutesReady(s, host)
    BY <2>1 DEF DropsOnce, RoutesReady
  <2>3. \A e \in ToSet(s) : e.do # "drop" /\ (IsFileEffect(e) \/ e.on \in Names)
    BY <1>2 DEF Quiet, IsFileEffect
  <2> QED BY <2>2, <2>3 DEF Orderly
<1>7. ASSUME NEW b \in Names PROVE Fits(nets, file, b, s, host)
  <2>1. Agrees(b)
    BY DEF AllAgree
  <2>2. ASSUME NEW c \in Cloud, HoldersOf(nets, file, b) = {c}, host[b].up, host[b].fp = c,
               host[b].routed = Routed(At(nets, c))
        PROVE  Fits(nets, file, b, s, host)
    <3>1. ASSUME NEW e \in ToSet(s), e.on = b, ~IsFileEffect(e)
          PROVE  e.do = "route" /\ e.arg = Routed(At(nets, c))
      BY <1>2, <2>2, <3>1 DEF Quiet, IsFileEffect
    <3>2. Raised(At(nets, c), c, b, s, host)
      BY <2>2, <3>1 DEF Raised
    <3> QED BY <2>2, <3>2 DEF Fits
  <2>3. CASE HoldersOf(nets, file, b) = {} /\ host[b] = Absent
    <3>1. \A e \in ToSet(s) : e.on = b => IsFileEffect(e)
      BY <1>2, <2>3 DEF Quiet, IsFileEffect
    <3> QED BY <2>1, <3>1, UntouchedFits
  <2> QED BY <2>1, <2>2, <2>3 DEF Agrees
<1>8. Named(hash, nets, file)
  BY DEF AllAgree
<1> QED BY <1>3, <1>5, <1>6, <1>7, <1>8 DEF Leads

\* The address of the network that has bridge b.
LEMMA QuietRoute ==
  ASSUME NEW b \in Names, NEW c \in Cloud, HoldersOf(nets, file, b) = {c}, host[b].up,
         NEW cidr \in SUBSET Nat, cidr = Routed(At(nets, c)), NEW n \in Nat
  PROVE  Route(b, cidr, n) \in Seq(Quiet)
<1> DEFINE e == Effect("route", b, cidr, n)
<1>1. e \in Effects /\ e.do = "route" /\ e.on = b /\ e.arg = cidr
  BY DEF Effect, Effects
<1>2. Route(b, cidr, n) = IF cidr = {} THEN << >> ELSE <<e>>
  BY DEF Route
<1> HIDE DEF e
<1>3. e \in Quiet
  BY <1>1 DEF Quiet
<1>4. <<e>> \in Seq(Quiet) /\ << >> \in Seq(Quiet)
  BY <1>3
<1> QED BY <1>2, <1>4

\* What ensure_lab_bridges does for a network at rest changes nothing.
LEMMA EnsureOneQuiet ==
  ASSUME CloudInv, AllAgree, NEW l \in Readable, NEW n \in NetIds(l)
  PROVE  EnsureOne(l, n) \in Seq(Quiet)
<1> DEFINE r == nets[l][n]
           b == r.bridge
           c == r.shared
           x == <<l, n>>
           route == Route(Rec(c).bridge, Rec(c).cidr, n)
           write == IF c[1] = l THEN << >> ELSE Write(c[1], nets[c[1]])
           bring == IF ~ host[b].up THEN AddBridge(b, n) \o Own(b, x)
                    ELSE IF Fingerprint(b, x) = "absent" THEN Own(b, x) ELSE << >>
           mine == IF IsOwner(r) THEN Route(b, r.cidr, n) ELSE << >>
<1>0. /\ Good(nets, file, patched, damaged) /\ nets \in [Labs -> NetMaps] /\ l \in Labs
      /\ file[l] = "ok" /\ hash \in [Labs -> Hashes]
  BY DEF CloudInv, Good, Readable
<1>1. n \in Ids /\ n \in Nat /\ r \in NetRecord /\ x \in Cloud /\ x[1] = l /\ x[2] = n
      /\ At(nets, x) = r /\ x \in RecordsOf(nets, file)
  BY <1>0, Reading, CloudConstants DEF Cloud, Ids, RecordsOf, NetIds, At
<1>2. << >> \in Seq(Quiet)
  OBVIOUS
<1>3. Named(hash, nets, file) /\ \A d \in Names : Agrees(d)
  BY DEF AllAgree
<1>4. ASSUME c \in Owners PROVE route \o write \in Seq(Quiet)
  <2> DEFINE p == Rec(c)
             d == p.bridge
  <2>1. c \in RecordsOf(nets, file) /\ p = At(nets, c) /\ IsOwner(p) /\ p \in NetRecord
        /\ c[1] \in Labs /\ file[c[1]] = "ok" /\ c \in Cloud
    BY <1>0, <1>4, Reading DEF Owners, Records, Readable
  <2>2. d \in Names /\ p.cidr \in SUBSET Nat /\ IsNat(p) /\ ~IsRef(p)
    BY <2>1 DEF NetRecord, Fields, IsOwner, IsNat, IsRef
  <2> HIDE DEF p
  <2>3. c \in HoldersOf(nets, file, d)
    BY <2>1, <2>2 DEF HoldersOf
  <2>4. Agrees(d)
    BY <1>3, <2>2
  <2> HIDE DEF d
  <2>5. HoldersOf(nets, file, d) = {c} /\ host[d].up
    BY <2>3, <2>4 DEF Agrees
  <2>6. p.cidr = Routed(At(nets, c))
    BY <2>1, <2>2 DEF Routed
  <2> DEFINE v == p.cidr
  <2>7. v \in SUBSET Nat /\ v = Routed(At(nets, c))
    BY <2>2, <2>6
  <2> HIDE DEF v
  <2>8. Route(d, v, n) \in Seq(Quiet)
    BY <1>1, <2>1, <2>2, <2>5, <2>7, QuietRoute
  <2>9. route \in Seq(Quiet)
    BY <2>8 DEF d, p, v
  <2>10. Write(c[1], nets[c[1]]) \in Seq(Quiet)
    <3> DEFINE e == Effect("save", c[1], nets[c[1]], 0)
    <3>1. e \in Effects /\ e.do = "save" /\ e.on = c[1] /\ e.arg = nets[c[1]]
      BY <1>0, <2>1 DEF Effect, Effects
    <3>2. Write(c[1], nets[c[1]]) = <<e>>
      BY DEF Write
    <3> HIDE DEF e
    <3>3. e \in Quiet
      BY <2>1, <3>1 DEF Quiet
    <3>4. <<e>> \in Seq(Quiet)
      BY <3>3
    <3> QED BY <3>2, <3>4
  <2>11. write \in Seq(Quiet)
    BY <1>2, <2>10
  <2> HIDE DEF route, write
  <2> QED BY <2>9, <2>11, Joined
<1>5. ASSUME ~Plain(r) PROVE bring \o mine \in Seq(Quiet)
  <2>1. b = <<hash[l], n>> /\ ~IsRef(r) /\ r.cidr \in SUBSET Nat
    BY <1>1, <1>3, <1>5 DEF Named, Plain, NetRecord, Fields
  <2>2. b \in Names /\ x \in HoldersOf(nets, file, b)
    BY <1>0, <1>1, <2>1 DEF Names, HoldersOf
  <2>3. Agrees(b)
    BY <1>3, <2>2
  <2>4. HoldersOf(nets, file, b) = {x} /\ host[b].up /\ host[b].fp = x
    BY <2>2, <2>3 DEF Agrees
  <2>5. Fingerprint(b, x) = "match"
    BY <1>1, <2>4, Matching
  <2>6. bring = << >>
    BY <2>4, <2>5
  <2>7. IsOwner(r) => r.cidr = Routed(At(nets, x))
    BY <1>1 DEF IsOwner, Routed
  <2>8. mine \in Seq(Quiet)
    <3>1. CASE IsOwner(r)
      <4> DEFINE v == r.cidr
                 d == b
      <4>1. v \in SUBSET Nat /\ v = Routed(At(nets, x)) /\ d \in Names
            /\ HoldersOf(nets, file, d) = {x} /\ host[d].up
        BY <2>1, <2>2, <2>4, <2>7, <3>1
      <4> HIDE DEF v, d
      <4>2. Route(d, v, n) \in Seq(Quiet)
        BY <1>1, <4>1, QuietRoute
      <4> QED BY <3>1, <4>2 DEF v, d
    <3>2. CASE ~IsOwner(r)
      BY <1>2, <3>2
    <3> QED BY <3>1, <3>2
  <2> HIDE DEF bring, mine
  <2> QED BY <1>2, <2>6, <2>8, Joined
<1>6. \/ EnsureOne(l, n) = << >>
      \/ c \in Owners /\ EnsureOne(l, n) = route \o write
      \/ ~Plain(r) /\ EnsureOne(l, n) = bring \o mine
  BY DEF EnsureOne, Plain
<1> HIDE DEF route, write, bring, mine, c, r
<1> QED BY <1>2, <1>4, <1>5, <1>6

\* Opening a lab.
LEMMA CalmEnsure ==
  ASSUME CloudInv, AllAgree, NEW l \in Labs, EnsureLabBridges(l)
  PROVE  CalmInv'
<1> DEFINE q == [n \in Ids |-> IF n \in NetIds(l) THEN EnsureOne(l, n) ELSE << >>]
           save == IF \E n \in NetIds(l) : IsNat(nets[l][n]) THEN Write(l, nets[l]) ELSE << >>
           S == Quiet
<1>0. nets \in [Labs -> NetMaps] /\ file \in [Labs -> States]
  BY DEF CloudInv, Good
<1>1. /\ l \in Readable /\ Begin("ensure", l, 0, FlattenSeq(q) \o save, << >>)
      /\ UNCHANGED <<hash, file, nets, host, up>> /\ file[l] = "ok"
  BY DEF EnsureLabBridges, Begin, Readable
<1>2. << >> \in Seq(S)
  BY NoEffect
<1>3. Write(l, nets[l]) \in Seq(S)
  <2> DEFINE e == Effect("save", l, nets[l], 0)
  <2>1. e \in Effects /\ e.do = "save" /\ e.on = l /\ e.arg = nets[l]
    BY <1>0 DEF Effect, Effects
  <2>2. Write(l, nets[l]) = <<e>>
    BY DEF Write
  <2> HIDE DEF e
  <2>3. e \in S
    BY <1>1, <2>1 DEF Quiet
  <2>4. <<e>> \in Seq(S)
    BY <2>3
  <2> QED BY <2>2, <2>4
<1>4. save \in Seq(S)
  BY <1>2, <1>3
<1>5. q \in [1..MaxNet -> Seq(S)]
  <2>1. ASSUME NEW n \in Ids PROVE q[n] \in Seq(S)
    <3>1. CASE n \in NetIds(l)
      BY <1>1, <3>1, EnsureOneQuiet
    <3>2. CASE n \notin NetIds(l)
      BY <1>2, <3>2
    <3> QED BY <3>1, <3>2
  <2> HIDE DEF S
  <2> QED BY <2>1 DEF Ids
<1> HIDE DEF q, S, save
<1>6. FlattenSeq(q) \in Seq(S)
  BY <1>5, FlattenTyped, CloudConstants
<1> DEFINE todo == FlattenSeq(q) \o save
<1>7. todo \in Seq(S) /\ Begin("ensure", l, 0, todo, << >>)
  BY <1>1, <1>4, <1>6, Joined
<1> HIDE DEF todo
<1>8. todo \in Seq(Effects) /\ Leads(hash, nets, file, nets, file, host, todo)
  BY <1>7, QuietLeads DEF S
<1> QED BY <1>0, <1>1, <1>7, <1>8, CalmBegin

\* What holds of nothing, and of one more sequence if of those before it,
\* holds of the whole.
LEMMA FlattenInduction ==
  ASSUME NEW S, NEW N \in Nat, NEW q \in [1..N -> Seq(S)], NEW R, <<0, << >>>> \in R,
         \A m \in Nat, s \in Seq(S) : m + 1 <= N /\ <<m, s>> \in R => <<m + 1, s \o q[m + 1]>> \in R
  PROVE  FlattenSeq(q) \in Seq(S) /\ <<N, FlattenSeq(q)>> \in R
<1>0. q \in Seq(Seq(S)) /\ Len(q) = N /\ FlattenSeq(q) \in Seq(S)
  BY FlattenTyped
<1>1. CASE N = 0
  <2>1. q = << >>
    BY <1>0, <1>1
  <2>2. FlattenSeq(q) = << >>
    BY <1>0, <1>1, <2>1 DEF FlattenSeq
  <2> QED BY <1>0, <1>1, <2>2
<1>2. CASE N # 0
  <2>1. \E g : FlatSteps(g, q, N)
    BY FlatExists
  <2>2. PICK flat : FlatSteps(flat, q, N) /\ FlattenSeq(q) = flat[N]
    BY <1>0, <1>2, <2>1 DEF FlattenSeq, FlatSteps, FlatStep
  <2>3. \A m \in 1..N : flat[m] = FlatStep(flat, q, m)
    BY <2>2 DEF FlatSteps
  <2> DEFINE G == {m \in Nat : m + 1 <= N => flat[m + 1] \in Seq(S) /\ <<m + 1, flat[m + 1]>> \in R}
  <2>4. 0 \in G
    <3>1. 0 + 1 = 1 /\ 1 \in 1..N /\ 0 + 1 <= N
      BY <1>2
    <3>2. flat[1] = q[1] /\ q[1] \in Seq(S)
      BY <2>3, <3>1 DEF FlatStep
    <3> DEFINE s == << >>
    <3>3. s \in Seq(S) /\ <<0, s>> \in R
      OBVIOUS
    <3>4. s \o q[1] = q[1]
      BY <3>2
    <3> HIDE DEF s
    <3>5. <<0 + 1, s \o q[0 + 1]>> \in R
      BY <3>1, <3>3
    <3>6. <<1, q[1]>> \in R
      BY <3>1, <3>4, <3>5
    <3> QED BY <3>1, <3>2, <3>6
  <2>5. ASSUME NEW m \in Nat, m \in G PROVE m + 1 \in G
    <3> SUFFICES ASSUME m + 1 + 1 <= N
                 PROVE  flat[m + 1 + 1] \in Seq(S) /\ <<m + 1 + 1, flat[m + 1 + 1]>> \in R
      OBVIOUS
    <3> DEFINE i == m + 1 + 1
               j == m + 1
    <3>1. /\ flat[j] \in Seq(S) /\ <<j, flat[j]>> \in R /\ i \in 1..N /\ i # 1 /\ i - 1 = j
          /\ i = j + 1 /\ j \in Nat /\ j + 1 <= N
      BY <2>5
    <3> HIDE DEF i, j
    <3>2. flat[i] = FlatStep(flat, q, i)
      BY <2>3, <3>1
    <3>3. flat[i] = flat[j] \o q[i] /\ q[i] \in Seq(S)
      BY <3>1, <3>2 DEF FlatStep
    <3> DEFINE k == flat[j]
               x == q[i]
    <3>4. k \in Seq(S) /\ x \in Seq(S) /\ <<j, k>> \in R /\ x = q[j + 1]
      BY <3>1, <3>3
    <3>5. <<j + 1, k \o q[j + 1]>> \in R
      BY <3>1, <3>4
    <3>6. <<i, k \o x>> \in R
      BY <3>1, <3>4, <3>5
    <3>7. flat[i] = k \o x
      BY <3>3
    <3> HIDE DEF k, x
    <3>8. k \o x \in Seq(S)
      BY <3>4
    <3>9. flat[i] \in Seq(S) /\ <<i, flat[i]>> \in R
      BY <3>6, <3>7, <3>8
    <3> QED BY <3>9 DEF i
  <2> HIDE DEF G
  <2>6. \A m \in Nat : m \in G
    BY <2>4, <2>5, NumberInduction
  <2>7. N - 1 \in Nat /\ N - 1 + 1 = N
    BY <1>2
  <2>8. N - 1 \in G
    BY <2>6, <2>7
  <2>9. <<N, flat[N]>> \in R
    BY <2>7, <2>8 DEF G
  <2> QED BY <1>0, <2>2, <2>9
<1> QED BY <1>1, <1>2

\* The effects s tear down the networks of lab l up to m, each of them once.
Down(l, m, s) ==
  /\ DropsOnce(s)
  /\ \A e \in ToSet(s) :
       /\ e.do \in {"unroute", "drop"}
       /\ \E k \in NetIds(l) : k <= m /\ ~Plain(nets[l][k]) /\ e.on = nets[l][k].bridge
  /\ \A k \in NetIds(l) : k <= m /\ ~Plain(nets[l][k]) =>
       /\ Pend(s, "drop", nets[l][k].bridge)
       /\ IsNat(nets[l][k]) => Pend(s, "unroute", nets[l][k].bridge)

\* One more network is torn down.
LEMMA DownStep ==
  ASSUME CloudInv, AllAgree, NEW l \in Readable, NEW m \in Nat, m + 1 \in Ids,
         NEW s \in Seq(Effects), Down(l, m, s), NEW t,
         t = IF m + 1 \in NetIds(l) THEN Teardown(nets[l][m + 1]) ELSE << >>
  PROVE  s \o t \in Seq(Effects) /\ Down(l, m + 1, s \o t)
<1> DEFINE n == m + 1
           r == nets[l][n]
           b == r.bridge
           u == s \o t
<1>0. /\ Good(nets, file, patched, damaged) /\ l \in Labs /\ file[l] = "ok" /\ NetIds(l) \in SUBSET Ids
      /\ \A k \in NetIds(l) : nets[l][k] \in NetRecord
  <2>1. Good(nets, file, patched, damaged) /\ l \in Labs /\ file[l] = "ok"
    BY DEF CloudInv, Readable
  <2> QED BY <2>1, Reading
<1>1. \A k \in NetIds(l) : /\ k \in Nat /\ (k <= n <=> k <= m \/ k = n) /\ ~(n <= m)
                           /\ ~Plain(nets[l][k]) => nets[l][k].bridge = <<hash[l], k>>
  <2> SUFFICES ASSUME NEW k \in NetIds(l)
               PROVE  /\ k \in Nat /\ (k <= n <=> k <= m \/ k = n) /\ ~(n <= m)
                      /\ ~Plain(nets[l][k]) => nets[l][k].bridge = <<hash[l], k>>
    OBVIOUS
  <2>1. k \in Ids /\ k \in Nat
    BY <1>0, CloudConstants DEF Ids
  <2> DEFINE x == <<l, k>>
  <2>2. x \in RecordsOf(nets, file) /\ x[1] = l /\ x[2] = k /\ At(nets, x) = nets[l][k]
    BY <1>0, <2>1 DEF RecordsOf, Cloud, NetIds, At
  <2> HIDE DEF x
  <2>3. ~Plain(nets[l][k]) => nets[l][k].bridge = <<hash[l], k>>
    BY <2>2 DEF AllAgree, Named
  <2> QED BY <2>1, <2>3
<1>2. /\ t \in Seq(Effects) /\ DropsOnce(t)
      /\ \A e \in ToSet(t) : /\ e.do \in {"unroute", "drop"}
                             /\ n \in NetIds(l) /\ ~Plain(r) /\ e.on = b
      /\ n \in NetIds(l) /\ ~Plain(r) => Pend(t, "drop", b) /\ (IsNat(r) => Pend(t, "unroute", b))
  <2>1. CASE n \in NetIds(l)
    <3>1. t = Teardown(r) /\ r \in NetRecord
      BY <1>0, <2>1
    <3> HIDE DEF r
    <3>2. /\ t \in Seq(Effects) /\ DropsOnce(t) /\ (Plain(r) => t = << >>)
          /\ ~Plain(r) => /\ \A e \in ToSet(t) : e.on = r.bridge /\ e.do \in {"unroute", "drop"}
                          /\ Pend(t, "drop", r.bridge)
                          /\ IsNat(r) => Pend(t, "unroute", r.bridge)
      BY <3>1, TeardownFacts
    <3>3. Plain(r) => ToSet(t) = {}
      BY <3>2, SetOfOne
    <3> QED BY <2>1, <3>2, <3>3
  <2>2. CASE n \notin NetIds(l)
    <3>1. t = << >> /\ t \in Seq(Effects) /\ ToSet(t) = {} /\ DropsOnce(t)
      BY <2>2, SetOfOne DEF DropsOnce
    <3> QED BY <2>2, <3>1
  <2> QED BY <2>1, <2>2
<1> HIDE DEF n, r, b
<1>3. u \in Seq(Effects) /\ ToSet(u) = ToSet(s) \cup ToSet(t)
  <2>1. t \in Seq(Effects)
    BY <1>2
  <2>2. s \in Seq(Effects) /\ u = s \o t
    OBVIOUS
  <2> HIDE DEF u
  <2> QED BY <2>1, <2>2, JoinSet, Zenon
<1>4. /\ DropsOnce(s)
      /\ \A e \in ToSet(s) :
           /\ e.do \in {"unroute", "drop"}
           /\ \E k \in NetIds(l) : k <= m /\ ~Plain(nets[l][k]) /\ e.on = nets[l][k].bridge
      /\ \A k \in NetIds(l) : k <= m /\ ~Plain(nets[l][k]) =>
           /\ Pend(s, "drop", nets[l][k].bridge)
           /\ IsNat(nets[l][k]) => Pend(s, "unroute", nets[l][k].bridge)
  BY DEF Down
<1>5. ASSUME NEW d \in ToSet(s), NEW e \in ToSet(t) PROVE d.on # e.on
  <2>1. PICK k \in NetIds(l) : k <= m /\ ~Plain(nets[l][k]) /\ d.on = nets[l][k].bridge
    BY <1>4
  <2>2. d.on = <<hash[l], k>> /\ k # n /\ n \in NetIds(l)
    BY <1>1, <1>2, <2>1
  <2>3. e.on = <<hash[l], n>>
    BY <1>1, <1>2 DEF b, r
  <2> QED BY <2>2, <2>3
<1>6. DropsOnce(u)
  BY <1>2, <1>4, <1>5, DropsJoin
<1> HIDE DEF u
<1>7. ASSUME NEW e \in ToSet(u)
      PROVE  /\ e.do \in {"unroute", "drop"}
             /\ \E k \in NetIds(l) : k <= n /\ ~Plain(nets[l][k]) /\ e.on = nets[l][k].bridge
  <2>1. CASE e \in ToSet(s)
    BY <1>1, <1>4, <2>1
  <2>2. CASE e \in ToSet(t)
    BY <1>1, <1>2, <2>2 DEF b, r
  <2> QED BY <1>3, <2>1, <2>2
<1>8. ASSUME NEW k \in NetIds(l), k <= n, ~Plain(nets[l][k])
      PROVE  /\ Pend(u, "drop", nets[l][k].bridge)
             /\ IsNat(nets[l][k]) => Pend(u, "unroute", nets[l][k].bridge)
  <2>1. \A do, d : Pend(s, do, d) \/ Pend(t, do, d) => Pend(u, do, d)
    BY <1>3 DEF Pend
  <2>2. CASE k <= m
    BY <1>4, <1>8, <2>1, <2>2
  <2>3. CASE k = n
    BY <1>2, <1>8, <2>1, <2>3 DEF b, r
  <2> QED BY <1>1, <1>8, <2>2, <2>3
<1>9. Down(l, n, u)
  BY <1>6, <1>7, <1>8 DEF Down
<1> QED BY <1>3, <1>9 DEF u, n

\* The networks of a lab, one after the other.
LEMMA AllDown ==
  ASSUME CloudInv, AllAgree, NEW l \in Readable, NEW q,
         q = [n \in Ids |-> IF n \in NetIds(l) THEN Teardown(nets[l][n]) ELSE << >>]
  PROVE  FlattenSeq(q) \in Seq(Effects) /\ Down(l, MaxNet, FlattenSeq(q))
<1>0. NetIds(l) \in SUBSET Ids /\ \A k \in NetIds(l) : nets[l][k] \in NetRecord
  <2>1. Good(nets, file, patched, damaged) /\ l \in Labs
    BY DEF CloudInv, Readable
  <2> QED BY <2>1, Reading
<1>1. MaxNet \in Nat
  BY CloudConstants
<1>2. q \in [1..MaxNet -> Seq(Effects)]
  <2>1. ASSUME NEW n \in Ids PROVE q[n] \in Seq(Effects)
    <3>1. CASE n \in NetIds(l)
      <4>1. Teardown(nets[l][n]) \in Seq(Effects)
        BY <1>0, <3>1, TeardownFacts
      <4> QED BY <3>1, <4>1
    <3>2. CASE n \notin NetIds(l)
      BY <3>2
    <3> QED BY <3>1, <3>2
  <2>2. q = [n \in Ids |-> q[n]]
    OBVIOUS
  <2> QED BY <2>1, <2>2 DEF Ids
<1> DEFINE R == {p \in Nat \X Seq(Effects) : Down(l, p[1], p[2])}
           none == << >>
<1>3. <<0, none>> \in R
  <2>1. none \in Seq(Effects) /\ ToSet(none) = {} /\ DropsOnce(none)
    BY SetOfOne DEF DropsOnce
  <2>2. \A k \in NetIds(l) : ~(k <= 0)
    BY <1>0, CloudConstants DEF Ids
  <2> HIDE DEF none
  <2>3. Down(l, 0, none)
    BY <2>1, <2>2 DEF Down
  <2> QED BY <2>1, <2>3
<1>4. ASSUME NEW m \in Nat, NEW s \in Seq(Effects), m + 1 <= MaxNet, <<m, s>> \in R
      PROVE  <<m + 1, s \o q[m + 1]>> \in R
  <2> DEFINE t == q[m + 1]
  <2>1. m + 1 \in Ids /\ m + 1 \in Nat
    BY <1>1, <1>4 DEF Ids
  <2>2. t = IF m + 1 \in NetIds(l) THEN Teardown(nets[l][m + 1]) ELSE << >>
    BY <2>1
  <2>3. Down(l, m, s)
    BY <1>4
  <2> HIDE DEF t
  <2>4. s \o t \in Seq(Effects) /\ Down(l, m + 1, s \o t)
    BY <2>1, <2>2, <2>3, DownStep
  <2> DEFINE u == s \o t
             n == m + 1
  <2>5. u \in Seq(Effects) /\ n \in Nat /\ Down(l, n, u)
    BY <2>1, <2>4
  <2> HIDE DEF u, n
  <2>6. <<n, u>> \in R
    BY <2>5
  <2> QED BY <2>6 DEF u, n, t
<1> HIDE DEF R
<1>5. FlattenSeq(q) \in Seq(Effects) /\ <<MaxNet, FlattenSeq(q)>> \in R
  <2>1. \A m \in Nat, s \in Seq(Effects) :
          m + 1 <= MaxNet /\ <<m, s>> \in R => <<m + 1, s \o q[m + 1]>> \in R
    BY <1>4
  <2>2. <<0, << >>>> \in R
    BY <1>3
  <2> QED BY <1>1, <1>2, <2>1, <2>2, FlattenInduction
<1> DEFINE f == FlattenSeq(q)
<1>6. f \in Seq(Effects) /\ <<MaxNet, f>> \in R
  BY <1>5
<1> HIDE DEF f
<1>7. Down(l, MaxNet, f)
  BY <1>6 DEF R
<1> QED BY <1>6, <1>7 DEF f

\* delete_lab tears down what the lab has.
LEMMA CalmDeleteLab ==
  ASSUME BridgeInv, AllAgree, NEW l \in Labs, DeleteLab(l), file[l] = "ok"
  PROVE  CalmInv'
<1> DEFINE q == [n \in Ids |-> IF n \in NetIds(l) THEN Teardown(nets[l][n]) ELSE << >>]
           f == FlattenSeq(q)
           ul == Effect("unlink", l, None, 0)
           w == <<ul>>
           todo == f \o w
           N == Put(l, << >>)
           F == [file EXCEPT ![l] = "gone"]
<1>1. Begin("delete", l, 0, todo, << >>) /\ UNCHANGED <<hash, file, nets, host, up>>
  BY DEF DeleteLab, Begin
<1>2. CloudInv /\ Good(nets, file, patched, damaged) /\ hash \in [Labs -> Hashes]
      /\ nets \in [Labs -> NetMaps] /\ file \in [Labs -> States] /\ l \in Readable
  BY DEF BridgeInv, CloudInv, Good, Readable
<1>3. f \in Seq(Effects) /\ Down(l, MaxNet, f)
  BY <1>2, AllDown
<1>4. ul \in Effects /\ ul.do = "unlink" /\ ul.on = l
  BY DEF Effect, Effects
<1>5. /\ N \in [Labs -> NetMaps] /\ F \in [Labs -> States] /\ F[l] = "gone"
      /\ \A k \in Labs : k # l => N[k] = nets[k] /\ F[k] = file[k]
      /\ N = NetsWith(ul, nets) /\ F = FileWith(ul, file)
  BY <1>2, <1>4, NothingMap DEF Put, States, NetsWith, FileWith
<1> HIDE DEF q, f, ul, N, F
<1>6. w \in Seq(Effects) /\ ToSet(w) = {ul} /\ Len(w) = 1 /\ w[1] = ul
  BY <1>4, OneTyped
<1> HIDE DEF w
<1>7. todo \in Seq(Effects) /\ ToSet(todo) = ToSet(f) \cup {ul}
  BY <1>3, <1>6, JoinTyped
<1>8. /\ DropsOnce(f)
      /\ \A e \in ToSet(f) :
           /\ e.do \in {"unroute", "drop"}
           /\ \E k \in NetIds(l) : ~Plain(nets[l][k]) /\ e.on = nets[l][k].bridge
      /\ \A k \in NetIds(l) : ~Plain(nets[l][k]) =>
           /\ Pend(f, "drop", nets[l][k].bridge)
           /\ IsNat(nets[l][k]) => Pend(f, "unroute", nets[l][k].bridge)
  <2>1. \A k \in NetIds(l) : k <= MaxNet
    BY <1>2, Reading, CloudConstants DEF Ids
  <2> QED BY <1>3, <2>1 DEF Down
<1>9. Named(hash, nets, file) /\ \A d \in Names : Agrees(d)
  BY DEF AllAgree
<1>10. ASSUME NEW c \in Cloud
       PROVE  /\ c \in RecordsOf(N, F) <=> c \in RecordsOf(nets, file) /\ c[1] # l
              /\ c[1] # l => At(N, c) = At(nets, c)
  <2>1. c[1] \in Labs
    BY DEF Cloud
  <2>2. CASE c[1] = l
    BY <1>5, <2>2 DEF RecordsOf
  <2>3. CASE c[1] # l
    BY <1>5, <2>1, <2>3 DEF RecordsOf, At
  <2> QED BY <2>2, <2>3
<1>11. \A c \in RecordsOf(nets, file) : c \in Cloud
  BY DEF RecordsOf
<1>12. Named(hash, N, F)
  <2>1. \A c \in RecordsOf(N, F) : c \in RecordsOf(nets, file) /\ At(N, c) = At(nets, c)
    BY <1>10 DEF RecordsOf
  <2> QED BY <1>9, <2>1 DEF Named
<1>13. ASSUME NEW d
       PROVE  \A c : c \in HoldersOf(N, F, d) <=> c \in HoldersOf(nets, file, d) /\ c[1] # l
  BY <1>10, <1>11 DEF HoldersOf, RecordsOf
<1>14. IsFileEffect(ul)
  BY <1>4 DEF IsFileEffect
<1>15. ASSUME NEW k \in NetIds(l), ~Plain(nets[l][k])
       PROVE  LET b == nets[l][k].bridge IN
              b \in Names /\ <<l, k>> \in HoldersOf(nets, file, b)
  <2> DEFINE x == <<l, k>>
             r == nets[l][k]
  <2>1. k \in Ids
    BY <1>2, Reading
  <2>2. x \in RecordsOf(nets, file) /\ x[1] = l /\ x[2] = k /\ At(nets, x) = r
    BY <1>2, <2>1 DEF RecordsOf, Cloud, NetIds, At, Readable
  <2> HIDE DEF x, r
  <2>3. r.bridge = <<hash[l], k>> /\ ~IsRef(r)
    BY <1>9, <1>15, <2>2 DEF Named, Plain, r
  <2>4. r.bridge \in Names /\ x \in HoldersOf(nets, file, r.bridge)
    BY <1>2, <2>1, <2>2, <2>3 DEF Names, HoldersOf
  <2> QED BY <2>4 DEF r, x
<1>16. ASSUME NEW e \in ToSet(f)
       PROVE  /\ e.do \in {"unroute", "drop"} /\ ~IsFileEffect(e) /\ e.on \in Names
              /\ \E c \in HoldersOf(nets, file, e.on) : c[1] = l
  <2>1. PICK k \in NetIds(l) : ~Plain(nets[l][k]) /\ e.on = nets[l][k].bridge
    BY <1>8
  <2>2. e.on \in Names /\ <<l, k>> \in HoldersOf(nets, file, e.on)
    BY <1>15, <2>1
  <2>3. <<l, k>>[1] = l
    OBVIOUS
  <2> QED BY <1>8, <2>2, <2>3 DEF IsFileEffect
<1>17. Settles(N, F, nets, file, todo)
  <2>1. \A e \in ToSet(todo) : IsFileEffect(e) => e = ul
    BY <1>7, <1>16
  <2>2. ul \in ToSet(todo)
    BY <1>7
  <2> QED BY <1>4, <1>5, <1>14, <2>1, <2>2 DEF Settles
<1>18. Orderly(todo, host)
  <2>1. DropsOnce(w)
    BY <1>6 DEF DropsOnce
  <2>2. DropsOnce(todo)
    BY <1>3, <1>4, <1>6, <1>8, <2>1, DropsJoin
  <2> HIDE DEF todo
  <2>3. \A e \in ToSet(todo) : e.do \in {"unlink", "unroute", "drop"} /\ (IsFileEffect(e) \/ e.on \in Names)
    BY <1>4, <1>7, <1>14, <1>16
  <2>4. \A i \in 1..Len(todo) : todo[i] \in ToSet(todo)
    BY DEF ToSet
  <2>5. RoutesReady(todo, host)
    BY <2>3, <2>4 DEF RoutesReady
  <2> QED BY <2>2, <2>3, <2>5 DEF Orderly
<1>19. ASSUME NEW d \in Names PROVE Fits(N, F, d, todo, host)
  <2>1. Agrees(d)
    BY <1>9
  <2>2. ASSUME NEW c \in HoldersOf(nets, file, d), c[1] = l PROVE Fits(N, F, d, todo, host)
    <3> DEFINE r == At(nets, c)
    <3>1. c \in RecordsOf(nets, file) /\ r.bridge = d /\ ~IsRef(r)
      BY DEF HoldersOf
    <3>2. c[2] \in NetIds(l) /\ r = nets[l][c[2]]
      BY <2>2, <3>1 DEF RecordsOf, NetIds, At
    <3>3. r.type # "bridge_cloud"
      <4>1. HostBr \notin Names
        BY CloudConstants DEF Names, Ids
      <4> QED BY <1>9, <3>1, <4>1 DEF Named
    <3>4. ~Plain(r)
      BY <3>1, <3>3 DEF Plain
    <3>5. HoldersOf(nets, file, d) = {c} /\ host[d].up /\ host[d].routed = Routed(r)
      BY <2>1, <2>2 DEF Agrees
    <3> HIDE DEF r, todo
    <3>6. Pend(todo, "drop", d) /\ (IsNat(r) => Pend(todo, "unroute", d))
      <4>1. Pend(f, "drop", d) /\ (IsNat(r) => Pend(f, "unroute", d))
        BY <1>8, <3>1, <3>2, <3>4
      <4> QED BY <1>7, <4>1 DEF Pend
    <3>7. \A e \in ToSet(todo) : e.on = d => IsFileEffect(e) \/ e.do \in {"unroute", "drop"}
      BY <1>7, <1>14, <1>16
    <3>8. Lowered(d, todo, host)
      BY <3>5, <3>6, <3>7, TornDown
    <3>9. HoldersOf(N, F, d) = {}
      BY <1>13, <2>2, <3>5
    <3> QED BY <3>8, <3>9 DEF Fits
  <2>3. CASE \A c \in HoldersOf(nets, file, d) : c[1] # l
    <3>1. HoldersOf(N, F, d) = HoldersOf(nets, file, d)
      BY <1>13, <2>3
    <3>2. \A c \in HoldersOf(nets, file, d) : At(N, c) = At(nets, c)
      BY <1>10, <1>11, <2>3 DEF HoldersOf
    <3>3. \A e \in ToSet(todo) : e.on = d => IsFileEffect(e)
      BY <1>7, <1>14, <1>16, <2>3
    <3> HIDE DEF todo
    <3> QED BY <2>1, <3>1, <3>2, <3>3, UntouchedFits
  <2> QED BY <2>2, <2>3
<1> HIDE DEF todo
<1>20. Leads(hash, N, F, nets, file, host, todo)
  BY <1>12, <1>17, <1>18, <1>19 DEF Leads
<1>21. todo \in Seq(Effects) /\ Begin("delete", l, 0, todo, << >>)
  BY <1>1, <1>7 DEF todo
<1> QED BY <1>1, <1>2, <1>5, <1>20, <1>21, CalmBegin

\* Every step.
LEMMA CalmNext == BridgeInv /\ CalmInv /\ [Next]_vars => CalmInv'
<1> SUFFICES ASSUME BridgeInv, CalmInv, [Next]_vars, spent' = 0, leaked' = {}
             PROVE  CalmInv'
  BY DEF CalmInv
<1>0. CloudInv /\ HostInv /\ spent \in Nat
  BY DEF BridgeInv, HostInv
<1>1. CASE UNCHANGED vars
  BY <1>1 DEF CalmInv, vars
<1>2. CASE Step
  BY <1>0, <1>2, CalmStep
<1>3. CASE StepFails
  <2>1. spent = 0 /\ leaked = {} /\ op.todo # << >> /\ ~Feasible(Head(op.todo))
    BY <1>0, <1>3 DEF StepFails, history
  <2> QED BY <1>0, <2>1, CalmFeasible
<1>4. CASE Crash \/ Reboot
  BY <1>0, <1>4 DEF Crash, Reboot, Dies
<1>5. CASE Startup
  BY <1>5 DEF Startup, CalmInv, history
<1>6. ASSUME op = Idle, spent = 0, leaked = {} PROVE AllAgree
  BY <1>0, <1>6, CalmAtRest
<1>7. CASE OtherHandler
  <2> SUFFICES ASSUME NEW l \in Labs,
                      \/ CreateLab(l) \/ EnsureLabBridges(l) \/ DeleteLab(l) \/ RemoveFile(l)
                      \/ \E n \in NetIds(l) :
                           \/ DeleteNetwork(l, n)
                           \/ \E type \in {"linux_bridge", "nat_cloud"}, cidr \in Asked :
                                PatchNetwork(l, n, type, cidr)
               PROVE  CalmInv'
    BY <1>7 DEF OtherHandler
  <2>1. CASE CreateLab(l)
    <3>1. AllAgree
      BY <1>6, <2>1 DEF CreateLab, Begin, history
    <3> QED BY <1>0, <2>1, <3>1, CalmCreateLab
  <2>2. CASE EnsureLabBridges(l)
    <3>1. AllAgree
      BY <1>6, <2>2 DEF EnsureLabBridges, Begin, history
    <3> QED BY <1>0, <2>2, <3>1, CalmEnsure
  <2>3. CASE DeleteLab(l)
    <3>1. op = Idle /\ spent = 0 /\ file[l] = "ok" /\ leaked = {}
      BY <2>3 DEF DeleteLab, Begin
    <3>2. AllAgree
      BY <1>6, <3>1
    <3> QED BY <2>3, <3>1, <3>2, CalmDeleteLab
  <2>4. CASE RemoveFile(l)
    BY <2>4 DEF RemoveFile
  <2>5. ASSUME NEW n \in NetIds(l), DeleteNetwork(l, n) PROVE CalmInv'
    <3>1. AllAgree
      BY <1>6, <2>5 DEF DeleteNetwork, Begin, history
    <3> QED BY <2>5, <3>1, CalmDelete
  <2>6. ASSUME NEW n \in NetIds(l), NEW type, NEW cidr, PatchNetwork(l, n, type, cidr) PROVE CalmInv'
    <3>1. spent' = spent + 1
      BY <2>6 DEF PatchNetwork
    <3> QED BY <1>0, <3>1
  <2> QED BY <2>1, <2>2, <2>3, <2>4, <2>5, <2>6
<1>8. CASE CreateHandler
  <2>1. PICK l \in Labs, r \in NetRecord : Creates(l, r)
    BY <1>0, <1>8, CreateHandlerBegins
  <2>2. AllAgree
    BY <1>6, <2>1 DEF Creates, CreateRecord, Begin, history
  <2> QED BY <2>1, <2>2, CalmCreate
<1> QED BY <1>1, <1>2, <1>3, <1>4, <1>5, <1>7, <1>8, NextKinds

\* No lab and no bridge is there at first.
LEMMA CalmInit == Init => CalmInv
<1> SUFFICES ASSUME Init PROVE CalmInv
  OBVIOUS
<1> DEFINE none == << >>
<1>1. up /\ op.todo = none /\ CloudInv
  BY InitHolds, IdleTyped DEF Init
<1>2. nets \in [Labs -> NetMaps] /\ file \in [Labs -> States]
  BY <1>1 DEF CloudInv, Good
<1>3. none \in Seq(Effects) /\ ToSet(none) = {}
  BY SetOfOne
<1>4. RecordsOf(nets, file) = {}
  BY DEF Init, RecordsOf, Cloud
<1>5. Named(hash, nets, file) /\ \A b : HoldersOf(nets, file, b) = {}
  BY <1>4 DEF Named, HoldersOf
<1>6. \A b \in Names : host[b] = Absent
  BY DEF Init
<1> HIDE DEF none
<1>7. Settles(nets, file, nets, file, none)
  BY <1>3 DEF Settles
<1>8. Orderly(none, host)
  BY <1>3, FilesOrderly
<1>9. ASSUME NEW b \in Names PROVE Fits(nets, file, b, none, host)
  <2>1. Agrees(b)
    BY <1>5, <1>6 DEF Agrees
  <2> QED BY <1>3, <1>5, <2>1, UntouchedFits
<1>10. Leads(hash, nets, file, nets, file, host, none)
  BY <1>5, <1>7, <1>8, <1>9 DEF Leads
<1> QED BY <1>1, <1>2, <1>10 DEF CalmInv

\* HostMatchesLabs: as long as no host command failed and nothing crashed, no
\* PATCH interfered and no lab was removed without its teardown, each bridge
\* belongs, between two handlers, to one network and carries its fingerprint
\* and its NAT, or is not there at all.
THEOREM HostAgrees == Spec => []HostMatchesLabs
<1>1. Init => BridgeInv /\ CalmInv
  BY BridgeInit, CalmInit
<1>2. BridgeInv /\ CalmInv /\ [Next]_vars => BridgeInv' /\ CalmInv'
  BY NextKeeps, HostNext, CreateNext, CalmNext DEF BridgeInv
<1>3. BridgeInv /\ CalmInv => HostMatchesLabs
  BY CalmMatches DEF BridgeInv
<1> QED BY <1>1, <1>2, <1>3, PTL DEF Spec

------------------------------------------------------------------------------
(***************************************************************************)
(* ensure_lab_bridges, until one of its commands fails: the effects to     *)
(* come bring every bridge of the lab up, give it a fingerprint and route  *)
(* its subnet, whatever state the host was in when the lab was opened.     *)
(***************************************************************************)

\* What ensure_lab_bridges of lab l is made of: rewrites of labs as they are,
\* the bringing up of its own bridges, and the addresses of owned clouds.
RepairsIn(l, N, F) ==
  {e \in Effects :
     \/ e.do = "save" /\ e.on \in Labs /\ F[e.on] = "ok" /\ e.arg = N[e.on]
     \/ /\ e.do \in {"add", "own"} /\ e.net \in DOMAIN N[l] /\ ~Plain(N[l][e.net])
        /\ e.on = N[l][e.net].bridge /\ (e.do = "own" => e.arg = <<l, e.net>>)
     \/ /\ e.do = "route" /\ e.on \in Names
        /\ \E c \in HoldersOf(N, F, e.on) : e.arg = At(N, c).cidr}

\* Among the effects s there is one of this kind for network n.
Ours(s, do, b, n) == \E e \in ToSet(s) : e.do = do /\ e.on = b /\ e.net = n

\* The address of a network of lab l finds its bridge; that of a reference
\* may not.
AddsFirst(l, s, N, H) ==
  \A i \in 1..Len(s) : s[i].do = "route" /\ ~Plain(N[l][s[i].net]) =>
    H[s[i].on].up \/ \E j \in 1..(i - 1) : s[j].do = "add" /\ s[j].on = s[i].on

\* Network n of lab l, record r, will have its bridge, with a fingerprint; and
\* with its subnet, unless the bridge belongs to another one.
Mending(l, n, r, s, N, F, H) ==
  LET b == r.bridge
      c == <<l, n>>
  IN /\ H[b].up \/ Ours(s, "add", b, n)
     /\ H[b].fp # None \/ Ours(s, "own", b, n)
     /\ HoldersOf(N, F, b) = {c} /\ IsOwner(r) /\ r.cidr # {} =>
          \/ H[b].routed = r.cidr \/ Ours(s, "route", b, n)
          \/ H[b].fp \notin {None, c} /\ ~Ours(s, "own", b, n)

EnsureInv ==
  op.kind = "ensure" /\ op.clean =>
    /\ op.lab \in Labs /\ file[op.lab] = "ok"
    /\ op.todo \in Seq(RepairsIn(op.lab, nets, file)) /\ op.todo # << >>
    /\ AddsFirst(op.lab, op.todo, nets, host)
    /\ \A n \in DOMAIN nets[op.lab] : ~Plain(nets[op.lab][n]) =>
         Mending(op.lab, n, nets[op.lab][n], op.todo, nets, file, host)

\* More effects, none of which claims the bridge, do not disturb it.
LEMMA MendingMore ==
  ASSUME NEW l, NEW n, NEW r, NEW s, NEW u, NEW N, NEW F, NEW H, Mending(l, n, r, s, N, F, H),
         ToSet(s) \subseteq ToSet(u),
         \A e \in ToSet(u) : e.do = "own" /\ e.net = n => e \in ToSet(s)
  PROVE  Mending(l, n, r, u, N, F, H)
<1>1. \A do, b : Ours(s, do, b, n) => Ours(u, do, b, n)
  BY DEF Ours
<1>2. \A b : Ours(u, "own", b, n) => Ours(s, "own", b, n)
  BY DEF Ours
<1> QED BY <1>1, <1>2 DEF Mending

\* Two networks on one bridge are more than one.
LEMMA MoreThanOne ==
  ASSUME NEW b, NEW c \in Holders(b), Holders(b) # {c}
  PROVE  Cardinality(Holders(b)) > 1
<1> DEFINE S == Holders(b)
<1>1. IsFiniteSet(Ids)
  BY FS_Interval, CloudConstants DEF Ids
<1>2. IsFiniteSet(Cloud)
  BY <1>1, FiniteLabs, FS_Product DEF Cloud
<1>3. S \subseteq Cloud
  BY DEF Holders, Records
<1>4. IsFiniteSet(S)
  BY <1>2, <1>3, FS_Subset
<1> HIDE DEF S
<1>5. PICK d \in S : d # c
  BY DEF S
<1>6. c \in S
  BY DEF S
<1> DEFINE T == {c}
<1>7. IsFiniteSet(T) /\ Cardinality(T) = 1 /\ d \notin T /\ T \cup {d} \subseteq S
  BY <1>5, <1>6, FS_Singleton
<1> HIDE DEF T
<1>8. Cardinality(T \cup {d}) = 2
  BY <1>7, FS_AddElement
<1>9. Cardinality(T \cup {d}) <= Cardinality(S) /\ Cardinality(S) \in Nat
  BY <1>4, <1>7, FS_Subset, FS_CardinalityType
<1> QED BY <1>8, <1>9 DEF S

\* Addresses keep finding their bridges.
LEMMA AddsFirstStep ==
  ASSUME NEW l, NEW N, NEW F, NEW s \in Seq(RepairsIn(l, N, F)), s # << >>,
         NEW H, NEW K, AddsFirst(l, s, N, H), HostMoved(Head(s), H, K)
  PROVE  AddsFirst(l, Tail(s), N, K)
<1> DEFINE e == Head(s)
           t == Tail(s)
           S == RepairsIn(l, N, F)
<1>1. /\ e = s[1] /\ e \in S /\ Len(s) \in Nat \ {0} /\ Len(t) = Len(s) - 1
      /\ \A i \in 1..(Len(s) - 1) : t[i] = s[i + 1]
  <2>1. s \in Seq(S)
    OBVIOUS
  <2> HIDE DEF S
  <2> QED BY <2>1, SetOfTail
<1>2. \A i \in 1..Len(s) : s[i] \in S
  <2>1. s \in Seq(S)
    OBVIOUS
  <2> HIDE DEF S
  <2> QED BY <2>1
<1>3. \A x \in S : x.do \in {"save", "add", "own", "route"} /\ (x.do = "route" => x.on \in Names)
  BY DEF RepairsIn
<1> HIDE DEF e, t, S
<1> SUFFICES ASSUME NEW i \in 1..Len(t), t[i].do = "route", ~Plain(N[l][t[i].net])
             PROVE  K[t[i].on].up \/ \E j \in 1..(i - 1) : t[j].do = "add" /\ t[j].on = t[i].on
  BY DEF AddsFirst, t
<1>4. t[i] = s[i + 1] /\ i + 1 \in 1..Len(s) /\ i \in Nat /\ i + 1 - 1 = i
  BY <1>1
<1> DEFINE b == t[i].on
<1>5. b \in Names
  BY <1>2, <1>3, <1>4
<1>6. H[b].up \/ \E j \in 1..i : s[j].do = "add" /\ s[j].on = b
  BY <1>4 DEF AddsFirst
<1>7. HostMoved(e, H, K)
  BY DEF e
<1>8. H[b].up => K[b].up
  BY <1>1, <1>3, <1>5, <1>7 DEF HostMoved
<1>9. ASSUME NEW j \in 1..i, s[j].do = "add", s[j].on = b
      PROVE  K[b].up \/ \E k \in 1..(i - 1) : t[k].do = "add" /\ t[k].on = b
  <2>1. CASE j = 1
    BY <1>1, <1>5, <1>7, <1>9, <2>1 DEF HostMoved
  <2>2. CASE j # 1
    <3>1. j - 1 \in 1..(i - 1) /\ j - 1 \in 1..(Len(s) - 1) /\ j - 1 + 1 = j
      BY <1>1, <1>4, <2>2
    <3>2. t[j - 1] = s[j]
      BY <1>1, <3>1
    <3> QED BY <1>9, <3>1, <3>2
  <2> QED BY <2>1, <2>2
<1> QED BY <1>6, <1>8, <1>9

\* An effect brings a network of the lab nearer.
LEMMA MendingStep ==
  ASSUME NEW l \in Labs, NEW n, NEW N, NEW F, N \in [Labs -> NetMaps], F[l] = "ok", n \in DOMAIN N[l],
         NEW r, r = N[l][n], ~Plain(r), NEW s \in Seq(RepairsIn(l, N, F)), s # << >>,
         NEW H, NEW K, Mending(l, n, r, s, N, F, H), HostMoved(Head(s), H, K)
  PROVE  Mending(l, n, r, Tail(s), N, F, K)
<1> DEFINE e == Head(s)
           t == Tail(s)
           b == r.bridge
           c == <<l, n>>
           S == RepairsIn(l, N, F)
<1>1. e \in S /\ ToSet(s) = {e} \cup ToSet(t) /\ ToSet(s) \subseteq S
  <2>1. s \in Seq(S)
    OBVIOUS
  <2> HIDE DEF S
  <2> QED BY <2>1, SetOfTail
<1>2. b \in Names
  <2>1. N[l] \in NetMaps
    OBVIOUS
  <2>2. r \in NetRecord
    BY <2>1 DEF NetMaps
  <2> QED BY <2>2 DEF NetRecord, Plain
<1>3. /\ e.do \in {"save", "add", "own", "route"}
      /\ e.do = "own" => /\ e.net \in DOMAIN N[l] /\ ~Plain(N[l][e.net])
                         /\ e.on = N[l][e.net].bridge /\ e.arg = <<l, e.net>>
      /\ e.do = "route" => \E d \in HoldersOf(N, F, e.on) : e.arg = At(N, d).cidr
  BY <1>1 DEF RepairsIn
<1>4. \A k \in DOMAIN N[l] : /\ <<l, k>> \in RecordsOf(N, F) /\ At(N, <<l, k>>) = N[l][k] /\ k \in Ids
  <2>1. N[l] \in NetMaps
    OBVIOUS
  <2> SUFFICES ASSUME NEW k \in DOMAIN N[l]
               PROVE  <<l, k>> \in RecordsOf(N, F) /\ At(N, <<l, k>>) = N[l][k] /\ k \in Ids
    OBVIOUS
  <2>2. k \in Ids
    BY <2>1 DEF NetMaps
  <2> QED BY <2>2 DEF RecordsOf, Cloud, At
<1>5. ASSUME e.do = "own", e.on = b PROVE e.arg # None /\ <<l, e.net>> \in HoldersOf(N, F, b)
  <2>1. e.net \in Ids /\ e.arg = <<l, e.net>> /\ ~IsRef(N[l][e.net]) /\ N[l][e.net].bridge = b
    BY <1>3, <1>4, <1>5 DEF Plain
  <2>2. <<l, e.net>> \in Labs \X (1..MaxNet)
    BY <2>1 DEF Ids
  <2> QED BY <1>3, <1>4, <1>5, <2>1, <2>2, CloudConstants DEF HoldersOf
<1>6. \A do : Ours(s, do, b, n) <=> (e.do = do /\ e.on = b /\ e.net = n) \/ Ours(t, do, b, n)
  BY <1>1 DEF Ours
<1>7. HostMoved(e, H, K)
  OBVIOUS
<1> HIDE DEF e, t, S
<1>8. /\ e.do = "add" /\ e.on = b => K[b].up
      /\ H[b].up => K[b].up
  BY <1>2, <1>3, <1>7 DEF HostMoved
<1>9. /\ e.do = "own" /\ e.on = b => K[b].fp = e.arg
      /\ ~(e.do = "own" /\ e.on = b) => K[b].fp = H[b].fp
  BY <1>2, <1>3, <1>7 DEF HostMoved
<1>10. /\ e.do = "route" /\ e.on = b => K[b].routed = e.arg
       /\ ~(e.do = "route" /\ e.on = b) => K[b].routed = H[b].routed
  BY <1>2, <1>3, <1>7 DEF HostMoved
<1>11. /\ H[b].up \/ Ours(s, "add", b, n)
       /\ H[b].fp # None \/ Ours(s, "own", b, n)
       /\ HoldersOf(N, F, b) = {c} /\ IsOwner(r) /\ r.cidr # {} =>
          \/ H[b].routed = r.cidr \/ Ours(s, "route", b, n)
          \/ H[b].fp \notin {None, c} /\ ~Ours(s, "own", b, n)
  BY DEF Mending
<1>12. K[b].up \/ Ours(t, "add", b, n)
  BY <1>6, <1>8, <1>11
<1>13. K[b].fp # None \/ Ours(t, "own", b, n)
  BY <1>5, <1>6, <1>9, <1>11
<1>14. ASSUME HoldersOf(N, F, b) = {c}, IsOwner(r), r.cidr # {}
       PROVE  \/ K[b].routed = r.cidr \/ Ours(t, "route", b, n)
              \/ K[b].fp \notin {None, c} /\ ~Ours(t, "own", b, n)
  <2>1. e.do = "route" /\ e.on = b => e.arg = r.cidr
    <3>1. At(N, c) = r
      BY <1>4
    <3> QED BY <1>3, <1>14, <3>1
  <2>2. e.do = "own" /\ e.on = b => e.net = n
    BY <1>5, <1>14
  <2>3. CASE H[b].routed = r.cidr \/ Ours(s, "route", b, n)
    BY <1>6, <1>10, <2>1, <2>3
  <2>4. CASE H[b].fp \notin {None, c} /\ ~Ours(s, "own", b, n)
    BY <1>6, <1>9, <2>2, <2>4
  <2> QED BY <1>11, <1>14, <2>3, <2>4
<1> HIDE DEF b, c
<1>15. Mending(l, n, r, t, N, F, K)
  BY <1>12, <1>13, <1>14 DEF Mending, b, c
<1> QED BY <1>15 DEF t

\* Network n of lab l, record r, is repaired on the host H.
Repaired(l, n, r, H) ==
  \/ H[r.bridge].up /\ H[r.bridge].fp \notin {None, <<l, n>>}
  \/ /\ H[r.bridge].up /\ H[r.bridge].fp = <<l, n>>
     /\ \/ IsNat(r) /\ r.cidr # {} => H[r.bridge].routed = r.cidr
        \/ Cardinality(Holders(r.bridge)) > 1

\* Nothing of a network is left to do: it is repaired.
LEMMA Mended ==
  ASSUME CloudInv, NEW l \in Labs, file[l] = "ok", NEW n \in DOMAIN nets[l], NEW r, r = nets[l][n],
         ~Plain(r), NEW s, \A do, b : ~Ours(s, do, b, n), NEW H, Mending(l, n, r, s, nets, file, H)
  PROVE  Repaired(l, n, r, H)
<1> DEFINE b == r.bridge
           c == <<l, n>>
<1>0. nets \in [Labs -> NetMaps]
  BY DEF CloudInv, Good
<1>1. Holders(b) = HoldersOf(nets, file, b)
  BY DEF Holders, HoldersOf, Records, RecordsOf, Readable, NetIds, Rec, At, Cloud
<1>2. c \in Holders(b)
  <2>1. nets[l] \in NetMaps
    BY <1>0
  <2>2. n \in Ids
    BY <2>1 DEF NetMaps
  <2> QED BY <2>2 DEF Holders, Records, Cloud, Readable, NetIds, Rec, Plain
<1>3. Holders(b) # {c} => Cardinality(Holders(b)) > 1
  BY <1>2, MoreThanOne
<1>4. IsNat(r) => IsOwner(r)
  BY DEF IsOwner, Plain, IsRef
<1> QED BY <1>1, <1>3, <1>4 DEF Mending, Repaired

\* ensure_lab_bridges goes on, and after its last effect the lab is repaired.
LEMMA EnsureStep ==
  ASSUME CloudInv, HostInv, EnsureInv, Step
  PROVE  EnsureInv' /\ LabRepaired
<1> DEFINE e == Head(op.todo)
           t == Tail(op.todo)
           l == op.lab
           S == RepairsIn(l, nets, file)
<1>0. nets \in [Labs -> NetMaps] /\ Good(nets, file, patched, damaged)
  BY DEF CloudInv, Good
<1>1. /\ op.todo # << >> /\ op.todo \in Seq(Effects) /\ e \in Effects
      /\ HostMoved(e, host, host') /\ nets' = NetsAfter(e) /\ file' = FileAfter(e)
      /\ op' = Continue(Rest(e), op) /\ op \in Ops
  BY StepFacts
<1>2. t \in Seq(Effects)
  BY <1>1, SetOfTail
<1>3. Rest(e) = IF e.do = "drop" THEN <<Effect("disown", e.on, None, 0)>> \o t ELSE t
  BY DEF Rest
<1>4. CASE op.kind = "ensure" /\ op.clean
  <2>1. /\ l \in Labs /\ file[l] = "ok" /\ op.todo \in Seq(S)
        /\ AddsFirst(l, op.todo, nets, host)
        /\ \A n \in DOMAIN nets[l] : ~Plain(nets[l][n]) =>
             Mending(l, n, nets[l][n], op.todo, nets, file, host)
    BY <1>4 DEF EnsureInv
  <2>2. e \in S /\ t \in Seq(S)
    <3> HIDE DEF S
    <3> QED BY <1>1, <2>1, SetOfTail
  <2>3. /\ e.do \in {"save", "add", "own", "route"}
        /\ e.do = "save" => e.on \in Labs /\ file[e.on] = "ok" /\ e.arg = nets[e.on]
    BY <2>2 DEF RepairsIn
  <2>4. nets' = nets /\ file' = file
    <3>1. CASE e.do = "save"
      <4> HIDE DEF e
      <4>1. NetsWith(e, nets) = nets /\ FileWith(e, file) = file
        BY <1>0, <2>3, <3>1, RewriteAsIs
      <4> QED BY <1>1, <3>1, <4>1 DEF NetsAfter, FileAfter, NetsWith, FileWith
    <3>2. CASE e.do # "save"
      BY <1>1, <2>3, <3>2 DEF NetsAfter, FileAfter
    <3> QED BY <3>1, <3>2
  <2>5. op' = Continue(t, op)
    BY <1>1, <1>3, <2>3
  <2>6. AddsFirst(l, t, nets, host')
    BY <1>1, <2>1, AddsFirstStep
  <2>7. ASSUME NEW n \in DOMAIN nets[l], ~Plain(nets[l][n])
        PROVE  Mending(l, n, nets[l][n], t, nets, file, host')
    <3> DEFINE r == nets[l][n]
    <3>1. r = nets[l][n] /\ ~Plain(r) /\ Mending(l, n, r, op.todo, nets, file, host)
      BY <2>1, <2>7
    <3> HIDE DEF r
    <3>2. Mending(l, n, r, t, nets, file, host')
      BY <1>0, <1>1, <2>1, <3>1, MendingStep
    <3> QED BY <3>1, <3>2
  <2> HIDE DEF e, S
  <2>8. CASE t = << >>
    <3>1. op' = Idle /\ op'.kind = "idle"
      BY <1>1, <1>2, <2>5, <2>8, ContinueFacts
    <3>2. \A do, b, n : ~Ours(t, do, b, n)
      BY <2>8, SetOfOne DEF Ours
    <3>3. ASSUME NEW n \in DOMAIN nets'[l], ~Plain(nets'[l][n])
          PROVE  Repaired(l, n, nets'[l][n], host')
      <4> DEFINE r == nets[l][n]
      <4>1. n \in DOMAIN nets[l] /\ r = nets[l][n] /\ ~Plain(r) /\ nets'[l][n] = r
            /\ Mending(l, n, r, t, nets, file, host')
        BY <2>4, <2>7, <3>3
      <4> DEFINE K == host'
      <4>2. Mending(l, n, r, t, nets, file, K) /\ n \in DOMAIN nets[l] /\ r = nets[l][n] /\ ~Plain(r)
        BY <4>1
      <4>0. l \in Labs /\ file[l] = "ok" /\ \A do, b : ~Ours(t, do, b, n)
        BY <2>1, <3>2
      <4> HIDE DEF l, r, t, K
      <4>3. Repaired(l, n, r, K)
        BY <4>0, <4>2, Mended
      <4> QED BY <4>1, <4>3 DEF K
    <3> QED BY <3>1, <3>3 DEF EnsureInv, LabRepaired, Plain, Repaired
  <2>9. CASE t # << >>
    <3> HIDE DEF t
    <3>1. op'.kind = "ensure" /\ op'.lab = l /\ op'.todo = t
      BY <1>1, <1>2, <1>4, <2>5, <2>9, ContinueFacts
    <3>2. op' # Idle
      BY <1>1, <1>2, <3>1, ContinueFacts
    <3>3. RepairsIn(op'.lab, nets', file') = S
      BY <2>4, <3>1 DEF S
    <3>4. /\ op'.todo \in Seq(RepairsIn(op'.lab, nets', file')) /\ op'.todo # << >>
          /\ op'.lab \in Labs /\ file'[op'.lab] = "ok"
      BY <2>1, <2>2, <2>4, <2>9, <3>1, <3>3
    <3>5. AddsFirst(op'.lab, op'.todo, nets', host')
      BY <2>4, <2>6, <3>1
    <3>6. \A n \in DOMAIN nets'[op'.lab] : ~Plain(nets'[op'.lab][n]) =>
            Mending(op'.lab, n, nets'[op'.lab][n], op'.todo, nets', file', host')
      BY <2>4, <2>7, <3>1
    <3> QED BY <3>2, <3>4, <3>5, <3>6 DEF EnsureInv, LabRepaired, Ends
  <2> QED BY <2>8, <2>9
<1>5. CASE ~(op.kind = "ensure" /\ op.clean)
  <2>1. Rest(e) \in Seq(Effects)
    <3> DEFINE d == Effect("disown", e.on, None, 0)
    <3>1. d \in Effects
      BY <1>1 DEF Effect, Effects
    <3> HIDE DEF d, t, e
    <3>2. <<d>> \in Seq(Effects)
      BY <3>1
    <3>3. <<d>> \o t \in Seq(Effects)
      BY <1>2, <3>2
    <3> QED BY <1>2, <1>3, <3>3 DEF d
  <2>2. ~(op'.kind = "ensure" /\ op'.clean)
    <3> HIDE DEF e
    <3> QED BY <1>1, <1>5, <2>1, ContinueFacts
  <2> QED BY <1>5, <2>2 DEF EnsureInv, LabRepaired, Ends
<1> QED BY <1>4, <1>5

\* When no effect for another network is left, all are for this one.
LEMMA NoneForOthers ==
  ASSUME NEW S, NEW s \in Seq(S), NEW n, ForOthers(s, n) = << >>
  PROVE  \A x \in ToSet(s) : x.net = n
<1>0. Len(s) \in Nat
  OBVIOUS
<1>1. \E g : KeptSteps(g, s, n, Len(s))
  BY <1>0, KeptExists
<1>2. PICK kept : KeptSteps(kept, s, n, Len(s)) /\ ForOthers(s, n) = kept[Len(s)]
  BY <1>1 DEF ForOthers, KeptSteps, KeptStep
<1>3. \A m \in 0..Len(s) : kept[m] = KeptStep(kept, s, n, m)
  BY <1>2 DEF KeptSteps
<1> DEFINE G == {m \in Nat : m <= Len(s) =>
                   kept[m] \in Seq(S) /\ (kept[m] = << >> => \A i \in 1..m : s[i].net = n)}
<1>4. 0 \in G
  <2>1. kept[0] = << >>
    BY <1>0, <1>3 DEF KeptStep
  <2>2. << >> \in Seq(S)
    OBVIOUS
  <2>3. kept[0] \in Seq(S) /\ 1..0 = {}
    BY <2>1, <2>2
  <2> QED BY <2>3
<1>5. ASSUME NEW m \in Nat, m \in G PROVE m + 1 \in G
  <2> SUFFICES ASSUME m + 1 <= Len(s)
               PROVE  kept[m + 1] \in Seq(S) /\ (kept[m + 1] = << >> => \A i \in 1..(m + 1) : s[i].net = n)
    OBVIOUS
  <2>1. /\ kept[m] \in Seq(S) /\ (kept[m] = << >> => \A i \in 1..m : s[i].net = n)
        /\ m + 1 \in 0..Len(s) /\ m + 1 \in 1..Len(s) /\ m + 1 # 0 /\ m + 1 - 1 = m
    BY <1>0, <1>5
  <2>2. kept[m + 1] = KeptStep(kept, s, n, m + 1) /\ s[m + 1] \in S
    BY <1>3, <2>1
  <2> DEFINE k == kept[m]
             x == s[m + 1]
  <2>3. kept[m + 1] = IF x.net # n THEN Append(k, x) ELSE k
    BY <2>1, <2>2 DEF KeptStep
  <2>4. k \in Seq(S) /\ x \in S /\ (k = << >> => \A i \in 1..m : s[i].net = n)
    BY <2>1, <2>2
  <2>5. x.net = n /\ (\A i \in 1..m : s[i].net = n) => \A i \in 1..(m + 1) : s[i].net = n
    OBVIOUS
  <2> HIDE DEF k, x
  <2>6. Append(k, x) \in Seq(S) /\ Append(k, x) # << >>
    BY <2>4
  <2> QED BY <2>3, <2>4, <2>5, <2>6
<1> HIDE DEF G
<1>6. Len(s) \in G
  BY <1>0, <1>4, <1>5, NumberInduction
<1>7. \A i \in 1..Len(s) : s[i].net = n
  BY <1>0, <1>2, <1>6 DEF G
<1> QED BY <1>7 DEF ToSet

\* A network whose bridge the failed effects of another one did not concern
\* is repaired: ensure_lab_bridges ends with a failure only at a reference.
LEMMA EnsureFails ==
  ASSUME CloudInv, HostInv, EnsureInv, StepFails
  PROVE  EnsureInv' /\ LabRepaired
<1> DEFINE e == Head(op.todo)
           t == Tail(op.todo)
           l == op.lab
           o == [op EXCEPT !.clean = FALSE]
           S == RepairsIn(l, nets, file)
<1>1. /\ op.todo # << >> /\ op' = AfterFailure(e) /\ e.do \in HostCommands
      /\ spent' = IF Feasible(e) THEN spent + 1 ELSE spent
      /\ UNCHANGED <<hash, file, nets, host, up>>
  BY DEF StepFails
<1>2. op \in Ops /\ op.todo \in Seq(Effects)
  BY TodoTyped
<1>3. o.kind = op.kind /\ o.clean = FALSE
  BY <1>2 DEF Ops
<1>4. \A u : /\ Continue(u, o) = Idle \/ ~Continue(u, o).clean
             /\ u # << >> => Continue(u, o).kind = op.kind
             /\ Continue(u, [op EXCEPT !.kind = "undo", !.clean = FALSE]) = Idle
                \/ ~Continue(u, [op EXCEPT !.kind = "undo", !.clean = FALSE]).clean
  BY <1>2 DEF Continue, Ops
<1> HIDE DEF e, t, o, S
<1>5. op' = Idle \/ ~op'.clean
  <2>1. \/ \E u : op' = Continue(u, o)
        \/ \E u : op' = Continue(u, [op EXCEPT !.kind = "undo", !.clean = FALSE])
        \/ op' = Idle
    BY <1>1 DEF AfterFailure, o
  <2> QED BY <1>4, <2>1
<1>6. EnsureInv'
  BY <1>5 DEF EnsureInv, Idle
<1>7. LabRepaired
  <2> SUFFICES ASSUME op.kind = "ensure", op.clean, op' = Idle, spent' = spent,
                      NEW n \in DOMAIN nets[l], ~Plain(nets[l][n])
               PROVE  Repaired(l, n, nets[l][n], host)
    BY <1>1 DEF LabRepaired, Ends, Plain, Repaired
  <2>1. /\ l \in Labs /\ file[l] = "ok" /\ op.todo \in Seq(S)
        /\ AddsFirst(l, op.todo, nets, host)
    BY DEF EnsureInv, S
  <2>2. Mending(l, n, nets[l][n], op.todo, nets, file, host)
    BY DEF EnsureInv
  <2>3. /\ e \in S /\ t \in Seq(S) /\ e = op.todo[1] /\ 1 \in 1..Len(op.todo)
        /\ ToSet(op.todo) = {e} \cup ToSet(t)
    BY <1>1, <2>1, SetOfTail DEF e, t
  <2>4. ~Feasible(e)
    BY <1>1 DEF HostInv
  <2>5. e.do = "route" /\ ~host[e.on].up
    BY <2>3, <2>4 DEF Feasible, S, RepairsIn
  <2>6. Plain(nets[l][e.net])
    <3>1. 1..(1 - 1) = {}
      OBVIOUS
    <3> QED BY <2>1, <2>3, <2>5, <3>1 DEF AddsFirst
  <2>7. op' = Continue(ForOthers(t, e.net), o)
    BY <1>1, <2>5 DEF AfterFailure, o, t
  <2>8. ForOthers(t, e.net) = << >>
    <3>1. op'.kind # "ensure"
      BY DEF Idle
    <3> QED BY <1>4, <2>7, <3>1
  <2>9. \A x \in ToSet(op.todo) : x.net = e.net
    BY <2>3, <2>8, NoneForOthers
  <2>10. \A do, b : ~Ours(op.todo, do, b, n)
    BY <2>6, <2>9 DEF Ours
  <2> DEFINE r == nets[l][n]
             s == op.todo
  <2>11. r = nets[l][n] /\ ~Plain(r) /\ Mending(l, n, r, s, nets, file, host)
         /\ \A do, b : ~Ours(s, do, b, n)
    BY <2>2, <2>10
  <2> HIDE DEF l, r, s
  <2>12. Repaired(l, n, r, host)
    BY <2>1, <2>11, Mended
  <2> QED BY <2>11, <2>12
<1> QED BY <1>6, <1>7

\* Addresses find their bridges in two parts, one after the other.
LEMMA AddsFirstJoin ==
  ASSUME NEW S, NEW s \in Seq(S), NEW t \in Seq(S), NEW l, NEW N, NEW H,
         AddsFirst(l, s, N, H), AddsFirst(l, t, N, H)
  PROVE  AddsFirst(l, s \o t, N, H)
<1>1. /\ Len(s) \in Nat /\ Len(t) \in Nat /\ Len(s \o t) = Len(s) + Len(t)
      /\ \A i \in 1..Len(s) : (s \o t)[i] = s[i]
      /\ \A i \in 1..Len(t) : (s \o t)[Len(s) + i] = t[i]
  BY JoinTyped
<1> DEFINE u == s \o t
<1> HIDE DEF u
<1> SUFFICES ASSUME NEW i \in 1..Len(u), u[i].do = "route", ~Plain(N[l][u[i].net])
             PROVE  H[u[i].on].up \/ \E j \in 1..(i - 1) : u[j].do = "add" /\ u[j].on = u[i].on
  BY DEF AddsFirst, u
<1>2. CASE i <= Len(s)
  <2>1. i \in 1..Len(s) /\ u[i] = s[i]
    BY <1>1, <1>2 DEF u
  <2>2. H[s[i].on].up \/ \E j \in 1..(i - 1) : s[j].do = "add" /\ s[j].on = s[i].on
    BY <2>1 DEF AddsFirst
  <2>3. \A j \in 1..(i - 1) : u[j] = s[j]
    BY <1>1, <2>1 DEF u
  <2> QED BY <2>1, <2>2, <2>3
<1>3. CASE ~(i <= Len(s))
  <2> DEFINE k == i - Len(s)
  <2>1. k \in 1..Len(t) /\ i = Len(s) + k
    BY <1>1, <1>3 DEF u
  <2> HIDE DEF k
  <2>2. u[i] = t[k]
    BY <1>1, <2>1 DEF u
  <2>3. H[t[k].on].up \/ \E j \in 1..(k - 1) : t[j].do = "add" /\ t[j].on = t[k].on
    BY <2>1, <2>2 DEF AddsFirst
  <2>4. \A j \in 1..(k - 1) : u[Len(s) + j] = t[j] /\ Len(s) + j \in 1..(i - 1)
    BY <1>1, <2>1 DEF u
  <2> QED BY <2>2, <2>3, <2>4
<1> QED BY <1>2, <1>3

\* A sequence of what is in a smaller set.
LEMMA SeqWithin ==
  ASSUME NEW T, NEW s \in Seq(T), NEW S, ToSet(s) \subseteq S
  PROVE  s \in Seq(S)
<1>1. Len(s) \in Nat /\ s = [i \in 1..Len(s) |-> s[i]]
  OBVIOUS
<1>2. \A i \in 1..Len(s) : s[i] \in S
  BY DEF ToSet
<1> QED BY <1>1, <1>2

\* The network of a lab and its bridge.
LEMMA OwnBridge ==
  ASSUME CloudInv, NEW l \in Readable, NEW n \in NetIds(l), ~Plain(nets[l][n])
  PROVE  LET r == nets[l][n] IN
         /\ r \in NetRecord /\ r.bridge \in Names /\ r.cidr \in SUBSET Nat
         /\ <<l, n>> \in Cloud /\ <<l, n>> \in HoldersOf(nets, file, r.bridge)
         /\ At(nets, <<l, n>>) = r /\ n \in Nat
<1> DEFINE r == nets[l][n]
<1>1. Good(nets, file, patched, damaged) /\ l \in Labs /\ file[l] = "ok"
  BY DEF CloudInv, Readable
<1>2. n \in Ids /\ r \in NetRecord
  BY <1>1, Reading
<1> HIDE DEF r
<1>3. r.bridge \in Names /\ r.cidr \in SUBSET Nat
  <2>1. ~Plain(r)
    BY DEF r
  <2> QED BY <1>2, <2>1 DEF NetRecord, Fields, Plain
<1>4. <<l, n>> \in Cloud /\ n \in Nat
  BY <1>1, <1>2, CloudConstants DEF Cloud, Ids
<1>5. <<l, n>> \in HoldersOf(nets, file, r.bridge) /\ At(nets, <<l, n>>) = r
  BY <1>1, <1>4 DEF HoldersOf, RecordsOf, At, NetIds, Plain, r
<1> QED BY <1>2, <1>3, <1>4, <1>5 DEF r

\* The effects s are those that bring up bridge b of network n of lab l, which
\* is r, as far as it is not up.
MakesUp(l, n, r, b, s) ==
  LET a == Effect("add", b, None, n)
      o == Effect("own", b, <<l, n>>, n)
      p == IF IsOwner(r) /\ r.cidr # {} THEN {Effect("route", b, r.cidr, n)} ELSE {}
  IN \/ s[1] = a /\ ToSet(s) = {a, o} \cup p
     \/ host[b].up /\ host[b].fp = None /\ ToSet(s) = {o} \cup p
     \/ host[b].up /\ host[b].fp = <<l, n>> /\ ToSet(s) = p

\* They are all it takes.
LEMMA MakesUpMends ==
  ASSUME CloudInv, NEW l \in Readable, NEW n \in NetIds(l), NEW r, r = nets[l][n], ~Plain(r),
         NEW b, b = r.bridge, NEW s \in Seq(Effects), MakesUp(l, n, r, b, s)
  PROVE  /\ ToSet(s) \subseteq RepairsIn(l, nets, file)
         /\ \A e \in ToSet(s) : e.net = n
         /\ AddsFirst(l, s, nets, host)
         /\ Mending(l, n, r, s, nets, file, host)
<1> DEFINE x == <<l, n>>
           a == Effect("add", b, None, n)
           o == Effect("own", b, x, n)
           v == Effect("route", b, r.cidr, n)
           p == IF IsOwner(r) /\ r.cidr # {} THEN {v} ELSE {}
<1>1. /\ r \in NetRecord /\ b \in Names /\ r.cidr \in SUBSET Nat
      /\ x \in Cloud /\ x \in HoldersOf(nets, file, b) /\ At(nets, x) = r /\ n \in Nat
  BY OwnBridge
<1>2. /\ a \in Effects /\ a.do = "add" /\ a.on = b /\ a.net = n
      /\ o \in Effects /\ o.do = "own" /\ o.on = b /\ o.arg = x /\ o.net = n
      /\ v \in Effects /\ v.do = "route" /\ v.on = b /\ v.arg = r.cidr /\ v.net = n
  BY <1>1 DEF Effect, Effects
<1>3. x # None
  BY <1>1, CloudConstants DEF Cloud, Ids
<1>4. \/ s[1] = a /\ ToSet(s) = {a, o} \cup p
      \/ host[b].up /\ host[b].fp = None /\ ToSet(s) = {o} \cup p
      \/ host[b].up /\ host[b].fp = x /\ ToSet(s) = p
  BY DEF MakesUp
<1>5. IsOwner(r) /\ r.cidr # {} => v \in p
  OBVIOUS
<1>6. p \subseteq {v}
  OBVIOUS
<1> HIDE DEF a, o, v, p, x
<1>7. {a, o, v} \subseteq RepairsIn(l, nets, file)
  <2>1. n \in DOMAIN nets[l]
    BY DEF NetIds
  <2>2. a \in RepairsIn(l, nets, file) /\ o \in RepairsIn(l, nets, file)
    BY <1>2, <2>1 DEF RepairsIn, x
  <2>3. v \in RepairsIn(l, nets, file)
    BY <1>1, <1>2 DEF RepairsIn
  <2> QED BY <2>2, <2>3
<1>8. ToSet(s) \subseteq {a, o, v}
  BY <1>4, <1>6
<1>9. \A e \in ToSet(s) : e.net = n /\ e.on = b
  BY <1>2, <1>8
<1>10. AddsFirst(l, s, nets, host)
  <2> SUFFICES ASSUME NEW i \in 1..Len(s), s[i].do = "route"
               PROVE  host[s[i].on].up \/ \E j \in 1..(i - 1) : s[j].do = "add" /\ s[j].on = s[i].on
    BY DEF AddsFirst
  <2>1. s[i] \in ToSet(s)
    BY DEF ToSet
  <2>2. s[i].on = b
    BY <1>9, <2>1
  <2>3. CASE s[1] = a
    <3>1. i # 1
      BY <1>2, <2>3
    <3>2. 1 \in 1..(i - 1)
      BY <3>1
    <3> QED BY <1>2, <2>2, <2>3, <3>2
  <2>4. CASE host[b].up
    BY <2>2, <2>4
  <2> QED BY <1>4, <2>3, <2>4
<1>11. Mending(l, n, r, s, nets, file, host)
  <2>1. host[b].up \/ Ours(s, "add", b, n)
    BY <1>2, <1>4 DEF Ours
  <2>2. host[b].fp # None \/ Ours(s, "own", b, n)
    BY <1>2, <1>3, <1>4 DEF Ours
  <2>3. IsOwner(r) /\ r.cidr # {} => Ours(s, "route", b, n)
    BY <1>2, <1>4, <1>5 DEF Ours
  <2> QED BY <2>1, <2>2, <2>3 DEF Mending
<1> QED BY <1>7, <1>8, <1>9, <1>10, <1>11

\* What ensure_lab_bridges does for one network.
Mends(l, n, s) ==
  /\ s \in Seq(Effects) /\ ToSet(s) \subseteq RepairsIn(l, nets, file)
  /\ \A e \in ToSet(s) : e.do = "own" => e.net = n
  /\ AddsFirst(l, s, nets, host)
  /\ ~Plain(nets[l][n]) => Mending(l, n, nets[l][n], s, nets, file, host)

\* It mends the network, or leaves its bridge to the one that has it.
LEMMA EnsureOneMends ==
  ASSUME CloudInv, HostInv, NEW l \in Readable, NEW n \in NetIds(l)
  PROVE  Mends(l, n, EnsureOne(l, n))
<1> DEFINE r == nets[l][n]
           b == r.bridge
           c == r.shared
           x == <<l, n>>
           route == Route(Rec(c).bridge, Rec(c).cidr, n)
           write == IF c[1] = l THEN << >> ELSE Write(c[1], nets[c[1]])
           bring == IF ~ host[b].up THEN AddBridge(b, n) \o Own(b, x)
                    ELSE IF Fingerprint(b, x) = "absent" THEN Own(b, x) ELSE << >>
           mine == IF IsOwner(r) THEN Route(b, r.cidr, n) ELSE << >>
           none == << >>
<1>0. Good(nets, file, patched, damaged) /\ nets \in [Labs -> NetMaps]
  BY DEF CloudInv, Good
<1>1. \/ /\ EnsureOne(l, n) = none
         /\ Plain(r) \/ (host[b].up /\ Fingerprint(b, x) = "mismatch")
      \/ IsRef(r) /\ c \in Owners /\ EnsureOne(l, n) = route \o write
      \/ /\ ~Plain(r) /\ EnsureOne(l, n) = bring \o mine
         /\ ~(host[b].up /\ Fingerprint(b, x) = "mismatch")
  BY DEF EnsureOne, Plain
<1>2. none \in Seq(Effects) /\ ToSet(none) = {} /\ Len(none) = 0
  BY SetOfOne
<1>3. ASSUME EnsureOne(l, n) = none, Plain(r) \/ (host[b].up /\ Fingerprint(b, x) = "mismatch")
      PROVE  Mends(l, n, none)
  <2>1. AddsFirst(l, none, nets, host)
    BY <1>2 DEF AddsFirst
  <2>2. ASSUME ~Plain(r) PROVE Mending(l, n, r, none, nets, file, host)
    <3>1. host[b].up /\ host[b].fp \notin {None, x}
      BY <1>3, <2>2 DEF Fingerprint
    <3>2. \A do, d : ~Ours(none, do, d, n)
      BY <1>2 DEF Ours
    <3> QED BY <3>1, <3>2 DEF Mending
  <2> QED BY <1>2, <2>1, <2>2 DEF Mends
<1>4. ASSUME IsRef(r), c \in Owners PROVE Mends(l, n, route \o write)
  <2> DEFINE p == Rec(c)
             d == p.bridge
             w == p.cidr
             v == Effect("route", d, w, n)
             y == Effect("save", c[1], nets[c[1]], 0)
  <2>1. /\ c \in RecordsOf(nets, file) /\ p = At(nets, c) /\ IsOwner(p) /\ p \in NetRecord
        /\ c[1] \in Labs /\ file[c[1]] = "ok" /\ c \in Cloud /\ nets[c[1]] \in NetMaps /\ n \in Nat
    BY <1>0, <1>4, Reading, CloudConstants DEF Owners, Records, Readable, RecordsOf, At, Rec, Cloud, NetIds, Ids
  <2>2. d \in Names /\ w \in SUBSET Nat /\ ~IsRef(p)
    BY <2>1 DEF NetRecord, Fields, IsOwner, IsNat, IsRef
  <2>3. c \in HoldersOf(nets, file, d) /\ w = At(nets, c).cidr
    BY <2>1, <2>2 DEF HoldersOf
  <2> HIDE DEF p
  <2> HIDE DEF d, w
  <2>4. /\ Route(d, w, n) \in Seq(Effects)
        /\ ToSet(Route(d, w, n)) = IF w = {} THEN {} ELSE {v}
    BY <2>1, <2>2, RouteTyped
  <2>5. v \in RepairsIn(l, nets, file) /\ v.do = "route" /\ v.net = n
    <3>1. v \in Effects /\ v.do = "route" /\ v.on = d /\ v.arg = w /\ v.net = n
      BY <2>1, <2>2 DEF Effect, Effects
    <3> HIDE DEF v
    <3> QED BY <2>2, <2>3, <3>1 DEF RepairsIn
  <2>6. y \in RepairsIn(l, nets, file) /\ y.do = "save" /\ write \in Seq(Effects)
        /\ ToSet(write) \subseteq {y}
    <3>1. y \in Effects /\ y.do = "save" /\ y.on = c[1] /\ y.arg = nets[c[1]]
      BY <2>1 DEF Effect, Effects
    <3>2. Write(c[1], nets[c[1]]) \in Seq(Effects) /\ ToSet(Write(c[1], nets[c[1]])) = {y}
      BY <2>1, PartsTyped
    <3> HIDE DEF y
    <3>3. y \in RepairsIn(l, nets, file)
      BY <2>1, <3>1 DEF RepairsIn
    <3> QED BY <1>2, <3>1, <3>2, <3>3
  <2> HIDE DEF v, y, write
  <2> DEFINE s == Route(d, w, n) \o write
  <2>7. s \in Seq(Effects) /\ ToSet(s) = ToSet(Route(d, w, n)) \cup ToSet(write)
    BY <2>4, <2>6, JoinTyped
  <2> HIDE DEF s
  <2>8. ToSet(s) \subseteq {v, y}
    BY <2>4, <2>6, <2>7
  <2>9. Plain(r)
    BY <1>4 DEF Plain
  <2>10. AddsFirst(l, s, nets, host)
    <3>1. \A i \in 1..Len(s) : s[i].do = "route" => s[i].net = n
      <4>1. \A i \in 1..Len(s) : s[i] \in ToSet(s)
        BY <2>7 DEF ToSet
      <4> QED BY <2>5, <2>6, <2>8, <4>1
    <3> QED BY <2>9, <3>1 DEF AddsFirst
  <2>11. Mends(l, n, s)
    BY <2>5, <2>6, <2>7, <2>8, <2>9, <2>10 DEF Mends
  <2> QED BY <2>11 DEF s, d, w, p
<1>5. ASSUME ~Plain(r), ~(host[b].up /\ Fingerprint(b, x) = "mismatch") PROVE Mends(l, n, bring \o mine)
  <2>1. /\ r \in NetRecord /\ b \in Names /\ r.cidr \in SUBSET Nat /\ x \in Cloud /\ n \in Nat /\ x[2] = n
    BY <1>5, OwnBridge
  <2> DEFINE a == Effect("add", b, None, n)
             o == Effect("own", b, x, n)
             v == Effect("route", b, r.cidr, n)
             p == IF IsOwner(r) /\ r.cidr # {} THEN {v} ELSE {}
             A == AddBridge(b, n)
             O == Own(b, x)
  <2>2. /\ A \in Seq(Effects) /\ ToSet(A) = {a} /\ A[1] = a /\ Len(A) = 1
        /\ O \in Seq(Effects) /\ ToSet(O) = {o}
    <3>1. A \in Seq(Effects) /\ ToSet(A) = {a} /\ O \in Seq(Effects) /\ ToSet(O) = {o}
      <4> DEFINE d == b
                 y == x
                 m == n
      <4>1. d \in Names \cup {HostBr} /\ y \in Cloud /\ m \in Nat /\ y[2] = m
        BY <2>1
      <4> HIDE DEF d, y, m
      <4>2. /\ AddBridge(d, m) \in Seq(Effects) /\ ToSet(AddBridge(d, m)) = {Effect("add", d, None, m)}
            /\ Own(d, y) \in Seq(Effects) /\ ToSet(Own(d, y)) = {Effect("own", d, y, y[2])}
        BY <4>1, PartsTyped
      <4> QED BY <4>1, <4>2 DEF d, y, m
    <3>2. A = <<a>>
      BY DEF AddBridge
    <3> QED BY <3>1, <3>2
  <2>3. mine \in Seq(Effects) /\ ToSet(mine) = p
    <3>1. CASE IsOwner(r)
      <4> DEFINE d == b
                 k == r.cidr
                 m == n
      <4>1. d \in Names \cup {HostBr} /\ k \in SUBSET Nat /\ m \in Nat
        BY <2>1
      <4> HIDE DEF d, k, m
      <4>2. /\ Route(d, k, m) \in Seq(Effects)
            /\ ToSet(Route(d, k, m)) = IF k = {} THEN {} ELSE {Effect("route", d, k, m)}
        BY <4>1, RouteTyped, Zenon
      <4> QED BY <3>1, <4>2 DEF d, k, m
    <3>2. CASE ~IsOwner(r)
      BY <1>2, <3>2
    <3> QED BY <3>1, <3>2
  <2>4. Fingerprint(b, x) = "absent" <=> host[b].fp = None
    BY DEF Fingerprint
  <2>5. x # None /\ (Fingerprint(b, x) = "mismatch" <=> host[b].fp \notin {None, x})
    BY <2>1, CloudConstants DEF Fingerprint, Cloud, Ids
  <2>6. \/ ~host[b].up /\ bring = A \o O
        \/ host[b].up /\ host[b].fp = None /\ bring = O
        \/ host[b].up /\ host[b].fp = x /\ bring = none
    BY <1>5, <2>4, <2>5
  <2> HIDE DEF a, o, v, A, O, p, mine, bring, none
  <2>7. A \o O \in Seq(Effects) /\ ToSet(A \o O) = {a} \cup {o} /\ (A \o O)[1] = a /\ Len(A \o O) > 0
    <3>1. 1 \in 1..Len(A) /\ A \in Seq(Effects) /\ O \in Seq(Effects)
      BY <2>2
    <3>2. /\ A \o O \in Seq(Effects) /\ ToSet(A \o O) = ToSet(A) \cup ToSet(O)
          /\ Len(O) \in Nat /\ Len(A \o O) = Len(A) + Len(O) /\ (A \o O)[1] = A[1]
      BY <3>1, JoinTyped
    <3> QED BY <2>2, <3>2
  <2> DEFINE s == bring \o mine
  <2>8. bring \in Seq(Effects)
    BY <1>2, <2>2, <2>6, <2>7
  <2>9. s \in Seq(Effects) /\ ToSet(s) = ToSet(bring) \cup ToSet(mine)
    BY <2>3, <2>8, JoinTyped
  <2>10. Len(bring) > 0 => s[1] = bring[1]
    <3>1. Len(bring) > 0 => 1 \in 1..Len(bring)
      BY <2>8
    <3> QED BY <2>3, <2>8, <3>1, JoinTyped
  <2> HIDE DEF s
  <2>11. \/ s[1] = a /\ ToSet(s) = {a, o} \cup p
         \/ host[b].up /\ host[b].fp = None /\ ToSet(s) = {o} \cup p
         \/ host[b].up /\ host[b].fp = x /\ ToSet(s) = p
    BY <1>2, <2>2, <2>3, <2>6, <2>7, <2>9, <2>10
  <2>12. MakesUp(l, n, r, b, s)
    BY <2>11 DEF MakesUp, a, o, p, v, x
  <2>13. ToSet(s) \subseteq RepairsIn(l, nets, file) /\ (\A e \in ToSet(s) : e.net = n)
         /\ AddsFirst(l, s, nets, host) /\ Mending(l, n, r, s, nets, file, host)
    <3> DEFINE z == r
               d == b
    <3>1. z = nets[l][n] /\ ~Plain(z) /\ d = z.bridge /\ MakesUp(l, n, z, d, s)
      BY <1>5, <2>12
    <3> HIDE DEF z, d
    <3>2. ToSet(s) \subseteq RepairsIn(l, nets, file) /\ (\A e \in ToSet(s) : e.net = n)
          /\ AddsFirst(l, s, nets, host) /\ Mending(l, n, z, s, nets, file, host)
      BY <2>9, <3>1, MakesUpMends
    <3> QED BY <3>2 DEF z
  <2>14. Mends(l, n, s)
    BY <2>9, <2>13 DEF Mends
  <2> QED BY <2>14 DEF s
<1> HIDE DEF route, write, bring, mine
<1> QED BY <1>1, <1>3, <1>4, <1>5

\* The effects s mend the networks of lab l up to m.
MendsTo(l, m, s) ==
  /\ ToSet(s) \subseteq RepairsIn(l, nets, file)
  /\ \A e \in ToSet(s) : e.do = "own" => e.net <= m
  /\ AddsFirst(l, s, nets, host)
  /\ \A k \in NetIds(l) : k <= m /\ ~Plain(nets[l][k]) =>
       Mending(l, k, nets[l][k], s, nets, file, host)

\* One more network is mended.
LEMMA MendsOneMore ==
  ASSUME CloudInv, HostInv, NEW l \in Readable, NEW m \in Nat, m + 1 \in Ids,
         NEW s \in Seq(Effects), MendsTo(l, m, s), NEW t,
         t = IF m + 1 \in NetIds(l) THEN EnsureOne(l, m + 1) ELSE << >>
  PROVE  s \o t \in Seq(Effects) /\ MendsTo(l, m + 1, s \o t)
<1> DEFINE n == m + 1
           u == s \o t
           none == << >>
<1>0. NetIds(l) \subseteq Nat
  <2>1. NetIds(l) \subseteq Ids
    BY Reading DEF CloudInv, Readable
  <2> QED BY <2>1, CloudConstants DEF Ids
<1>1. none \in Seq(Effects) /\ ToSet(none) = {} /\ Len(none) = 0
  BY SetOfOne
<1>2. /\ t \in Seq(Effects) /\ ToSet(t) \subseteq RepairsIn(l, nets, file)
      /\ \A e \in ToSet(t) : e.do = "own" => e.net = n
      /\ AddsFirst(l, t, nets, host)
      /\ n \in NetIds(l) /\ ~Plain(nets[l][n]) => Mending(l, n, nets[l][n], t, nets, file, host)
  <2>1. CASE n \in NetIds(l)
    <3>1. Mends(l, n, t)
      BY <2>1, EnsureOneMends
    <3> QED BY <3>1 DEF Mends
  <2>2. CASE n \notin NetIds(l)
    <3>1. t = none
      BY <2>2
    <3>2. AddsFirst(l, none, nets, host)
      BY <1>1 DEF AddsFirst
    <3> QED BY <1>1, <2>2, <3>1, <3>2
  <2> QED BY <2>1, <2>2
<1>3. u \in Seq(Effects) /\ ToSet(u) = ToSet(s) \cup ToSet(t)
  <2>1. t \in Seq(Effects)
    BY <1>2
  <2>2. s \in Seq(Effects) /\ u = s \o t
    OBVIOUS
  <2> HIDE DEF u
  <2> QED BY <2>1, <2>2, JoinSet, Zenon
<1>4. AddsFirst(l, u, nets, host)
  BY <1>2, AddsFirstJoin DEF MendsTo
<1>5. n = m + 1 /\ n \in Nat /\ m < n
  OBVIOUS
<1> HIDE DEF u, n
<1>6. ASSUME NEW k \in NetIds(l), k <= n, ~Plain(nets[l][k])
      PROVE  Mending(l, k, nets[l][k], u, nets, file, host)
  <2> DEFINE r == nets[l][k]
  <2>1. CASE k <= m
    <3>1. Mending(l, k, r, s, nets, file, host)
      BY <1>6, <2>1 DEF MendsTo
    <3>2. \A e \in ToSet(u) : e.do = "own" /\ e.net = k => e \in ToSet(s)
      BY <1>0, <1>2, <1>3, <1>5, <2>1
    <3> HIDE DEF r
    <3>3. Mending(l, k, r, u, nets, file, host)
      BY <1>3, <3>1, <3>2, MendingMore
    <3> QED BY <3>3 DEF r
  <2>2. CASE ~(k <= m)
    <3>1. k = n
      BY <1>0, <1>5, <1>6, <2>2
    <3>2. Mending(l, k, r, t, nets, file, host)
      BY <1>2, <1>6, <3>1
    <3>3. \A e \in ToSet(u) : e.do = "own" /\ e.net = k => e \in ToSet(t)
      <4>1. \A e \in ToSet(s) : e.do = "own" => e.net <= m
        BY DEF MendsTo
      <4> QED BY <1>0, <1>3, <2>2, <4>1
    <3> HIDE DEF r
    <3>4. Mending(l, k, r, u, nets, file, host)
      BY <1>3, <3>2, <3>3, MendingMore
    <3> QED BY <3>4 DEF r
  <2> QED BY <2>1, <2>2
<1>7. ToSet(u) \subseteq RepairsIn(l, nets, file)
  BY <1>2, <1>3 DEF MendsTo
<1>8. \A e \in ToSet(u) : e.do = "own" => e.net <= n
  <2>1. \A e \in ToSet(s) : e.do = "own" => e.net <= m /\ e.net \in Nat
    <3>1. \A e \in ToSet(s) : e \in Effects
      BY DEF MendsTo, RepairsIn
    <3> QED BY <3>1 DEF MendsTo, Effects
  <2> QED BY <1>2, <1>3, <1>5, <2>1
<1>9. MendsTo(l, n, u)
  BY <1>4, <1>6, <1>7, <1>8 DEF MendsTo
<1> QED BY <1>3, <1>9 DEF u, n

\* Opening a lab plans all of its repairs.
LEMMA EnsureBegins ==
  ASSUME CloudInv, HostInv, NEW l \in Labs, EnsureLabBridges(l)
  PROVE  EnsureInv'
<1> DEFINE q == [n \in Ids |-> IF n \in NetIds(l) THEN EnsureOne(l, n) ELSE << >>]
           save == IF \E n \in NetIds(l) : IsNat(nets[l][n]) THEN Write(l, nets[l]) ELSE << >>
           f == FlattenSeq(q)
           todo == f \o save
           R == {p \in Nat \X Seq(Effects) : MendsTo(l, p[1], p[2])}
           none == << >>
           y == Effect("save", l, nets[l], 0)
<1>0. nets \in [Labs -> NetMaps] /\ MaxNet \in Nat
  BY CloudConstants DEF CloudInv, Good
<1>1. /\ l \in Readable /\ Begin("ensure", l, 0, todo, << >>) /\ file[l] = "ok"
      /\ UNCHANGED <<hash, file, nets, host, up>>
  BY DEF EnsureLabBridges, Readable, Begin
<1>2. none \in Seq(Effects) /\ ToSet(none) = {} /\ Len(none) = 0
  BY SetOfOne
<1>3. NetIds(l) \subseteq 1..MaxNet
  <2>1. nets[l] \in NetMaps
    BY <1>0
  <2> QED BY <2>1 DEF NetMaps, NetIds, Ids
<1>4. ASSUME NEW k \in Ids PROVE q[k] \in Seq(Effects)
  <2>1. CASE k \in NetIds(l)
    <3>1. Mends(l, k, EnsureOne(l, k))
      BY <1>1, <2>1, EnsureOneMends
    <3> QED BY <2>1, <3>1 DEF Mends
  <2>2. CASE k \notin NetIds(l)
    BY <1>2, <2>2
  <2> QED BY <2>1, <2>2
<1>5. q \in [1..MaxNet -> Seq(Effects)]
  BY <1>4 DEF Ids
<1>6. <<0, none>> \in R
  <2>1. MendsTo(l, 0, none)
    <3>1. AddsFirst(l, none, nets, host)
      BY <1>2 DEF AddsFirst
    <3>2. \A k \in NetIds(l) : ~(k <= 0)
      BY <1>0, <1>3
    <3> HIDE DEF none
    <3> QED BY <1>2, <3>1, <3>2 DEF MendsTo
  <2>2. none \in Seq(Effects)
    BY <1>2
  <2> HIDE DEF none, q, f, y
  <2> QED BY <2>1, <2>2
<1>7. ASSUME NEW m \in Nat, NEW s \in Seq(Effects), m + 1 <= MaxNet, <<m, s>> \in R
      PROVE  <<m + 1, s \o q[m + 1]>> \in R
  <2>1. MendsTo(l, m, s)
    BY <1>7
  <2>2. m + 1 \in Ids /\ m + 1 \in Nat
    BY <1>0, <1>7 DEF Ids
  <2> DEFINE t == q[m + 1]
  <2>3. t = IF m + 1 \in NetIds(l) THEN EnsureOne(l, m + 1) ELSE << >>
    BY <2>2
  <2> HIDE DEF t
  <2>4. s \o t \in Seq(Effects) /\ MendsTo(l, m + 1, s \o t)
    BY <1>1, <2>1, <2>2, <2>3, MendsOneMore
  <2> QED BY <2>2, <2>4 DEF t
<1> HIDE DEF q, R
<1>8. f \in Seq(Effects) /\ <<MaxNet, f>> \in R
  BY <1>0, <1>2, <1>5, <1>6, <1>7, FlattenInduction
<1> HIDE DEF f
<1>9. MendsTo(l, MaxNet, f)
  BY <1>8 DEF R
<1>10. save \in Seq(Effects) /\ ToSet(save) \subseteq {y}
  BY <1>0, <1>2, PartsTyped
<1>11. y \in RepairsIn(l, nets, file) /\ y.do = "save"
  <2>1. y \in Effects /\ y.do = "save" /\ y.on = l /\ y.arg = nets[l]
    BY <1>0 DEF Effect, Effects
  <2> HIDE DEF y
  <2> QED BY <1>1, <2>1 DEF RepairsIn
<1> HIDE DEF save, y
<1>12. todo \in Seq(Effects) /\ ToSet(todo) = ToSet(f) \cup ToSet(save)
  BY <1>8, <1>10, JoinTyped
<1>13. AddsFirst(l, todo, nets, host)
  <2>1. \A i \in 1..Len(save) : save[i] \in ToSet(save)
    BY <1>10 DEF ToSet
  <2>2. AddsFirst(l, save, nets, host)
    BY <1>10, <1>11, <2>1 DEF AddsFirst
  <2> QED BY <1>8, <1>9, <1>10, <2>2, AddsFirstJoin DEF MendsTo
<1> HIDE DEF todo
<1>14. todo \in Seq(RepairsIn(l, nets, file))
  <2>1. ToSet(todo) \subseteq RepairsIn(l, nets, file)
    BY <1>9, <1>10, <1>11, <1>12 DEF MendsTo
  <2> QED BY <1>12, <2>1, SeqWithin
<1>15. ASSUME NEW n \in DOMAIN nets[l], ~Plain(nets[l][n])
       PROVE  Mending(l, n, nets[l][n], todo, nets, file, host)
  <2> DEFINE r == nets[l][n]
  <2>1. n \in NetIds(l) /\ n <= MaxNet
    BY <1>0, <1>3 DEF NetIds
  <2>2. Mending(l, n, r, f, nets, file, host)
    BY <1>9, <1>15, <2>1 DEF MendsTo
  <2> HIDE DEF r
  <2>3. ToSet(f) \subseteq ToSet(todo) /\ \A e \in ToSet(todo) : e.do = "own" => e \in ToSet(f)
    BY <1>10, <1>11, <1>12
  <2>4. Mending(l, n, r, todo, nets, file, host)
    BY <2>2, <2>3, MendingMore
  <2> QED BY <2>4 DEF r
<1>16. CASE todo = << >>
  <2>1. op' = Idle
    BY <1>1, <1>16, BeginFacts
  <2> QED BY <2>1 DEF EnsureInv, Idle
<1>17. CASE todo # << >>
  <2>1. op'.lab = l /\ op'.todo = todo
    <3>1. op' = [kind |-> "ensure", lab |-> l, net |-> 0, todo |-> todo, undo |-> << >>, clean |-> TRUE]
      BY <1>1, <1>17, BeginFacts
    <3> QED BY <3>1
  <2> QED BY <1>1, <1>13, <1>14, <1>15, <1>17, <2>1 DEF EnsureInv
<1> QED BY <1>16, <1>17

\* Every step keeps what ensure_lab_bridges still has to do.
LEMMA EnsureNext == CloudInv /\ HostInv /\ EnsureInv /\ [Next]_vars
                    => EnsureInv' /\ (LabRepaired \/ UNCHANGED vars)
<1> SUFFICES ASSUME CloudInv, HostInv, EnsureInv, [Next]_vars
             PROVE  EnsureInv' /\ (LabRepaired \/ UNCHANGED vars)
  OBVIOUS
<1>0. Idle.kind = "idle"
  BY DEF Idle
<1>1. CASE UNCHANGED vars
  BY <1>1 DEF EnsureInv, vars
<1>2. CASE Step
  BY <1>2, EnsureStep
<1>3. CASE StepFails
  BY <1>3, EnsureFails
<1>4. CASE Crash \/ Reboot
  BY <1>0, <1>4 DEF EnsureInv, LabRepaired, Ends, Crash, Reboot, Dies
<1>5. CASE Startup
  BY <1>0, <1>5 DEF EnsureInv, LabRepaired, Ends, Startup, HostInv
<1>6. CASE OtherHandler
  <2>1. op.kind # "ensure"
    BY <1>0, <1>6, OtherBegins
  <2> SUFFICES EnsureInv'
    BY <2>1 DEF LabRepaired, Ends
  <2> SUFFICES ASSUME NEW l \in Labs,
                      \/ CreateLab(l) \/ EnsureLabBridges(l) \/ DeleteLab(l) \/ RemoveFile(l)
                      \/ \E n \in NetIds(l) :
                           \/ DeleteNetwork(l, n)
                           \/ \E type \in {"linux_bridge", "nat_cloud"}, cidr \in Asked :
                                PatchNetwork(l, n, type, cidr)
               PROVE  EnsureInv'
    BY <1>6 DEF OtherHandler
  <2>2. CASE EnsureLabBridges(l)
    BY <2>2, EnsureBegins
  <2>3. CASE ~EnsureLabBridges(l)
    <3>1. \E kind \in {"lab", "delete", "patch"} : \E n, todo, undo : Begin(kind, l, n, todo, undo)
      BY <2>3 DEF CreateLab, DeleteLab, RemoveFile, DeleteNetwork, PatchNetwork
    <3>2. op' = Idle \/ op'.kind \in {"lab", "delete", "patch"}
      BY <3>1, BeginFacts
    <3> QED BY <1>0, <3>2 DEF EnsureInv
  <2> QED BY <2>2, <2>3
<1>7. CASE CreateHandler
  <2>1. PICK l \in Labs, r \in NetRecord : Creates(l, r)
    BY <1>7, CreateHandlerBegins
  <2>2. \E n, todo, undo : Begin("create", l, n, todo, undo)
    BY <2>1 DEF Creates, CreateRecord
  <2>3. op = Idle /\ (op' = Idle \/ op'.kind = "create")
    BY <2>2, BeginFacts
  <2> QED BY <1>0, <2>3 DEF EnsureInv, LabRepaired, Ends
<1> QED BY <1>1, <1>2, <1>3, <1>4, <1>5, <1>6, <1>7, NextKinds

\* OpenRepairs, for every number of labs, networks and faults: when
\* ensure_lab_bridges ends without a failed command, each bridge of the lab is
\* up and carries a fingerprint, and where it is the network's own and no
\* second record has the bridge, its subnet is routed, whatever crashes,
\* reboots and half-done creates came before.
THEOREM OpeningRepairs == Spec => OpenRepairs
<1>1. Init => EnsureInv
  BY DEF Init, EnsureInv, Idle
<1>2. CloudInv /\ HostInv /\ EnsureInv /\ [Next]_vars => EnsureInv' /\ (LabRepaired \/ UNCHANGED vars)
  BY EnsureNext
<1>3. BridgeInv => CloudInv /\ HostInv
  BY DEF BridgeInv
<1>4. Spec => [](CloudInv /\ HostInv)
  BY <1>3, BridgesSafe, PTL
<1>5. Spec => []EnsureInv
  BY <1>1, <1>2, <1>4, PTL DEF Spec
<1> QED BY <1>2, <1>4, <1>5, PTL DEF Spec, OpenRepairs
==============================================================================
