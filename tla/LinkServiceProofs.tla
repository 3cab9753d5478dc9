-------------------------- MODULE LinkServiceProofs --------------------------
(***************************************************************************)
(* Proofs about LinkService, for every lab, every number of requests and   *)
(* start_node threads and every bound.                                     *)
(***************************************************************************)
EXTENDS LinkService, LabJsonProofs

(***************************************************************************)
(* The inductive invariant.  LocksTaken is what the other parts lack: a    *)
(* request owns the distinct ports it has locked so far and no other, and  *)
(* those are the ports of its endpoints.  Without it a link from a port to *)
(* itself could not be excluded.                                           *)
(***************************************************************************)
OwnsLocked(r) ==
  /\ req[r].pc = "idle" => req[r].held = 0
  /\ req[r].pc # "idle" => /\ req[r].ends \in Endpoints \X Endpoints
                           /\ req[r].keys = LockOrder(req[r].ends[1], req[r].ends[2])
  /\ \A i \in 1..req[r].held : mutex[req[r].keys[i]] = r
  /\ \A p \in Ports : mutex[p] = r => \E i \in 1..req[r].held : p = req[r].keys[i]
  /\ \A i, j \in 1..req[r].held : req[r].keys[i] = req[r].keys[j] => i = j
  /\ req[r].pc = "publish" => HasAllLocks(r)
  /\ req[r].pc = "wait" => ~HasAllLocks(r)

LocksTaken == \A r \in Reqs : OwnsLocked(r)

LocksTyped == /\ mutex \in [Ports -> Reqs \cup {None}] /\ loop \in Reqs \cup {None}
              /\ req \in [Reqs -> Request] /\ \A r \in Reqs : req[r].held <= Len(req[r].keys)

LockInv == LocksTyped /\ LocksTaken

RuntimeTyped ==
  /\ rec \in [Nodes -> BOOLEAN] /\ cont \in [Nodes -> BOOLEAN]
  /\ att \in [Ports -> Attachment] /\ cur \in [Ports -> 0..MaxGen]
  /\ veth \in [Ports -> NetOrNone \cup {0}]
  /\ bridge \in [NetIds -> {"absent", "bare", "owned"}]
  /\ start \in [Starters -> StartThread]

\* The type invariant, split into the parts that different actions touch.
LEMMA TypeOKParts ==
  TypeOK <=> lab \in Lab /\ RuntimeTyped /\ LocksTyped /\ cache \in Seq(Keys)
BY DEF TypeOK, RuntimeTyped, LocksTyped
------------------------------------------------------------------------------
(***************************************************************************)
(* The mutex steps                                                         *)
(***************************************************************************)
\* create_link's lock list: the node interfaces among the two endpoints.
LEMMA LockOrderType ==
  ASSUME NEW a \in Endpoints, NEW b \in Endpoints
  PROVE  LockOrder(a, b) \in Seq(Ports)
<1>1. (IsPort(a) => a \in Ports) /\ (IsPort(b) => b \in Ports)
  BY EndpointKinds
<1> QED BY <1>1 DEF LockOrder

\* Changing where a request is, or how many ports it holds.
LEMMA RequestMoved ==
  ASSUME NEW q \in Request, NEW pc \in {"lock", "wait", "woken", "publish"}, NEW h \in Nat
  PROVE  [q EXCEPT !.pc = pc] \in Request /\ [q EXCEPT !.held = h, !.pc = pc] \in Request
<1> DEFINE E == {<<>>} \cup (Endpoints \X Endpoints)
           K == Seq(Ports)
           L == 0..MaxLink
           Y == Keys \cup {NoKey}
<1>1. Request = [pc : {"idle", "lock", "wait", "woken", "publish"},
                 op : {"none", "create", "delete"}, link : L, ends : E, key : Y,
                 keys : K, held : Nat]
  BY DEF Request
<1> HIDE DEF E, K, L, Y
<1> QED BY <1>1

\* A request that does not move keeps its locks when its mutexes stay.
LEMMA BystanderOwns ==
  ASSUME NEW q \in Reqs, OwnsLocked(q), req'[q] = req[q],
         \A i \in 1..req[q].held : mutex'[req[q].keys[i]] = q,
         \A p \in Ports : mutex'[p] = q => mutex[p] = q
  PROVE  OwnsLocked(q)'
BY DEF OwnsLocked, HasAllLocks

\* A request starts with no port locked.
LEMMA BeginLocks ==
  ASSUME LockInv, NEW r \in Reqs, req[r].pc = "idle", NEW op \in {"create", "delete"}, NEW link \in 0..MaxLink,
         NEW ends \in Endpoints \X Endpoints, NEW key \in Keys \cup {NoKey},
         Begin(r, op, link, ends, key), UNCHANGED mutex
  PROVE  LockInv'
<1>1. LockOrder(ends[1], ends[2]) \in Seq(Ports)
  BY LockOrderType
<1>2. LocksTyped'
  BY <1>1 DEF LockInv, LocksTyped, Begin, Request
<1>3. LocksTaken'
  BY DEF LockInv, LocksTyped, LocksTaken, OwnsLocked, Begin, HasAllLocks
<1> QED BY <1>2, <1>3 DEF LockInv

\* Taking a free port keeps what others hold.
LEMMA AcquireLocks ==
  ASSUME LockInv, NEW r \in Reqs, req[r].pc \in {"lock", "wait"}, ~HasAllLocks(r),
         mutex[WantedPort(r)] = None, NEW pc \in {"lock", "woken"},
         mutex' = [mutex EXCEPT ![WantedPort(r)] = r],
         req' = [req EXCEPT ![r].held = @ + 1, ![r].pc = pc],
         loop' = loop
  PROVE  LockInv'
<1>1. /\ req[r] \in Request /\ req[r].keys \in Seq(Ports) /\ req[r].held \in Nat
      /\ req[r].held < Len(req[r].keys) /\ WantedPort(r) \in Ports
  BY DEF LockInv, LocksTyped, HasAllLocks, WantedPort, Request
<1>2. LocksTyped'
  <2>1. [req[r] EXCEPT !.held = @ + 1, !.pc = pc] \in Request
    <3>1. req[r].held + 1 \in Nat /\ pc \in {"lock", "wait", "woken", "publish"}
      BY <1>1
    <3> QED BY <1>1, <3>1, RequestMoved
  <2>2. req' = [req EXCEPT ![r] = [req[r] EXCEPT !.held = @ + 1, !.pc = pc]]
    BY DEF LockInv, LocksTyped
  <2>3. req' \in [Reqs -> Request]
    BY <2>1, <2>2 DEF LockInv, LocksTyped
  <2>4. \A q \in Reqs : req'[q].held <= Len(req'[q].keys)
    BY <1>1, <2>2 DEF LockInv, LocksTyped, Request
  <2>5. mutex' \in [Ports -> Reqs \cup {None}]
    BY DEF LockInv, LocksTyped
  <2> QED BY <2>3, <2>4, <2>5 DEF LockInv, LocksTyped
<1>3. ASSUME NEW q \in Reqs, q # r
      PROVE  req'[q] = req[q] /\ \A i \in 1..req[q].held : mutex'[req[q].keys[i]] = q
  <2>1. req'[q] = req[q]
    BY <1>3 DEF LockInv, LocksTyped
  <2>2. ASSUME NEW i \in 1..req[q].held PROVE mutex'[req[q].keys[i]] = q
    <3>1. mutex[req[q].keys[i]] = q
      BY <2>2 DEF LockInv, LocksTaken, OwnsLocked
    <3>2. req[q].keys[i] \in Ports
      BY DEF LockInv, LocksTyped, Request
    <3>3. req[q].keys[i] # WantedPort(r)
      BY <3>1, ServiceConstants
    <3> QED BY <1>1, <3>1, <3>2, <3>3 DEF LockInv, LocksTyped
  <2> QED BY <2>1, <2>2
<1>4. /\ req'[r].held = req[r].held + 1 /\ req'[r].keys = req[r].keys /\ req'[r].ends = req[r].ends
      /\ req'[r].pc = pc
  BY <1>1 DEF LockInv, LocksTyped, Request
<1>5. /\ \A i \in 1..req'[r].held : mutex'[req'[r].keys[i]] = r
      /\ \A i, j \in 1..req'[r].held : req'[r].keys[i] = req'[r].keys[j] => i = j
  <2>1. \A i \in 1..req[r].held : mutex[req[r].keys[i]] = r /\ req[r].keys[i] # WantedPort(r)
    BY ServiceConstants DEF LockInv, LocksTaken, OwnsLocked
  <2>2. req[r].keys[req[r].held + 1] = WantedPort(r)
    BY DEF WantedPort
  <2>3. \A i \in 1..(req[r].held + 1) : i \in 1..req[r].held \/ i = req[r].held + 1
    BY <1>1
  <2>4. \A i \in 1..(req[r].held + 1) : req[r].keys[i] \in Ports
    BY <1>1
  <2>5. \A i \in 1..(req[r].held + 1) : mutex'[req[r].keys[i]] = r
    BY <1>1, <2>1, <2>2, <2>3, <2>4 DEF LockInv, LocksTyped
  <2>6. \A i, j \in 1..(req[r].held + 1) : req[r].keys[i] = req[r].keys[j] => i = j
    BY <2>1, <2>2, <2>3 DEF LockInv, LocksTaken, OwnsLocked
  <2> QED BY <1>4, <2>5, <2>6, ZenonT(40)
<1>6. ASSUME NEW q \in Reqs, q # r PROVE OwnsLocked(q)'
  <2>1. req'[q] = req[q] /\ \A i \in 1..req[q].held : mutex'[req[q].keys[i]] = q
    BY <1>3, <1>6
  <2>2. OwnsLocked(q)
    BY DEF LockInv, LocksTaken
  <2>3. \A p \in Ports : mutex'[p] = q => mutex[p] = q
    BY <1>6 DEF LockInv, LocksTyped
  <2> QED BY <2>1, <2>2, <2>3, BystanderOwns
<1>7. OwnsLocked(r)'
  <2>1. OwnsLocked(r)
    BY DEF LockInv, LocksTaken
  <2>2. ASSUME NEW p \in Ports, mutex'[p] = r
        PROVE  \E i \in 1..req'[r].held : p = req'[r].keys[i]
    <3>1. CASE p = WantedPort(r)
      <4>1. req[r].held + 1 \in 1..req'[r].held
        BY <1>1, <1>4
      <4> QED BY <1>4, <3>1, <4>1 DEF WantedPort
    <3>2. CASE p # WantedPort(r)
      <4>1. mutex[p] = r
        BY <2>2, <3>2 DEF LockInv, LocksTyped
      <4>2. PICK i \in 1..req[r].held : p = req[r].keys[i]
        BY <2>1, <4>1 DEF OwnsLocked
      <4>3. i \in 1..req'[r].held
        BY <1>1, <1>4
      <4> QED BY <1>4, <4>2, <4>3
    <3> QED BY <3>1, <3>2
  <2>3. \A p \in Ports : mutex'[p] = r => \E i \in 1..req'[r].held : p = req'[r].keys[i]
    BY <2>2
  <2>4. /\ pc # "idle" /\ pc # "publish" /\ pc # "wait" /\ req[r].pc # "idle"
    OBVIOUS
  <2>5. req'[r].ends \in Endpoints \X Endpoints /\ req'[r].keys = LockOrder(req'[r].ends[1], req'[r].ends[2])
    BY <1>4, <2>1, <2>4 DEF OwnsLocked
  <2> QED BY <1>4, <1>5, <2>3, <2>4, <2>5 DEF OwnsLocked
<1> QED BY <1>2, <1>6, <1>7 DEF LockInv, LocksTaken

\* A step that moves one request on, and touches no mutex.
LEMMA MoveLocks ==
  ASSUME LockInv, NEW r \in Reqs, req[r].pc # "idle", NEW pc \in {"lock", "wait", "publish"},
         pc = "publish" => HasAllLocks(r), pc = "wait" => ~HasAllLocks(r),
         req' = [req EXCEPT ![r].pc = pc], UNCHANGED mutex, loop' \in Reqs \cup {None}
  PROVE  LockInv'
<1>1. LocksTyped'
  <2>1. req[r] \in Request /\ [req[r] EXCEPT !.pc = pc] \in Request
    BY RequestMoved DEF LockInv, LocksTyped
  <2>2. req' = [req EXCEPT ![r] = [req[r] EXCEPT !.pc = pc]]
    BY DEF LockInv, LocksTyped
  <2>3. req' \in [Reqs -> Request]
    BY <2>1, <2>2 DEF LockInv, LocksTyped
  <2>4. \A q \in Reqs : req'[q].held <= Len(req'[q].keys)
    BY <2>1, <2>2 DEF LockInv, LocksTyped, Request
  <2> QED BY <2>3, <2>4 DEF LockInv, LocksTyped
<1>2. req[r] \in Request /\ req' \in [Reqs -> Request]
  BY <1>1 DEF LockInv, LocksTyped
<1>3. /\ req'[r].held = req[r].held /\ req'[r].keys = req[r].keys /\ req'[r].ends = req[r].ends
      /\ req'[r].pc = pc
  BY <1>2 DEF LockInv, LocksTyped, Request
<1>4. \A q \in Reqs : q # r => req'[q] = req[q]
  BY DEF LockInv, LocksTyped
<1>5. LocksTaken'
  BY <1>3, <1>4 DEF LockInv, LocksTaken, OwnsLocked, HasAllLocks
<1> QED BY <1>1, <1>5 DEF LockInv

\* Ending a request releases its ports and nobody else's.
LEMMA EndLocks ==
  ASSUME LockInv, NEW r \in Reqs, EndRequest(r)
  PROVE  LockInv'
<1>1. IdleReq \in Request /\ IdleReq.held = 0 /\ IdleReq.keys = <<>> /\ IdleReq.pc = "idle"
  BY LabConstants DEF IdleReq, Request
<1>2. LocksTyped'
  BY <1>1 DEF LockInv, LocksTyped, EndRequest
<1>3. req'[r] = IdleReq /\ \A q \in Reqs : q # r => req'[q] = req[q]
  BY DEF LockInv, LocksTyped, EndRequest
<1>4. \A q \in Reqs : q # r => \A i \in 1..req[q].held : mutex'[req[q].keys[i]] = q
  <2>1. ASSUME NEW q \in Reqs, q # r, NEW i \in 1..req[q].held PROVE mutex'[req[q].keys[i]] = q
    <3>1. mutex[req[q].keys[i]] = q
      BY DEF LockInv, LocksTaken, OwnsLocked
    <3>2. req[q].keys[i] \in Ports
      BY DEF LockInv, LocksTyped, Request
    <3> QED BY <2>1, <3>1, <3>2 DEF EndRequest
  <2> QED BY <2>1
<1>5. ASSUME NEW q \in Reqs, q # r PROVE OwnsLocked(q)'
  <2>1. \A p \in Ports : mutex'[p] = q => mutex[p] = q
    BY ServiceConstants, <1>5 DEF EndRequest
  <2>2. OwnsLocked(q)
    BY DEF LockInv, LocksTaken
  <2> QED BY <1>3, <1>4, <1>5, <2>1, <2>2, BystanderOwns
<1>6. OwnsLocked(r)'
  <2>1. \A p \in Ports : mutex'[p] # r
    BY ServiceConstants DEF EndRequest
  <2> QED BY <1>1, <1>3, <2>1 DEF OwnsLocked, HasAllLocks
<1> QED BY <1>2, <1>5, <1>6 DEF LockInv, LocksTaken
------------------------------------------------------------------------------
(***************************************************************************)
(* create_link                                                             *)
(***************************************************************************)
IInv == Sound(lab) /\ RuntimeTyped /\ LockInv /\ cache \in Seq(Keys)

\* A request that holds all its locks has two different ports: it could not
\* have locked the same one twice.
LEMMA LockedPortsDiffer ==
  ASSUME LockInv, NEW r \in Reqs, req[r].pc # "idle", HasAllLocks(r)
  PROVE  /\ req[r].ends[1] \in Endpoints /\ req[r].ends[2] \in Endpoints
         /\ BothPorts(req[r].ends[1], req[r].ends[2]) => req[r].ends[1] # req[r].ends[2]
<1> DEFINE a == req[r].ends[1]
           b == req[r].ends[2]
<1>1. OwnsLocked(r) /\ a \in Endpoints /\ b \in Endpoints /\ req[r].keys = LockOrder(a, b)
  BY DEF LockInv, LocksTaken, OwnsLocked
<1>2. ASSUME BothPorts(a, b), a = b PROVE FALSE
  <2>1. req[r].keys = <<a, a>>
    BY <1>1, <1>2 DEF LockOrder, BothPorts
  <2>2. req[r].held = 2
    BY <2>1 DEF HasAllLocks
  <2>3. 1 \in 1..req[r].held /\ 2 \in 1..req[r].held
    BY <2>2
  <2>4. req[r].keys[1] = req[r].keys[2]
    BY <2>1
  <2> QED BY <1>1, <2>3, <2>4 DEF OwnsLocked
<1> QED BY <1>1, <1>2

\* What an admitted request writes to lab.json keeps it sound.
LEMMA AdmittedFacts ==
  ASSUME IInv, NEW r \in Reqs, Admitted(r),
         NEW a, a = req[r].ends[1], NEW b, b = req[r].ends[2]
  PROVE  /\ Sound(Edited(a, b)) /\ JoinedNet(a, b) \in NetIds
         /\ Targets(a, b) \subseteq Ports /\ \A p \in Targets(a, b) : cur[p] < MaxGen
         /\ HasAllLocks(r) /\ req[r].pc = "lock"
<1>1. HasAllLocks(r) /\ req[r].pc = "lock" /\ ~Conflict(a, b) /\ Fits(a, b)
  BY DEF Admitted, InCreate, Running
<1>2. a \in Endpoints /\ b \in Endpoints /\ (BothPorts(a, b) => a # b)
  BY <1>1, LockedPortsDiffer DEF IInv
<1>3. \A l \in lab.links : \A p \in {a, b} \cap Ports : ~Touches(l, p)
  BY <1>1 DEF Conflict
<1>4. Targets(a, b) \subseteq Ports /\ \A p \in Targets(a, b) : cur[p] < MaxGen
  BY <1>1 DEF Targets, Fits
<1>5. lab \in Lab /\ MaxNet \in Nat /\ NextLinkId(lab) \in Nat
  BY LabConstants, NextLinkIdFresh DEF IInv, Sound
<1>6. CASE BothPorts(a, b)
  <2>1. a \in Ports /\ b \in Ports
    BY <1>2, <1>6, EndpointKinds DEF BothPorts
  <2>2. NextLinkId(lab) + 1 <= MaxLink /\ NextNetworkId(lab) <= MaxNet
    BY <1>1, <1>6 DEF Fits, JoinedNet
  <2>3. Sound(AddImplicitPair(lab, a, b))
    BY <1>2, <1>3, <1>6, <2>1, <2>2, AddImplicitPairSound DEF IInv
  <2>4. NextNetworkId(lab) \in NetIds
    BY <1>5, <2>2, NextNetworkIdFresh DEF NetIds
  <2> QED BY <1>1, <1>4, <1>6, <2>3, <2>4 DEF Edited, JoinedNet
<1>7. CASE ~BothPorts(a, b)
  <2>1. NextLinkId(lab) <= MaxLink
    BY <1>1, <1>5, <1>7 DEF Fits
  <2>2. Sound(JoinNetwork(lab, a, b))
    BY <1>2, <1>3, <1>7, <2>1, JoinNetworkSound DEF IInv, BothPorts
  <2>3. TargetNet(a, b) \in NetIds
    BY <1>2, <1>7, EndpointKinds DEF TargetNet, BothPorts
  <2> QED BY <1>1, <1>4, <1>7, <2>2, <2>3 DEF Edited, JoinedNet
<1> QED BY <1>6, <1>7

\* Generations grow by one, within the bound, on the ports that are attached.
LEMMA AttachTypes ==
  ASSUME RuntimeTyped, NEW S \in SUBSET Ports, NEW k \in NetIds, \A p \in S : cur[p] < MaxGen
  PROVE  Attached(S, k) \in [Ports -> Attachment] /\ Bumped(S, k) \in [Ports -> 0..MaxGen]
<1>1. ASSUME NEW p \in S PROVE cur[p] + 1 \in 0..MaxGen
  BY ServiceConstants DEF RuntimeTyped
<1> QED BY <1>1 DEF Attached, Bumped, RuntimeTyped, Attachment, NetOrNone

\* A request that goes on to publish keeps the locks it has.
LEMMA PublishLocks ==
  ASSUME LockInv, NEW r \in Reqs, req[r].pc = "lock", HasAllLocks(r), StartPublishing(r)
  PROVE  LockInv'
<1>1. req' = [req EXCEPT ![r].pc = "publish"] /\ UNCHANGED mutex /\ loop' \in Reqs \cup {None}
  BY DEF StartPublishing
<1> QED BY <1>1, MoveLocks

\* create_link on stopped nodes: the in-use check keeps the document sound.
LEMMA CreateOfflineKeeps ==
  ASSUME IInv, NEW r \in Reqs, CreateOffline(r) PROVE IInv'
<1> DEFINE a == req[r].ends[1]
           b == req[r].ends[2]
<1>1. Admitted(r) /\ lab' = Edited(a, b) /\ StartPublishing(r) /\ UNCHANGED <<cache, runtime, host, start>>
  BY DEF CreateOffline
<1>2. Sound(Edited(a, b)) /\ HasAllLocks(r) /\ req[r].pc = "lock"
  BY <1>1, AdmittedFacts
<1>3. LockInv'
  BY <1>1, <1>2, PublishLocks DEF IInv
<1>4. Sound(lab)'
  BY <1>1, <1>2
<1> QED BY <1>1, <1>3, <1>4 DEF IInv, RuntimeTyped, runtime, host

\* create_link with a hot-attach: as above, and the stamped document too.
LEMMA CreateAttachedKeeps ==
  ASSUME IInv, NEW r \in Reqs, CreateAttached(r) PROVE IInv'
<1> DEFINE a == req[r].ends[1]
           b == req[r].ends[2]
           k == JoinedNet(a, b)
           S == Targets(a, b)
<1>1. /\ Admitted(r) /\ StartPublishing(r) /\ UNCHANGED <<cache, rec, cont, start>>
      /\ att' = Attached(S, k) /\ cur' = Bumped(S, k)
      /\ veth' = [p \in Ports |-> IF p \in S /\ ~Kept(p, k) THEN k ELSE veth[p]]
      /\ bridge' = [bridge EXCEPT ![k] = IF @ = "absent" THEN Provisioned(a, b) ELSE @]
      /\ lab' = StampGenerations(Edited(a, b), S, k, att')
  BY DEF CreateAttached
<1>2. /\ Sound(Edited(a, b)) /\ HasAllLocks(r) /\ req[r].pc = "lock"
      /\ k \in NetIds /\ S \subseteq Ports /\ \A p \in S : cur[p] < MaxGen
  BY <1>1, AdmittedFacts
<1>3. LockInv'
  BY <1>1, <1>2, PublishLocks DEF IInv
<1>4. att' \in [Ports -> Attachment] /\ cur' \in [Ports -> 0..MaxGen]
  BY <1>1, <1>2, AttachTypes DEF IInv
<1> HIDE DEF k, S
<1>5. veth' \in [Ports -> NetOrNone \cup {0}]
  BY <1>1, <1>2 DEF IInv, RuntimeTyped, NetOrNone
<1>6. bridge' \in [NetIds -> {"absent", "bare", "owned"}]
  BY <1>1, <1>2 DEF IInv, RuntimeTyped, Provisioned
<1>7. Sound(lab')
  <2>1. \A p \in S : att'[p].gen \in Nat
    BY <1>2, <1>4, ServiceConstants DEF Attachment
  <2> QED BY <1>1, <1>2, <2>1, StampSound
<1> QED BY <1>1, <1>3, <1>4, <1>5, <1>6, <1>7 DEF IInv, RuntimeTyped

\* create_link that cannot make its bridge restores the document.
LEMMA CreateNoBridgeKeeps ==
  ASSUME IInv, NEW r \in Reqs, CreateNoBridge(r) PROVE IInv'
<1> DEFINE a == req[r].ends[1]
           b == req[r].ends[2]
<1>1. Admitted(r) /\ EndRequest(r) /\ UNCHANGED <<json, runtime, veth, start>>
      /\ (UNCHANGED bridge \/ bridge' = [bridge EXCEPT ![JoinedNet(a, b)] = "bare"])
  BY DEF CreateNoBridge
<1>2. LockInv'
  BY <1>1, EndLocks DEF IInv
<1> QED BY <1>1, <1>2 DEF IInv, RuntimeTyped, json, runtime

\* create_link whose attach fails: the rollback restores the document and keeps
\* the runtime state typed.
LEMMA CreateRolledBackKeeps ==
  ASSUME IInv, NEW r \in Reqs, CreateRolledBack(r) PROVE IInv'
<1> DEFINE a == req[r].ends[1]
           b == req[r].ends[2]
           k == JoinedNet(a, b)
           T == Targets(a, b)
<1>1. /\ Admitted(r) /\ EndRequest(r) /\ UNCHANGED <<json, rec, cont, start>>
      /\ UNCHANGED bridge \/ bridge' = [bridge EXCEPT ![k] = Provisioned(a, b)]
  BY DEF CreateRolledBack
<1>2. k \in NetIds /\ T \subseteq Ports /\ \A p \in T : cur[p] < MaxGen
  BY <1>1, AdmittedFacts
<1> DEFINE stale == {p \in T : Stale(p, k)}
           before(f) == T \cap ({a} \ {f})
           gone(f, u) == before(f) \cup (stale \ u)
           swept(f, u) == before(f) \cup ({f} \ u)
<1>3. PICK f \in T, u \in IF HostFaults THEN SUBSET stale ELSE {{}} :
        /\ att' = [p \in Ports |-> IF p \in gone(f, u) THEN Unattached ELSE att[p]]
        /\ \E left \in IF HostFaults THEN SUBSET swept(f, u) ELSE {{}} :
             veth' = [p \in Ports |-> IF p \in left THEN k
                                     ELSE IF p \in gone(f, u) \cup swept(f, u) THEN None ELSE veth[p]]
        /\ cur' = Bumped(before(f), k)
  BY ZenonT(40) DEF CreateRolledBack
<1> HIDE DEF k, T, stale, gone, swept
<1>4. LockInv'
  BY <1>1, EndLocks DEF IInv
<1>5. att' \in [Ports -> Attachment]
  BY <1>3, ServiceConstants DEF IInv, RuntimeTyped, Unattached, Attachment, NetOrNone
<1>6. veth' \in [Ports -> NetOrNone \cup {0}]
  BY <1>2, <1>3 DEF IInv, RuntimeTyped, NetOrNone
<1>7. cur' \in [Ports -> 0..MaxGen]
  BY <1>2, <1>3, AttachTypes DEF IInv
<1>8. bridge' \in [NetIds -> {"absent", "bare", "owned"}]
  BY <1>1, <1>2 DEF IInv, RuntimeTyped, Provisioned
<1> QED BY <1>1, <1>4, <1>5, <1>6, <1>7, <1>8 DEF IInv, RuntimeTyped, json
------------------------------------------------------------------------------
(***************************************************************************)
(* The other steps of a link request                                       *)
(***************************************************************************)
LEMMA EndKeeps ==
  ASSUME IInv, NEW r \in Reqs, EndRequest(r), UNCHANGED <<json, runtime, host, start>>
  PROVE  IInv'
<1>1. LockInv'
  BY EndLocks DEF IInv
<1> QED BY <1>1 DEF IInv, RuntimeTyped, json, runtime, host

\* The cache stays a sequence of keys.
LEMMA MostRecentType ==
  ASSUME NEW c \in Seq(Keys), NEW k \in Keys
  PROVE  MostRecent(c, k) \in Seq(Keys) /\ Trim(MostRecent(c, k)) \in Seq(Keys)
<1> DEFINE m == MostRecent(c, k)
<1>1. ASSUME Cached(c, k) PROVE m \in Seq(Keys)
  <2> DEFINE i == CHOOSE x \in DOMAIN c : c[x] = k
  <2>1. i \in 1..Len(c)
    BY <1>1 DEF Cached
  <2> HIDE DEF i
  <2>2. \A j \in 1..Len(c) : MoveToEnd(c, i)[j] \in Keys
    BY <2>1 DEF MoveToEnd
  <2>3. MoveToEnd(c, i) \in Seq(Keys)
    BY <2>1 DEF MoveToEnd
  <2> QED BY <1>1, <2>3 DEF MostRecent, i
<1>2. ASSUME ~Cached(c, k) PROVE m \in Seq(Keys)
  BY <1>2 DEF MostRecent
<1>3. m \in Seq(Keys)
  BY <1>1, <1>2
<1> HIDE DEF m
<1>4. Trim(m) \in Seq(Keys)
  BY <1>3, ServiceConstants DEF Trim
<1> QED BY <1>3, <1>4 DEF m

\* The end of a request releases its own mutexes and no others.
LEMMA FinishKeeps ==
  ASSUME IInv, NEW r \in Reqs, Finish(r) PROVE IInv'
<1>1. LockInv'
  BY EndLocks DEF IInv, Finish
<1>2. req[r].key \in Keys \cup {NoKey}
  BY DEF IInv, LockInv, LocksTyped, Request
<1>3. cache' \in Seq(Keys)
  BY <1>2, MostRecentType DEF Finish, IInv
<1> QED BY <1>1, <1>3 DEF IInv, RuntimeTyped, Finish, runtime, host

\* delete_link: detach, then the document without the link.
LEMMA DeleteDoneKeeps ==
  ASSUME IInv, NEW r \in Reqs, DeleteDone(r) PROVE IInv'
<1>1. InDelete(r) /\ StartPublishing(r) /\ UNCHANGED <<cache, rec, cont, cur, bridge, start>>
  BY DEF DeleteDone
<1>2. LockInv'
  BY <1>1, PublishLocks DEF IInv, InDelete, Running
<1>3. PICK l \in LinkNamed(req[r].link) :
        /\ IF HasRecord(l) /\ ~DetachSkipped(l)
             THEN /\ att' = [att EXCEPT ![PortOf(l)] = Unattached]
                  /\ veth' = [veth EXCEPT ![PortOf(l)] = None]
             ELSE UNCHANGED <<att, veth>>
        /\ lab' = RemoveLink(lab, l)
  BY DEF DeleteDone
<1>4. Sound(lab)'
  BY <1>3, RemoveLinkSound DEF IInv, LinkNamed
<1>5. att' \in [Ports -> Attachment]
  <2>1. Unattached \in Attachment
    BY ServiceConstants DEF Unattached, Attachment, NetOrNone
  <2> QED BY <1>3, <2>1 DEF IInv, RuntimeTyped
<1>6. veth' \in [Ports -> NetOrNone \cup {0}]
  BY <1>3 DEF IInv, RuntimeTyped, NetOrNone
<1> QED BY <1>1, <1>2, <1>4, <1>5, <1>6 DEF IInv, RuntimeTyped

\* Every step of a link request keeps the invariant.
LEMMA LinkStepKeeps ==
  ASSUME IInv, NEW r \in Reqs, LinkStep(r) PROVE IInv'
<1>1. ASSUME NEW pr \in Pairs, NEW key \in Keys \cup {NoKey}, CreateBegin(r, pr, key) PROVE IInv'
  <2>1. LockInv'
    BY <1>1, BeginLocks, ServiceConstants, LabConstants DEF CreateBegin, IInv
  <2> QED BY <1>1, <2>1 DEF IInv, CreateBegin, RuntimeTyped, json, runtime, host
<1>2. ASSUME NEW id \in LinkIds, DeleteBegin(r, id) PROVE IInv'
  <2>1. PICK l \in lab.links : Begin(r, "delete", id, <<l.a, l.b>>, NoKey)
    BY <1>2 DEF DeleteBegin, LinkNamed
  <2>2. <<l.a, l.b>> \in Endpoints \X Endpoints /\ id \in 0..MaxLink
    BY LabConstants DEF IInv, Sound, Lab, Link, LinkIds
  <2>3. LockInv'
    BY <1>2, <2>1, <2>2, BeginLocks DEF DeleteBegin, IInv
  <2> QED BY <1>2, <2>3 DEF IInv, DeleteBegin, RuntimeTyped, json, runtime, host
<1>3. ASSUME AcquireFree(r) PROVE IInv'
  <2>1. req[r].pc = "lock" /\ req' = [req EXCEPT ![r].held = @ + 1, ![r].pc = "lock"]
    BY <1>3, ZenonT(40) DEF AcquireFree, Running, IInv, LockInv, LocksTyped, Request
  <2>2. LockInv'
    BY <1>3, <2>1, AcquireLocks DEF AcquireFree, IInv
  <2> QED BY <1>3, <2>2 DEF IInv, AcquireFree, RuntimeTyped, json, runtime, host
<1>4. ASSUME AcquireContended(r) PROVE IInv'
  <2>1. LockInv'
    BY <1>4, MoveLocks DEF AcquireContended, Running, IInv
  <2> QED BY <1>4, <2>1 DEF IInv, AcquireContended, RuntimeTyped, json, runtime, host
<1>5. ASSUME ExecutorAcquire(r) PROVE IInv'
  <2>1. ~HasAllLocks(r)
    BY <1>5 DEF ExecutorAcquire, IInv, LockInv, LocksTaken, OwnsLocked
  <2>2. LockInv'
    BY <1>5, <2>1, AcquireLocks DEF ExecutorAcquire, IInv
  <2> QED BY <1>5, <2>2 DEF IInv, ExecutorAcquire, RuntimeTyped, json, runtime, host
<1>6. ASSUME Resume(r) PROVE IInv'
  <2>1. LockInv'
    BY <1>6, MoveLocks DEF Resume, IInv
  <2> QED BY <1>6, <2>1 DEF IInv, Resume, RuntimeTyped, json, runtime, host
<1>7. ASSUME AcquireTimeout(r) \/ CreateRefused(r) \/ DeleteVanished(r) \/ DeleteFailed(r) PROVE IInv'
  BY <1>7, EndKeeps DEF AcquireTimeout, CreateRefused, DeleteVanished, DeleteFailed
<1> QED BY <1>1, <1>2, <1>3, <1>4, <1>5, <1>6, <1>7, CreateOfflineKeeps, CreateAttachedKeeps,
          CreateNoBridgeKeeps, CreateRolledBackKeeps, DeleteDoneKeeps, FinishKeeps DEF LinkStep
------------------------------------------------------------------------------
(***************************************************************************)
(* start_node, the node handlers and the network handlers                  *)
(***************************************************************************)
\* A step that leaves the requests and their mutexes alone.
LEMMA OthersKeep ==
  ASSUME IInv, Sound(lab)', RuntimeTyped', cache' \in Seq(Keys), UNCHANGED <<mutex, loop, req>>
  PROVE  IInv'
BY DEF IInv, LockInv, LocksTyped, LocksTaken, OwnsLocked, HasAllLocks

\* The record a start writes is well typed.
LEMMA InstallRecordTypes ==
  ASSUME RuntimeTyped, NEW n, NEW wires \in [Ports -> NetOrNone], InstallRecord(n, wires)
  PROVE  /\ rec' \in [Nodes -> BOOLEAN] /\ att' \in [Ports -> Attachment]
         /\ cur' \in [Ports -> 0..MaxGen]
<1>1. 0 \in 0..MaxGen
  BY ServiceConstants
<1>2. \A p \in Ports : [net |-> wires[p], gen |-> 0] \in Attachment
  BY <1>1 DEF Attachment
<1> QED BY <1>1, <1>2 DEF InstallRecord, RuntimeTyped

\* Every step of a start_node thread keeps the invariant.
LEMMA StartStepKeeps ==
  ASSUME IInv, NEW s \in Starters, StartStep(s) PROVE IInv'
<1>0. /\ start[s] \in StartThread /\ start[s].wires \in [Ports -> NetOrNone]
      /\ start \in [Starters -> StartThread] /\ RuntimeTyped
  BY DEF IInv, RuntimeTyped, StartThread
<1>1. IdleStart \in StartThread
  BY DEF IdleStart, StartThread, NetOrNone
<1>2. ASSUME StartEnd(s) PROVE start' \in [Starters -> StartThread]
  BY <1>0, <1>1, <1>2 DEF StartEnd
<1>3. ASSUME NEW pc \in {"run", "attach", "commit"}, start' = [start EXCEPT ![s].pc = pc]
      PROVE  start' \in [Starters -> StartThread]
  BY <1>0, <1>3 DEF StartThread
<1>4. ASSUME NEW n \in Nodes, StartBegin(s, n) PROVE IInv'
  <2> DEFINE W == [p \in Ports |-> IF p \in LinkedPorts(lab, n) THEN WiredNet(lab, p) ELSE None]
  <2>1. \A p \in LinkedPorts(lab, n) : WiredNet(lab, p) \in NetIds
    <3>1. ASSUME NEW p \in LinkedPorts(lab, n)
          PROVE  \E k \in NetIds : lab.nets[k] # "none" /\
                   \E l \in lab.links : Touches(l, p) /\ Touches(l, NetEp(k))
      BY DEF LinkedPorts
    <3> QED BY <3>1 DEF WiredNet
  <2>2. W \in [Ports -> NetOrNone]
    BY <2>1 DEF NetOrNone
  <2>3. start' = [start EXCEPT ![s] = [pc |-> "check", node |-> n, wires |-> W]]
    BY <1>4 DEF StartBegin
  <2> HIDE DEF W
  <2>4. start' \in [Starters -> StartThread]
    BY <1>0, <2>2, <2>3 DEF StartThread
  <2> QED BY <1>4, <2>4, OthersKeep DEF StartBegin, IInv, RuntimeTyped, json, runtime, host
<1>5. ASSUME StartCheck(s) PROVE IInv'
  <2>1. /\ rec' \in [Nodes -> BOOLEAN] /\ att' \in [Ports -> Attachment]
        /\ cur' \in [Ports -> 0..MaxGen]
    BY <1>0, <1>5, InstallRecordTypes DEF StartCheck, RuntimeTyped
  <2>2. start' \in [Starters -> StartThread]
    BY <1>2, <1>3, <1>5 DEF StartCheck
  <2> QED BY <1>5, <2>1, <2>2, OthersKeep DEF StartCheck, IInv, RuntimeTyped, json, host
<1>6. ASSUME StartRun(s) PROVE IInv'
  <2>1. start' \in [Starters -> StartThread]
    BY <1>3, <1>6 DEF StartRun
  <2> QED BY <1>6, <2>1, OthersKeep DEF StartRun, IInv, RuntimeTyped, json, host
<1>7. ASSUME StartRefused(s) PROVE IInv'
  <2>1. start' \in [Starters -> StartThread]
    BY <1>2, <1>7 DEF StartRefused
  <2> QED BY <1>7, <2>1, OthersKeep DEF StartRefused, IInv, RuntimeTyped, json, runtime, host
<1>8. ASSUME StartAttach(s) PROVE IInv'
  <2>1. start' \in [Starters -> StartThread]
    BY <1>3, <1>8 DEF StartAttach
  <2>2. veth' \in [Ports -> NetOrNone \cup {0}]
    BY <1>0, <1>8 DEF StartAttach, RuntimeTyped
  <2> QED BY <1>8, <2>1, <2>2, OthersKeep DEF StartAttach, IInv, RuntimeTyped, json, runtime
<1>9. ASSUME StartAborted(s) PROVE IInv'
  <2>1. start' \in [Starters -> StartThread]
    BY <1>2, <1>9 DEF StartAborted
  <2>2. veth' \in [Ports -> NetOrNone \cup {0}]
    BY <1>0, <1>9 DEF StartAborted, RuntimeTyped, NetOrNone
  <2> QED BY <1>9, <2>1, <2>2, OthersKeep DEF StartAborted, IInv, RuntimeTyped, json
<1>10. ASSUME StartCommit(s) PROVE IInv'
  <2>1. /\ rec' \in [Nodes -> BOOLEAN] /\ att' \in [Ports -> Attachment]
        /\ cur' \in [Ports -> 0..MaxGen]
    BY <1>0, <1>10, InstallRecordTypes DEF StartCommit
  <2>2. start' \in [Starters -> StartThread]
    BY <1>2, <1>10 DEF StartCommit
  <2> QED BY <1>10, <2>1, <2>2, OthersKeep DEF StartCommit, IInv, RuntimeTyped, json, host
<1> QED BY <1>4, <1>5, <1>6, <1>7, <1>8, <1>9, <1>10 DEF StartStep

\* Stopping a node leaves well-typed runtime state.
LEMMA StoppedTypes ==
  ASSUME RuntimeTyped, NEW n, Stopped(n), UNCHANGED <<bridge, start>>
  PROVE  RuntimeTyped'
<1>1. 0 \in 0..MaxGen /\ Unattached \in Attachment
  BY ServiceConstants DEF Unattached, Attachment, NetOrNone
<1>2. cont' \in [Nodes -> BOOLEAN] /\ rec' \in [Nodes -> BOOLEAN]
  BY DEF Stopped, RuntimeTyped
<1>3. att' \in [Ports -> Attachment] /\ cur' \in [Ports -> 0..MaxGen]
  BY <1>1 DEF Stopped, RuntimeTyped
<1>4. veth' \in [Ports -> NetOrNone \cup {0}]
  BY DEF Stopped, RuntimeTyped, NetOrNone
<1> QED BY <1>2, <1>3, <1>4 DEF RuntimeTyped

\* Stopping, creating and deleting nodes keeps the invariant.
LEMMA NodeStepKeeps ==
  ASSUME IInv, NodeStep PROVE IInv'
<1>0. Sound(lab) /\ lab \in Lab /\ RuntimeTyped
  BY DEF IInv, Sound
<1>1. ASSUME CreateNode PROVE IInv'
  <2>1. lab' \in Lab /\ lab'.links = lab.links
    BY <1>0, <1>1 DEF CreateNode, Lab
  <2>2. Sound(lab)'
    BY <1>0, <2>1, SmallerSound
  <2> QED BY <1>1, <2>2, OthersKeep DEF CreateNode, IInv, RuntimeTyped, runtime, host
<1>2. ASSUME NEW n \in Nodes, StopNode(n) PROVE IInv'
  <2>1. RuntimeTyped'
    BY <1>0, <1>2, StoppedTypes DEF StopNode
  <2> QED BY <1>2, <2>1, OthersKeep DEF StopNode, IInv, json
<1>3. ASSUME NEW n \in Nodes, DeleteNode(n) PROVE IInv'
  <2>1. lab' \in Lab /\ lab'.links \subseteq lab.links
    BY <1>0, <1>3 DEF DeleteNode, Lab
  <2>2. Sound(lab)'
    BY <1>0, <2>1, SmallerSound
  <2>3. RuntimeTyped'
    BY <1>0, <1>3, StoppedTypes DEF DeleteNode
  <2> QED BY <1>3, <2>2, <2>3, OthersKeep DEF DeleteNode, IInv
<1> QED BY <1>1, <1>2, <1>3 DEF NodeStep

\* Every network handler keeps the invariant.
LEMMA NetworkStepKeeps ==
  ASSUME IInv, NetworkStep PROVE IInv'
<1>0. Sound(lab) /\ lab \in Lab /\ RuntimeTyped
  BY DEF IInv, Sound
<1>1. ASSUME NEW k \in NetIds, NEW v \in {"none", "explicit"},
             lab' = [lab EXCEPT !.nets[k] = v]
      PROVE  Sound(lab)'
  <2>1. lab' \in Lab /\ lab'.links = lab.links
    BY <1>0, <1>1 DEF Lab
  <2> QED BY <1>0, <2>1, SmallerSound
<1>2. ASSUME CreateNetwork PROVE IInv'
  <2>1. Sound(lab)'
    BY <1>1, <1>2 DEF CreateNetwork
  <2>2. RuntimeTyped'
    BY <1>0, <1>2 DEF CreateNetwork, RuntimeTyped, runtime
  <2> QED BY <1>2, <2>1, <2>2, OthersKeep DEF CreateNetwork, IInv
<1>3. ASSUME NEW k \in NetIds, DeleteNetwork(k) PROVE IInv'
  <2>1. Sound(lab)'
    BY <1>1, <1>3 DEF DeleteNetwork
  <2>2. RuntimeTyped'
    BY <1>0, <1>3 DEF DeleteNetwork, RuntimeTyped, runtime
  <2> QED BY <1>3, <2>1, <2>2, OthersKeep DEF DeleteNetwork, IInv
<1>4. ASSUME NEW k \in NetIds, NameNetwork(k) PROVE IInv'
  <2>1. Sound(lab)'
    BY <1>1, <1>4 DEF NameNetwork
  <2> QED BY <1>4, <2>1, OthersKeep DEF NameNetwork, IInv, RuntimeTyped, runtime, host
<1>5. ASSUME EnsureBridges PROVE IInv'
  <2>1. RuntimeTyped'
    BY <1>0, <1>5 DEF EnsureBridges, RuntimeTyped, runtime
  <2> QED BY <1>5, <2>1, OthersKeep DEF EnsureBridges, IInv, json
<1> QED BY <1>2, <1>3, <1>4, <1>5 DEF NetworkStep
------------------------------------------------------------------------------
(***************************************************************************)
(* The theorems                                                            *)
(***************************************************************************)
LEMMA InitHolds == Init => IInv
<1> SUFFICES ASSUME Init PROVE IInv
  OBVIOUS
<1>1. Sound(lab)
  BY DEF Init, Sound, Lab, DistinctIds, PortsOnce
<1>2. RuntimeTyped
  <2>1. 0 \in 0..MaxGen /\ Unattached \in Attachment /\ IdleStart \in StartThread
    BY ServiceConstants DEF Unattached, Attachment, NetOrNone, IdleStart, StartThread
  <2> QED BY <2>1 DEF Init, RuntimeTyped, NetOrNone
<1>3. LockInv
  <2>1. IdleReq \in Request /\ IdleReq.held = 0 /\ IdleReq.keys = <<>> /\ IdleReq.pc = "idle"
    BY LabConstants DEF IdleReq, Request
  <2>2. \A r \in Reqs : req[r] = IdleReq
    BY DEF Init
  <2>3. LocksTyped
    BY <2>1 DEF Init, LocksTyped
  <2>4. LocksTaken
    <3>1. \A r \in Reqs, p \in Ports : mutex[p] # r
      BY ServiceConstants DEF Init
    <3> QED BY <2>1, <2>2, <3>1 DEF LocksTaken, OwnsLocked, HasAllLocks
  <2> QED BY <2>3, <2>4 DEF LockInv
<1>4. cache \in Seq(Keys)
  BY DEF Init
<1> QED BY <1>1, <1>2, <1>3, <1>4 DEF IInv

\* The invariant is inductive.
LEMMA NextKeeps == IInv /\ [Next]_vars => IInv'
<1> SUFFICES ASSUME IInv, [Next]_vars PROVE IInv'
  OBVIOUS
<1>1. CASE UNCHANGED vars
  BY <1>1, OthersKeep DEF vars, IInv, RuntimeTyped
<1>2. ASSUME NEW r \in Reqs, LinkStep(r) PROVE IInv'
  BY <1>2, LinkStepKeeps
<1>3. ASSUME NEW s \in Starters, StartStep(s) PROVE IInv'
  BY <1>3, StartStepKeeps
<1>4. ASSUME NEW key \in Keys, CreateReplayed(key) PROVE IInv'
  <2>1. cache' \in Seq(Keys)
    BY <1>4, MostRecentType DEF CreateReplayed, IInv
  <2> QED BY <1>4, <2>1, OthersKeep DEF CreateReplayed, IInv, RuntimeTyped, runtime, host
<1>5. CASE NodeStep
  BY <1>5, NodeStepKeeps
<1>6. CASE NetworkStep
  BY <1>6, NetworkStepKeeps
<1> QED BY <1>1, <1>2, <1>3, <1>4, <1>5, <1>6 DEF Next

\* The variables keep their types, ids and generations within their bounds.
THEOREM TypeCorrect == Spec => []TypeOK
<1>1. IInv => TypeOK
  BY TypeOKParts DEF IInv, Sound, LockInv
<1> QED BY <1>1, InitHolds, NextKeeps, PTL DEF Spec

\* Whatever link requests, starts and node and network handlers interleave, a
\* link id names one link and an interface is wired by at most one.
THEOREM LinksUnique == Spec => [](UniqueLinkIds /\ OneLinkPerPort)
<1>1. IInv => UniqueLinkIds /\ OneLinkPerPort
  BY DEF IInv, Sound, UniqueLinkIds, OneLinkPerPort
<1> QED BY <1>1, InitHolds, NextKeeps, PTL DEF Spec

\* A request owns all its ports from its edit until its events are out.
THEOREM MutexesHeld == Spec => []HeldWhilePublishing
<1>1. IInv => HeldWhilePublishing
  BY DEF IInv, LockInv, LocksTyped, LocksTaken, OwnsLocked, HasAllLocks, HeldWhilePublishing, Request
<1> QED BY <1>1, InitHolds, NextKeeps, PTL DEF Spec
------------------------------------------------------------------------------
(***************************************************************************)
(* No circular wait.  Were every request of a set waiting for another one  *)
(* of it, each of them would hold the first and want the second of its two *)
(* ports; the second is the first port of the request it waits for, and    *)
(* larger.  A finite set of ports has no such endless ascent.              *)
(***************************************************************************)
LEMMA PortsFinite == IsFiniteSet(Ports)
<1> DEFINE f == [x \in Nodes \X Ifaces |-> NodeEp(x[1], x[2])]
<1>1. IsFiniteSet(Nodes \X Ifaces)
  BY LabConstants, FS_Product
<1>2. f \in [Nodes \X Ifaces -> Ports]
  BY DEF Ports
<1>3. ASSUME NEW p \in Ports PROVE \E x \in Nodes \X Ifaces : f[x] = p
  <2>1. PICK n \in Nodes, i \in Ifaces : p = NodeEp(n, i)
    BY DEF Ports
  <2>2. <<n, i>> \in Nodes \X Ifaces /\ f[<<n, i>>] = NodeEp(n, i)
    OBVIOUS
  <2> QED BY <2>1, <2>2
<1>4. f \in Surjection(Nodes \X Ifaces, Ports)
  BY <1>2, <1>3 DEF Surjection
<1> QED BY <1>1, <1>4, FS_Surjection

\* (node, interface) order is a strict total order on the ports.
LEMMA PortOrder ==
  /\ \A p \in Ports : ~PortLess(p, p)
  /\ \A p, q, u \in Ports : PortLess(p, q) /\ PortLess(q, u) => PortLess(p, u)
  /\ \A p, q \in Ports : p # q /\ ~PortLess(q, p) => PortLess(p, q)
<1>1. \A p \in Ports : p.id \in Nat /\ p.ifc \in Nat
  BY EndpointKinds, LabConstants
<1>2. ASSUME NEW p \in Ports, NEW q \in Ports, p.id = q.id, p.ifc = q.ifc PROVE p = q
  BY <1>2 DEF Ports, NodeEp
<1> QED BY <1>1, <1>2 DEF PortLess

\* Every non-empty set of ports has one that no port of the set exceeds.
LEMMA NoEndlessAscent ==
  ASSUME NEW F \in SUBSET Ports, F # {}, \A x \in F : \E y \in F : PortLess(x, y)
  PROVE  FALSE
<1> DEFINE Endless(T) == T # {} /\ \A x \in T : \E y \in T : PortLess(x, y)
           C == {n \in Nat : \E T \in SUBSET Ports : Endless(T) /\ Cardinality(T) = n}
<1>1. \A T \in SUBSET Ports : IsFiniteSet(T) /\ Cardinality(T) \in Nat
  BY PortsFinite, FS_Subset, FS_CardinalityType
<1>2. C # {}
  BY <1>1
<1>3. PICK m \in C : \A n \in C : m <= n
  <2>1. C \in SUBSET Nat
    OBVIOUS
  <2> HIDE DEF C
  <2> QED BY <1>2, <2>1, LeastNumber
<1>4. PICK T \in SUBSET Ports : Endless(T) /\ Cardinality(T) = m
  OBVIOUS
<1>5. PICK x \in T : TRUE
  BY <1>4
<1> DEFINE U == T \ {x}
<1>6. Endless(U)
  <2>1. PICK y \in T : PortLess(x, y)
    BY <1>4
  <2>2. y # x
    BY <2>1, PortOrder
  <2>3. ASSUME NEW z \in U PROVE \E w \in U : PortLess(z, w)
    <3>1. PICK w \in T : PortLess(z, w)
      BY <1>4
    <3>2. CASE w = x
      BY <2>1, <2>2, <3>1, <3>2, PortOrder
    <3>3. CASE w # x
      BY <3>1, <3>3
    <3> QED BY <3>2, <3>3
  <2> QED BY <2>2, <2>3
<1>7. Cardinality(U) = m - 1
  BY <1>1, <1>4, <1>5, FS_RemoveElement
<1>8. m - 1 \in C
  BY <1>1, <1>6, <1>7
<1> QED BY <1>3, <1>8

\* create_link and delete_link sort the ports they lock.
LEMMA LockOrderAscends ==
  ASSUME NEW a \in Endpoints, NEW b \in Endpoints, NEW K, K = LockOrder(a, b)
  PROVE  /\ Len(K) <= 2
         /\ Len(K) = 2 /\ K[1] # K[2] => PortLess(K[1], K[2])
<1>1. CASE IsPort(a) /\ IsPort(b)
  <2>1. a \in Ports /\ b \in Ports
    BY <1>1, EndpointKinds
  <2>2. (a # b /\ ~PortLess(b, a)) => PortLess(a, b)
    BY <2>1, PortOrder
  <2> QED BY <1>1, <2>2 DEF LockOrder
<1>2. CASE ~(IsPort(a) /\ IsPort(b))
  BY <1>2 DEF LockOrder
<1> QED BY <1>1, <1>2

\* A request that waits for r while r waits for another one wants r's first
\* port, and r wants a larger one.
LEMMA WaitAscends ==
  ASSUME LockInv, NEW r \in Reqs, NEW q \in Reqs, NEW u \in Reqs, r # q, q # u,
         WaitsFor(r, q), WaitsFor(q, u)
  PROVE  /\ WantedPort(r) \in Ports /\ WantedPort(q) \in Ports
         /\ PortLess(WantedPort(r), WantedPort(q))
<1> DEFINE K == req[q].keys
<1>1. /\ req[r].held \in Nat /\ req[r].held < Len(req[r].keys) /\ req[r].keys \in Seq(Ports)
      /\ req[q].held \in Nat /\ req[q].held < Len(K) /\ K \in Seq(Ports)
  BY DEF WaitsFor, LockInv, LocksTyped, LocksTaken, OwnsLocked, HasAllLocks, Request
<1>2. WantedPort(r) \in Ports /\ WantedPort(q) \in Ports
  BY <1>1 DEF WantedPort
<1>3. PICK i \in 1..req[q].held : WantedPort(r) = K[i]
  BY <1>2 DEF WaitsFor, LockInv, LocksTaken, OwnsLocked
<1>4. Len(K) <= 2 /\ (Len(K) = 2 /\ K[1] # K[2] => PortLess(K[1], K[2]))
  <2>1. /\ req[q].ends[1] \in Endpoints /\ req[q].ends[2] \in Endpoints
        /\ K = LockOrder(req[q].ends[1], req[q].ends[2])
    BY DEF WaitsFor, LockInv, LocksTaken, OwnsLocked
  <2> HIDE DEF K
  <2> QED BY <2>1, LockOrderAscends
<1>5. req[q].held = 1 /\ Len(K) = 2 /\ i = 1
  <2>1. Len(K) \in Nat
    BY <1>1
  <2>2. Len(K) <= 2 /\ req[q].held < Len(K) /\ req[q].held \in Nat /\ 1 <= i /\ i <= req[q].held /\ i \in Nat
    BY <1>1, <1>3, <1>4
  <2> DEFINE h == req[q].held
             n == Len(K)
  <2>3. n \in Nat /\ h \in Nat /\ n <= 2 /\ h < n /\ 1 <= i /\ i <= h /\ i \in Nat
    BY <2>1, <2>2
  <2> HIDE DEF h, n
  <2>4. h = 1 /\ n = 2 /\ i = 1
    BY <2>3
  <2> QED BY <2>4 DEF h, n
<1>6. WantedPort(q) = K[2] /\ WantedPort(r) = K[1]
  BY <1>3, <1>5 DEF WantedPort
<1>7. K[1] # K[2]
  BY <1>6 DEF WaitsFor
<1> QED BY <1>2, <1>4, <1>5, <1>6, <1>7

\* No set of link requests waits in a circle: create_link and delete_link
\* both sort their (node, interface) keys before they lock.
THEOREM NoCircularWait == Spec => []NoWaitCycle
<1>1. IInv => NoWaitCycle
  <2> SUFFICES ASSUME IInv, NEW S \in SUBSET Reqs, S # {},
                      \A r \in S : \E q \in S \ {r} : WaitsFor(r, q)
               PROVE  FALSE
    BY DEF NoWaitCycle
  <2> DEFINE F == {WantedPort(r) : r \in S}
  <2>1. ASSUME NEW r \in S
        PROVE  WantedPort(r) \in Ports /\ \E q \in S : PortLess(WantedPort(r), WantedPort(q))
    <3>1. PICK q \in S \ {r} : WaitsFor(r, q)
      OBVIOUS
    <3>2. PICK u \in S \ {q} : WaitsFor(q, u)
      OBVIOUS
    <3> QED BY <3>1, <3>2, WaitAscends DEF IInv
  <2>2. F \in SUBSET Ports /\ F # {} /\ \A x \in F : \E y \in F : PortLess(x, y)
    BY <2>1
  <2> HIDE DEF F
  <2> QED BY <2>2, NoEndlessAscent
<1> QED BY <1>1, InitHolds, NextKeeps, PTL DEF Spec
------------------------------------------------------------------------------
(***************************************************************************)
(* Networks in use.  create_link looks up one network of a pair only, so   *)
(* these two hold when every requested pair has a node interface: the code *)
(* also accepts a pair of networks, and then the second may not exist.     *)
(***************************************************************************)
PortInEveryPair == \A pr \in Pairs : IsPort(pr[1]) \/ IsPort(pr[2])

\* The inductive part: a create request was made for one of Pairs.
CreatesRequested == \A r \in Reqs : req[r].op = "create" => req[r].ends \in Pairs

TidyInv == Tidy(lab) /\ CreatesRequested

\* Requests keep their operation and their ends until they are over.
LEMMA RequestsCarried ==
  ASSUME IInv, CreatesRequested, [Next]_vars PROVE CreatesRequested'
<1>0. req \in [Reqs -> Request]
  BY DEF IInv, LockInv, LocksTyped
<1>1. ASSUME UNCHANGED req PROVE CreatesRequested'
  BY <1>1 DEF CreatesRequested
<1>2. ASSUME NEW r \in Reqs, EndRequest(r) PROVE CreatesRequested'
  BY <1>0, <1>2 DEF CreatesRequested, EndRequest, IdleReq
<1>3. ASSUME NEW r \in Reqs, NEW q, q.op = req[r].op, q.ends = req[r].ends,
             req' = [req EXCEPT ![r] = q]
      PROVE  CreatesRequested'
  BY <1>0, <1>3 DEF CreatesRequested
<1>4. ASSUME NEW r \in Reqs, NEW pc, req' = [req EXCEPT ![r].pc = pc] PROVE CreatesRequested'
  <2>1. req' = [req EXCEPT ![r] = [req[r] EXCEPT !.pc = pc]]
    BY <1>0, <1>4
  <2>2. req[r] \in Request
    BY <1>0
  <2>3. [req[r] EXCEPT !.pc = pc].op = req[r].op /\ [req[r] EXCEPT !.pc = pc].ends = req[r].ends
    BY <2>2 DEF Request
  <2> QED BY <1>3, <2>1, <2>3
<1>5. ASSUME NEW r \in Reqs, LinkStep(r) PROVE CreatesRequested'
  <2>1. ASSUME NEW pr \in Pairs, NEW key, CreateBegin(r, pr, key) PROVE CreatesRequested'
    BY <1>0, <2>1 DEF CreatesRequested, CreateBegin, Begin
  <2>2. ASSUME NEW id, DeleteBegin(r, id) PROVE CreatesRequested'
    BY <1>0, <2>2 DEF CreatesRequested, DeleteBegin, Begin
  <2>3. ASSUME NEW h, NEW pc, req' = [req EXCEPT ![r].held = h, ![r].pc = pc] PROVE CreatesRequested'
    <3>1. req' = [req EXCEPT ![r] = [req[r] EXCEPT !.held = h, !.pc = pc]]
      BY <1>0, <2>3
    <3>2. req[r] \in Request
      BY <1>0
    <3>3. /\ [req[r] EXCEPT !.held = h, !.pc = pc].op = req[r].op
          /\ [req[r] EXCEPT !.held = h, !.pc = pc].ends = req[r].ends
      BY <3>2 DEF Request
    <3> QED BY <1>3, <3>1, <3>3
  <2>4. ASSUME AcquireFree(r) PROVE CreatesRequested'
    <3>1. req' = [req EXCEPT ![r].held = req[r].held + 1, ![r].pc = req[r].pc]
      BY <1>0, <2>4 DEF AcquireFree, Request
    <3> QED BY <2>3, <3>1
  <2>5. ASSUME ExecutorAcquire(r) PROVE CreatesRequested'
    <3>1. req' = [req EXCEPT ![r].held = req[r].held + 1, ![r].pc = "woken"]
      BY <1>0, <2>5 DEF ExecutorAcquire
    <3> QED BY <2>3, <3>1
  <2>6. ASSUME AcquireContended(r) \/ Resume(r) \/ CreateOffline(r) \/ CreateAttached(r) \/ DeleteDone(r)
        PROVE  CreatesRequested'
    BY <1>4, <2>6 DEF AcquireContended, Resume, CreateOffline, CreateAttached, DeleteDone, StartPublishing
  <2>7. ASSUME \/ AcquireTimeout(r) \/ CreateRefused(r) \/ CreateNoBridge(r) \/ CreateRolledBack(r)
               \/ DeleteVanished(r) \/ DeleteFailed(r) \/ Finish(r)
        PROVE  EndRequest(r)
    BY <2>7 DEF AcquireTimeout, CreateRefused, CreateNoBridge, CreateRolledBack, DeleteVanished,
                DeleteFailed, Finish
  <2> QED BY <1>2, <1>5, <2>1, <2>2, <2>4, <2>5, <2>6, <2>7 DEF LinkStep
<1>6. ASSUME NEW s \in Starters, StartStep(s) PROVE UNCHANGED req
  BY <1>6 DEF StartStep, StartBegin, StartCheck, StartRun, StartRefused, StartAttach, StartAborted,
              StartCommit
<1>7. ASSUME NEW key, CreateReplayed(key) PROVE UNCHANGED req
  BY <1>7 DEF CreateReplayed
<1>8. ASSUME NodeStep \/ NetworkStep PROVE UNCHANGED req
  BY <1>8 DEF NodeStep, CreateNode, StopNode, DeleteNode, NetworkStep, CreateNetwork, EnsureBridges,
              DeleteNetwork, NameNetwork
<1> QED BY <1>1, <1>5, <1>6, <1>7, <1>8 DEF Next, vars

\* What an admitted request writes keeps the networks tidy.
LEMMA AdmittedTidy ==
  ASSUME PortInEveryPair, IInv, TidyInv, NEW r \in Reqs, Admitted(r),
         NEW a, a = req[r].ends[1], NEW b, b = req[r].ends[2]
  PROVE  Tidy(Edited(a, b))
<1>1. /\ HasAllLocks(r) /\ req[r].pc = "lock" /\ ~Conflict(a, b) /\ Fits(a, b)
      /\ ~MissingNetwork(a, b) /\ req[r].op = "create"
  BY DEF Admitted, InCreate, Running
<1>2. a \in Endpoints /\ b \in Endpoints /\ (BothPorts(a, b) => a # b)
  BY <1>1, LockedPortsDiffer DEF IInv
<1>3. \A l \in lab.links : \A p \in {a, b} \cap Ports : ~Touches(l, p)
  BY <1>1 DEF Conflict
<1>4. lab \in Lab /\ Sound(lab) /\ Tidy(lab) /\ NextLinkId(lab) \in Nat /\ MaxLink \in Nat
  BY LabConstants, NextLinkIdFresh DEF IInv, Sound, TidyInv
<1>5. IsPort(a) \/ IsPort(b)
  BY <1>1 DEF TidyInv, CreatesRequested, PortInEveryPair
<1>6. CASE BothPorts(a, b)
  <2>1. a \in Ports /\ b \in Ports
    BY <1>2, <1>6, EndpointKinds DEF BothPorts
  <2>2. NextLinkId(lab) + 1 <= MaxLink /\ NextNetworkId(lab) <= MaxNet
    BY <1>1, <1>6 DEF Fits, JoinedNet
  <2>3. Tidy(AddImplicitPair(lab, a, b))
    BY <1>2, <1>3, <1>4, <1>6, <2>1, <2>2, AddImplicitPairTidy
  <2> QED BY <1>6, <2>3 DEF Edited
<1>7. CASE ~BothPorts(a, b)
  <2>1. NextLinkId(lab) <= MaxLink
    BY <1>1, <1>4, <1>7 DEF Fits
  <2>2. lab.nets[TargetNet(a, b)] # "none"
    BY <1>1, <1>7 DEF MissingNetwork
  <2>3. Tidy(JoinNetwork(lab, a, b))
    BY <1>2, <1>3, <1>4, <1>5, <1>7, <2>1, <2>2, JoinNetworkTidy DEF BothPorts
  <2> QED BY <1>7, <2>3 DEF Edited
<1> QED BY <1>6, <1>7

\* The edits of link requests keep the networks tidy.
LEMMA LinkStepTidy ==
  ASSUME PortInEveryPair, IInv, TidyInv, NEW r \in Reqs, LinkStep(r) PROVE Tidy(lab)'
<1>1. Tidy(lab) /\ Sound(lab)
  BY DEF TidyInv, IInv
<1>2. ASSUME CreateOffline(r) PROVE Tidy(lab)'
  <2>1. Admitted(r) /\ lab' = Edited(req[r].ends[1], req[r].ends[2])
    BY <1>2 DEF CreateOffline
  <2>2. Tidy(Edited(req[r].ends[1], req[r].ends[2]))
    BY <2>1, AdmittedTidy
  <2> QED BY <2>1, <2>2
<1>3. ASSUME CreateAttached(r) PROVE Tidy(lab)'
  <2> DEFINE a == req[r].ends[1]
             b == req[r].ends[2]
             k == JoinedNet(a, b)
             S == Targets(a, b)
  <2>1. /\ Admitted(r) /\ att' = Attached(S, k)
        /\ lab' = StampGenerations(Edited(a, b), S, k, att')
    BY <1>3 DEF CreateAttached
  <2>2. Tidy(Edited(a, b))
    BY <2>1, AdmittedTidy
  <2>3. /\ Sound(Edited(a, b)) /\ k \in NetIds /\ S \subseteq Ports
        /\ \A p \in S : cur[p] < MaxGen
    BY <2>1, AdmittedFacts
  <2>4. att' \in [Ports -> Attachment]
    BY <2>1, <2>3, AttachTypes DEF IInv
  <2> HIDE DEF k, S
  <2>5. \A p \in S : att'[p].gen \in Nat
    BY <2>3, <2>4, ServiceConstants DEF Attachment
  <2>6. Tidy(StampGenerations(Edited(a, b), S, k, att'))
    BY <2>2, <2>3, <2>5, StampTidy
  <2> QED BY <2>1, <2>6
<1>4. ASSUME DeleteDone(r) PROVE Tidy(lab)'
  <2>1. PICK l \in LinkNamed(req[r].link) : lab' = RemoveLink(lab, l)
    BY <1>4 DEF DeleteDone
  <2>2. Tidy(RemoveLink(lab, l))
    BY <1>1, <2>1, RemoveLinkTidy DEF LinkNamed
  <2> QED BY <2>1, <2>2
<1>5. ASSUME UNCHANGED lab PROVE Tidy(lab)'
  BY <1>1, <1>5
<1>6. ASSUME \/ \E pr \in Pairs, key \in Keys \cup {NoKey} : CreateBegin(r, pr, key)
             \/ \E id \in LinkIds : DeleteBegin(r, id)
             \/ AcquireFree(r) \/ AcquireContended(r) \/ ExecutorAcquire(r)
             \/ Resume(r) \/ AcquireTimeout(r)
             \/ CreateRefused(r) \/ CreateNoBridge(r) \/ CreateRolledBack(r)
             \/ DeleteVanished(r) \/ DeleteFailed(r) \/ Finish(r)
      PROVE  UNCHANGED lab
  BY <1>6 DEF CreateBegin, DeleteBegin, AcquireFree, AcquireContended, ExecutorAcquire, Resume,
       AcquireTimeout, CreateRefused, CreateNoBridge, CreateRolledBack, DeleteVanished, DeleteFailed,
       Finish, json
<1> QED BY <1>2, <1>3, <1>4, <1>5, <1>6 DEF LinkStep

\* Every step keeps the networks tidy.
LEMMA NextTidy ==
  ASSUME PortInEveryPair, IInv, IInv', TidyInv, [Next]_vars PROVE TidyInv'
<1>1. Tidy(lab) /\ Sound(lab) /\ lab \in Lab /\ Sound(lab')
  BY DEF TidyInv, IInv, Sound
<1>2. ASSUME UNCHANGED lab PROVE Tidy(lab)'
  BY <1>1, <1>2
<1>3. ASSUME NEW s \in Starters, StartStep(s) PROVE UNCHANGED lab
  BY <1>3 DEF StartStep, StartBegin, StartCheck, StartRun, StartRefused, StartAttach, StartAborted,
              StartCommit, json
<1>4. ASSUME NEW key, CreateReplayed(key) PROVE UNCHANGED lab
  BY <1>4 DEF CreateReplayed
<1>5. ASSUME lab'.links \subseteq lab.links,
             \A k \in NetIds : \/ lab'.nets[k] = lab.nets[k] \/ lab'.nets[k] = "explicit"
                               \/ lab'.nets[k] = "none" /\ RefCount(lab', k) = 0
      PROVE  Tidy(lab)'
  <2>1. Tidy(lab')
    BY <1>1, <1>5, FewerTidy
  <2> QED BY <2>1
<1>6. ASSUME NodeStep PROVE Tidy(lab)'
  <2>1. ASSUME CreateNode PROVE lab'.links = lab.links /\ lab'.nets = lab.nets
    BY <1>1, <2>1 DEF CreateNode, Lab
  <2>2. ASSUME NEW n, StopNode(n) PROVE lab'.links = lab.links /\ lab'.nets = lab.nets
    BY <2>2 DEF StopNode, json
  <2>3. ASSUME NEW n, DeleteNode(n) PROVE lab'.links \subseteq lab.links /\ lab'.nets = lab.nets
    BY <1>1, <2>3 DEF DeleteNode, Lab
  <2> QED BY <1>5, <1>6, <2>1, <2>2, <2>3 DEF NodeStep
<1>7. ASSUME NEW k \in NetIds, NEW v, lab' = [lab EXCEPT !.nets[k] = v],
             v = "explicit" \/ (v = "none" /\ RefCount(lab, k) = 0)
      PROVE  Tidy(lab)'
  <2>1. /\ lab'.links = lab.links /\ lab'.nets[k] = v
        /\ \A x \in NetIds \ {k} : lab'.nets[x] = lab.nets[x]
    BY <1>1, <1>7 DEF Lab
  <2>2. RefCount(lab', k) = RefCount(lab, k)
    BY <2>1 DEF RefCount
  <2> QED BY <1>5, <1>7, <2>1, <2>2
<1>8. ASSUME NetworkStep PROVE Tidy(lab)'
  BY <1>2, <1>7, <1>8 DEF NetworkStep, CreateNetwork, EnsureBridges, DeleteNetwork, NameNetwork, json
<1>9. Tidy(lab)'
  BY <1>2, <1>3, <1>4, <1>6, <1>8, LinkStepTidy DEF Next, vars
<1> QED BY <1>9, RequestsCarried DEF TidyInv

\* The networks are tidy in every state.
LEMMA NetworksTidy ==
  ASSUME PortInEveryPair
  PROVE  Spec => []TidyInv
<1>1. Init => TidyInv
  <2> SUFFICES ASSUME Init PROVE TidyInv
    OBVIOUS
  <2>1. lab.links = {} /\ CreatesRequested /\ Sound(lab)
    BY InitHolds DEF Init, IdleReq, CreatesRequested, IInv
  <2>2. \A k \in NetIds : RefCount(lab, k) = 0 /\ lab.nets[k] # "implicit"
    BY <2>1, RefCountZero DEF Init
  <2> QED BY <2>1, <2>2 DEF TidyInv, Tidy, NetsLinked, HiddenPairs
<1>2. IInv /\ TidyInv /\ [Next]_vars => (IInv /\ TidyInv)'
  BY NextKeeps, NextTidy
<1> QED BY <1>1, <1>2, InitHolds, PTL DEF Spec

\* No link names a network without a record, whatever creates, deletes and
\* network handlers interleave: collection and DELETE /networks remove only
\* unused networks.
THEOREM LinkedNetworksKept ==
  ASSUME PortInEveryPair
  PROVE  Spec => []LinkedNetworksExist
<1>1. TidyInv => LinkedNetworksExist
  BY DEF TidyInv, Tidy, NetsLinked, LinkedNetworksExist
<1> QED BY <1>1, NetworksTidy, PTL

\* A hidden network, made by create_link for two ports, joins two endpoints at
\* most: the create_link that brings the third one promotes it.
THEOREM HiddenNetworksSmall ==
  ASSUME PortInEveryPair
  PROVE  Spec => []ImplicitAtMostTwo
<1>1. TidyInv => ImplicitAtMostTwo
  BY DEF TidyInv, Tidy, HiddenPairs, ImplicitAtMostTwo
<1> QED BY <1>1, NetworksTidy, PTL
------------------------------------------------------------------------------
(***************************************************************************)
(* The idempotency cache                                                   *)
(***************************************************************************)
Once(c) == \A i, j \in DOMAIN c : c[i] = c[j] => i = j

\* A replayed or finished key moves to the end: no key is there twice, and
\* only a new one makes the cache longer.
LEMMA MostRecentOnce ==
  ASSUME NEW c \in Seq(Keys), Once(c), NEW k \in Keys
  PROVE  /\ Once(MostRecent(c, k))
         /\ Len(MostRecent(c, k)) = IF Cached(c, k) THEN Len(c) ELSE Len(c) + 1
<1>1. CASE Cached(c, k)
  <2> DEFINE i == CHOOSE x \in DOMAIN c : c[x] = k
             m == MoveToEnd(c, i)
  <2>1. i \in 1..Len(c) /\ Len(c) \in Nat
    BY <1>1 DEF Cached
  <2>2. MostRecent(c, k) = m
    BY <1>1 DEF MostRecent
  <2> HIDE DEF i
  <2>3. m \in Seq(Keys) /\ Len(m) = Len(c) /\ DOMAIN m = 1..Len(c)
    BY <2>1 DEF MoveToEnd
  <2> DEFINE from(j) == IF j < i THEN j ELSE IF j < Len(c) THEN j + 1 ELSE i
  <2>4. ASSUME NEW j \in 1..Len(c) PROVE from(j) \in 1..Len(c) /\ m[j] = c[from(j)]
    BY <2>1 DEF MoveToEnd
  <2>5. ASSUME NEW j \in 1..Len(c), NEW h \in 1..Len(c), from(j) = from(h) PROVE j = h
    BY <2>1, <2>5
  <2> HIDE DEF from, m
  <2>6. ASSUME NEW j \in 1..Len(c), NEW h \in 1..Len(c), m[j] = m[h] PROVE j = h
    BY <2>4, <2>5, <2>6, SMTT(40) DEF Once
  <2> QED BY <1>1, <2>2, <2>3, <2>6 DEF Once
<1>2. CASE ~Cached(c, k)
  BY <1>2 DEF MostRecent, Cached, Once
<1> QED BY <1>1, <1>2

\* Trimming drops the oldest key when there is one too many.
LEMMA TrimOnce ==
  ASSUME NEW c \in Seq(Keys), Once(c), Len(c) <= CacheMax + 1
  PROVE  Once(Trim(c)) /\ Len(Trim(c)) <= CacheMax
<1>1. CacheMax \in Nat /\ Len(c) \in Nat
  BY ServiceConstants
<1>2. CASE Len(c) > CacheMax
  <2>1. c # <<>>
    BY <1>1, <1>2
  <2>2. Len(Tail(c)) = Len(c) - 1 /\ \A i \in 1..(Len(c) - 1) : Tail(c)[i] = c[i + 1]
    BY <2>1
  <2>3. DOMAIN Tail(c) = 1..(Len(c) - 1)
    BY <2>1, <2>2
  <2>4. Once(Tail(c))
    BY <1>1, <2>2, <2>3 DEF Once
  <2> QED BY <1>1, <1>2, <2>2, <2>4 DEF Trim
<1>3. CASE ~(Len(c) > CacheMax)
  BY <1>1, <1>3 DEF Trim
<1> QED BY <1>2, <1>3

\* The idempotency cache holds a key once and never more than its capacity:
\* create_link's store and its replay are the only steps that touch it.
THEOREM IdempotencyCacheBounded == Spec => []CacheBounded
<1>1. Init => CacheBounded
  BY ServiceConstants DEF Init, CacheBounded
<1>2. IInv /\ CacheBounded /\ [Next]_vars => CacheBounded'
  <2> SUFFICES ASSUME IInv, CacheBounded, [Next]_vars PROVE CacheBounded'
    OBVIOUS
  <2>1. cache \in Seq(Keys) /\ Once(cache) /\ Len(cache) <= CacheMax /\ CacheMax \in Nat
    BY ServiceConstants DEF IInv, CacheBounded, Once
  <2>2. ASSUME NEW key \in Keys, CreateReplayed(key) PROVE CacheBounded'
    BY <2>1, <2>2, MostRecentOnce DEF CreateReplayed, CacheBounded, Once
  <2>3. ASSUME NEW key \in Keys, cache' = Trim(MostRecent(cache, key)) PROVE CacheBounded'
    <3> DEFINE m == MostRecent(cache, key)
    <3>1. m \in Seq(Keys)
      BY <2>1, MostRecentType
    <3>2. Once(m) /\ Len(m) <= CacheMax + 1
      BY <2>1, MostRecentOnce
    <3> HIDE DEF m
    <3>3. Once(Trim(m)) /\ Len(Trim(m)) <= CacheMax
      BY <3>1, <3>2, TrimOnce
    <3> QED BY <2>3, <3>3 DEF CacheBounded, Once, m
  <2>4. ASSUME NEW r \in Reqs, Finish(r) PROVE CacheBounded'
    <3>1. req[r].key \in Keys \cup {NoKey}
      BY DEF IInv, LockInv, LocksTyped, Request
    <3>2. CASE req[r].op = "create" /\ req[r].key # NoKey
      BY <2>3, <2>4, <3>1, <3>2 DEF Finish
    <3>3. CASE ~(req[r].op = "create" /\ req[r].key # NoKey)
      BY <2>4, <3>3 DEF Finish, CacheBounded
    <3> QED BY <3>2, <3>3
  <2>5. ASSUME UNCHANGED cache PROVE CacheBounded'
    BY <2>5 DEF CacheBounded
  <2>6. ASSUME NEW r \in Reqs, LinkStep(r), ~Finish(r) PROVE UNCHANGED cache
    BY <2>6 DEF LinkStep, CreateBegin, DeleteBegin, AcquireFree, AcquireContended, ExecutorAcquire,
         Resume, AcquireTimeout, CreateRefused, CreateOffline, CreateAttached, CreateNoBridge,
         CreateRolledBack, DeleteVanished, DeleteFailed, DeleteDone, json
  <2>7. ASSUME NEW s \in Starters, StartStep(s) PROVE UNCHANGED cache
    BY <2>7 DEF StartStep, StartBegin, StartCheck, StartRun, StartRefused, StartAttach, StartAborted,
         StartCommit, json
  <2>8. ASSUME NodeStep \/ NetworkStep PROVE UNCHANGED cache
    BY <2>8 DEF NodeStep, CreateNode, StopNode, DeleteNode, NetworkStep, CreateNetwork, EnsureBridges,
         DeleteNetwork, NameNetwork, json
  <2> QED BY <2>2, <2>4, <2>5, <2>6, <2>7, <2>8 DEF Next, vars
<1> QED BY <1>1, <1>2, InitHolds, NextKeeps, PTL DEF Spec
------------------------------------------------------------------------------
(***************************************************************************)
(* Failed creates                                                          *)
(***************************************************************************)
\* A step that ends a running create request restored the document and left
\* each interface as it was, or detached.
LEMMA FailedCreateStep ==
  ASSUME IInv, [Next]_vars, NEW r \in Reqs, Running(r), req[r].op = "create", req'[r].pc = "idle"
  PROVE  lab' = lab /\ \A p \in Ports : att'[p] \in {att[p], Unattached}
<1>1. loop = r /\ r # None /\ req[r].pc = "lock" /\ req \in [Reqs -> Request]
  BY ServiceConstants DEF Running, IInv, LockInv, LocksTyped
<1>2. ASSUME UNCHANGED req PROVE FALSE
  BY <1>1, <1>2
<1>3. ASSUME NEW q \in Reqs, LinkStep(q), ~CreateRolledBack(q) PROVE UNCHANGED <<lab, att>>
  <2>1. CASE q # r
    <3>1. ExecutorAcquire(q)
      BY <1>1, <1>3, <2>1 DEF LinkStep, CreateBegin, DeleteBegin, AcquireFree, AcquireContended,
           Resume, AcquireTimeout, CreateRefused, CreateOffline, CreateAttached, CreateNoBridge,
           DeleteVanished, DeleteFailed, DeleteDone, Finish, Admitted, InCreate, InDelete, Running
    <3> QED BY <3>1 DEF ExecutorAcquire, json, runtime
  <2>2. CASE q = r
    <3>1. CreateRefused(r) \/ CreateNoBridge(r) \/ AcquireFree(r) \/ AcquireContended(r) \/ CreateOffline(r) \/ CreateAttached(r)
      BY <1>1, <1>3, <2>2 DEF LinkStep, CreateBegin, DeleteBegin, ExecutorAcquire,
           Resume, AcquireTimeout, DeleteVanished, DeleteFailed, DeleteDone, Finish, InDelete
    <3>2. ~AcquireFree(r)
      <4>1. ASSUME AcquireFree(r) PROVE req'[r].pc = req[r].pc
        BY <1>1, <4>1 DEF AcquireFree, Request
      <4> QED BY <1>1, <4>1
    <3>3. ~AcquireContended(r) /\ ~CreateOffline(r) /\ ~CreateAttached(r)
      <4>1. ASSUME NEW pc, req' = [req EXCEPT ![r].pc = pc] PROVE req'[r].pc = pc
        BY <1>1, <4>1 DEF Request
      <4> QED BY <4>1 DEF AcquireContended, CreateOffline, CreateAttached, StartPublishing
    <3> QED BY <3>1, <3>2, <3>3 DEF CreateRefused, CreateNoBridge, json, runtime
  <2> QED BY <2>1, <2>2
<1>4. ASSUME NEW q \in Reqs, CreateRolledBack(q)
      PROVE  UNCHANGED lab /\ \A p \in Ports : att'[p] \in {att[p], Unattached}
  <2>1. UNCHANGED lab
    BY <1>4 DEF CreateRolledBack, json
  <2>2. \E G : att' = [p \in Ports |-> IF p \in G THEN Unattached ELSE att[p]]
    BY <1>4, Zenon DEF CreateRolledBack
  <2> QED BY <2>1, <2>2
<1>5. ASSUME NEW s \in Starters, StartStep(s) PROVE UNCHANGED req
  BY <1>5 DEF StartStep, StartBegin, StartCheck, StartRun, StartRefused, StartAttach, StartAborted,
              StartCommit
<1>6. ASSUME NEW key, CreateReplayed(key) PROVE UNCHANGED req
  BY <1>6 DEF CreateReplayed
<1>7. ASSUME NodeStep \/ NetworkStep PROVE UNCHANGED req
  BY <1>7 DEF NodeStep, CreateNode, StopNode, DeleteNode, NetworkStep, CreateNetwork, EnsureBridges,
              DeleteNetwork, NameNetwork
<1> QED BY <1>2, <1>3, <1>4, <1>5, <1>6, <1>7 DEF Next, vars

\* A create_link that ends in an error leaves lab.json as it was and attaches
\* nothing (the two-endpoint rollback of _create_link_locked).
THEOREM FailedCreatesUndone == Spec => FailedCreateUndone
<1>1. IInv /\ [Next]_vars =>
        [\A r \in Reqs : Running(r) /\ req[r].op = "create" /\ req'[r].pc = "idle" =>
           lab' = lab /\ \A p \in Ports : att'[p] \in {att[p], Unattached}]_vars
  BY FailedCreateStep
<1> QED BY <1>1, InitHolds, NextKeeps, PTL DEF Spec, FailedCreateUndone
------------------------------------------------------------------------------
(***************************************************************************)
(* Records and veths.  When start_node threads follow each other, a thread *)
(* past its check works on a node without a record, nobody else runs that  *)
(* node's container, and the veths it made stay until its record is there: *)
(* stop, link requests and network deletes only touch those of records, or *)
(* take the bridge away under them.                                        *)
(***************************************************************************)
OneStarter == \A s, t \in Starters : s = t

Starting(s, n) == start[s].pc \in {"attach", "commit"} /\ start[s].node = n

StartSound(s) ==
  /\ start[s].pc # "idle" => start[s].node \in Nodes
  /\ \A p \in WiredPorts(s) : p.id = start[s].node
  /\ start[s].pc \in {"run", "attach", "commit"} => ~rec[start[s].node]
  /\ start[s].pc = "commit" => \A p \in WiredPorts(s) : veth[p] \in {start[s].wires[p], 0}

BackedInv ==
  /\ RecordBacked
  /\ \A n \in Nodes : cont[n] => rec[n] \/ \E s \in Starters : Starting(s, n)
  /\ \A s \in Starters : StartSound(s)

\* A step that touches the runtime of nodes with a record only.
LEMMA RecordStepBacked ==
  ASSUME IInv, IInv', BackedInv, UNCHANGED <<cont, start, rec>>, RecordBacked',
         \A p \in Ports : veth'[p] \in {veth[p], 0} \/ rec[p.id]
  PROVE  BackedInv'
<1>1. ASSUME NEW s \in Starters PROVE StartSound(s)'
  <2>1. WiredPorts(s)' = WiredPorts(s) /\ WiredPorts(s) \subseteq Ports
    BY DEF WiredPorts
  <2> QED BY <2>1 DEF BackedInv, StartSound
<1> QED BY <1>1 DEF BackedInv, Starting

\* The node of a port is one of Nodes.
LEMMA PortNode ==
  ASSUME NEW p \in Ports PROVE p.id \in Nodes
BY DEF Ports, NodeEp

\* The ports of a request's hot-attach belong to nodes with a record.
LEMMA CreateBacked ==
  ASSUME IInv, IInv', BackedInv, NEW r \in Reqs, CreateAttached(r) \/ CreateRolledBack(r)
  PROVE  BackedInv'
<1> DEFINE a == req[r].ends[1]
           b == req[r].ends[2]
           k == JoinedNet(a, b)
           T == Targets(a, b)
<1>1. T \subseteq Ports /\ \A p \in T : rec[p.id]
  BY DEF Targets
<1>2. k \in NetIds
  BY AdmittedFacts DEF CreateAttached, CreateRolledBack
<1>3. CASE CreateAttached(r)
  <2>1. /\ UNCHANGED <<rec, cont, start>>
        /\ att' = [p \in Ports |-> IF p \in T /\ ~Kept(p, k) THEN [net |-> k, gen |-> cur[p] + 1] ELSE att[p]]
        /\ veth' = [p \in Ports |-> IF p \in T /\ ~Kept(p, k) THEN k ELSE veth[p]]
    BY <1>3 DEF CreateAttached, Attached
  <2> HIDE DEF T, k
  <2>2. RecordBacked'
    BY <1>1, <2>1 DEF BackedInv, RecordBacked
  <2>3. \A p \in Ports : veth'[p] \in {veth[p], 0} \/ rec[p.id]
    BY <1>1, <2>1
  <2> QED BY <2>1, <2>2, <2>3, RecordStepBacked
<1>4. CASE CreateRolledBack(r)
  <2> DEFINE stale == {p \in T : Stale(p, k)}
             before(f) == T \cap ({a} \ {f})
             gone(f, u) == before(f) \cup (stale \ u)
             swept(f, u) == before(f) \cup ({f} \ u)
  <2>1. UNCHANGED <<rec, cont, start>>
    BY <1>4 DEF CreateRolledBack
  <2>2. PICK f \in T, u \in IF HostFaults THEN SUBSET stale ELSE {{}} :
          /\ f \in u \/ (~Kept(f, k) /\ (HostFaults \/ NameTaken(f)))
          /\ att' = [p \in Ports |-> IF p \in gone(f, u) THEN Unattached ELSE att[p]]
          /\ \E left \in IF HostFaults THEN SUBSET swept(f, u) ELSE {{}} :
               veth' = [p \in Ports |-> IF p \in left THEN k
                                       ELSE IF p \in gone(f, u) \cup swept(f, u) THEN None ELSE veth[p]]
    BY <1>4, ZenonT(40) DEF CreateRolledBack
  <2>3. PICK left \in SUBSET swept(f, u) :
          veth' = [p \in Ports |-> IF p \in left THEN k
                                  ELSE IF p \in gone(f, u) \cup swept(f, u) THEN None ELSE veth[p]]
    BY <2>2
  <2>4. gone(f, u) \subseteq T /\ swept(f, u) \subseteq T
    OBVIOUS
  <2>5. ASSUME NEW p \in Ports, p \in swept(f, u), p \notin gone(f, u) PROVE att[p].net = None
    <3>1. p = f /\ f \notin u /\ f \notin stale
      BY <2>5
    <3>2. att[f].net \in {k, None} /\ att[f].net # k
      BY <2>2, <3>1 DEF Stale, Kept
    <3> QED BY <3>1, <3>2
  <2> HIDE DEF T, k, gone, swept, stale, before
  <2>6. ASSUME NEW p \in Ports, att'[p].net # None
        PROVE  rec'[p.id] /\ veth'[p] \in {att'[p].net, 0}
    <3>1. p \notin gone(f, u) /\ att'[p] = att[p]
      BY <2>2, <2>6 DEF Unattached
    <3>2. p \notin swept(f, u)
      BY <2>5, <2>6, <3>1
    <3>3. veth'[p] = veth[p]
      BY <2>3, <3>1, <3>2
    <3> QED BY <2>1, <2>6, <3>1, <3>3 DEF BackedInv, RecordBacked
  <2>7. \A p \in Ports : veth'[p] \in {veth[p], 0} \/ rec[p.id]
    BY <1>1, <2>3, <2>4
  <2>8. RecordBacked'
    BY <2>6 DEF RecordBacked
  <2> QED BY <2>1, <2>7, <2>8, RecordStepBacked
<1> QED BY <1>3, <1>4

\* delete_link drops the row and its veth together.
LEMMA DeleteBacked ==
  ASSUME IInv, IInv', BackedInv, NEW r \in Reqs, DeleteDone(r) PROVE BackedInv'
<1>1. PICK l \in lab.links :
        IF HasRecord(l) /\ ~DetachSkipped(l)
          THEN /\ att' = [att EXCEPT ![PortOf(l)] = Unattached]
               /\ veth' = [veth EXCEPT ![PortOf(l)] = None]
          ELSE UNCHANGED <<att, veth>>
  BY DEF DeleteDone, LinkNamed
<1>2. UNCHANGED <<rec, cont, start>>
  BY DEF DeleteDone
<1>3. /\ att \in [Ports -> Attachment] /\ veth \in [Ports -> NetOrNone \cup {0}]
  BY DEF IInv, RuntimeTyped
<1>4. RecordBacked'
  BY <1>1, <1>2, <1>3 DEF BackedInv, RecordBacked, Unattached
<1>5. \A p \in Ports : veth'[p] \in {veth[p], 0} \/ rec[p.id]
  BY <1>1, <1>3 DEF HasRecord
<1> QED BY <1>2, <1>4, <1>5, RecordStepBacked

\* Stopping takes the record, its rows, its veths and its container at once.
LEMMA StoppedBacked ==
  ASSUME IInv, IInv', BackedInv, NEW n \in Nodes, Stopped(n), UNCHANGED start PROVE BackedInv'
<1>1. /\ rec \in [Nodes -> BOOLEAN] /\ cont \in [Nodes -> BOOLEAN]
      /\ rec' = [rec EXCEPT ![n] = FALSE] /\ cont' = [cont EXCEPT ![n] = cont[n] /\ ~rec[n]]
  BY DEF IInv, RuntimeTyped, Stopped
<1>2. \A p \in Ports : IF p.id = n /\ rec[n] THEN att'[p].net = None /\ veth'[p] = None
                       ELSE att'[p] = att[p] /\ veth'[p] = veth[p]
  BY DEF Stopped, Unattached
<1>3. RecordBacked'
  <2>1. ASSUME NEW p \in Ports, att'[p].net # None
        PROVE  rec'[p.id] /\ veth'[p] \in {att'[p].net, 0}
    <3>1. p.id \in Nodes /\ ~(p.id = n /\ rec[n]) /\ att'[p] = att[p] /\ veth'[p] = veth[p]
      BY <1>2, <2>1, PortNode
    <3>2. rec[p.id] /\ veth[p] \in {att[p].net, 0}
      BY <2>1, <3>1 DEF BackedInv, RecordBacked
    <3> QED BY <1>1, <3>1, <3>2
  <2> QED BY <2>1 DEF RecordBacked
<1>4. \A m \in Nodes : cont'[m] => rec'[m] \/ \E s \in Starters : Starting(s, m)'
  BY <1>1 DEF BackedInv, Starting
<1>5. ASSUME NEW s \in Starters PROVE StartSound(s)'
  <2>1. WiredPorts(s)' = WiredPorts(s) /\ WiredPorts(s) \subseteq Ports /\ StartSound(s)
    BY DEF WiredPorts, BackedInv
  <2>2. ASSUME start[s].pc = "commit", NEW p \in WiredPorts(s) PROVE veth'[p] = veth[p]
    BY <1>2, <2>1, <2>2 DEF StartSound
  <2>3. start[s].pc \in {"run", "attach", "commit"} => ~rec'[start[s].node]
    BY <1>1, <2>1 DEF StartSound
  <2> QED BY <2>1, <2>2, <2>3 DEF StartSound
<1> QED BY <1>3, <1>4, <1>5 DEF BackedInv

\* The only thread works on a node without a record, so what it makes and
\* removes is nobody's row.
LEMMA StartBacked ==
  ASSUME OneStarter, IInv, IInv', BackedInv, NEW s \in Starters, StartStep(s) PROVE BackedInv'
<1> DEFINE n == start[s].node
           W == WiredPorts(s)
<1>0. /\ start \in [Starters -> StartThread] /\ rec \in [Nodes -> BOOLEAN]
      /\ cont \in [Nodes -> BOOLEAN] /\ start[s].wires \in [Ports -> NetOrNone]
      /\ att \in [Ports -> Attachment] /\ veth \in [Ports -> NetOrNone \cup {0}]
  BY DEF IInv, RuntimeTyped, StartThread
<1>1. \A t \in Starters : t = s
  BY DEF OneStarter
<1>2. StartSound(s) /\ W \subseteq Ports /\ RecordBacked
  BY DEF BackedInv, WiredPorts
<1>3. IdleStart.pc = "idle" /\ IdleStart.wires = [p \in Ports |-> None]
  BY DEF IdleStart
<1>4. ASSUME StartEnd(s) PROVE StartSound(s)' /\ start'[s].pc = "idle"
  <2>1. start'[s] = IdleStart
    BY <1>0, <1>4 DEF StartEnd
  <2>2. WiredPorts(s)' = {}
    BY <1>3, <2>1 DEF WiredPorts
  <2> QED BY <1>3, <2>1, <2>2 DEF StartSound
<1>5. ASSUME NEW pc, start' = [start EXCEPT ![s].pc = pc]
      PROVE  start'[s].pc = pc /\ start'[s].node = n /\ start'[s].wires = start[s].wires /\ WiredPorts(s)' = W
  <2>1. start'[s].pc = pc /\ start'[s].node = n /\ start'[s].wires = start[s].wires
    BY <1>0, <1>5 DEF StartThread
  <2> QED BY <2>1 DEF WiredPorts
<1>6. ASSUME n \in Nodes, InstallRecord(n, start[s].wires), StartEnd(s), UNCHANGED <<cont, veth>>,
             \A p \in W : p.id = n /\ veth[p] \in {start[s].wires[p], 0},
             \A m \in Nodes : cont[m] => rec[m] \/ m = n
      PROVE  BackedInv'
  <2>1. rec' = [rec EXCEPT ![n] = TRUE] /\ \A m \in Nodes : cont'[m] => rec'[m]
    BY <1>0, <1>6 DEF InstallRecord
  <2>2. ASSUME NEW p \in Ports, att'[p].net # None
        PROVE  rec'[p.id] /\ veth'[p] \in {att'[p].net, 0}
    <3>1. CASE p.id = n
      <4>1. att'[p].net = start[s].wires[p]
        BY <1>6, <3>1 DEF InstallRecord
      <4>2. p \in W
        BY <2>2, <4>1 DEF WiredPorts
      <4> QED BY <1>0, <1>6, <2>1, <3>1, <4>1, <4>2
    <3>2. CASE p.id # n
      <4>1. att'[p] = att[p]
        BY <1>6, <3>2 DEF InstallRecord
      <4> QED BY <1>0, <1>2, <1>6, <2>1, <2>2, <3>2, <4>1, PortNode DEF RecordBacked
    <3> QED BY <3>1, <3>2
  <2> QED BY <1>1, <1>4, <1>6, <2>1, <2>2 DEF BackedInv, RecordBacked
<1>7. ASSUME NEW m \in Nodes, StartBegin(s, m) PROVE BackedInv'
  <2> DEFINE V == [p \in Ports |-> IF p \in LinkedPorts(lab, m) THEN WiredNet(lab, p) ELSE None]
  <2>1. start'[s] = [pc |-> "check", node |-> m, wires |-> V]
    BY <1>0, <1>7 DEF StartBegin
  <2>2. \A p \in Ports : V[p] # None => p.id = m
    BY DEF LinkedPorts
  <2> HIDE DEF V
  <2>3. start'[s].pc = "check" /\ start'[s].node = m /\ start'[s].wires = V
    BY <2>1
  <2>4. StartSound(s)'
    BY <2>2, <2>3 DEF StartSound, WiredPorts
  <2>5. start[s].pc = "idle" /\ UNCHANGED <<rec, cont, att, veth>>
    BY <1>7 DEF StartBegin, runtime, host
  <2> QED BY <1>1, <2>4, <2>5 DEF BackedInv, RecordBacked, Starting
<1>8. ASSUME StartCheck(s) PROVE BackedInv'
  <2>1. start[s].pc = "check" /\ n \in Nodes /\ UNCHANGED <<cont, veth>>
    BY <1>2, <1>8 DEF StartCheck, StartSound, host
  <2>2. \A m \in Nodes : cont[m] => rec[m]
    BY <1>1, <2>1 DEF BackedInv, Starting
  <2>3. CASE rec[n] /\ StartEnd(s) /\ UNCHANGED <<rec, att, cur>>
    BY <1>1, <1>4, <2>1, <2>2, <2>3 DEF BackedInv, RecordBacked
  <2>4. CASE ~rec[n] /\ start' = [start EXCEPT ![s].pc = "run"] /\ UNCHANGED <<rec, att, cur>>
    <3>1. StartSound(s)'
      BY <1>2, <1>5, <2>1, <2>4 DEF StartSound
    <3> QED BY <1>1, <2>1, <2>2, <2>4, <3>1 DEF BackedInv, RecordBacked
  <2> QED BY <1>8, <2>1, <2>2, <2>3, <2>4 DEF StartCheck
<1>9. ASSUME StartRun(s) PROVE BackedInv'
  <2>1. /\ start[s].pc = "run" /\ start' = [start EXCEPT ![s].pc = "attach"]
        /\ cont' = [cont EXCEPT ![n] = TRUE] /\ UNCHANGED <<rec, att, veth>>
    BY <1>9 DEF StartRun, host
  <2>2. start'[s].pc = "attach" /\ start'[s].node = n /\ WiredPorts(s)' = W
    BY <1>5, <2>1
  <2>3. StartSound(s)'
    BY <1>2, <2>1, <2>2 DEF StartSound
  <2>4. \A m \in Nodes : cont'[m] => rec'[m] \/ Starting(s, m)'
    BY <1>0, <1>1, <2>1, <2>2 DEF BackedInv, Starting
  <2> QED BY <1>1, <2>1, <2>3, <2>4 DEF BackedInv, RecordBacked
<1>10. ASSUME StartRefused(s) PROVE BackedInv'
  <2>1. start[s].pc = "run" /\ StartEnd(s) /\ UNCHANGED <<rec, cont, att, veth>>
    BY <1>10 DEF StartRefused, runtime, host
  <2> QED BY <1>1, <1>4, <2>1 DEF BackedInv, RecordBacked, Starting
<1>11. ASSUME StartAttach(s) PROVE BackedInv'
  <2>1. /\ start[s].pc = "attach" /\ start' = [start EXCEPT ![s].pc = "commit"]
        /\ veth' = [p \in Ports |-> IF p \in W THEN start[s].wires[p] ELSE veth[p]]
        /\ UNCHANGED <<rec, cont, att>>
    BY <1>11 DEF StartAttach, runtime
  <2>2. start'[s].pc = "commit" /\ start'[s].node = n /\ start'[s].wires = start[s].wires /\ WiredPorts(s)' = W
    BY <1>5, <2>1
  <2> HIDE DEF W
  <2>3. StartSound(s)'
    BY <1>2, <2>1, <2>2 DEF StartSound, W
  <2>4. RecordBacked'
    BY <1>2, <2>1 DEF RecordBacked, StartSound, W
  <2>5. \A m \in Nodes : cont'[m] => rec'[m] \/ Starting(s, m)'
    BY <1>1, <2>1, <2>2 DEF BackedInv, Starting
  <2> QED BY <1>1, <2>3, <2>4, <2>5 DEF BackedInv
<1>12. ASSUME StartAborted(s) PROVE BackedInv'
  <2>1. /\ start[s].pc = "attach" /\ StartEnd(s) /\ UNCHANGED <<rec, att>>
        /\ cont' = [cont EXCEPT ![n] = FALSE]
    BY <1>12 DEF StartAborted
  <2>2. \A p \in Ports \ W : veth'[p] = veth[p]
    BY <1>12 DEF StartAborted
  <2>3. RecordBacked'
    BY <1>2, <2>1, <2>2 DEF RecordBacked, StartSound
  <2>4. \A m \in Nodes : cont'[m] => rec'[m]
    BY <1>0, <1>1, <2>1 DEF BackedInv, Starting
  <2> QED BY <1>1, <1>4, <2>1, <2>3, <2>4 DEF BackedInv
<1>13. ASSUME StartCommit(s) PROVE BackedInv'
  <2>1. /\ start[s].pc = "commit" /\ n \in Nodes /\ InstallRecord(n, start[s].wires) /\ StartEnd(s)
        /\ UNCHANGED <<cont, veth>> /\ \A p \in W : p.id = n /\ veth[p] \in {start[s].wires[p], 0}
    BY <1>2, <1>13 DEF StartCommit, StartSound, host
  <2>2. \A m \in Nodes : cont[m] => rec[m] \/ m = n
    BY <1>1 DEF BackedInv, Starting
  <2> QED BY <1>6, <2>1, <2>2
<1> QED BY <1>7, <1>8, <1>9, <1>10, <1>11, <1>12, <1>13 DEF StartStep

\* Every step keeps the rows backed.
LEMMA NextBacked ==
  ASSUME OneStarter, IInv, IInv', BackedInv, [Next]_vars PROVE BackedInv'
<1>1. ASSUME UNCHANGED <<rec, cont, att, start>>, \A p \in Ports : veth'[p] \in {veth[p], 0}
      PROVE  BackedInv'
  <2>1. RecordBacked'
    BY <1>1 DEF BackedInv, RecordBacked
  <2> QED BY <1>1, <2>1, RecordStepBacked
<1>2. ASSUME NEW r \in Reqs, LinkStep(r), ~CreateAttached(r), ~CreateRolledBack(r), ~DeleteDone(r)
      PROVE  UNCHANGED <<rec, cont, att, start, veth>>
  BY <1>2 DEF LinkStep, CreateBegin, DeleteBegin, AcquireFree, AcquireContended, ExecutorAcquire,
       Resume, AcquireTimeout, CreateRefused, CreateOffline, CreateNoBridge, DeleteVanished,
       DeleteFailed, Finish, runtime, host
<1>3. ASSUME NEW r \in Reqs, LinkStep(r) PROVE BackedInv'
  BY <1>1, <1>2, <1>3, CreateBacked, DeleteBacked
<1>4. ASSUME NEW key, CreateReplayed(key) PROVE BackedInv'
  BY <1>1, <1>4 DEF CreateReplayed, runtime, host
<1>5. ASSUME NodeStep PROVE BackedInv'
  BY <1>1, <1>5, StoppedBacked DEF NodeStep, CreateNode, StopNode, DeleteNode, runtime, host
<1>6. ASSUME NetworkStep PROVE BackedInv'
  BY <1>1, <1>6 DEF NetworkStep, CreateNetwork, EnsureBridges, DeleteNetwork, NameNetwork, runtime, host
<1>7. CASE UNCHANGED vars
  BY <1>1, <1>7 DEF vars
<1> QED BY <1>3, <1>4, <1>5, <1>6, <1>7, StartBacked DEF Next

\* An attachment of a runtime record always stands for a veth on that
\* network's bridge, when start_node threads follow each other.
THEOREM RecordsBacked ==
  ASSUME OneStarter
  PROVE  Spec => []RecordBacked
<1>1. Init => BackedInv
  <2> SUFFICES ASSUME Init PROVE BackedInv
    OBVIOUS
  <2>1. \A s \in Starters : start[s] = IdleStart
    BY DEF Init
  <2>2. \A p \in Ports : att[p].net = None
    BY DEF Init, Unattached
  <2>3. \A n \in Nodes : ~cont[n]
    BY DEF Init
  <2>4. IdleStart.pc = "idle" /\ IdleStart.wires = [p \in Ports |-> None]
    BY DEF IdleStart
  <2>5. \A s \in Starters : StartSound(s)
    BY <2>1, <2>4 DEF StartSound, WiredPorts
  <2> QED BY <2>2, <2>3, <2>5 DEF BackedInv, RecordBacked
<1>2. IInv /\ BackedInv /\ [Next]_vars => (IInv /\ BackedInv)'
  BY NextKeeps, NextBacked
<1>3. BackedInv => RecordBacked
  BY DEF BackedInv
<1> QED BY <1>1, <1>2, <1>3, InitHolds, PTL DEF Spec
------------------------------------------------------------------------------
(***************************************************************************)
(* Running nodes stay wired as lab.json says                               *)
(***************************************************************************)
\* The links an admitted request adds wire its own ports to the joined
\* network, or have no port at all.
LEMMA EditedLinks ==
  ASSUME lab \in Lab, NEW a \in Endpoints, NEW b \in Endpoints, NEW l \in Edited(a, b).links,
         l \notin lab.links, IsPort(PortOf(l))
  PROVE  /\ PortOf(l) \in {a, b} \cap Ports
         /\ \A x \in NetIds : Touches(l, NetEp(x)) => x = JoinedNet(a, b)
<1>0. /\ (IsPort(a) <=> a \in Ports) /\ (IsPort(b) <=> b \in Ports)
      /\ \A x : ~IsPort(NetEp(x)) /\ \A y : NetEp(x) = NetEp(y) => x = y
  BY EndpointKinds DEF IsPort, NetEp
<1>1. CASE BothPorts(a, b)
  <2> DEFINE k == NextNetworkId(lab)
             W == [lab EXCEPT !.nets[k] = "implicit"]
             M == AddLink(W, a, NetEp(k))
             u == [id |-> NextLinkId(W), a |-> a, b |-> NetEp(k), gen |-> 0]
             v == [id |-> NextLinkId(M), a |-> b, b |-> NetEp(k), gen |-> 0]
  <2>1. Edited(a, b) = AddLink(M, b, NetEp(k)) /\ JoinedNet(a, b) = k
    BY <1>1 DEF Edited, AddImplicitPair, JoinedNet
  <2>2. M.links = lab.links \cup {u} /\ DOMAIN M = {"nodes", "nets", "links"}
    BY DEF AddLink, Lab
  <2>3. AddLink(M, b, NetEp(k)).links = M.links \cup {v}
    BY <2>2 DEF AddLink
  <2>4. l \in {u, v}
    BY <2>1, <2>2, <2>3
  <2>5. l.a \in {a, b} /\ l.b = NetEp(k)
    BY <2>4
  <2> HIDE DEF u, v, M, W, k
  <2> QED BY <1>0, <1>1, <2>1, <2>5 DEF PortOf, Touches, BothPorts
<1>2. CASE ~BothPorts(a, b)
  <2> DEFINE new == [id |-> NextLinkId(lab), a |-> a, b |-> b, gen |-> 0]
             M == AddLink(lab, a, b)
  <2>1. Edited(a, b) = Promote(M, TargetNet(a, b)) /\ JoinedNet(a, b) = TargetNet(a, b)
    BY <1>2 DEF Edited, JoinNetwork, JoinedNet
  <2>2. M.links = lab.links \cup {new} /\ DOMAIN M = {"nodes", "nets", "links"}
    BY DEF AddLink, Lab
  <2>3. Edited(a, b).links = M.links
    BY <2>1, <2>2 DEF Promote
  <2>4. l.a = a /\ l.b = b
    BY <2>2, <2>3
  <2>5. \A x \in NetIds : NetEp(x).id = x
    BY DEF NetEp
  <2> QED BY <1>0, <1>2, <2>1, <2>4, <2>5 DEF PortOf, Touches, BothPorts, TargetNet
<1> QED BY <1>1, <1>2

\* The links of the new document end where those of the edit end, and the
\* attachments of ports outside the request are as before.
LEMMA CreateWired ==
  ASSUME IInv, Wired, NEW r \in Reqs, Admitted(r), UNCHANGED rec,
         NEW a, a = req[r].ends[1], NEW b, b = req[r].ends[2],
         \A l \in lab'.links : \E m \in Edited(a, b).links : l.a = m.a /\ l.b = m.b,
         \A p \in Ports : p \notin {a, b} => att'[p] = att[p],
         \A p \in Targets(a, b) : att'[p].net = JoinedNet(a, b)
  PROVE  Wired'
<1>1. HasAllLocks(r) /\ req[r].pc = "lock" /\ ~Conflict(a, b)
  BY DEF Admitted, InCreate, Running
<1>2. a \in Endpoints /\ b \in Endpoints /\ lab \in Lab
  BY <1>1, LockedPortsDiffer DEF IInv, Sound
<1>3. \A l \in lab.links : \A p \in {a, b} \cap Ports : ~Touches(l, p)
  BY <1>1 DEF Conflict
<1>4. SUFFICES ASSUME NEW l \in lab'.links, IsPort(PortOf(l)), rec[PortOf(l).id],
                      NEW k \in NetIds, Touches(l, NetEp(k))
               PROVE  att'[PortOf(l)].net = k
  BY DEF Wired, HasRecord
<1>5. PICK m \in Edited(a, b).links : l.a = m.a /\ l.b = m.b
  OBVIOUS
<1>6. PortOf(m) = PortOf(l) /\ Touches(m, NetEp(k))
  BY <1>4, <1>5 DEF PortOf, Touches
<1>7. CASE m \in lab.links
  <2>1. PortOf(l) \in Ports
    BY <1>2, <1>4, <1>6, <1>7, EndpointKinds DEF Lab, Link, PortOf
  <2>2. PortOf(l) \notin {a, b}
    BY <1>3, <1>6, <1>7, <2>1 DEF Touches, PortOf
  <2>3. att[PortOf(l)].net = k
    BY <1>4, <1>6, <1>7 DEF Wired, HasRecord
  <2> QED BY <2>1, <2>2, <2>3
<1>8. CASE m \notin lab.links
  <2>1. PortOf(l) \in {a, b} \cap Ports /\ k = JoinedNet(a, b)
    BY <1>2, <1>4, <1>6, <1>8, EditedLinks
  <2>2. PortOf(l) \in Targets(a, b)
    BY <1>4, <2>1 DEF Targets
  <2> QED BY <2>1, <2>2
<1> QED BY <1>7, <1>8

\* A create request keeps running nodes wired, whether it succeeds or not.
LEMMA CreateStepWired ==
  ASSUME IInv, IInv', Wired, NEW r \in Reqs, CreateOffline(r) \/ CreateAttached(r) \/ CreateRolledBack(r)
  PROVE  Wired'
<1> DEFINE a == req[r].ends[1]
           b == req[r].ends[2]
           k == JoinedNet(a, b)
           S == Targets(a, b)
<1>1. Admitted(r) /\ UNCHANGED rec
  BY DEF CreateOffline, CreateAttached, CreateRolledBack, runtime
<1>2. S \subseteq {a, b} \cap Ports
  BY DEF Targets
<1>3. CASE CreateOffline(r)
  <2>1. S = {} /\ lab' = Edited(a, b) /\ att' = att
    BY <1>3 DEF CreateOffline, runtime
  <2> HIDE DEF k
  <2> QED BY <1>1, <2>1, CreateWired
<1>4. CASE CreateAttached(r)
  <2>1. att' = Attached(S, k) /\ lab' = StampGenerations(Edited(a, b), S, k, att')
    BY <1>4 DEF CreateAttached
  <2> HIDE DEF k, S
  <2>2. \A p \in Ports : p \notin {a, b} => att'[p] = att[p]
    BY <1>2, <2>1 DEF Attached
  <2>3. \A p \in S : att'[p].net = k
    BY <1>2, <2>1 DEF Attached, Kept
  <2>4. Edited(a, b) \in Lab
    BY <1>1, AdmittedFacts DEF Sound
  <2>5. \A l \in lab'.links : \E m \in Edited(a, b).links : l.a = m.a /\ l.b = m.b
    BY <2>1, <2>4 DEF StampGenerations, Lab, Link
  <2> QED BY <1>1, <2>2, <2>3, <2>5, CreateWired DEF k, S
<1>5. CASE CreateRolledBack(r)
  <2>1. UNCHANGED lab
    BY <1>5 DEF CreateRolledBack, json
  <2>2. \E G \in SUBSET S : att' = [p \in Ports |-> IF p \in G THEN Unattached ELSE att[p]]
    <3> DEFINE stale == {p \in S : Stale(p, k)}
               gone(f, u) == (S \cap ({a} \ {f})) \cup (stale \ u)
    <3>1. \E f \in S, u \in IF HostFaults THEN SUBSET stale ELSE {{}} :
            att' = [p \in Ports |-> IF p \in gone(f, u) THEN Unattached ELSE att[p]]
      BY <1>5, Zenon DEF CreateRolledBack
    <3>2. \A f, u : gone(f, u) \in SUBSET S
      OBVIOUS
    <3> HIDE DEF gone
    <3> QED BY <3>1, <3>2
  <2>3. \A p \in Ports : p \notin {a, b} => att'[p] = att[p]
    BY <1>2, <2>2
  <2>4. \A l \in lab.links : \A p \in {a, b} \cap Ports : ~Touches(l, p)
    BY <1>1 DEF Admitted, Conflict
  <2>5. ASSUME NEW l \in lab.links, IsPort(PortOf(l)) PROVE att'[PortOf(l)] = att[PortOf(l)]
    <3>1. PortOf(l) \in Ports /\ Touches(l, PortOf(l))
      BY <2>5, EndpointKinds DEF IInv, Sound, Lab, Link, PortOf, Touches
    <3> QED BY <2>3, <2>4, <3>1
  <2> QED BY <1>1, <2>1, <2>5 DEF Wired, HasRecord
<1> QED BY <1>3, <1>4, <1>5

\* delete_link detaches the port of the link it removes, and no other.
LEMMA DeleteWired ==
  ASSUME IInv, Wired, NEW r \in Reqs, DeleteDone(r) PROVE Wired'
<1>1. PICK l \in lab.links :
        /\ IF HasRecord(l) /\ ~DetachSkipped(l)
             THEN att' = [att EXCEPT ![PortOf(l)] = Unattached]
             ELSE UNCHANGED att
        /\ lab' = RemoveLink(lab, l)
  BY DEF DeleteDone, LinkNamed
<1>2. UNCHANGED rec /\ att \in [Ports -> Attachment] /\ Sound(lab) /\ lab \in Lab
  BY DEF DeleteDone, IInv, RuntimeTyped, Sound
<1>3. lab'.links \subseteq lab.links \ {l}
  <2>1. ASSUME NEW L \in Lab, NEW D PROVE DropLinks(L, D) \in Lab /\ DropLinks(L, D).links = L.links \ D
    BY DEF DropLinks, Lab
  <2>2. ASSUME NEW L \in Lab, NEW e PROVE DropOrphanHalf(L, e) \in Lab /\ DropOrphanHalf(L, e).links \subseteq L.links
    BY <2>1 DEF DropOrphanHalf
  <2>3. ASSUME NEW L \in Lab, NEW e PROVE CollectNetwork(L, e) \in Lab /\ CollectNetwork(L, e).links = L.links
    BY DEF CollectNetwork, Lab
  <2>4. DropLinks(lab, {l}) \in Lab /\ DropLinks(lab, {l}).links = lab.links \ {l}
    BY <1>2, <2>1
  <2> DEFINE pruned == DropOrphanHalf(DropOrphanHalf(DropLinks(lab, {l}), l.a), l.b)
  <2>5. pruned \in Lab /\ pruned.links \subseteq lab.links \ {l}
    BY <2>2, <2>4
  <2>6. lab' = CollectNetwork(CollectNetwork(pruned, l.a), l.b)
    BY <1>1 DEF RemoveLink
  <2> HIDE DEF pruned
  <2> QED BY <2>3, <2>5, <2>6
<1>4. ASSUME NEW m \in lab.links \ {l}, IsPort(PortOf(m)) PROVE att'[PortOf(m)] = att[PortOf(m)]
  <2>1. PortOf(m) \in Ports /\ Touches(m, PortOf(m)) /\ Touches(l, PortOf(l))
    BY <1>2, <1>4, EndpointKinds DEF Lab, Link, PortOf, Touches
  <2>2. PortOf(m) # PortOf(l)
    BY <1>2, <2>1 DEF Sound, PortsOnce
  <2> QED BY <1>1, <1>2, <2>1, <2>2
<1> QED BY <1>2, <1>3, <1>4 DEF Wired, HasRecord

\* Stopping or deleting a node detaches that node only.
LEMMA NodeWired ==
  ASSUME IInv, Wired, NodeStep PROVE Wired'
<1>0. lab \in Lab /\ rec \in [Nodes -> BOOLEAN]
  BY DEF IInv, RuntimeTyped, Sound
<1>1. CASE CreateNode
  <2>1. lab'.links = lab.links /\ UNCHANGED <<rec, att>>
    BY <1>0, <1>1 DEF CreateNode, Lab, runtime
  <2> QED BY <2>1 DEF Wired, HasRecord
<1>2. ASSUME NEW n \in Nodes, Stopped(n), lab'.links \subseteq lab.links PROVE Wired'
  <2>1. rec' = [rec EXCEPT ![n] = FALSE] /\ \A p \in Ports : p.id # n => att'[p] = att[p]
    BY <1>2 DEF Stopped
  <2>2. ASSUME NEW l \in lab'.links, HasRecord(l)'
        PROVE  HasRecord(l) /\ att'[PortOf(l)] = att[PortOf(l)]
    <3>1. IsPort(PortOf(l)) /\ PortOf(l) \in Ports
      BY <1>0, <1>2, <2>2, EndpointKinds DEF HasRecord, Lab, Link, PortOf
    <3>2. PortOf(l).id \in Nodes
      BY <3>1, PortNode
    <3>3. PortOf(l).id # n /\ rec[PortOf(l).id]
      BY <1>0, <2>1, <2>2, <3>2 DEF HasRecord
    <3> QED BY <2>1, <3>1, <3>3 DEF HasRecord
  <2> QED BY <1>2, <2>2 DEF Wired
<1>3. ASSUME NEW n \in Nodes, StopNode(n) PROVE Wired'
  BY <1>2, <1>3 DEF StopNode, json
<1>4. ASSUME NEW n \in Nodes, DeleteNode(n) PROVE Wired'
  <2>1. lab'.links \subseteq lab.links
    BY <1>0, <1>4 DEF DeleteNode, Lab
  <2> QED BY <1>2, <1>4, <2>1 DEF DeleteNode
<1> QED BY <1>1, <1>3, <1>4 DEF NodeStep

\* Whatever link, node and network handlers do, running nodes stay wired as
\* lab.json says; only a start_node thread, with its old reading of the
\* document, can change that.
THEOREM HandlersWire == Spec => HandlersKeepWiring
<1>1. IInv /\ IInv' /\ [Next]_vars => [start' = start /\ Wired => Wired']_vars
  <2> SUFFICES ASSUME IInv, IInv', Next, start' = start, Wired PROVE Wired'
    OBVIOUS
  <2>1. ASSUME NEW s \in Starters, StartStep(s) PROVE FALSE
    <3>1. start[s] \in StartThread /\ start \in [Starters -> StartThread]
      BY DEF IInv, RuntimeTyped
    <3>2. ASSUME NEW pc, start' = [start EXCEPT ![s].pc = pc] PROVE start[s].pc = pc
      BY <3>1, <3>2 DEF StartThread
    <3>3. ASSUME StartEnd(s) PROVE start[s].pc = "idle"
      BY <3>1, <3>3 DEF StartEnd, IdleStart
    <3>4. ASSUME NEW n, StartBegin(s, n) PROVE FALSE
      <4>1. start[s].pc = "idle" /\ start'[s].pc = "check"
        BY <3>1, <3>4 DEF StartBegin
      <4> QED BY <4>1
    <3> QED BY <2>1, <3>2, <3>3, <3>4 DEF StartStep, StartCheck, StartRun, StartRefused, StartAttach,
          StartAborted, StartCommit
  <2>2. ASSUME UNCHANGED <<lab, rec, att>> PROVE Wired'
    BY <2>2 DEF Wired, HasRecord
  <2>3. ASSUME NEW r \in Reqs, LinkStep(r) PROVE Wired'
    <3>1. \/ CreateOffline(r) \/ CreateAttached(r) \/ CreateRolledBack(r) \/ DeleteDone(r)
          \/ UNCHANGED <<lab, rec, att>>
      BY <2>3 DEF LinkStep, CreateBegin, DeleteBegin, AcquireFree, AcquireContended, ExecutorAcquire,
           Resume, AcquireTimeout, CreateRefused, CreateNoBridge, DeleteVanished, DeleteFailed, Finish,
           runtime, json
    <3> QED BY <2>2, <3>1, CreateStepWired, DeleteWired
  <2>4. ASSUME NEW key, CreateReplayed(key) PROVE Wired'
    BY <2>2, <2>4 DEF CreateReplayed, runtime
  <2>5. ASSUME NetworkStep PROVE Wired'
    <3>1. UNCHANGED <<rec, att>> /\ lab'.links = lab.links
      BY <2>5 DEF NetworkStep, CreateNetwork, EnsureBridges, DeleteNetwork, NameNetwork, runtime, json,
           IInv, Sound, Lab
    <3> QED BY <3>1 DEF Wired, HasRecord
  <2> QED BY <2>1, <2>3, <2>4, <2>5, NodeWired DEF Next
<1>2. Spec => []IInv
  BY InitHolds, NextKeeps, PTL DEF Spec
<1> QED BY <1>1, <1>2, PTL DEF Spec, HandlersKeepWiring
==============================================================================
