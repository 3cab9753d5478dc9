------------------------------ MODULE LabHandlers ------------------------------
(***************************************************************************)
(* The request handlers that rewrite the lab.json of one lab               *)
(* (backend/app/routers/labs.py, with lab_lock.py and lab_service.py).     *)
(* Each reads the file, edits it and writes it back without awaiting, so   *)
(* it is one step of the event loop.  The exception is                     *)
(* create_nodes_from_paired_template: it takes a snapshot, writes the      *)
(* children, and awaits create_link once per link and, after a failure,    *)
(* delete_link once per link made, before it restores the snapshot.  It    *)
(* holds lab_lock, a flock, all the while.                                 *)
(*                                                                         *)
(* Other handlers run at its awaits.  Those that take lab_lock spin on the *)
(* event loop, so its holder cannot go on, and fail after five seconds:    *)
(* they change nothing.  Those that do not take it go ahead.               *)
(*                                                                         *)
(* A browser keeps the copy of the lab it loaded and sends it back, with   *)
(* one node moved, in PUT /topology.                                       *)
(***************************************************************************)
EXTENDS LabEdits

CONSTANT MaxRequests  \* bound on the requests of a behaviour

ASSUME RequestsConstant == MaxRequests \in Nat

VARIABLES
  left,       \* requests still to come
  lab, conf,  \* lab.json
  pair,       \* the paired request: [pc, t, next, made, snap, old]
  view,       \* the browser's copy: [links, conf, nodes]
  slip        \* history: [on, lab, conf], what the users had been promised
              \* when a handler first slipped past the lock, or a browser
              \* first brought back links with a copy that was out of date

vars == <<left, lab, conf, pair, view, slip>>

NoTemplate == [kids |-> << >>, wires |-> << >>]
IdlePair   == [pc |-> "idle", t |-> NoTemplate, next |-> 1, made |-> << >>,
               snap |-> EmptyLab, old |-> NoConf]

Init ==
  /\ left = MaxRequests
  /\ lab = EmptyLab /\ conf = NoConf /\ pair = IdlePair
  /\ view = [links |-> {}, conf |-> NoConf, nodes |-> {}]
  /\ slip = [on |-> FALSE, lab |-> EmptyLab, conf |-> NoConf]

Unlocked == pair.pc = "idle"

\* The first handler that runs at an await of the paired request without
\* taking the lock.
SlipsPast == slip' = IF Unlocked \/ slip.on THEN slip
                     ELSE [on |-> TRUE, lab |-> pair.snap, conf |-> pair.old]

------------------------------------------------------------------------------
(* Handlers that do not take lab_lock.                                     *)

\* create_node, create_node_from_template (m = 1) and create_nodes_batch.
CreateNodes(m) ==
  /\ NewIds(lab, m) \subseteq Nodes
  /\ lab' = WithNodes(lab, m)
  /\ SlipsPast /\ UNCHANGED <<conf, pair, view>>

\* update_node; update_lab stores into conf[0].
Update(n) ==
  /\ n \in Kept \cap (lab.nodes \cup {0})
  /\ conf' = [conf EXCEPT ![n] = 1 - @]
  /\ SlipsPast /\ UNCHANGED <<lab, pair, view>>

\* Mutant: the fields of the node stay behind.
DeleteNodeEntry(n) ==
  /\ n \in lab.nodes
  /\ lab' = WithoutNode(lab, n)
  /\ SlipsPast /\ UNCHANGED <<conf, pair, view>>

DeleteNode(n) ==
  /\ n \in lab.nodes
  /\ lab' = WithoutNode(lab, n) /\ conf' = Cleared(conf, n)
  /\ SlipsPast /\ UNCHANGED <<pair, view>>

------------------------------------------------------------------------------
(* Handlers that take lab_lock.                                            *)

\* patch_node_interface and put_layout.
PatchNode(n) ==
  /\ Unlocked /\ n \in Kept \cap lab.nodes
  /\ conf' = [conf EXCEPT ![n] = 1 - @]
  /\ UNCHANGED <<lab, pair, view, slip>>

CreateLink(p) ==
  /\ Unlocked /\ ~SelfLink(p[1], p[2])
  /\ ~Taken(lab, p[1], p[2]) /\ Room(lab, p[1], p[2])
  /\ \A e \in {p[1], p[2]} : IsPort(e) => e.id \in lab.nodes
  /\ lab' = Wired(lab, p[1], p[2])
  /\ UNCHANGED <<conf, pair, view, slip>>

DeleteLink(l) ==
  /\ Unlocked /\ lab' = RemoveLink(lab, l)
  /\ UNCHANGED <<conf, pair, view, slip>>

CreateNetwork ==
  /\ Unlocked /\ NextNetworkId(lab) \in NetIds
  /\ lab' = [lab EXCEPT !.nets[NextNetworkId(lab)] = "explicit"]
  /\ UNCHANGED <<conf, pair, view, slip>>

DeleteNetwork(k) ==
  /\ Unlocked /\ lab.nets[k] = "explicit" /\ RefCount(lab, k) = 0
  /\ lab' = [lab EXCEPT !.nets[k] = "none"]
  /\ UNCHANGED <<conf, pair, view, slip>>

\* A browser loads the lab.
Load ==
  /\ view' = [links |-> lab.links, conf |-> conf, nodes |-> lab.nodes]
  /\ UNCHANGED <<lab, conf, pair, slip>>

\* _legacy_topology_to_links on the topology the browser was given: the links
\* of its interfaces, numbered from one.
FromTopology(links) ==
  LET wired == {l \in links : IsPort(PortOf(l))} IN
  {[id |-> Cardinality({m \in wired : m.id <= l.id}), a |-> PortOf(l),
    b |-> IF IsPort(l.a) THEN l.b ELSE l.a, gen |-> 0] : l \in wired}

\* update_topology: the browser's fields of every node that still exists;
\* write_lab_json_static takes the links from the topology when there are
\* none.
PutTopology(n) ==
  LET revived == lab.links = {} /\ FromTopology(view.links) # {} IN
  /\ Unlocked /\ n \in Kept \cap view.nodes
  /\ view' = [view EXCEPT !.conf[n] = 1 - @]
  /\ conf' = [m \in Kept |->
                IF m \in view.nodes \cap lab.nodes THEN view'.conf[m] ELSE conf[m]]
  /\ lab' = [lab EXCEPT !.links = IF revived THEN FromTopology(view.links) ELSE @]
  /\ slip' = IF revived /\ ~slip.on THEN [on |-> TRUE, lab |-> lab, conf |-> conf] ELSE slip
  /\ UNCHANGED pair

------------------------------------------------------------------------------
(* create_nodes_from_paired_template.                                      *)

\* Pre-flight, lock, snapshot, and the children.
PairBegin(t) ==
  /\ Unlocked /\ Preflight(t) /\ PairRoom(lab, t)
  /\ pair' = [pc |-> "link", t |-> t, next |-> 1, made |-> << >>, snap |-> lab, old |-> conf]
  /\ lab' = WithNodes(lab, Len(t.kids))
  /\ UNCHANGED <<conf, view, slip>>

Wire == pair.t.wires[pair.next]
Port(e) == EndPort(pair.t, NextNodeId(pair.snap), e)
Looked == Found(pair.t, Wire.from) # {} /\ Found(pair.t, Wire.to) # {}

\* create_link returns the first of the two half-links.
PairLink ==
  /\ pair.pc = "link" /\ pair.next <= Len(pair.t.wires)
  /\ Looked /\ ~SelfLink(Port(Wire.from), Port(Wire.to))
  /\ ~Taken(lab, Port(Wire.from), Port(Wire.to))
  /\ lab' = AddImplicitPair(lab, Port(Wire.from), Port(Wire.to))
  /\ pair' = [pair EXCEPT !.next = @ + 1, !.made = Append(@, NextLinkId(lab))]
  /\ UNCHANGED <<conf, view, slip>>

\* Mutant: the links already made stay, with the children.
PairLinkFailsOpen ==
  /\ pair.pc = "link" /\ pair.next <= Len(pair.t.wires)
  /\ pair' = IdlePair
  /\ UNCHANGED <<lab, conf, view, slip>>

\* The interface does not resolve, the port is wired, or create_link fails:
\* the runtime mutex stays contended, or a child was started meanwhile and
\* cannot be attached.
PairLinkFails ==
  /\ pair.pc = "link" /\ pair.next <= Len(pair.t.wires)
  /\ pair' = [pair EXCEPT !.pc = IF Looked THEN "undo" ELSE "unresolved"]
  /\ UNCHANGED <<lab, conf, view, slip>>

Undoing == pair.pc \in {"undo", "unresolved"}

\* Mutant: a link that is gone is tried again.
PairUndoLinkAgain ==
  /\ Undoing /\ pair.made # << >>
  /\ \E l \in lab.links : l.id = Last(pair.made) /\ lab' = RemoveLink(lab, l)
  /\ pair' = [pair EXCEPT !.made = Front(@)]
  /\ UNCHANGED <<conf, view, slip>>

\* delete_link of the last link made; a link that is gone is no error, and an
\* error is only logged.
PairUndoLink ==
  /\ Undoing /\ pair.made # << >>
  /\ \/ \E l \in lab.links : l.id = Last(pair.made) /\ lab' = RemoveLink(lab, l)
     \/ UNCHANGED lab
  /\ pair' = [pair EXCEPT !.made = Front(@)]
  /\ UNCHANGED <<conf, view, slip>>

\* The snapshot is written back and the lock released.
PairRestore ==
  /\ Undoing /\ pair.made = << >>
  /\ lab' = pair.snap /\ conf' = pair.old /\ pair' = IdlePair
  /\ UNCHANGED <<view, slip>>

PairDone ==
  /\ pair.pc = "link" /\ pair.next > Len(pair.t.wires)
  /\ pair' = IdlePair
  /\ UNCHANGED <<lab, conf, view, slip>>

PairStep == PairLink \/ PairLinkFails \/ PairUndoLink \/ PairRestore \/ PairDone

Request ==
  \/ \E m \in 1..2 : CreateNodes(m)
  \/ \E n \in Kept : Update(n) \/ PatchNode(n) \/ PutTopology(n)
  \/ \E n \in Nodes : DeleteNode(n)
  \/ \E p \in Pairs : CreateLink(p)
  \/ \E l \in lab.links : DeleteLink(l)
  \/ CreateNetwork \/ \E k \in NetIds : DeleteNetwork(k)
  \/ Load
  \/ \E t \in Templates : PairBegin(t)

Next == \/ left > 0 /\ left' = left - 1 /\ Request
        \/ PairStep /\ UNCHANGED left

Spec == Init /\ [][Next]_vars

\* Every await of the paired request ends: the mutex is waited for with a
\* timeout, and so is the send to each browser.
FairSpec == Spec /\ WF_vars(PairStep /\ UNCHANGED left)

------------------------------------------------------------------------------
(* Properties.                                                             *)

\* The document has the shape of LabJson, no two links share an id, no
\* interface has two links, and fields are kept for nodes only.  The template
\* in progress passed the pre-flight.
HandlersTypeOK ==
  /\ left \in 0..MaxRequests
  /\ lab \in Lab /\ DistinctIds(lab) /\ PortsOnce(lab)
  /\ conf \in Confs /\ \A n \in Kept \ (lab.nodes \cup {0}) : conf[n] = 0
  /\ pair.pc \in {"idle", "link", "undo", "unresolved"}
  /\ pair.snap \in Lab /\ Preflight(pair.t)

\* What the users have been promised: while a paired request is on its way,
\* the document without it.
Promised == INSTANCE LabDocument WITH
              lab  <- IF slip.on THEN slip.lab ELSE IF Unlocked THEN lab ELSE pair.snap,
              conf <- IF slip.on THEN slip.conf ELSE IF Unlocked THEN conf ELSE pair.old

\* Until a handler slips past the lock, lab.json changes by whole edits only
\* (create_nodes_from_paired_template: "This endpoint creates ALL children
\* and ALL auto-links in a single transaction"): a paired template is there
\* completely or not at all, whatever link fails and whatever fails while
\* it is undone, and no edit made under the lock is lost.
WholeEdits == Promised!Spec

\* A link never names a node that is gone: delete_node takes the links of the
\* node with it ("Drop links[] entries referencing the deleted node
\* explicitly"), and the restore brings back nodes and links together.
LinksOnNodes ==
  ~slip.on => \A l \in lab.links : IsPort(PortOf(l)) => PortOf(l).id \in lab.nodes

\* "Must mirror the runtime overlay sequence" (_paired_child_iface_names):
\* a link of a template that passed the pre-flight finds its interfaces,
\* except where a format is given as a list, which the children are created
\* with as it stands.
PreflightMirrors ==
  pair.pc = "unresolved" => \E i \in DOMAIN pair.t.kids : pair.t.kids[i].mode = "list"

\* The lock is released: the paired request ends, so the handlers that wait
\* for lab_lock are not refused for ever.
PairEnds == pair.pc # "idle" ~> pair.pc = "idle"

\* "hold lab_lock across snapshot+phase1+phase2+restore so a concurrent
\* writer cannot slip in between snapshot and restore (which would silently
\* clobber their work)" (routers/labs.py, create_nodes_from_paired_template):
\* the restore takes no node away that the request did not create.
RestoreKeepsOthers ==
  [][Undoing /\ pair'.pc = "idle" =>
       lab.nodes \ NewIds(pair.snap, Len(pair.t.kids)) \subseteq lab'.nodes]_vars
==============================================================================
