------------------------------- MODULE LabEdits -------------------------------
(***************************************************************************)
(* The edits of lab.json that the handlers of backend/app/routers/labs.py  *)
(* make besides those of the link service: nodes come and go, paired       *)
(* templates, and the fields that are stored without looking at them       *)
(* (conf; conf[0] stands for those of the lab itself).                     *)
(***************************************************************************)
EXTENDS LabJson, PairedTemplates

CONSTANTS Templates,  \* paired templates in USER_TEMPLATES_DIR
          Pairs,      \* endpoint pairs that clients ask to link
          Kept        \* nodes whose stored fields the model keeps; 0 is the lab

ASSUME KeptConstant == Kept \subseteq Nodes \cup {0}

ASSUME PairsConstant == Pairs \subseteq Endpoints \X Endpoints

ASSUME TemplatesConstant ==
  /\ Templates \subseteq Template
  /\ \A t \in Templates : \A i \in DOMAIN t.kids : Indices(t.kids[i]) \subseteq Ifaces

EmptyLab == [nodes |-> {}, nets |-> [k \in NetIds |-> "none"], links |-> {}]
Confs    == [Kept -> {0, 1}]
NoConf   == [n \in Kept |-> 0]

NewIds(l, m) == {NextNodeId(l) + i : i \in 0..(m - 1)}

Cleared(c, n) == [k \in Kept |-> IF k = n THEN 0 ELSE c[k]]

WithNodes(l, m) == [l EXCEPT !.nodes = @ \cup NewIds(l, m)]

\* Mutant: the links of the node stay.
WithoutNodeOnly(l, n) == [l EXCEPT !.nodes = @ \ {n}]

\* A node goes with its own links; the other half of a pair stays, and so
\* does the hidden network between them.
WithoutNode(l, n) ==
  [l EXCEPT !.nodes = @ \ {n},
            !.links = {k \in @ : \A i \in Ifaces : ~Touches(k, NodeEp(n, i))}]

Wired(l, a, b) == IF IsPort(a) /\ IsPort(b) THEN AddImplicitPair(l, a, b)
                                            ELSE JoinNetwork(l, a, b)

\* The interface that end e of a wire of template t stands for, when the
\* first child has node id first.
EndPort(t, first, e) == NodeEp(first + e.child - 1, Resolve(t, e))

\* All children of template t and its first i links, for every i.
PairStages(l, t) ==
  LET first == NextNodeId(l)
      stage[i \in 0..Len(t.wires)] ==
        IF i = 0 THEN WithNodes(l, Len(t.kids))
        ELSE AddImplicitPair(stage[i - 1], EndPort(t, first, t.wires[i].from),
                             EndPort(t, first, t.wires[i].to))
  IN  stage

\* All children and all links.
WithPair(l, t) == PairStages(l, t)[Len(t.wires)]

\* create_link locks the runtime mutex of each end, which is not reentrant: a
\* link of an interface to itself waits for itself and is refused.
SelfLink(a, b) == IsPort(a) /\ a = b

Taken(l, a, b) == \E k \in l.links : \E p \in {a, b} \cap Ports : Touches(k, p)

\* What a link needs besides free interfaces: its network, and room for it
\* within the model's bounds on ids.
Room(l, a, b) ==
  IF IsPort(a) /\ IsPort(b)
  THEN NextLinkId(l) < MaxLink /\ NextNetworkId(l) \in NetIds
  ELSE NextLinkId(l) <= MaxLink /\ l.nets[TargetNet(a, b)] # "none"

PairRoom(l, t) == /\ NewIds(l, Len(t.kids)) \subseteq Nodes
                  /\ NextLinkId(l) + 2 * Len(t.wires) <= MaxLink + 1
                  /\ NextNetworkId(l) + Len(t.wires) <= MaxNet + 1
==============================================================================
