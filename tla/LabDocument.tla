------------------------------ MODULE LabDocument ------------------------------
(***************************************************************************)
(* What the handlers of one lab promise its users: lab.json changes only   *)
(* by whole edits, each the effect of one acknowledged request.  A paired  *)
(* template in particular (backend/app/routers/labs.py,                    *)
(* create_nodes_from_paired_template: "all children + auto-links, atomic") *)
(* comes in one piece or not at all.  LabHandlers is shown to implement    *)
(* this specification.                                                     *)
(*                                                                         *)
(* The document is that of LabJson, with conf for all the fields of a node *)
(* that the handlers store without looking at them, and conf[0] for those  *)
(* of the lab itself.                                                      *)
(***************************************************************************)
EXTENDS LabEdits

VARIABLES lab, conf

document == <<lab, conf>>

Init == lab = EmptyLab /\ conf = NoConf

------------------------------------------------------------------------------
(* The requests.                                                           *)

AddNodes == \E m \in 1..2 : /\ NewIds(lab, m) \subseteq Nodes
                            /\ lab' = WithNodes(lab, m) /\ UNCHANGED conf

AddPair == \E t \in Templates : /\ Resolvable(t) /\ PairRoom(lab, t)
                                /\ lab' = WithPair(lab, t) /\ UNCHANGED conf

RemoveNode == \E n \in lab.nodes : lab' = WithoutNode(lab, n) /\ conf' = Cleared(conf, n)

\* Any fields of nodes and of the lab.
Store == /\ conf' \in Confs /\ \A n \in Kept \ (lab.nodes \cup {0}) : conf'[n] = 0
         /\ UNCHANGED lab

Wire == \E p \in Pairs : /\ ~Taken(lab, p[1], p[2]) /\ Room(lab, p[1], p[2])
                         /\ lab' = Wired(lab, p[1], p[2]) /\ UNCHANGED conf

Unwire == \E l \in lab.links : lab' = RemoveLink(lab, l) /\ UNCHANGED conf

AddNetwork == /\ NextNetworkId(lab) \in NetIds
              /\ lab' = [lab EXCEPT !.nets[NextNetworkId(lab)] = "explicit"] /\ UNCHANGED conf

RemoveNetwork == \E k \in NetIds : /\ lab.nets[k] = "explicit" /\ RefCount(lab, k) = 0
                                   /\ lab' = [lab EXCEPT !.nets[k] = "none"] /\ UNCHANGED conf

Next == \/ AddNodes \/ AddPair \/ RemoveNode \/ Store
        \/ Wire \/ Unwire \/ AddNetwork \/ RemoveNetwork

Spec == Init /\ [][Next]_document
==============================================================================
