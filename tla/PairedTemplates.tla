---------------------------- MODULE PairedTemplates ----------------------------
(***************************************************************************)
(* Paired templates (kind "paired", such as a router made of a control and *)
(* a forwarding VM): the interface names that the pre-flight of            *)
(* backend/app/services/template_service.py predicts for each child, the   *)
(* ones that backend/app/routers/labs.py gives it, and the resolution of   *)
(* the template's links against them.                                      *)
(*                                                                         *)
(* A template is [kids, wires].  A child is [kind, ethernet, mode, items]: *)
(* mode says which field of interface_naming is there ("none", "format" a  *)
(* comma-separated string, "list" a format given as a list, "explicit")    *)
(* and items are its entries; the last one of a format carries {n}.  A     *)
(* wire joins two ends [child, name].  A name is [text, num, raw]: num is  *)
(* -1 for a fixed name, raw marks a text with the quotes and brackets of a *)
(* printed list in it.                                                     *)
(***************************************************************************)
EXTENDS Integers, Sequences, SequencesExt

ChildRecord == [kind : STRING, ethernet : Nat, items : Seq(STRING),
                mode : {"none", "format", "list", "explicit"}]
WireEnd     == [child : Nat, name : [text : STRING, num : Int, raw : BOOLEAN]]
Template    == [kids : Seq(ChildRecord), wires : Seq([from : WireEnd, to : WireEnd])]

Name(text, num)    == [text |-> text, num |-> num, raw |-> FALSE]
Indices(child)     == 0..(child.ethernet - 1)

\* _kind_default_iface_names and the else branches of _default_interfaces.
DefaultName(child, i) == IF child.kind = "qemu" THEN Name("Gi", i + 1) ELSE Name("eth", i)

\* render_interface_name: fixed entries first, then the counter.
RenderName(items, i) ==
  LET fixed == Len(items) - 1 IN
  IF i < fixed THEN Name(items[i + 1], -1) ELSE Name(items[fixed + 1], i - fixed)

\* _paired_child_iface_names.
Predicted(child) ==
  [i \in Indices(child) |->
     CASE child.mode = "explicit" /\ i < Len(child.items) -> Name(child.items[i + 1], -1)
       [] child.mode \in {"format", "list"}               -> RenderName(child.items, i)
       [] OTHER                                           -> DefaultName(child, i)]

\* Mutant: defaults count from zero whatever the kind.
AssignedFromZero(child) ==
  [i \in Indices(child) |->
     IF child.mode = "explicit" /\ i < Len(child.items) THEN Name(child.items[i + 1], -1)
     ELSE IF child.mode = "format" THEN RenderName(child.items, i) ELSE Name("eth", i)]

\* _default_interfaces and _build_paired_child_payload: a format that is a
\* list is printed and split at its commas.
Assigned(child) ==
  [i \in Indices(child) |->
     CASE child.mode = "explicit" /\ i < Len(child.items) -> Name(child.items[i + 1], -1)
       [] child.mode = "format" -> RenderName(child.items, i)
       [] child.mode = "list"   -> [RenderName(child.items, i) EXCEPT !.raw = TRUE]
       [] OTHER                 -> DefaultName(child, i)]

Ends(t) == UNION {{w.from, w.to} : w \in Range(t.wires)}

\* validate_paired_template.
Preflight(t) == \A e \in Ends(t) : /\ e.child \in DOMAIN t.kids
                                   /\ e.name \in Range(Predicted(t.kids[e.child]))

\* _resolve_iface_index: the first interface of that name, if any.
Found(t, e)   == {i \in Indices(t.kids[e.child]) : Assigned(t.kids[e.child])[i] = e.name}
Resolve(t, e) == CHOOSE i \in Found(t, e) : \A j \in Found(t, e) : i <= j

Resolvable(t) == \A e \in Ends(t) : e.child \in DOMAIN t.kids /\ Found(t, e) # {}
==============================================================================
