----------------------------- MODULE MCLabHandlers -----------------------------
(***************************************************************************)
(* Instances of LabHandlers: the templates and the links asked for.        *)
(***************************************************************************)
EXTENDS LabHandlers

Child(kind, ethernet, mode, items) ==
  [kind |-> kind, ethernet |-> ethernet, mode |-> mode, items |-> items]
End(child, text, num) == [child |-> child, name |-> Name(text, num)]

\* Two VMs joined twice: by explicit names, and by names that the explicit
\* list does not reach.
TwoVms == [kids  |-> <<Child("qemu", 2, "explicit", <<"fxp0">>),
                       Child("docker", 2, "format", <<"em0", "ge">>)>>,
           wires |-> <<[from |-> End(1, "fxp0", -1), to |-> End(2, "em0", -1)],
                       [from |-> End(1, "Gi", 2), to |-> End(2, "ge", 0)]>>]

\* A switch whose format is a list.
Listed == [kids  |-> <<Child("iol", 1, "list", <<"e">>), Child("iol", 1, "none", << >>)>>,
           wires |-> <<[from |-> End(1, "e", 0), to |-> End(2, "eth", 0)]>>]

\* One link names an interface that no child has.
Broken == [kids  |-> <<Child("qemu", 1, "none", << >>), Child("qemu", 1, "none", << >>)>>,
           wires |-> <<[from |-> End(1, "Gi", 1), to |-> End(2, "Gi", 2)]>>]

SomeTemplates == {TwoVms, Listed, Broken}

SomePairs == {<<NodeEp(1, 0), NetEp(1)>>, <<NodeEp(1, 0), NodeEp(2, 0)>>}
==============================================================================
