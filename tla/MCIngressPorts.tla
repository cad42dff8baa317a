--------------------------- MODULE MCIngressPorts ---------------------------
(***************************************************************************)
(* Instances of IngressPorts for TLC.                                      *)
(***************************************************************************)
EXTENDS IngressPorts

\* Three nodes of different sizes.
Sizes == [h \in {"a", "b", "c"} |-> CASE h = "a" -> 1 [] h = "b" -> 2 [] OTHER -> 2]

\* Two nodes, one of which has no session ports.
SmallSizes == [h \in {"a", "b"} |-> IF h = "a" THEN 2 ELSE 0]

PairSizes == [h \in {"a", "b"} |-> 2]

\* No name is the beginning of another.
Distinct == [h \in {"a", "b", "c"} |-> {h}]

PairDistinct == [h \in {"a", "b"} |-> {h}]
=============================================================================
