--------------------------- MODULE MCIdentityLock ---------------------------
(***************************************************************************)
(* Instances of IdentityLock for TLC.  Names are strings, so that a node   *)
(* and an identity can have the same one.                                  *)
(***************************************************************************)
EXTENDS IdentityLock

\* Two nodes that compete for one identity.
ContendedWish == [h \in {"n1", "n2"} |-> {"x"}]

\* Every node asks for the identity of its own name, as the nodes of a ClusterHoprd do when the cluster
\* has the name of its pool (hoprd-core-rotsee-1 in the README).
HomonymWish == [h \in {"n1", "n2"} |-> {h}]

\* The identity of n1 is asked for by n2 as well.
SharedHomonymWish == [h \in {"n1", "n2"} |-> {"n1"}]

\* The identity of n1 may be changed by its user.
EditedWish == [h \in {"n1", "n2"} |-> IF h = "n1" THEN {"x", "y"} ELSE {"y"}]
=============================================================================
