--------------------------- MODULE MCContainerPool ---------------------------
(***************************************************************************)
(* ContainerPool on small instances.                                       *)
(***************************************************************************)
EXTENDS ContainerPoolLeases, TLC

\* Requests that do the same are interchangeable.
Requests == Permutations(Contaminator) \cup Permutations(Request \ Contaminator)
=============================================================================
