--------------------------- MODULE MCEphemeralPool ---------------------------
(***************************************************************************)
(* EphemeralPool on small instances.                                       *)
(***************************************************************************)
EXTENDS EphemeralPoolLeases, TLC

\* Requests for the same configuration are interchangeable.
Requests == Permutations(Request)
=============================================================================
