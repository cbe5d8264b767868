-------------------------- MODULE MCClientRegistry --------------------------
(***************************************************************************)
(* ClientRegistry on small supplies.                                       *)
(***************************************************************************)
EXTENDS ClientRegistry, TLC

\* Clients, keys and codes are random values: any two are interchangeable.
Values == Permutations(Client) \cup Permutations(ApiKey) \cup Permutations(Code)
=============================================================================
