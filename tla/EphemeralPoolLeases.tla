------------------------- MODULE EphemeralPoolLeases -------------------------
(***************************************************************************)
(* EphemeralPool as an implementation of LeaseService: callers get what    *)
(* the regular path of the pool gives them, but for a container that is as *)
(* it was.  Nobody marks a lease, and what leases execute stays in the     *)
(* container.                                                              *)
(***************************************************************************)
EXTENDS EphemeralPool

\* Where the caller of lease_ephemeral() sees itself: from the closing of its
\* connection on it has given its lease back.
Place(r) ==
  CASE pc[r] = "new" -> "outside"
    [] pc[r] = "leased" -> "using"
    [] pc[r] \in {"uncount", "unslot", "done"} -> "answered"
    [] OTHER -> "waiting"

\* The cleanup counts the leases of the registered entry; to its caller a lease
\* of another one may go at any time.
Known(r) == pc[r] = "leased" /\ ent[r] = reg /\ running

\* The registered container is not as it was started.
Residue == reg \in soiled

Container == {"container"}

Service == INSTANCE LeaseService WITH
  Key <- Container,
  Limit <- MaxConcurrency,
  Fragile <- FALSE,
  Restored <- FALSE,
  place <- [r \in Request |-> Place(r)],
  key <- [r \in Request |-> "container"],
  intact <- [r \in Request |-> Known(r)],
  known <- [r \in Request |-> Known(r)],
  mark <- [r \in Request |-> FALSE],
  dirty <- [k \in Container |-> Residue]

ImplementsLeases == Service!Spec
=============================================================================
