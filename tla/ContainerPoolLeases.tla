------------------------- MODULE ContainerPoolLeases -------------------------
(***************************************************************************)
(* ContainerPool as an implementation of LeaseService.                     *)
(***************************************************************************)
EXTENDS ContainerPool

\* Where the caller of lease() sees itself.  A lease is in use from the count
\* of active_leases on; after release() only a marked one is not finished.
Place(r) ==
  CASE pc[r] = "new" -> "outside"
    [] pc[r] = "leased" -> "using"
    [] pc[r] \in Destroying \cup {"unslot"} /\ mark[r] -> "cleaning"
    [] pc[r] = "done" \/ (pc[r] = "unslot" /\ ~mark[r]) -> "answered"
    [] OTHER -> "waiting"

Intact(r) == pc[r] = "leased" /\ attached[ent[r]]
Known(r) == Intact(r) /\ Registered(ent[r])

Service == INSTANCE LeaseService WITH
  Limit <- MaxConcurrency,
  Fragile <- "exit" \in Event,
  Restored <- TRUE,
  place <- [r \in Request |-> Place(r)],
  intact <- [r \in Request |-> Intact(r)],
  known <- [r \in Request |-> Known(r)]

\* The pool gives its callers what LeaseService says: entries, locks and the
\* counts of slots and leases add nothing that a caller could notice.
ImplementsLeases == Service!Spec

\* Of the requests that soil a container, none starts it while another one is
\* about to remove it.
Apart ==
  \A a, b \in Contaminator :
    key[a] = key[b] /\ pc[a] = "kill" => pc[b] \notin {"start", "wait", "publish"}
=============================================================================
