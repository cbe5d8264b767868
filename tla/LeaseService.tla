---------------------------- MODULE LeaseService ----------------------------
(***************************************************************************)
(* What the container pool promises its callers, without entries, create   *)
(* locks, semaphores, registry and monitor: a request asks for a lease of  *)
(* the container behind its key, is refused or granted one and gives it    *)
(* back.  Where containers are Restored, a lease that soiled its container *)
(* sees to its removal; elsewhere leases leave residue to those after them *)
(* until the container goes for another reason.                            *)
(*                                                                         *)
(* A lease is intact while the container it was granted on exists, and     *)
(* known while the pool counts it.  At most Limit leases of a container    *)
(* are known at a time: one whose entry lost its registration during the   *)
(* start is intact without being known, and the container then serves one  *)
(* more.  A container with known leases is taken away only for a reason,   *)
(* and nobody whose lease is marked is dismissed while the residue would   *)
(* stay.                                                                   *)
(***************************************************************************)
EXTENDS Integers, FiniteSets

CONSTANTS
  Request, Key, Limit,
  Fragile, \* whether containers stop by themselves
  Restored \* whether leases leave nothing behind that others could find

VARIABLES
  place,   \* outside, waiting, using, cleaning or answered
  key,     \* the container each request asks for
  intact,  \* the request uses a lease whose container exists
  known,   \* ... and that the pool counts when it looks for idle containers
  mark,    \* its lease is marked for destruction
  dirty    \* the containers that hold residue

vars == <<place, key, intact, known, mark, dirty>>

Init ==
  /\ place = [r \in Request |-> "outside"]
  /\ key \in [Request -> Key]
  /\ intact = [r \in Request |-> FALSE]
  /\ known = [r \in Request |-> FALSE]
  /\ mark = [r \in Request |-> FALSE]
  /\ dirty = [k \in Key |-> FALSE]

Move(r, from, to) ==
  /\ place[r] = from
  /\ place' = [place EXCEPT ![r] = to]

Known(k) == {r \in Request : key[r] = k /\ known[r]}

\* The containers of K are gone, and with them what they hold.
Removed(K) ==
  /\ intact' = [r \in Request |-> intact[r] /\ key[r] \notin K]
  /\ known' = [r \in Request |-> known[r] /\ key[r] \notin K]
  /\ dirty' = [k \in Key |-> dirty[k] /\ k \notin K]

\* Nobody who could still remove the residue would be left without r.
LastCleaner(r) ==
  dirty[key[r]] /\ \A q \in Request \ {r} :
    ~(key[q] = key[r] /\ mark[q] /\ place[q] \in {"using", "cleaning"})

Ask(r) == Move(r, "outside", "waiting") /\ UNCHANGED <<key, intact, known, mark, dirty>>

\* Before or after the start of a container was tried, which may cost an old one.
Refuse(r) ==
  /\ Move(r, "outside", "answered") \/ Move(r, "waiting", "answered")
  /\ \/ UNCHANGED <<intact, known, dirty>>
     \/ place[r] = "waiting" /\ Removed({key[r]})
  /\ UNCHANGED <<key, mark>>

\* A caller that waits replaces the container of its key.
Replace(r) ==
  /\ place[r] = "waiting"
  /\ Removed({key[r]})
  /\ UNCHANGED <<place, key, mark>>

\* The container can go between the connection and the count: such a lease is
\* broken from the start.
Grant(r) ==
  /\ Move(r, "waiting", "using")
  /\ \E whole \in BOOLEAN, counted \in BOOLEAN :
       /\ counted => whole /\ Cardinality(Known(key[r])) < Limit
       /\ intact' = [intact EXCEPT ![r] = whole]
       /\ known' = [known EXCEPT ![r] = counted]
  /\ UNCHANGED <<key, mark, dirty>>

Soil(r) ==
  /\ place[r] = "using" /\ ~mark[r]
  /\ mark' = [mark EXCEPT ![r] = TRUE]
  /\ dirty' = [dirty EXCEPT ![key[r]] = @ \/ intact[r]]
  /\ UNCHANGED <<place, key, intact, known>>

\* What the lease does to its container stays there.
Leave(r) ==
  /\ ~Restored
  /\ place[r] = "using" /\ intact[r]
  /\ dirty' = [dirty EXCEPT ![key[r]] = TRUE]
  /\ UNCHANGED <<place, key, intact, known, mark>>

Return(r) ==
  /\ Move(r, "using", IF mark[r] THEN "cleaning" ELSE "answered")
  /\ intact' = [intact EXCEPT ![r] = FALSE]
  /\ known' = [known EXCEPT ![r] = FALSE]
  /\ UNCHANGED <<key, mark, dirty>>

\* The pool forgets the container of the key, and with it leases that came
\* after the one that soiled it.
Forget(k) == known' = [r \in Request |-> known[r] /\ key[r] # k]

\* The container is removed, or another caller is left to remove the residue.
CleanUp(r) ==
  /\ Move(r, "cleaning", "answered")
  /\ \/ Removed({key[r]})
     \/ ~LastCleaner(r) /\ UNCHANGED <<intact, known, dirty>>
     \/ ~LastCleaner(r) /\ Forget(key[r]) /\ UNCHANGED <<intact, dirty>>
  /\ UNCHANGED <<key, mark>>

\* Containers without a known lease are removed though nobody asks for it.
RemoveIdle ==
  /\ \E K \in SUBSET {k \in Key : Known(k) = {}} : Removed(K)
  /\ UNCHANGED <<place, key, mark>>

\* A container that stops breaks its leases and keeps what it holds.
Stop(k) ==
  /\ Fragile
  /\ intact' = [r \in Request |-> intact[r] /\ key[r] # k]
  /\ Forget(k)
  /\ UNCHANGED <<place, key, mark, dirty>>

Next ==
  \/ \E r \in Request :
       \/ Ask(r) \/ Refuse(r) \/ Replace(r) \/ Grant(r)
       \/ Soil(r) \/ Leave(r) \/ Return(r) \/ CleanUp(r)
  \/ RemoveIdle
  \/ \E k \in Key : Stop(k)

Spec == Init /\ [][Next]_vars
=============================================================================
