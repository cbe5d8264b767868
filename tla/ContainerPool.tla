---------------------------- MODULE ContainerPool ----------------------------
(***************************************************************************)
(* The container pool of src/container_pool.py on its regular path: every  *)
(* request leases a slot and a connection of the container that belongs to *)
(* its (db_type, version, compat_mode) key, and may destroy that container *)
(* when it gives the lease back.                                           *)
(*                                                                         *)
(* A step is one critical section of _pool_lock, one operation on a        *)
(* semaphore, one call on the Docker daemon, or one unlocked assignment    *)
(* that another thread can observe.  A request thread makes one lease.  An *)
(* entry (a ContainerEntry object) is named after the request whose        *)
(* _ensure_healthy created it: a call creates at most one.                 *)
(***************************************************************************)
EXTENDS Integers, FiniteSets

CONSTANTS
  Request,         \* request threads, and the entries they create
  Contaminator,    \* the requests among them whose statements leave residue
  NoRequest,       \* nobody: a free lock, an empty place of the registry
  Key,             \* container keys; a container is named after its key
  MaxConcurrency,  \* MCP_MAX_CONCURRENCY, slots of an entry
  FailureLimit,    \* failed probes that make an entry UNHEALTHY (3 in the code)
  MaxShutdowns,    \* bound: completed calls of shutdown()
  Event            \* what the environment of this instance may do

Events ==
  { "probeFails",    \* the health monitor runs and finds a port closed
    "idle",          \* an unused container outlives its idle_ttl
    "exit",          \* a running container stops by itself
    "removalFails",  \* Docker refuses to remove a container
    "drainTimeout" } \* 30 s pass before every lease is released

ASSUME RequestAssumption == 
  /\ IsFiniteSet(Request)
  /\ NoRequest \notin Request
  /\ Contaminator \subseteq Request
ASSUME BoundsAssumption ==
  /\ MaxConcurrency \in Nat \ {0}
  /\ FailureLimit \in Nat \ {0}
  /\ MaxShutdowns \in Nat
ASSUME EventAssumption == Event \subseteq Events

Generation == 0..MaxShutdowns
Entry == Request

VARIABLES
  reg,        \* _entries: the entry registered under each key
  createLock, \* holder of each create lock, by key and generation
  generation, \* how often _create_locks was cleared
  shutdown,   \* progress of shutdown(): up, draining, closing, down
  state,      \* ContainerState of each entry
  pool,       \* entry.connection_pool is not None
  active,     \* entry.active_leases
  sem,        \* free slots of entry.semaphore
  fails,      \* entry.health_failures
  attached,   \* the container that the entry's id and port name still exists
  monitor,    \* the health monitor is waiting or in a round
  probe,      \* entries it has yet to probe in this round
  docker,     \* status of the container named after each key
  dirty,      \* that container holds the residue of a request
  pc,         \* where each request is
  key,        \* the key it asks for
  gen,        \* generation of the create lock it obtained
  ent,        \* the entry it works on
  mark        \* lease._mark_destroy

lockVars   == <<reg, createLock, generation>>
entryVars  == <<state, pool, active, sem, fails, attached>>
dockerVars == <<docker, dirty>>
localVars  == <<key, gen, ent, mark>>
monitorVars == <<monitor, probe>>
vars == <<lockVars, shutdown, entryVars, monitorVars, dockerVars, pc, localVars>>

States == {"STARTING", "HEALTHY", "UNHEALTHY", "DESTROYING", "STOPPED"}
Phases == {"up", "draining", "closing", "down"}

\* A start in progress, from the decision to start up to HEALTHY.
Starting == {"register", "start", "wait", "publish"}
\* Between acquire and release of the semaphore.
Holding == {"connect", "count", "leased", "unslot"}
\* After release() of a marked lease.
Destroying == {"destroy", "drain", "kill"}
Places == {"new", "enter", "lock", "slot", "done"}
            \cup Starting \cup Holding \cup Destroying

Registered(e) == reg[key[e]] = e
Holders(e) == {r \in Request : pc[r] \in Holding /\ ent[r] = e}
Leasing(e) == {r \in Request : pc[r] = "leased" /\ ent[r] = e}

TypeOK ==
  /\ reg \in [Key -> Entry \cup {NoRequest}]
  /\ createLock \in [Key -> [Generation -> Request \cup {NoRequest}]]
  /\ generation \in Generation
  /\ shutdown \in Phases
  /\ shutdown \in {"draining", "closing"} => generation < MaxShutdowns
  /\ state \in [Entry -> States]
  /\ pool \in [Entry -> BOOLEAN]
  /\ active \in [Entry -> Nat]
  /\ sem \in [Entry -> Int]
  /\ fails \in [Entry -> Nat]
  /\ attached \in [Entry -> BOOLEAN]
  /\ monitor \in {"waiting", "probing"}
  /\ probe \subseteq Entry
  /\ docker \in [Key -> {"absent", "running", "exited"}]
  /\ dirty \in [Key -> BOOLEAN]
  /\ pc \in [Request -> Places]
  /\ key \in [Request -> Key]
  /\ gen \in [Request -> Generation]
  /\ ent \in [Request -> Entry \cup {NoRequest}]
  /\ mark \in [Request -> BOOLEAN]

(* A new server process.  Containers of an earlier process may be there.   *)
Init ==
  /\ reg = [k \in Key |-> NoRequest]
  /\ createLock = [k \in Key |-> [g \in Generation |-> NoRequest]]
  /\ generation = 0
  /\ shutdown = "up"
  /\ state = [e \in Entry |-> "STOPPED"]
  /\ pool = [e \in Entry |-> FALSE]
  /\ active = [e \in Entry |-> 0]
  /\ sem = [e \in Entry |-> MaxConcurrency]
  /\ fails = [e \in Entry |-> 0]
  /\ attached = [e \in Entry |-> FALSE]
  /\ monitor = "waiting"
  /\ probe = {}
  /\ docker \in [Key -> {"absent", "running", "exited"}]
  /\ dirty = [k \in Key |-> FALSE]
  /\ pc = [r \in Request |-> "new"]
  /\ key \in [Request -> Key]
  /\ gen = [r \in Request |-> 0]
  /\ ent = [r \in Request |-> NoRequest]
  /\ mark = [r \in Request |-> FALSE]

Goto(r, place) == pc' = [pc EXCEPT ![r] = place]

\* Leaving the "with create_lock" block.
ReleaseCreateLock(r) ==
  createLock' = [createLock EXCEPT ![key[r]][gen[r]] = NoRequest]

(***************************************************************************)
(* _remove_container and _destroy_entry                                    *)
(***************************************************************************)
\* Docker after the containers of the keys in gone are removed.
Remove(gone) ==
  /\ docker' = [k \in Key |-> IF k \in gone THEN "absent" ELSE docker[k]]
  /\ dirty' = [k \in Key |-> dirty[k] /\ k \notin gone]

\* _destroy_entry for every entry of S.  A removal that fails is logged and
\* ignored; the entry is STOPPED all the same.
DestroyEntries(S) ==
  \E kept \in SUBSET (IF "removalFails" \in Event THEN S ELSE {}) :
    LET gone == {key[e] : e \in S \ kept} IN
    /\ Remove(gone)
    /\ pool' = [e \in Entry |-> pool[e] /\ e \notin S]
    /\ state' = [e \in Entry |-> IF e \in S THEN "STOPPED" ELSE state[e]]
    /\ attached' = [e \in Entry |-> attached[e] /\ key[e] \notin gone]

(***************************************************************************)
(* lease                                                                   *)
(***************************************************************************)
LeaseCall(r) ==
  /\ pc[r] = "new"
  /\ Goto(r, IF shutdown = "up" THEN "enter" ELSE "done")
  /\ UNCHANGED <<lockVars, shutdown, entryVars, monitorVars, dockerVars, localVars>>

\* _get_create_lock: the lock object of the current dictionary.
GetCreateLock(r) ==
  /\ pc[r] = "enter"
  /\ gen' = [gen EXCEPT ![r] = generation]
  /\ Goto(r, "lock")
  /\ UNCHANGED <<lockVars, shutdown, entryVars, monitorVars, dockerVars, key, ent, mark>>

\* _ensure_healthy takes the create lock and looks at the registry.
LockAndSee(r) ==
  /\ pc[r] = "lock"
  /\ createLock[key[r]][gen[r]] = NoRequest
  /\ UNCHANGED <<generation, shutdown, active, sem, fails, monitorVars, key, gen, mark>>

FindHealthy(r) ==
  /\ LockAndSee(r)
  /\ reg[key[r]] # NoRequest /\ state[reg[key[r]]] = "HEALTHY"
  /\ ent' = [ent EXCEPT ![r] = reg[key[r]]]
  /\ Goto(r, "slot")
  /\ UNCHANGED <<reg, createLock, state, pool, attached, dockerVars>>

FindDestroying(r) ==
  /\ LockAndSee(r)
  /\ reg[key[r]] # NoRequest /\ state[reg[key[r]]] = "DESTROYING"
  /\ Goto(r, "done")
  /\ UNCHANGED <<reg, createLock, state, pool, attached, dockerVars, ent>>

\* An UNHEALTHY entry is destroyed at once, whoever still leases it.
FindUnhealthy(r) ==
  /\ LockAndSee(r)
  /\ reg[key[r]] # NoRequest /\ state[reg[key[r]]] = "UNHEALTHY"
  /\ DestroyEntries({reg[key[r]]})
  /\ reg' = [reg EXCEPT ![key[r]] = NoRequest]
  /\ createLock' = [createLock EXCEPT ![key[r]][gen[r]] = r]
  /\ Goto(r, "register")
  /\ UNCHANGED ent

\* An entry whose start failed is started again.
FindStopped(r) ==
  /\ LockAndSee(r)
  /\ reg[key[r]] # NoRequest /\ state[reg[key[r]]] \in {"STOPPED", "STARTING"}
  /\ ent' = [ent EXCEPT ![r] = reg[key[r]]]
  /\ state' = [state EXCEPT ![reg[key[r]]] = "STARTING"]
  /\ createLock' = [createLock EXCEPT ![key[r]][gen[r]] = r]
  /\ Goto(r, "start")
  /\ UNCHANGED <<reg, pool, attached, dockerVars>>

\* Mutant: the registry is read, but the create lock is not taken.
FindNone_Unlocked(r) ==
  /\ LockAndSee(r)
  /\ reg[key[r]] = NoRequest
  /\ Goto(r, "register")
  /\ UNCHANGED <<reg, createLock, state, pool, attached, dockerVars, ent>>

FindNone(r) ==
  /\ LockAndSee(r)
  /\ reg[key[r]] = NoRequest
  /\ createLock' = [createLock EXCEPT ![key[r]][gen[r]] = r]
  /\ Goto(r, "register")
  /\ UNCHANGED <<reg, state, pool, attached, dockerVars, ent>>

\* A new entry goes into the registry and its start begins.
Register(r) ==
  /\ pc[r] = "register"
  /\ reg' = [reg EXCEPT ![key[r]] = r]
  /\ ent' = [ent EXCEPT ![r] = r]
  /\ state' = [state EXCEPT ![r] = "STARTING"]
  /\ Goto(r, "start")
  /\ UNCHANGED <<createLock, generation, shutdown, pool, active, sem, fails,
                 attached, monitorVars, dockerVars, key, gen, mark>>

(***************************************************************************)
(* _start_entry and _get_or_create_container                               *)
(***************************************************************************)
StartStep(r) ==
  /\ pc[r] = "start"
  /\ UNCHANGED <<lockVars, shutdown, state, pool, active, sem, fails, monitorVars, localVars>>

\* A running container of that name is used as it is.
ReuseContainer(r) ==
  /\ StartStep(r)
  /\ docker[key[r]] = "running"
  /\ attached' = [attached EXCEPT ![ent[r]] = TRUE]
  /\ Goto(r, "wait")
  /\ UNCHANGED dockerVars

\* A stopped one is started again, with whatever it holds.
RestartContainer(r) ==
  /\ StartStep(r)
  /\ docker[key[r]] = "exited"
  /\ docker' = [docker EXCEPT ![key[r]] = "running"]
  /\ attached' = [attached EXCEPT ![ent[r]] = TRUE]
  /\ Goto(r, "wait")
  /\ UNCHANGED dirty

\* No container, or one that cannot be used (no port mapping, a failed
\* restart, needs_binary_prep) and is removed first.
CreateContainer(r) ==
  /\ StartStep(r)
  /\ docker' = [docker EXCEPT ![key[r]] = "running"]
  /\ dirty' = [dirty EXCEPT ![key[r]] = FALSE]
  /\ attached' = [e \in Entry |-> IF e = ent[r] THEN TRUE
                                  ELSE attached[e] /\ key[e] # key[r]]
  /\ Goto(r, "wait")

\* Exception handler of _start_entry: the entry stays registered, STOPPED.
StartFailed(r) ==
  /\ state' = [state EXCEPT ![ent[r]] = "STOPPED"]
  /\ ReleaseCreateLock(r)
  /\ Goto(r, "done")
  /\ UNCHANGED <<reg, generation, shutdown, pool, active, sem, fails, monitorVars, localVars>>

\* No image, or no container that can be used: an old one may be gone by then,
\* and a new one that did not run or has no port mapping stays.
NoContainer(r) ==
  /\ pc[r] = "start"
  /\ StartFailed(r)
  /\ \/ UNCHANGED <<dockerVars, attached>>
     \/ /\ \E left \in {"absent", "running", "exited"} :
             docker' = [docker EXCEPT ![key[r]] = left]
        /\ dirty' = [dirty EXCEPT ![key[r]] = FALSE]
        /\ attached' = [e \in Entry |-> attached[e] /\ key[e] # key[r]]

\* Mutant: the create lock is kept when the database does not answer.
NotReady_KeepsLock(r) ==
  /\ pc[r] = "wait"
  /\ state' = [state EXCEPT ![ent[r]] = "STOPPED"]
  /\ Goto(r, "done")
  /\ UNCHANGED <<lockVars, shutdown, pool, active, sem, fails, attached, monitorVars,
                 dockerVars, localVars>>

\* _wait_for_db_ready gives up after MCP_DB_READY_TIMEOUT.
NotReady(r) ==
  /\ pc[r] = "wait"
  /\ StartFailed(r)
  /\ UNCHANGED <<dockerVars, attached>>

\* The database answers and the connection pool is made.
OpenPool(r) ==
  /\ pc[r] = "wait"
  /\ attached[ent[r]]
  /\ pool' = [pool EXCEPT ![ent[r]] = TRUE]
  /\ Goto(r, "publish")
  /\ UNCHANGED <<lockVars, shutdown, state, active, sem, fails, attached, monitorVars,
                 dockerVars, localVars>>

\* The unlocked assignment of HEALTHY, then the create lock is left.
Publish(r) ==
  /\ pc[r] = "publish"
  /\ state' = [state EXCEPT ![ent[r]] = "HEALTHY"]
  /\ fails' = [fails EXCEPT ![ent[r]] = 0]
  /\ ReleaseCreateLock(r)
  /\ Goto(r, "slot")
  /\ UNCHANGED <<reg, generation, shutdown, pool, active, sem, attached, monitorVars,
                 dockerVars, localVars>>

(***************************************************************************)
(* lease, after _ensure_healthy                                            *)
(***************************************************************************)
AcquireSlot(r) ==
  /\ pc[r] = "slot"
  /\ sem[ent[r]] > 0
  /\ sem' = [sem EXCEPT ![ent[r]] = @ - 1]
  /\ Goto(r, "connect")
  /\ UNCHANGED <<lockVars, shutdown, state, pool, active, fails, attached, monitorVars,
                 dockerVars, localVars>>

\* MCP_LEASE_TIMEOUT passes without a free slot.
SlotTimeout(r) ==
  /\ pc[r] = "slot"
  /\ sem[ent[r]] = 0
  /\ Goto(r, "done")
  /\ UNCHANGED <<lockVars, shutdown, entryVars, monitorVars, dockerVars, localVars>>

\* A connection needs the pool object and the container behind it.
Connect(r) ==
  /\ pc[r] = "connect"
  /\ pool[ent[r]] /\ attached[ent[r]]
  /\ Goto(r, "count")
  /\ UNCHANGED <<lockVars, shutdown, entryVars, monitorVars, dockerVars, localVars>>

\* Mutant: the error path forgets the slot.
ConnectFails_Leaks(r) ==
  /\ pc[r] = "connect"
  /\ Goto(r, "done")
  /\ UNCHANGED <<lockVars, shutdown, entryVars, monitorVars, dockerVars, localVars>>

\* Mutant: the error path takes back a lease that was never counted.
ConnectFails_Uncounts(r) ==
  /\ pc[r] = "connect"
  /\ sem' = [sem EXCEPT ![ent[r]] = @ + 1]
  /\ active' = [active EXCEPT ![ent[r]] = @ - 1]
  /\ Goto(r, "done")
  /\ UNCHANGED <<lockVars, shutdown, state, pool, fails, attached, monitorVars,
                 dockerVars, localVars>>

\* connection() times out or raises: the slot is given back.
ConnectFails(r) ==
  /\ pc[r] = "connect"
  /\ sem' = [sem EXCEPT ![ent[r]] = @ + 1]
  /\ Goto(r, "done")
  /\ UNCHANGED <<lockVars, shutdown, state, pool, active, fails, attached, monitorVars,
                 dockerVars, localVars>>

CountLease(r) ==
  /\ pc[r] = "count"
  /\ active' = [active EXCEPT ![ent[r]] = @ + 1]
  /\ Goto(r, "leased")
  /\ UNCHANGED <<lockVars, shutdown, state, pool, sem, fails, attached, monitorVars,
                 dockerVars, localVars>>

(***************************************************************************)
(* The lease in use, release() and ContainerLease.__exit__                 *)
(***************************************************************************)
\* The executor leaves something behind and marks the lease for destruction.
Contaminate(r) ==
  /\ pc[r] = "leased"
  /\ r \in Contaminator /\ ~mark[r]
  /\ mark' = [mark EXCEPT ![r] = TRUE]
  /\ dirty' = [dirty EXCEPT ![key[r]] = @ \/ attached[ent[r]]]
  /\ UNCHANGED <<lockVars, shutdown, entryVars, monitorVars, docker, pc, key, gen, ent>>

\* Mutant: the lease stays counted.
Release_KeepsCount(r) ==
  /\ pc[r] = "leased"
  /\ Goto(r, "unslot")
  /\ UNCHANGED <<lockVars, shutdown, entryVars, monitorVars, dockerVars, localVars>>

\* conn.close() and the critical section of release().
Release(r) ==
  /\ pc[r] = "leased"
  /\ active' = [active EXCEPT ![ent[r]] = IF @ > 0 THEN @ - 1 ELSE 0]
  /\ Goto(r, "unslot")
  /\ UNCHANGED <<lockVars, shutdown, state, pool, sem, fails, attached, monitorVars,
                 dockerVars, localVars>>

\* Mutant: the mark is not looked at.
ReleaseSlot_IgnoresMark(r) ==
  /\ pc[r] = "unslot"
  /\ sem' = [sem EXCEPT ![ent[r]] = @ + 1]
  /\ Goto(r, "done")
  /\ UNCHANGED <<lockVars, shutdown, state, pool, active, fails, attached, monitorVars,
                 dockerVars, localVars>>

\* semaphore.release(), then __exit__ goes on.
ReleaseSlot(r) ==
  /\ pc[r] = "unslot"
  /\ sem' = [sem EXCEPT ![ent[r]] = @ + 1]
  /\ Goto(r, IF mark[r] THEN "destroy" ELSE "done")
  /\ UNCHANGED <<lockVars, shutdown, state, pool, active, fails, attached, monitorVars,
                 dockerVars, localVars>>

(***************************************************************************)
(* destroy_container: looks the entry up by key, drains it, destroys it    *)
(***************************************************************************)
NothingToDestroy(r) ==
  /\ pc[r] = "destroy"
  /\ reg[key[r]] = NoRequest
  /\ Goto(r, "done")
  /\ UNCHANGED <<lockVars, shutdown, entryVars, monitorVars, dockerVars, localVars>>

BeginDestroy(r) ==
  /\ pc[r] = "destroy"
  /\ reg[key[r]] # NoRequest
  /\ state' = [state EXCEPT ![reg[key[r]]] = "DESTROYING"]
  /\ ent' = [ent EXCEPT ![r] = reg[key[r]]]
  /\ Goto(r, "drain")
  /\ UNCHANGED <<lockVars, shutdown, pool, active, sem, fails, attached, monitorVars,
                 dockerVars, key, gen, mark>>

Drained(r) ==
  /\ pc[r] = "drain"
  /\ active[ent[r]] = 0 \/ "drainTimeout" \in Event
  /\ Goto(r, "kill")
  /\ UNCHANGED <<lockVars, shutdown, entryVars, monitorVars, dockerVars, localVars>>

\* Mutant: the registration is dropped only if it is the destroyed entry's.
FinishDestroy_OwnOnly(r) ==
  /\ pc[r] = "kill"
  /\ DestroyEntries({ent[r]})
  /\ reg' = [reg EXCEPT ![key[r]] = IF @ = ent[r] THEN NoRequest ELSE @]
  /\ Goto(r, "done")
  /\ UNCHANGED <<createLock, generation, shutdown, active, sem, fails, monitorVars,
                 localVars>>

\* Mutant: the destroyed entry stays registered, to be started again.
FinishDestroy_KeepsEntry(r) ==
  /\ pc[r] = "kill"
  /\ DestroyEntries({ent[r]})
  /\ Goto(r, "done")
  /\ UNCHANGED <<lockVars, shutdown, active, sem, fails, monitorVars, localVars>>

\* Whatever is registered under the key now is dropped.
FinishDestroy(r) ==
  /\ pc[r] = "kill"
  /\ DestroyEntries({ent[r]})
  /\ reg' = [reg EXCEPT ![key[r]] = NoRequest]
  /\ Goto(r, "done")
  /\ UNCHANGED <<createLock, generation, shutdown, active, sem, fails, monitorVars, localVars>>

(***************************************************************************)
(* _health_monitor_loop                                                    *)
(***************************************************************************)
RegisteredHealthy == {e \in Entry : Registered(e) /\ state[e] = "HEALTHY"}

\* Mutant: every round starts counting anew.
Snapshot_Forgets ==
  /\ Event \cap {"probeFails", "idle"} # {}
  /\ monitor = "waiting" /\ shutdown = "up"
  /\ monitor' = "probing"
  /\ probe' = RegisteredHealthy
  /\ fails' = [e \in Entry |-> 0]
  /\ UNCHANGED <<lockVars, shutdown, state, pool, active, sem, attached, dockerVars,
                 pc, localVars>>

\* _shutting_down.wait() timed out: a round begins.
Snapshot ==
  /\ Event \cap {"probeFails", "idle"} # {}
  /\ monitor = "waiting" /\ shutdown = "up"
  /\ monitor' = "probing"
  /\ probe' = RegisteredHealthy
  /\ UNCHANGED <<lockVars, shutdown, entryVars, dockerVars, pc, localVars>>

\* The entry of the snapshot is updated if its key is registered at all.
ProbeClosed(e) ==
  /\ "probeFails" \in Event
  /\ e \in probe
  /\ probe' = probe \ {e}
  /\ IF reg[key[e]] = NoRequest
     THEN UNCHANGED <<fails, state>>
     ELSE /\ fails' = [fails EXCEPT ![e] = @ + 1]
          /\ state' = [state EXCEPT ![e] =
               IF fails[e] + 1 >= FailureLimit /\ @ = "HEALTHY" THEN "UNHEALTHY" ELSE @]
  /\ UNCHANGED <<lockVars, shutdown, pool, active, sem, attached, monitor, dockerVars,
                 pc, localVars>>

\* A probe and its update are one step: one that comes late delays the count.
ProbeOpen(e) ==
  /\ e \in probe
  /\ attached[e]
  /\ probe' = probe \ {e}
  /\ fails' = [fails EXCEPT ![e] = IF reg[key[e]] = NoRequest THEN @ ELSE 0]
  /\ UNCHANGED <<lockVars, shutdown, state, pool, active, sem, attached, monitor,
                 dockerVars, pc, localVars>>

\* Mutant: the leases in use are not looked at.
MidnightCleanup_Busy ==
  /\ monitor = "probing" /\ probe = {}
  /\ monitor' = "waiting"
  /\ \E S \in SUBSET {e \in RegisteredHealthy : "idle" \in Event} :
       /\ DestroyEntries(S)
       /\ reg' = [k \in Key |-> IF reg[k] \in S THEN NoRequest ELSE reg[k]]
  /\ UNCHANGED <<createLock, generation, shutdown, active, sem, fails, probe, pc, localVars>>

\* The round ends with the cleanup of the entries S whose idle_ttl has passed.
MidnightCleanup ==
  /\ monitor = "probing" /\ probe = {}
  /\ monitor' = "waiting"
  /\ \E S \in SUBSET {e \in RegisteredHealthy : active[e] = 0 /\ "idle" \in Event} :
       /\ DestroyEntries(S)
       /\ reg' = [k \in Key |-> IF reg[k] \in S THEN NoRequest ELSE reg[k]]
  /\ UNCHANGED <<createLock, generation, shutdown, active, sem, fails, probe, pc, localVars>>

(***************************************************************************)
(* shutdown                                                                *)
(***************************************************************************)
ShutdownCall ==
  /\ shutdown \in {"up", "down"}
  /\ generation < MaxShutdowns
  /\ shutdown' = "draining"
  /\ UNCHANGED <<lockVars, entryVars, monitorVars, dockerVars, pc, localVars>>

ShutdownDrained ==
  /\ shutdown = "draining"
  /\ \/ \A e \in Entry : Registered(e) => active[e] = 0
     \/ "drainTimeout" \in Event
  /\ shutdown' = "closing"
  /\ UNCHANGED <<lockVars, entryVars, monitorVars, dockerVars, pc, localVars>>

\* Pools are closed and both dictionaries cleared; containers are kept.
ShutdownClear ==
  /\ shutdown = "closing"
  /\ shutdown' = "down"
  /\ pool' = [e \in Entry |-> pool[e] /\ ~Registered(e)]
  /\ state' = [e \in Entry |-> IF Registered(e) THEN "STOPPED" ELSE state[e]]
  /\ reg' = [k \in Key |-> NoRequest]
  /\ generation' = generation + 1
  /\ UNCHANGED <<createLock, active, sem, fails, attached, monitorVars, dockerVars, pc, localVars>>

(***************************************************************************)
(* External: a container stops by itself.                                  *)
(***************************************************************************)
ContainerExits(k) ==
  /\ "exit" \in Event
  /\ docker[k] = "running"
  /\ docker' = [docker EXCEPT ![k] = "exited"]
  /\ attached' = [e \in Entry |-> attached[e] /\ key[e] # k]
  /\ UNCHANGED <<lockVars, shutdown, state, pool, active, sem, fails, monitorVars, dirty,
                 pc, localVars>>

\* Every request was answered and the server waits for more.
Idle ==
  /\ \A r \in Request : pc[r] = "done"
  /\ UNCHANGED vars

EnsureHealthy(r) ==
  \/ GetCreateLock(r)
  \/ FindHealthy(r) \/ FindDestroying(r) \/ FindUnhealthy(r)
  \/ FindStopped(r) \/ FindNone(r) \/ Register(r)
  \/ ReuseContainer(r) \/ RestartContainer(r) \/ CreateContainer(r)
  \/ NoContainer(r) \/ NotReady(r) \/ OpenPool(r) \/ Publish(r)

Lease(r) ==
  \/ LeaseCall(r)
  \/ AcquireSlot(r) \/ SlotTimeout(r)
  \/ Connect(r) \/ ConnectFails(r) \/ CountLease(r)

GiveBack(r) ==
  \/ Release(r) \/ ReleaseSlot(r)
  \/ NothingToDestroy(r) \/ BeginDestroy(r) \/ Drained(r) \/ FinishDestroy(r)

RequestStep(r) == Lease(r) \/ EnsureHealthy(r) \/ GiveBack(r)

Monitor ==
  \/ Snapshot
  \/ \E e \in Entry : ProbeClosed(e) \/ ProbeOpen(e)
  \/ MidnightCleanup

ShutdownStep == ShutdownCall \/ ShutdownDrained \/ ShutdownClear

Next ==
  \/ \E r \in Request : RequestStep(r) \/ Contaminate(r)
  \/ Monitor
  \/ ShutdownStep
  \/ \E k \in Key : ContainerExits(k)
  \/ Idle

Spec == Init /\ [][Next]_vars

\* Every thread keeps running: the calls it makes return or time out, and a
\* lease is given back because a statement has a timeout of its own.  When a
\* request contaminates is its own choice.  The monitor is a daemon thread.
FairSpec ==
  /\ Spec
  /\ \A r \in Request : WF_vars(RequestStep(r))
  /\ WF_vars(Monitor)

(***************************************************************************)
(* Safety                                                                  *)
(***************************************************************************)
\* Every slot of an entry is free or held by one request between acquire and
\* release, on every path of lease() and release(), so the BoundedSemaphore
\* never refuses a release and no slot leaks.
SlotAccounting ==
  \A e \in Entry : sem[e] >= 0 /\ sem[e] + Cardinality(Holders(e)) = MaxConcurrency

\* active_leases counts the leases in use: the clamp at zero in release() never
\* hides a lost update, and a drain that sees zero has seen every counted lease.
ActiveAccounting == \A e \in Entry : active[e] = Cardinality(Leasing(e))

\* Threads that got their create lock from the same dictionary start the
\* container of a key one at a time; shutdown() replaces that dictionary.
OneStarter ==
  \A r, q \in Request :
    pc[r] \in Starting /\ pc[q] \in Starting /\ key[r] = key[q] /\ gen[r] = gen[q] => r = q

\* What a request waits for without a timeout: the create lock and, timeouts of
\* drains left aside, the leases of the entry it destroys.
Blocked(r) ==
  \/ pc[r] = "lock" /\ createLock[key[r]][gen[r]] # NoRequest
  \/ pc[r] = "drain" /\ active[ent[r]] # 0

\* Nobody waits in vain or in a circle: whoever is blocked, and a shutdown that
\* drains, waits for a request that holds just that and is not blocked, although
\* a start leaves the lock on five paths and shutdown() replaces the locks.
NoCircularWait ==
  /\ \A r \in Request : Blocked(r) =>
       \E q \in Request :
         /\ ~Blocked(q)
         /\ \/ pc[r] = "lock" /\ pc[q] \in Starting /\ key[q] = key[r] /\ gen[q] = gen[r]
            \/ pc[r] = "drain" /\ q \in Leasing(ent[r])
  /\ \A e \in Entry : active[e] # 0 => \E q \in Leasing(e) : ~Blocked(q)

\* What lease() takes for HEALTHY has a connection pool, although HEALTHY is
\* assigned without the pool lock and four handlers drop pools.
HealthyHasPool ==
  \A e \in Entry : Registered(e) /\ state[e] = "HEALTHY" => pool[e]

\* A registered HEALTHY entry names a container that exists, although others
\* destroy containers by name: a late destroyer also drops the registration.
HealthyIsBacked ==
  \A e \in Entry : Registered(e) /\ state[e] = "HEALTHY" => attached[e]

\* A container that holds residue still has a marked lease that will destroy it.
ResiduePending ==
  \A k \in Key : dirty[k] =>
    \E r \in Request : key[r] = k /\ mark[r] /\ pc[r] # "done"

(***************************************************************************)
(* What the safety properties rest on                                      *)
(***************************************************************************)
\* A request that works on an entry found it under its own key.
KnownEntry ==
  \A r \in Request :
    pc[r] \in Holding \cup {"start", "wait", "publish", "slot", "drain", "kill"}
      => ent[r] \in Entry /\ key[ent[r]] = key[r]

\* An entry that was not created yet is in nobody's hands.
Unborn ==
  \A r \in Request :
    pc[r] \in {"new", "enter", "lock", "register"} =>
      ~Registered(r) /\ \A q \in Request : ent[q] # r

\* The registry keeps an entry under the key of its request.
RegistryKeys == \A k \in Key : reg[k] \in Entry => key[reg[k]] = k

\* From the creation of the pool to HEALTHY nobody takes the pool away from a
\* registered entry without taking it off the registry.
PublishedHasPool ==
  \A r \in Request : pc[r] = "publish" /\ Registered(ent[r]) => pool[ent[r]]

\* The create lock is held from the decision to start until it is left.
LockHeld ==
  \A r \in Request : pc[r] \in Starting => createLock[key[r]][gen[r]] = r

(***************************************************************************)
(* Liveness                                                                *)
(***************************************************************************)
\* Every request that calls lease() ends, also where a destroyer waits for
\* leases without a timeout: create lock, slots and drain never wait in a circle.
EveryRequestEnds == \A r \in Request : pc[r] = "enter" ~> pc[r] = "done"

\* A registration never stays DESTROYING, which would refuse the key for ever.
DestroyingEnds ==
  \A e \in Entry :
    Registered(e) /\ state[e] = "DESTROYING" ~> ~(Registered(e) /\ state[e] = "DESTROYING")

\* The monitor notices a container that died, if no request looks in the way:
\* while the server is up, for shutdown() ends the monitor.
DeadContainerNoticed ==
  \A e \in Entry :
    Registered(e) /\ state[e] = "HEALTHY" /\ ~attached[e]
      ~> shutdown # "up" \/ ~(Registered(e) /\ state[e] = "HEALTHY")
=============================================================================
