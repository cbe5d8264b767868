---------------------------- MODULE EphemeralPool ----------------------------
(***************************************************************************)
(* lease_ephemeral of src/container_pool.py: requests with the same custom *)
(* configuration share one container, whose key carries the hash of the    *)
(* configuration.  This module is the life of one such key.  Unlike        *)
(* lease(), the path takes no create lock, ignores the result of one of    *)
(* its two semaphore acquisitions and creates the container without        *)
(* looking for one that exists.                                            *)
(*                                                                         *)
(* A request makes one lease; an entry is named after the request that     *)
(* creates it.  Nothing destroys such an entry by request:                 *)
(* destroy_container() computes the key without the hash.                  *)
(***************************************************************************)
EXTENDS Integers, FiniteSets

CONSTANTS
  Request,         \* request threads, and the entries they create
  NoRequest,       \* an empty place of the registry
  MaxConcurrency,  \* slots of an entry and connections of its pool
  Event            \* what the environment of this instance may do

Events ==
  { "slotTimeout",  \* MCP_LEASE_TIMEOUT passes while a slot is awaited
    "probeFails",   \* the health monitor finds the port closed, often enough
    "idle",         \* an unused container outlives its idle_ttl
    "fault" }       \* a container or a connection cannot be made

ASSUME RequestAssumption == IsFiniteSet(Request) /\ NoRequest \notin Request
ASSUME BoundsAssumption == MaxConcurrency \in Nat \ {0}
ASSUME EventAssumption == Event \subseteq Events

Entry == Request

VARIABLES
  reg,      \* the entry registered under the key
  state,    \* ContainerState of each entry
  pool,     \* entry.connection_pool is not None
  conns,    \* connections taken from that pool
  active,   \* entry.active_leases
  sem,      \* free slots of entry.semaphore
  soiled,   \* entries whose container holds what their leases executed
  running,  \* a container of that name exists
  pc,       \* where each request is
  ent,      \* the entry it works on
  held,     \* it really acquired a slot
  outcome   \* what its caller gets: pending, success or error

entryVars == <<state, pool, conns, active, sem>>
vars == <<reg, entryVars, soiled, running, pc, ent, held, outcome>>

States == {"STARTING", "HEALTHY", "UNHEALTHY", "STOPPED"}
Starting == {"register", "starting", "create", "wait", "publish", "failed"}
Using == {"connect", "count", "leased", "uncount", "unslot"}
Places == {"new", "inspect", "slot", "ownSlot", "done"} \cup Starting \cup Using

TypeOK ==
  /\ reg \in Entry \cup {NoRequest}
  /\ state \in [Entry -> States]
  /\ pool \in [Entry -> BOOLEAN]
  /\ conns \in [Entry -> 0..MaxConcurrency]
  /\ active \in [Entry -> Nat]
  /\ sem \in [Entry -> 0..MaxConcurrency]
  /\ soiled \subseteq Entry
  /\ running \in BOOLEAN
  /\ pc \in [Request -> Places]
  /\ ent \in [Request -> Entry \cup {NoRequest}]
  /\ held \in [Request -> BOOLEAN]
  /\ outcome \in [Request -> {"pending", "success", "error"}]

Init ==
  /\ reg = NoRequest
  /\ state = [e \in Entry |-> "STOPPED"]
  /\ pool = [e \in Entry |-> FALSE]
  /\ conns = [e \in Entry |-> 0]
  /\ active = [e \in Entry |-> 0]
  /\ sem = [e \in Entry |-> MaxConcurrency]
  /\ soiled = {}
  /\ running = FALSE
  /\ pc = [r \in Request |-> "new"]
  /\ ent = [r \in Request |-> NoRequest]
  /\ held = [r \in Request |-> FALSE]
  /\ outcome = [r \in Request |-> "pending"]

Goto(r, place) == pc' = [pc EXCEPT ![r] = place]

\* The call raises: the executor answers with an error.
Fail(r) ==
  /\ Goto(r, "done")
  /\ outcome' = [outcome EXCEPT ![r] = "error"]

(***************************************************************************)
(* Finding the entry                                                       *)
(***************************************************************************)
\* The registry is read under the pool lock ...
Look(r) ==
  /\ pc[r] = "new"
  /\ ent' = [ent EXCEPT ![r] = reg]
  /\ Goto(r, IF reg = NoRequest THEN "register" ELSE "inspect")
  /\ UNCHANGED <<reg, entryVars, soiled, running, held, outcome>>

\* ... and the state of the entry after it.
InspectHealthy(r) ==
  /\ pc[r] = "inspect"
  /\ state[ent[r]] = "HEALTHY"
  /\ Goto(r, "slot")
  /\ UNCHANGED <<reg, entryVars, soiled, running, ent, held, outcome>>

\* A start in progress is not waited for.
InspectStarting(r) ==
  /\ pc[r] = "inspect"
  /\ state[ent[r]] = "STARTING"
  /\ Goto(r, "register")
  /\ UNCHANGED <<reg, entryVars, soiled, running, ent, held, outcome>>

\* _remove_container has no parameter "force": the call raises TypeError.
InspectDead(r) ==
  /\ pc[r] = "inspect"
  /\ state[ent[r]] \in {"UNHEALTHY", "STOPPED"}
  /\ Fail(r)
  /\ UNCHANGED <<reg, entryVars, soiled, running, ent, held>>

(***************************************************************************)
(* Starting a container                                                    *)
(***************************************************************************)
\* The new entry replaces whatever is registered.
Register(r) ==
  /\ pc[r] = "register"
  /\ reg' = r
  /\ ent' = [ent EXCEPT ![r] = r]
  /\ Goto(r, "starting")
  /\ UNCHANGED <<entryVars, soiled, running, held, outcome>>

BeginStart(r) ==
  /\ pc[r] = "starting"
  /\ state' = [state EXCEPT ![r] = "STARTING"]
  /\ Goto(r, "create")
  /\ UNCHANGED <<reg, pool, conns, active, sem, soiled, running, ent, held, outcome>>

CreateContainer(r) ==
  /\ pc[r] = "create"
  /\ ~running
  /\ running' = TRUE
  /\ Goto(r, "wait")
  /\ UNCHANGED <<reg, entryVars, soiled, ent, held, outcome>>

\* The name is in use, or Docker fails.
CreateFails(r) ==
  /\ pc[r] = "create"
  /\ running \/ "fault" \in Event
  /\ state' = [state EXCEPT ![r] = "STOPPED"]
  /\ Goto(r, "failed")
  /\ UNCHANGED <<reg, pool, conns, active, sem, soiled, running, ent, held, outcome>>

Ready(r) ==
  /\ pc[r] = "wait"
  /\ running
  /\ pool' = [pool EXCEPT ![r] = TRUE]
  /\ Goto(r, "publish")
  /\ UNCHANGED <<reg, state, conns, active, sem, soiled, running, ent, held, outcome>>

\* The container is removed before the exception.
NotReady(r) ==
  /\ pc[r] = "wait"
  /\ ~running \/ "fault" \in Event
  /\ running' = FALSE
  /\ state' = [state EXCEPT ![r] = "STOPPED"]
  /\ Goto(r, "failed")
  /\ UNCHANGED <<reg, pool, conns, active, sem, soiled, ent, held, outcome>>

\* An exception after the container runs (no port mapping, no connection
\* pool): the container stays.
StartBreaks(r) ==
  /\ "fault" \in Event
  /\ pc[r] = "wait"
  /\ state' = [state EXCEPT ![r] = "STOPPED"]
  /\ Goto(r, "failed")
  /\ UNCHANGED <<reg, pool, conns, active, sem, soiled, running, ent, held, outcome>>

\* The handler deletes the key, whoever is registered under it.
Unregister(r) ==
  /\ pc[r] = "failed"
  /\ reg' = NoRequest
  /\ Fail(r)
  /\ UNCHANGED <<entryVars, soiled, running, ent, held>>

Publish(r) ==
  /\ pc[r] = "publish"
  /\ state' = [state EXCEPT ![r] = "HEALTHY"]
  /\ Goto(r, "ownSlot")
  /\ UNCHANGED <<reg, pool, conns, active, sem, soiled, running, ent, held, outcome>>

(***************************************************************************)
(* Slot and connection                                                     *)
(***************************************************************************)
AcquireSlot(r) ==
  /\ pc[r] \in {"slot", "ownSlot"}
  /\ sem[ent[r]] > 0
  /\ sem' = [sem EXCEPT ![ent[r]] = @ - 1]
  /\ held' = [held EXCEPT ![r] = TRUE]
  /\ Goto(r, "connect")
  /\ UNCHANGED <<reg, state, pool, conns, active, soiled, running, ent, outcome>>

\* On an existing entry the result of acquire() is not looked at.
TimeoutIgnored(r) ==
  /\ "slotTimeout" \in Event
  /\ pc[r] = "slot"
  /\ sem[ent[r]] = 0
  /\ Goto(r, "connect")
  /\ UNCHANGED <<reg, entryVars, soiled, running, ent, held, outcome>>

TimeoutRaised(r) ==
  /\ "slotTimeout" \in Event
  /\ pc[r] = "ownSlot"
  /\ sem[ent[r]] = 0
  /\ Fail(r)
  /\ UNCHANGED <<reg, entryVars, soiled, running, ent, held>>

\* Mutant: the pool of connections has no limit.
Connect_Unbounded(r) ==
  /\ pc[r] = "connect"
  /\ pool[ent[r]] /\ running
  /\ conns' = [conns EXCEPT ![ent[r]] = @ + 1]
  /\ Goto(r, "count")
  /\ UNCHANGED <<reg, state, pool, active, sem, soiled, running, ent, held, outcome>>

\* PooledDB blocks while all its connections are in use.
Connect(r) ==
  /\ pc[r] = "connect"
  /\ pool[ent[r]] /\ running
  /\ conns[ent[r]] < MaxConcurrency
  /\ conns' = [conns EXCEPT ![ent[r]] = @ + 1]
  /\ Goto(r, "count")
  /\ UNCHANGED <<reg, state, pool, active, sem, soiled, running, ent, held, outcome>>

\* Mutant: the handler forgets the slot.
ConnectFails_Leaks(r) ==
  /\ pc[r] = "connect"
  /\ ~pool[ent[r]] \/ ~running \/ "fault" \in Event
  /\ held' = [held EXCEPT ![r] = FALSE]
  /\ Fail(r)
  /\ UNCHANGED <<reg, entryVars, soiled, running, ent>>

\* The handler releases the semaphore, which is bounded.
ConnectFails(r) ==
  /\ pc[r] = "connect"
  /\ ~pool[ent[r]] \/ ~running \/ "fault" \in Event
  /\ sem' = [sem EXCEPT ![ent[r]] = IF @ < MaxConcurrency THEN @ + 1 ELSE @]
  /\ held' = [held EXCEPT ![r] = FALSE]
  /\ Fail(r)
  /\ UNCHANGED <<reg, state, pool, conns, active, soiled, running, ent>>

CountLease(r) ==
  /\ pc[r] = "count"
  /\ active' = [active EXCEPT ![ent[r]] = @ + 1]
  /\ Goto(r, "leased")
  /\ UNCHANGED <<reg, state, pool, conns, sem, soiled, running, ent, held, outcome>>

\* The statements are executed without a transaction, a savepoint or reverse DDL,
\* and the lease is not marked; the next request gets the container as it is.
Execute(r) ==
  /\ pc[r] = "leased"
  /\ soiled' = soiled \cup {ent[r]}
  /\ UNCHANGED <<reg, entryVars, running, pc, ent, held, outcome>>

(***************************************************************************)
(* release(), after the statements were executed                           *)
(***************************************************************************)
\* Mutant: the connection is kept out of the pool.
CloseConnection_Leaks(r) ==
  /\ pc[r] = "leased"
  /\ Goto(r, "uncount")
  /\ UNCHANGED <<reg, entryVars, soiled, running, ent, held, outcome>>

CloseConnection(r) ==
  /\ pc[r] = "leased"
  /\ conns' = [conns EXCEPT ![ent[r]] = @ - 1]
  /\ Goto(r, "uncount")
  /\ UNCHANGED <<reg, state, pool, active, sem, soiled, running, ent, held, outcome>>

\* Mutant: the lease stays counted.
UncountLease_Keeps(r) ==
  /\ pc[r] = "uncount"
  /\ Goto(r, "unslot")
  /\ UNCHANGED <<reg, entryVars, soiled, running, ent, held, outcome>>

UncountLease(r) ==
  /\ pc[r] = "uncount"
  /\ active' = [active EXCEPT ![ent[r]] = IF @ > 0 THEN @ - 1 ELSE 0]
  /\ Goto(r, "unslot")
  /\ UNCHANGED <<reg, state, pool, conns, sem, soiled, running, ent, held, outcome>>

ReleaseSlot(r) ==
  /\ pc[r] = "unslot"
  /\ sem[ent[r]] < MaxConcurrency
  /\ sem' = [sem EXCEPT ![ent[r]] = @ + 1]
  /\ held' = [held EXCEPT ![r] = FALSE]
  /\ outcome' = [outcome EXCEPT ![r] = "success"]
  /\ Goto(r, "done")
  /\ UNCHANGED <<reg, state, pool, conns, active, soiled, running, ent>>

\* BoundedSemaphore raises ValueError, which the executor reports.
ReleaseRaises(r) ==
  /\ pc[r] = "unslot"
  /\ sem[ent[r]] = MaxConcurrency
  /\ held' = [held EXCEPT ![r] = FALSE]
  /\ Fail(r)
  /\ UNCHANGED <<reg, entryVars, soiled, running, ent>>

(***************************************************************************)
(* The health monitor                                                      *)
(***************************************************************************)
\* FailureLimit probes failed in a row.
MarkUnhealthy ==
  /\ "probeFails" \in Event
  /\ reg # NoRequest /\ state[reg] = "HEALTHY"
  /\ state' = [state EXCEPT ![reg] = "UNHEALTHY"]
  /\ UNCHANGED <<reg, pool, conns, active, sem, soiled, running, pc, ent, held, outcome>>

\* Mutant: the cleaned entry stays registered, HEALTHY.
MidnightCleanup_Keeps ==
  /\ "idle" \in Event
  /\ reg # NoRequest /\ state[reg] = "HEALTHY" /\ active[reg] = 0
  /\ pool' = [pool EXCEPT ![reg] = FALSE]
  /\ running' = FALSE
  /\ UNCHANGED <<reg, state, conns, active, sem, soiled, pc, ent, held, outcome>>

\* Mutant: the leases in use are not looked at.
MidnightCleanup_Busy ==
  /\ "idle" \in Event
  /\ reg # NoRequest /\ state[reg] = "HEALTHY"
  /\ pool' = [pool EXCEPT ![reg] = FALSE]
  /\ state' = [state EXCEPT ![reg] = "STOPPED"]
  /\ running' = FALSE
  /\ reg' = NoRequest
  /\ UNCHANGED <<conns, active, sem, soiled, pc, ent, held, outcome>>

MidnightCleanup ==
  /\ "idle" \in Event
  /\ reg # NoRequest /\ state[reg] = "HEALTHY" /\ active[reg] = 0
  /\ pool' = [pool EXCEPT ![reg] = FALSE]
  /\ state' = [state EXCEPT ![reg] = "STOPPED"]
  /\ running' = FALSE
  /\ reg' = NoRequest
  /\ UNCHANGED <<conns, active, sem, soiled, pc, ent, held, outcome>>

\* Every request was answered and the server waits for more.
Idle ==
  /\ \A r \in Request : pc[r] = "done"
  /\ UNCHANGED vars

Find(r) == Look(r) \/ InspectHealthy(r) \/ InspectStarting(r) \/ InspectDead(r)

Start(r) ==
  \/ Register(r) \/ BeginStart(r) \/ CreateContainer(r) \/ CreateFails(r)
  \/ Ready(r) \/ NotReady(r) \/ StartBreaks(r) \/ Unregister(r) \/ Publish(r)

Take(r) ==
  \/ AcquireSlot(r) \/ TimeoutIgnored(r) \/ TimeoutRaised(r)
  \/ Connect(r) \/ ConnectFails(r) \/ CountLease(r)

GiveBack(r) ==
  CloseConnection(r) \/ UncountLease(r) \/ ReleaseSlot(r) \/ ReleaseRaises(r)

RequestStep(r) == Find(r) \/ Start(r) \/ Take(r) \/ GiveBack(r)

Next ==
  \/ \E r \in Request : RequestStep(r) \/ Execute(r)
  \/ MarkUnhealthy
  \/ MidnightCleanup
  \/ Idle

Spec == Init /\ [][Next]_vars

\* Threads keep running and waits for a slot time out.  No fairness is asked
\* of the monitor or of faults: a connection that can be made is made, one that
\* cannot raises.
FairSpec ==
  /\ Spec
  /\ \A r \in Request :
       /\ WF_vars(Find(r))
       /\ WF_vars(Start(r))
       /\ WF_vars(AcquireSlot(r) \/ TimeoutIgnored(r) \/ TimeoutRaised(r))
       /\ WF_vars(Connect(r))
       /\ WF_vars(ConnectFails(r) /\ ~(pool[ent[r]] /\ running))
       /\ WF_vars(CountLease(r) \/ GiveBack(r))

(***************************************************************************)
(* Safety                                                                  *)
(***************************************************************************)
\* No slot is lost on any path through lease_ephemeral() and release(): what
\* is not free is held, also after requests went on without a slot and gave
\* back one they never had.
NoSlotLost ==
  \A e \in Entry :
    sem[e] + Cardinality({r \in Request : held[r] /\ ent[r] = e}) >= MaxConcurrency

\* active_leases and the connections in use are those of the requests between
\* taking and giving back, although a timed-out request skips the semaphore
\* and the entry may have lost its registration and its pool meanwhile.
LeaseAccounting ==
  \A e \in Entry :
    /\ active[e] = Cardinality({r \in Request : pc[r] \in {"leased", "uncount"} /\ ent[r] = e})
    /\ conns[e] = Cardinality({r \in Request : pc[r] \in {"count", "leased"} /\ ent[r] = e})

\* What a request waits for, timeouts and faults left aside: a slot or a
\* connection of its entry.
Blocked(r) ==
  \/ pc[r] \in {"slot", "ownSlot"} /\ sem[ent[r]] = 0
  \/ pc[r] = "connect" /\ pool[ent[r]] /\ running /\ conns[ent[r]] = MaxConcurrency

\* Nobody waits in vain or in a circle: whoever is blocked waits for another
\* user of its entry who is not, although those who went on without a slot give
\* slots back and those who hold one wait for connections in turn.
NoCircularWait ==
  \A r \in Request : Blocked(r) =>
    \E q \in Request : ent[q] = ent[r] /\ pc[q] \in Using /\ ~Blocked(q)

\* A registered HEALTHY entry has its pool and its container, although two
\* requests that both saw no entry overwrite and unregister one another.
HealthyIsBacked ==
  reg # NoRequest /\ state[reg] = "HEALTHY" => pool[reg] /\ running

\* A container is never taken from under a counted lease of the registered
\* entry, although a competing start removes containers by name and the
\* cleanup decides on active_leases alone.
RemovalSparesLeases ==
  [][running /\ ~running' => \A r \in Request : pc[r] = "leased" => ent[r] # reg]_vars

(***************************************************************************)
(* What the documents say and the code does not do                         *)
(***************************************************************************)
\* The semaphore limits the requests that work with one container at a time.
AdmittedLimit ==
  \A e \in Entry :
    Cardinality({r \in Request : pc[r] \in Using /\ ent[r] = e}) <= MaxConcurrency

(***************************************************************************)
(* Liveness                                                                *)
(***************************************************************************)
\* Every request ends, whichever entry it waits for a slot or a connection of.
EveryRequestEnds == \A r \in Request : pc[r] = "new" ~> pc[r] = "done"
=============================================================================
