# poly-db-mcp in TLA+

poly-db-mcp executes SQL for MCP clients in database containers that many
requests share. It promises that a request leaves nothing behind for the next
one: DML and transactional DDL are rolled back, other DDL is reversed, and a
container that cannot be cleaned is destroyed. The models in this directory
follow that promise through the code, and say where it ends (custom
configurations, reverses that take back something else): who may use a container, who destroys it,
what a text of SQL is split into and what a statement leaves behind, who may ask
for its execution, and how the server, its binaries and its PID file survive
stops, restarts and crashes.

## 1. Inventory

| Part | State | Operations | Interacts with |
|---|---|---|---|
| Container pool (`src/src/container_pool.py`) | `_entries`, `_create_locks`, `_shutting_down`; per entry `state`, `connection_pool`, `active_leases`, `semaphore`, `health_failures` | `lease`, `lease_ephemeral`, `release`, `destroy_container`, health monitor, midnight cleanup, `shutdown` | Docker daemon, executor threads, monitor thread |
| SQL executor (`executor.py`, `adapters/`) | per request: open transaction, queued reverse DDL, `destroy_container` | `execute` with its single, batch and ephemeral paths | pool (lease, mark, release), database |
| Client registry (`client_registry.py`, `routes/oauth_routes.py`, `routes/client_routes.py`) | clients, two indexes, authorization codes | register, authorize, exchange, unregister, rotate, update | routes of node and gateway |
| Gateway (`gateway/`) | routing table, HTTP clients, SSE sessions | lookup, forward with failover, scatter, message routing | nodes over HTTP, registry |
| Package cache (`package_manager.py`) | the directory of each version, shared by all processes of a host | `prepare_binaries`, extraction | container start, Nexus client |
| Nexus client (`nexus_client.py`) | none | search by filter, by keyword, by directory; download | Nexus over HTTP |
| Configuration (`config_manager.py`) | cached YAML | load, look up a version, synthesize one | everything |
| REST and MCP routes (`routes/`, `api.py`) | a thread per request, open `/sse` streams | translate requests, time out, start and stop with the process | executor, uvicorn |
| Dify (`mcp/`) | none | translate requests | executor |
| Entry point (`main.py`, `service.sh`) | PID files | start, `--daemon`, `--stop`, `--restart` | operating system, uvicorn |

What is hard in it:

- Request threads, the health monitor and `shutdown` change the same entries.
  `_pool_lock` protects single critical sections; decisions span several of
  them, and `_start_entry` assigns `HEALTHY` outside the lock.
- Containers are destroyed by name and entries looked up by key, so a late
  destroyer can meet the successor of the entry it was after.
- Slots, connections and `active_leases` are three counts of the same thing,
  updated at different moments and given back on a dozen paths.
- The executor interleaves statements that commit with statements in a
  transaction, and any of them, or the connection, may fail.
- API keys, authorization codes and clients have independent lifetimes. A code
  keeps the key of its creation: after a rotation `/token` answers with one that
  is revoked (client_registry.py:143).
- The gateway cannot tell a node that is down from one that works too long.
- The package cache is a directory without a lock, and a directory that is not
  empty counts as complete.
- Parent, child, a stop and an earlier server that leaves late all write or
  remove one PID file. A process ends only after the threads of requests that
  were already told of a timeout.
- Where a statement ends is decided by a scanner that has to know literals,
  comments and blocks of several SQL dialects.

What makes each part correct:

- *Pool*: no slot is lost or given back twice; a drain has seen every counted
  lease; an entry that is registered and `HEALTHY` has a pool and a container;
  one thread at a time starts a container; residue keeps its destroyer until it
  is gone; nobody waits for ever.
- *Executor*: what can be rolled back never becomes durable; an error ends a
  batch; every change that has a reverse which takes it back gets it, backwards.
- *Gateway*: a request goes to the nodes that serve it best, in order; a second
  node gets it only when the first is given up; failure is reported only when
  every node that was to be asked has failed; a broadcast, but for `tools/list`,
  tells who failed; every request is answered.
- *Registry*: the indexes agree with the table; codes are single use; a token
  leads to its own client or to nobody; a key that was rotated away, or whose
  client is gone, leads to nobody from then on.
- *Splitting*: a text becomes the statements that its lexemes say.
- *Package cache*: a version's directory holds that version, and half of it only
  while somebody extracts it.
- *Entry point*: the server that runs is the one that the PID file names; one
  that is told to stop ends.

## 2. Modules

| Module | Models |
|---|---|
| `LeaseService` | what the pool promises its callers, without entries, locks and counts |
| `ContainerPool` | the regular path of the pool, any number of requests and keys |
| `ContainerPoolLeases` | `ContainerPool` as an implementation of `LeaseService` |
| `MCContainerPool` | its instances for TLC |
| `ContainerPoolProofs`, `ContainerPoolLeasesProofs` | theorems about its counts and locks; about containers, residue and the refinement |
| `EphemeralPool`, `MCEphemeralPool` | the life of one custom configuration in `lease_ephemeral` |
| `EphemeralPoolLeases`, `EphemeralPoolProofs` | it as a second implementation of `LeaseService`; theorems about all of it |
| `Executor`, `ExecutorProofs` | one request of `execute()` after it has its lease |
| `Statements`, `MCStatements`, `MCExecutor` | the splitting of a text into the batch of the executor; its reference definition; both for TLC |
| `StatementsProofs` | theorems about the scanner, for every text |
| `ClientRegistry`, `MCClientRegistry`, `ClientRegistryProofs` | the registry of one process |
| `Gateway`, `MCGateway`, `GatewayProofs` | one request in the gateway, over every routing table of the instance |
| `Daemon` | the commands of one operator, the PID files, the life of server processes |
| `NexusClient` | which package each search answers with: operators without state |
| `PackageCache` | `prepare_binaries` by threads of any number of processes |
| `NodeHost`, `MCNodeHost`, `NodeHostProofs` | one host: `Daemon`, `PackageCache` and the requests, composed |

`PROJECT.json` maps every definition to the lines it stands for.

### ContainerPool

A step is one critical section of `_pool_lock`, one semaphore operation, one
Docker call, or one unlocked assignment that others can observe. `pc` says where
a request is: `new` and `enter` (before the create lock), `lock` (waiting for
it), `register`, `start`, `wait`, `publish` (starting a container, with the
lock), `slot`, `connect`, `count` (taking slot, connection, lease), `leased`,
`unslot` (giving back), `destroy`, `drain`, `kill` (`destroy_container`).
An entry is named after the request that created it. `attached[e]` says that
the container `e` holds the id of still exists, `docker[k]` and `dirty[k]` are
the container named after key `k` and whether it holds residue. `generation`
counts how often `shutdown` replaced the dictionary of create locks: threads
with locks of different generations do not exclude each other.

The database behind a container is external; the executor's decision to mark
its lease is the action `Contaminate`. A probe and its update are one step: a
probe that comes late delays a count and does nothing else.

### LeaseService and the refinement

`LeaseService` has no entries, locks, semaphores, registry or monitor. A request
is outside, waiting, using a lease, cleaning up after it, or answered. A lease is
`intact` while the container it was granted on exists, and `known` while its
entry is registered as well. The service promises that

- at most `Limit` leases of one container are known at a time,
- a container is taken away from under a `known` lease only by a caller that
  replaces it or cleans it, never by the cleanup of idle containers,
- nobody who soiled a container is dismissed while its residue would stay,
  unless another caller is left to remove it (`LastCleaner`).

`known` has to be told apart from `intact` because of what the refinement
showed first: `destroy_container` drops the registration of a successor
(container_pool.py:702), and a lease on an entry that lost its registration is
not counted by whoever looks at the registered entries, so the cleanup of the
*next* entry removes the container under it. `Forget` is that step. The limit is
one of known leases for the same reason: a destroyer can drop the registration
of a container that another request is starting; when that request publishes its
entry, a third one has registered a successor that reuses the running container,
and with `MaxConcurrency` = 1 two requests lease it, each through a semaphore of
its own. The mapping is `Place`, `attached[ent[r]]` and the registration of the
entry. `Stop` is a container that ends by itself, which the service allows where
it is `Fragile`: leases break, and what the container holds stays in it.

`lease_ephemeral` keeps the promises about leases by other means, with one
container that does not stop by itself. There a lease counts while its entry is
the registered one and the container runs (`EphemeralPoolLeases`), because that
is what the cleanup looks at. It does not keep the promise about residue: where
`Restored` is FALSE, `Leave` lets every lease change its container for those that
come after it, and nobody is obliged to remove what it left.

### EphemeralPool

`lease_ephemeral` takes no create lock, does not look for an existing container
and ignores the result of one of its two `acquire` calls (container_pool.py:442).
`held` records whether a slot was really taken, `conns` the connections taken
from the `PooledDB`, which block at the same limit. `InspectDead` is the path
that ends in a `TypeError` because `_remove_container` has no parameter `force`:
an entry that became `UNHEALTHY` is not replaced, and requests for that
configuration fail from then on.

`Execute` is a statement of the ephemeral path of the executor: it runs without a
transaction (executor.py:714-729), nobody takes it back, and `soiled` holds the
entries in whose containers that happened. The comment there says "Container is
destroyed on lease.\_\_exit\_\_, guaranteeing isolation"; the path never calls
`mark_for_destroy`, so `__exit__` destroys nothing (container_pool.py:84-90), and
`lease_ephemeral` itself says that "the same custom configuration always reuses
the same container across requests" (container_pool.py:418-419). The next request
with the configuration finds what this one did, until the container is removed,
at midnight if it is idle then.

### Executor

A statement is its kind: what the patterns of the executor and the database
make of it (`dml`, `commits`, `ddl`, `ddlFound`, `ddlOther`, `ddlOneWay`,
`nonTxn`). `Modes` are the ways through `execute()`: an adapter with DDL
transactions, one without, and the ephemeral path. The database is two sets of statement positions, `pending`
(open transaction) and `durable`. `damaged` says that a reverse statement
removed something the request had not made. `_generate_reverse_ddl` searches its
patterns in the text and does not ask what the statement did. `ddl` are the
statements that the reverse takes back; `ddlFound` those that found their object
(IF NOT EXISTS) and changed nothing, which the reverse then drops; `ddlOther` the
rest: of `ADD COLUMN a INT, ADD COLUMN b INT` it drops `a` only
(executor.py:382-388), a view that existed and was replaced it drops
(executor.py:366-371), and in the body of a procedure it finds a table. Such a
reverse (`Reversed`) may leave the change or a part of it and may remove
something older; it succeeds, and the lease is not marked. A statement that times out (`late`)
takes effect: leaving the `with ThreadPoolExecutor` block of
`_call_with_timeout` joins the thread.

The model takes the assignments to `connection.autocommit` at their word.
Whether DBUtils' pooled connection passes them on to the driver is outside the
repository.

What one sees in this model and no document mentions: a single DDL statement
that times out is neither reversed nor marked (executor.py:513); statements
such as CREATE DATABASE stay on a database with DDL transactions
(executor.py:555); a batch notes DROP as "container will be destroyed" and does
not mark the lease (executor.py:791); the ephemeral path never marks its lease.
`TxnLeavesNothing` and `ReverseLeavesNothing` say for which requests the
promise does hold: those that run in transactions altogether, and those whose
statements can be rolled back or are `ddl` (`AllReversed`). The second promise
is the weaker one: when a `ddl` statement raised without effect, its reverse is
executed all the same and may drop what was there before (`ExecExists`).

### Statements

A text is a sequence of symbols: the characters the scanner looks at, the
keywords of its patterns, `x` for any other word, `nl` for the end of a line.
`SplitStatements` applies `Step` until the text is consumed; each branch of the
scanner's loop is one operator. `MCStatements` defines the same result without a
scanner: a text is a sequence of lexemes (words, literals of every kind with
semicolons, quotes and comment signs inside, comments, separators, blocks), each
of which is rendered into symbols, and its statements are what lies between the
separators, without the comments. `Executor` runs a batch; `MCExecutor` extends
both, and `SplitAgrees` compares the two for every text of as many lexemes as
the batch has statements, so every text of up to four.

The reference definition takes comments to be part of no statement, as the
docstring (executor.py:84-96) says and the code does. Two tests say otherwise:
tests/test_executor.py:36-42 expect `-- comment with ; semicolon` and
`/* inline; semicolon */` in front of the statement after them. The code does not
satisfy them; `SplitAgrees` follows the docstring, not these tests.

The comparison is over lexemes that are closed, and over blocks that begin a
statement. Outside of that the scanner does what no document says: the last
character of a comment that is not closed becomes part of the statement (line
139); everything between two parameters `$1` and `$2` is taken for a tag (line
151), so that a semicolon there does not separate; `BEGIN` and `END;` inside the
literals of a block count as its own (lines 112-117); and a `CREATE` that
contains `TYPE ` anywhere, as `CREATE TABLE t (type int)` does, is taken for a
block without `BEGIN`, which swallows the rest of the text (line 70).

### ClientRegistry

Every operation of the registry is one critical section, and every route an
`async def` without an `await`: a route is one action. Clients, keys and codes
are never drawn twice, as `uuid4` and `token_urlsafe(32)` promise. `issued` and
`tokens` are history: for whom a key was generated, how often a code was
exchanged. `Revoked` is a key that was given out and is no longer the one of a
registered client; `RevokedForEver` says that it authenticates nobody, from the
step that revokes it on. That holds because `rotate_api_key` and `unregister`
delete it from the index in the same critical section, and because no key is
drawn twice. `Patch` follows `update_client`, which takes an omitted `is_active`
for a value, so that renaming a client deactivates it.

### Gateway

The gateway is stateless between requests: the clients it caches differ in
nothing, and `_sse_sessions` is never written to, so the first loop of
`/messages` (routes.py:358) is dead and left out. One request in every routing
table therefore shows what there is. `Replicas` is the loop of the constructor
for one key: it goes through the nodes in the order of routing.yaml and appends
those that declare the key. `FirstOf` is the first key of a type in the order of
insertion into `_routes`, which the fallback takes. A version is the sequence of
its parts (`Part`), so that the longest prefix in characters is the one with most
parts. `ConfigAssumption` says what a routing table is: every node declares
something, and nothing twice. A handler
is its `kind`: those that look up the request's own type and version (`Routed`;
`/api/dify/execute_sql` goes the way of `execute_sql`, `/mcp/call` that of
`tools/call`), `versions` and `default`, which look up a declared one,
`messages`, the broadcasts (`Scattered`) and `initialize`, which is answered
locally. Requests without `db_type` or `version` are answered 400 before
anything happens and left out, as are tables without nodes or with a node
without a version, and a node that lists one version twice (14 and "V14"), to
which a request would be sent twice.

A node is what the gateway sees of it: it refuses the connection
(`CannotConnect`), answers (`NodeAnswers`) or is given up while it may be
working (`GiveUp`). Any status is passed on, but for a 404 to `/messages`
(routes.py:377), upon which the search goes on with the next node
(`SessionUnknown`). `knows` are the nodes that would not answer 404: the nodes of
this repository keep no sessions and take every message, and any other set is
tried too. With `request_timeout` 3600 the gateway's timeout races with
the node's own, which is also 3600 (execute_routes.py:18), so both outcomes are
possible for a long query.

What one sees in this model: the gateway strips off the key that it validated
(routes.py:77), and the `execute_sql` of a node asks for one
(execute_routes.py:101), so that this route is always answered 401;
`/api/shutdown` is broadcast as GET to a POST route and stops nobody
(routes.py:214); the merged list of databases leaves out versions of a type that
only a slower node serves (routes.py:228); `/messages` may execute a message
twice on one node, when a replica was cut off and the search comes back to it; a
404 ends the failover for the key that the search looked up, so that a node
behind the one that answered may not be asked although it knows the session
(`Hidden`); `tools/list` returns the merged tools alone, so that a node that
failed does not show unless all did (routes.py:272-280); failover may execute a
request on two nodes, the first of which was given up while it worked;
and `retry_on_node_error` of routing.yaml is read and not used (app.py:42).

### Daemon, PackageCache, NexusClient and NodeHost

`Daemon` has one operator who gives one command at a time and waits for it to
return; a step is one access to the file, one system call, or one phase of
`uvicorn.run()`. Processes are named after their PID, and `Stranger` is a number
that an earlier server left in the file: nobody has it, or another program.
uvicorn 0.24, which requirements.txt asks for, is external: a process handles
SIGTERM between the phases `loading` and `leaving`, binds its port after
`lifespan` has started the application, and removes nothing by itself. A child
that cannot bind the port still runs the `finally` of `run_server`, which removes
the PID file whoever is named in it. `alone` is history: the processes no other
server overlapped.

`PackageCache` has callers: threads that need the binaries of a version. The
three extractions are `Unpack` (two, into a directory of the caller's own) and
`Truncate` and `Write` for each file of the last one, because `tarfile` opens a
file, which empties it, before it writes. `NexusVersion` is `get_db_config`: a
version that databases.yaml lists asks for its patch, any other one gets a
synthetic configuration that names no `nexus_version`, and
`_prepare_binaries` raises. What report.md:352-403 describes, the automatic
fetch of a version that is not listed, therefore never happens
(config_manager.py:157, container_pool.py:846), and of the operators of
`NexusClient` only the one for patches is reached from the pool: `NodeHost` gives
`PackageCache` what that one may come back with, `Downloads`.

`NodeHost` composes them: every request, and the prewarming of every process, is
a caller of the cache in a thread of that process. `Threads(p)` are those that
have not returned. `Leave` waits for them, because the end of `asyncio.run()`
joins the threads of `to_thread`; `StopServing` waits for answers and streams;
`QueryTimeout` answers a client and leaves the thread; `Crash` takes the threads
with it. A request is one that needs a container of its own to be started: the
create lock of the pool orders starts for one key, and another compatibility
mode or custom configuration of a version is another key.

What one sees in these models besides the finding: `service.sh` looks for the
server in `mcp-server.pid` (service.sh:27) while `main.py` writes `mcp-node.pid`
(main.py:25), so its `start` never finds one that runs and reports a failure, its
`stop` stops nobody and a second server removes the file of the first;
`--restart` gives up when the old server needs more than 10 s, although it will end (main.py:274-288); a stop
through a file whose number was reused ends a program that is no server
(main.py:265); a server with an open `/sse` stream does not stop at all
(mcp_routes.py:155); and `/api/shutdown` drains the pool on the event loop
(execute_routes.py:146), which serves nobody for up to 30 s.

## 3. Runs

| Run | Instance | States | Shows |
|---|---|---|---|
| `PoolFaults` | 3 requests, all contaminate, limit 2, 3 probes; probes, cleanup, drains that time out; `Apart` | 649,675 | `TypeOK`, `SlotAccounting`, `HealthyIsBacked`, `ResiduePending`, `ImplementsLeases` |
| `PoolLive` | 2 requests, both contaminate, limit 1, one shutdown, dying containers, refused removals, no drain timeout | 161,394 | `OneStarter`, `NoCircularWait`, `ActiveAccounting`, `HealthyHasPool`, `EveryRequestEnds`, `DestroyingEnds`, `DeadContainerNoticed` |
| `PoolResidue` | 3 contaminating requests | violation | residue without a destroyer |
| `EphemeralCore` | 3 requests, limit 1, every event | 190,938 | `NoSlotLost`, `LeaseAccounting`, `NoCircularWait`, `HealthyIsBacked`, `RemovalSparesLeases`, `ImplementsLeases`, `EveryRequestEnds` |
| `EphemeralLimit` | 4 requests, limit 1, slot timeout | violation | a request works without a slot |
| `ExecCore` | every batch of up to 4 statements, every mode, kind and event; every text of up to 4 lexemes | 336,177 | `DmlRolledBack`, `ErrorEndsBatch`, `TxnLeavesNothing`, `ReverseLeavesNothing`, `UndoCovers`, `UndoOrder`, `SplitAgrees` |
| `ExecExists` | batches of 2 CREATEs that may fail | violation | a reverse statement drops an older table |
| `RegistryCore` | 2 clients, 3 keys, 2 codes | 7,387 | `IndexesAgree`, `CodeOnce`, `TokenIsOwn`, `RevokedForEver` |
| `GatewayCore` | 3 nodes, 64 routing tables, 3 types, 4 versions, every handler, every set of nodes that know a session | 93,718 | `MostSpecific`, `FailoverInOrder`, `ExecutedOnce`, `NoAnswerMeansAll`, `ScatterCovers`, `EveryRequestAnswered` |
| `HostCore` | 2 processes, 1 client, a listed and an unlisted version of 2 files; crashes, failing starts and extractions | 573,520 | `AloneIsListed`, `PartialOnlyByFault`, `CacheIsOwn` |
| `HostLive` | 1 process, 2 clients, 1 file; streams, failing extractions | 63,760 | `StopEnds` |
| `CachePartial` | 1 process, 2 clients, nothing fails | violation | a request mounts what another is still extracting |

*Bounds.* Two requests are enough for a race of two destroyers or two starters;
the third is the one that leases between them, or that registers what a late
destroyer meets. Limit 1 makes requests wait for slots, limit 2 lets a lease and
a destroyer use one container at once. Keys interact only through `shutdown` and
the cleanup, which treat each alike, so the runs have one key; the theorems have
any number. `MaxShutdowns` bounds the calls of `shutdown`; each request makes
one lease. Batches of four have room for a transaction on either side of a
standalone statement and an error after it; the theorems have no such bound.
Three keys let two clients register and one rotate. Requests are symmetric in
runs without liveness. In `GatewayCore` three nodes declare 3, 3.0 or another
type in every combination and are asked for 3, 3.0, 3.0.9 and 5: each tier of
the lookup is met with zero to three replicas, and a type nobody declares. In
`HostCore` the second process is the one that overlaps, replaces or follows the
first; the client and the prewarming of each process are three callers of one
cache, and two files are the least that one can extract half of. `StopEnds` is
about one process, whose two requests may be anywhere, and does not depend on the
number of files. Four lexemes put a literal or comment between two others on
either side of a separator. `TypeOK` is listed by `PoolFaults` only: in the other
modules it is a theorem for every instance, and a plain one.

`ResiduePending` fails when three requests soil a container: `PoolResidue` shows
how. It takes one of them that starts the container while another one is about
to remove it: the entry of the first is off the registry when its own
destruction looks for it. The constraint `Apart` of `PoolFaults` stops there and
nowhere else; all three soil, wait, drain and destroy in every other order. Both
`ResiduePending` and `ImplementsLeases` are checked without refused removals,
because `_remove_container` logs such an error and goes on
(container_pool.py:1121), after which the next entry reuses the container with
what it holds. `HealthyIsBacked` is about destroyers, so `PoolFaults` has no
containers that die by themselves: `PoolLive` has, and asks that the monitor
notices them.

*Fairness.* `FairSpec` of the pool asks weak fairness of each request and of the
monitor: the threads run, their Docker and database calls have timeouts, and a
lease is given back because a statement has one
(`MCP_STATEMENT_TIMEOUT`). No fairness is asked of shutdown, of contamination or
of the environment, and in `PoolLive` a drain does not end by its timeout, so
that a wait in a circle would show. In `EphemeralPool` only the requests are
fair. In `Gateway` the request in progress is: httpx bounds each attempt by a
timeout, and every list of nodes is finite. In `NodeHost` a command that was
given goes on, processes pass through their phases, threads return (downloads and
extractions end) and an answer follows its thread; nobody has to give a command,
to ask, to crash or to close a stream, and `QueryTimeout` is not fair, so that
`StopEnds` does not rest on a request being given up. Executor and registry have
no liveness property: each of their operations is a terminating loop or a single
step.

*Deadlock* is checked in every run. `Idle` is the server waiting for more once
every request was answered.

## 4. Theorems

TLAPS proves these for every value of the constants, from the assumptions in the
modules (a finite set of requests, a positive limit, none-values that are not
members, routing tables that declare nothing twice). Each inductive invariant was
checked by TLC on the instance of its run before it was proved. Theorems without
a property in brackets are about the steps of a module or an operator, and no run
asks for them.

| Module | Theorems and the properties they state |
|---|---|
| `ContainerPoolProofs` | `TypeCorrect` (`TypeOK`), `SlotsAccounted` (`SlotAccounting`), `LeasesCounted` (`ActiveAccounting`), `HealthyPools` (`HealthyHasPool`), `OneStarterAtATime` (`OneStarter`), `WaitingIsServed` (`NoCircularWait`), `NothingIsRetried` |
| `ContainerPoolLeasesProofs` | `HealthyStaysBacked` (`HealthyIsBacked`), `ResidueHasCleaner` (`ResiduePending`), `PoolImplementsLeases` (`ImplementsLeases`) |
| `EphemeralPoolProofs` | `TypeCorrect` (`TypeOK`), `NoSlotIsLost` (`NoSlotLost`), `LeasesAccounted` (`LeaseAccounting`), `HealthyStaysBacked` (`HealthyIsBacked`), `LeasesSpared` (`RemovalSparesLeases`), `WaitingIsServed` (`NoCircularWait`), `NothingIsRetried`, `EphemeralImplementsLeases` (`ImplementsLeases`) |
| `ExecutorProofs` | `ExecutorTypes` (`TypeOK`), `DmlNeverDurable` (`DmlRolledBack`), `ErrorIsLast` (`ErrorEndsBatch`), `RollbackLeavesNothing` (`TxnLeavesNothing`), `QueueCovers` (`UndoCovers`), `ReverseIsComplete` (`ReverseLeavesNothing`), `LastReversedFirst` (`UndoOrder`) |
| `StatementsProofs` | `ScannerEnds`, `StatementsAreTheText`, `ContentsAreOpaque` |
| `ClientRegistryProofs` | `RegistryTypes` (`TypeOK`), `RegistryConsistent` (`IndexesAgree`), `CodesAreSingleUse` (`CodeOnce`), `TokensAreOwn` (`TokenIsOwn`), `RevocationIsFinal` (`RevokedForEver`) |
| `GatewayProofs` | `GatewayTypes` (`TypeOK`), `LookupIsMostSpecific` (`MostSpecific`), `FailoverOrdered` (`FailoverInOrder`), `OneExecution` (`ExecutedOnce`), `AllTried` (`NoAnswerMeansAll`), `BroadcastCovers` (`ScatterCovers`) |
| `NodeHostProofs` | `HostTypes` (`TypeOK`), `LoneServerIsListed` (`AloneIsListed`), `HalfOnlyByFault` (`PartialOnlyByFault`), `PackagesAreOwn` (`CacheIsOwn`) |

*Slots and leases.* `SlotAccounting` is not inductive alone: a request that
gives a slot back must work on an entry at all, and a new entry must be in
nobody's hands. `Pointers` adds `KnownEntry`, `Unborn` and `RegistryKeys`. A
step of one request then changes the set of holders of one entry by at most
that request; the lemmas `AtSame`, `AtEnter` and `AtLeave` say what becomes of
the cardinality, and each action is one of these moves. `EphemeralPoolProofs`
follows the same argument (`Accounts`); there `HeldInUse` is what makes it work,
because a request may use a lease without a slot and must not give one back.

*Pools of healthy entries.* `HEALTHY` is assigned in a step of its own, after
the pool was made, so the invariant `Owned` adds `PublishedHasPool`: between the
two steps nobody drops the pool of an entry that stays registered.

*The create lock.* `LockHeld` is inductive with the types: from the decision to
start until the end of the start a request holds the lock of its generation, and
a lock that is held is held by such a request (`HeldByStarter`), so that none is
left locked by a request that went elsewhere.

*Waiting.* `NoCircularWait` says that a request that is `Blocked` waits for
another one that is not, and so does the drain of `shutdown`: in `ContainerPool`
at the create lock or in a drain, with no timeout to help; in `EphemeralPool` for
a slot or a connection. The holder of a create lock is starting a container, and
waits for nobody (`HeldByStarter`); missing slots and connections and counted
leases belong to requests that are about to give them back, by the invariants of
the counts. `NothingIsRetried` says that every move of a request leads to a later
place (`Rank`), so that it makes at most fifteen. Together with threads that keep
running the two give `EveryRequestEnds`; that step is about fairness, and is left
to TLC.

*Containers of healthy entries.* `Started` is what the create lock gives while
there is only one generation of locks: one start per key (`StartAlone`), on a
key that has no entry when it registers (`RegisterEmpty`), of an entry that
nobody works on yet (`StartFresh`, `Published`). On it rests `PublishBacked`:
from the first answer of the database on, whoever removes the container of a
registered entry unregisters it in the same step. `HealthyStaysBacked` holds
while the theorem's `Undisturbed` does, and both parts of it are needed: a
container may stop by itself (`exit`), and the first `shutdown` replaces the
create locks, after which two requests start one key and one of them removes the
container of the other.

*Residue.* `Tracked` says that until a request that will soil a container gives
its lease back, the registry knows the entry that it starts and, while there is a
container, the one it works on, so that it is found when it is to be destroyed.
`ResidueHasCleaner`
needs three hypotheses. `Removable`: one generation of create locks, and no
removal that Docker refuses (which the code logs and ignores,
container_pool.py:1121). `Apart`: no request that will soil a container starts
it while another one that did is about to remove it. Any number of requests may
soil a container otherwise. That `Apart` is needed is what `PoolResidue` shows,
and is recorded as a finding; containers may stop by themselves.

*The refinement.* `PoolImplementsLeases` maps the initial states, and each
action to an action of `LeaseService` or a stutter. That a grant finds less than
`Limit` known leases follows from `SlotsAccounted`: known leases of a container
are leases of the one registered entry of its key. That a removal has a reason
follows from `LeasesCounted` (the cleanup sees the count) and from `Started` (a
replacement is made by a caller that waits); that nobody who soiled a container
leaves its residue, from `Tracked`. The end of a container by itself is `Stop`.
`Serving` are the hypotheses of `ResidueHasCleaner`, and `PoolFaults` is an
instance that satisfies them throughout.

*The ephemeral entry.* First requests see no entry and register over each other,
so `HealthyIsBacked` cannot rest on a lock. `OneOwner` says that of all entries
only one owns the container at a time, `Progress` and `Settled` that an entry
which somebody uses has left its start behind. `EphemeralImplementsLeases` has no
hypothesis: every step that takes the container away is a step of a caller that
is starting one, which `LeaseService` allows (`Replace`, `Refuse`), or of the
cleanup, which sees the count (`LeaseAccounting`). What leases execute soils the
container of their entry; it does not spread to the one that replaces it, because
an entry is `soiled` only by leases that were granted on it (`Used`). No isolation
is claimed: the service is the one where `Restored` is FALSE. That no more than
`MaxConcurrency` leases are known, although a request may lease without a slot
(`EphemeralLimit`), rests on the connections: the pool of the registered entry
has no more than that, and a known lease holds one of them.

*Executor.* `ExecInv` relates loop and transaction: pending changes belong to
earlier statements and exist only while the transaction is open, and a running
loop has seen no error. `RollbackLeavesNothing` adds that a request whose
statements all run in transactions has nothing durable at any moment.
`UndoCovers` is not inductive: `Reverses` adds that a transaction of a database
without DDL transactions holds no DDL (`NoneOpen`), that only a batch comes to
its `finally` block (`Paths`), and what a reported success says of the queue
(`Settled`). For the part of `ReverseLeavesNothing` about older state, `Blame`
says that a queued reverse finds the change of its statement unless that one
raised. `UndoOrder` is about single steps and needs only the types.

*Splitting.* Each branch of the loop either takes what it reads into the
statement, or ends the statement, or leaves out what it reads; `StepMoves` says
where the position is afterwards, literal by literal and comment by comment, and
that is `ScannerEnds`. `Piece` is a statement as an increasing map into the text
that misses only what may be left out (`LeftOut`). The invariant of the loop,
`Reads`, is that the statements so far and the current one are pieces of
neighbouring parts of the text; taking, skipping and stripping keep pieces, and
`StatementsAreTheText` is `Reads` at the end. It holds for texts that
`SplitAgrees` leaves out, with literals or comments that are not closed, but does
not say where a statement has to end. For that, `ContentsAreOpaque` says which
symbols cannot end one: those in a literal, a quoted identifier, a dollar text or
a comment that is closed. A literal is closed at the first quote that is not of a
doubled pair and not behind a backslash (`Closes`); `LiteralCloses` follows the
recursion of `AfterLiteral` from there back to the beginning of the literal, the
other cases are the least position at which a mark stands. What stays with TLC is
the whole: that lexemes in any order, and blocks with their `BEGIN`s and `END`s,
come out as the statements they say.

*Registry.* `RegistryInv` adds to `IndexesAgree` that a key in the index was
generated for the client it leads to (`IndexIsIssued`), that a code holds a key
generated for its client (`CodeIsIssued`), and that exchanged codes are marked.
`RevocationIsFinal` is about steps: a step that revokes a key takes it out of the
index, because the index holds current keys only (`IndexesAgree`), and none puts
it back, because new keys are ones that were never given out.
`TokenIsOwn` follows from the first two although neither mentions the other's
table.

*Gateway.* `MostSpecific` is a fact about operators. `ReplicasFacts` follows the
loop of the constructor node by node; `LookupSpecific` treats the three tiers:
declared prefixes of one version are prefixes of one another (`PrefixesAgree`),
so the longest, which exists because lengths are bounded, has all others as
prefixes. Both inductions are about sets of natural numbers (`LeastNat`,
`AllNat`), which the library's fact that `<` is well-founded gives without an
operator for a parameter. For the steps, `GatewayInv` adds which handlers a phase
belongs to (`Phases`), how far `forward()` has come in the list it was given
(`Trying`: all replicas before the current one have failed), that those still to
be tried have not executed anything (`Untried`; this is where it matters that no
node occurs twice in the list), that nodes which do not know a session execute
nothing (`Ignored`), that the search of `/messages` leaves only nodes behind which
failed, do not know the session or are hidden (`Searched`; while it asks the
replicas for node n, `SearchFor`, those still to come stand behind the one that is
asked, so that a 404 hides what it passes over), and that the merged list keeps up
with the answers (`Merged`).

*Host.* The processes and the cache are separate invariants, because a step of
one leaves the other alone or ends threads. `DaemonInv`: while a server that no
other overlapped is alive everybody else is unborn or gone (`RunsAlone`), and the
command under way, if it may still touch the file, is about this server
(`Named`). `CacheInv`: a file that is half written has a caller about to write
it, unless an extraction of that version broke off (`PartHeld`), for which a
caller's counter has to agree with the files it has made (`Progress`).
`PsuIsOwn` shows that whatever Nexus answers, the search for a patch leads to the
package of that version or to none.

*Only model-checked*: the liveness properties (the prover does not treat
fairness; `WaitingIsServed` and `NothingIsRetried` are their part about steps),
and `SplitAgrees`, whose reference definition is about sequences of lexemes and
would need an induction over their number and kinds. What the violation runs
refute has no theorem. That ephemeral requests meet what earlier ones left is not
refuted by a run; it is written into the service that they implement. The
properties above have no theorem where the hypotheses fail: after the first `shutdown`, and with removals that Docker refuses, `PoolLive`
checks what it lists and nothing is said about residue.

## 5. Not modelled

- `exclusive_lease` has no caller in the repository. Image building, the search
  for a port and the mounting of configuration files are Docker I/O.
- Residue across a restart: containers of an earlier process may be running in
  `Init` of `ContainerPool`, and are taken to be clean. The code reuses such a
  container without asking (container_pool.py:927), so residue that a crash left
  would stay.
- The compatibility map, the replacement of Unicode blanks (also inside
  literals, executor.py:48), result formatting, Dify and the bodies of REST and
  MCP requests: tables and strings without state.
- What a statement means to the database: whether it is `ddl` or `ddlOther` is
  chosen, and so is what the reverse of a `ddlOther` removes.
- Log rotation, and the deletion of old logs.
- `service.bat`, and the Windows branches of `main.py`.
- Two operators at once: a `--stop` that runs while somebody else starts a
  server can remove that server's file.

## 6. Plan

Modelled, in order of importance: `ContainerPool`, `EphemeralPool`, `Executor`,
`ClientRegistry`, `Gateway`, then `LeaseService` and the refinement, `Daemon`,
`NexusClient`, `PackageCache`, `NodeHost` and `Statements`. Nothing is left that
has state of its own and a caller in the repository.

Every invariant and action property of the passing runs, and both refinements,
are theorems, except `SplitAgrees`. Next, most important first:

1. An abstract specification of the executor's request (a container is given back
   as it was, or marked) with `TxnLeavesNothing` and `ReverseLeavesNothing` as
   its promise, and the refinement.
2. The same of the package cache: a version is absent, being made, complete or
   spoiled.
3. The same of blocks as `ContentsAreOpaque` says of literals: that a block is
   taken up to the semicolon at which its `END`s are as many as its `BEGIN`s.
