------------------------------- MODULE NodeHost -------------------------------
(***************************************************************************)
(* One host: the server processes and the PID file of Daemon, the requests *)
(* that the running process serves (src/routes, src/api.py), and the       *)
(* package cache that all processes of the host share.                     *)
(*                                                                         *)
(* Every request, and the prewarming of every process, is a caller of the  *)
(* cache in a thread of that process.  The thread of a request outlives    *)
(* the answer that it takes too long, and a process ends after its threads.*)
(***************************************************************************)
EXTENDS Naturals, FiniteSets, NexusClient

CONSTANTS
  Process, Stranger, NoProcess,           \* see Daemon
  Client,                                 \* clients with one request each
  Version, Configured, NoVersion, Files,  \* see PackageCache
  Event                                   \* see Events

Caller == Process \cup Client

VARIABLES file, phase, port, command, target, alone  \* Daemon
VARIABLES cache, at, want, load, written, spoiled     \* PackageCache
VARIABLES
  owner,  \* the process that serves each client
  answer, \* what the client knows of its request
  stream  \* processes with an open /sse stream

daemonVars == <<file, phase, port, command, target, alone>>
cacheVars == <<cache, at, want, load, written, spoiled>>
hostVars == <<owner, answer, stream>>
vars == <<daemonVars, cacheVars, hostVars>>

D == INSTANCE Daemon
P == INSTANCE PackageCache WITH Downloads <- FetchPackage("psu")

\* What can go wrong in both; with "stream", clients open the stream of /sse.
Events == D!Events \cup P!Events \cup {"stream"}

ASSUME HostAssumption ==
  /\ D!ProcessAssumption
  /\ P!CacheAssumption
  /\ Event \subseteq Events
  /\ Process \cap Client = {}

TypeOK ==
  /\ D!TypeOK
  /\ P!TypeOK
  /\ owner \in [Client -> Process \cup {NoProcess}]
  /\ answer \in [Client -> {"none", "waiting", "result", "timeout", "cut"}]
  /\ stream \subseteq Process

Init ==
  /\ D!Init
  /\ P!Init
  /\ owner = [c \in Client |-> NoProcess]
  /\ answer = [c \in Client |-> "none"]
  /\ stream = {}

Served(p) == {c \in Client : owner[c] = p}
Waiting(p) == {c \in Served(p) : answer[c] = "waiting"}
Threads(p) == {c \in Served(p) \cup {p} : ~P!Ended(c) /\ at[c] # "idle"}

(***************************************************************************)
(* The operator and the processes                                          *)
(***************************************************************************)
Others == UNCHANGED <<cacheVars, hostVars>>

Ask == D!Ask /\ Others

\* The threads of a process are joined before its event loop is closed.
CommandStep ==
  /\ D!CommandStep
  /\ \A p \in Process :
       phase[p] = "leaving" /\ phase'[p] = "gone" => Threads(p) = {}
  /\ Others

ChildWrites(p) == D!ChildWrites(p) /\ Others

\* lifespan(): pool.prewarm() starts a container of a configured version.
Startup(p) ==
  /\ D!Startup(p)
  /\ \E v \in Configured : P!PrepareBinaries(p, v)
  /\ UNCHANGED hostVars

Listen(p) == D!Listen(p) /\ P!Ended(p) /\ Others
StartFails(p) == D!StartFails(p) /\ Threads(p) = {} /\ Others

\* uvicorn closes when every request is answered and every stream closed.
StopServing(p) ==
  /\ D!StopServing(p)
  /\ Waiting(p) = {}
  /\ p \notin stream
  /\ Others

\* Mutant: the threads are daemons, which the end of the process ends.
Leave_Abandons(p) == D!Leave(p) /\ P!Gone(Threads(p)) /\ UNCHANGED hostVars

\* asyncio.run() joins the threads of to_thread() before finally is reached.
Leave(p) == D!Leave(p) /\ Threads(p) = {} /\ Others

Exit(p) == D!Exit(p) /\ Others

Crash(p) ==
  /\ D!Crash(p)
  /\ P!Killed(Threads(p))
  /\ answer' = [c \in Client |-> IF c \in Waiting(p) THEN "cut" ELSE answer[c]]
  /\ stream' = stream \ {p}
  /\ UNCHANGED owner

ProcessStep(p) ==
  \/ ChildWrites(p) \/ Startup(p) \/ Listen(p) \/ StartFails(p)
  \/ StopServing(p) \/ Leave(p) \/ Exit(p)

(***************************************************************************)
(* Requests                                                                *)
(***************************************************************************)
\* A request that needs a container of its own started (another compatibility
\* mode or configuration is another container), in a thread of its own.
Arrive(c) ==
  /\ answer[c] = "none"
  /\ port # NoProcess
  /\ owner' = [owner EXCEPT ![c] = port]
  /\ answer' = [answer EXCEPT ![c] = "waiting"]
  /\ \E v \in Version : P!PrepareBinaries(c, v)
  /\ UNCHANGED <<daemonVars, stream>>

Work(c) == P!CallerStep(c) /\ UNCHANGED <<daemonVars, hostVars>>

\* Mutant: what a thread raises is lost.
Reply_Success(c) ==
  /\ answer[c] = "waiting"
  /\ at[c] = "mounted"
  /\ answer' = [answer EXCEPT ![c] = "result"]
  /\ UNCHANGED <<daemonVars, cacheVars, owner, stream>>

Reply(c) ==
  /\ answer[c] = "waiting"
  /\ P!Ended(c)
  /\ answer' = [answer EXCEPT ![c] = "result"]
  /\ UNCHANGED <<daemonVars, cacheVars, owner, stream>>

\* The client is told of a timeout, the thread goes on.
QueryTimeout(c) ==
  /\ answer[c] = "waiting"
  /\ ~P!Ended(c)
  /\ answer' = [answer EXCEPT ![c] = "timeout"]
  /\ UNCHANGED <<daemonVars, cacheVars, owner, stream>>

OpenStream ==
  /\ "stream" \in Event
  /\ port # NoProcess
  /\ stream' = stream \cup {port}
  /\ UNCHANGED <<daemonVars, cacheVars, owner, answer>>

CloseStream(p) ==
  /\ p \in stream
  /\ stream' = stream \ {p}
  /\ UNCHANGED <<daemonVars, cacheVars, owner, answer>>

Next ==
  \/ Ask \/ CommandStep \/ OpenStream
  \/ \E p \in Process : ProcessStep(p) \/ Crash(p) \/ CloseStream(p)
  \/ \E c \in Caller : Work(c)
  \/ \E c \in Client : Arrive(c) \/ Reply(c) \/ QueryTimeout(c)

Spec == Init /\ [][Next]_vars

\* Processes, threads and a command that was given go on; nobody has to give
\* one, to crash, to ask, or to close a stream.
FairSpec ==
  /\ Spec
  /\ WF_vars(CommandStep)
  /\ \A p \in Process : WF_vars(ProcessStep(p))
  /\ \A c \in Caller : WF_vars(Work(c))
  /\ \A c \in Client : WF_vars(Reply(c))

(***************************************************************************)
(* Properties                                                              *)
(***************************************************************************)
AloneIsListed == D!AloneIsListed
PartialOnlyByFault == P!PartialOnlyByFault
CacheIsOwn == P!CacheIsOwn
MountedIsComplete == P!MountedIsComplete

\* A process that was told to stop ends, its requests answered and the threads
\* of those that timed out joined, unless a client keeps its stream open.
StopEnds ==
  \A p \in Process : phase[p] = "stopping" ~> (phase[p] = "gone" \/ p \in stream)
=============================================================================
