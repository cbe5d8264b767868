------------------------------- MODULE Daemon -------------------------------
(***************************************************************************)
(* src/main.py and service.sh: one operator starts, stops and restarts the *)
(* server through a PID file, processes of the server write and remove     *)
(* that file, and crash.                                                   *)
(*                                                                         *)
(* A process is named after its PID.  A step is one access to the file,    *)
(* one system call, or one phase of uvicorn.run() that others notice.      *)
(***************************************************************************)
EXTENDS Naturals, FiniteSets

CONSTANTS
  Process,   \* server processes, each started at most once
  Stranger,  \* a PID left in the file, of a program that is no server or gone
  NoProcess, \* an empty file, an idle operator
  Event      \* what the environment of this instance may do

Events ==
  { "crash",        \* a process is killed
    "startFails" }  \* a process does not get through its startup

\* Assumed by NodeHost.
ProcessAssumption ==
  /\ Stranger \notin Process
  /\ NoProcess \notin Process \cup {Stranger}

\* The file that main.py uses once the role is set, and that of service.sh.
File == {"mcp-node.pid", "mcp-server.pid"}
PidFile == "mcp-node.pid"
ScriptFile == "mcp-server.pid"

VARIABLES
  file,     \* the PID in each file
  phase,    \* what each process is doing
  port,     \* the process that listens
  command,  \* where the operator's command is
  target,   \* the process it works on
  alone     \* history: processes that no other server overlapped

vars == <<file, phase, port, command, target, alone>>

Phases == {"unborn", "born", "loading", "starting", "serving", "stopping", "leaving",
           "exiting", "gone", "other"}
Commands == {"none", "watch", "launch", "write", "stop", "signal", "wait"}

TypeOK ==
  /\ file \in [File -> Process \cup {Stranger, NoProcess}]
  /\ phase \in [Process \cup {Stranger} -> Phases]
  /\ port \in Process \cup {NoProcess}
  /\ command \in {<<c, again>> : c \in Commands, again \in BOOLEAN}
  /\ target \in Process \cup {Stranger, NoProcess}
  /\ alone \subseteq Process

\* The file of an earlier server may still be there, and its number in use.
Init ==
  /\ \E pid \in {NoProcess, Stranger}, stage \in {"other", "gone"} :
       /\ pid = NoProcess => stage = "gone"
       /\ file = [f \in File |-> IF f = PidFile THEN pid ELSE NoProcess]
       /\ phase = [p \in Process \cup {Stranger} |->
                     IF p = Stranger THEN stage ELSE "unborn"]
  /\ port = NoProcess
  /\ command = <<"none", FALSE>>
  /\ target = NoProcess
  /\ alone = {}

Running(p) == p # NoProcess /\ phase[p] \notin {"unborn", "gone"}
Servers == {p \in Process : Running(p)}

WritePid(p) == file' = [file EXCEPT ![PidFile] = p]
RemovePid == file' = [file EXCEPT ![PidFile] = NoProcess]

Become(p, stage) == phase' = [phase EXCEPT ![p] = stage]

\* The rest of a command: a restart goes on with the start.
Continue(c) == command' = <<c, command[2]>>
Finish == command' = <<"none", FALSE>> /\ target' = NoProcess

(***************************************************************************)
(* The operator: --daemon, --stop, --restart and service.sh                *)
(***************************************************************************)
Born(p) ==
  /\ phase[p] = "unborn"
  /\ Become(p, "born")
  /\ alone' = IF Servers = {} THEN alone \cup {p} ELSE alone \ Servers
  /\ target' = p

\* run_daemon(): the child is spawned whatever runs already ...
Spawn(p) == Born(p) /\ command' = <<"write", FALSE>>

Start(p) ==
  /\ command[1] = "none"
  /\ Spawn(p)
  /\ UNCHANGED <<file, port>>

\* A server in the foreground: no parent writes its PID.  The operator waits
\* for its first output.
Foreground(p) ==
  /\ command[1] = "none"
  /\ Born(p)
  /\ command' = <<"watch", FALSE>>
  /\ UNCHANGED <<file, port>>

Watched ==
  /\ command[1] = "watch"
  /\ phase[target] # "born"
  /\ Finish
  /\ UNCHANGED <<file, phase, port, alone>>

\* service.sh start looks for a running server in a file of its own.
ServiceStart(p) ==
  /\ command[1] = "none"
  /\ ~Running(file[ScriptFile])
  /\ file' = [file EXCEPT ![ScriptFile] = NoProcess]
  /\ Spawn(p)
  /\ UNCHANGED port

\* A stop begins by reading the file.
Stop ==
  /\ command[1] = "none"
  /\ file[PidFile] # NoProcess
  /\ command' = <<"signal", FALSE>>
  /\ target' = file[PidFile]
  /\ UNCHANGED <<file, phase, port, alone>>

\* A restart stops the server that the file names, if it runs, ...
Restart ==
  /\ command[1] = "none"
  /\ command' = <<IF Running(file[PidFile]) THEN "stop" ELSE "launch", TRUE>>
  /\ UNCHANGED <<file, phase, port, target, alone>>

\* ... for which the file is read again, ...
ReadPid ==
  /\ command[1] = "stop"
  /\ file[PidFile] # NoProcess
  /\ target' = file[PidFile]
  /\ Continue("signal")
  /\ UNCHANGED <<file, phase, port, alone>>

NothingToStop ==
  /\ command[1] = "stop"
  /\ file[PidFile] = NoProcess
  /\ Finish
  /\ UNCHANGED <<file, phase, port, alone>>

\* ... and goes on with a start.
Launch(p) ==
  /\ command[1] = "launch"
  /\ Spawn(p)
  /\ UNCHANGED <<file, port>>

\* ... and its PID written by the parent, too.
ParentWrites ==
  /\ command[1] = "write"
  /\ WritePid(target)
  /\ Finish
  /\ UNCHANGED <<phase, port, alone>>

RemoveStale ==
  /\ command[1] = "signal"
  /\ ~Running(target)
  /\ RemovePid
  /\ Finish
  /\ UNCHANGED <<phase, port, alone>>

\* What SIGTERM does to a process: it dies before uvicorn handles signals and
\* once its event loop is closed, and is told to stop between.
Signalled(stage) ==
  CASE stage \in {"born", "loading", "other"} -> {"gone"}
    [] stage = "starting" -> {"leaving"}
    [] stage = "serving" -> {"stopping"}
    [] stage = "stopping" -> {"stopping"}
    [] stage \in {"leaving", "exiting"} -> {stage, "gone"}

\* A process that stops no longer listens.
Signal ==
  /\ command[1] = "signal"
  /\ Running(target)
  /\ \E stage \in Signalled(phase[target]) : Become(target, stage)
  /\ port' = IF port = target THEN NoProcess ELSE port
  /\ Continue("wait")
  /\ UNCHANGED <<file, target, alone>>

Stopped ==
  /\ command[1] = "wait"
  /\ ~Running(target)
  /\ RemovePid
  /\ target' = NoProcess
  /\ command' = <<IF command[2] THEN "launch" ELSE "none", FALSE>>
  /\ UNCHANGED <<phase, port, alone>>

\* The process did not exit within 10 s: the command fails, restart included.
StopTimeout ==
  /\ command[1] = "wait"
  /\ Running(target)
  /\ Finish
  /\ UNCHANGED <<file, phase, port, alone>>

\* Bound: the instance has no process left to start.
NoneLeft ==
  /\ command[1] = "launch"
  /\ \A p \in Process : phase[p] # "unborn"
  /\ Finish
  /\ UNCHANGED <<file, phase, port, alone>>

(***************************************************************************)
(* The server process: run_server() around uvicorn.run()                   *)
(***************************************************************************)
\* Mutant: the parent is left to write the file.
ChildWrites_ParentOnly(p) ==
  /\ phase[p] = "born"
  /\ Become(p, "loading")
  /\ UNCHANGED <<file, port, command, target, alone>>

ChildWrites(p) ==
  /\ phase[p] = "born"
  /\ WritePid(p)
  /\ Become(p, "loading")
  /\ UNCHANGED <<port, command, target, alone>>

\* uvicorn handles signals; lifespan() loads the configuration and prewarms.
Startup(p) ==
  /\ phase[p] = "loading"
  /\ Become(p, "starting")
  /\ UNCHANGED <<file, port, command, target, alone>>

\* Then the port is bound.
Listen(p) ==
  /\ phase[p] = "starting"
  /\ port = NoProcess
  /\ port' = p
  /\ Become(p, "serving")
  /\ UNCHANGED <<file, command, target, alone>>

\* The configuration cannot be loaded, or the port is taken.
StartFails(p) ==
  /\ \/ phase[p] = "loading" /\ "startFails" \in Event
     \/ phase[p] = "starting" /\ port # NoProcess
  /\ Become(p, "leaving")
  /\ UNCHANGED <<file, port, command, target, alone>>

\* Handlers are waited for, then lifespan() shuts the pool down.
StopServing(p) ==
  /\ phase[p] = "stopping"
  /\ Become(p, "leaving")
  /\ UNCHANGED <<file, port, command, target, alone>>

\* The finally clause removes the file, whoever is named in it.
Leave(p) ==
  /\ phase[p] = "leaving"
  /\ RemovePid
  /\ Become(p, "exiting")
  /\ UNCHANGED <<port, command, target, alone>>

\* The interpreter ends.
Exit(p) ==
  /\ phase[p] = "exiting"
  /\ Become(p, "gone")
  /\ UNCHANGED <<file, port, command, target, alone>>

Crash(p) ==
  /\ "crash" \in Event
  /\ Running(p)
  /\ Become(p, "gone")
  /\ port' = IF port = p THEN NoProcess ELSE port
  /\ UNCHANGED <<file, command, target, alone>>

Ask ==
  \/ Stop \/ Restart
  \/ \E p \in Process : Start(p) \/ Foreground(p) \/ ServiceStart(p)

CommandStep ==
  \/ \E p \in Process : Launch(p)
  \/ Watched \/ ParentWrites \/ NothingToStop \/ ReadPid \/ RemoveStale
  \/ Signal \/ Stopped \/ StopTimeout \/ NoneLeft

(***************************************************************************)
(* Safety                                                                  *)
(***************************************************************************)
\* A server that no other overlapped is the one that --stop and --restart find,
\* although parent, child, a stop and an earlier server that leaves late all
\* write or remove the file, and whatever number a crash left in it.
AloneIsListed ==
  \A p \in alone : phase[p] = "serving" => file[PidFile] = p
=============================================================================
