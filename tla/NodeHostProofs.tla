---------------------------- MODULE NodeHostProofs ----------------------------
(***************************************************************************)
(* Proofs about NodeHost, for any number of processes, of clients and of   *)
(* files in a package.  A step of the host is a step of Daemon, of         *)
(* PackageCache or of both, and each part has an invariant of its own.     *)
(***************************************************************************)
EXTENDS NodeHost, TLAPS

(***************************************************************************)
(* The processes and the PID file                                          *)
(***************************************************************************)
\* A server that no other overlapped runs alone.
RunsAlone ==
  \A p \in alone :
    /\ phase[p] # "unborn"
    /\ phase[p] # "gone" => \A q \in Process \ {p} : phase[q] \in {"unborn", "gone"}

\* Until it removes the file, the command under way is about this server, and
\* the file names it, unless it was born just now and whoever started it still
\* waits for it or has to write the file.
Named ==
  \A p \in alone :
    phase[p] \notin {"exiting", "gone"} =>
      /\ command[1] \in {"watch", "write", "signal", "wait"} => target = p
      /\ \/ file[D!PidFile] = p
         \/ phase[p] = "born" /\ command[1] \in {"watch", "write"}

\* The inductive invariant of the processes.
DaemonInv == D!TypeOK /\ RunsAlone /\ Named

(***************************************************************************)
(* The package cache                                                       *)
(***************************************************************************)
\* A caller on its way asks for a listed version, and what it has downloaded is
\* the package of that version or no archive.
Fetches ==
  \A c \in Caller :
    /\ at[c] \in {"check", "fetch", "unpack", "truncate", "write"} => want[c] \in Version
    /\ at[c] = "unpack" => load[c] \in {"own", "broken"}
    /\ P!Extracting(c) => load[c] = "own"

\* A caller that extracts has put every file up to its own into the cache.
Progress ==
  \A c \in Caller :
    /\ at[c] \in {"idle", "check", "fetch", "unpack"} => written[c] = 0
    /\ P!Extracting(c) =>
         /\ written[c] < Files
         /\ \A f \in 1..written[c] : cache[want[c]][f] # "absent"
    /\ at[c] = "write" => cache[want[c]][written[c] + 1] # "absent"

\* A file that is truncated is about to be written by a caller, unless an
\* extraction of its version broke off.
PartHeld ==
  \A v \in Version \ spoiled, f \in P!File :
    cache[v][f] = "part" =>
      \E c \in Caller : at[c] = "write" /\ want[c] = v /\ written[c] + 1 = f

\* The inductive invariant of the cache.
CacheInv ==
  /\ P!TypeOK /\ Fetches /\ Progress /\ PartHeld
  /\ PartialOnlyByFault /\ CacheIsOwn

(***************************************************************************)
(* The processes and the PID file: the proofs                              *)
(***************************************************************************)
\* What a step of the host does to the processes and the file.
DaemonNext ==
  \/ D!Ask \/ D!CommandStep
  \/ \E p \in Process :
       \/ D!ChildWrites(p) \/ D!Startup(p) \/ D!Listen(p) \/ D!StartFails(p)
       \/ D!StopServing(p) \/ D!Leave(p) \/ D!Exit(p) \/ D!Crash(p)
  \/ UNCHANGED daemonVars

\* A step of the host is one of Daemon or leaves its variables alone.
LEMMA DaemonPart ==
  ASSUME [Next]_vars
  PROVE  DaemonNext
<1>1. CASE Ask \/ CommandStep
  BY <1>1 DEF Ask, CommandStep, DaemonNext
<1>2. ASSUME NEW p \in Process, ProcessStep(p) \/ Crash(p)
      PROVE  DaemonNext
  BY <1>2 DEF ProcessStep, ChildWrites, Startup, Listen, StartFails, StopServing, Leave, Exit,
              Crash, DaemonNext
<1>3. CASE UNCHANGED daemonVars
  BY <1>3 DEF DaemonNext
<1> QED
  BY <1>1, <1>2, <1>3 DEF Next, OpenStream, CloseStream, Work, Arrive, Reply, QueryTimeout, vars

\* The types of everything but the command.
Typed ==
  /\ file \in [D!File -> Process \cup {Stranger, NoProcess}]
  /\ phase \in [Process \cup {Stranger} -> D!Phases]
  /\ port \in Process \cup {NoProcess}
  /\ target \in Process \cup {Stranger, NoProcess}
  /\ alone \subseteq Process

\* The processes keep their types.
LEMMA TypedStep ==
  ASSUME DaemonInv, DaemonNext
  PROVE  Typed'
<1>0. Typed /\ Stranger \notin Process /\ NoProcess \notin Process \cup {Stranger}
  BY HostAssumption DEF DaemonInv, D!TypeOK, Typed, D!ProcessAssumption
<1> USE DEF Typed, D!Phases, D!File, D!PidFile, D!ScriptFile, D!Become, D!Running, D!Servers
<1>1. CASE D!Stop
  BY <1>0, <1>1 DEF D!Stop
<1>2. CASE D!Restart
  BY <1>0, <1>2 DEF D!Restart
<1>3. CASE D!Watched
  BY <1>0, <1>3 DEF D!Watched, D!Finish
<1>4. CASE D!ParentWrites
  BY <1>0, <1>4 DEF D!ParentWrites, D!WritePid, D!Finish
<1>5. CASE D!NothingToStop
  BY <1>0, <1>5 DEF D!NothingToStop, D!Finish
<1>6. CASE D!ReadPid
  BY <1>0, <1>6 DEF D!ReadPid, D!Continue
<1>7. CASE D!RemoveStale
  BY <1>0, <1>7 DEF D!RemoveStale, D!RemovePid, D!Finish
<1>8. CASE D!Signal
  BY <1>0, <1>8 DEF D!Signal, D!Signalled, D!Continue
<1>9. CASE D!Stopped
  BY <1>0, <1>9 DEF D!Stopped, D!RemovePid
<1>10. CASE D!StopTimeout
  BY <1>0, <1>10 DEF D!StopTimeout, D!Finish
<1>11. CASE D!NoneLeft
  BY <1>0, <1>11 DEF D!NoneLeft, D!Finish
<1>12. ASSUME NEW p \in Process, D!Start(p) PROVE Typed'
  BY <1>0, <1>12 DEF D!Start, D!Spawn, D!Born
<1>13. ASSUME NEW p \in Process, D!Foreground(p) PROVE Typed'
  BY <1>0, <1>13 DEF D!Foreground, D!Born
<1>14. ASSUME NEW p \in Process, D!ServiceStart(p) PROVE Typed'
  BY <1>0, <1>14 DEF D!ServiceStart, D!Spawn, D!Born
<1>15. ASSUME NEW p \in Process, D!Launch(p) PROVE Typed'
  BY <1>0, <1>15 DEF D!Launch, D!Spawn, D!Born
<1>16. ASSUME NEW p \in Process, D!ChildWrites(p) PROVE Typed'
  BY <1>0, <1>16 DEF D!ChildWrites, D!WritePid
<1>17. ASSUME NEW p \in Process, D!Startup(p) PROVE Typed'
  BY <1>0, <1>17 DEF D!Startup
<1>18. ASSUME NEW p \in Process, D!Listen(p) PROVE Typed'
  BY <1>0, <1>18 DEF D!Listen
<1>19. ASSUME NEW p \in Process, D!StartFails(p) PROVE Typed'
  BY <1>0, <1>19 DEF D!StartFails
<1>20. ASSUME NEW p \in Process, D!StopServing(p) PROVE Typed'
  BY <1>0, <1>20 DEF D!StopServing
<1>21. ASSUME NEW p \in Process, D!Leave(p) PROVE Typed'
  BY <1>0, <1>21 DEF D!Leave, D!RemovePid
<1>22. ASSUME NEW p \in Process, D!Exit(p) PROVE Typed'
  BY <1>0, <1>22 DEF D!Exit
<1>23. ASSUME NEW p \in Process, D!Crash(p) PROVE Typed'
  BY <1>0, <1>23 DEF D!Crash
<1>24. CASE UNCHANGED daemonVars
  BY <1>0, <1>24 DEF daemonVars
<1> QED
  BY <1>1, <1>2, <1>3, <1>4, <1>5, <1>6, <1>7, <1>8, <1>9, <1>10, <1>11, <1>12, <1>13, <1>14,
     <1>15, <1>16, <1>17, <1>18, <1>19, <1>20, <1>21, <1>22, <1>23, <1>24
     DEF DaemonNext, D!Ask, D!CommandStep

\* A command is a pair of its stage and of whether a start follows.
LEMMA CommandTypeStep ==
  ASSUME DaemonInv, DaemonNext
  PROVE  command' \in {<<c, again>> : c \in D!Commands, again \in BOOLEAN}
<1> DEFINE Pairs == {<<c, again>> : c \in D!Commands, again \in BOOLEAN}
<1>0. /\ command \in Pairs /\ command[2] \in BOOLEAN
      /\ \A again \in BOOLEAN :
           /\ <<"none", again>> \in Pairs /\ <<"watch", again>> \in Pairs
           /\ <<"launch", again>> \in Pairs /\ <<"write", again>> \in Pairs
           /\ <<"stop", again>> \in Pairs /\ <<"signal", again>> \in Pairs
           /\ <<"wait", again>> \in Pairs
  BY DEF DaemonInv, D!TypeOK, D!Commands
<1> SUFFICES command' \in Pairs
  OBVIOUS
<1> HIDE DEF Pairs
<1> USE DEF D!Become
<1>1. CASE D!Stop
  BY <1>0, <1>1 DEF D!Stop
<1>2. CASE D!Restart
  BY <1>0, <1>2 DEF D!Restart
<1>3. CASE D!Watched
  BY <1>0, <1>3 DEF D!Watched, D!Finish
<1>4. CASE D!ParentWrites
  BY <1>0, <1>4 DEF D!ParentWrites, D!WritePid, D!Finish
<1>5. CASE D!NothingToStop
  BY <1>0, <1>5 DEF D!NothingToStop, D!Finish
<1>6. CASE D!ReadPid
  BY <1>0, <1>6 DEF D!ReadPid, D!Continue
<1>7. CASE D!RemoveStale
  BY <1>0, <1>7 DEF D!RemoveStale, D!RemovePid, D!Finish
<1>8. CASE D!Signal
  BY <1>0, <1>8 DEF D!Signal, D!Signalled, D!Continue
<1>9. CASE D!Stopped
  BY <1>0, <1>9 DEF D!Stopped, D!RemovePid
<1>10. CASE D!StopTimeout
  BY <1>0, <1>10 DEF D!StopTimeout, D!Finish
<1>11. CASE D!NoneLeft
  BY <1>0, <1>11 DEF D!NoneLeft, D!Finish
<1>12. ASSUME NEW p \in Process, D!Start(p) PROVE command' \in Pairs
  BY <1>0, <1>12 DEF D!Start, D!Spawn, D!Born
<1>13. ASSUME NEW p \in Process, D!Foreground(p) PROVE command' \in Pairs
  BY <1>0, <1>13 DEF D!Foreground, D!Born
<1>14. ASSUME NEW p \in Process, D!ServiceStart(p) PROVE command' \in Pairs
  BY <1>0, <1>14 DEF D!ServiceStart, D!Spawn, D!Born
<1>15. ASSUME NEW p \in Process, D!Launch(p) PROVE command' \in Pairs
  BY <1>0, <1>15 DEF D!Launch, D!Spawn, D!Born
<1>16. ASSUME NEW p \in Process, D!ChildWrites(p) PROVE command' \in Pairs
  BY <1>0, <1>16 DEF D!ChildWrites, D!WritePid
<1>17. ASSUME NEW p \in Process, D!Startup(p) PROVE command' \in Pairs
  BY <1>0, <1>17 DEF D!Startup
<1>18. ASSUME NEW p \in Process, D!Listen(p) PROVE command' \in Pairs
  BY <1>0, <1>18 DEF D!Listen
<1>19. ASSUME NEW p \in Process, D!StartFails(p) PROVE command' \in Pairs
  BY <1>0, <1>19 DEF D!StartFails
<1>20. ASSUME NEW p \in Process, D!StopServing(p) PROVE command' \in Pairs
  BY <1>0, <1>20 DEF D!StopServing
<1>21. ASSUME NEW p \in Process, D!Leave(p) PROVE command' \in Pairs
  BY <1>0, <1>21 DEF D!Leave, D!RemovePid
<1>22. ASSUME NEW p \in Process, D!Exit(p) PROVE command' \in Pairs
  BY <1>0, <1>22 DEF D!Exit
<1>23. ASSUME NEW p \in Process, D!Crash(p) PROVE command' \in Pairs
  BY <1>0, <1>23 DEF D!Crash
<1>24. CASE UNCHANGED daemonVars
  BY <1>0, <1>24 DEF daemonVars
<1> QED
  BY <1>1, <1>2, <1>3, <1>4, <1>5, <1>6, <1>7, <1>8, <1>9, <1>10, <1>11, <1>12, <1>13, <1>14,
     <1>15, <1>16, <1>17, <1>18, <1>19, <1>20, <1>21, <1>22, <1>23, <1>24
     DEF DaemonNext, D!Ask, D!CommandStep

\* Whoever is born while a server runs takes its place among the lone ones away.
LEMMA RunsAloneStep ==
  ASSUME DaemonInv, DaemonNext
  PROVE  RunsAlone'
<1>0. /\ RunsAlone
      /\ phase \in [Process \cup {Stranger} -> D!Phases]
      /\ alone \subseteq Process
      /\ target \in Process \cup {Stranger, NoProcess} /\ NoProcess \notin Process \cup {Stranger}
  BY HostAssumption DEF DaemonInv, D!TypeOK, D!ProcessAssumption
<1> USE DEF RunsAlone, D!Become, D!Running, D!Servers
<1>1. CASE D!Stop
  BY <1>0, <1>1 DEF D!Stop
<1>2. CASE D!Restart
  BY <1>0, <1>2 DEF D!Restart
<1>3. CASE D!Watched
  BY <1>0, <1>3 DEF D!Watched, D!Finish
<1>4. CASE D!ParentWrites
  BY <1>0, <1>4 DEF D!ParentWrites, D!WritePid, D!Finish
<1>5. CASE D!NothingToStop
  BY <1>0, <1>5 DEF D!NothingToStop, D!Finish
<1>6. CASE D!ReadPid
  BY <1>0, <1>6 DEF D!ReadPid, D!Continue
<1>7. CASE D!RemoveStale
  BY <1>0, <1>7 DEF D!RemoveStale, D!RemovePid, D!Finish
<1>8. CASE D!Signal
  BY <1>0, <1>8 DEF D!Signal, D!Signalled, D!Continue, D!Phases
<1>9. CASE D!Stopped
  BY <1>0, <1>9 DEF D!Stopped, D!RemovePid
<1>10. CASE D!StopTimeout
  BY <1>0, <1>10 DEF D!StopTimeout, D!Finish
<1>11. CASE D!NoneLeft
  BY <1>0, <1>11 DEF D!NoneLeft, D!Finish
<1>12. ASSUME NEW p \in Process, D!Start(p) PROVE RunsAlone'
  BY <1>0, <1>12 DEF D!Start, D!Spawn, D!Born
<1>13. ASSUME NEW p \in Process, D!Foreground(p) PROVE RunsAlone'
  BY <1>0, <1>13 DEF D!Foreground, D!Born
<1>14. ASSUME NEW p \in Process, D!ServiceStart(p) PROVE RunsAlone'
  BY <1>0, <1>14 DEF D!ServiceStart, D!Spawn, D!Born
<1>15. ASSUME NEW p \in Process, D!Launch(p) PROVE RunsAlone'
  BY <1>0, <1>15 DEF D!Launch, D!Spawn, D!Born
<1>16. ASSUME NEW p \in Process, D!ChildWrites(p) PROVE RunsAlone'
  BY <1>0, <1>16 DEF D!ChildWrites, D!WritePid
<1>17. ASSUME NEW p \in Process, D!Startup(p) PROVE RunsAlone'
  BY <1>0, <1>17 DEF D!Startup
<1>18. ASSUME NEW p \in Process, D!Listen(p) PROVE RunsAlone'
  BY <1>0, <1>18 DEF D!Listen
<1>19. ASSUME NEW p \in Process, D!StartFails(p) PROVE RunsAlone'
  BY <1>0, <1>19 DEF D!StartFails
<1>20. ASSUME NEW p \in Process, D!StopServing(p) PROVE RunsAlone'
  BY <1>0, <1>20 DEF D!StopServing
<1>21. ASSUME NEW p \in Process, D!Leave(p) PROVE RunsAlone'
  BY <1>0, <1>21 DEF D!Leave, D!RemovePid
<1>22. ASSUME NEW p \in Process, D!Exit(p) PROVE RunsAlone'
  BY <1>0, <1>22 DEF D!Exit
<1>23. ASSUME NEW p \in Process, D!Crash(p) PROVE RunsAlone'
  BY <1>0, <1>23 DEF D!Crash
<1>24. CASE UNCHANGED daemonVars
  BY <1>0, <1>24 DEF daemonVars
<1> QED
  BY <1>1, <1>2, <1>3, <1>4, <1>5, <1>6, <1>7, <1>8, <1>9, <1>10, <1>11, <1>12, <1>13, <1>14,
     <1>15, <1>16, <1>17, <1>18, <1>19, <1>20, <1>21, <1>22, <1>23, <1>24
     DEF DaemonNext, D!Ask, D!CommandStep

\* The command under way is about the lone server, and so is the file.
LEMMA NamedStep ==
  ASSUME DaemonInv, DaemonNext
  PROVE  Named'
<1>0. /\ RunsAlone /\ Named
      /\ phase \in [Process \cup {Stranger} -> D!Phases]
      /\ file \in [D!File -> Process \cup {Stranger, NoProcess}]
      /\ alone \subseteq Process
      /\ Stranger \notin Process /\ NoProcess \notin Process \cup {Stranger}
      /\ \A c, again : <<c, again>>[1] = c
  BY HostAssumption DEF DaemonInv, D!TypeOK, D!ProcessAssumption
<1> USE DEF RunsAlone, Named, D!File, D!PidFile, D!ScriptFile, D!Become, D!Running, D!Servers
<1>1. CASE D!Stop
  BY <1>0, <1>1 DEF D!Stop
<1>2. CASE D!Restart
  BY <1>0, <1>2 DEF D!Restart
<1>3. CASE D!Watched
  BY <1>0, <1>3 DEF D!Watched, D!Finish
<1>4. CASE D!ParentWrites
  BY <1>0, <1>4 DEF D!ParentWrites, D!WritePid, D!Finish
<1>5. CASE D!NothingToStop
  BY <1>0, <1>5 DEF D!NothingToStop, D!Finish
<1>6. CASE D!ReadPid
  BY <1>0, <1>6 DEF D!ReadPid, D!Continue
<1>7. CASE D!RemoveStale
  BY <1>0, <1>7 DEF D!RemoveStale, D!RemovePid, D!Finish
<1>8. CASE D!Signal
  BY <1>0, <1>8 DEF D!Signal, D!Signalled, D!Continue
<1>9. CASE D!Stopped
  BY <1>0, <1>9 DEF D!Stopped, D!RemovePid
<1>10. CASE D!StopTimeout
  BY <1>0, <1>10 DEF D!StopTimeout, D!Finish
<1>11. CASE D!NoneLeft
  BY <1>0, <1>11 DEF D!NoneLeft, D!Finish
<1>12. ASSUME NEW p \in Process, D!Start(p) PROVE Named'
  BY <1>0, <1>12 DEF D!Start, D!Spawn, D!Born
<1>13. ASSUME NEW p \in Process, D!Foreground(p) PROVE Named'
  BY <1>0, <1>13 DEF D!Foreground, D!Born
<1>14. ASSUME NEW p \in Process, D!ServiceStart(p) PROVE Named'
  BY <1>0, <1>14 DEF D!ServiceStart, D!Spawn, D!Born
<1>15. ASSUME NEW p \in Process, D!Launch(p) PROVE Named'
  BY <1>0, <1>15 DEF D!Launch, D!Spawn, D!Born
<1>16. ASSUME NEW p \in Process, D!ChildWrites(p) PROVE Named'
  BY <1>0, <1>16 DEF D!ChildWrites, D!WritePid
<1>17. ASSUME NEW p \in Process, D!Startup(p) PROVE Named'
  BY <1>0, <1>17 DEF D!Startup
<1>18. ASSUME NEW p \in Process, D!Listen(p) PROVE Named'
  BY <1>0, <1>18 DEF D!Listen
<1>19. ASSUME NEW p \in Process, D!StartFails(p) PROVE Named'
  BY <1>0, <1>19 DEF D!StartFails
<1>20. ASSUME NEW p \in Process, D!StopServing(p) PROVE Named'
  BY <1>0, <1>20 DEF D!StopServing
<1>21. ASSUME NEW p \in Process, D!Leave(p) PROVE Named'
  BY <1>0, <1>21 DEF D!Leave, D!RemovePid
<1>22. ASSUME NEW p \in Process, D!Exit(p) PROVE Named'
  BY <1>0, <1>22 DEF D!Exit
<1>23. ASSUME NEW p \in Process, D!Crash(p) PROVE Named'
  BY <1>0, <1>23 DEF D!Crash
<1>24. CASE UNCHANGED daemonVars
  BY <1>0, <1>24 DEF daemonVars
<1> QED
  BY <1>1, <1>2, <1>3, <1>4, <1>5, <1>6, <1>7, <1>8, <1>9, <1>10, <1>11, <1>12, <1>13, <1>14,
     <1>15, <1>16, <1>17, <1>18, <1>19, <1>20, <1>21, <1>22, <1>23, <1>24
     DEF DaemonNext, D!Ask, D!CommandStep

(***************************************************************************)
(* The package cache: the proofs                                           *)
(***************************************************************************)
\* What a step of the host does to the cache and its callers.
CacheNext ==
  \/ \E c \in Caller, v \in Version : P!PrepareBinaries(c, v)
  \/ \E c \in Caller : P!CallerStep(c)
  \/ \E S \in SUBSET Caller : P!Killed(S)
  \/ UNCHANGED cacheVars

\* A step of the host is one of PackageCache or leaves its variables alone.
LEMMA CachePart ==
  ASSUME [Next]_vars
  PROVE  CacheNext
<1>1. ASSUME NEW p \in Process, Startup(p) PROVE CacheNext
  BY <1>1, HostAssumption DEF Startup, CacheNext, Caller, P!CacheAssumption
<1>2. ASSUME NEW p \in Process, Crash(p) PROVE CacheNext
  <2>1. Threads(p) \subseteq Caller
    BY DEF Threads, Served, Caller
  <2> QED
    BY <1>2, <2>1 DEF Crash, CacheNext
<1>3. ASSUME NEW c \in Caller, Work(c) PROVE CacheNext
  BY <1>3 DEF Work, CacheNext
<1>4. ASSUME NEW c \in Client, Arrive(c) PROVE CacheNext
  BY <1>4 DEF Arrive, CacheNext, Caller
<1>5. CASE UNCHANGED cacheVars
  BY <1>5 DEF CacheNext
<1> QED
  BY <1>1, <1>2, <1>3, <1>4, <1>5
     DEF Next, Ask, CommandStep, OpenStream, CloseStream, Reply, QueryTimeout, Others, vars,
         ProcessStep, ChildWrites, Listen, StartFails, StopServing, Leave, Exit

\* What a list holds, the first entry that passes a filter is one of it.
LEMMA FirstOfFacts ==
  ASSUME NEW S, NEW n \in 0..2, NEW found, DOMAIN found \subseteq 1..n,
         \A i \in DOMAIN found : found[i] \in S
  PROVE  FirstOf(found) \in S \cup {"none"}
<1>1. CASE DOMAIN found = {}
  BY <1>1 DEF FirstOf
<1>2. CASE DOMAIN found # {}
  <2>1. PICK m \in DOMAIN found : \A i \in DOMAIN found : m <= i
    BY <1>2
  <2>2. Min(DOMAIN found) \in DOMAIN found
    BY <2>1 DEF Min
  <2> QED
    BY <1>2, <2>2 DEF FirstOf
<1> QED
  BY <1>1, <1>2

\* The search of a patch directory answers with the package of the version or
\* with no archive, whatever the server says and in whatever order.
LEMMA PsuIsOwn == FetchPackage("psu") \subseteq {"own", "broken", "none"}
<1> SUFFICES ASSUME NEW rest \in Answer, NEW page \in Page
             PROVE  Download(FirstOf(RestrictValues(ListDirectory(rest, page), MatchesPattern)))
                      \subseteq {"own", "broken", "none"}
  BY DEF FetchPackage, FetchPsuPackage
<1> DEFINE listed == ListDirectory(rest, page)
           found == RestrictValues(listed, MatchesPattern)
<1>1. PICK n \in 0..2 :
        /\ DOMAIN listed \subseteq 1..n
        /\ \A i \in DOMAIN listed : listed[i] \in {"own", "checksum"}
  <2>1. PICK n \in 0..2 : RestSearch(rest) \in [1..n -> Assets]
    BY DEF Answer, UpToTwo, RestSearch, Error
  <2>2. PICK m \in 0..2 : RestSearch(page) \in [1..m -> {"own", "checksum"}]
    BY DEF Page, UpToTwo, RestSearch, Error
  <2> QED
    BY <2>1, <2>2 DEF ListDirectory, RestrictValues, Restrict
<1> HIDE DEF listed
<1>2. DOMAIN found \subseteq 1..n /\ \A i \in DOMAIN found : found[i] \in {"own", "checksum"}
  BY <1>1 DEF RestrictValues, Restrict
<1> HIDE DEF found
<1>3. FirstOf(found) \in {"own", "checksum"} \cup {"none"}
  BY <1>2, FirstOfFacts
<1> QED
  BY <1>3 DEF found, listed, Download

\* The cache and its callers keep their types.
LEMMA CacheTypeStep ==
  ASSUME CacheInv, CacheNext
  PROVE  P!TypeOK'
<1>0. CacheInv /\ NoVersion \notin Version /\ Files \in Nat \ {0}
  BY HostAssumption DEF P!CacheAssumption
<1> USE DEF CacheInv, P!TypeOK, P!Steps, P!File, P!Extracting, P!Loads, Fetches, Progress
<1>1. ASSUME NEW c \in Caller, NEW v \in Version, P!PrepareBinaries(c, v) PROVE P!TypeOK'
  BY <1>0, <1>1, ZenonT(40) DEF P!PrepareBinaries, P!NexusVersion, P!Go, P!End, P!Ended
<1>2. ASSUME NEW c \in Caller, P!Cached(c) PROVE P!TypeOK'
  BY <1>0, <1>2 DEF P!Cached, P!End, P!Ended
<1>3. ASSUME NEW c \in Caller, P!NotCached(c) PROVE P!TypeOK'
  BY <1>0, <1>3 DEF P!NotCached, P!Go
<1>4. ASSUME NEW c \in Caller, P!Fetch(c) PROVE P!TypeOK'
  BY <1>0, <1>4, PsuIsOwn DEF P!Fetch
<1>5. ASSUME NEW c \in Caller, P!FetchFails(c) PROVE P!TypeOK'
  BY <1>0, <1>5 DEF P!FetchFails, P!End, P!Ended
<1>6. ASSUME NEW c \in Caller, P!Unpack(c) PROVE P!TypeOK'
  BY <1>0, <1>6 DEF P!Unpack, P!Go
<1>7. ASSUME NEW c \in Caller, P!UnpackFails(c) PROVE P!TypeOK'
  BY <1>0, <1>7 DEF P!UnpackFails, P!End, P!Ended
<1>8. ASSUME NEW c \in Caller, P!Truncate(c) PROVE P!TypeOK'
  BY <1>0, <1>8 DEF P!Truncate, P!Put, P!Go
<1>9. ASSUME NEW c \in Caller, P!Write(c) PROVE P!TypeOK'
  <2>1. /\ at[c] = "write" /\ load[c] = "own" /\ written[c] \in 0..Files /\ written[c] + 1 \in 1..Files
        /\ want[c] \in Version
    BY <1>0, <1>9 DEF P!Write
  <2>2. cache' \in [Version -> [P!File -> {"absent", "part", "own", "foreign"}]]
    BY <1>0, <1>9, <2>1 DEF P!Write, P!Put
  <2>3. at' \in [Caller -> P!Steps] /\ load' \in [Caller -> P!Loads] /\ written' \in [Caller -> 0..Files]
    <3>1. CASE written[c] + 1 = Files
      <4>1. P!End({c}, "mounted")
        BY <1>9, <3>1 DEF P!Write
      <4>2. "mounted" \in P!Steps /\ "none" \in P!Loads
        OBVIOUS
      <4>3. at' \in [Caller -> P!Steps] /\ load' \in [Caller -> P!Loads]
        BY <1>0, <4>1, <4>2 DEF P!End
      <4>4. written' \in [Caller -> 0..Files]
        BY <1>0, <4>1 DEF P!End
      <4> QED
        BY <4>3, <4>4
    <3>2. CASE written[c] + 1 # Files
      <4>1. /\ at' = [at EXCEPT ![c] = "truncate"] /\ load' = load
            /\ written' = [written EXCEPT ![c] = written[c] + 1]
        BY <1>9, <3>2 DEF P!Write
      <4>2. "truncate" \in P!Steps
        OBVIOUS
      <4> QED
        BY <1>0, <2>1, <4>1, <4>2
    <3> QED
      BY <3>1, <3>2
  <2> QED
    BY <1>0, <1>9, <2>2, <2>3 DEF P!Write
<1>10. ASSUME NEW c \in Caller, P!ExtractFails(c) PROVE P!TypeOK'
  BY <1>0, <1>10 DEF P!ExtractFails, P!End, P!Ended
<1>11. ASSUME NEW S \in SUBSET Caller, P!Killed(S) PROVE P!TypeOK'
  BY <1>0, <1>11 DEF P!Killed, P!End, P!Ended
<1>12. CASE UNCHANGED cacheVars
  BY <1>0, <1>12 DEF cacheVars
<1> QED
  BY <1>1, <1>2, <1>3, <1>4, <1>5, <1>6, <1>7, <1>8, <1>9, <1>10, <1>11, <1>12
     DEF CacheNext, P!CallerStep

\* What a caller carries is the package that it asked for.
LEMMA FetchesStep ==
  ASSUME CacheInv, CacheNext
  PROVE  Fetches'
<1>0. CacheInv /\ NoVersion \notin Version /\ Files \in Nat \ {0}
  BY HostAssumption DEF P!CacheAssumption
<1> USE DEF CacheInv, P!TypeOK, P!Steps, P!File, P!Extracting, Fetches
<1>1. ASSUME NEW c \in Caller, NEW v \in Version, P!PrepareBinaries(c, v) PROVE Fetches'
  BY <1>0, <1>1 DEF P!PrepareBinaries, P!NexusVersion, P!Go, P!End, P!Ended
<1>2. ASSUME NEW c \in Caller, P!Cached(c) PROVE Fetches'
  BY <1>0, <1>2 DEF P!Cached, P!End, P!Ended
<1>3. ASSUME NEW c \in Caller, P!NotCached(c) PROVE Fetches'
  BY <1>0, <1>3 DEF P!NotCached, P!Go
<1>4. ASSUME NEW c \in Caller, P!Fetch(c) PROVE Fetches'
  BY <1>0, <1>4, PsuIsOwn DEF P!Fetch
<1>5. ASSUME NEW c \in Caller, P!FetchFails(c) PROVE Fetches'
  BY <1>0, <1>5 DEF P!FetchFails, P!End, P!Ended
<1>6. ASSUME NEW c \in Caller, P!Unpack(c) PROVE Fetches'
  BY <1>0, <1>6 DEF P!Unpack, P!Go
<1>7. ASSUME NEW c \in Caller, P!UnpackFails(c) PROVE Fetches'
  BY <1>0, <1>7 DEF P!UnpackFails, P!End, P!Ended
<1>8. ASSUME NEW c \in Caller, P!Truncate(c) PROVE Fetches'
  BY <1>0, <1>8 DEF P!Truncate, P!Put, P!Go
<1>9. ASSUME NEW c \in Caller, P!Write(c) PROVE Fetches'
  BY <1>0, <1>9 DEF P!Write, P!Put, P!End, P!Ended
<1>10. ASSUME NEW c \in Caller, P!ExtractFails(c) PROVE Fetches'
  BY <1>0, <1>10 DEF P!ExtractFails, P!End, P!Ended
<1>11. ASSUME NEW S \in SUBSET Caller, P!Killed(S) PROVE Fetches'
  BY <1>0, <1>11 DEF P!Killed, P!End, P!Ended
<1>12. CASE UNCHANGED cacheVars
  BY <1>0, <1>12 DEF cacheVars
<1> QED
  BY <1>1, <1>2, <1>3, <1>4, <1>5, <1>6, <1>7, <1>8, <1>9, <1>10, <1>11, <1>12
     DEF CacheNext, P!CallerStep

\* No file that a caller has passed is taken out of the cache again.
LEMMA ProgressStep ==
  ASSUME CacheInv, CacheNext
  PROVE  Progress'
<1>0. CacheInv /\ NoVersion \notin Version /\ Files \in Nat \ {0}
  BY HostAssumption DEF P!CacheAssumption
<1> USE DEF CacheInv, P!TypeOK, P!Steps, P!File, P!Extracting, P!Loads, Fetches, Progress
<1>1. ASSUME NEW c \in Caller, NEW v \in Version, P!PrepareBinaries(c, v) PROVE Progress'
  BY <1>0, <1>1 DEF P!PrepareBinaries, P!NexusVersion, P!Go, P!End, P!Ended
<1>2. ASSUME NEW c \in Caller, P!Cached(c) PROVE Progress'
  BY <1>0, <1>2 DEF P!Cached, P!End, P!Ended
<1>3. ASSUME NEW c \in Caller, P!NotCached(c) PROVE Progress'
  BY <1>0, <1>3 DEF P!NotCached, P!Go
<1>4. ASSUME NEW c \in Caller, P!Fetch(c) PROVE Progress'
  BY <1>0, <1>4 DEF P!Fetch
<1>5. ASSUME NEW c \in Caller, P!FetchFails(c) PROVE Progress'
  BY <1>0, <1>5 DEF P!FetchFails, P!End, P!Ended
<1>6. ASSUME NEW c \in Caller, P!Unpack(c) PROVE Progress'
  BY <1>0, <1>6 DEF P!Unpack, P!Go
<1>7. ASSUME NEW c \in Caller, P!UnpackFails(c) PROVE Progress'
  BY <1>0, <1>7 DEF P!UnpackFails, P!End, P!Ended
<1>8. ASSUME NEW c \in Caller, P!Truncate(c) PROVE Progress'
  BY <1>0, <1>8 DEF P!Truncate, P!Put, P!Go
<1>9. ASSUME NEW c \in Caller, P!Write(c) PROVE Progress'
  BY <1>0, <1>9 DEF P!Write, P!Put, P!End, P!Ended
<1>10. ASSUME NEW c \in Caller, P!ExtractFails(c) PROVE Progress'
  BY <1>0, <1>10 DEF P!ExtractFails, P!End, P!Ended
<1>11. ASSUME NEW S \in SUBSET Caller, P!Killed(S) PROVE Progress'
  BY <1>0, <1>11 DEF P!Killed, P!End, P!Ended
<1>12. CASE UNCHANGED cacheVars
  BY <1>0, <1>12 DEF cacheVars
<1> QED
  BY <1>1, <1>2, <1>3, <1>4, <1>5, <1>6, <1>7, <1>8, <1>9, <1>10, <1>11, <1>12
     DEF CacheNext, P!CallerStep

\* Who truncates a file writes it, or spoils its version.
LEMMA PartHeldStep ==
  ASSUME CacheInv, CacheNext
  PROVE  PartHeld'
<1>0. CacheInv /\ NoVersion \notin Version /\ Files \in Nat \ {0}
  BY HostAssumption DEF P!CacheAssumption
<1> USE DEF CacheInv, P!TypeOK, P!Steps, P!File, P!Extracting, Fetches, PartHeld
<1>1. ASSUME NEW c \in Caller, NEW v \in Version, P!PrepareBinaries(c, v) PROVE PartHeld'
  BY <1>0, <1>1 DEF P!PrepareBinaries, P!NexusVersion, P!Go, P!End, P!Ended
<1>2. ASSUME NEW c \in Caller, P!Cached(c) PROVE PartHeld'
  <2> SUFFICES ASSUME NEW v \in Version \ spoiled, NEW f \in P!File, cache[v][f] = "part"
               PROVE  \E d \in Caller : at'[d] = "write" /\ want[d] = v /\ written'[d] + 1 = f
    BY <1>2 DEF P!Cached
  <2>1. PICK d \in Caller : at[d] = "write" /\ want[d] = v /\ written[d] + 1 = f
    BY <1>0
  <2>2. at'[d] = at[d] /\ written'[d] = written[d]
    BY <1>0, <1>2, <2>1 DEF P!Cached, P!End
  <2> QED
    BY <2>1, <2>2
<1>3. ASSUME NEW c \in Caller, P!NotCached(c) PROVE PartHeld'
  BY <1>0, <1>3 DEF P!NotCached, P!Go
<1>4. ASSUME NEW c \in Caller, P!Fetch(c) PROVE PartHeld'
  BY <1>0, <1>4 DEF P!Fetch
<1>5. ASSUME NEW c \in Caller, P!FetchFails(c) PROVE PartHeld'
  BY <1>0, <1>5 DEF P!FetchFails, P!End, P!Ended
<1>6. ASSUME NEW c \in Caller, P!Unpack(c) PROVE PartHeld'
  BY <1>0, <1>6 DEF P!Unpack, P!Go
<1>7. ASSUME NEW c \in Caller, P!UnpackFails(c) PROVE PartHeld'
  BY <1>0, <1>7 DEF P!UnpackFails, P!End, P!Ended
<1>8. ASSUME NEW c \in Caller, P!Truncate(c) PROVE PartHeld'
  BY <1>0, <1>8 DEF P!Truncate, P!Put, P!Go
<1>9. ASSUME NEW c \in Caller, P!Write(c) PROVE PartHeld'
  BY <1>0, <1>9 DEF P!Write, P!Put, P!End, P!Ended
<1>10. ASSUME NEW c \in Caller, P!ExtractFails(c) PROVE PartHeld'
  BY <1>0, <1>10 DEF P!ExtractFails, P!End, P!Ended
<1>11. ASSUME NEW S \in SUBSET Caller, P!Killed(S) PROVE PartHeld'
  BY <1>0, <1>11 DEF P!Killed, P!End, P!Ended
<1>12. CASE UNCHANGED cacheVars
  BY <1>0, <1>12 DEF cacheVars
<1> QED
  BY <1>1, <1>2, <1>3, <1>4, <1>5, <1>6, <1>7, <1>8, <1>9, <1>10, <1>11, <1>12
     DEF CacheNext, P!CallerStep

\* Who extracts the last file leaves the version complete, or to another
\* caller that still extracts it.
LEMMA PartialStep ==
  ASSUME CacheInv, CacheNext
  PROVE  PartialOnlyByFault'
<1>0. CacheInv /\ NoVersion \notin Version /\ Files \in Nat \ {0}
  BY HostAssumption DEF P!CacheAssumption
<1> USE DEF CacheInv, P!TypeOK, P!Steps, P!File, P!Extracting, Fetches, PartialOnlyByFault, P!PartialOnlyByFault, P!Empty, P!Complete
<1>1. ASSUME NEW c \in Caller, NEW v \in Version, P!PrepareBinaries(c, v) PROVE PartialOnlyByFault'
  <2>1. cache' = cache /\ spoiled' = spoiled
    BY <1>1 DEF P!PrepareBinaries
  <2>2. \A d \in Caller : P!Extracting(d) => P!Extracting(d)' /\ want'[d] = want[d]
    BY <1>0, <1>1 DEF P!PrepareBinaries, P!Go, P!End
  <2> HIDE DEF P!Extracting, P!File, CacheInv, P!TypeOK
  <2>3. PartialOnlyByFault
    BY <1>0 DEF CacheInv
  <2> QED
    BY <2>1, <2>2, <2>3
<1>2. ASSUME NEW c \in Caller, P!Cached(c) PROVE PartialOnlyByFault'
  BY <1>0, <1>2 DEF P!Cached, P!End, P!Ended
<1>3. ASSUME NEW c \in Caller, P!NotCached(c) PROVE PartialOnlyByFault'
  BY <1>0, <1>3, ZenonT(40) DEF P!NotCached, P!Go
<1>4. ASSUME NEW c \in Caller, P!Fetch(c) PROVE PartialOnlyByFault'
  BY <1>0, <1>4 DEF P!Fetch
<1>5. ASSUME NEW c \in Caller, P!FetchFails(c) PROVE PartialOnlyByFault'
  BY <1>0, <1>5 DEF P!FetchFails, P!End, P!Ended
<1>6. ASSUME NEW c \in Caller, P!Unpack(c) PROVE PartialOnlyByFault'
  BY <1>0, <1>6 DEF P!Unpack, P!Go
<1>7. ASSUME NEW c \in Caller, P!UnpackFails(c) PROVE PartialOnlyByFault'
  BY <1>0, <1>7 DEF P!UnpackFails, P!End, P!Ended
<1>8. ASSUME NEW c \in Caller, P!Truncate(c) PROVE PartialOnlyByFault'
  <2>1. /\ at[c] = "truncate" /\ want[c] \in Version /\ want' = want /\ spoiled' = spoiled
        /\ at' = [at EXCEPT ![c] = "write"]
    BY <1>0, <1>8 DEF P!Truncate, P!Go
  <2>2. \A d \in Caller : P!Extracting(d) => P!Extracting(d)'
    BY <1>0, <2>1
  <2>3. \A w \in Version : w # want[c] => cache'[w] = cache[w]
    BY <1>0, <1>8 DEF P!Truncate, P!Put
  <2>4. P!Extracting(c)'
    BY <2>1, <2>2
  <2> HIDE DEF P!Extracting, P!File, CacheInv, P!TypeOK
  <2>5. PartialOnlyByFault
    BY <1>0 DEF CacheInv
  <2> QED
    BY <2>1, <2>2, <2>3, <2>4, <2>5
<1>9. ASSUME NEW c \in Caller, P!Write(c) PROVE PartialOnlyByFault'
  <2> SUFFICES ASSUME NEW w \in Version
               PROVE  \/ P!Empty(w)' \/ P!Complete(w)' \/ w \in spoiled'
                      \/ \E d \in Caller : P!Extracting(d)' /\ want'[d] = w
    OBVIOUS
  <2>1. /\ at[c] = "write" /\ load[c] = "own" /\ written[c] \in 0..Files /\ written[c] + 1 \in 1..Files
        /\ want[c] \in Version /\ want' = want /\ spoiled' = spoiled
        /\ \A f \in 1..written[c] : cache[want[c]][f] # "absent"
    BY <1>0, <1>9 DEF P!Write, Progress
  <2>2. cache' = [cache EXCEPT ![want[c]][written[c] + 1] = "own"]
    BY <1>9, <2>1 DEF P!Write, P!Put
  <2>3. \A d \in Caller \ {c} : P!Extracting(d) => P!Extracting(d)'
    BY <1>0, <1>9 DEF P!Write, P!End
  <2>4. CASE w # want[c]
    <3>1. cache'[w] = cache[w]
      BY <1>0, <2>2, <2>4
    <3>2. P!Empty(w) \/ P!Complete(w) \/ w \in spoiled
          \/ \E d \in Caller : P!Extracting(d) /\ want[d] = w
      BY <1>0
    <3>3. ASSUME NEW d \in Caller, P!Extracting(d), want[d] = w
          PROVE  P!Extracting(d)' /\ want'[d] = w
      <4>1. d # c
        BY <2>4, <3>3
      <4> QED
        BY <2>1, <2>3, <3>3, <4>1
    <3>4. (P!Empty(w) => P!Empty(w)') /\ (P!Complete(w) => P!Complete(w)')
      BY <3>1 DEF P!Empty, P!Complete
    <3> QED
      BY <2>1, <3>2, <3>3, <3>4
  <2>5. CASE w = want[c] /\ written[c] + 1 # Files
    <3>1. P!Extracting(c)'
      BY <1>0, <1>9, <2>1, <2>5 DEF P!Write
    <3> QED
      BY <2>1, <2>5, <3>1
  <2>6. CASE w = want[c] /\ written[c] + 1 = Files
    <3>1. \A f \in P!File : cache'[w][f] # "absent" /\ cache'[w][f] # "foreign"
      BY <1>0, <2>1, <2>2, <2>6 DEF CacheIsOwn, P!CacheIsOwn
    <3>2. CASE \E f \in P!File : cache'[w][f] = "part" /\ w \notin spoiled
      <4>1. PICK f \in P!File : cache'[w][f] = "part" /\ w \notin spoiled
        BY <3>2
      <4>2. cache[w][f] = "part" /\ f # written[c] + 1
        BY <1>0, <2>1, <2>2, <2>6, <4>1
      <4>3. PICK d \in Caller : at[d] = "write" /\ want[d] = w /\ written[d] + 1 = f
        BY <1>0, <4>1, <4>2 DEF PartHeld
      <4>4. d # c
        BY <4>2, <4>3
      <4> QED
        BY <2>1, <2>3, <4>3, <4>4
    <3>3. CASE \A f \in P!File : cache'[w][f] # "part"
      <4>1. \A f \in P!File : cache'[w][f] \in {"absent", "part", "own", "foreign"}
        BY <1>0, <2>1, <2>2, <2>6
      <4>2. P!Complete(w)'
        BY <3>1, <3>3, <4>1
      <4> QED
        BY <4>2
    <3>4. CASE w \in spoiled
      BY <2>1, <3>4
    <3> QED
      BY <3>2, <3>3, <3>4
  <2> QED
    BY <2>4, <2>5, <2>6
<1>10. ASSUME NEW c \in Caller, P!ExtractFails(c) PROVE PartialOnlyByFault'
  BY <1>0, <1>10 DEF P!ExtractFails, P!End, P!Ended
<1>11. ASSUME NEW S \in SUBSET Caller, P!Killed(S) PROVE PartialOnlyByFault'
  BY <1>0, <1>11, SMTT(30) DEF P!Killed, P!End, P!Ended
<1>12. CASE UNCHANGED cacheVars
  BY <1>0, <1>12 DEF cacheVars
<1> QED
  BY <1>1, <1>2, <1>3, <1>4, <1>5, <1>6, <1>7, <1>8, <1>9, <1>10, <1>11, <1>12
     DEF CacheNext, P!CallerStep

\* Nothing but the package of a version is written into its directory.
LEMMA OwnStep ==
  ASSUME CacheInv, CacheNext
  PROVE  CacheIsOwn'
<1>0. CacheInv /\ NoVersion \notin Version /\ Files \in Nat \ {0}
  BY HostAssumption DEF P!CacheAssumption
<1> USE DEF CacheInv, P!TypeOK, P!Steps, P!File, P!Extracting, Fetches, CacheIsOwn, P!CacheIsOwn
<1>1. ASSUME NEW c \in Caller, NEW v \in Version, P!PrepareBinaries(c, v) PROVE CacheIsOwn'
  BY <1>0, <1>1 DEF P!PrepareBinaries, P!NexusVersion, P!Go, P!End, P!Ended
<1>2. ASSUME NEW c \in Caller, P!Cached(c) PROVE CacheIsOwn'
  BY <1>0, <1>2 DEF P!Cached, P!End, P!Ended
<1>3. ASSUME NEW c \in Caller, P!NotCached(c) PROVE CacheIsOwn'
  BY <1>0, <1>3 DEF P!NotCached, P!Go
<1>4. ASSUME NEW c \in Caller, P!Fetch(c) PROVE CacheIsOwn'
  BY <1>0, <1>4 DEF P!Fetch
<1>5. ASSUME NEW c \in Caller, P!FetchFails(c) PROVE CacheIsOwn'
  BY <1>0, <1>5 DEF P!FetchFails, P!End, P!Ended
<1>6. ASSUME NEW c \in Caller, P!Unpack(c) PROVE CacheIsOwn'
  BY <1>0, <1>6 DEF P!Unpack, P!Go
<1>7. ASSUME NEW c \in Caller, P!UnpackFails(c) PROVE CacheIsOwn'
  BY <1>0, <1>7 DEF P!UnpackFails, P!End, P!Ended
<1>8. ASSUME NEW c \in Caller, P!Truncate(c) PROVE CacheIsOwn'
  BY <1>0, <1>8 DEF P!Truncate, P!Put, P!Go
<1>9. ASSUME NEW c \in Caller, P!Write(c) PROVE CacheIsOwn'
  BY <1>0, <1>9 DEF P!Write, P!Put, P!End, P!Ended
<1>10. ASSUME NEW c \in Caller, P!ExtractFails(c) PROVE CacheIsOwn'
  BY <1>0, <1>10 DEF P!ExtractFails, P!End, P!Ended
<1>11. ASSUME NEW S \in SUBSET Caller, P!Killed(S) PROVE CacheIsOwn'
  BY <1>0, <1>11 DEF P!Killed, P!End, P!Ended
<1>12. CASE UNCHANGED cacheVars
  BY <1>0, <1>12 DEF cacheVars
<1> QED
  BY <1>1, <1>2, <1>3, <1>4, <1>5, <1>6, <1>7, <1>8, <1>9, <1>10, <1>11, <1>12
     DEF CacheNext, P!CallerStep

(***************************************************************************)
(* The host                                                                *)
(***************************************************************************)
\* The inductive invariant of the host: that of its parts.
HostInv == DaemonInv /\ CacheInv

\* The types of what NodeHost adds: the requests and their streams.
RequestTypes ==
  /\ owner \in [Client -> Process \cup {NoProcess}]
  /\ answer \in [Client -> {"none", "waiting", "result", "timeout", "cut"}]
  /\ stream \subseteq Process

\* Nothing runs, and the cache is empty, at the start of the host.
LEMMA InitHost == Init => HostInv /\ RequestTypes
<1> SUFFICES ASSUME Init PROVE HostInv /\ RequestTypes
  OBVIOUS
<1>1. D!TypeOK
  <2>1. PICK pid \in {NoProcess, Stranger}, stage \in {"other", "gone"} :
          /\ file = [f \in D!File |-> IF f = D!PidFile THEN pid ELSE NoProcess]
          /\ phase = [p \in Process \cup {Stranger} |-> IF p = Stranger THEN stage ELSE "unborn"]
    BY DEF Init, D!Init
  <2>2. command \in {<<c, again>> : c \in D!Commands, again \in BOOLEAN}
    <3> DEFINE Pairs == {<<c, again>> : c \in D!Commands, again \in BOOLEAN}
    <3>1. \A again \in BOOLEAN : <<"none", again>> \in Pairs
      BY DEF D!Commands
    <3>2. command = <<"none", FALSE>>
      BY DEF Init, D!Init
    <3> SUFFICES command \in Pairs
      OBVIOUS
    <3> HIDE DEF Pairs
    <3> QED
      BY <3>1, <3>2
  <2>3. port = NoProcess /\ target = NoProcess /\ alone = {}
    BY DEF Init, D!Init
  <2>4. file \in [D!File -> Process \cup {Stranger, NoProcess}]
    BY <2>1
  <2>5. phase \in [Process \cup {Stranger} -> D!Phases]
    BY <2>1 DEF D!Phases
  <2> QED
    BY <2>2, <2>3, <2>4, <2>5 DEF D!TypeOK
<1>2. RunsAlone /\ Named
  BY DEF Init, D!Init, RunsAlone, Named
<1>3. P!TypeOK
  BY HostAssumption DEF Init, P!Init, P!TypeOK, P!CacheAssumption, P!Loads, P!Steps
<1>4. Fetches /\ Progress /\ PartHeld
  BY DEF Init, P!Init, Fetches, Progress, PartHeld, P!Extracting
<1>5. PartialOnlyByFault /\ CacheIsOwn
  BY DEF Init, P!Init, PartialOnlyByFault, P!PartialOnlyByFault, P!Empty, CacheIsOwn, P!CacheIsOwn
<1>6. RequestTypes
  BY DEF Init, RequestTypes
<1> QED
  BY <1>1, <1>2, <1>3, <1>4, <1>5, <1>6 DEF HostInv, DaemonInv, CacheInv

\* Every step of the host keeps the invariants of both parts.
LEMMA HostStep ==
  ASSUME HostInv, [Next]_vars
  PROVE  HostInv'
<1>1. DaemonNext /\ CacheNext
  BY DaemonPart, CachePart
<1>2. D!TypeOK'
  BY <1>1, TypedStep, CommandTypeStep DEF HostInv, Typed, D!TypeOK
<1>3. RunsAlone' /\ Named'
  BY <1>1, RunsAloneStep, NamedStep DEF HostInv
<1>4. CacheInv'
  BY <1>1, CacheTypeStep, FetchesStep, ProgressStep, PartHeldStep, PartialStep, OwnStep
     DEF HostInv, CacheInv
<1> QED
  BY <1>2, <1>3, <1>4 DEF HostInv, DaemonInv

\* Requests and streams keep their types.
LEMMA RequestStep ==
  ASSUME HostInv, RequestTypes, [Next]_vars
  PROVE  RequestTypes'
<1>0. RequestTypes /\ port \in Process \cup {NoProcess}
  BY DEF HostInv, DaemonInv, D!TypeOK
<1> USE DEF RequestTypes
<1>1. ASSUME NEW p \in Process, Crash(p) PROVE RequestTypes'
  BY <1>0, <1>1 DEF Crash
<1>2. ASSUME NEW p \in Process, ProcessStep(p) \/ CloseStream(p) PROVE RequestTypes'
  BY <1>0, <1>2 DEF ProcessStep, ChildWrites, Startup, Listen, StartFails, StopServing, Leave, Exit,
                    Others, hostVars, CloseStream
<1>3. ASSUME NEW c \in Client, Arrive(c) PROVE RequestTypes'
  BY <1>0, <1>3 DEF Arrive
<1>4. ASSUME NEW c \in Client, Reply(c) \/ QueryTimeout(c) PROVE RequestTypes'
  BY <1>0, <1>4 DEF Reply, QueryTimeout
<1>5. CASE OpenStream
  BY <1>0, <1>5 DEF OpenStream
<1>6. CASE UNCHANGED hostVars
  BY <1>0, <1>6 DEF hostVars
<1> QED
  BY <1>1, <1>2, <1>3, <1>4, <1>5, <1>6 DEF Next, Ask, CommandStep, Work, Others, vars

\* The invariant of the host holds in every reachable state.
THEOREM HostInvariant == Spec => [](HostInv /\ RequestTypes)
<1>1. HostInv /\ RequestTypes /\ [Next]_vars => (HostInv /\ RequestTypes)'
  BY HostStep, RequestStep
<1> QED
  BY <1>1, InitHost, PTL DEF Spec

(***************************************************************************)
(* The theorems                                                            *)
(***************************************************************************)
\* The types of the host's state, for any number of processes and clients.
THEOREM HostTypes == Spec => []TypeOK
<1>1. HostInv /\ RequestTypes => TypeOK
  BY DEF HostInv, DaemonInv, CacheInv, RequestTypes, TypeOK
<1> QED
  BY <1>1, HostInvariant, PTL

\* The PID file names a server that serves and that no other overlapped, so
\* that --stop and --restart find it, whatever crashes and restarts came before.
THEOREM LoneServerIsListed == Spec => []AloneIsListed
<1>1. HostInv => AloneIsListed
  BY DEF HostInv, DaemonInv, Named, AloneIsListed, D!AloneIsListed
<1> QED
  BY <1>1, HostInvariant, PTL

\* Half a package stays in the cache only after an extraction broke off.
THEOREM HalfOnlyByFault == Spec => []PartialOnlyByFault
<1>1. HostInv => PartialOnlyByFault
  BY DEF HostInv, CacheInv
<1> QED
  BY <1>1, HostInvariant, PTL

\* No directory of the cache ever holds the package of another version.
THEOREM PackagesAreOwn == Spec => []CacheIsOwn
<1>1. HostInv => CacheIsOwn
  BY DEF HostInv, CacheInv
<1> QED
  BY <1>1, HostInvariant, PTL
==============================================================================
