----------------------------- MODULE PackageCache -----------------------------
(***************************************************************************)
(* src/package_manager.py and _prepare_binaries() of src/container_pool.py: *)
(* the database binaries of a version are fetched from Nexus and extracted *)
(* into a directory that every caller, of every process on the host, takes *)
(* for complete as soon as it is not empty.                                *)
(*                                                                         *)
(* A step is the test of the directory, the download, the two extractions  *)
(* into a directory of the caller's own, or one half of the extraction of  *)
(* one file into the cache: it is truncated, then written.                 *)
(***************************************************************************)
EXTENDS Naturals, FiniteSets

CONSTANTS
  Caller,     \* threads that start a container
  Version,    \* versions that requests name
  Configured, \* those that databases.yaml lists, each with a psu
  NoVersion,  \* no nexus_version
  Files,      \* number of files in a package
  Downloads,  \* what the Nexus client may come back with
  Event       \* what the environment of this instance may do

\* What is downloaded: the package, that of another version, or no archive.
Loads == {"own", "foreign", "broken", "none"}

Events == {"extractFails"}  \* disk full, broken archive

\* Assumed by NodeHost.
CacheAssumption ==
  /\ Configured \subseteq Version
  /\ NoVersion \notin Version
  /\ Files \in Nat \ {0}
  /\ Downloads \subseteq Loads

VARIABLES
  cache,   \* each file in the cache directory of each version
  at,      \* where each caller is
  want,    \* the nexus_version it asks for
  load,    \* what it downloaded
  written, \* how many files it has written
  spoiled  \* history: versions whose extraction broke off

vars == <<cache, at, want, load, written, spoiled>>

File == 1..Files
Steps == {"idle", "check", "fetch", "unpack", "truncate", "write", "mounted", "failed"}

TypeOK ==
  /\ cache \in [Version -> [File -> {"absent", "part", "own", "foreign"}]]
  /\ at \in [Caller -> Steps]
  /\ want \in [Caller -> Version \cup {NoVersion}]
  /\ load \in [Caller -> Loads]
  /\ written \in [Caller -> 0..Files]
  /\ spoiled \subseteq Version

Init ==
  /\ cache = [v \in Version |-> [f \in File |-> "absent"]]
  /\ at = [c \in Caller |-> "idle"]
  /\ want = [c \in Caller |-> NoVersion]
  /\ load = [c \in Caller |-> "none"]
  /\ written = [c \in Caller |-> 0]
  /\ spoiled = {}

Empty(v) == \A f \in File : cache[v][f] = "absent"
Complete(v) == \A f \in File : cache[v][f] \in {"own", "foreign"}
Extracting(c) == at[c] \in {"truncate", "write"}
Ended(c) == at[c] \in {"mounted", "failed"}

Go(c, step) == at' = [at EXCEPT ![c] = step] /\ UNCHANGED <<load, written>>
\* The call is over, by its result or by an exception, for the callers in S.
End(S, step) ==
  /\ at' = [c \in Caller |-> IF c \in S /\ ~Ended(c) THEN step ELSE at[c]]
  /\ load' = [c \in Caller |-> IF c \in S THEN "none" ELSE load[c]]
  /\ written' = [c \in Caller |-> IF c \in S THEN 0 ELSE written[c]]
Put(c, content) == cache' = [cache EXCEPT ![want[c]][written[c] + 1] = content]

\* get_db_config(): a listed version asks for its patch; the synthetic
\* configuration of any other version names no nexus_version.
NexusVersion(v) == IF v \in Configured THEN v ELSE NoVersion

PrepareBinaries(c, v) ==
  /\ at[c] = "idle"
  /\ want' = [want EXCEPT ![c] = NexusVersion(v)]
  /\ IF NexusVersion(v) = NoVersion THEN End({c}, "failed") ELSE Go(c, "check")
  /\ UNCHANGED <<cache, spoiled>>

Cached(c) ==
  /\ at[c] = "check"
  /\ ~Empty(want[c])
  /\ End({c}, "mounted")
  /\ UNCHANGED <<cache, want, spoiled>>

NotCached(c) ==
  /\ at[c] = "check"
  /\ Empty(want[c])
  /\ Go(c, "fetch")
  /\ UNCHANGED <<cache, want, spoiled>>

Fetch(c) ==
  /\ at[c] = "fetch"
  /\ \E package \in Downloads \ {"none"} :
       load' = [load EXCEPT ![c] = package]
  /\ at' = [at EXCEPT ![c] = "unpack"]
  /\ UNCHANGED <<cache, want, written, spoiled>>

FetchFails(c) ==
  /\ at[c] = "fetch"
  /\ "none" \in Downloads
  /\ End({c}, "failed")
  /\ UNCHANGED <<cache, want, spoiled>>

\* Steps 1 and 2 of the extraction, outside the cache.
Unpack(c) ==
  /\ at[c] = "unpack"
  /\ load[c] # "broken"
  /\ Go(c, "truncate")
  /\ UNCHANGED <<cache, want, spoiled>>

UnpackFails(c) ==
  /\ at[c] = "unpack"
  /\ load[c] = "broken" \/ "extractFails" \in Event
  /\ End({c}, "failed")
  /\ UNCHANGED <<cache, want, spoiled>>

\* Step 3: the file is opened, which empties the one that may be there ...
Truncate(c) ==
  /\ at[c] = "truncate"
  /\ Put(c, "part")
  /\ Go(c, "write")
  /\ UNCHANGED <<want, spoiled>>

\* ... and its contents written.  After the last one the path is returned.
Write(c) ==
  /\ at[c] = "write"
  /\ Put(c, load[c])
  /\ IF written[c] + 1 = Files THEN End({c}, "mounted")
     ELSE /\ at' = [at EXCEPT ![c] = "truncate"]
          /\ written' = [written EXCEPT ![c] = @ + 1]
          /\ UNCHANGED load
  /\ UNCHANGED <<want, spoiled>>

ExtractFails(c) ==
  /\ Extracting(c)
  /\ "extractFails" \in Event
  /\ spoiled' = spoiled \cup {want[c]}
  /\ End({c}, "failed")
  /\ UNCHANGED <<cache, want>>

\* The process of the callers in S is gone: by itself, and by a crash.
Gone(S) == End(S, "failed") /\ UNCHANGED <<cache, want, spoiled>>

Killed(S) ==
  /\ End(S, "failed")
  /\ spoiled' = spoiled \cup {want[c] : c \in {d \in S : Extracting(d)}}
  /\ UNCHANGED <<cache, want>>

CallerStep(c) ==
  \/ Cached(c) \/ NotCached(c) \/ Fetch(c) \/ FetchFails(c) \/ Unpack(c)
  \/ UnpackFails(c) \/ Truncate(c) \/ Write(c) \/ ExtractFails(c)

(***************************************************************************)
(* Safety                                                                  *)
(***************************************************************************)
\* Half a package is in the cache only while somebody extracts it, or after an
\* extraction broke off: processes that stop and start, requests that time out
\* and callers that extract the same version at once leave none behind.
PartialOnlyByFault ==
  \A v \in Version :
    \/ Empty(v) \/ Complete(v) \/ v \in spoiled
    \/ \E c \in Caller : Extracting(c) /\ want[c] = v

\* The cache of a version never holds the package of another one, although the
\* search finds those too, and the page of the directory is asked for only when
\* nothing is left of what it finds.
CacheIsOwn == \A v \in Version, f \in File : cache[v][f] # "foreign"

(***************************************************************************)
(* What the documents say and the code does not do                         *)
(***************************************************************************)
\* Who is given the directory of a version finds its binaries there.
MountedIsComplete == \A c \in Caller : at[c] = "mounted" => Complete(want[c])
=============================================================================
