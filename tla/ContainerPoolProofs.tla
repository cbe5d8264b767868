------------------------- MODULE ContainerPoolProofs -------------------------
(***************************************************************************)
(* Theorems about ContainerPool, for every set of requests and keys, every *)
(* bound and every choice of what the environment may do.                  *)
(***************************************************************************)
EXTENDS ContainerPool, FiniteSetTheorems, TLAPS

(***************************************************************************)
(* Type correctness                                                        *)
(***************************************************************************)
\* _destroy_entry keeps the types of what it assigns.
LEMMA DestroyTypes ==
  ASSUME TypeOK, NEW S \in SUBSET Entry, DestroyEntries(S)
  PROVE  /\ docker' \in [Key -> {"absent", "running", "exited"}]
         /\ dirty' \in [Key -> BOOLEAN]
         /\ pool' \in [Entry -> BOOLEAN]
         /\ state' \in [Entry -> States]
         /\ attached' \in [Entry -> BOOLEAN]
BY DEF TypeOK, DestroyEntries, Remove, States

\* Counting up and down in a function keeps it one of integers ...
LEMMA BumpInt ==
  ASSUME NEW f \in [Entry -> Int], NEW e \in Entry \cup {NoRequest}
  PROVE  /\ [f EXCEPT ![e] = @ - 1] \in [Entry -> Int]
         /\ [f EXCEPT ![e] = @ + 1] \in [Entry -> Int]
<1>1. CASE e \in Entry
  BY <1>1
<1>2. CASE e \notin Entry
  BY <1>2
<1> QED
  BY <1>1, <1>2

\* ... or of natural numbers.
LEMMA BumpNat ==
  ASSUME NEW f \in [Entry -> Nat], NEW e \in Entry \cup {NoRequest}
  PROVE  /\ [f EXCEPT ![e] = IF @ > 0 THEN @ - 1 ELSE 0] \in [Entry -> Nat]
         /\ [f EXCEPT ![e] = @ + 1] \in [Entry -> Nat]
<1>1. CASE e \in Entry
  <2>1. (IF f[e] > 0 THEN f[e] - 1 ELSE 0) \in Nat
    BY <1>1
  <2> QED
    BY <1>1, <2>1
<1>2. CASE e \notin Entry
  BY <1>2
<1> QED
  BY <1>1, <1>2

\* The initial states are well typed.
LEMMA InitTypeOK == Init => TypeOK
BY BoundsAssumption DEF Init, TypeOK, Generation, States, Phases, Places, Entry

\* A step of _ensure_healthy or _start_entry.
LEMMA EnsureHealthyTypeOK ==
  ASSUME TypeOK, NEW r \in Request, EnsureHealthy(r)
  PROVE  TypeOK'
<1> USE DEF TypeOK, Entry, Goto
<1> USE DEF Places, Starting, Holding, Destroying, States
<1> USE DEF lockVars, entryVars, monitorVars, dockerVars, localVars
<1>1. CASE GetCreateLock(r)
  BY <1>1 DEF GetCreateLock
<1>2. CASE FindHealthy(r)
  BY <1>2 DEF FindHealthy, LockAndSee
<1>3. CASE FindDestroying(r)
  BY <1>3 DEF FindDestroying, LockAndSee
<1>4. CASE FindUnhealthy(r)
  BY <1>4, DestroyTypes, {reg[key[r]]} \in SUBSET Entry DEF FindUnhealthy, LockAndSee
<1>5. CASE FindStopped(r)
  BY <1>5 DEF FindStopped, LockAndSee
<1>6. CASE FindNone(r)
  BY <1>6 DEF FindNone, LockAndSee
<1>7. CASE Register(r)
  BY <1>7 DEF Register
<1>8. CASE ReuseContainer(r)
  BY <1>8 DEF ReuseContainer, StartStep
<1>9. CASE RestartContainer(r)
  BY <1>9 DEF RestartContainer, StartStep
<1>10. CASE CreateContainer(r)
  BY <1>10 DEF CreateContainer, StartStep
<1>11. CASE NoContainer(r)
  <2>1. CASE UNCHANGED <<dockerVars, attached>>
    BY <1>11, <2>1 DEF NoContainer, StartFailed, ReleaseCreateLock
  <2>2. CASE /\ \E left \in {"absent", "running", "exited"} :
                  docker' = [docker EXCEPT ![key[r]] = left]
             /\ dirty' = [dirty EXCEPT ![key[r]] = FALSE]
             /\ attached' = [e \in Entry |-> attached[e] /\ key[e] # key[r]]
    BY <1>11, <2>2 DEF NoContainer, StartFailed, ReleaseCreateLock
  <2> QED
    BY <1>11, <2>1, <2>2 DEF NoContainer
<1>12. CASE NotReady(r)
  BY <1>12 DEF NotReady, StartFailed, ReleaseCreateLock
<1>13. CASE OpenPool(r)
  BY <1>13 DEF OpenPool
<1>14. CASE Publish(r)
  BY <1>14 DEF Publish, ReleaseCreateLock
<1> QED
  BY <1>1, <1>2, <1>3, <1>4, <1>5, <1>6, <1>7, <1>8, <1>9, <1>10, <1>11, <1>12,
     <1>13, <1>14 DEF EnsureHealthy

\* A step of lease() outside _ensure_healthy.
LEMMA LeaseTypeOK ==
  ASSUME TypeOK, NEW r \in Request, Lease(r)
  PROVE  TypeOK'
<1> USE DEF TypeOK, Entry, Goto
<1> USE DEF Places, Starting, Holding, Destroying, States
<1> USE DEF lockVars, entryVars, monitorVars, dockerVars, localVars
<1>1. CASE LeaseCall(r)
  BY <1>1 DEF LeaseCall
<1>2. CASE AcquireSlot(r)
  <2>1. sem' = [sem EXCEPT ![ent[r]] = @ - 1]
    BY <1>2 DEF AcquireSlot
  <2>2. sem' \in [Entry -> Int]
    BY <2>1, BumpInt
  <2> QED
    BY <1>2, <2>2 DEF AcquireSlot
<1>3. CASE SlotTimeout(r)
  BY <1>3 DEF SlotTimeout
<1>4. CASE Connect(r)
  BY <1>4 DEF Connect
<1>5. CASE ConnectFails(r)
  <2>1. sem' = [sem EXCEPT ![ent[r]] = @ + 1]
    BY <1>5 DEF ConnectFails
  <2>2. sem' \in [Entry -> Int]
    BY <2>1, BumpInt
  <2> QED
    BY <1>5, <2>2 DEF ConnectFails
<1>6. CASE CountLease(r)
  <2>1. active' = [active EXCEPT ![ent[r]] = @ + 1]
    BY <1>6 DEF CountLease
  <2>2. active' \in [Entry -> Nat]
    BY <2>1, BumpNat
  <2> QED
    BY <1>6, <2>2 DEF CountLease
<1> QED
  BY <1>1, <1>2, <1>3, <1>4, <1>5, <1>6 DEF Lease

\* A step of release(), of __exit__ or of destroy_container().
LEMMA GiveBackTypeOK ==
  ASSUME TypeOK, NEW r \in Request, GiveBack(r)
  PROVE  TypeOK'
<1> USE DEF TypeOK, Entry, Goto
<1> USE DEF Places, Starting, Holding, Destroying, States
<1> USE DEF lockVars, entryVars, monitorVars, dockerVars, localVars
<1>1. CASE Release(r)
  <2>1. active' = [active EXCEPT ![ent[r]] = IF @ > 0 THEN @ - 1 ELSE 0]
    BY <1>1 DEF Release
  <2>2. active' \in [Entry -> Nat]
    BY <2>1, BumpNat
  <2> QED
    BY <1>1, <2>2 DEF Release
<1>2. CASE ReleaseSlot(r)
  <2>1. sem' = [sem EXCEPT ![ent[r]] = @ + 1]
    BY <1>2 DEF ReleaseSlot
  <2>2. sem' \in [Entry -> Int]
    BY <2>1, BumpInt
  <2> QED
    BY <1>2, <2>2 DEF ReleaseSlot
<1>3. CASE NothingToDestroy(r)
  BY <1>3 DEF NothingToDestroy
<1>4. CASE BeginDestroy(r)
  BY <1>4 DEF BeginDestroy
<1>5. CASE Drained(r)
  BY <1>5 DEF Drained
<1>6. CASE FinishDestroy(r)
  BY <1>6 DEF FinishDestroy, DestroyEntries, Remove
<1> QED
  BY <1>1, <1>2, <1>3, <1>4, <1>5, <1>6 DEF GiveBack

\* A step of the monitor.
LEMMA MonitorTypeOK ==
  ASSUME TypeOK, Monitor
  PROVE  TypeOK'
<1> USE DEF TypeOK, Entry, States
<1> USE DEF lockVars, entryVars, monitorVars, dockerVars, localVars
<1>1. CASE Snapshot
  BY <1>1 DEF Snapshot, RegisteredHealthy
<1>2. ASSUME NEW e \in Entry, ProbeClosed(e)
      PROVE  TypeOK'
  <2>1. fails' \in [Entry -> Nat]
    <3>1. [fails EXCEPT ![e] = @ + 1] \in [Entry -> Nat]
      BY BumpNat
    <3> QED
      BY <1>2, <3>1 DEF ProbeClosed
  <2> QED
    BY <1>2, <2>1 DEF ProbeClosed
<1>3. ASSUME NEW e \in Entry, ProbeOpen(e)
      PROVE  TypeOK'
  BY <1>3 DEF ProbeOpen
<1>4. CASE MidnightCleanup
  <2>1. PICK S \in SUBSET Entry :
          /\ DestroyEntries(S)
          /\ reg' = [k \in Key |-> IF reg[k] \in S THEN NoRequest ELSE reg[k]]
    BY <1>4 DEF MidnightCleanup, RegisteredHealthy
  <2>2. /\ docker' \in [Key -> {"absent", "running", "exited"}]
        /\ dirty' \in [Key -> BOOLEAN]
        /\ pool' \in [Entry -> BOOLEAN]
        /\ state' \in [Entry -> States]
        /\ attached' \in [Entry -> BOOLEAN]
    BY <2>1, DestroyTypes
  <2> QED
    BY <1>4, <2>1, <2>2 DEF MidnightCleanup
<1> QED
  BY <1>1, <1>2, <1>3, <1>4 DEF Monitor

\* A step of shutdown().
LEMMA ShutdownTypeOK ==
  ASSUME TypeOK, ShutdownStep
  PROVE  TypeOK'
<1> USE DEF TypeOK, Entry, States, Phases
<1> USE DEF lockVars, entryVars, monitorVars, dockerVars, localVars
<1>1. CASE ShutdownCall
  BY <1>1 DEF ShutdownCall
<1>2. CASE ShutdownDrained
  BY <1>2 DEF ShutdownDrained
<1>3. CASE ShutdownClear
  <2>1. generation' \in Generation
    BY <1>3, BoundsAssumption DEF ShutdownClear, Generation
  <2> QED
    BY <1>3, <2>1 DEF ShutdownClear
<1> QED
  BY <1>1, <1>2, <1>3 DEF ShutdownStep

\* Every step keeps the types.
LEMMA NextTypeOK == TypeOK /\ [Next]_vars => TypeOK'
<1> SUFFICES ASSUME TypeOK, [Next]_vars
             PROVE  TypeOK'
  OBVIOUS
<1>1. ASSUME NEW r \in Request, RequestStep(r)
      PROVE  TypeOK'
  BY <1>1, EnsureHealthyTypeOK, LeaseTypeOK, GiveBackTypeOK DEF RequestStep
<1>2. ASSUME NEW r \in Request, Contaminate(r)
      PROVE  TypeOK'
  BY <1>2 DEF Contaminate, TypeOK, lockVars, entryVars, monitorVars
<1>3. CASE Monitor
  BY <1>3, MonitorTypeOK
<1>4. CASE ShutdownStep
  BY <1>4, ShutdownTypeOK
<1>5. ASSUME NEW k \in Key, ContainerExits(k)
      PROVE  TypeOK'
  BY <1>5 DEF ContainerExits, TypeOK, lockVars, monitorVars, localVars
<1>6. CASE UNCHANGED vars
  BY <1>6 DEF vars, TypeOK, lockVars, entryVars, monitorVars, dockerVars, localVars
<1> QED
  BY <1>1, <1>2, <1>3, <1>4, <1>5, <1>6 DEF Next, Idle

\* Every variable of the pool keeps its type, whatever the environment does.
THEOREM TypeCorrect == Spec => []TypeOK
BY InitTypeOK, NextTypeOK, PTL DEF Spec

(***************************************************************************)
(* Requests know the entry they work on                                    *)
(***************************************************************************)
\* Where a request stands on an entry, and where it has none yet.
OnEntry == Holding \cup {"start", "wait", "publish", "slot", "drain", "kill"}

Pointers == TypeOK /\ KnownEntry /\ RegistryKeys

\* A step that moves only request r, keeps its entry or gives it a registered
\* one, and registers nothing, keeps the pointers.
LEMMA MoveKeepsPointers ==
  ASSUME Pointers, TypeOK', NEW r \in Request, NEW p \in Places, Goto(r, p),
         key' = key,
         \A k \in Key : reg'[k] \in {reg[k], NoRequest},
         \/ ent' = ent /\ (p \in OnEntry => pc[r] \in OnEntry)
         \/ /\ reg[key[r]] # NoRequest
            /\ ent' = [ent EXCEPT ![r] = reg[key[r]]]
  PROVE  Pointers'
<1> USE DEF Pointers, TypeOK, Entry, Goto
<1>1. RegistryKeys'
  BY RequestAssumption DEF RegistryKeys
<1>2. KnownEntry'
  <2>1. CASE ent' = ent /\ (p \in OnEntry => pc[r] \in OnEntry)
    BY <2>1 DEF KnownEntry, OnEntry
  <2>2. CASE /\ reg[key[r]] # NoRequest
             /\ ent' = [ent EXCEPT ![r] = reg[key[r]]]
    BY <2>2 DEF KnownEntry, RegistryKeys, OnEntry
  <2> QED
    BY <2>1, <2>2
<1> QED
  BY <1>1, <1>2

\* A step that moves nobody and registers nothing keeps the pointers.
LEMMA StillKeepsPointers ==
  ASSUME Pointers, TypeOK', pc' = pc, ent' = ent, key' = key,
         \A k \in Key : reg'[k] \in {reg[k], NoRequest}
  PROVE  Pointers'
BY RequestAssumption DEF Pointers, TypeOK, KnownEntry, RegistryKeys, Entry

\* A request keeps the pointers.
LEMMA RequestKeepsPointers ==
  ASSUME Pointers, TypeOK', NEW r \in Request, RequestStep(r)
  PROVE  Pointers'
<1> USE DEF Places, Starting, Holding, Destroying, OnEntry, localVars, lockVars
<1>1. CASE LeaseCall(r)
  BY <1>1, MoveKeepsPointers DEF LeaseCall
<1>2. CASE AcquireSlot(r)
  BY <1>2, MoveKeepsPointers DEF AcquireSlot
<1>3. CASE SlotTimeout(r)
  BY <1>3, MoveKeepsPointers DEF SlotTimeout
<1>4. CASE Connect(r)
  BY <1>4, MoveKeepsPointers DEF Connect
<1>5. CASE ConnectFails(r)
  BY <1>5, MoveKeepsPointers DEF ConnectFails
<1>6. CASE CountLease(r)
  BY <1>6, MoveKeepsPointers DEF CountLease
<1>7. CASE GetCreateLock(r)
  BY <1>7, MoveKeepsPointers DEF GetCreateLock
<1>8. CASE FindHealthy(r)
  BY <1>8, MoveKeepsPointers DEF FindHealthy, LockAndSee
<1>9. CASE FindDestroying(r)
  BY <1>9, MoveKeepsPointers DEF FindDestroying, LockAndSee
<1>10. CASE FindUnhealthy(r)
  BY <1>10, MoveKeepsPointers DEF FindUnhealthy, LockAndSee
<1>11. CASE FindStopped(r)
  BY <1>11, MoveKeepsPointers DEF FindStopped, LockAndSee
<1>12. CASE FindNone(r)
  BY <1>12, MoveKeepsPointers DEF FindNone, LockAndSee
<1>13. CASE ReuseContainer(r)
  BY <1>13, MoveKeepsPointers DEF ReuseContainer, StartStep
<1>14. CASE RestartContainer(r)
  BY <1>14, MoveKeepsPointers DEF RestartContainer, StartStep
<1>15. CASE CreateContainer(r)
  BY <1>15, MoveKeepsPointers DEF CreateContainer, StartStep
<1>16. CASE NoContainer(r)
  BY <1>16, MoveKeepsPointers DEF NoContainer, StartFailed
<1>17. CASE NotReady(r)
  BY <1>17, MoveKeepsPointers DEF NotReady, StartFailed
<1>18. CASE OpenPool(r)
  BY <1>18, MoveKeepsPointers DEF OpenPool
<1>19. CASE Publish(r)
  BY <1>19, MoveKeepsPointers DEF Publish
<1>20. CASE Release(r)
  BY <1>20, MoveKeepsPointers DEF Release
<1>21. CASE ReleaseSlot(r)
  BY <1>21, MoveKeepsPointers DEF ReleaseSlot
<1>22. CASE NothingToDestroy(r)
  BY <1>22, MoveKeepsPointers DEF NothingToDestroy
<1>23. CASE BeginDestroy(r)
  BY <1>23, MoveKeepsPointers DEF BeginDestroy
<1>24. CASE Drained(r)
  BY <1>24, MoveKeepsPointers DEF Drained
<1>25. CASE FinishDestroy(r)
  BY <1>25, MoveKeepsPointers DEF FinishDestroy
<1>26. CASE Register(r)
  BY <1>26, RequestAssumption DEF Register, Pointers, TypeOK, KnownEntry, RegistryKeys, Entry, Goto
<1> QED
  BY <1>1, <1>2, <1>3, <1>4, <1>5, <1>6, <1>7, <1>8, <1>9, <1>10, <1>11, <1>12, <1>13, <1>14, <1>15, <1>16, <1>17, <1>18, <1>19, <1>20, <1>21, <1>22, <1>23, <1>24, <1>25, <1>26
     DEF RequestStep, Lease, EnsureHealthy, GiveBack

\* Everything else keeps them: it moves no request and registers nothing.
LEMMA NextPointers == Pointers /\ [Next]_vars => Pointers'
<1> SUFFICES ASSUME Pointers, [Next]_vars
             PROVE  Pointers'
  OBVIOUS
<1>0. TypeOK'
  BY NextTypeOK DEF Pointers
<1> USE <1>0
<1>1. ASSUME NEW r \in Request, RequestStep(r)
      PROVE  Pointers'
  BY <1>1, RequestKeepsPointers
<1>2. ASSUME NEW r \in Request, Contaminate(r)
      PROVE  Pointers'
  BY <1>2, StillKeepsPointers DEF Contaminate, lockVars
<1>3. CASE Monitor
  <2>1. CASE Snapshot
    BY <2>1, StillKeepsPointers DEF Snapshot, lockVars, localVars
  <2>2. ASSUME NEW e \in Entry, ProbeClosed(e) \/ ProbeOpen(e)
        PROVE  Pointers'
    BY <2>2, StillKeepsPointers DEF ProbeClosed, ProbeOpen, lockVars, localVars
  <2>3. CASE MidnightCleanup
    <3>1. \A k \in Key : reg'[k] \in {reg[k], NoRequest}
      BY <2>3 DEF MidnightCleanup
    <3> QED
      BY <2>3, <3>1, StillKeepsPointers DEF MidnightCleanup, localVars
  <2> QED
    BY <1>3, <2>1, <2>2, <2>3 DEF Monitor
<1>4. CASE ShutdownStep
  <2>1. \A k \in Key : reg'[k] \in {reg[k], NoRequest}
    BY <1>4 DEF ShutdownStep, ShutdownCall, ShutdownDrained, ShutdownClear, lockVars
  <2>2. pc' = pc /\ ent' = ent /\ key' = key
    BY <1>4 DEF ShutdownStep, ShutdownCall, ShutdownDrained, ShutdownClear, localVars
  <2> QED
    BY <2>1, <2>2, StillKeepsPointers
<1>5. ASSUME NEW k \in Key, ContainerExits(k)
      PROVE  Pointers'
  BY <1>5, StillKeepsPointers DEF ContainerExits, lockVars, localVars
<1>6. CASE UNCHANGED vars
  BY <1>6, StillKeepsPointers DEF vars, lockVars, localVars
<1> QED
  BY <1>1, <1>2, <1>3, <1>4, <1>5, <1>6 DEF Next, Idle

\* Initially nobody works on an entry and nothing is registered.
LEMMA InitPointers == Init => Pointers
BY InitTypeOK, RequestAssumption DEF Init, Pointers, KnownEntry, RegistryKeys,
   Holding, Entry

(***************************************************************************)
(* Slots and lease counts                                                  *)
(***************************************************************************)
\* How the set of requests at the places of P on entry e follows a move of r.
At(P, e) == {r \in Request : pc[r] \in P /\ ent[r] = e}

\* Finite, whatever P is.
LEMMA AtFinite ==
  ASSUME NEW P, NEW e
  PROVE  IsFiniteSet(At(P, e)) /\ Cardinality(At(P, e)) \in Nat
<1>1. IsFiniteSet(At(P, e))
  BY RequestAssumption, FS_Subset DEF At
<1> QED
  BY <1>1, FS_CardinalityType

\* r stays inside P on its entry, or stays outside: nothing changes.
LEMMA AtSame ==
  ASSUME TypeOK, NEW r \in Request, NEW place, NEW P, NEW e, Goto(r, place),
         \/ pc[r] \in P /\ place \in P /\ ent' = ent
         \/ /\ pc[r] \notin P /\ place \notin P
            /\ \A q \in Request : q # r => ent'[q] = ent[q]
  PROVE  At(P, e)' = At(P, e)
BY DEF TypeOK, Goto, At

\* r enters P on its entry.
LEMMA AtEnter ==
  ASSUME TypeOK, NEW r \in Request, NEW place, NEW P, NEW e, Goto(r, place),
         pc[r] \notin P, place \in P, ent' = ent
  PROVE  Cardinality(At(P, e)') =
           Cardinality(At(P, e)) + (IF ent[r] = e THEN 1 ELSE 0)
<1>1. r \notin At(P, e)
  BY DEF At
<1>2. CASE ent[r] = e
  <2>1. At(P, e)' = At(P, e) \cup {r}
    BY <1>2 DEF TypeOK, Goto, At
  <2> QED
    BY <1>1, <1>2, <2>1, AtFinite, FS_AddElement
<1>3. CASE ent[r] # e
  <2>1. At(P, e)' = At(P, e)
    BY <1>3 DEF TypeOK, Goto, At
  <2> QED
    BY <1>3, <2>1, AtFinite
<1> QED
  BY <1>2, <1>3

\* r leaves P.
LEMMA AtLeave ==
  ASSUME TypeOK, NEW r \in Request, NEW place, NEW P, NEW e, Goto(r, place),
         pc[r] \in P, place \notin P, ent' = ent
  PROVE  Cardinality(At(P, e)') =
           Cardinality(At(P, e)) - (IF ent[r] = e THEN 1 ELSE 0)
<1>2. CASE ent[r] = e
  <2>1. r \in At(P, e) /\ At(P, e)' = At(P, e) \ {r}
    BY <1>2 DEF TypeOK, Goto, At
  <2> QED
    BY <1>2, <2>1, AtFinite, FS_RemoveElement
<1>3. CASE ent[r] # e
  <2>1. At(P, e)' = At(P, e)
    BY <1>3 DEF TypeOK, Goto, At
  <2> QED
    BY <1>3, <2>1, AtFinite
<1> QED
  BY <1>2, <1>3

\* Free slots and holders of an entry change together.
SlotSum == \A e \in Entry : sem[e] + Cardinality(At(Holding, e)) = MaxConcurrency
LeaseSum == \A e \in Entry : active[e] = Cardinality(At({"leased"}, e))
Sums == Pointers /\ SlotSum /\ LeaseSum /\ \A e \in Entry : sem[e] >= 0

\* A move that takes and gives no slot and counts no lease.
LEMMA MoveKeepsSums ==
  ASSUME Sums, Pointers', NEW r \in Request, NEW place, Goto(r, place),
         sem' = sem, active' = active, pc[r] # "leased", place # "leased",
         \/ pc[r] \in Holding /\ place \in Holding /\ ent' = ent
         \/ /\ pc[r] \notin Holding /\ place \notin Holding
            /\ \A q \in Request : q # r => ent'[q] = ent[q]
  PROVE  Sums'
<1>1. ASSUME NEW e \in Entry
      PROVE  At(Holding, e)' = At(Holding, e)
  BY AtSame DEF Sums, Pointers
<1>2. ASSUME NEW e \in Entry
      PROVE  At({"leased"}, e)' = At({"leased"}, e)
  <2>1. \A q \in Request : q # r => ent'[q] = ent[q]
    OBVIOUS
  <2> QED
    BY <2>1, AtSame DEF Sums, Pointers
<1> QED
  BY <1>1, <1>2 DEF Sums, SlotSum, LeaseSum

\* A step that moves nobody.
LEMMA StillKeepsSums ==
  ASSUME Sums, Pointers', pc' = pc, ent' = ent, sem' = sem, active' = active
  PROVE  Sums'
BY DEF Sums, SlotSum, LeaseSum, At

\* A request keeps the sums.
LEMMA RequestKeepsSums ==
  ASSUME Sums, Pointers', NEW r \in Request, RequestStep(r)
  PROVE  Sums'
<1> USE DEF Holding
<1>0. /\ TypeOK /\ SlotSum /\ LeaseSum
      /\ \A e \in Entry : /\ sem[e] \in Int /\ sem[e] >= 0 /\ active[e] \in Nat
                          /\ Cardinality(At(Holding, e)) \in Nat
                          /\ Cardinality(At({"leased"}, e)) \in Nat
  BY AtFinite DEF Sums, Pointers, TypeOK
<1>1. CASE AcquireSlot(r)
  <2>1. ent' = ent /\ active' = active
    BY <1>1 DEF AcquireSlot, localVars
  <2>2. ent[r] \in Entry
    BY <1>1 DEF AcquireSlot, Sums, Pointers, KnownEntry
  <2>3. ASSUME NEW e \in Entry
        PROVE  /\ sem'[e] = sem[e] - (IF ent[r] = e THEN 1 ELSE 0)
               /\ sem'[e] >= 0
    BY <1>0, <1>1, <2>2 DEF AcquireSlot, TypeOK
  <2>4. ASSUME NEW e \in Entry
        PROVE  Cardinality(At(Holding, e)') =
                 Cardinality(At(Holding, e)) + (IF ent[r] = e THEN 1 ELSE 0)
    BY <1>0, <1>1, <2>1, AtEnter, ZenonT(40) DEF AcquireSlot
  <2>5. ASSUME NEW e \in Entry
        PROVE  At({"leased"}, e)' = At({"leased"}, e)
    BY <1>0, <1>1, <2>1, AtSame DEF AcquireSlot
  <2>6. SlotSum'
    BY <1>0, <2>3, <2>4 DEF SlotSum
  <2>7. LeaseSum'
    BY <1>0, <2>1, <2>5 DEF LeaseSum
  <2> QED
    BY <2>3, <2>6, <2>7 DEF Sums
<1>2. CASE ConnectFails(r) \/ ReleaseSlot(r)
  <2>1. ent' = ent /\ active' = active
    BY <1>2 DEF ConnectFails, ReleaseSlot, localVars
  <2>2. ent[r] \in Entry
    BY <1>2 DEF ConnectFails, ReleaseSlot, Sums, Pointers, KnownEntry
  <2>3. ASSUME NEW e \in Entry
        PROVE  /\ sem'[e] = sem[e] + (IF ent[r] = e THEN 1 ELSE 0)
               /\ sem'[e] >= 0
    <3>1. sem' = [sem EXCEPT ![ent[r]] = @ + 1]
      BY <1>2 DEF ConnectFails, ReleaseSlot
    <3>2. sem \in [Entry -> Int]
      BY <1>0 DEF TypeOK
    <3> QED
      BY <1>0, <2>2, <3>1, <3>2
  <2>4. PICK place : Goto(r, place) /\ place \notin Holding /\ place \notin {"leased"}
    <3>1. Goto(r, "done") \/ Goto(r, "destroy")
      BY <1>2 DEF ConnectFails, ReleaseSlot
    <3> QED
      BY <3>1
  <2>5. pc[r] \in Holding /\ pc[r] \notin {"leased"}
    BY <1>2 DEF ConnectFails, ReleaseSlot
  <2>6. ASSUME NEW e \in Entry
        PROVE  Cardinality(At(Holding, e)') =
                 Cardinality(At(Holding, e)) - (IF ent[r] = e THEN 1 ELSE 0)
    BY <1>0, <2>1, <2>4, <2>5, AtLeave, ZenonT(40)
  <2>7. ASSUME NEW e \in Entry
        PROVE  At({"leased"}, e)' = At({"leased"}, e)
    BY <1>0, <2>1, <2>4, <2>5, AtSame
  <2>8. SlotSum'
    BY <1>0, <2>3, <2>6 DEF SlotSum
  <2>9. LeaseSum'
    BY <1>0, <2>1, <2>7 DEF LeaseSum
  <2> QED
    BY <2>3, <2>8, <2>9 DEF Sums
<1>3. CASE CountLease(r)
  <2>1. ent' = ent /\ sem' = sem
    BY <1>3 DEF CountLease, localVars
  <2>2. ent[r] \in Entry
    BY <1>3 DEF CountLease, Sums, Pointers, KnownEntry
  <2>3. ASSUME NEW e \in Entry
        PROVE  active'[e] = active[e] + (IF ent[r] = e THEN 1 ELSE 0)
    BY <1>0, <1>3, <2>2 DEF CountLease, TypeOK
  <2>4. ASSUME NEW e \in Entry
        PROVE  Cardinality(At({"leased"}, e)') =
                 Cardinality(At({"leased"}, e)) + (IF ent[r] = e THEN 1 ELSE 0)
    BY <1>0, <1>3, <2>1, AtEnter DEF CountLease
  <2>5. ASSUME NEW e \in Entry
        PROVE  At(Holding, e)' = At(Holding, e)
    BY <1>0, <1>3, <2>1, AtSame DEF CountLease
  <2>6. SlotSum'
    BY <1>0, <2>1, <2>5 DEF SlotSum
  <2>7. LeaseSum'
    BY <1>0, <2>3, <2>4 DEF LeaseSum
  <2> QED
    BY <1>0, <2>1, <2>6, <2>7 DEF Sums
<1>4. CASE Release(r)
  <2>1. ent' = ent /\ sem' = sem
    BY <1>4 DEF Release, localVars
  <2>2. ent[r] \in Entry
    BY <1>4 DEF Release, Sums, Pointers, KnownEntry
  <2>3. ASSUME NEW e \in Entry
        PROVE  Cardinality(At({"leased"}, e)') =
                 Cardinality(At({"leased"}, e)) - (IF ent[r] = e THEN 1 ELSE 0)
    BY <1>0, <1>4, <2>1, AtLeave, ZenonT(40) DEF Release
  <2>4. active[ent[r]] > 0
    <3>1. r \in At({"leased"}, ent[r])
      BY <1>4 DEF Release, At
    <3> QED
      BY <1>0, <2>2, <3>1, AtFinite, FS_EmptySet DEF LeaseSum
  <2>5. ASSUME NEW e \in Entry
        PROVE  active'[e] = active[e] - (IF ent[r] = e THEN 1 ELSE 0)
    BY <1>0, <1>4, <2>2, <2>4 DEF Release, TypeOK
  <2>6. ASSUME NEW e \in Entry
        PROVE  At(Holding, e)' = At(Holding, e)
    BY <1>0, <1>4, <2>1, AtSame DEF Release
  <2>7. SlotSum'
    BY <1>0, <2>1, <2>6 DEF SlotSum
  <2>8. LeaseSum'
    BY <1>0, <2>3, <2>5 DEF LeaseSum
  <2> QED
    BY <1>0, <2>1, <2>7, <2>8 DEF Sums
<1>5. CASE LeaseCall(r)
  BY <1>0, <1>5, MoveKeepsSums DEF LeaseCall, TypeOK, localVars, entryVars
<1>6. CASE SlotTimeout(r)
  BY <1>0, <1>6, MoveKeepsSums DEF SlotTimeout, TypeOK, localVars, entryVars
<1>7. CASE Connect(r)
  BY <1>0, <1>7, MoveKeepsSums DEF Connect, TypeOK, localVars, entryVars
<1>8. CASE GetCreateLock(r)
  BY <1>0, <1>8, MoveKeepsSums DEF GetCreateLock, TypeOK, localVars, entryVars
<1>9. CASE FindHealthy(r)
  BY <1>0, <1>9, MoveKeepsSums DEF FindHealthy, LockAndSee, TypeOK, localVars, entryVars
<1>10. CASE FindDestroying(r)
  BY <1>0, <1>10, MoveKeepsSums DEF FindDestroying, LockAndSee, TypeOK, localVars, entryVars
<1>11. CASE FindUnhealthy(r)
  BY <1>0, <1>11, MoveKeepsSums DEF FindUnhealthy, LockAndSee, TypeOK, localVars, entryVars
<1>12. CASE FindStopped(r)
  BY <1>0, <1>12, MoveKeepsSums DEF FindStopped, LockAndSee, TypeOK, localVars, entryVars
<1>13. CASE FindNone(r)
  BY <1>0, <1>13, MoveKeepsSums DEF FindNone, LockAndSee, TypeOK, localVars, entryVars
<1>14. CASE Register(r)
  BY <1>0, <1>14, MoveKeepsSums DEF Register, TypeOK, localVars, entryVars
<1>15. CASE ReuseContainer(r)
  BY <1>0, <1>15, MoveKeepsSums DEF ReuseContainer, StartStep, TypeOK, localVars, entryVars
<1>16. CASE RestartContainer(r)
  BY <1>0, <1>16, MoveKeepsSums DEF RestartContainer, StartStep, TypeOK, localVars, entryVars
<1>17. CASE CreateContainer(r)
  BY <1>0, <1>17, MoveKeepsSums DEF CreateContainer, StartStep, TypeOK, localVars, entryVars
<1>18. CASE NoContainer(r)
  BY <1>0, <1>18, MoveKeepsSums DEF NoContainer, StartFailed, TypeOK, localVars, entryVars
<1>19. CASE NotReady(r)
  BY <1>0, <1>19, MoveKeepsSums DEF NotReady, StartFailed, TypeOK, localVars, entryVars
<1>20. CASE OpenPool(r)
  BY <1>0, <1>20, MoveKeepsSums DEF OpenPool, TypeOK, localVars, entryVars
<1>21. CASE Publish(r)
  BY <1>0, <1>21, MoveKeepsSums DEF Publish, TypeOK, localVars, entryVars
<1>22. CASE NothingToDestroy(r)
  BY <1>0, <1>22, MoveKeepsSums DEF NothingToDestroy, TypeOK, localVars, entryVars
<1>23. CASE BeginDestroy(r)
  BY <1>0, <1>23, MoveKeepsSums DEF BeginDestroy, TypeOK, localVars, entryVars
<1>24. CASE Drained(r)
  BY <1>0, <1>24, MoveKeepsSums DEF Drained, TypeOK, localVars, entryVars
<1>25. CASE FinishDestroy(r)
  BY <1>0, <1>25, MoveKeepsSums DEF FinishDestroy, TypeOK, localVars, entryVars
<1> QED
  BY <1>1, <1>2, <1>3, <1>4, <1>5, <1>6, <1>7, <1>8, <1>9, <1>10, <1>11, <1>12, <1>13, <1>14, <1>15, <1>16, <1>17, <1>18, <1>19, <1>20, <1>21, <1>22, <1>23, <1>24, <1>25
     DEF RequestStep, Lease, EnsureHealthy, GiveBack

\* Every step keeps the sums.
LEMMA NextSums == Sums /\ [Next]_vars => Sums'
<1> SUFFICES ASSUME Sums, [Next]_vars
             PROVE  Sums'
  OBVIOUS
<1>0. Pointers'
  BY NextPointers DEF Sums
<1> USE <1>0 DEF lockVars, entryVars, localVars
<1>1. ASSUME NEW r \in Request, RequestStep(r)
      PROVE  Sums'
  BY <1>1, RequestKeepsSums
<1>2. ASSUME NEW r \in Request, Contaminate(r)
      PROVE  Sums'
  BY <1>2, StillKeepsSums DEF Contaminate
<1>3. CASE Monitor
  <2>1. CASE Snapshot
    BY <2>1, StillKeepsSums DEF Snapshot
  <2>2. ASSUME NEW e \in Entry, ProbeClosed(e) \/ ProbeOpen(e)
        PROVE  Sums'
    BY <2>2, StillKeepsSums DEF ProbeClosed, ProbeOpen
  <2>3. CASE MidnightCleanup
    BY <2>3, StillKeepsSums DEF MidnightCleanup
  <2> QED
    BY <1>3, <2>1, <2>2, <2>3 DEF Monitor
<1>4. CASE ShutdownStep
  BY <1>4, StillKeepsSums DEF ShutdownStep, ShutdownCall, ShutdownDrained, ShutdownClear
<1>5. ASSUME NEW k \in Key, ContainerExits(k)
      PROVE  Sums'
  BY <1>5, StillKeepsSums DEF ContainerExits
<1>6. CASE UNCHANGED vars
  BY <1>6, StillKeepsSums DEF vars
<1> QED
  BY <1>1, <1>2, <1>3, <1>4, <1>5, <1>6 DEF Next, Idle

\* Initially every slot is free and no lease is counted.
LEMMA InitSums == Init => Sums
<1> SUFFICES ASSUME Init
             PROVE  Sums
  OBVIOUS
<1>1. \A e \in Entry : At(Holding, e) = {} /\ At({"leased"}, e) = {}
  BY DEF Init, At, Holding
<1>2. \A e \in Entry : sem[e] = MaxConcurrency /\ active[e] = 0
  BY DEF Init
<1> QED
  BY <1>1, <1>2, InitPointers, FS_EmptySet, BoundsAssumption DEF Sums, SlotSum, LeaseSum

\* The inductive invariant behind both counts.
LEMMA SumsHold == Spec => []Sums
BY InitSums, NextSums, PTL DEF Spec

\* No path through lease() and release() leaks a slot or gives one back twice,
\* so an entry never serves more than MaxConcurrency requests and a release
\* never raises, however its entry is destroyed, replaced or shut down meanwhile.
THEOREM SlotsAccounted == Spec => []SlotAccounting
<1>1. Sums => SlotAccounting
  BY DEF Sums, SlotSum, SlotAccounting, At, Holders
<1> QED
  BY <1>1, SumsHold, PTL

\* active_leases is exactly the number of leases in use.
THEOREM LeasesCounted == Spec => []ActiveAccounting
<1>1. Sums => ActiveAccounting
  <2>1. \A e : At({"leased"}, e) = Leasing(e)
    BY DEF At, Leasing
  <2> QED
    BY <2>1 DEF Sums, LeaseSum, ActiveAccounting
<1> QED
  BY <1>1, SumsHold, PTL

(***************************************************************************)
(* What lease() finds HEALTHY has a pool                                   *)
(***************************************************************************)
Early == {"new", "enter", "lock", "register"}

Owned == Pointers /\ Unborn /\ PublishedHasPool /\ HealthyHasPool

\* A step that registers and publishes nothing, and takes a pool away only from
\* entries it also takes off the registry.
LEMMA FrameKeepsOwned ==
  ASSUME Owned, Pointers', NEW r \in Request, NEW p \in Places, key' = key,
         \/ pc' = pc /\ ent' = ent
         \/ /\ Goto(r, p) /\ p # "publish" /\ (p \in Early => pc[r] \in Early)
            /\ \/ ent' = ent
               \/ /\ reg[key[r]] # NoRequest
                  /\ ent' = [ent EXCEPT ![r] = reg[key[r]]],
         \A k \in Key : reg'[k] \in {reg[k], NoRequest},
         \A e \in Entry : Registered(e)' => pool'[e] = pool[e],
         \A e \in Entry : state'[e] = "HEALTHY" => state[e] = "HEALTHY"
  PROVE  Owned'
<1> USE DEF Pointers, TypeOK, Entry, Goto, Early
<1>1. \A e \in Entry : Registered(e)' => Registered(e)
  BY RequestAssumption DEF Registered, Owned
<1>2. HealthyHasPool'
  BY <1>1 DEF HealthyHasPool, Owned
<1>3. \A q \in Request : pc'[q] = "publish" => pc[q] = "publish" /\ ent'[q] = ent[q]
  BY DEF Owned
<1>4. \A q \in Request : pc[q] = "publish" => ent[q] \in Entry
  BY DEF Owned, KnownEntry
<1>5. PublishedHasPool'
  BY <1>1, <1>3, <1>4 DEF PublishedHasPool, Owned, Registered
<1>6. \A q \in Request : pc'[q] \in Early => pc[q] \in Early
  BY DEF Owned
<1>7. ASSUME NEW u \in Request, pc[u] \in Early, NEW q \in Request
      PROVE  ent'[q] # u
  <2>1. ent[q] # u /\ ~Registered(u)
    BY <1>7 DEF Owned, Unborn
  <2>2. ASSUME reg[key[q]] # NoRequest
        PROVE  reg[key[q]] # u
    BY <2>1, <2>2 DEF Owned, RegistryKeys, Registered
  <2> QED
    BY <2>1, <2>2 DEF Owned
<1>8. Unborn'
  BY <1>1, <1>6, <1>7 DEF Unborn, Owned
<1> QED
  BY <1>2, <1>5, <1>8 DEF Owned

\* What _destroy_entry does to pools and states.
LEMMA DestroyPools ==
  ASSUME TypeOK, NEW S \in SUBSET Entry, DestroyEntries(S)
  PROVE  /\ \A e \in Entry : e \notin S => pool'[e] = pool[e]
         /\ \A e \in Entry : state'[e] = "HEALTHY" => state[e] = "HEALTHY"
BY DEF TypeOK, DestroyEntries

\* A request keeps it.
LEMMA RequestKeepsOwned ==
  ASSUME Owned, Pointers', NEW r \in Request, RequestStep(r)
  PROVE  Owned'
<1> USE DEF Places, Starting, Holding, Destroying, Early, localVars, lockVars, entryVars
<1>0. /\ TypeOK /\ RegistryKeys /\ KnownEntry
      /\ \A e \in Entry : Registered(e)' <=> reg'[key'[e]] = e
  BY DEF Owned, Pointers, Registered
<1>1. CASE LeaseCall(r)
  BY <1>1, FrameKeepsOwned DEF LeaseCall
<1>2. CASE AcquireSlot(r)
  BY <1>2, FrameKeepsOwned DEF AcquireSlot
<1>3. CASE SlotTimeout(r)
  BY <1>3, FrameKeepsOwned DEF SlotTimeout
<1>4. CASE Connect(r)
  BY <1>4, FrameKeepsOwned DEF Connect
<1>5. CASE ConnectFails(r)
  BY <1>5, FrameKeepsOwned DEF ConnectFails
<1>6. CASE CountLease(r)
  BY <1>6, FrameKeepsOwned DEF CountLease
<1>7. CASE GetCreateLock(r)
  BY <1>7, FrameKeepsOwned DEF GetCreateLock
<1>8. CASE FindHealthy(r)
  BY <1>8, FrameKeepsOwned DEF FindHealthy, LockAndSee
<1>9. CASE FindDestroying(r)
  BY <1>9, FrameKeepsOwned DEF FindDestroying, LockAndSee
<1>10. CASE FindNone(r)
  BY <1>10, FrameKeepsOwned DEF FindNone, LockAndSee
<1>11. CASE ReuseContainer(r)
  BY <1>11, FrameKeepsOwned DEF ReuseContainer, StartStep
<1>12. CASE RestartContainer(r)
  BY <1>12, FrameKeepsOwned DEF RestartContainer, StartStep
<1>13. CASE CreateContainer(r)
  BY <1>13, FrameKeepsOwned DEF CreateContainer, StartStep
<1>14. CASE Release(r)
  BY <1>14, FrameKeepsOwned DEF Release
<1>15. CASE ReleaseSlot(r)
  BY <1>15, FrameKeepsOwned DEF ReleaseSlot
<1>16. CASE NothingToDestroy(r)
  BY <1>16, FrameKeepsOwned DEF NothingToDestroy
<1>17. CASE Drained(r)
  BY <1>17, FrameKeepsOwned DEF Drained
<1>18. CASE FindStopped(r)
  <2>1. \A e \in Entry : state'[e] = "HEALTHY" => state[e] = "HEALTHY"
    BY <1>0, <1>18 DEF FindStopped, LockAndSee, TypeOK
  <2> QED
    BY <1>18, <2>1, FrameKeepsOwned DEF FindStopped, LockAndSee
<1>19. CASE BeginDestroy(r)
  <2>1. \A e \in Entry : state'[e] = "HEALTHY" => state[e] = "HEALTHY"
    BY <1>0, <1>19 DEF BeginDestroy, TypeOK
  <2> QED
    BY <1>19, <2>1, FrameKeepsOwned DEF BeginDestroy
<1>20. CASE NoContainer(r)
  <2>1. \A e \in Entry : state'[e] = "HEALTHY" => state[e] = "HEALTHY"
    BY <1>0, <1>20 DEF NoContainer, StartFailed, TypeOK
  <2> QED
    BY <1>20, <2>1, FrameKeepsOwned DEF NoContainer, StartFailed
<1>21. CASE NotReady(r)
  <2>1. \A e \in Entry : state'[e] = "HEALTHY" => state[e] = "HEALTHY"
    BY <1>0, <1>21 DEF NotReady, StartFailed, TypeOK
  <2> QED
    BY <1>21, <2>1, FrameKeepsOwned DEF NotReady, StartFailed
<1>22. CASE FindUnhealthy(r)
  <2>1. /\ DestroyEntries({reg[key[r]]}) /\ reg[key[r]] \in Entry
        /\ reg' = [reg EXCEPT ![key[r]] = NoRequest] /\ key' = key /\ ent' = ent
    BY <1>0, <1>22 DEF FindUnhealthy, LockAndSee, TypeOK
  <2>2. \A e \in Entry : state'[e] = "HEALTHY" => state[e] = "HEALTHY"
    BY <1>0, <2>1, DestroyPools
  <2>3. \A e \in Entry : Registered(e)' => pool'[e] = pool[e]
    <3>1. key[reg[key[r]]] = key[r]
      BY <1>0, <2>1 DEF TypeOK, RegistryKeys
    <3>2. \A e \in Entry : Registered(e)' => e # reg[key[r]]
      BY <1>0, <2>1, <3>1, RequestAssumption DEF TypeOK, Entry
    <3> QED
      BY <1>0, <2>1, <3>2, DestroyPools
  <2> QED
    BY <1>0, <1>22, <2>1, <2>2, <2>3, FrameKeepsOwned DEF FindUnhealthy, LockAndSee, TypeOK
<1>23. CASE FinishDestroy(r)
  <2>1. /\ DestroyEntries({ent[r]}) /\ ent[r] \in Entry /\ key[ent[r]] = key[r]
        /\ reg' = [reg EXCEPT ![key[r]] = NoRequest] /\ key' = key /\ ent' = ent
    BY <1>0, <1>23 DEF FinishDestroy, KnownEntry
  <2>2. \A e \in Entry : state'[e] = "HEALTHY" => state[e] = "HEALTHY"
    BY <1>0, <2>1, DestroyPools
  <2>3. \A e \in Entry : Registered(e)' => pool'[e] = pool[e]
    BY <1>0, <2>1, DestroyPools, RequestAssumption DEF TypeOK, Entry
  <2> QED
    BY <1>0, <1>23, <2>1, <2>2, <2>3, FrameKeepsOwned DEF FinishDestroy, TypeOK
<1>24. CASE Register(r)
  <2> USE <1>0, <1>24, RequestAssumption DEF Register, TypeOK, Entry, Goto, Owned
  <2>1. \A e \in Entry : Registered(e)' => Registered(e) \/ e = r
    BY DEF Registered
  <2>2. \A e \in Entry : state'[e] = "HEALTHY" => state[e] = "HEALTHY" /\ e # r
    OBVIOUS
  <2>3. HealthyHasPool'
    BY <2>1, <2>2 DEF HealthyHasPool
  <2>4. \A q \in Request : pc'[q] = "publish" => pc[q] = "publish" /\ q # r /\ ent'[q] = ent[q]
    OBVIOUS
  <2>5. \A q \in Request : ent[q] # r
    BY DEF Unborn
  <2>6. PublishedHasPool'
    BY <2>1, <2>4, <2>5 DEF PublishedHasPool, KnownEntry
  <2>7. Unborn'
    BY DEF Unborn, Registered
  <2> QED
    BY <2>3, <2>6, <2>7
<1>25. CASE OpenPool(r)
  <2> USE <1>0, <1>25 DEF OpenPool, TypeOK, Entry, Goto, Owned
  <2>1. HealthyHasPool'
    BY DEF HealthyHasPool, Registered
  <2>2. PublishedHasPool'
    BY DEF PublishedHasPool, KnownEntry, Registered
  <2>3. Unborn'
    BY DEF Unborn, Registered
  <2> QED
    BY <2>1, <2>2, <2>3
<1>26. CASE Publish(r)
  <2> USE <1>0, <1>26 DEF Publish, TypeOK, Entry, Goto, Owned
  <2>1. HealthyHasPool'
    BY DEF HealthyHasPool, PublishedHasPool, KnownEntry, Registered
  <2>2. PublishedHasPool'
    BY DEF PublishedHasPool, Registered
  <2>3. Unborn'
    BY DEF Unborn, Registered
  <2> QED
    BY <2>1, <2>2, <2>3
<1> QED
  BY <1>1, <1>2, <1>3, <1>4, <1>5, <1>6, <1>7, <1>8, <1>9, <1>10, <1>11, <1>12, <1>13, <1>14, <1>15, <1>16, <1>17, <1>18, <1>19, <1>20, <1>21, <1>22, <1>23, <1>24, <1>25, <1>26
     DEF RequestStep, Lease, EnsureHealthy, GiveBack

\* Every step keeps it.
LEMMA NextOwned == Owned /\ [Next]_vars => Owned'
<1> SUFFICES ASSUME Owned, [Next]_vars
             PROVE  Owned'
  OBVIOUS
<1>0. Pointers' /\ TypeOK
  BY NextPointers DEF Owned, Pointers
<1> USE <1>0 DEF lockVars, entryVars, localVars, Registered
<1>1. ASSUME NEW r \in Request, RequestStep(r)
      PROVE  Owned'
  BY <1>1, RequestKeepsOwned
<1>2. CASE UNCHANGED <<pc, key, ent, reg, pool, state>>
  BY <1>2 DEF Owned, Unborn, PublishedHasPool, HealthyHasPool
<1>3. ASSUME NEW r \in Request, Contaminate(r)
      PROVE  Owned'
  BY <1>2, <1>3 DEF Contaminate
<1>4. ASSUME NEW e \in Entry, ProbeClosed(e)
      PROVE  Owned'
  <2>1. \A f \in Entry : state'[f] = "HEALTHY" => state[f] = "HEALTHY"
    BY <1>4 DEF ProbeClosed, TypeOK
  <2> QED
    BY <1>4, <2>1 DEF ProbeClosed, Owned, Unborn, PublishedHasPool, HealthyHasPool
<1>5. CASE Snapshot \/ \E e \in Entry : ProbeOpen(e)
  BY <1>2, <1>5 DEF Snapshot, ProbeOpen
<1>6. CASE MidnightCleanup
  <2>1. PICK S \in SUBSET Entry :
          /\ DestroyEntries(S)
          /\ reg' = [k \in Key |-> IF reg[k] \in S THEN NoRequest ELSE reg[k]]
    BY <1>6 DEF MidnightCleanup, RegisteredHealthy
  <2>2. /\ \A e \in Entry : e \notin S => pool'[e] = pool[e]
        /\ \A e \in Entry : state'[e] = "HEALTHY" => state[e] = "HEALTHY"
    BY <2>1, DestroyPools
  <2>3. /\ pc' = pc /\ ent' = ent /\ key' = key
    BY <1>6 DEF MidnightCleanup
  <2>4. \A e \in Entry : Registered(e)' => Registered(e) /\ e \notin S
    BY <2>1, <2>3, RequestAssumption DEF TypeOK, Entry
  <2> QED
    BY <2>2, <2>3, <2>4
       DEF Owned, Unborn, PublishedHasPool, HealthyHasPool, Pointers, KnownEntry, Entry
<1>7. CASE ShutdownCall \/ ShutdownDrained
  BY <1>2, <1>7 DEF ShutdownCall, ShutdownDrained
<1>8. CASE ShutdownClear
  <2>1. \A e \in Entry : ~Registered(e)'
    BY <1>8, RequestAssumption DEF ShutdownClear, TypeOK, Entry
  <2> QED
    BY <1>8, <2>1
       DEF ShutdownClear, Owned, Unborn, PublishedHasPool, HealthyHasPool,
           Pointers, KnownEntry, Entry
<1>9. ASSUME NEW k \in Key, ContainerExits(k)
      PROVE  Owned'
  BY <1>2, <1>9 DEF ContainerExits
<1>10. CASE UNCHANGED vars
  BY <1>2, <1>10 DEF vars
<1> QED
  BY <1>1, <1>3, <1>4, <1>5, <1>6, <1>7, <1>8, <1>9, <1>10
     DEF Next, Monitor, ShutdownStep, Idle

\* Initially nothing is registered.
LEMMA InitOwned == Init => Owned
BY InitPointers, RequestAssumption
   DEF Init, Owned, Unborn, PublishedHasPool, HealthyHasPool, Registered, Entry

\* The entry that lease() finds HEALTHY has a connection pool, although the
\* start that publishes it runs outside the pool lock while destroy_container,
\* the cleanup, the replacement and shutdown() drop pools.
THEOREM HealthyPools == Spec => []HealthyHasPool
<1>1. Spec => []Owned
  BY InitOwned, NextOwned, PTL DEF Spec
<1>2. Owned => HealthyHasPool
  BY DEF Owned
<1> QED
  BY <1>1, <1>2, PTL

(***************************************************************************)
(* The create lock                                                         *)
(***************************************************************************)
\* A lock that is held belongs to a start of its key that goes on: every way out
\* of a start leaves it.
HeldByStarter ==
  \A k \in Key, g \in Generation : createLock[k][g] # NoRequest =>
    /\ pc[createLock[k][g]] \in Starting
    /\ key[createLock[k][g]] = k /\ gen[createLock[k][g]] = g

Locked == TypeOK /\ LockHeld /\ HeldByStarter

\* A move that neither enters nor leaves a start, and touches no lock.
LEMMA MoveKeepsLocked ==
  ASSUME Locked, TypeOK', NEW r \in Request, NEW p \in Places, Goto(r, p),
         createLock' = createLock, key' = key,
         p \in Starting <=> pc[r] \in Starting,
         gen' = gen \/ (pc[r] \notin Starting /\ gen' = [gen EXCEPT ![r] = generation])
  PROVE  Locked'
BY DEF Locked, TypeOK, LockHeld, HeldByStarter, Goto

\* A move that takes the free lock of r.
LEMMA TakeKeepsLocked ==
  ASSUME Locked, TypeOK', NEW r \in Request, NEW p \in Starting, Goto(r, p),
         createLock[key[r]][gen[r]] = NoRequest,
         createLock' = [createLock EXCEPT ![key[r]][gen[r]] = r],
         key' = key, gen' = gen
  PROVE  Locked'
BY RequestAssumption DEF Locked, TypeOK, LockHeld, HeldByStarter, Goto

\* A move that leaves a start and its lock.
LEMMA DropKeepsLocked ==
  ASSUME Locked, TypeOK', NEW r \in Request, NEW p \in Places, Goto(r, p),
         pc[r] \in Starting, p \notin Starting, ReleaseCreateLock(r),
         key' = key, gen' = gen
  PROVE  Locked'
BY DEF Locked, TypeOK, LockHeld, HeldByStarter, Goto, ReleaseCreateLock

\* A request keeps the locks.
LEMMA RequestKeepsLocked ==
  ASSUME Locked, TypeOK', NEW r \in Request, RequestStep(r)
  PROVE  Locked'
<1> USE DEF Places, Starting, Holding, Destroying, localVars, lockVars
<1>1. CASE LeaseCall(r)
  BY <1>1, MoveKeepsLocked DEF LeaseCall
<1>2. CASE AcquireSlot(r)
  BY <1>2, MoveKeepsLocked DEF AcquireSlot
<1>3. CASE SlotTimeout(r)
  BY <1>3, MoveKeepsLocked DEF SlotTimeout
<1>4. CASE Connect(r)
  BY <1>4, MoveKeepsLocked DEF Connect
<1>5. CASE ConnectFails(r)
  BY <1>5, MoveKeepsLocked DEF ConnectFails
<1>6. CASE CountLease(r)
  BY <1>6, MoveKeepsLocked DEF CountLease
<1>7. CASE GetCreateLock(r)
  BY <1>7, MoveKeepsLocked DEF GetCreateLock
<1>8. CASE FindHealthy(r)
  BY <1>8, MoveKeepsLocked DEF FindHealthy, LockAndSee
<1>9. CASE FindDestroying(r)
  BY <1>9, MoveKeepsLocked DEF FindDestroying, LockAndSee
<1>10. CASE Register(r)
  BY <1>10, MoveKeepsLocked DEF Register
<1>11. CASE ReuseContainer(r)
  BY <1>11, MoveKeepsLocked DEF ReuseContainer, StartStep
<1>12. CASE RestartContainer(r)
  BY <1>12, MoveKeepsLocked DEF RestartContainer, StartStep
<1>13. CASE CreateContainer(r)
  BY <1>13, MoveKeepsLocked DEF CreateContainer, StartStep
<1>14. CASE OpenPool(r)
  BY <1>14, MoveKeepsLocked DEF OpenPool
<1>15. CASE Release(r)
  BY <1>15, MoveKeepsLocked DEF Release
<1>16. CASE ReleaseSlot(r)
  BY <1>16, MoveKeepsLocked DEF ReleaseSlot
<1>17. CASE NothingToDestroy(r)
  BY <1>17, MoveKeepsLocked DEF NothingToDestroy
<1>18. CASE BeginDestroy(r)
  BY <1>18, MoveKeepsLocked DEF BeginDestroy
<1>19. CASE Drained(r)
  BY <1>19, MoveKeepsLocked DEF Drained
<1>20. CASE FinishDestroy(r)
  BY <1>20, MoveKeepsLocked DEF FinishDestroy
<1>21. CASE FindUnhealthy(r)
  BY <1>21, TakeKeepsLocked DEF FindUnhealthy, LockAndSee
<1>22. CASE FindStopped(r)
  BY <1>22, TakeKeepsLocked DEF FindStopped, LockAndSee
<1>23. CASE FindNone(r)
  BY <1>23, TakeKeepsLocked DEF FindNone, LockAndSee
<1>24. CASE NoContainer(r)
  BY <1>24, DropKeepsLocked DEF NoContainer, StartFailed
<1>25. CASE NotReady(r)
  BY <1>25, DropKeepsLocked DEF NotReady, StartFailed
<1>26. CASE Publish(r)
  BY <1>26, DropKeepsLocked DEF Publish
<1> QED
  BY <1>1, <1>2, <1>3, <1>4, <1>5, <1>6, <1>7, <1>8, <1>9, <1>10, <1>11, <1>12, <1>13, <1>14, <1>15, <1>16, <1>17, <1>18, <1>19, <1>20, <1>21, <1>22, <1>23, <1>24, <1>25, <1>26
     DEF RequestStep, Lease, EnsureHealthy, GiveBack

\* Every step keeps the locks; shutdown() only changes the generation.
LEMMA NextLocked == Locked /\ [Next]_vars => Locked'
<1> SUFFICES ASSUME Locked, [Next]_vars
             PROVE  Locked'
  OBVIOUS
<1>0. TypeOK'
  BY NextTypeOK DEF Locked
<1>1. ASSUME NEW r \in Request, RequestStep(r)
      PROVE  Locked'
  BY <1>0, <1>1, RequestKeepsLocked
<1>2. CASE UNCHANGED <<pc, key, gen, createLock>>
  BY <1>0, <1>2 DEF Locked, LockHeld, HeldByStarter
<1>3. ASSUME ~ \E r \in Request : RequestStep(r)
      PROVE  UNCHANGED <<pc, key, gen, createLock>>
  BY <1>3 DEF Next, Monitor, Snapshot, ProbeClosed, ProbeOpen, MidnightCleanup,
       ShutdownStep, ShutdownCall, ShutdownDrained, ShutdownClear, ContainerExits,
       Contaminate, Idle, vars, lockVars, localVars
<1> QED
  BY <1>1, <1>2, <1>3

\* Initially every lock is free.
LEMMA InitLocked == Init => Locked
BY InitTypeOK DEF Init, Locked, LockHeld, HeldByStarter, Starting

\* The inductive invariant of the locks.
LEMMA LockedHolds == Spec => []Locked
BY InitLocked, NextLocked, PTL DEF Spec

\* One thread at a time starts the container of a key: the create lock is held
\* from the look at the registry up to HEALTHY or to the failure of the start.
THEOREM OneStarterAtATime == Spec => []OneStarter
<1>1. Locked => OneStarter
  BY DEF Locked, LockHeld, OneStarter
<1> QED
  BY <1>1, LockedHolds, PTL

(***************************************************************************)
(* Waiting                                                                 *)
(***************************************************************************)
\* Create lock, slots, drains and shutdown never wait in a circle, for any number
\* of requests and keys: a held lock belongs to a start, which waits for nobody,
\* and a counted lease to a request that is about to give it back.
THEOREM WaitingIsServed == Spec => []NoCircularWait
<1>1. ASSUME Sums, NEW e \in Entry, active[e] # 0
      PROVE  \E q \in Leasing(e) : q \in Request /\ ~Blocked(q)
  <2>1. At({"leased"}, e) # {}
    BY <1>1, FS_EmptySet DEF Sums, LeaseSum
  <2>2. PICK q \in Request : pc[q] = "leased" /\ ent[q] = e
    BY <2>1 DEF At
  <2> QED
    BY <2>2 DEF Leasing, Blocked
<1>2. ASSUME Sums, Locked, NEW r \in Request, Blocked(r)
      PROVE  \E q \in Request :
               /\ ~Blocked(q)
               /\ \/ pc[r] = "lock" /\ pc[q] \in Starting /\ key[q] = key[r] /\ gen[q] = gen[r]
                  \/ pc[r] = "drain" /\ q \in Leasing(ent[r])
  <2>1. CASE pc[r] = "lock" /\ createLock[key[r]][gen[r]] # NoRequest
    <3> DEFINE q == createLock[key[r]][gen[r]]
    <3>1. q \in Request
      BY <1>2, <2>1 DEF Locked, TypeOK
    <3>2. pc[q] \in Starting /\ key[q] = key[r] /\ gen[q] = gen[r]
      BY <1>2, <2>1 DEF Locked, HeldByStarter, TypeOK
    <3>3. ~Blocked(q)
      BY <3>2 DEF Blocked, Starting
    <3> QED
      BY <2>1, <3>1, <3>2, <3>3
  <2>2. CASE pc[r] = "drain" /\ active[ent[r]] # 0
    <3>1. ent[r] \in Entry
      BY <1>2, <2>2 DEF Sums, Pointers, KnownEntry
    <3> QED
      BY <1>1, <1>2, <2>2, <3>1
  <2> QED
    BY <1>2, <2>1, <2>2 DEF Blocked
<1>3. Sums /\ Locked => NoCircularWait
  BY <1>1, <1>2 DEF NoCircularWait
<1> QED
  BY <1>3, SumsHold, LockedHolds, PTL

\* How far a request has come.
Rank ==
  [ new |-> 0, enter |-> 1, lock |-> 2, register |-> 3, start |-> 4, wait |-> 5,
    publish |-> 6, slot |-> 7, connect |-> 8, count |-> 9, leased |-> 10, unslot |-> 11,
    destroy |-> 12, drain |-> 13, kill |-> 14, done |-> 15 ]

Advances(r) == pc'[r] = pc[r] \/ Rank[pc[r]] < Rank[pc'[r]]

\* No request comes back to where it was, whatever others do to its entry: lease()
\* retries nothing, so that a request takes at most fifteen moves.  With
\* WaitingIsServed, threads that keep running are enough for each one to end.
THEOREM NothingIsRetried == Spec => [][\A r \in Request : Advances(r)]_vars
<1>1. ASSUME TypeOK, NEW r \in Request, NEW p, Goto(r, p), Rank[pc[r]] < Rank[p]
      PROVE  \A q \in Request : Advances(q)
  BY <1>1 DEF Goto, TypeOK, Advances
<1>2. ASSUME TypeOK, NEW r \in Request, RequestStep(r)
      PROVE  \A q \in Request : Advances(q)
  <2> USE <1>1, <1>2 DEF Rank
  <2>1. CASE Lease(r)
    BY <2>1 DEF Lease, LeaseCall, AcquireSlot, SlotTimeout, Connect, ConnectFails, CountLease
  <2>2. CASE EnsureHealthy(r)
    <3>1. CASE GetCreateLock(r) \/ FindHealthy(r) \/ FindDestroying(r)
      BY <3>1 DEF GetCreateLock, FindHealthy, FindDestroying, LockAndSee
    <3>2. CASE FindUnhealthy(r) \/ FindStopped(r) \/ FindNone(r) \/ Register(r)
      BY <3>2 DEF FindUnhealthy, FindStopped, FindNone, LockAndSee, Register
    <3>3. CASE ReuseContainer(r) \/ RestartContainer(r) \/ CreateContainer(r)
      <4>1. pc[r] = "start" /\ Goto(r, "wait")
        BY <3>3 DEF ReuseContainer, RestartContainer, CreateContainer, StartStep
      <4> QED
        BY <4>1
    <3>4. CASE NoContainer(r) \/ NotReady(r) \/ OpenPool(r) \/ Publish(r)
      BY <3>4 DEF NoContainer, NotReady, StartFailed, OpenPool, Publish
    <3> QED
      BY <2>2, <3>1, <3>2, <3>3, <3>4 DEF EnsureHealthy
  <2>3. CASE GiveBack(r)
    BY <2>3 DEF GiveBack, Release, ReleaseSlot, NothingToDestroy, BeginDestroy, Drained,
       FinishDestroy
  <2> QED
    BY <2>1, <2>2, <2>3 DEF RequestStep
<1>3. ASSUME pc' = pc
      PROVE  \A q \in Request : Advances(q)
  BY <1>3 DEF Advances
<1>4. TypeOK /\ [Next]_vars => [\A r \in Request : Advances(r)]_vars
  BY <1>2, <1>3 DEF Next, Monitor, Snapshot, ProbeClosed, ProbeOpen, MidnightCleanup,
     ShutdownStep, ShutdownCall, ShutdownDrained, ShutdownClear, ContainerExits,
     Contaminate, Idle, vars, localVars
<1> QED
  BY <1>4, TypeCorrect, PTL DEF Spec
=============================================================================
