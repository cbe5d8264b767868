---------------------- MODULE ContainerPoolLeasesProofs ----------------------
(***************************************************************************)
(* Theorems about the containers behind the entries of ContainerPool: what *)
(* a registered entry stands for, who removes residue, and that the pool   *)
(* gives its callers what LeaseService says.  They speak of the pool until *)
(* the first shutdown() has cleared the registry: it clears the create     *)
(* locks too, and starts of before and after can then meet.                *)
(***************************************************************************)
EXTENDS ContainerPoolLeases, ContainerPoolProofs

\* A start under way on an entry, and requests that work on a finished one.
Launching == {"start", "wait", "publish"}
Working == {"slot"} \cup Holding

FirstLife == generation = 0

(***************************************************************************)
(* Starts and the registry                                                 *)
(***************************************************************************)
\* Every create lock comes from the first dictionary.
FirstLocks == \A r \in Request : gen[r] = 0

\* While a start goes on, its key has no entry that lease() would use ...
StartAlone ==
  \A r \in Request, e \in Entry :
    pc[r] \in Starting /\ Registered(e) /\ key[e] = key[r] => state[e] # "HEALTHY"

\* ... and none at all before it registers its own.
RegisterEmpty == \A r \in Request : pc[r] = "register" => reg[key[r]] = NoRequest

\* Nobody works on the entry that a start goes on for ...
StartFresh ==
  \A r, q \in Request : pc[r] \in Launching /\ pc[q] \in Working => ent[q] # ent[r]

\* ... and a registered entry that somebody works on is not started again.
Published ==
  \A q \in Request : pc[q] \in Working /\ Registered(ent[q]) =>
    state[ent[q]] \in {"HEALTHY", "UNHEALTHY", "DESTROYING"}

Started == FirstLocks /\ StartAlone /\ RegisterEmpty /\ StartFresh /\ Published

Starts == Owned /\ Locked /\ (FirstLife => Started)

\* What the proofs about one step use.
LEMMA StartFacts ==
  ASSUME Starts, FirstLife
  PROVE  /\ TypeOK /\ KnownEntry /\ RegistryKeys /\ Unborn /\ OneStarter /\ Started
         /\ \A r, q \in Request :
              pc[r] \in Starting /\ pc[q] \in Starting /\ key[r] = key[q] => r = q
BY DEF Starts, Started, FirstLocks, Owned, Pointers, Locked, LockHeld, OneStarter

\* A move that registers nothing, changes no state and starts nothing.
LEMMA MoveKeepsStarted ==
  ASSUME Starts, FirstLife, NEW r \in Request, NEW p \in Places, Goto(r, p),
         reg' = reg, state' = state, key' = key, generation' = generation,
         gen' = gen \/ gen' = [gen EXCEPT ![r] = generation],
         p # "register", p \in Starting => pc[r] \in Starting,
         \A q \in Request : q # r => ent'[q] = ent[q],
         p \in Launching => pc[r] \in Launching /\ ent' = ent,
         p \in Working => pc[r] \in Working /\ ent' = ent
  PROVE  Started'
<1> USE StartFacts DEF TypeOK, Goto, Started, FirstLife
<1>1. FirstLocks'
  BY DEF FirstLocks
<1>2. StartAlone'
  BY DEF StartAlone, Registered
<1>3. RegisterEmpty'
  BY DEF RegisterEmpty
<1>4. StartFresh'
  BY DEF StartFresh
<1>5. Published'
  BY DEF Published, Registered
<1> QED
  BY <1>1, <1>2, <1>3, <1>4, <1>5

\* A step that moves nobody and registers nothing, and makes no entry HEALTHY
\* or, of those that stay registered, STOPPED or STARTING.
LEMMA StillKeepsStarted ==
  ASSUME Starts, FirstLife, UNCHANGED <<pc, key, ent, gen>>,
         \A k \in Key : reg'[k] \in {reg[k], NoRequest},
         \A e \in Entry : state'[e] = "HEALTHY" => state[e] = "HEALTHY",
         \A e \in Entry : Registered(e)' =>
           state'[e] \in {state[e], "HEALTHY", "UNHEALTHY", "DESTROYING"}
  PROVE  Started'
<1> USE StartFacts DEF TypeOK, Started
<1>1. \A e \in Entry : Registered(e)' => Registered(e)
  BY RequestAssumption DEF Registered, Entry
<1>2. FirstLocks'
  BY DEF FirstLocks
<1>3. StartAlone'
  BY <1>1 DEF StartAlone
<1>4. RegisterEmpty'
  BY DEF RegisterEmpty
<1>5. StartFresh'
  BY DEF StartFresh
<1>6. Published'
  BY <1>1 DEF Published, KnownEntry, Working
<1> QED
  BY <1>2, <1>3, <1>4, <1>5, <1>6

\* A request that found an entry HEALTHY goes for a slot of it.
LEMMA FindHealthyStarted ==
  ASSUME Starts, FirstLife, NEW r \in Request, FindHealthy(r)
  PROVE  Started'
<1> USE StartFacts, RequestAssumption DEF TypeOK, Goto, Started, FindHealthy, LockAndSee, Starting
<1>1. FirstLocks'
  BY DEF FirstLocks
<1>2. StartAlone'
  BY DEF StartAlone, Registered
<1>3. RegisterEmpty'
  BY DEF RegisterEmpty
<1>4. StartFresh'
  BY DEF StartFresh, StartAlone, Launching, Working, Holding, KnownEntry, RegistryKeys, Registered, Entry
<1>5. Published'
  BY DEF Published, Registered, Working, Holding
<1> QED
  BY <1>1, <1>2, <1>3, <1>4, <1>5

\* A request that replaces an UNHEALTHY entry takes it off the registry.
LEMMA FindUnhealthyStarted ==
  ASSUME Starts, FirstLife, NEW r \in Request, FindUnhealthy(r)
  PROVE  Started'
<1> USE StartFacts, RequestAssumption DEF TypeOK, Goto, Started
<1>1. /\ reg[key[r]] \in Entry /\ DestroyEntries({reg[key[r]]})
      /\ reg' = [reg EXCEPT ![key[r]] = NoRequest]
      /\ UNCHANGED <<key, ent, gen>> /\ Goto(r, "register")
  BY DEF FindUnhealthy, LockAndSee
<1>2. /\ \A e \in Entry : state'[e] = "HEALTHY" => state[e] = "HEALTHY"
      /\ \A e \in Entry : e # reg[key[r]] => state'[e] = state[e]
  BY <1>1, DestroyPools DEF DestroyEntries
<1>3. \A e \in Entry : Registered(e)' => Registered(e) /\ key[e] # key[r]
  BY <1>1 DEF Registered, RegistryKeys, Entry
<1>4. FirstLocks'
  BY <1>1 DEF FirstLocks
<1>5. StartAlone'
  BY <1>1, <1>2, <1>3 DEF StartAlone, Starting
<1>6. RegisterEmpty'
  BY <1>1 DEF RegisterEmpty
<1>7. StartFresh'
  BY <1>1 DEF StartFresh, Launching, Working, Holding
<1>8. Published'
  <2>1. \A e \in Entry : Registered(e)' => state'[e] = state[e]
    BY <1>1, <1>2, <1>3 DEF RegistryKeys
  <2>2. \A q \in Request : pc'[q] \in Working => pc[q] \in Working /\ ent'[q] = ent[q]
    BY <1>1 DEF Working, Holding
  <2> QED
    BY <1>3, <2>1, <2>2 DEF Published, KnownEntry, Working
<1> QED
  BY <1>4, <1>5, <1>6, <1>7, <1>8

\* A request that starts an entry again finds nobody working on it.
LEMMA FindStoppedStarted ==
  ASSUME Starts, FirstLife, NEW r \in Request, FindStopped(r)
  PROVE  Started'
<1> USE StartFacts, RequestAssumption DEF TypeOK, Goto, Started
<1>1. /\ reg[key[r]] \in Entry /\ state[reg[key[r]]] \in {"STOPPED", "STARTING"}
      /\ ent' = [ent EXCEPT ![r] = reg[key[r]]]
      /\ state' = [state EXCEPT ![reg[key[r]]] = "STARTING"]
      /\ UNCHANGED <<key, reg, gen>> /\ Goto(r, "start")
  BY DEF FindStopped, LockAndSee
<1>2. FirstLocks'
  BY <1>1 DEF FirstLocks
<1>3. StartAlone'
  BY <1>1 DEF StartAlone, Starting, Registered, Entry
<1>4. RegisterEmpty'
  BY <1>1 DEF RegisterEmpty
<1>5. Registered(reg[key[r]])
  BY <1>1 DEF Registered, RegistryKeys
<1>6. \A q \in Request : pc[q] \in Working => ent[q] # reg[key[r]]
  BY <1>1, <1>5 DEF Published
<1>7. StartFresh'
  BY <1>1, <1>6 DEF StartFresh, Launching, Working, Holding
<1>8. Published'
  BY <1>1, <1>6 DEF Published, Working, Holding, Registered
<1> QED
  BY <1>2, <1>3, <1>4, <1>7, <1>8

\* A request that found nothing registers an entry of its own.
LEMMA NewEntryStarted ==
  ASSUME Starts, FirstLife, NEW r \in Request, FindNone(r) \/ Register(r)
  PROVE  Started'
<1> USE StartFacts, RequestAssumption DEF TypeOK, Goto, Started, Starting
<1>1. CASE FindNone(r)
  <2> USE <1>1 DEF FindNone, LockAndSee
  <2>1. FirstLocks' /\ RegisterEmpty'
    BY DEF FirstLocks, RegisterEmpty
  <2>2. StartAlone'
    BY DEF StartAlone, Registered, Entry
  <2>3. StartFresh' /\ Published'
    BY DEF StartFresh, Launching, Published, Working, Holding, Registered
  <2> QED
    BY <2>1, <2>2, <2>3
<1>2. CASE Register(r)
  <2> USE <1>2 DEF Register
  <2>1. FirstLocks' /\ RegisterEmpty'
    BY DEF FirstLocks, RegisterEmpty
  <2>2. StartAlone'
    BY DEF StartAlone, Registered, Entry
  <2>3. \A q \in Request : ent[q] # r
    BY DEF Unborn
  <2>4. StartFresh'
    BY <2>3 DEF StartFresh, Launching, Working, Holding
  <2>5. \A q \in Request : pc'[q] \in Working => pc[q] \in Working /\ ent'[q] = ent[q] /\ q # r
    BY DEF Working, Holding
  <2>6. Published'
    BY <2>3, <2>5 DEF Published, Registered, KnownEntry, Working
  <2> QED
    BY <2>1, <2>2, <2>4, <2>6
<1> QED
  BY <1>1, <1>2

\* A start that ends, well or not, was the only one for its entry.
LEMMA StartEndsStarted ==
  ASSUME Starts, FirstLife, NEW r \in Request,
         NoContainer(r) \/ NotReady(r) \/ Publish(r)
  PROVE  Started'
<1> USE StartFacts, RequestAssumption DEF TypeOK, Started
<1>1. /\ pc[r] \in Launching /\ ent[r] \in Entry /\ key[ent[r]] = key[r]
      /\ UNCHANGED <<key, reg, gen, ent>>
  BY DEF NoContainer, NotReady, StartFailed, Publish, KnownEntry, Launching, localVars
<1>2. PICK p \in {"done", "slot"} :
        /\ Goto(r, p)
        /\ state' = [state EXCEPT ![ent[r]] = IF p = "slot" THEN "HEALTHY" ELSE "STOPPED"]
  <2>1. CASE Publish(r)
    BY <2>1 DEF Publish
  <2>2. CASE NoContainer(r) \/ NotReady(r)
    BY <2>2 DEF NoContainer, NotReady, StartFailed
  <2> QED
    BY <2>1, <2>2
<1>3. \A q \in Request : q # r /\ pc[q] \in Starting => key[q] # key[r]
  BY <1>1 DEF Launching, Starting
<1>4. \A q \in Request : pc[q] \in Working => ent[q] # ent[r]
  BY <1>1 DEF StartFresh
<1>5. /\ \A q \in Request : q # r => pc'[q] = pc[q]
      /\ pc'[r] = p
      /\ \A e \in Entry : e # ent[r] => state'[e] = state[e]
      /\ state'[ent[r]] = (IF p = "slot" THEN "HEALTHY" ELSE "STOPPED")
  BY <1>1, <1>2 DEF Goto
<1>6. FirstLocks' /\ RegisterEmpty'
  BY <1>1, <1>5 DEF FirstLocks, RegisterEmpty
<1>7. StartAlone'
  BY <1>1, <1>3, <1>5 DEF StartAlone, Registered, Starting
<1>8. StartFresh'
  <2>1. ASSUME NEW q \in Request, pc'[q] \in Launching
        PROVE  q # r /\ pc[q] \in Launching /\ ent[q] # ent[r]
    BY <2>1, <1>1, <1>3, <1>5 DEF Launching, Starting, KnownEntry
  <2> QED
    BY <1>1, <1>5, <2>1 DEF StartFresh
<1>9. Published'
  BY <1>1, <1>4, <1>5 DEF Published, Working, Holding, Registered, KnownEntry
<1> QED
  BY <1>6, <1>7, <1>8, <1>9

\* A destroyer marks what is registered, and takes off the registry what it
\* destroys.
LEMMA DestroyStarted ==
  ASSUME Starts, FirstLife, NEW r \in Request, BeginDestroy(r) \/ FinishDestroy(r)
  PROVE  Started'
<1> USE StartFacts, RequestAssumption DEF TypeOK, Goto, Started
<1> USE DEF lockVars
<1>1. CASE BeginDestroy(r)
  <2> USE <1>1 DEF BeginDestroy
  <2>1. FirstLocks' /\ RegisterEmpty'
    BY DEF FirstLocks, RegisterEmpty
  <2>2. StartAlone'
    BY DEF StartAlone, Starting, Registered
  <2>3. StartFresh'
    BY DEF StartFresh, Launching, Working, Holding
  <2>4. \A q \in Request : pc'[q] \in Working => pc[q] \in Working /\ ent'[q] = ent[q]
    BY DEF Working, Holding
  <2>5. Published'
    BY <2>4 DEF Published, Registered, KnownEntry, Working
  <2> QED
    BY <2>1, <2>2, <2>3, <2>5
<1>2. CASE FinishDestroy(r)
  <2>1. /\ DestroyEntries({ent[r]}) /\ ent[r] \in Entry /\ key[ent[r]] = key[r]
        /\ reg' = [reg EXCEPT ![key[r]] = NoRequest]
        /\ UNCHANGED <<key, ent, gen>> /\ Goto(r, "done")
    BY <1>2 DEF FinishDestroy, KnownEntry, localVars
  <2>2. /\ \A e \in Entry : state'[e] = "HEALTHY" => state[e] = "HEALTHY"
        /\ \A e \in Entry : e # ent[r] => state'[e] = state[e]
    BY <2>1, DestroyPools DEF DestroyEntries
  <2>3. \A e \in Entry : Registered(e)' => Registered(e) /\ key[e] # key[r]
    BY <2>1 DEF Registered, Entry
  <2>4. FirstLocks' /\ RegisterEmpty'
    BY <2>1 DEF FirstLocks, RegisterEmpty
  <2>5. StartAlone'
    BY <2>1, <2>2, <2>3 DEF StartAlone, Starting
  <2>6. StartFresh'
    BY <2>1 DEF StartFresh, Launching, Working, Holding
  <2>7. \A q \in Request : pc'[q] \in Working => pc[q] \in Working /\ ent'[q] = ent[q]
    BY <2>1 DEF Working, Holding
  <2>8. Published'
    BY <2>1, <2>2, <2>3, <2>7 DEF Published, KnownEntry, Working
  <2> QED
    BY <2>4, <2>5, <2>6, <2>8
<1> QED
  BY <1>1, <1>2

\* Every move of a request keeps what is known of the starts.
LEMMA RequestStarted ==
  ASSUME Starts, FirstLife, NEW r \in Request, RequestStep(r)
  PROVE  Started'
<1> USE DEF Places, Starting, Holding, Destroying, Launching, Working
<1> USE DEF localVars, lockVars, entryVars
<1>1. CASE LeaseCall(r)
  BY <1>1, MoveKeepsStarted DEF LeaseCall
<1>2. CASE AcquireSlot(r)
  BY <1>2, MoveKeepsStarted DEF AcquireSlot
<1>3. CASE SlotTimeout(r)
  BY <1>3, MoveKeepsStarted DEF SlotTimeout
<1>4. CASE Connect(r)
  BY <1>4, MoveKeepsStarted DEF Connect
<1>5. CASE ConnectFails(r)
  BY <1>5, MoveKeepsStarted DEF ConnectFails
<1>6. CASE CountLease(r)
  BY <1>6, MoveKeepsStarted DEF CountLease
<1>7. CASE GetCreateLock(r)
  BY <1>7, MoveKeepsStarted DEF GetCreateLock
<1>8. CASE FindDestroying(r)
  BY <1>8, MoveKeepsStarted DEF FindDestroying, LockAndSee
<1>9. CASE ReuseContainer(r)
  BY <1>9, MoveKeepsStarted DEF ReuseContainer, StartStep
<1>10. CASE RestartContainer(r)
  BY <1>10, MoveKeepsStarted DEF RestartContainer, StartStep
<1>11. CASE CreateContainer(r)
  BY <1>11, MoveKeepsStarted DEF CreateContainer, StartStep
<1>12. CASE OpenPool(r)
  BY <1>12, MoveKeepsStarted DEF OpenPool
<1>13. CASE Release(r)
  BY <1>13, MoveKeepsStarted DEF Release
<1>14. CASE ReleaseSlot(r)
  BY <1>14, MoveKeepsStarted DEF ReleaseSlot
<1>15. CASE NothingToDestroy(r)
  BY <1>15, MoveKeepsStarted DEF NothingToDestroy
<1>16. CASE Drained(r)
  BY <1>16, MoveKeepsStarted DEF Drained
<1>17. CASE FindHealthy(r)
  BY <1>17, FindHealthyStarted
<1>18. CASE FindUnhealthy(r)
  BY <1>18, FindUnhealthyStarted
<1>19. CASE FindStopped(r)
  BY <1>19, FindStoppedStarted
<1>20. CASE FindNone(r) \/ Register(r)
  BY <1>20, NewEntryStarted
<1>21. CASE NoContainer(r) \/ NotReady(r) \/ Publish(r)
  BY <1>21, StartEndsStarted
<1>22. CASE BeginDestroy(r) \/ FinishDestroy(r)
  BY <1>22, DestroyStarted
<1> QED
  BY <1>1, <1>2, <1>3, <1>4, <1>5, <1>6, <1>7, <1>8, <1>9, <1>10, <1>11, <1>12, <1>13, <1>14, <1>15, <1>16, <1>17, <1>18, <1>19, <1>20, <1>21, <1>22
     DEF RequestStep, Lease, EnsureHealthy, GiveBack

\* The generation never falls, so the first one ends once.
LEMMA GenerationGrows ==
  ASSUME TypeOK, [Next]_vars, FirstLife'
  PROVE  generation' = generation /\ FirstLife
<1>0. generation \in Nat
  BY BoundsAssumption DEF TypeOK, Generation
<1>1. ASSUME NEW r \in Request, RequestStep(r) \/ Contaminate(r)
      PROVE  generation' = generation
  BY <1>1 DEF RequestStep, Lease, LeaseCall, AcquireSlot, SlotTimeout, Connect,
     ConnectFails, CountLease, EnsureHealthy, GetCreateLock, FindHealthy, FindDestroying,
     FindUnhealthy, FindStopped, FindNone, LockAndSee, Register, ReuseContainer,
     RestartContainer, CreateContainer, StartStep, NoContainer, NotReady, StartFailed,
     OpenPool, Publish, GiveBack, Release, ReleaseSlot, NothingToDestroy, BeginDestroy,
     Drained, FinishDestroy, Contaminate, lockVars
<1>2. CASE Monitor \/ (\E k \in Key : ContainerExits(k))
  <2>1. ASSUME NEW e \in Entry, ProbeClosed(e) \/ ProbeOpen(e)
        PROVE  generation' = generation
    BY <2>1 DEF ProbeClosed, ProbeOpen, lockVars
  <2>2. ASSUME NEW k \in Key, ContainerExits(k)
        PROVE  generation' = generation
    BY <2>2 DEF ContainerExits, lockVars
  <2>3. ASSUME Snapshot \/ MidnightCleanup
        PROVE  generation' = generation
    BY <2>3 DEF Snapshot, MidnightCleanup, lockVars
  <2>4. generation' = generation
    BY <1>2, <2>1, <2>2, <2>3 DEF Monitor
  <2> QED
    BY <2>4 DEF FirstLife
<1>3. CASE ShutdownStep
  BY <1>0, <1>3 DEF ShutdownStep, ShutdownCall, ShutdownDrained, ShutdownClear, lockVars, FirstLife
<1>4. CASE UNCHANGED vars
  BY <1>4 DEF vars, lockVars, FirstLife
<1> QED
  BY <1>1, <1>2, <1>3, <1>4 DEF Next, Idle, FirstLife

\* Every step keeps it.
LEMMA NextStarts == Starts /\ [Next]_vars => Starts'
<1> SUFFICES ASSUME Starts, [Next]_vars
             PROVE  Starts'
  OBVIOUS
<1>1. Owned' /\ Locked'
  BY NextOwned, NextLocked DEF Starts
<1>2. TypeOK /\ generation \in Nat
  BY BoundsAssumption DEF Starts, Locked, TypeOK, Generation
<1> SUFFICES ASSUME FirstLife'
             PROVE  Started'
  BY <1>1 DEF Starts
<1>3. generation' = generation /\ FirstLife
  BY <1>2, GenerationGrows
<1>4. ASSUME NEW r \in Request, RequestStep(r)
      PROVE  Started'
  BY <1>3, <1>4, RequestStarted
<1>5. CASE UNCHANGED <<pc, key, ent, gen, reg, state>>
  BY <1>3, <1>5, StillKeepsStarted, StartFacts DEF TypeOK
<1>6. ASSUME NEW r \in Request, Contaminate(r)
      PROVE  Started'
  BY <1>5, <1>6 DEF Contaminate, lockVars, entryVars
<1>7. CASE Monitor
  <2>1. CASE Snapshot \/ \E e \in Entry : ProbeOpen(e)
    BY <1>5, <2>1 DEF Snapshot, ProbeOpen, lockVars, entryVars, localVars
  <2>2. ASSUME NEW e \in Entry, ProbeClosed(e)
        PROVE  Started'
    <3>1. /\ UNCHANGED <<pc, key, ent, gen, reg>>
          /\ \A f \in Entry : state'[f] = state[f] \/ (state[f] = "HEALTHY" /\ state'[f] = "UNHEALTHY")
      BY <1>2, <2>2 DEF ProbeClosed, TypeOK, lockVars, localVars
    <3> QED
      BY <1>2, <1>3, <3>1, StillKeepsStarted DEF TypeOK
  <2>3. CASE MidnightCleanup
    <3>1. PICK S \in SUBSET Entry :
            /\ DestroyEntries(S)
            /\ reg' = [k \in Key |-> IF reg[k] \in S THEN NoRequest ELSE reg[k]]
      BY <2>3 DEF MidnightCleanup, RegisteredHealthy
    <3>2. /\ UNCHANGED <<pc, key, ent, gen>>
          /\ \A k \in Key : reg'[k] \in {reg[k], NoRequest}
      BY <2>3, <3>1 DEF MidnightCleanup, localVars
    <3>3. \A e \in Entry : Registered(e)' => e \notin S
      BY <1>2, <3>1, <3>2, RequestAssumption DEF TypeOK, Entry, Registered
    <3>4. /\ \A e \in Entry : state'[e] = "HEALTHY" => state[e] = "HEALTHY"
          /\ \A e \in Entry : Registered(e)' => state'[e] = state[e]
      BY <1>2, <3>1, <3>3, DestroyPools DEF DestroyEntries
    <3> QED
      BY <1>3, <3>2, <3>4, StillKeepsStarted
  <2> QED
    BY <1>7, <2>1, <2>2, <2>3 DEF Monitor
<1>8. CASE ShutdownStep
  BY <1>2, <1>3, <1>5, <1>8 DEF ShutdownStep, ShutdownCall, ShutdownDrained, ShutdownClear,
     lockVars, entryVars, localVars
<1>9. ASSUME NEW k \in Key, ContainerExits(k)
      PROVE  Started'
  BY <1>5, <1>9 DEF ContainerExits, lockVars, localVars
<1>10. CASE UNCHANGED vars
  BY <1>5, <1>10 DEF vars, lockVars, entryVars, localVars
<1> QED
  BY <1>4, <1>6, <1>7, <1>8, <1>9, <1>10 DEF Next, Idle

\* Initially no start goes on.
LEMMA InitStarts == Init => Starts
<1> SUFFICES ASSUME Init
             PROVE  Starts
  OBVIOUS
<1>1. Owned /\ Locked
  BY InitOwned, InitLocked
<1>2. Started
  BY DEF Started, FirstLocks, StartAlone, RegisterEmpty, StartFresh, Published, Init,
     Starting, Launching, Working, Holding
<1> QED
  BY <1>1, <1>2 DEF Starts

\* The inductive invariant holds.
LEMMA StartsHold == Spec => []Starts
BY InitStarts, NextStarts, PTL DEF Spec

(***************************************************************************)
(* What is HEALTHY is backed by a container                                *)
(***************************************************************************)
\* From the first answer of the database to HEALTHY, nobody takes the container
\* away from a registered entry without taking it off the registry.
PublishBacked ==
  \A r \in Request : pc[r] = "publish" /\ Registered(ent[r]) => attached[ent[r]]

Backed == PublishBacked /\ HealthyIsBacked

\* Until the first shutdown(), and while no container stops by itself.
Undisturbed == FirstLife /\ "exit" \notin Event

Backs == Starts /\ (Undisturbed => Backed)

\* What _destroy_entry does to the containers that entries stand for.
LEMMA DestroyAttached ==
  ASSUME TypeOK, NEW S \in SUBSET Entry, DestroyEntries(S)
  PROVE  /\ \A e \in Entry : attached'[e] => attached[e]
         /\ \A e \in Entry : (\A f \in S : key[f] # key[e]) => attached'[e] = attached[e]
BY DEF TypeOK, DestroyEntries

\* A step that publishes nothing and registers nothing that is HEALTHY, and takes
\* a container away only from entries it also takes off the registry.
LEMMA FrameKeepsBacked ==
  ASSUME Starts, Backed, UNCHANGED key,
         \A q \in Request : pc'[q] = "publish" => pc[q] = "publish" /\ ent'[q] = ent[q],
         \A e \in Entry : state'[e] = "HEALTHY" => state[e] = "HEALTHY",
         \A e \in Entry : Registered(e)' => Registered(e) /\ (attached[e] => attached'[e])
  PROVE  Backed'
<1>1. \A q \in Request : pc[q] = "publish" => ent[q] \in Entry
  BY DEF Starts, Owned, Pointers, KnownEntry
<1> QED
  BY <1>1 DEF Backed, PublishBacked, HealthyIsBacked

\* A step of a request that decides nothing about a container.
LEMMA QuietKeepsBacked ==
  ASSUME Starts, Backed, NEW r \in Request, NEW p \in Places, Goto(r, p), p # "publish",
         key' = key, attached' = attached,
         \A q \in Request : q # r => ent'[q] = ent[q],
         \A e \in Entry : state'[e] = "HEALTHY" => state[e] = "HEALTHY",
         reg' = reg
  PROVE  Backed'
<1>1. TypeOK
  BY DEF Starts, Owned, Pointers
<1>2. \A q \in Request : pc'[q] = "publish" => pc[q] = "publish" /\ ent'[q] = ent[q]
  BY <1>1 DEF TypeOK, Goto
<1>3. \A e \in Entry : Registered(e)' => Registered(e)
  BY DEF Registered
<1> QED
  BY <1>2, <1>3, FrameKeepsBacked

\* A start works on a container behind no HEALTHY entry and no other start.
LEMMA StartKeepsBacked ==
  ASSUME Starts, Backed, FirstLife, NEW r \in Request,
         \/ ReuseContainer(r) \/ RestartContainer(r) \/ CreateContainer(r)
         \/ NoContainer(r)
  PROVE  Backed'
<1> USE StartFacts DEF TypeOK, Goto
<1>1. /\ pc[r] = "start" /\ ent[r] \in Entry /\ key[ent[r]] = key[r]
      /\ UNCHANGED <<key, reg, ent>>
      /\ \A e \in Entry : key[e] # key[r] => attached'[e] = attached[e]
      /\ \A q \in Request : q # r => pc'[q] = pc[q]
      /\ pc'[r] # "publish"
      /\ \A e \in Entry : state'[e] = "HEALTHY" => state[e] = "HEALTHY"
  <2> USE DEF StartStep, KnownEntry, lockVars, localVars
  <2>1. CASE ReuseContainer(r)
    BY <2>1 DEF ReuseContainer
  <2>2. CASE RestartContainer(r)
    BY <2>2 DEF RestartContainer
  <2>3. CASE CreateContainer(r)
    BY <2>3 DEF CreateContainer
  <2>4. CASE NoContainer(r)
    <3>1. \A e \in Entry : key[e] # key[r] => attached'[e] = attached[e]
      BY <2>4, SMTT(30) DEF NoContainer
    <3> QED
      BY <2>4, <3>1 DEF NoContainer, StartFailed
  <2> QED
    BY <2>1, <2>2, <2>3, <2>4
<1>2. ASSUME NEW e \in Entry, Registered(e), key[e] = key[r]
      PROVE  state[e] # "HEALTHY"
  BY <1>1, <1>2 DEF Started, StartAlone, Starting
<1>3. ASSUME NEW q \in Request, pc[q] = "publish"
      PROVE  key[q] # key[r] /\ ent[q] \in Entry /\ key[ent[q]] = key[q]
  BY <1>1, <1>3 DEF Starting, KnownEntry
<1>4. HealthyIsBacked'
  BY <1>1, <1>2 DEF HealthyIsBacked, Backed, Registered
<1>5. PublishBacked'
  BY <1>1, <1>3 DEF PublishBacked, Backed, Registered
<1> QED
  BY <1>4, <1>5 DEF Backed

\* Every move of a request keeps it.
LEMMA RequestBacked ==
  ASSUME Starts, Backed, FirstLife, NEW r \in Request, RequestStep(r)
  PROVE  Backed'
<1> USE DEF Places, Starting, Holding, Destroying
<1> USE DEF localVars, lockVars, entryVars
<1>0. TypeOK /\ KnownEntry /\ RegistryKeys
  BY StartFacts
<1>1. CASE LeaseCall(r)
  BY <1>1, QuietKeepsBacked DEF LeaseCall
<1>2. CASE AcquireSlot(r)
  BY <1>2, QuietKeepsBacked DEF AcquireSlot
<1>3. CASE SlotTimeout(r)
  BY <1>3, QuietKeepsBacked DEF SlotTimeout
<1>4. CASE Connect(r)
  BY <1>4, QuietKeepsBacked DEF Connect
<1>5. CASE ConnectFails(r)
  BY <1>5, QuietKeepsBacked DEF ConnectFails
<1>6. CASE CountLease(r)
  BY <1>6, QuietKeepsBacked DEF CountLease
<1>7. CASE GetCreateLock(r)
  BY <1>7, QuietKeepsBacked DEF GetCreateLock
<1>8. CASE FindHealthy(r)
  BY <1>8, QuietKeepsBacked DEF FindHealthy, LockAndSee
<1>9. CASE FindDestroying(r)
  BY <1>9, QuietKeepsBacked DEF FindDestroying, LockAndSee
<1>10. CASE FindNone(r)
  BY <1>10, QuietKeepsBacked DEF FindNone, LockAndSee
<1>11. CASE Release(r)
  BY <1>11, QuietKeepsBacked DEF Release
<1>12. CASE ReleaseSlot(r)
  BY <1>12, QuietKeepsBacked DEF ReleaseSlot
<1>13. CASE NothingToDestroy(r)
  BY <1>13, QuietKeepsBacked DEF NothingToDestroy
<1>14. CASE Drained(r)
  BY <1>14, QuietKeepsBacked DEF Drained
<1>15. CASE FindStopped(r)
  <2>1. \A e \in Entry : state'[e] = "HEALTHY" => state[e] = "HEALTHY"
    BY <1>0, <1>15 DEF FindStopped, LockAndSee, TypeOK
  <2> QED
    BY <1>15, <2>1, QuietKeepsBacked DEF FindStopped, LockAndSee
<1>16. CASE BeginDestroy(r)
  <2>1. \A e \in Entry : state'[e] = "HEALTHY" => state[e] = "HEALTHY"
    BY <1>0, <1>16 DEF BeginDestroy, TypeOK
  <2> QED
    BY <1>16, <2>1, QuietKeepsBacked DEF BeginDestroy
<1>17. CASE NotReady(r)
  <2>1. \A e \in Entry : state'[e] = "HEALTHY" => state[e] = "HEALTHY"
    BY <1>0, <1>17 DEF NotReady, StartFailed, TypeOK
  <2> QED
    BY <1>17, <2>1, QuietKeepsBacked DEF NotReady, StartFailed
<1>18. CASE FindUnhealthy(r) \/ FinishDestroy(r)
  <2>1. PICK e \in Entry :
          /\ DestroyEntries({e}) /\ key[e] = key[r]
          /\ reg' = [reg EXCEPT ![key[r]] = NoRequest]
          /\ UNCHANGED <<key, ent>>
          /\ Goto(r, "register") \/ Goto(r, "done")
    BY <1>0, <1>18, ZenonT(40) DEF FindUnhealthy, LockAndSee, FinishDestroy, KnownEntry, RegistryKeys, TypeOK
  <2>2. \A f \in Entry : state'[f] = "HEALTHY" => state[f] = "HEALTHY"
    BY <1>0, <2>1, DestroyPools
  <2>3. \A f \in Entry : Registered(f)' => Registered(f) /\ key[f] # key[r]
    BY <1>0, <2>1, RequestAssumption DEF Registered, Entry, TypeOK
  <2>4. \A f \in Entry : Registered(f)' => attached'[f] = attached[f]
    BY <1>0, <2>1, <2>3, DestroyAttached
  <2>5. \A q \in Request : pc'[q] = "publish" => pc[q] = "publish" /\ ent'[q] = ent[q]
    BY <1>0, <2>1 DEF Goto, TypeOK
  <2> QED
    BY <2>1, <2>2, <2>3, <2>4, <2>5, FrameKeepsBacked
<1>19. CASE Register(r)
  <2> USE <1>0, <1>19, StartFacts, RequestAssumption DEF Register, TypeOK, Goto
  <2>1. \A e \in Entry : Registered(e)' => Registered(e) \/ e = r
    BY DEF Registered, Entry
  <2>2. \A q \in Request : pc'[q] = "publish" => pc[q] = "publish" /\ ent'[q] = ent[q] /\ ent[q] # r
    BY DEF Unborn
  <2>3. PublishBacked'
    BY <2>1, <2>2 DEF PublishBacked, Backed, KnownEntry
  <2>4. HealthyIsBacked'
    BY <2>1 DEF HealthyIsBacked, Backed, Entry
  <2> QED
    BY <2>3, <2>4 DEF Backed
<1>20. CASE OpenPool(r)
  <2> USE <1>0, <1>20 DEF OpenPool, TypeOK, Goto
  <2>1. PublishBacked' /\ HealthyIsBacked'
    BY DEF PublishBacked, HealthyIsBacked, Backed, Registered
  <2> QED
    BY <2>1 DEF Backed
<1>21. CASE Publish(r)
  <2> USE <1>0, <1>21 DEF Publish, TypeOK, Goto
  <2>1. PublishBacked'
    BY DEF PublishBacked, Backed, Registered
  <2>2. HealthyIsBacked'
    BY DEF HealthyIsBacked, PublishBacked, Backed, Registered, KnownEntry
  <2> QED
    BY <2>1, <2>2 DEF Backed
<1>22. CASE ReuseContainer(r) \/ RestartContainer(r) \/ CreateContainer(r) \/ NoContainer(r)
  BY <1>22, StartKeepsBacked
<1> QED
  BY <1>1, <1>2, <1>3, <1>4, <1>5, <1>6, <1>7, <1>8, <1>9, <1>10, <1>11, <1>12, <1>13, <1>14, <1>15, <1>16, <1>17, <1>18, <1>19, <1>20, <1>21, <1>22
     DEF RequestStep, Lease, EnsureHealthy, GiveBack

\* What the cleanup of idle entries does, but for the counts it looks at.
LEMMA CleanupFacts ==
  ASSUME TypeOK, MidnightCleanup
  PROVE  /\ UNCHANGED <<pc, key, ent, gen, mark, generation, active>>
         /\ \E S \in SUBSET Entry :
              /\ DestroyEntries(S)
              /\ \A e \in S : Registered(e) /\ state[e] = "HEALTHY" /\ active[e] = 0
              /\ reg' = [k \in Key |-> IF reg[k] \in S THEN NoRequest ELSE reg[k]]
              /\ \A e \in Entry : Registered(e)' <=> Registered(e) /\ e \notin S
              /\ \A e \in Entry : Registered(e)' => \A f \in S : key[f] # key[e]
<1>1. UNCHANGED <<pc, key, ent, gen, mark, generation, active>>
  BY DEF MidnightCleanup, localVars
<1>2. PICK S \in SUBSET {e \in RegisteredHealthy : active[e] = 0 /\ "idle" \in Event} :
        /\ DestroyEntries(S)
        /\ reg' = [k \in Key |-> IF reg[k] \in S THEN NoRequest ELSE reg[k]]
  BY DEF MidnightCleanup
<1>3. S \in SUBSET Entry /\ \A e \in S : Registered(e) /\ state[e] = "HEALTHY" /\ active[e] = 0
  BY <1>2 DEF RegisteredHealthy
<1>4. \A e \in Entry : Registered(e)' <=> Registered(e) /\ e \notin S
  BY <1>1, <1>2, <1>3, RequestAssumption DEF TypeOK, Registered, Entry
<1>5. \A e \in Entry : Registered(e)' => \A f \in S : key[f] # key[e]
  BY <1>3, <1>4 DEF Registered
<1> QED
  BY <1>1, <1>2, <1>3, <1>4, <1>5

\* Every step keeps it.
LEMMA NextBacks == Backs /\ [Next]_vars => Backs'
<1> SUFFICES ASSUME Backs, [Next]_vars
             PROVE  Backs'
  OBVIOUS
<1>1. Starts /\ Starts'
  BY NextStarts DEF Backs
<1>2. TypeOK
  BY <1>1 DEF Starts, Locked
<1> SUFFICES ASSUME Undisturbed'
             PROVE  Backed'
  BY <1>1 DEF Backs
<1>3. FirstLife /\ FirstLife' /\ Backed
  BY GenerationGrows, <1>2 DEF Undisturbed, Backs
<1>4. ASSUME NEW r \in Request, RequestStep(r)
      PROVE  Backed'
  BY <1>1, <1>3, <1>4, RequestBacked
<1>5. CASE UNCHANGED <<pc, key, ent, reg, state, attached>>
  BY <1>1, <1>3, <1>5, FrameKeepsBacked DEF Registered
<1>6. ASSUME NEW r \in Request, Contaminate(r)
      PROVE  Backed'
  BY <1>5, <1>6 DEF Contaminate, lockVars, entryVars
<1>7. CASE Monitor
  <2>1. CASE Snapshot \/ \E e \in Entry : ProbeOpen(e)
    BY <1>5, <2>1 DEF Snapshot, ProbeOpen, lockVars, entryVars, localVars
  <2>2. ASSUME NEW e \in Entry, ProbeClosed(e)
        PROVE  Backed'
    <3>1. /\ UNCHANGED <<pc, key, ent, reg, attached>>
          /\ \A f \in Entry : state'[f] = "HEALTHY" => state[f] = "HEALTHY"
      BY <1>2, <2>2 DEF ProbeClosed, TypeOK, lockVars, localVars
    <3> QED
      BY <1>1, <1>3, <3>1, FrameKeepsBacked DEF Registered
  <2>3. CASE MidnightCleanup
    <3>1. UNCHANGED <<pc, key, ent>>
      BY <1>2, <2>3, CleanupFacts
    <3>2. PICK S \in SUBSET Entry :
            /\ DestroyEntries(S)
            /\ \A e \in Entry : Registered(e)' =>
                 Registered(e) /\ \A f \in S : key[f] # key[e]
      BY <1>2, <2>3, CleanupFacts
    <3> QED
      BY <1>1, <1>2, <1>3, <3>1, <3>2, DestroyAttached, DestroyPools, FrameKeepsBacked
  <2> QED
    BY <1>7, <2>1, <2>2, <2>3 DEF Monitor
<1>8. CASE ShutdownStep
  BY <1>2, <1>3, <1>5, <1>8, GenerationGrows DEF ShutdownStep, ShutdownCall, ShutdownDrained,
     ShutdownClear, lockVars, entryVars, localVars, FirstLife, TypeOK, Generation
<1>9. ASSUME NEW k \in Key, ContainerExits(k)
      PROVE  Backed'
  BY <1>9 DEF ContainerExits, Undisturbed
<1>10. CASE UNCHANGED vars
  BY <1>5, <1>10 DEF vars, lockVars, entryVars, localVars
<1> QED
  BY <1>4, <1>6, <1>7, <1>8, <1>9, <1>10 DEF Next, Idle

\* As long as no container stops by itself, a registered HEALTHY entry names a
\* container that exists: destroyers by name, replacements, the cleanup and
\* starts that fail take the container away only together with the registration.
THEOREM HealthyStaysBacked == Spec => [](Undisturbed => HealthyIsBacked)
<1>1. Init => Backs
  BY InitStarts DEF Init, Backs, Backed, PublishBacked, HealthyIsBacked, Registered
<1>2. Backs => (Undisturbed => HealthyIsBacked)
  BY DEF Backs, Backed
<1> QED
  BY <1>1, <1>2, NextBacks, PTL DEF Spec

(***************************************************************************)
(* Residue has somebody who will remove it                                 *)
(***************************************************************************)
\* Only a lease in use is marked, and only a marked one comes to destroy.
MarkPlace ==
  \A r \in Request :
    /\ mark[r] => r \in Contaminator /\ pc[r] \in {"leased", "unslot", "done"} \cup Destroying
    /\ pc[r] \in Destroying => mark[r]

\* Until a request that leaves residue gives its lease back, the registry knows
\* the entry that it starts and, while there is a container, the one it works
\* on.  Residue is never in a container without an entry.
Tracked ==
  /\ \A r \in Contaminator :
       /\ pc[r] \in Launching => Registered(ent[r])
       /\ pc[r] \in Working /\ attached[ent[r]] => Registered(ent[r])
  /\ \A k \in Key : dirty[k] => reg[k] # NoRequest

\* Docker removes what it is asked to remove.
Removable == FirstLife /\ "removalFails" \notin Event

Cleaned == MarkPlace /\ Tracked /\ ResiduePending

Cleans == Starts /\ (Removable => Cleaned)

\* A destroyed entry takes its container and the residue with it.
LEMMA DestroyCleans ==
  ASSUME TypeOK, NEW S \in SUBSET Entry, DestroyEntries(S), "removalFails" \notin Event
  PROVE  /\ \A e \in Entry : attached'[e] <=> attached[e] /\ \A f \in S : key[f] # key[e]
         /\ \A k \in Key : dirty'[k] <=> dirty[k] /\ \A f \in S : key[f] # k
<1>1. LET gone == {key[e] : e \in S} IN
      /\ dirty' = [k \in Key |-> dirty[k] /\ k \notin gone]
      /\ attached' = [e \in Entry |-> attached[e] /\ key[e] \notin gone]
  <2>1. PICK kept \in SUBSET {} :
          LET gone == {key[e] : e \in S \ kept} IN
          /\ dirty' = [k \in Key |-> dirty[k] /\ k \notin gone]
          /\ attached' = [e \in Entry |-> attached[e] /\ key[e] \notin gone]
    BY DEF DestroyEntries, Remove
  <2>2. kept = {}
    OBVIOUS
  <2>3. S \ kept = S
    BY <2>2
  <2> QED
    BY <2>1, <2>3
<1> QED
  BY <1>1, ZenonT(40) DEF TypeOK

\* A move of a request that takes no part in a start or a destruction, and does
\* not end while its lease is marked.
LEMMA QuietKeepsCleaned ==
  ASSUME Starts, Cleaned, NEW r \in Request, NEW p \in Places, Goto(r, p),
         pc[r] # "done", p # "start",
         p \in IF mark[r] THEN {"unslot"} \cup Destroying ELSE Places \ Destroying,
         UNCHANGED <<key, reg, attached, dirty, mark>>,
         \A q \in Request : q # r => ent'[q] = ent[q],
         p \in Launching \cup Working =>
           \/ /\ ent'[r] = ent[r] /\ pc[r] \in Launching \cup Working
              /\ p \in Launching => pc[r] \in Launching
           \/ Registered(ent'[r])
  PROVE  Cleaned'
<1>1. TypeOK
  BY DEF Starts, Locked
<1> USE <1>1 DEF TypeOK, Goto, Cleaned
<1>2. MarkPlace'
  BY DEF MarkPlace, Destroying
<1>3. Tracked'
  BY RequestAssumption DEF Tracked, Registered, Launching, Working, Holding
<1>4. ResiduePending'
  BY DEF ResiduePending, Destroying
<1> QED
  BY <1>2, <1>3, <1>4

\* A start attaches the container to an entry that is registered.
LEMMA StartKeepsCleaned ==
  ASSUME Starts, Cleaned, FirstLife, NEW r \in Request,
         \/ ReuseContainer(r) \/ RestartContainer(r) \/ CreateContainer(r)
         \/ NoContainer(r)
  PROVE  Cleaned'
<1>1. TypeOK /\ KnownEntry
  BY StartFacts
<1>2. pc[r] = "start"
  BY DEF ReuseContainer, RestartContainer, CreateContainer, StartStep, NoContainer
<1>3. ent[r] \in Entry /\ key[ent[r]] = key[r] /\ ~mark[r]
  BY <1>1, <1>2 DEF KnownEntry, Cleaned, MarkPlace, Destroying
<1>4. UNCHANGED <<key, reg, ent, mark>>
  BY DEF ReuseContainer, RestartContainer, CreateContainer, StartStep, NoContainer,
     StartFailed, lockVars, localVars
<1>5. Goto(r, "wait") \/ Goto(r, "done")
  BY DEF ReuseContainer, RestartContainer, CreateContainer, NoContainer, StartFailed
<1>6. /\ \A q \in Request : q # r => pc'[q] = pc[q]
      /\ pc'[r] \in {"wait", "done"}
  BY <1>1, <1>5 DEF TypeOK, Goto
<1>7. \A e \in Entry : attached'[e] => attached[e] \/ e = ent[r]
  <2>1. CASE ReuseContainer(r) \/ RestartContainer(r)
    BY <1>1, <2>1 DEF TypeOK, ReuseContainer, RestartContainer
  <2>2. CASE CreateContainer(r)
    BY <2>2 DEF CreateContainer
  <2>3. CASE NoContainer(r)
    BY <2>3 DEF NoContainer
  <2> QED
    BY <2>1, <2>2, <2>3
<1>8. \A k \in Key : dirty'[k] => dirty[k]
  <2>1. CASE ReuseContainer(r) \/ RestartContainer(r)
    BY <2>1 DEF ReuseContainer, RestartContainer, dockerVars
  <2>2. CASE CreateContainer(r) \/ NoContainer(r)
    BY <1>1, <2>2 DEF TypeOK, CreateContainer, NoContainer, dockerVars
  <2> QED
    BY <2>1, <2>2
<1> USE <1>1 DEF TypeOK, Cleaned
<1>9. MarkPlace'
  BY <1>2, <1>3, <1>4, <1>6 DEF MarkPlace, Destroying
<1>10. \A q \in Request : pc[q] \in Working => ent[q] # ent[r]
  BY <1>2, StartFacts DEF Started, StartFresh, Launching
<1>11. Tracked'
  <2>1. ASSUME NEW q \in Contaminator, pc'[q] \in Launching
        PROVE  Registered(ent[q])'
    BY <1>2, <1>4, <1>6, <2>1, RequestAssumption DEF Tracked, Registered, Launching
  <2>2. ASSUME NEW q \in Contaminator, pc'[q] \in Working, attached'[ent[q]], ent[q] \in Entry
        PROVE  Registered(ent[q])'
    <3>1. q \in Request /\ pc[q] \in Working
      BY <1>6, <2>2, RequestAssumption DEF Working, Holding
    <3>2. attached[ent[q]]
      BY <1>7, <1>10, <2>2, <3>1
    <3> QED
      BY <1>4, <3>1, <3>2 DEF Tracked, Registered
  <2>3. \A q \in Contaminator : pc'[q] \in Working => ent[q] \in Entry
    BY <1>1, <1>6, RequestAssumption DEF KnownEntry, Working, Holding
  <2>4. \A k \in Key : dirty'[k] => reg'[k] # NoRequest
    BY <1>4, <1>8 DEF Tracked
  <2>5. UNCHANGED ent
    BY <1>4
  <2> QED
    BY <2>1, <2>2, <2>3, <2>4, <2>5 DEF Tracked
<1>12. ResiduePending'
  <2> SUFFICES ASSUME NEW k \in Key, dirty'[k]
               PROVE  \E q \in Request : key'[q] = k /\ mark'[q] /\ pc'[q] # "done"
    BY DEF ResiduePending
  <2>1. PICK q \in Request : key[q] = k /\ mark[q] /\ pc[q] # "done"
    BY <1>8 DEF ResiduePending
  <2>2. q # r
    BY <1>3, <2>1
  <2> QED
    BY <1>4, <1>6, <2>1, <2>2
<1> QED
  BY <1>9, <1>11, <1>12

\* Who finds an entry to start, or registers one, starts it registered.
LEMMA BeginKeepsCleaned ==
  ASSUME Starts, Cleaned, FirstLife, NEW r \in Request,
         FindStopped(r) \/ Register(r)
  PROVE  Cleaned'
<1> USE StartFacts, RequestAssumption DEF TypeOK, Goto, Cleaned, Destroying
<1>1. CASE FindStopped(r)
  <2>1. /\ pc[r] = "lock" /\ reg[key[r]] \in Entry /\ ~mark[r]
        /\ ent' = [ent EXCEPT ![r] = reg[key[r]]]
        /\ UNCHANGED <<key, reg, attached, dirty, mark>> /\ Goto(r, "start")
    BY <1>1 DEF FindStopped, LockAndSee, MarkPlace, dockerVars
  <2>2. MarkPlace'
    BY <2>1 DEF MarkPlace
  <2>3. Tracked'
    BY <2>1 DEF Tracked, Registered, RegistryKeys, Launching, Working, Holding
  <2>4. ResiduePending'
    BY <2>1 DEF ResiduePending
  <2> QED
    BY <2>2, <2>3, <2>4
<1>2. CASE Register(r)
  <2>1. /\ pc[r] = "register" /\ ~mark[r]
        /\ ent' = [ent EXCEPT ![r] = r] /\ reg' = [reg EXCEPT ![key[r]] = r]
        /\ UNCHANGED <<key, attached, dirty, mark>> /\ Goto(r, "start")
    BY <1>2 DEF Register, MarkPlace, dockerVars
  <2>2. MarkPlace'
    BY <2>1 DEF MarkPlace
  <2>3. reg[key[r]] = NoRequest /\ \A q \in Request : pc[q] = "start" => key[q] # key[r]
    BY <2>1 DEF Started, RegisterEmpty, Starting
  <2>4. \A q \in Request : pc[q] \in Starting /\ q # r => key[q] # key[r]
    BY <2>1 DEF Starting
  <2>5. Tracked'
    <3>1. ASSUME NEW q \in Contaminator, q # r, pc[q] \in Launching
          PROVE  Registered(ent[q])'
      BY <2>1, <2>4, <3>1 DEF Tracked, Registered, KnownEntry, Launching, Starting, Entry
    <3>2. ASSUME NEW q \in Contaminator, q # r, pc[q] \in Working, attached[ent[q]]
          PROVE  Registered(ent[q])'
      <4>1. ent[q] \in Entry /\ key[ent[q]] = key[q] /\ Registered(ent[q])
        BY <3>2 DEF Tracked, KnownEntry, Working
      <4>2. key[q] # key[r]
        BY <2>3, <4>1 DEF Registered, Entry
      <4> QED
        BY <2>1, <4>1, <4>2 DEF Registered
    <3>3. Registered(r)'
      BY <2>1 DEF Registered
    <3>4. /\ ent'[r] = r /\ pc'[r] = "start"
          /\ \A q \in Request : q # r => pc'[q] = pc[q] /\ ent'[q] = ent[q]
      BY <2>1
    <3>5. \A k \in Key : dirty'[k] => reg'[k] # NoRequest
      BY <2>1 DEF Tracked
    <3>6. ASSUME NEW q \in Contaminator
          PROVE  /\ pc'[q] \in Launching => reg'[key'[ent'[q]]] = ent'[q]
                 /\ pc'[q] \in Working /\ attached'[ent'[q]] => reg'[key'[ent'[q]]] = ent'[q]
      BY <2>1, <3>1, <3>2, <3>3, <3>4 DEF Registered
    <3> QED
      BY <3>5, <3>6 DEF Tracked, Registered
  <2>6. ResiduePending'
    BY <2>1 DEF ResiduePending
  <2> QED
    BY <2>2, <2>5, <2>6
<1> QED
  BY <1>1, <1>2

\* Who destroys by key leaves no container, no residue and no entry of the key.
LEMMA DestroyKeepsCleaned ==
  ASSUME Starts, Cleaned, Removable, Apart, NEW r \in Request,
         FindUnhealthy(r) \/ FinishDestroy(r)
  PROVE  Cleaned'
<1>0. /\ TypeOK /\ KnownEntry /\ RegistryKeys /\ FirstLife
      /\ "removalFails" \notin Event
  BY StartFacts DEF Removable
<1>a. \A e \in Entry : DestroyEntries({e}) =>
        /\ \A f \in Entry : attached'[f] <=> attached[f] /\ key[f] # key[e]
        /\ \A k \in Key : dirty'[k] <=> dirty[k] /\ key[e] # k
  <2>1. ASSUME NEW e \in Entry, DestroyEntries({e}), NEW S, S = {e}
        PROVE  /\ \A f \in Entry : attached'[f] <=> attached[f] /\ \A g \in S : key[g] # key[f]
               /\ \A k \in Key : dirty'[k] <=> dirty[k] /\ \A g \in S : key[g] # k
    BY <1>0, <2>1, DestroyCleans
  <2> QED
    BY <2>1
<1> USE <1>0, RequestAssumption DEF TypeOK, Cleaned, Destroying
<1>1. PICK e \in Entry :
        /\ DestroyEntries({e}) /\ key[e] = key[r]
        /\ reg' = [reg EXCEPT ![key[r]] = NoRequest]
        /\ UNCHANGED <<key, ent, mark>>
  BY ZenonT(40) DEF FindUnhealthy, LockAndSee, FinishDestroy, KnownEntry, RegistryKeys, localVars
<1>2. /\ \A f \in Entry : attached'[f] <=> attached[f] /\ key[f] # key[r]
      /\ \A k \in Key : dirty'[k] <=> dirty[k] /\ k # key[r]
  BY <1>1, <1>a
<1>3. /\ \A q \in Request : q # r => pc'[q] = pc[q]
      /\ \/ pc[r] = "lock" /\ pc'[r] = "register" /\ ~mark[r]
         \/ pc[r] = "kill" /\ pc'[r] = "done" /\ r \in Contaminator
  BY DEF FindUnhealthy, LockAndSee, FinishDestroy, MarkPlace, Goto
<1>4. MarkPlace'
  BY <1>1, <1>3 DEF MarkPlace
<1>5. \A q \in Contaminator : pc'[q] \in Launching => pc[q] \in Launching /\ key[q] # key[r]
  <2>1. CASE FindUnhealthy(r)
    <3>1. \A q \in Request : pc[q] \in Starting => key[q] # key[r]
      BY <2>1 DEF FindUnhealthy, LockAndSee, Started, FirstLocks, Starts, Locked, LockHeld
    <3> QED
      BY <1>3, <3>1 DEF Starting, Launching
  <2>2. CASE FinishDestroy(r)
    <3>1. pc[r] = "kill" /\ r \in Contaminator /\ pc'[r] = "done"
      BY <1>3, <2>2 DEF FinishDestroy
    <3> QED
      BY <1>3, <3>1 DEF Apart, Launching
  <2> QED
    BY <2>1, <2>2
<1>6. Tracked'
  <2>1. ASSUME NEW q \in Contaminator, pc'[q] \in Launching
        PROVE  Registered(ent[q])'
    BY <1>1, <1>5, <2>1 DEF Tracked, Registered, KnownEntry, Launching, Holding
  <2>2. ASSUME NEW q \in Contaminator, pc'[q] \in Working, attached'[ent[q]]
        PROVE  Registered(ent[q])'
    <3>1. pc[q] \in Working /\ ent[q] \in Entry /\ key[ent[q]] = key[q]
      BY <1>3, <2>2 DEF KnownEntry, Working, Holding
    <3>2. attached[ent[q]] /\ key[ent[q]] # key[r]
      BY <1>2, <2>2, <3>1
    <3> QED
      BY <1>1, <3>1, <3>2 DEF Tracked, Registered
  <2>3. \A k \in Key : dirty'[k] => reg'[k] # NoRequest
    BY <1>1, <1>2 DEF Tracked
  <2>4. UNCHANGED ent
    BY <1>1
  <2> QED
    BY <2>1, <2>2, <2>3, <2>4 DEF Tracked
<1>7. ResiduePending'
  BY <1>1, <1>2, <1>3 DEF ResiduePending
<1> QED
  BY <1>4, <1>6, <1>7

\* A destroyer that finds no entry finds no residue either.
LEMMA NothingMeansClean ==
  ASSUME TypeOK, Cleaned, NEW r \in Request, NothingToDestroy(r)
  PROVE  ~dirty[key[r]]
BY DEF NothingToDestroy, Cleaned, Tracked, TypeOK

\* Every move of a request keeps it.
LEMMA RequestCleaned ==
  ASSUME Starts, Cleaned, Removable, Apart, NEW r \in Request, RequestStep(r)
  PROVE  Cleaned'
<1>0. /\ TypeOK /\ FirstLife /\ RegistryKeys
      /\ mark[r] \in BOOLEAN
      /\ mark[r] => pc[r] \in {"leased", "unslot", "done"} \cup Destroying
      /\ pc[r] \in Destroying => mark[r]
  BY DEF Starts, Owned, Pointers, Locked, Removable, Cleaned, MarkPlace, TypeOK
<1> USE DEF Places, Starting, Holding, Destroying, Launching, Working
<1> USE DEF localVars, lockVars, entryVars, dockerVars
<1>1. CASE LeaseCall(r)
  BY <1>0, <1>1, QuietKeepsCleaned DEF LeaseCall
<1>2. CASE AcquireSlot(r)
  BY <1>0, <1>2, QuietKeepsCleaned DEF AcquireSlot
<1>3. CASE SlotTimeout(r)
  BY <1>0, <1>3, QuietKeepsCleaned DEF SlotTimeout
<1>4. CASE Connect(r)
  BY <1>0, <1>4, QuietKeepsCleaned DEF Connect
<1>5. CASE ConnectFails(r)
  BY <1>0, <1>5, QuietKeepsCleaned DEF ConnectFails
<1>6. CASE CountLease(r)
  BY <1>0, <1>6, QuietKeepsCleaned DEF CountLease
<1>7. CASE GetCreateLock(r)
  BY <1>0, <1>7, QuietKeepsCleaned DEF GetCreateLock
<1>8. CASE FindHealthy(r)
  BY <1>0, <1>8, QuietKeepsCleaned DEF FindHealthy, LockAndSee, Registered, RegistryKeys, TypeOK
<1>9. CASE FindDestroying(r)
  BY <1>0, <1>9, QuietKeepsCleaned DEF FindDestroying, LockAndSee
<1>10. CASE FindNone(r)
  BY <1>0, <1>10, QuietKeepsCleaned DEF FindNone, LockAndSee
<1>11. CASE NotReady(r)
  BY <1>0, <1>11, QuietKeepsCleaned DEF NotReady, StartFailed
<1>12. CASE OpenPool(r)
  BY <1>0, <1>12, QuietKeepsCleaned DEF OpenPool
<1>13. CASE Publish(r)
  BY <1>0, <1>13, QuietKeepsCleaned DEF Publish
<1>14. CASE Release(r)
  BY <1>0, <1>14, QuietKeepsCleaned DEF Release
<1>15. CASE ReleaseSlot(r)
  BY <1>0, <1>15, QuietKeepsCleaned DEF ReleaseSlot
<1>16. CASE BeginDestroy(r)
  BY <1>0, <1>16, QuietKeepsCleaned DEF BeginDestroy
<1>17. CASE Drained(r)
  BY <1>0, <1>17, QuietKeepsCleaned DEF Drained
<1>18. CASE NothingToDestroy(r)
  <2>1. ~dirty[key[r]]
    BY <1>0, <1>18, NothingMeansClean
  <2>2. Goto(r, "done") /\ pc[r] = "destroy" /\ UNCHANGED <<key, reg, ent, attached, dirty, mark>>
    BY <1>18 DEF NothingToDestroy
  <2> USE <1>0, <2>2 DEF TypeOK, Goto, Cleaned
  <2>3. MarkPlace'
    BY DEF MarkPlace
  <2>4. Tracked'
    BY RequestAssumption DEF Tracked, Registered, Launching, Working
  <2>5. ResiduePending'
    BY <2>1 DEF ResiduePending
  <2> QED
    BY <2>3, <2>4, <2>5
<1>19. CASE ReuseContainer(r) \/ RestartContainer(r) \/ CreateContainer(r) \/ NoContainer(r)
  BY <1>0, <1>19, StartKeepsCleaned
<1>20. CASE FindStopped(r) \/ Register(r)
  BY <1>0, <1>20, BeginKeepsCleaned
<1>21. CASE FindUnhealthy(r) \/ FinishDestroy(r)
  BY <1>0, <1>21, DestroyKeepsCleaned
<1> QED
  BY <1>1, <1>2, <1>3, <1>4, <1>5, <1>6, <1>7, <1>8, <1>9, <1>10, <1>11, <1>12, <1>13, <1>14, <1>15, <1>16, <1>17, <1>18, <1>19, <1>20, <1>21
     DEF RequestStep, Lease, EnsureHealthy, GiveBack

\* Every step keeps it.
LEMMA NextCleans == Cleans /\ Apart /\ [Next]_vars => Cleans'
<1> SUFFICES ASSUME Cleans, Apart, [Next]_vars
             PROVE  Cleans'
  OBVIOUS
<1>1. Starts /\ Starts'
  BY NextStarts DEF Cleans
<1>2. TypeOK
  BY <1>1 DEF Starts, Locked
<1> SUFFICES ASSUME Removable'
             PROVE  Cleaned'
  BY <1>1 DEF Cleans
<1>3. FirstLife /\ FirstLife'
  BY <1>2, GenerationGrows DEF Removable
<1>4. Removable /\ Cleaned
  BY <1>3 DEF Removable, Cleans
<1>5. ASSUME NEW r \in Request, RequestStep(r)
      PROVE  Cleaned'
  BY <1>1, <1>4, <1>5, RequestCleaned
<1>6. CASE UNCHANGED <<pc, key, ent, reg, attached, dirty, mark>>
  BY <1>4, <1>6 DEF Cleaned, MarkPlace, Tracked, ResiduePending, Registered
<1>7. ASSUME NEW r \in Request, Contaminate(r)
      PROVE  Cleaned'
  <2>1. /\ pc[r] = "leased" /\ r \in Contaminator /\ ent[r] \in Entry /\ key[ent[r]] = key[r]
        /\ mark' = [mark EXCEPT ![r] = TRUE]
        /\ dirty' = [dirty EXCEPT ![key[r]] = @ \/ attached[ent[r]]]
        /\ UNCHANGED <<pc, key, ent, reg, attached>>
    BY <1>1, <1>7 DEF Contaminate, lockVars, entryVars, Starts, Owned, Pointers, KnownEntry, Holding
  <2> USE <1>2, <1>4, <2>1 DEF TypeOK, Cleaned
  <2>2. MarkPlace'
    BY DEF MarkPlace
  <2>3. attached[ent[r]] => Registered(ent[r])
    BY DEF Tracked, Working, Holding
  <2>4. \A k \in Key : dirty'[k] => reg'[k] # NoRequest
    BY <2>3, RequestAssumption DEF Tracked, Registered, Entry
  <2>5. Tracked'
    BY <2>4 DEF Tracked, Registered
  <2>6. ResiduePending'
    BY DEF ResiduePending
  <2> QED
    BY <2>2, <2>5, <2>6
<1>8. CASE Monitor
  <2>1. CASE Snapshot
    BY <1>6, <2>1 DEF Snapshot, lockVars, entryVars, localVars, dockerVars
  <2>2. ASSUME NEW e \in Entry, ProbeClosed(e) \/ ProbeOpen(e)
        PROVE  Cleaned'
    BY <1>6, <2>2 DEF ProbeClosed, ProbeOpen, lockVars, localVars, dockerVars
  <2>3. CASE MidnightCleanup
    <3>1. UNCHANGED <<pc, key, ent, mark>>
      BY <1>2, <2>3, CleanupFacts
    <3>2. PICK S \in SUBSET Entry :
            /\ DestroyEntries(S)
            /\ \A e \in S : Registered(e) /\ state[e] = "HEALTHY"
            /\ reg' = [k \in Key |-> IF reg[k] \in S THEN NoRequest ELSE reg[k]]
            /\ \A e \in Entry : Registered(e)' <=> Registered(e) /\ e \notin S
      BY <1>2, <2>3, CleanupFacts
    <3>3. /\ \A e \in Entry : attached'[e] <=> attached[e] /\ \A f \in S : key[f] # key[e]
          /\ \A k \in Key : dirty'[k] <=> dirty[k] /\ \A f \in S : key[f] # k
      BY <1>2, <1>4, <3>2, DestroyCleans DEF Removable
    <3>4. MarkPlace'
      BY <1>4, <3>1 DEF Cleaned, MarkPlace
    <3>5. ASSUME NEW r \in Contaminator, pc'[r] \in Launching
          PROVE  Registered(ent[r])'
      <4>1. /\ pc[r] \in Launching /\ ent[r] \in Entry /\ key[ent[r]] = key[r]
            /\ Registered(ent[r])
        BY <1>1, <1>4, <3>1, <3>5, RequestAssumption
           DEF Cleaned, Tracked, Starts, Owned, Pointers, KnownEntry, Launching
      <4>2. state[ent[r]] # "HEALTHY"
        BY <1>1, <1>3, <4>1, RequestAssumption DEF Starts, Started, StartAlone, Starting, Launching
      <4> QED
        BY <3>1, <3>2, <4>1, <4>2 DEF Registered
    <3>6. ASSUME NEW r \in Contaminator, pc'[r] \in Working, attached'[ent[r]]
          PROVE  Registered(ent[r])'
      <4>1. pc[r] \in Working /\ ent[r] \in Entry
        BY <1>1, <3>1, <3>6, RequestAssumption
           DEF Starts, Owned, Pointers, KnownEntry, Working, Holding
      <4>2. attached[ent[r]] /\ ent[r] \notin S
        BY <3>3, <3>6, <4>1
      <4> QED
        BY <1>4, <3>1, <3>2, <4>1, <4>2 DEF Cleaned, Tracked, Registered
    <3>7. ASSUME NEW k \in Key, dirty'[k]
          PROVE  reg'[k] # NoRequest
      <4>1. dirty[k] /\ \A f \in S : key[f] # k
        BY <3>3, <3>7
      <4>2. reg[k] # NoRequest /\ reg[k] \in Entry /\ key[reg[k]] = k
        BY <1>1, <1>2, <1>4, <4>1
           DEF Cleaned, Tracked, TypeOK, Starts, Owned, Pointers, RegistryKeys
      <4> QED
        BY <3>2, <4>1, <4>2
    <3>8. Tracked'
      BY <3>1, <3>5, <3>6, <3>7 DEF Tracked
    <3>9. ResiduePending'
      BY <1>4, <3>1, <3>3 DEF ResiduePending, Cleaned
    <3> QED
      BY <3>4, <3>8, <3>9 DEF Cleaned
  <2> QED
    BY <1>8, <2>1, <2>2, <2>3 DEF Monitor
<1>9. CASE ShutdownStep
  BY <1>2, <1>3, <1>6, <1>9, GenerationGrows DEF ShutdownStep, ShutdownCall,
     ShutdownDrained, ShutdownClear, lockVars, entryVars, localVars, dockerVars, FirstLife,
     TypeOK, Generation
<1>10. ASSUME NEW k \in Key, ContainerExits(k)
       PROVE  Cleaned'
  <2>1. /\ UNCHANGED <<pc, key, ent, reg, dirty, mark>>
        /\ \A e \in Entry : attached'[e] => attached[e]
    BY <1>10 DEF ContainerExits, lockVars, localVars
  <2>2. \A r \in Contaminator : pc[r] \in Working => ent[r] \in Entry
    BY <1>1, RequestAssumption DEF Starts, Owned, Pointers, KnownEntry, Working
  <2> QED
    BY <1>4, <2>1, <2>2 DEF Cleaned, MarkPlace, Tracked, ResiduePending, Registered
<1>11. CASE UNCHANGED vars
  BY <1>6, <1>11 DEF vars, lockVars, entryVars, localVars, dockerVars
<1> QED
  BY <1>5, <1>7, <1>8, <1>9, <1>10, <1>11 DEF Next, Idle

\* Residue in a container has a marked lease that is still to remove it, as long
\* as no request that soiled the container removes it while another one that
\* will soil it starts it: that one's entry is then off the registry, and nobody
\* finds it when it is to be destroyed.
THEOREM ResidueHasCleaner == Spec /\ []Apart => [](Removable => ResiduePending)
<1>1. Init => Cleans
  BY InitStarts, RequestAssumption DEF Init, Cleans, Cleaned, MarkPlace, Tracked, ResiduePending, Destroying,
     Launching, Working, Holding
<1>2. Cleans => (Removable => ResiduePending)
  BY DEF Cleans, Cleaned
<1> QED
  BY <1>1, <1>2, NextCleans, PTL DEF Spec

(***************************************************************************)
(* The pool implements LeaseService                                        *)
(***************************************************************************)
\* Docker removes what it is asked to remove, and no removal by a request that
\* soiled a container meets the start by another one, until the first shutdown().
Serving == Removable /\ Apart

Implements == Sums /\ Starts /\ Cleans

\* Where each request stands for its caller.
LEMMA PlaceFacts ==
  ASSUME TypeOK, NEW r \in Request
  PROVE  /\ pc[r] = "new" => Place(r) = "outside"
         /\ pc[r] = "leased" => Place(r) = "using"
         /\ pc[r] \in Destroying \cup {"unslot"} /\ mark[r] => Place(r) = "cleaning"
         /\ pc[r] = "done" \/ (pc[r] = "unslot" /\ ~mark[r]) => Place(r) = "answered"
         /\ pc[r] \in {"enter", "lock", "slot", "connect", "count"} \cup Starting
              => Place(r) = "waiting"
BY DEF TypeOK, Place, Starting, Destroying

\* What the promise is about, in the pool's own terms.
places == [r \in Request |-> Place(r)]
intacts == [r \in Request |-> Intact(r)]
knowns == [r \in Request |-> Known(r)]

\* The pool does what LeaseService allows, or nothing a caller could see.
Allowed == Service!Next \/ UNCHANGED Service!vars

\* A move of r changes the place of r only.
LEMMA PlacesMove ==
  ASSUME TypeOK, NEW r \in Request, NEW p \in Places, Goto(r, p), mark' = mark
  PROVE  places' = [places EXCEPT ![r] = Place(r)']
<1>1. \A q \in Request : q # r => Place(q)' = Place(q)
  BY DEF TypeOK, Goto, Place
<1> QED
  BY <1>1 DEF places

\* Leases see no difference while their entries keep container and registration.
LEMMA LeasesStay ==
  ASSUME TypeOK,
         \A q \in Request : pc'[q] = "leased" <=> pc[q] = "leased",
         \A q \in Request : pc[q] = "leased" =>
           /\ ent'[q] = ent[q] /\ attached'[ent[q]] = attached[ent[q]]
           /\ key'[ent[q]] = key[ent[q]]
           /\ reg'[key[ent[q]]] = ent[q] <=> reg[key[ent[q]]] = ent[q]
  PROVE  intacts' = intacts /\ knowns' = knowns
<1>1. \A q \in Request : Intact(q)' = Intact(q) /\ Known(q)' = Known(q)
  BY DEF Intact, Known, Registered
<1> QED
  BY <1>1 DEF intacts, knowns

\* A move of r that touches no container, no registration and no mark, and that
\* is no lease's beginning or end.
LEMMA QuietLeases ==
  ASSUME TypeOK, NEW r \in Request, NEW p \in Places, Goto(r, p),
         pc[r] # "leased", p # "leased", UNCHANGED <<key, reg, attached>>,
         \A q \in Request : q # r => ent'[q] = ent[q]
  PROVE  intacts' = intacts /\ knowns' = knowns
<1>1. \A q \in Request : pc'[q] = "leased" <=> pc[q] = "leased"
  BY DEF TypeOK, Goto
<1> QED
  BY <1>1, LeasesStay

\* Where a request waits for a lease.
Waiting == {"enter", "lock", "slot", "connect", "count"} \cup Starting

\* Such a move is a request's own progress, a refusal, or nothing to its caller.
LEMMA QuietAllowed ==
  ASSUME TypeOK, NEW r \in Request, NEW p \in Places, Goto(r, p),
         UNCHANGED <<key, mark, dirty>>, intacts' = intacts, knowns' = knowns,
         \/ pc[r] \in Waiting /\ p \in Waiting \cup {"done"}
         \/ pc[r] = "new" /\ p \in {"enter", "done"}
         \/ mark[r] /\ pc[r] \in {"unslot"} \cup Destroying /\ p \in Destroying
         \/ ~mark[r] /\ pc[r] = "unslot" /\ p = "done"
  PROVE  Allowed
<1>1. places' = [places EXCEPT ![r] = Place(r)'] /\ places[r] = Place(r)
  BY PlacesMove, PlaceFacts DEF places
<1>2. pc'[r] = p /\ mark'[r] = mark[r]
  BY DEF TypeOK, Goto
<1>3. CASE pc[r] \in Waiting /\ p = "done"
  <2>1. Place(r) = "waiting" /\ Place(r)' = "answered"
    BY <1>2, <1>3, PlaceFacts DEF Waiting, Place
  <2> QED
    BY <1>1, <2>1 DEF Allowed, Service!Next, Service!Refuse, Service!Move, places, intacts, knowns
<1>4. CASE pc[r] = "new" /\ p = "enter"
  <2>1. Place(r) = "outside" /\ Place(r)' = "waiting"
    BY <1>2, <1>4, PlaceFacts DEF Place, Destroying
  <2> QED
    BY <1>1, <2>1 DEF Allowed, Service!Next, Service!Ask, Service!Move, places, intacts, knowns
<1>5. CASE pc[r] = "new" /\ p = "done"
  <2>1. Place(r) = "outside" /\ Place(r)' = "answered"
    BY <1>2, <1>5, PlaceFacts DEF Place, Destroying
  <2> QED
    BY <1>1, <2>1 DEF Allowed, Service!Next, Service!Refuse, Service!Move, places, intacts, knowns
<1>6. CASE \/ pc[r] \in Waiting /\ p \in Waiting
           \/ mark[r] /\ pc[r] \in {"unslot"} \cup Destroying /\ p \in Destroying
           \/ ~mark[r] /\ pc[r] = "unslot" /\ p = "done"
  <2>1. Place(r)' = Place(r)
    BY <1>2, <1>6 DEF Place, Waiting, Starting, Destroying
  <2>2. places' = places
    <3>1. places = [places EXCEPT ![r] = places[r]]
      BY DEF places
    <3> QED
      BY <1>1, <2>1, <3>1
  <2> QED
    BY <2>2 DEF Allowed, Service!vars, places, intacts, knowns
<1> QED
  BY <1>3, <1>4, <1>5, <1>6

\* When the containers of the keys K go, their leases see it, and nobody else;
\* a lease that stays known keeps its registration.
LEMMA LeasesGo ==
  ASSUME TypeOK, KnownEntry, NEW K \in SUBSET Key, key' = key,
         \A q \in Request : pc'[q] = "leased" <=> pc[q] = "leased",
         \A q \in Request : pc[q] = "leased" =>
           /\ ent'[q] = ent[q]
           /\ attached'[ent[q]] = (attached[ent[q]] /\ key[q] \notin K)
           /\ key[q] \notin K => (reg'[key[q]] = ent[q] <=> reg[key[q]] = ent[q]),
         \A k \in Key : dirty'[k] = (dirty[k] /\ k \notin K), dirty' \in [Key -> BOOLEAN]
  PROVE  Service!Removed(K)
<1>1. \A q \in Request : pc[q] = "leased" => ent[q] \in Entry /\ key[ent[q]] = key[q]
  BY DEF KnownEntry, Holding
<1>2. \A q \in Request : Intact(q)' = (Intact(q) /\ key[q] \notin K)
  BY <1>1 DEF Intact
<1>3. \A q \in Request : Known(q)' = (Known(q) /\ key[q] \notin K)
  BY <1>1, <1>2 DEF Known, Intact, Registered
<1> QED
  BY <1>2, <1>3 DEF Service!Removed, TypeOK

\* The removal of a registered entry is a removal of the container of its key.
LEMMA DestroyRemoves ==
  ASSUME TypeOK, TypeOK', KnownEntry, "removalFails" \notin Event, NEW S \in SUBSET Entry,
         DestroyEntries(S), UNCHANGED <<key, ent>>,
         \A q \in Request : pc'[q] = "leased" <=> pc[q] = "leased",
         \A q \in Request : (\A f \in S : key[f] # key[q]) =>
           (reg'[key[q]] = ent[q] <=> reg[key[q]] = ent[q])
  PROVE  Service!Removed({key[f] : f \in S})
<1> DEFINE K == {key[f] : f \in S}
<1>2. K \in SUBSET Key
  BY DEF TypeOK, Entry
<1>a. /\ \A e \in Entry : attached'[e] <=> attached[e] /\ \A f \in S : key[f] # key[e]
      /\ \A k \in Key : dirty'[k] <=> dirty[k] /\ \A f \in S : key[f] # k
  BY DestroyCleans
<1>b. \A k : k \notin K <=> \A f \in S : key[f] # k
  OBVIOUS
<1>c. attached' \in [Entry -> BOOLEAN] /\ dirty' \in [Key -> BOOLEAN]
  BY DEF TypeOK
<1>3. \A e \in Entry : attached'[e] = (attached[e] /\ key[e] \notin K)
  BY <1>a, <1>b, <1>c
<1>4. \A k \in Key : dirty'[k] = (dirty[k] /\ k \notin K)
  BY <1>a, <1>b, <1>c
<1>5. \A q \in Request : pc[q] = "leased" => ent[q] \in Entry /\ key[ent[q]] = key[q]
  BY DEF KnownEntry, Holding
<1>6. \A q \in Request : pc[q] = "leased" =>
        /\ ent'[q] = ent[q]
        /\ attached'[ent[q]] = (attached[ent[q]] /\ key[q] \notin K)
        /\ key[q] \notin K => (reg'[key[q]] = ent[q] <=> reg[key[q]] = ent[q])
  BY <1>3, <1>5
<1>7. dirty' \in [Key -> BOOLEAN]
  BY DEF TypeOK
<1> HIDE DEF K
<1>8. Service!Removed(K)
  BY <1>2, <1>4, <1>6, <1>7, LeasesGo
<1> QED
  BY <1>8 DEF K

\* A lease in use is not on the entry that a start goes on for.
LEMMA StartSpares ==
  ASSUME Starts, FirstLife, NEW r \in Request, pc[r] \in Launching,
         NEW q \in Request, pc[q] = "leased"
  PROVE  ent[q] # ent[r] /\ ent[q] \in Entry /\ key[ent[q]] = key[q]
<1>1. Started /\ KnownEntry
  BY StartFacts
<1> QED
  BY <1>1 DEF Started, StartFresh, Working, Holding, KnownEntry

\* A start takes the container of its key over, restarts it, replaces it, or is
\* refused; leases of an old one notice only that it went.
LEMMA StartAllowed ==
  ASSUME Starts, FirstLife, TypeOK', NEW r \in Request,
         \/ ReuseContainer(r) \/ RestartContainer(r) \/ CreateContainer(r)
         \/ NoContainer(r)
  PROVE  Allowed
<1>1. TypeOK /\ KnownEntry
  BY StartFacts
<1>2. pc[r] = "start" /\ ent[r] \in Entry /\ key[ent[r]] = key[r]
  BY <1>1 DEF ReuseContainer, RestartContainer, CreateContainer, StartStep, NoContainer, KnownEntry
<1>3. UNCHANGED <<key, reg, ent, mark>>
  BY DEF ReuseContainer, RestartContainer, CreateContainer, StartStep, NoContainer,
     StartFailed, lockVars, localVars
<1>4. \A q \in Request : pc[q] = "leased" =>
        ent[q] # ent[r] /\ ent[q] \in Entry /\ key[ent[q]] = key[q]
  BY <1>2, StartSpares DEF Launching
<1>5. PICK p \in {"wait", "done"} :
        Goto(r, p) /\ (p = "done" <=> NoContainer(r))
  <2>1. CASE ReuseContainer(r) \/ RestartContainer(r) \/ CreateContainer(r)
    <3>1. Goto(r, "wait") /\ ~NoContainer(r)
      BY <1>1, <2>1, ZenonT(40) DEF ReuseContainer, RestartContainer, CreateContainer, NoContainer,
         StartFailed, Goto, TypeOK
    <3> QED
      BY <3>1
  <2>2. CASE NoContainer(r)
    BY <2>2 DEF NoContainer, StartFailed
  <2> QED
    BY <2>1, <2>2
<1>6. p \in Places /\ p # "leased" /\ \A q \in Request : pc'[q] = "leased" <=> pc[q] = "leased"
  BY <1>1, <1>2, <1>5 DEF TypeOK, Goto, Places, Starting
<1>7. CASE ReuseContainer(r) \/ RestartContainer(r) \/ (NoContainer(r) /\ UNCHANGED <<dockerVars, attached>>)
  <2>1. UNCHANGED dirty /\ \A e \in Entry : e # ent[r] => attached'[e] = attached[e]
    BY <1>1, <1>7 DEF ReuseContainer, RestartContainer, dockerVars, TypeOK
  <2>2. intacts' = intacts /\ knowns' = knowns
    BY <1>1, <1>3, <1>4, <1>6, <2>1, LeasesStay
  <2> QED
    BY <1>1, <1>2, <1>3, <1>5, <1>6, <2>1, <2>2, QuietAllowed DEF Waiting, Starting
<1>8. CASE CreateContainer(r) \/ (NoContainer(r) /\ ~UNCHANGED <<dockerVars, attached>>)
  <2>1. /\ \A e \in Entry : e # ent[r] => attached'[e] = (attached[e] /\ key[e] # key[r])
        /\ \A k \in Key : dirty'[k] = (dirty[k] /\ k # key[r])
    <3>1. dirty' = [dirty EXCEPT ![key[r]] = FALSE]
      BY <1>8 DEF CreateContainer, NoContainer
    <3>2. ASSUME NEW e \in Entry, e # ent[r]
          PROVE  attached'[e] = (attached[e] /\ key[e] # key[r])
      <4>1. CASE CreateContainer(r)
        BY <3>2, <4>1 DEF CreateContainer
      <4>2. CASE NoContainer(r) /\ ~UNCHANGED <<dockerVars, attached>>
        BY <4>2 DEF NoContainer
      <4> QED
        BY <1>8, <4>1, <4>2
    <3>3. \A k \in Key : dirty'[k] = (dirty[k] /\ k # key[r])
      BY <1>1, <3>1 DEF TypeOK
    <3> QED
      BY <3>2, <3>3
  <2>2. \A q \in Request : pc[q] = "leased" =>
          /\ ent'[q] = ent[q]
          /\ attached'[ent[q]] = (attached[ent[q]] /\ key[q] \notin {key[r]})
          /\ reg'[key[q]] = ent[q] <=> reg[key[q]] = ent[q]
    BY <1>3, <1>4, <2>1
  <2>3. /\ {key[r]} \in SUBSET Key /\ dirty' \in [Key -> BOOLEAN]
        /\ \A k \in Key : dirty'[k] = (dirty[k] /\ k \notin {key[r]})
    BY <1>1, <2>1 DEF TypeOK
  <2>4. Service!Removed({key[r]})
    BY <1>1, <1>3, <1>6, <2>2, <2>3, LeasesGo
  <2>5. places' = [places EXCEPT ![r] = Place(r)'] /\ Place(r) = "waiting" /\ places[r] = Place(r)
    BY <1>1, <1>2, <1>3, <1>5, <1>6, PlacesMove, PlaceFacts DEF Starting, places
  <2>6. Place(r)' = IF p = "done" THEN "answered" ELSE "waiting"
    BY <1>1, <1>5 DEF Place, Destroying, Goto, TypeOK
  <2>7. CASE p = "done"
    BY <1>3, <2>4, <2>5, <2>6, <2>7 DEF Allowed, Service!Next, Service!Refuse, Service!Move, places
  <2>8. CASE p = "wait"
    <3>1. places' = places
      <4>1. places = [places EXCEPT ![r] = places[r]]
        BY DEF places
      <4> QED
        BY <2>5, <2>6, <2>8, <4>1
    <3> QED
      BY <1>3, <2>4, <2>5, <3>1 DEF Allowed, Service!Next, Service!Replace, places
  <2> QED
    BY <2>7, <2>8
<1> QED
  BY <1>7, <1>8

\* The leases a request finds counted before its own leave room for it.
LEMMA RoomForOne ==
  ASSUME Sums, NEW r \in Request, pc[r] = "count", Registered(ent[r])
  PROVE  Cardinality(Service!Known(key[r])) < MaxConcurrency
<1>1. TypeOK /\ KnownEntry
  BY DEF Sums, Pointers
<1>2. ent[r] \in Entry /\ key[ent[r]] = key[r] /\ reg[key[r]] = ent[r]
  BY <1>1 DEF KnownEntry, Holding, Registered
<1> DEFINE H == At(Holding, ent[r])
<1>3. r \in H /\ IsFiniteSet(H) /\ Cardinality(H) \in Nat
  BY AtFinite DEF At, Holding
<1>4. Cardinality(H) <= MaxConcurrency
  BY <1>1, <1>2, <1>3, BoundsAssumption DEF Sums, SlotSum, TypeOK
<1>5. Service!Known(key[r]) \subseteq H \ {r}
  <2>1. ASSUME NEW q \in Request, key[q] = key[r], Known(q)
        PROVE  q # r /\ pc[q] \in Holding /\ ent[q] = ent[r]
    BY <1>1, <1>2, <2>1 DEF Known, Intact, Registered, KnownEntry, Holding
  <2> QED
    BY <2>1 DEF Service!Known, At
<1>6. IsFiniteSet(H \ {r}) /\ Cardinality(H \ {r}) = Cardinality(H) - 1
  BY <1>3, FS_RemoveElement
<1>7. Cardinality(Service!Known(key[r])) <= Cardinality(H \ {r})
  BY <1>5, <1>6, FS_Subset
<1>8. Cardinality(Service!Known(key[r])) \in Nat
  BY <1>5, <1>6, FS_Subset, FS_CardinalityType
<1> QED
  BY <1>3, <1>4, <1>6, <1>7, <1>8, BoundsAssumption

\* A lease begins.
LEMMA CountAllowed ==
  ASSUME Sums, NEW r \in Request, CountLease(r)
  PROVE  Allowed
<1>1. TypeOK
  BY DEF Sums, Pointers
<1>2. /\ pc[r] = "count" /\ Goto(r, "leased")
      /\ UNCHANGED <<key, reg, ent, attached, mark, dirty>>
  BY DEF CountLease, lockVars, localVars, dockerVars
<1>3. places' = [places EXCEPT ![r] = "using"] /\ places[r] = "waiting"
  <2>1. Place(r)' = "using"
    BY <1>1, <1>2 DEF Place, Goto, TypeOK, Destroying
  <2> QED
    BY <1>1, <1>2, <2>1, PlacesMove, PlaceFacts DEF places, Places, Holding
<1> DEFINE whole == attached[ent[r]] = TRUE
           counted == whole /\ Registered(ent[r])
<1>4. counted => Cardinality(Service!Known(key[r])) < MaxConcurrency
  BY <1>2, RoomForOne
<1>5. \A q \in Request :
        /\ Intact(q)' = IF q = r THEN whole ELSE Intact(q)
        /\ Known(q)' = IF q = r THEN counted ELSE Known(q)
  <2>1. pc'[r] = "leased" /\ \A q \in Request : q # r => pc'[q] = pc[q]
    BY <1>1, <1>2 DEF Goto, TypeOK
  <2> QED
    BY <1>2, <2>1 DEF Intact, Known, Registered
<1>6. /\ intacts' = [intacts EXCEPT ![r] = whole]
      /\ knowns' = [knowns EXCEPT ![r] = counted]
  BY <1>5 DEF intacts, knowns
<1>7. whole \in BOOLEAN /\ counted \in BOOLEAN
  OBVIOUS
<1> HIDE DEF whole, counted
<1>8. counted => whole /\ Cardinality(Service!Known(key[r])) < MaxConcurrency
  BY <1>4 DEF whole, counted
<1>9. \E w \in BOOLEAN, c \in BOOLEAN :
        /\ c => w /\ Cardinality(Service!Known(key[r])) < MaxConcurrency
        /\ intacts' = [intacts EXCEPT ![r] = w]
        /\ knowns' = [knowns EXCEPT ![r] = c]
  BY <1>6, <1>7, <1>8
<1>10. Service!Move(r, "waiting", "using") /\ UNCHANGED <<key, mark, dirty>>
  BY <1>2, <1>3 DEF Service!Move, places
<1>11. Service!Grant(r)
  BY <1>9, <1>10, Zenon DEF Service!Grant, Service!Cardinality, Cardinality, intacts, knowns
<1> QED
  BY <1>11 DEF Allowed, Service!Next

\* A lease soils its container if that still exists.
LEMMA ContaminateAllowed ==
  ASSUME TypeOK, NEW r \in Request, Contaminate(r)
  PROVE  Allowed
<1>1. /\ pc[r] = "leased" /\ ~mark[r] /\ mark' = [mark EXCEPT ![r] = TRUE]
      /\ dirty' = [dirty EXCEPT ![key[r]] = @ \/ attached[ent[r]]]
      /\ UNCHANGED <<pc, key, reg, ent, attached>>
  BY DEF Contaminate, lockVars, entryVars
<1>2. places' = places /\ places[r] = "using"
  <2>1. \A q \in Request : Place(q)' = Place(q)
    BY <1>1 DEF Place, TypeOK, Destroying
  <2> QED
    BY <1>1, <2>1, PlaceFacts DEF places
<1>3. intacts' = intacts /\ knowns' = knowns
  BY <1>1, LeasesStay
<1>4. dirty' = [dirty EXCEPT ![key[r]] = @ \/ intacts[r]]
  BY <1>1 DEF intacts, Intact, TypeOK
<1>5. Service!Soil(r)
  BY <1>1, <1>2, <1>3, <1>4 DEF Service!Soil, places, intacts, knowns
<1> QED
  BY <1>5 DEF Allowed, Service!Next

\* A lease ends.
LEMMA ReleaseAllowed ==
  ASSUME TypeOK, NEW r \in Request, Release(r)
  PROVE  Allowed
<1>1. /\ pc[r] = "leased" /\ Goto(r, "unslot")
      /\ UNCHANGED <<key, reg, ent, attached, mark, dirty>>
  BY DEF Release, lockVars, localVars, dockerVars
<1>2. places' = [places EXCEPT ![r] = IF mark[r] THEN "cleaning" ELSE "answered"]
      /\ places[r] = "using"
  <2>1. Place(r)' = IF mark[r] THEN "cleaning" ELSE "answered"
    BY <1>1 DEF Place, Goto, TypeOK, Destroying
  <2> QED
    BY <1>1, <2>1, PlacesMove, PlaceFacts DEF places, Places, Holding
<1>3. \A q \in Request :
        /\ Intact(q)' = IF q = r THEN FALSE ELSE Intact(q)
        /\ Known(q)' = IF q = r THEN FALSE ELSE Known(q)
  <2>1. pc'[r] = "unslot" /\ \A q \in Request : q # r => pc'[q] = pc[q]
    BY <1>1 DEF Goto, TypeOK
  <2> QED
    BY <1>1, <2>1 DEF Intact, Known, Registered
<1>4. intacts' = [intacts EXCEPT ![r] = FALSE] /\ knowns' = [knowns EXCEPT ![r] = FALSE]
  BY <1>3 DEF intacts, knowns
<1>5. Service!Return(r)
  BY <1>1, <1>2, <1>4 DEF Service!Return, Service!Move, places, intacts, knowns
<1> QED
  BY <1>5 DEF Allowed, Service!Next

\* A destroyer that finds nothing leaves no residue behind.
LEMMA NothingAllowed ==
  ASSUME TypeOK, Cleaned, Removable, NEW r \in Request, NothingToDestroy(r)
  PROVE  Allowed
<1>1. /\ pc[r] = "destroy" /\ mark[r] /\ Goto(r, "done")
      /\ UNCHANGED <<key, reg, ent, attached, mark, dirty>>
  BY DEF NothingToDestroy, lockVars, entryVars, localVars, dockerVars, Cleaned, MarkPlace, Destroying
<1>2. places' = [places EXCEPT ![r] = "answered"] /\ places[r] = "cleaning"
  <2>1. Place(r)' = "answered"
    BY <1>1 DEF Place, Goto, TypeOK, Destroying
  <2> QED
    BY <1>1, <2>1, PlacesMove, PlaceFacts DEF places, Places, Destroying
<1>3. intacts' = intacts /\ knowns' = knowns
  BY <1>1, QuietLeases DEF Places
<1>4. ~Service!LastCleaner(r)
  BY NothingMeansClean DEF Service!LastCleaner
<1>5. Service!CleanUp(r)
  BY <1>1, <1>2, <1>3, <1>4 DEF Service!CleanUp, Service!Move, places, intacts, knowns
<1> QED
  BY <1>5 DEF Allowed, Service!Next

\* Who registers an entry found none, so no lease is known then, and none after.
LEMMA RegisterAllowed ==
  ASSUME Starts, FirstLife, NEW r \in Request, Register(r)
  PROVE  Allowed
<1>1. TypeOK /\ KnownEntry /\ Unborn /\ RegisterEmpty
  BY StartFacts DEF Started
<1>2. /\ pc[r] = "register" /\ Goto(r, "start")
      /\ reg' = [reg EXCEPT ![key[r]] = r]
      /\ ent' = [ent EXCEPT ![r] = r] /\ UNCHANGED <<key, attached, mark, dirty>>
  BY DEF Register, dockerVars
<1>3. \A q \in Request : pc'[q] = "leased" <=> pc[q] = "leased"
  BY <1>1, <1>2 DEF Goto, TypeOK
<1>4. reg[key[r]] = NoRequest /\ \A q \in Request : ent[q] # r
  BY <1>1, <1>2 DEF RegisterEmpty, Unborn
<1>5. \A q \in Request : pc[q] = "leased" =>
        q # r /\ ent[q] \in Entry /\ key[ent[q]] = key[q]
  BY <1>1, <1>2 DEF KnownEntry, Holding
<1>6. \A q \in Request : pc[q] = "leased" =>
        (reg'[key[ent[q]]] = ent[q] <=> reg[key[ent[q]]] = ent[q])
  BY <1>1, <1>2, <1>4, <1>5, RequestAssumption DEF TypeOK, Entry
<1>7. intacts' = intacts /\ knowns' = knowns
  BY <1>1, <1>2, <1>3, <1>5, <1>6, LeasesStay DEF TypeOK
<1> QED
  BY <1>1, <1>2, <1>7, QuietAllowed DEF Waiting, Places, Starting

\* Who destroys the entry of a key removes the container.
LEMMA DestroyAllowed ==
  ASSUME Starts, MarkPlace, Removable, TypeOK', NEW r \in Request,
         FindUnhealthy(r) \/ FinishDestroy(r)
  PROVE  Allowed
<1>1. /\ TypeOK /\ KnownEntry /\ RegistryKeys /\ "removalFails" \notin Event
  BY StartFacts DEF Removable
<1>2. PICK e \in Entry :
        /\ DestroyEntries({e}) /\ key[e] = key[r]
        /\ reg' = [reg EXCEPT ![key[r]] = NoRequest]
        /\ UNCHANGED <<key, ent, mark>>
  <2>1. CASE FindUnhealthy(r)
    <3>1. /\ reg[key[r]] \in Entry /\ key[reg[key[r]]] = key[r]
          /\ DestroyEntries({reg[key[r]]})
      BY <1>1, <2>1 DEF FindUnhealthy, RegistryKeys, TypeOK
    <3>2. /\ reg' = [reg EXCEPT ![key[r]] = NoRequest]
          /\ UNCHANGED <<key, ent, mark>>
      BY <2>1 DEF FindUnhealthy, LockAndSee
    <3> QED
      BY <3>1, <3>2
  <2>2. CASE FinishDestroy(r)
    BY <1>1, <2>2 DEF FinishDestroy, KnownEntry, localVars
  <2> QED
    BY <2>1, <2>2
<1>3. \/ pc[r] = "lock" /\ Goto(r, "register")
      \/ pc[r] = "kill" /\ mark[r] /\ Goto(r, "done")
  BY DEF FindUnhealthy, LockAndSee, FinishDestroy, MarkPlace, Destroying
<1>4. \A q \in Request : pc'[q] = "leased" <=> pc[q] = "leased"
  BY <1>1, <1>3 DEF Goto, TypeOK
<1>5. Service!Removed({key[r]})
  <2> DEFINE S == {e}
  <2>1. S \in SUBSET Entry /\ DestroyEntries(S) /\ {key[f] : f \in S} = {key[r]}
    BY <1>2
  <2>2. \A q \in Request : (\A f \in S : key[f] # key[q]) =>
          (reg'[key[q]] = ent[q] <=> reg[key[q]] = ent[q])
    BY <1>1, <1>2 DEF TypeOK
  <2> HIDE DEF S
  <2>3. Service!Removed({key[f] : f \in S})
    BY <1>1, <1>2, <1>4, <2>1, <2>2, DestroyRemoves
  <2> QED
    BY <2>1, <2>3
<1>6. CASE pc[r] = "lock" /\ Goto(r, "register")
  <2>1. Place(r)' = "waiting" /\ places[r] = "waiting"
    BY <1>1, <1>6, PlaceFacts DEF Place, Goto, TypeOK, Destroying, places
  <2>2. places' = [places EXCEPT ![r] = "waiting"]
    BY <1>1, <1>2, <1>6, <2>1, PlacesMove DEF Places, Starting
  <2>3. places' = places
    <3>1. places = [places EXCEPT ![r] = places[r]]
      BY DEF places
    <3> QED
      BY <2>1, <2>2, <3>1
  <2>4. Service!Replace(r)
    BY <1>2, <1>5, <2>1, <2>3 DEF Service!Replace, places
  <2> QED
    BY <2>4 DEF Allowed, Service!Next
<1>7. CASE pc[r] = "kill" /\ mark[r] /\ Goto(r, "done")
  <2>1. Place(r)' = "answered" /\ places[r] = "cleaning"
    BY <1>1, <1>7, PlaceFacts DEF Place, Goto, TypeOK, Destroying, places
  <2>2. places' = [places EXCEPT ![r] = "answered"]
    BY <1>1, <1>2, <1>7, <2>1, PlacesMove DEF Places
  <2>3. Service!CleanUp(r)
    BY <1>2, <1>5, <2>1, <2>2 DEF Service!CleanUp, Service!Move, places
  <2> QED
    BY <2>3 DEF Allowed, Service!Next
<1> QED
  BY <1>3, <1>6, <1>7

\* The cleanup removes containers without a known lease.
LEMMA CleanupAllowed ==
  ASSUME Sums, TypeOK', "removalFails" \notin Event, MidnightCleanup
  PROVE  Allowed
<1>1. TypeOK /\ KnownEntry /\ RegistryKeys
  BY DEF Sums, Pointers
<1>2. UNCHANGED <<pc, key, ent, mark>>
  BY <1>1, CleanupFacts
<1>3. PICK S \in SUBSET Entry :
        /\ DestroyEntries(S)
        /\ \A e \in S : Registered(e) /\ active[e] = 0
        /\ reg' = [k \in Key |-> IF reg[k] \in S THEN NoRequest ELSE reg[k]]
  BY <1>1, CleanupFacts
<1> DEFINE K == {key[e] : e \in S}
<1>4. Service!Removed(K)
  <2>1. ASSUME NEW q \in Request, \A f \in S : key[f] # key[q]
        PROVE  reg'[key[q]] = ent[q] <=> reg[key[q]] = ent[q]
    BY <1>1, <1>3, <2>1 DEF TypeOK, RegistryKeys
  <2> QED
    BY <1>1, <1>2, <1>3, <2>1, DestroyRemoves
<1>5. \A k \in K : k \in Key /\ Service!Known(k) = {}
  <2>1. ASSUME NEW e \in S
        PROVE  \A q \in Request : ~(key[q] = key[e] /\ Known(q))
    <3>1. At({"leased"}, e) = {}
      BY <1>3, AtFinite, FS_EmptySet DEF Sums, LeaseSum
    <3>2. ASSUME NEW q \in Request, key[q] = key[e], Known(q)
          PROVE  q \in At({"leased"}, e)
      BY <1>1, <1>3, <3>2 DEF Known, Intact, Registered, KnownEntry, Holding, At
    <3> QED
      BY <3>1, <3>2
  <2>2. \A e \in S : key[e] \in Key
    BY <1>1 DEF TypeOK, Entry
  <2> QED
    BY <2>1, <2>2 DEF Service!Known
<1>6. places' = places
  <2>1. \A q \in Request : Place(q)' = Place(q)
    BY <1>2 DEF Place
  <2> QED
    BY <2>1 DEF places
<1> HIDE DEF K
<1>7. K \in SUBSET {k \in Key : Service!Known(k) = {}}
  BY <1>5
<1>8. Service!RemoveIdle
  BY <1>2, <1>4, <1>6, <1>7 DEF Service!RemoveIdle, places
<1> QED
  BY <1>8 DEF Allowed, Service!Next

\* Every move of a request is one LeaseService allows.
LEMMA RequestAllowed ==
  ASSUME Sums, Starts, Cleaned, Removable, TypeOK', NEW r \in Request, RequestStep(r)
  PROVE  Allowed
<1>0. /\ TypeOK /\ FirstLife /\ MarkPlace
      /\ pc[r] \in Destroying => mark[r]
      /\ mark[r] \in BOOLEAN
  BY DEF Starts, Locked, Removable, Cleaned, MarkPlace, TypeOK
<1> USE <1>0 DEF Places, Starting, Holding, Destroying, Waiting
<1> USE DEF localVars, lockVars, entryVars, dockerVars
<1>1. CASE LeaseCall(r)
  BY <1>1, QuietLeases, QuietAllowed DEF LeaseCall
<1>2. CASE AcquireSlot(r)
  BY <1>2, QuietLeases, QuietAllowed DEF AcquireSlot
<1>3. CASE SlotTimeout(r)
  BY <1>3, QuietLeases, QuietAllowed DEF SlotTimeout
<1>4. CASE Connect(r)
  BY <1>4, QuietLeases, QuietAllowed DEF Connect
<1>5. CASE ConnectFails(r)
  BY <1>5, QuietLeases, QuietAllowed DEF ConnectFails
<1>6. CASE GetCreateLock(r)
  BY <1>6, QuietLeases, QuietAllowed DEF GetCreateLock
<1>7. CASE FindHealthy(r)
  BY <1>7, QuietLeases, QuietAllowed DEF FindHealthy, LockAndSee
<1>8. CASE FindDestroying(r)
  BY <1>8, QuietLeases, QuietAllowed DEF FindDestroying, LockAndSee
<1>9. CASE FindStopped(r)
  BY <1>9, QuietLeases, QuietAllowed DEF FindStopped, LockAndSee
<1>10. CASE FindNone(r)
  BY <1>10, QuietLeases, QuietAllowed DEF FindNone, LockAndSee
<1>11. CASE NotReady(r)
  BY <1>11, QuietLeases, QuietAllowed DEF NotReady, StartFailed
<1>12. CASE OpenPool(r)
  BY <1>12, QuietLeases, QuietAllowed DEF OpenPool
<1>13. CASE Publish(r)
  BY <1>13, QuietLeases, QuietAllowed DEF Publish
<1>14. CASE ReleaseSlot(r)
  BY <1>14, QuietLeases, QuietAllowed DEF ReleaseSlot
<1>15. CASE BeginDestroy(r)
  BY <1>15, QuietLeases, QuietAllowed DEF BeginDestroy
<1>16. CASE Drained(r)
  BY <1>16, QuietLeases, QuietAllowed DEF Drained
<1>17. CASE CountLease(r)
  BY <1>17, CountAllowed
<1>18. CASE Release(r)
  BY <1>18, ReleaseAllowed
<1>19. CASE NothingToDestroy(r)
  BY <1>19, NothingAllowed
<1>20. CASE Register(r)
  BY <1>20, RegisterAllowed
<1>21. CASE FindUnhealthy(r) \/ FinishDestroy(r)
  BY <1>21, DestroyAllowed
<1>22. CASE ReuseContainer(r) \/ RestartContainer(r) \/ CreateContainer(r) \/ NoContainer(r)
  BY <1>22, StartAllowed
<1> QED
  BY <1>1, <1>2, <1>3, <1>4, <1>5, <1>6, <1>7, <1>8, <1>9, <1>10, <1>11, <1>12, <1>13, <1>14, <1>15, <1>16, <1>17, <1>18, <1>19, <1>20, <1>21, <1>22
     DEF RequestStep, Lease, EnsureHealthy, GiveBack

\* A container that stops breaks the leases of its key and no others.
LEMMA ExitAllowed ==
  ASSUME Starts, NEW k \in Key, ContainerExits(k)
  PROVE  Allowed
<1>1. TypeOK /\ KnownEntry
  BY DEF Starts, Locked, Owned, Pointers
<1>2. /\ "exit" \in Event
      /\ attached' = [e \in Entry |-> attached[e] /\ key[e] # k]
      /\ UNCHANGED <<pc, key, ent, reg, dirty, mark>>
  BY DEF ContainerExits, lockVars, localVars
<1>3. ASSUME NEW q \in Request
      PROVE  /\ Place(q)' = Place(q)
             /\ Intact(q)' = (Intact(q) /\ key[q] # k)
             /\ Known(q)' = (Known(q) /\ key[q] # k)
  <2>1. Place(q)' = Place(q)
    BY <1>2 DEF Place
  <2>2. pc[q] = "leased" => ent[q] \in Entry /\ key[ent[q]] = key[q]
    BY <1>1 DEF KnownEntry, Holding
  <2>3. Intact(q)' = (Intact(q) /\ key[q] # k)
    BY <1>2, <2>2 DEF Intact
  <2>4. Known(q)' = (Known(q) /\ key[q] # k)
    BY <1>2, <2>3 DEF Known, Registered
  <2> QED
    BY <2>1, <2>3, <2>4
<1>4. /\ places' = places
      /\ intacts' = [q \in Request |-> intacts[q] /\ key[q] # k]
      /\ knowns' = [q \in Request |-> knowns[q] /\ key[q] # k]
  BY <1>3 DEF places, intacts, knowns
<1>5. Service!Stop(k)
  BY <1>2, <1>4 DEF Service!Stop, Service!Forget, places, intacts, knowns
<1> QED
  BY <1>5 DEF Allowed, Service!Next

\* Every step is.
LEMMA NextAllowed == Implements /\ Serving /\ Serving' /\ [Next]_vars => Allowed
<1> SUFFICES ASSUME Implements, Serving, Serving', [Next]_vars
             PROVE  Allowed
  OBVIOUS
<1>1. /\ Sums /\ Starts /\ Cleaned /\ Removable /\ TypeOK /\ TypeOK'
      /\ FirstLife /\ FirstLife'
  BY NextTypeOK DEF Implements, Cleans, Serving, Removable, Starts, Locked
<1>2. ASSUME NEW r \in Request, RequestStep(r)
      PROVE  Allowed
  BY <1>1, <1>2, RequestAllowed
<1>3. ASSUME NEW r \in Request, Contaminate(r)
      PROVE  Allowed
  BY <1>1, <1>3, ContaminateAllowed
<1>4. CASE UNCHANGED <<pc, key, ent, reg, attached, dirty, mark>>
  <2>1. \A q \in Request :
          Place(q)' = Place(q) /\ Intact(q)' = Intact(q) /\ Known(q)' = Known(q)
    BY <1>4 DEF Place, Intact, Known, Registered
  <2>2. UNCHANGED <<places, intacts, knowns>>
    BY <2>1 DEF places, intacts, knowns
  <2> QED
    BY <1>4, <2>2 DEF Allowed, Service!vars, places, intacts, knowns
<1>5. CASE Monitor
  <2>1. CASE Snapshot
    BY <1>4, <2>1 DEF Snapshot, lockVars, entryVars, localVars, dockerVars
  <2>2. ASSUME NEW e \in Entry, ProbeClosed(e) \/ ProbeOpen(e)
        PROVE  Allowed
    BY <1>4, <2>2 DEF ProbeClosed, ProbeOpen, lockVars, localVars, dockerVars
  <2>3. CASE MidnightCleanup
    BY <1>1, <2>3, CleanupAllowed DEF Removable
  <2> QED
    BY <1>5, <2>1, <2>2, <2>3 DEF Monitor
<1>6. CASE ShutdownStep
  BY <1>1, <1>4, <1>6 DEF ShutdownStep, ShutdownCall, ShutdownDrained, ShutdownClear,
     lockVars, entryVars, localVars, dockerVars, FirstLife, TypeOK, Generation
<1>7. ASSUME NEW k \in Key, ContainerExits(k)
      PROVE  Allowed
  BY <1>1, <1>7, ExitAllowed
<1>8. CASE UNCHANGED vars
  BY <1>4, <1>8 DEF vars, lockVars, entryVars, localVars, dockerVars
<1> QED
  BY <1>2, <1>3, <1>5, <1>6, <1>7, <1>8 DEF Next, Idle

\* The pool starts where LeaseService starts.
LEMMA InitAllowed == Init => Service!Init
<1> SUFFICES ASSUME Init
             PROVE  Service!Init
  OBVIOUS
<1>1. \A r \in Request : Place(r) = "outside" /\ Intact(r) = FALSE /\ Known(r) = FALSE
  BY InitTypeOK, PlaceFacts DEF Init, Intact, Known
<1> QED
  BY <1>1 DEF Init, Service!Init

\* What a caller of the pool sees is what LeaseService promises, whatever the
\* number of requests and keys, as long as the service is Serving: a lease is
\* granted or refused, at most MaxConcurrency leases of a container are known,
\* containers with known leases go only for a reason, and residue is removed.
THEOREM PoolImplementsLeases == Spec /\ []Serving => ImplementsLeases
<1>1. Spec /\ []Serving => []Implements
  <2>1. Init => Implements
    BY InitSums, InitStarts, RequestAssumption DEF Implements, Cleans, Init, Cleaned, MarkPlace, Tracked,
       ResiduePending, Destroying, Launching, Working, Holding
  <2>2. Implements /\ Serving /\ [Next]_vars => Implements'
    BY NextSums, NextStarts, NextCleans DEF Implements, Serving
  <2> QED
    BY <2>1, <2>2, PTL DEF Spec
<1>2. Implements /\ Serving /\ Serving' /\ [Next]_vars => [Service!Next]_Service!vars
  BY NextAllowed DEF Allowed
<1>3. Init => Service!Init
  BY InitAllowed
<1> QED
  BY <1>1, <1>2, <1>3, PTL DEF Spec, Service!Spec, ImplementsLeases
=============================================================================
