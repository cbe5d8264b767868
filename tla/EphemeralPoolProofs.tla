------------------------- MODULE EphemeralPoolProofs -------------------------
(***************************************************************************)
(* Theorems about EphemeralPool, for every set of requests, every bound    *)
(* and every choice of what the environment may do.                        *)
(***************************************************************************)
EXTENDS EphemeralPoolLeases, FiniteSetTheorems, TLAPS

\* Where no container was asked for yet, where one is being made, and where
\* a request works on a finished entry.
Early == {"new", "inspect", "register", "starting"}
Launching == {"create", "wait", "publish"}
Working == {"slot", "ownSlot"} \cup Using

(***************************************************************************)
(* Requests and the entries they work on                                   *)
(***************************************************************************)
\* A request works on an entry that exists, and starts the one it made.
KnownEntry ==
  \A r \in Request :
    /\ pc[r] \in {"inspect"} \cup Working => ent[r] \in Entry
    /\ pc[r] \in {"starting", "failed", "ownSlot"} \cup Launching => ent[r] = r

\* A slot is held only between taking and giving back.
HeldInUse == \A r \in Request : held[r] => pc[r] \in Using

\* The requests behind the three counts of an entry.
Holding(e) == {r \in Request : held[r] /\ ent[r] = e}
Counted(e) == {r \in Request : pc[r] \in {"leased", "uncount"} /\ ent[r] = e}
Connected(e) == {r \in Request : pc[r] \in {"count", "leased"} /\ ent[r] = e}

Accounts == TypeOK /\ KnownEntry /\ HeldInUse /\ NoSlotLost /\ LeaseAccounting

\* What one member's coming or going does to the size of a set of requests.
LEMMA OneMember ==
  ASSUME NEW A \in SUBSET Request, NEW B \in SUBSET Request, NEW r \in Request,
         A \ {r} = B \ {r}
  PROVE  /\ Cardinality(A) \in Nat /\ Cardinality(B) \in Nat
         /\ Cardinality(B) = Cardinality(A) + (IF r \in B /\ r \notin A THEN 1 ELSE 0)
                                            - (IF r \in A /\ r \notin B THEN 1 ELSE 0)
<1>1. IsFiniteSet(A) /\ IsFiniteSet(B) /\ Cardinality(A) \in Nat /\ Cardinality(B) \in Nat
  BY RequestAssumption, FS_Subset, FS_CardinalityType
<1>2. CASE r \in B /\ r \notin A
  <2>1. B = A \cup {r}
    BY <1>2
  <2> QED
    BY <1>1, <1>2, <2>1, FS_AddElement
<1>3. CASE r \in A /\ r \notin B
  <2>1. B = A \ {r}
    BY <1>3
  <2> QED
    BY <1>1, <1>3, <2>1, FS_RemoveElement
<1>4. CASE r \in A <=> r \in B
  <2>1. B = A
    BY <1>4
  <2> QED
    BY <1>1, <1>4, <2>1
<1> QED
  BY <1>2, <1>3, <1>4

\* A request moves itself only.
LEMMA OthersStay ==
  ASSUME TypeOK, NEW r \in Request, RequestStep(r), NEW q \in Request, q # r
  PROVE  /\ pc'[q] = pc[q] /\ ent'[q] = ent[q]
         /\ held'[q] = held[q] /\ outcome'[q] = outcome[q]
<1> USE DEF TypeOK, Goto, Fail
<1>1. CASE Find(r)
  BY <1>1 DEF Find, Look, InspectHealthy, InspectStarting, InspectDead
<1>2. CASE Start(r)
  BY <1>2 DEF Start, Register, BeginStart, CreateContainer, CreateFails, Ready,
     NotReady, StartBreaks, Unregister, Publish
<1>3. CASE Take(r)
  BY <1>3 DEF Take, AcquireSlot, TimeoutIgnored, TimeoutRaised, Connect,
     ConnectFails, CountLease
<1>4. CASE GiveBack(r)
  BY <1>4 DEF GiveBack, CloseConnection, UncountLease, ReleaseSlot, ReleaseRaises
<1> QED
  BY <1>1, <1>2, <1>3, <1>4 DEF RequestStep

\* So the requests behind a count change by r at most.
LEMMA CountsChange ==
  ASSUME TypeOK, NEW r \in Request, RequestStep(r), NEW e \in Entry
  PROVE  /\ Cardinality(Holding(e)) \in Nat /\ Cardinality(Holding(e)') \in Nat
         /\ Cardinality(Holding(e)') = Cardinality(Holding(e))
              + (IF r \in Holding(e)' /\ r \notin Holding(e) THEN 1 ELSE 0)
              - (IF r \in Holding(e) /\ r \notin Holding(e)' THEN 1 ELSE 0)
         /\ Cardinality(Counted(e)) \in Nat /\ Cardinality(Counted(e)') \in Nat
         /\ Cardinality(Counted(e)') = Cardinality(Counted(e))
              + (IF r \in Counted(e)' /\ r \notin Counted(e) THEN 1 ELSE 0)
              - (IF r \in Counted(e) /\ r \notin Counted(e)' THEN 1 ELSE 0)
         /\ Cardinality(Connected(e)) \in Nat /\ Cardinality(Connected(e)') \in Nat
         /\ Cardinality(Connected(e)') = Cardinality(Connected(e))
              + (IF r \in Connected(e)' /\ r \notin Connected(e) THEN 1 ELSE 0)
              - (IF r \in Connected(e) /\ r \notin Connected(e)' THEN 1 ELSE 0)
<1>1. Holding(e) \ {r} = Holding(e)' \ {r}
  BY OthersStay DEF Holding
<1>2. Counted(e) \ {r} = Counted(e)' \ {r}
  BY OthersStay DEF Counted
<1>3. Connected(e) \ {r} = Connected(e)' \ {r}
  BY OthersStay DEF Connected
<1>4. /\ Holding(e) \in SUBSET Request /\ Holding(e)' \in SUBSET Request
      /\ Counted(e) \in SUBSET Request /\ Counted(e)' \in SUBSET Request
      /\ Connected(e) \in SUBSET Request /\ Connected(e)' \in SUBSET Request
  BY DEF Holding, Counted, Connected
<1>5. /\ Cardinality(Holding(e)) \in Nat /\ Cardinality(Holding(e)') \in Nat
      /\ Cardinality(Holding(e)') = Cardinality(Holding(e))
           + (IF r \in Holding(e)' /\ r \notin Holding(e) THEN 1 ELSE 0)
           - (IF r \in Holding(e) /\ r \notin Holding(e)' THEN 1 ELSE 0)
  BY <1>1, <1>4, OneMember
<1>6. /\ Cardinality(Counted(e)) \in Nat /\ Cardinality(Counted(e)') \in Nat
      /\ Cardinality(Counted(e)') = Cardinality(Counted(e))
           + (IF r \in Counted(e)' /\ r \notin Counted(e) THEN 1 ELSE 0)
           - (IF r \in Counted(e) /\ r \notin Counted(e)' THEN 1 ELSE 0)
  BY <1>2, <1>4, OneMember
<1>7. /\ Cardinality(Connected(e)) \in Nat /\ Cardinality(Connected(e)') \in Nat
      /\ Cardinality(Connected(e)') = Cardinality(Connected(e))
           + (IF r \in Connected(e)' /\ r \notin Connected(e) THEN 1 ELSE 0)
           - (IF r \in Connected(e) /\ r \notin Connected(e)' THEN 1 ELSE 0)
  BY <1>3, <1>4, OneMember
<1> QED
  BY <1>5, <1>6, <1>7

(***************************************************************************)
(* Slots, leases and connections                                           *)
(***************************************************************************)
\* The initial states satisfy all of it.
LEMMA InitAccounts == Init => Accounts
<1> SUFFICES ASSUME Init
             PROVE  Accounts
  OBVIOUS
<1>1. TypeOK
  <2>1. 0 \in 0..MaxConcurrency /\ MaxConcurrency \in 0..MaxConcurrency
    BY BoundsAssumption
  <2> QED
    BY <2>1 DEF Init, TypeOK, States, Places
<1>2. KnownEntry /\ HeldInUse
  BY DEF Init, KnownEntry, HeldInUse, Working, Launching, Using
<1>3. \A e \in Entry : Holding(e) = {} /\ Counted(e) = {} /\ Connected(e) = {}
  BY DEF Init, Holding, Counted, Connected
<1>4. \A e \in Entry : sem[e] = MaxConcurrency /\ active[e] = 0 /\ conns[e] = 0
  BY DEF Init
<1> QED
  BY <1>1, <1>2, <1>3, <1>4, FS_EmptySet, BoundsAssumption
     DEF Accounts, NoSlotLost, LeaseAccounting, Holding, Counted, Connected

\* A request looking for an entry or starting one keeps the types.
LEMMA FindStartTypes ==
  ASSUME Accounts, NEW r \in Request, Find(r) \/ Start(r)
  PROVE  TypeOK' /\ KnownEntry' /\ HeldInUse'
<1> USE DEF Accounts, TypeOK, KnownEntry, HeldInUse, Goto, Fail, Entry, entryVars
<1> USE DEF Places, Starting, Using, Working, Launching, States
<1>1. CASE Find(r)
  BY <1>1, RequestAssumption DEF Find, Look, InspectHealthy, InspectStarting, InspectDead
<1>2. CASE Register(r)
  BY <1>2 DEF Register
<1>3. CASE BeginStart(r)
  BY <1>3 DEF BeginStart
<1>4. CASE CreateContainer(r)
  BY <1>4 DEF CreateContainer
<1>5. CASE CreateFails(r)
  BY <1>5 DEF CreateFails
<1>6. CASE Ready(r)
  BY <1>6 DEF Ready
<1>7. CASE NotReady(r)
  BY <1>7 DEF NotReady
<1>8. CASE StartBreaks(r)
  BY <1>8 DEF StartBreaks
<1>9. CASE Unregister(r)
  BY <1>9 DEF Unregister
<1>10. CASE Publish(r)
  BY <1>10 DEF Publish
<1> QED
  BY <1>1, <1>2, <1>3, <1>4, <1>5, <1>6, <1>7, <1>8, <1>9, <1>10 DEF Start

\* So does one that takes a slot and a connection or gives them back: the
\* connection it closes is one of those counted.
LEMMA TakeGiveBackTypes ==
  ASSUME Accounts, NEW r \in Request, Take(r) \/ GiveBack(r)
  PROVE  TypeOK' /\ KnownEntry' /\ HeldInUse'
<1> USE DEF Accounts, TypeOK, KnownEntry, HeldInUse, Goto, Fail, Entry, entryVars
<1> USE DEF Places, Starting, Using, Working, Launching
<1>1. CASE AcquireSlot(r)
  BY <1>1, BoundsAssumption DEF AcquireSlot
<1>2. CASE TimeoutIgnored(r)
  BY <1>2 DEF TimeoutIgnored
<1>3. CASE TimeoutRaised(r)
  BY <1>3 DEF TimeoutRaised
<1>4. CASE Connect(r)
  BY <1>4, BoundsAssumption DEF Connect
<1>5. CASE CountLease(r)
  BY <1>5 DEF CountLease
<1>6. CASE ConnectFails(r)
  BY <1>6, BoundsAssumption DEF ConnectFails
<1>7. CASE ReleaseSlot(r)
  BY <1>7, BoundsAssumption DEF ReleaseSlot
<1>8. CASE ReleaseRaises(r)
  BY <1>8 DEF ReleaseRaises
<1>9. CASE UncountLease(r)
  BY <1>9 DEF UncountLease
<1>10. CASE CloseConnection(r)
  <2>1. ent[r] \in Entry /\ r \in Connected(ent[r])
    BY <1>10 DEF CloseConnection, Connected
  <2>2. IsFiniteSet(Connected(ent[r]))
    BY RequestAssumption, FS_Subset DEF Connected
  <2>3. conns[ent[r]] # 0
    BY <2>1, <2>2, FS_EmptySet DEF LeaseAccounting, Connected
  <2>4. conns[ent[r]] - 1 \in 0..MaxConcurrency
    BY <2>1, <2>3, BoundsAssumption
  <2> QED
    BY <1>10, <2>1, <2>4 DEF CloseConnection
<1> QED
  BY <1>1, <1>2, <1>3, <1>4, <1>5, <1>6, <1>7, <1>8, <1>9, <1>10 DEF Take, GiveBack

\* A request that holds nothing before and after its step changes no count.
LEMMA EmptyHanded ==
  ASSUME Accounts, TypeOK', NEW r \in Request, RequestStep(r), ~held[r], held' = held,
         pc[r] \notin {"count", "leased", "uncount"},
         pc'[r] \notin {"count", "leased", "uncount"},
         sem' = sem, conns' = conns, active' = active
  PROVE  NoSlotLost' /\ LeaseAccounting'
<1>1. ASSUME NEW e \in Entry
      PROVE  /\ Holding(e)' = Holding(e)
             /\ Counted(e)' = Counted(e)
             /\ Connected(e)' = Connected(e)
  BY OthersStay DEF Accounts, Holding, Counted, Connected
<1> QED
  BY <1>1 DEF Accounts, NoSlotLost, LeaseAccounting, Holding, Counted, Connected

\* A request keeps the accounts.
LEMMA RequestAccounts ==
  ASSUME Accounts, NEW r \in Request, RequestStep(r)
  PROVE  Accounts'
<1>0. TypeOK' /\ KnownEntry' /\ HeldInUse'
  BY FindStartTypes, TakeGiveBackTypes DEF RequestStep
<1>1. TypeOK /\ HeldInUse /\ (pc[r] \in Working => ent[r] \in Entry)
  BY DEF Accounts, KnownEntry
<1>2. ASSUME NEW e \in Entry
      PROVE  /\ sem[e] \in Int /\ active[e] \in Int /\ conns[e] \in Int
             /\ sem[e] + Cardinality(Holding(e)) >= MaxConcurrency
             /\ active[e] = Cardinality(Counted(e))
             /\ conns[e] = Cardinality(Connected(e))
  <2>1. sem[e] \in Int /\ active[e] \in Int /\ conns[e] \in Int
    BY BoundsAssumption DEF Accounts, TypeOK
  <2> QED
    BY <2>1 DEF Accounts, NoSlotLost, LeaseAccounting, Holding, Counted, Connected
<1>3. SUFFICES ASSUME NEW e \in Entry
               PROVE  /\ sem'[e] + Cardinality(Holding(e)') >= MaxConcurrency
                      /\ active'[e] = Cardinality(Counted(e)')
                      /\ conns'[e] = Cardinality(Connected(e)')
  BY <1>0 DEF Accounts, NoSlotLost, LeaseAccounting, Holding, Counted, Connected
<1>4. CASE Find(r) \/ Start(r)
  <2>1. ~held[r] /\ held' = held /\ sem' = sem /\ conns' = conns /\ active' = active
    BY <1>0, <1>1, <1>4 DEF HeldInUse, Using, Find, Look, InspectHealthy, InspectStarting,
       InspectDead, Start, Register, BeginStart, CreateContainer, CreateFails, Ready,
       NotReady, StartBreaks, Unregister, Publish, entryVars
  <2>2. /\ pc[r] \notin {"count", "leased", "uncount"}
        /\ pc'[r] \notin {"count", "leased", "uncount"}
    BY <1>0, <1>1, <1>4 DEF TypeOK, Goto, Fail, Find, Look, InspectHealthy, InspectStarting,
       InspectDead, Start, Register, BeginStart, CreateContainer, CreateFails, Ready,
       NotReady, StartBreaks, Unregister, Publish
  <2> QED
    BY <1>0, <2>1, <2>2, EmptyHanded DEF NoSlotLost, LeaseAccounting, Holding, Counted, Connected
<1>5. CASE TimeoutIgnored(r) \/ TimeoutRaised(r)
  <2>1. ~held[r] /\ held' = held /\ sem' = sem /\ conns' = conns /\ active' = active
    BY <1>1, <1>5 DEF HeldInUse, Using, TimeoutIgnored, TimeoutRaised, entryVars
  <2>2. /\ pc[r] \notin {"count", "leased", "uncount"}
        /\ pc'[r] \notin {"count", "leased", "uncount"}
    BY <1>1, <1>5 DEF TypeOK, Goto, Fail, TimeoutIgnored, TimeoutRaised
  <2> QED
    BY <1>0, <2>1, <2>2, EmptyHanded DEF NoSlotLost, LeaseAccounting, Holding, Counted, Connected
<1>6. CASE AcquireSlot(r)
  <2>1. /\ sem'[e] = sem[e] - (IF ent[r] = e THEN 1 ELSE 0)
        /\ active' = active /\ conns' = conns
    BY <1>1, <1>6 DEF AcquireSlot, TypeOK, Working
  <2>2. /\ r \notin Holding(e) /\ (r \in Holding(e)' <=> ent[r] = e)
        /\ r \notin Counted(e) /\ r \notin Counted(e)'
        /\ r \notin Connected(e) /\ r \notin Connected(e)'
    BY <1>1, <1>6 DEF AcquireSlot, TypeOK, HeldInUse, Using, Goto, Holding, Counted, Connected
  <2> QED
    BY <1>1, <1>2, <2>1, <2>2, CountsChange, BoundsAssumption
<1>7. CASE Connect(r)
  <2>1. /\ conns'[e] = conns[e] + (IF ent[r] = e THEN 1 ELSE 0)
        /\ active' = active /\ sem' = sem
    BY <1>1, <1>7 DEF Connect, TypeOK, Working, Using
  <2>2. /\ (r \in Holding(e)' <=> r \in Holding(e))
        /\ r \notin Counted(e) /\ r \notin Counted(e)'
        /\ r \notin Connected(e) /\ (r \in Connected(e)' <=> ent[r] = e)
    BY <1>1, <1>7 DEF Connect, TypeOK, Goto, Holding, Counted, Connected
  <2> QED
    BY <1>1, <1>2, <2>1, <2>2, CountsChange, BoundsAssumption
<1>8. CASE ConnectFails(r)
  <2>1. /\ sem'[e] = IF ent[r] = e /\ sem[e] < MaxConcurrency THEN sem[e] + 1 ELSE sem[e]
        /\ active' = active /\ conns' = conns
    BY <1>1, <1>8 DEF ConnectFails, TypeOK, Working, Using
  <2>2. /\ r \notin Holding(e)' /\ (r \in Holding(e) => ent[r] = e)
        /\ r \notin Counted(e) /\ r \notin Counted(e)'
        /\ r \notin Connected(e) /\ r \notin Connected(e)'
    BY <1>1, <1>8 DEF ConnectFails, TypeOK, Goto, Fail, Holding, Counted, Connected
  <2> QED
    BY <1>1, <1>2, <2>1, <2>2, CountsChange, BoundsAssumption
<1>9. CASE CountLease(r)
  <2>1. /\ active'[e] = active[e] + (IF ent[r] = e THEN 1 ELSE 0)
        /\ conns' = conns /\ sem' = sem
    BY <1>1, <1>9 DEF CountLease, TypeOK, Working, Using
  <2>2. /\ (r \in Holding(e)' <=> r \in Holding(e))
        /\ r \notin Counted(e) /\ (r \in Counted(e)' <=> ent[r] = e)
        /\ (r \in Connected(e)' <=> r \in Connected(e))
    BY <1>1, <1>9 DEF CountLease, TypeOK, Goto, Holding, Counted, Connected
  <2> QED
    BY <1>1, <1>2, <2>1, <2>2, CountsChange, BoundsAssumption
<1>10. CASE CloseConnection(r)
  <2>1. /\ conns'[e] = conns[e] - (IF ent[r] = e THEN 1 ELSE 0)
        /\ active' = active /\ sem' = sem
    BY <1>1, <1>10 DEF CloseConnection, TypeOK, Working, Using
  <2>2. /\ (r \in Holding(e)' <=> r \in Holding(e))
        /\ (r \in Counted(e)' <=> r \in Counted(e))
        /\ r \notin Connected(e)' /\ (r \in Connected(e) <=> ent[r] = e)
    BY <1>1, <1>10 DEF CloseConnection, TypeOK, Goto, Holding, Counted, Connected
  <2> QED
    BY <1>1, <1>2, <2>1, <2>2, CountsChange, BoundsAssumption
<1>11. CASE UncountLease(r)
  <2>1. /\ active'[e] = IF ent[r] = e THEN IF active[e] > 0 THEN active[e] - 1 ELSE 0
                                      ELSE active[e]
        /\ conns' = conns /\ sem' = sem
    BY <1>1, <1>11 DEF UncountLease, TypeOK, Working, Using
  <2>2. /\ (r \in Holding(e)' <=> r \in Holding(e))
        /\ r \notin Counted(e)' /\ (r \in Counted(e) <=> ent[r] = e)
        /\ (r \in Connected(e)' <=> r \in Connected(e))
    BY <1>1, <1>11 DEF UncountLease, TypeOK, Goto, Holding, Counted, Connected
  <2>3. ent[r] = e => Cardinality(Counted(e)) # 0
    <3>1. IsFiniteSet(Counted(e))
      BY RequestAssumption, FS_Subset DEF Counted
    <3> QED
      BY <2>2, <3>1, FS_EmptySet
  <2> QED
    BY <1>1, <1>2, <2>1, <2>2, <2>3, CountsChange, BoundsAssumption
<1>12. CASE ReleaseSlot(r)
  <2>1. /\ sem'[e] = sem[e] + (IF ent[r] = e THEN 1 ELSE 0)
        /\ active' = active /\ conns' = conns
    BY <1>1, <1>12 DEF ReleaseSlot, TypeOK, Working, Using
  <2>2. /\ r \notin Holding(e)' /\ (r \in Holding(e) => ent[r] = e)
        /\ r \notin Counted(e) /\ r \notin Counted(e)'
        /\ r \notin Connected(e) /\ r \notin Connected(e)'
    BY <1>1, <1>12 DEF ReleaseSlot, TypeOK, Goto, Holding, Counted, Connected
  <2> QED
    BY <1>1, <1>2, <2>1, <2>2, CountsChange, BoundsAssumption
<1>13. CASE ReleaseRaises(r)
  <2>1. (ent[r] = e => sem[e] = MaxConcurrency) /\ UNCHANGED <<sem, conns, active>>
    BY <1>1, <1>13 DEF ReleaseRaises, entryVars
  <2>2. /\ r \notin Holding(e)' /\ (r \in Holding(e) => ent[r] = e)
        /\ r \notin Counted(e) /\ r \notin Counted(e)'
        /\ r \notin Connected(e) /\ r \notin Connected(e)'
    BY <1>1, <1>13 DEF ReleaseRaises, TypeOK, Goto, Fail, Holding, Counted, Connected
  <2> QED
    BY <1>1, <1>2, <2>1, <2>2, CountsChange, BoundsAssumption
<1> QED
  BY <1>4, <1>5, <1>6, <1>7, <1>8, <1>9, <1>10, <1>11, <1>12, <1>13
     DEF RequestStep, Take, GiveBack

\* The statements of a lease and the monitor move nobody and count nothing.
Aside == (\E r \in Request : Execute(r)) \/ MarkUnhealthy \/ MidnightCleanup \/ UNCHANGED vars

LEMMA AsideAccounts ==
  ASSUME Accounts, Aside
  PROVE  Accounts'
<1>1. UNCHANGED <<conns, active, sem, pc, ent, held, outcome>>
  BY DEF Aside, Execute, MarkUnhealthy, MidnightCleanup, vars, entryVars
<1>2. TypeOK'
  <2>1. CASE \E r \in Request : Execute(r)
    BY <2>1 DEF Accounts, KnownEntry, Working, Using, TypeOK, Execute, entryVars
  <2>2. CASE MarkUnhealthy \/ MidnightCleanup \/ UNCHANGED vars
    BY <1>1, <2>2 DEF Accounts, TypeOK, Entry, States, MarkUnhealthy, MidnightCleanup, vars,
                      entryVars
  <2> QED
    BY <2>1, <2>2 DEF Aside
<1> QED
  BY <1>1, <1>2 DEF Accounts, KnownEntry, HeldInUse, NoSlotLost, LeaseAccounting

\* Every step keeps the accounts.
LEMMA NextAccounts == Accounts /\ [Next]_vars => Accounts'
BY RequestAccounts, AsideAccounts DEF Next, Idle, Aside

\* The inductive invariant behind the types and the counts.
LEMMA AccountsHold == Spec => []Accounts
BY InitAccounts, NextAccounts, PTL DEF Spec

\* Every variable keeps its type, the connections and the free slots within
\* their limit, whatever times out, fails or is cleaned up.
THEOREM TypeCorrect == Spec => []TypeOK
BY AccountsHold, PTL DEF Accounts

\* No path through lease_ephemeral() and release() loses a slot, for any number
\* of requests and slots, also for requests that went on without a slot.
THEOREM NoSlotIsLost == Spec => []NoSlotLost
BY AccountsHold, PTL DEF Accounts

\* active_leases and the connections in use are those of the requests between
\* taking and giving back.
THEOREM LeasesAccounted == Spec => []LeaseAccounting
BY AccountsHold, PTL DEF Accounts

(***************************************************************************)
(* Waiting                                                                 *)
(***************************************************************************)
\* Slots and connections never wait in a circle, for any number of requests and
\* slots, timeouts and faults left aside: a slot that is missing is held by a user
\* of the entry, and all connections that are missing by leases that end.
THEOREM WaitingIsServed == Spec => []NoCircularWait
<1>1. ASSUME Accounts, NEW e \in Entry, conns[e] = MaxConcurrency
      PROVE  \E q \in Request : ent[q] = e /\ pc[q] \in Using /\ ~Blocked(q)
  <2>1. Cardinality(Connected(e)) # 0
    BY <1>1, BoundsAssumption DEF Accounts, LeaseAccounting, Connected
  <2>2. PICK q \in Request : pc[q] \in {"count", "leased"} /\ ent[q] = e
    BY <2>1, FS_EmptySet DEF Connected
  <2> QED
    BY <2>2 DEF Using, Blocked
<1>2. ASSUME Accounts, NEW e \in Entry, sem[e] = 0
      PROVE  \E q \in Request : ent[q] = e /\ pc[q] \in Using /\ ~Blocked(q)
  <2>1. Cardinality(Holding(e)) # 0
    <3>1. sem[e] + Cardinality(Holding(e)) >= MaxConcurrency
      BY <1>2 DEF Accounts, NoSlotLost, Holding
    <3> QED
      BY <1>2, <3>1, BoundsAssumption
  <2>2. PICK q \in Request : held[q] /\ ent[q] = e
    BY <2>1, FS_EmptySet DEF Holding
  <2>3. pc[q] \in Using
    BY <1>2, <2>2 DEF Accounts, HeldInUse
  <2>4. CASE Blocked(q)
    BY <1>1, <1>2, <2>2, <2>3, <2>4 DEF Blocked, Using
  <2> QED
    BY <2>2, <2>3, <2>4
<1>3. Accounts => NoCircularWait
  <2> SUFFICES ASSUME Accounts, NEW r \in Request, Blocked(r)
               PROVE  \E q \in Request : ent[q] = ent[r] /\ pc[q] \in Using /\ ~Blocked(q)
    BY DEF NoCircularWait
  <2>1. ent[r] \in Entry
    BY DEF Accounts, KnownEntry, Blocked, Working, Using
  <2> QED
    BY <1>1, <1>2, <2>1 DEF Blocked
<1> QED
  BY <1>3, AccountsHold, PTL

\* How far a request has come.
Rank ==
  [ new |-> 0, inspect |-> 1, register |-> 2, starting |-> 3, create |-> 4, wait |-> 5,
    publish |-> 6, failed |-> 7, slot |-> 8, ownSlot |-> 8, connect |-> 9, count |-> 10,
    leased |-> 11, uncount |-> 12, unslot |-> 13, done |-> 14 ]

Advances(r) == pc'[r] = pc[r] \/ Rank[pc[r]] < Rank[pc'[r]]

\* No request comes back to where it was, although requests that saw no entry
\* unregister one another: lease_ephemeral() retries nothing.
THEOREM NothingIsRetried == Spec => [][\A r \in Request : Advances(r)]_vars
<1>1. ASSUME TypeOK, NEW r \in Request, RequestStep(r)
      PROVE  \A q \in Request : Advances(q)
  <2>1. Rank[pc[r]] < Rank[pc'[r]]
    <3> USE <1>1 DEF Rank, Goto, Fail, TypeOK
    <3>1. CASE Find(r)
      BY <3>1 DEF Find, Look, InspectHealthy, InspectStarting, InspectDead
    <3>2. CASE Start(r)
      BY <3>2 DEF Start, Register, BeginStart, CreateContainer, CreateFails, Ready,
         NotReady, StartBreaks, Unregister, Publish
    <3>3. CASE Take(r)
      BY <3>3 DEF Take, AcquireSlot, TimeoutIgnored, TimeoutRaised, Connect,
         ConnectFails, CountLease
    <3>4. CASE GiveBack(r)
      BY <3>4 DEF GiveBack, CloseConnection, UncountLease, ReleaseSlot, ReleaseRaises
    <3> QED
      BY <3>1, <3>2, <3>3, <3>4 DEF RequestStep
  <2> QED
    BY <1>1, <2>1, OthersStay DEF Advances
<1>2. TypeOK /\ [Next]_vars => [\A r \in Request : Advances(r)]_vars
  BY <1>1 DEF Next, Execute, MarkUnhealthy, MidnightCleanup, Idle, vars, Advances
<1> QED
  BY <1>2, TypeCorrect, PTL DEF Spec

(***************************************************************************)
(* The container and the entry it belongs to                               *)
(***************************************************************************)
\* How far a start has come shows in the entry, and an entry is published
\* with its pool.
Progress ==
  \A e \in Entry :
    /\ pc[e] \in Early => state[e] = "STOPPED"
    /\ pc[e] \in Launching => state[e] = "STARTING"
    /\ pc[e] = "publish" \/ state[e] = "HEALTHY" => pool[e]

\* An entry that is being launched or was published and is still registered
\* owns the container: there is one, and no other entry owns it.
Owns(e) ==
  \/ pc[e] \in {"wait", "publish"}
  \/ reg = e /\ state[e] \in {"HEALTHY", "UNHEALTHY"}

OneOwner ==
  \A e \in Entry : Owns(e) => running /\ \A f \in Entry : Owns(f) => f = e

\* A request works on an entry that was published, and that lost its place in
\* the registry when it lost its container.
Settled ==
  \A r \in Request : pc[r] \in Working =>
    /\ pc[ent[r]] \notin Early \cup Launching
    /\ reg = ent[r] => state[ent[r]] \in {"HEALTHY", "UNHEALTHY"}

\* So does an entry whose container was used.
Used ==
  \A e \in soiled :
    /\ pc[e] \notin Early \cup Launching
    /\ reg = e => state[e] \in {"HEALTHY", "UNHEALTHY"}

Ownership == Accounts /\ Progress /\ OneOwner /\ Settled /\ Used

\* A request keeps the progress of every entry.
LEMMA RequestProgress ==
  ASSUME Ownership, NEW r \in Request, RequestStep(r)
  PROVE  Progress'
<1> USE DEF Ownership, Accounts, TypeOK, KnownEntry, Progress, Entry, Goto, Fail, entryVars
<1> USE DEF Early, Launching, Using, Working
<1>1. CASE Look(r)
  BY <1>1 DEF Look
<1>2. CASE InspectHealthy(r)
  BY <1>2 DEF InspectHealthy
<1>3. CASE InspectStarting(r)
  BY <1>3 DEF InspectStarting
<1>4. CASE InspectDead(r)
  BY <1>4 DEF InspectDead
<1>5. CASE Register(r)
  BY <1>5 DEF Register
<1>6. CASE BeginStart(r)
  BY <1>6 DEF BeginStart
<1>7. CASE CreateContainer(r)
  BY <1>7 DEF CreateContainer
<1>8. CASE CreateFails(r)
  BY <1>8 DEF CreateFails
<1>9. CASE Ready(r)
  BY <1>9 DEF Ready
<1>10. CASE NotReady(r)
  BY <1>10 DEF NotReady
<1>11. CASE StartBreaks(r)
  BY <1>11 DEF StartBreaks
<1>12. CASE Unregister(r)
  BY <1>12 DEF Unregister
<1>13. CASE Publish(r)
  BY <1>13 DEF Publish
<1>14. CASE AcquireSlot(r)
  BY <1>14 DEF AcquireSlot
<1>15. CASE TimeoutIgnored(r)
  BY <1>15 DEF TimeoutIgnored
<1>16. CASE TimeoutRaised(r)
  BY <1>16 DEF TimeoutRaised
<1>17. CASE Connect(r)
  BY <1>17 DEF Connect
<1>18. CASE ConnectFails(r)
  BY <1>18 DEF ConnectFails
<1>19. CASE CountLease(r)
  BY <1>19 DEF CountLease
<1>20. CASE CloseConnection(r)
  BY <1>20 DEF CloseConnection
<1>21. CASE UncountLease(r)
  BY <1>21 DEF UncountLease
<1>22. CASE ReleaseSlot(r)
  BY <1>22 DEF ReleaseSlot
<1>23. CASE ReleaseRaises(r)
  BY <1>23 DEF ReleaseRaises
<1> QED
  BY <1>1, <1>2, <1>3, <1>4, <1>5, <1>6, <1>7, <1>8, <1>9, <1>10, <1>11, <1>12, <1>13, <1>14, <1>15, <1>16, <1>17, <1>18, <1>19, <1>20, <1>21, <1>22, <1>23
     DEF RequestStep, Find, Start, Take, GiveBack

\* ... the owner of the container ...
LEMMA RequestOwner ==
  ASSUME Ownership, NEW r \in Request, RequestStep(r)
  PROVE  OneOwner'
<1> USE DEF Ownership, Accounts, TypeOK, KnownEntry, Progress, OneOwner, Owns, Entry, Goto, Fail, entryVars
<1> USE DEF Early, Launching, Using, Working
<1>1. CASE Look(r)
  BY <1>1 DEF Look
<1>2. CASE InspectHealthy(r)
  BY <1>2 DEF InspectHealthy
<1>3. CASE InspectStarting(r)
  BY <1>3 DEF InspectStarting
<1>4. CASE InspectDead(r)
  BY <1>4 DEF InspectDead
<1>5. CASE Register(r)
  BY <1>5 DEF Register
<1>6. CASE BeginStart(r)
  BY <1>6 DEF BeginStart
<1>7. CASE CreateContainer(r)
  BY <1>7 DEF CreateContainer
<1>8. CASE CreateFails(r)
  BY <1>8 DEF CreateFails
<1>9. CASE Ready(r)
  BY <1>9 DEF Ready
<1>10. CASE NotReady(r)
  BY <1>10 DEF NotReady
<1>11. CASE StartBreaks(r)
  BY <1>11 DEF StartBreaks
<1>12. CASE Unregister(r)
  BY <1>12, RequestAssumption DEF Unregister
<1>13. CASE Publish(r)
  BY <1>13 DEF Publish
<1>14. CASE AcquireSlot(r)
  BY <1>14 DEF AcquireSlot
<1>15. CASE TimeoutIgnored(r)
  BY <1>15 DEF TimeoutIgnored
<1>16. CASE TimeoutRaised(r)
  BY <1>16 DEF TimeoutRaised
<1>17. CASE Connect(r)
  BY <1>17 DEF Connect
<1>18. CASE ConnectFails(r)
  BY <1>18 DEF ConnectFails
<1>19. CASE CountLease(r)
  BY <1>19 DEF CountLease
<1>20. CASE CloseConnection(r)
  BY <1>20 DEF CloseConnection
<1>21. CASE UncountLease(r)
  BY <1>21 DEF UncountLease
<1>22. CASE ReleaseSlot(r)
  BY <1>22 DEF ReleaseSlot
<1>23. CASE ReleaseRaises(r)
  BY <1>23 DEF ReleaseRaises
<1> QED
  BY <1>1, <1>2, <1>3, <1>4, <1>5, <1>6, <1>7, <1>8, <1>9, <1>10, <1>11, <1>12, <1>13, <1>14, <1>15, <1>16, <1>17, <1>18, <1>19, <1>20, <1>21, <1>22, <1>23
     DEF RequestStep, Find, Start, Take, GiveBack

\* ... what others work on ...
LEMMA RequestSettled ==
  ASSUME Ownership, NEW r \in Request, RequestStep(r)
  PROVE  Settled'
<1> USE DEF Ownership, Accounts, TypeOK, KnownEntry, Progress, Settled, Entry, Goto, Fail, entryVars
<1> USE DEF Early, Launching, Using, Working
<1>1. CASE Look(r)
  BY <1>1 DEF Look
<1>2. CASE InspectHealthy(r)
  BY <1>2 DEF InspectHealthy
<1>3. CASE InspectStarting(r)
  BY <1>3 DEF InspectStarting
<1>4. CASE InspectDead(r)
  BY <1>4 DEF InspectDead
<1>5. CASE Register(r)
  BY <1>5 DEF Register
<1>6. CASE BeginStart(r)
  BY <1>6 DEF BeginStart
<1>7. CASE CreateContainer(r)
  BY <1>7 DEF CreateContainer
<1>8. CASE CreateFails(r)
  BY <1>8 DEF CreateFails
<1>9. CASE Ready(r)
  BY <1>9 DEF Ready
<1>10. CASE NotReady(r)
  BY <1>10 DEF NotReady
<1>11. CASE StartBreaks(r)
  BY <1>11 DEF StartBreaks
<1>12. CASE Unregister(r)
  BY <1>12, RequestAssumption DEF Unregister
<1>13. CASE Publish(r)
  BY <1>13 DEF Publish
<1>14. CASE AcquireSlot(r)
  BY <1>14 DEF AcquireSlot
<1>15. CASE TimeoutIgnored(r)
  BY <1>15 DEF TimeoutIgnored
<1>16. CASE TimeoutRaised(r)
  BY <1>16 DEF TimeoutRaised
<1>17. CASE Connect(r)
  BY <1>17 DEF Connect
<1>18. CASE ConnectFails(r)
  BY <1>18 DEF ConnectFails
<1>19. CASE CountLease(r)
  BY <1>19 DEF CountLease
<1>20. CASE CloseConnection(r)
  BY <1>20 DEF CloseConnection
<1>21. CASE UncountLease(r)
  BY <1>21 DEF UncountLease
<1>22. CASE ReleaseSlot(r)
  BY <1>22 DEF ReleaseSlot
<1>23. CASE ReleaseRaises(r)
  BY <1>23 DEF ReleaseRaises
<1> QED
  BY <1>1, <1>2, <1>3, <1>4, <1>5, <1>6, <1>7, <1>8, <1>9, <1>10, <1>11, <1>12, <1>13, <1>14, <1>15, <1>16, <1>17, <1>18, <1>19, <1>20, <1>21, <1>22, <1>23
     DEF RequestStep, Find, Start, Take, GiveBack

\* ... and whatever was used.
LEMMA RequestUsed ==
  ASSUME Ownership, NEW r \in Request, RequestStep(r)
  PROVE  Used'
<1> USE DEF Ownership, Accounts, TypeOK, KnownEntry, Progress, Used, Entry, Goto, Fail, entryVars
<1> USE DEF Early, Launching, Using, Working
<1>1. CASE Look(r)
  BY <1>1 DEF Look
<1>2. CASE InspectHealthy(r)
  BY <1>2 DEF InspectHealthy
<1>3. CASE InspectStarting(r)
  BY <1>3 DEF InspectStarting
<1>4. CASE InspectDead(r)
  BY <1>4 DEF InspectDead
<1>5. CASE Register(r)
  BY <1>5 DEF Register
<1>6. CASE BeginStart(r)
  BY <1>6 DEF BeginStart
<1>7. CASE CreateContainer(r)
  BY <1>7 DEF CreateContainer
<1>8. CASE CreateFails(r)
  BY <1>8 DEF CreateFails
<1>9. CASE Ready(r)
  BY <1>9 DEF Ready
<1>10. CASE NotReady(r)
  BY <1>10 DEF NotReady
<1>11. CASE StartBreaks(r)
  BY <1>11 DEF StartBreaks
<1>12. CASE Unregister(r)
  BY <1>12, RequestAssumption DEF Unregister
<1>13. CASE Publish(r)
  BY <1>13 DEF Publish
<1>14. CASE AcquireSlot(r)
  BY <1>14 DEF AcquireSlot
<1>15. CASE TimeoutIgnored(r)
  BY <1>15 DEF TimeoutIgnored
<1>16. CASE TimeoutRaised(r)
  BY <1>16 DEF TimeoutRaised
<1>17. CASE Connect(r)
  BY <1>17 DEF Connect
<1>18. CASE ConnectFails(r)
  BY <1>18 DEF ConnectFails
<1>19. CASE CountLease(r)
  BY <1>19 DEF CountLease
<1>20. CASE CloseConnection(r)
  BY <1>20 DEF CloseConnection
<1>21. CASE UncountLease(r)
  BY <1>21 DEF UncountLease
<1>22. CASE ReleaseSlot(r)
  BY <1>22 DEF ReleaseSlot
<1>23. CASE ReleaseRaises(r)
  BY <1>23 DEF ReleaseRaises
<1> QED
  BY <1>1, <1>2, <1>3, <1>4, <1>5, <1>6, <1>7, <1>8, <1>9, <1>10, <1>11, <1>12, <1>13, <1>14, <1>15, <1>16, <1>17, <1>18, <1>19, <1>20, <1>21, <1>22, <1>23
     DEF RequestStep, Find, Start, Take, GiveBack

\* The monitor takes a container away with the registration of its entry, and the
\* container of a lease is that of a published entry.
LEMMA AsideOwnership ==
  ASSUME Ownership, Aside
  PROVE  Progress' /\ OneOwner' /\ Settled' /\ Used'
<1> USE RequestAssumption
        DEF Ownership, Accounts, TypeOK, KnownEntry, Progress, OneOwner, Owns, Settled, Used
<1> USE DEF Entry, Early, Launching, Using, Working
<1>1. CASE MarkUnhealthy
  BY <1>1 DEF MarkUnhealthy
<1>2. CASE MidnightCleanup
  BY <1>2 DEF MidnightCleanup
<1>3. CASE \E r \in Request : Execute(r)
  BY <1>3 DEF Execute, entryVars
<1>4. CASE UNCHANGED vars
  BY <1>4 DEF vars, entryVars
<1> QED
  BY <1>1, <1>2, <1>3, <1>4 DEF Aside

\* Every step keeps the ownership.
LEMMA NextOwnership == Ownership /\ [Next]_vars => Ownership'
<1> SUFFICES ASSUME Ownership, [Next]_vars
             PROVE  Ownership'
  OBVIOUS
<1>1. Accounts'
  BY NextAccounts DEF Ownership
<1>2. ASSUME NEW r \in Request, RequestStep(r)
      PROVE  Progress' /\ OneOwner' /\ Settled' /\ Used'
  BY <1>2, RequestProgress, RequestOwner, RequestSettled, RequestUsed
<1>3. CASE Aside
  BY <1>1, <1>3, AsideOwnership DEF Ownership
<1> QED
  BY <1>1, <1>2, <1>3 DEF Ownership, Next, Idle, Aside

\* Initially nothing is owned.
LEMMA InitOwnership == Init => Ownership
<1> SUFFICES ASSUME Init
             PROVE  Ownership
  OBVIOUS
<1> USE RequestAssumption DEF Init, Entry, Early, Launching, Using, Working
<1>1. Progress
  BY DEF Progress
<1>2. OneOwner
  BY DEF OneOwner, Owns
<1>3. Settled /\ Used
  BY DEF Settled, Used
<1> QED
  BY <1>1, <1>2, <1>3, InitAccounts DEF Ownership

\* The inductive invariant of the container and its entry.
LEMMA OwnershipHolds == Spec => []Ownership
BY InitOwnership, NextOwnership, PTL DEF Spec

\* A registered HEALTHY entry has its pool and its container, although requests
\* that saw no entry overwrite and unregister one another: of all entries only
\* one owns the container at a time.
THEOREM HealthyStaysBacked == Spec => []HealthyIsBacked
<1>1. Ownership => HealthyIsBacked
  BY RequestAssumption DEF Ownership, Accounts, TypeOK, Progress, OneOwner, Owns,
     HealthyIsBacked, Entry
<1> QED
  BY <1>1, OwnershipHolds, PTL

\* No step takes the container from under a counted lease of the registered
\* entry: a start that gives up removes its own, and the cleanup sees the lease.
THEOREM LeasesSpared == Spec => RemovalSparesLeases
<1>1. ASSUME Ownership, [Next]_vars, running, ~running', NEW r \in Request, pc[r] = "leased"
      PROVE  ent[r] # reg
  <2>1. PICK q \in Request : NotReady(q) \/ MidnightCleanup
    BY <1>1 DEF Next, Idle, Execute, RequestStep, Find, Look, InspectHealthy, InspectStarting,
       InspectDead, Start, Register, BeginStart, CreateContainer, CreateFails, Ready,
       StartBreaks, Unregister, Publish, Take, AcquireSlot, TimeoutIgnored, TimeoutRaised,
       Connect, ConnectFails, CountLease, GiveBack, CloseConnection, UncountLease,
       ReleaseSlot, ReleaseRaises, MarkUnhealthy, vars
  <2>2. CASE NotReady(q)
    <3>1. Owns(q)
      BY <2>2 DEF NotReady, Owns
    <3>2. ASSUME ent[r] = reg
          PROVE  FALSE
      <4>1. reg \in Entry /\ Owns(reg) /\ pc[reg] # "wait"
        BY <1>1, <3>2 DEF Ownership, Accounts, KnownEntry, Settled, Owns, Working, Using, Launching
      <4> QED
        BY <1>1, <2>2, <3>1, <4>1 DEF Ownership, OneOwner, NotReady, Entry
    <3> QED
      BY <3>2
  <2>3. CASE MidnightCleanup
    <3>1. ASSUME ent[r] = reg
          PROVE  FALSE
      <4>1. reg \in Entry /\ r \in Counted(reg)
        BY <1>1, <3>1 DEF Ownership, Accounts, KnownEntry, Counted, Working, Using
      <4>2. IsFiniteSet(Counted(reg))
        BY RequestAssumption, FS_Subset DEF Counted
      <4>3. active[reg] # 0
        BY <1>1, <4>1, <4>2, FS_EmptySet DEF Ownership, Accounts, LeaseAccounting, Counted
      <4> QED
        BY <2>3, <4>3 DEF MidnightCleanup
    <3> QED
      BY <3>1
  <2> QED
    BY <2>1, <2>2, <2>3
<1>2. Ownership /\ [Next]_vars =>
        [running /\ ~running' => \A r \in Request : pc[r] = "leased" => ent[r] # reg]_vars
  BY <1>1
<1> QED
  BY <1>2, OwnershipHolds, PTL DEF Spec, RemovalSparesLeases

(***************************************************************************)
(* The path implements LeaseService: what one step does to places, leases  *)
(***************************************************************************)
\* The variables of LeaseService that move here.
places == [r \in Request |-> Place(r)]
leases == [r \in Request |-> Known(r)]
residue == [k \in Container |-> Residue]

Allowed == Service!Next \/ UNCHANGED Service!vars

\* Where a request is in lease_ephemeral() and not answered yet.
Waiting == {"inspect", "slot", "ownSlot", "connect", "count"} \cup Starting

\* The places of the caller cover every place of the code.
LEMMA PlaceFacts ==
  ASSUME NEW r \in Request
  PROVE  /\ pc[r] = "new" => Place(r) = "outside"
         /\ pc[r] \in Waiting => Place(r) = "waiting"
         /\ pc[r] = "leased" => Place(r) = "using"
         /\ pc[r] \in {"uncount", "unslot", "done"} => Place(r) = "answered"
BY DEF Place, Waiting, Starting

\* A request moves its own place only.
LEMMA PlacesMove ==
  ASSUME TypeOK, NEW r \in Request, RequestStep(r)
  PROVE  places' = [places EXCEPT ![r] = Place(r)']
<1>1. \A q \in Request \ {r} : Place(q)' = Place(q)
  BY OthersStay DEF Place
<1> QED
  BY <1>1 DEF places

\* A step that leaves the registry and the container alone changes no lease but
\* that of the request that takes it.
LEMMA LeasesMove ==
  ASSUME TypeOK, NEW r \in Request, RequestStep(r), reg' = reg, running' = running
  PROVE  leases' = [leases EXCEPT ![r] = Known(r)']
<1>1. \A q \in Request \ {r} : Known(q)' = Known(q)
  BY OthersStay DEF Known
<1> QED
  BY <1>1 DEF leases

\* A step that leaves the registry alone leaves the residue alone.
LEMMA ResidueKept ==
  ASSUME UNCHANGED <<reg, soiled>>
  PROVE  residue' = residue
BY DEF residue, Residue

\* Where no lease is known and no registered container was used, the container of
\* the service is gone.
LEMMA NoneKnown ==
  ASSUME \A q \in Request : ~Known(q)', ~Residue'
  PROVE  Service!Removed(Container)
<1>1. leases' = [q \in Request |-> FALSE]
  <2>1. \A q \in Request : Known(q)' = FALSE
    BY DEF Known
  <2> QED
    BY <2>1 DEF leases
<1>2. residue' = [k \in Container |-> FALSE]
  <2>1. Residue' = FALSE
    BY DEF Residue
  <2> QED
    BY <2>1 DEF residue
<1> QED
  BY <1>1, <1>2 DEF Service!Removed, leases, residue, Container

\* A known lease is one of a registered entry that owns the container.
LEMMA KnownOwned ==
  ASSUME Ownership, NEW q \in Request, pc[q] = "leased", ent[q] = reg
  PROVE  reg \in Entry /\ Owns(reg) /\ running
<1>1. reg \in Entry /\ Owns(reg)
  BY DEF Ownership, Accounts, KnownEntry, Settled, Owns, Working, Using
<1> QED
  BY <1>1 DEF Ownership, OneOwner

(***************************************************************************)
(* Every step is one of LeaseService                                       *)
(***************************************************************************)
\* A request that neither takes nor gives back a lease asks for one or is not
\* noticed.
LEMMA QuietAllowed ==
  ASSUME TypeOK, NEW r \in Request, RequestStep(r), UNCHANGED <<reg, soiled, running>>,
         pc[r] # "leased", pc'[r] # "leased",
         \/ Place(r)' = Place(r)
         \/ pc[r] = "new" /\ Place(r)' = "waiting"
  PROVE  Allowed
<1>1. leases' = leases
  <2>1. leases' = [leases EXCEPT ![r] = FALSE] /\ leases[r] = FALSE
    BY LeasesMove DEF Known, leases
  <2> QED
    BY <2>1 DEF leases
<1>2. places' = [places EXCEPT ![r] = Place(r)'] /\ places[r] = Place(r)
  BY PlacesMove DEF places
<1>3. CASE Place(r)' = Place(r)
  <2>1. places' = places
    BY <1>2, <1>3 DEF places
  <2> QED
    BY <1>1, <2>1, ResidueKept DEF Allowed, Service!vars, places, leases, residue
<1>4. CASE pc[r] = "new" /\ Place(r)' = "waiting"
  <2>1. Service!Ask(r)
    BY <1>1, <1>2, <1>4, PlaceFacts, ResidueKept
       DEF Service!Ask, Service!Move, places, leases, residue
  <2> QED
    BY <2>1 DEF Allowed, Service!Next
<1> QED
  BY <1>3, <1>4

\* A request that is refused without a change of the registry or the container.
LEMMA RefuseAllowed ==
  ASSUME TypeOK, NEW r \in Request, RequestStep(r), UNCHANGED <<reg, soiled, running>>,
         pc[r] \in Waiting, pc'[r] = "done"
  PROVE  Allowed
<1>1. leases' = leases
  <2>1. leases' = [leases EXCEPT ![r] = FALSE] /\ leases[r] = FALSE
    BY LeasesMove DEF Known, leases, Waiting, Starting
  <2> QED
    BY <2>1 DEF leases
<1>2. places' = [places EXCEPT ![r] = "answered"] /\ places[r] = "waiting"
  <2>1. Place(r)' = "answered"
    BY DEF Place
  <2> QED
    BY <2>1, PlacesMove, PlaceFacts DEF places
<1>3. Service!Refuse(r)
  BY <1>1, <1>2, ResidueKept DEF Service!Refuse, Service!Move, places, leases, residue
<1> QED
  BY <1>3 DEF Allowed, Service!Next

\* A start registers its entry or removes the container while its caller waits:
\* the leases of an entry registered before are no longer known.
LEMMA ReplaceAllowed ==
  ASSUME Ownership, NEW r \in Request, Register(r) \/ NotReady(r)
  PROVE  Allowed
<1>1. TypeOK /\ RequestStep(r)
  BY DEF Ownership, Accounts, RequestStep, Start
<1>2. pc[r] \in Waiting /\ pc'[r] \in Waiting
  BY <1>1 DEF Register, NotReady, Goto, TypeOK, Waiting, Starting
<1>3. places' = places /\ places[r] = "waiting"
  <2>1. Place(r) = "waiting" /\ Place(r)' = "waiting"
    BY <1>2, PlaceFacts DEF Place, Waiting, Starting
  <2>2. places' = [places EXCEPT ![r] = "waiting"] /\ places[r] = "waiting"
    BY <1>1, <2>1, PlacesMove DEF places
  <2> QED
    BY <2>2 DEF places
<1>4. \A q \in Request : ~Known(q)'
  <2>1. CASE Register(r)
    <3>1. ASSUME NEW q \in Request, Known(q)'
          PROVE  FALSE
      <4>1. pc[q] = "leased" /\ ent[q] = r
        BY <1>1, <2>1, <3>1 DEF Known, Register, Goto, TypeOK
      <4>2. pc[r] \notin Early
        BY <4>1 DEF Ownership, Settled, Working, Using
      <4> QED
        BY <2>1, <4>2 DEF Register, Early
    <3> QED
      BY <3>1
  <2>2. CASE NotReady(r)
    BY <2>2 DEF NotReady, Known
  <2> QED
    BY <2>1, <2>2
<1>5. ~Residue'
  <2>1. CASE Register(r)
    <3>1. reg' = r /\ soiled' = soiled /\ pc[r] \in Early
      BY <2>1 DEF Register, Early
    <3> QED
      BY <3>1 DEF Ownership, Used, Residue
  <2>2. CASE NotReady(r)
    <3>1. reg' = reg /\ soiled' = soiled /\ pc[r] = "wait"
      BY <2>2 DEF NotReady
    <3>2. reg \notin soiled
      <4> SUFFICES ASSUME reg \in soiled
                   PROVE  FALSE
        OBVIOUS
      <4>1. reg \in Entry /\ pc[reg] # "wait" /\ Owns(reg)
        BY <1>1 DEF Ownership, Used, Owns, Launching, TypeOK
      <4>2. r \in Entry /\ Owns(r)
        BY <3>1 DEF Owns, Entry
      <4> QED
        BY <3>1, <4>1, <4>2 DEF Ownership, OneOwner
    <3> QED
      BY <3>1, <3>2 DEF Residue
  <2> QED
    BY <2>1, <2>2
<1>6. Service!Replace(r)
  BY <1>3, <1>4, <1>5, NoneKnown DEF Service!Replace, places, Container
<1> QED
  BY <1>6 DEF Allowed, Service!Next

\* A start that failed takes the registration of whoever is registered away.
LEMMA UnregisterAllowed ==
  ASSUME Ownership, NEW r \in Request, Unregister(r)
  PROVE  Allowed
<1>1. TypeOK /\ RequestStep(r)
  BY DEF Ownership, Accounts, RequestStep, Start
<1>2. places' = [places EXCEPT ![r] = "answered"] /\ places[r] = "waiting"
  <2>1. Place(r)' = "answered" /\ pc[r] \in Waiting
    BY <1>1 DEF Place, Unregister, Fail, Goto, TypeOK, Waiting, Starting
  <2> QED
    BY <1>1, <2>1, PlacesMove, PlaceFacts DEF places
<1>3. ASSUME NEW q \in Request, Known(q)'
      PROVE  FALSE
  <2>1. pc[q] = "leased" /\ ent[q] = NoRequest
    BY <1>1, <1>3 DEF Known, Unregister, Fail, Goto, TypeOK
  <2>2. ent[q] \in Entry
    BY <2>1 DEF Ownership, Accounts, KnownEntry, Working, Using
  <2> QED
    BY <2>1, <2>2, RequestAssumption DEF Entry
<1>4. ~Residue'
  BY <1>1, RequestAssumption DEF Unregister, Residue, TypeOK, Entry
<1>5. Service!Refuse(r)
  BY <1>2, <1>3, <1>4, NoneKnown DEF Service!Refuse, Service!Move, places, Container
<1> QED
  BY <1>5 DEF Allowed, Service!Next

\* A container comes into being while no lease waits for one.
LEMMA CreateAllowed ==
  ASSUME Ownership, NEW r \in Request, CreateContainer(r)
  PROVE  Allowed
<1>1. TypeOK /\ RequestStep(r)
  BY DEF Ownership, Accounts, RequestStep, Start
<1>2. places' = places
  <2>1. Place(r) = "waiting" /\ Place(r)' = "waiting"
    BY <1>1 DEF Place, CreateContainer, Goto, TypeOK
  <2>2. places' = [places EXCEPT ![r] = "waiting"] /\ places[r] = "waiting"
    BY <1>1, <2>1, PlacesMove DEF places
  <2> QED
    BY <2>2 DEF places
<1>3. \A q \in Request : ~Known(q) /\ ~Known(q)'
  <2>1. ASSUME NEW q \in Request, pc[q] = "leased"
        PROVE  ent[q] # reg
    BY <2>1, KnownOwned DEF CreateContainer
  <2> QED
    BY <1>1, <2>1 DEF Known, CreateContainer, Goto, TypeOK
<1>4. leases' = leases
  <2>1. \A q \in Request : Known(q)' = Known(q)
    BY <1>3 DEF Known
  <2> QED
    BY <2>1 DEF leases
<1>5. residue' = residue
  BY ResidueKept DEF CreateContainer
<1> QED
  BY <1>2, <1>4, <1>5 DEF Allowed, Service!vars, places, leases, residue

\* The connections of the registered entry leave room for one more lease.
LEMMA RoomForOne ==
  ASSUME Accounts, NEW r \in Request, pc[r] = "count", ent[r] = reg
  PROVE  Cardinality(Service!Known("container")) < MaxConcurrency
<1> DEFINE K == Service!Known("container")
<1>1. reg \in Entry
  BY DEF Accounts, KnownEntry, Working, Using
<1>2. r \in Connected(reg) /\ r \notin K /\ K \subseteq Connected(reg)
  BY DEF Connected, Service!Known, Known
<1>3. IsFiniteSet(Connected(reg))
  BY RequestAssumption, FS_Subset DEF Connected
<1>4. Cardinality(Connected(reg)) <= MaxConcurrency
  <2>1. conns[reg] \in 0..MaxConcurrency
    BY <1>1 DEF Accounts, TypeOK
  <2>2. conns[reg] = Cardinality(Connected(reg))
    BY <1>1 DEF Accounts, LeaseAccounting, Connected
  <2> QED
    BY <2>1, <2>2, BoundsAssumption
<1>5. K \subseteq Connected(reg) \ {r}
  BY <1>2
<1> HIDE DEF K
<1>6. /\ IsFiniteSet(Connected(reg) \ {r})
      /\ Cardinality(Connected(reg) \ {r}) = Cardinality(Connected(reg)) - 1
  BY <1>2, <1>3, FS_RemoveElement
<1>7. /\ Cardinality(K) \in Nat
      /\ Cardinality(Connected(reg)) \in Nat
      /\ Cardinality(K) <= Cardinality(Connected(reg) \ {r})
  BY <1>3, <1>5, <1>6, FS_Subset, FS_CardinalityType
<1>8. Cardinality(K) < MaxConcurrency
  BY <1>4, <1>6, <1>7, BoundsAssumption
<1> QED
  BY <1>8 DEF K

\* A lease is granted where its connection left room for it.
LEMMA GrantAllowed ==
  ASSUME Accounts, NEW r \in Request, CountLease(r)
  PROVE  Allowed
<1>1. TypeOK /\ RequestStep(r)
  BY DEF Accounts, RequestStep, Take
<1>2. /\ pc[r] = "count" /\ Goto(r, "leased")
      /\ UNCHANGED <<reg, running, ent>>
  BY DEF CountLease
<1>3. places' = [places EXCEPT ![r] = "using"] /\ places[r] = "waiting"
  <2>1. Place(r)' = "using" /\ pc[r] \in Waiting
    BY <1>1, <1>2 DEF Place, Goto, TypeOK, Waiting
  <2> QED
    BY <1>1, <2>1, PlacesMove, PlaceFacts DEF places
<1>4. PICK b \in BOOLEAN : leases' = [leases EXCEPT ![r] = b] /\ (b => ent[r] = reg)
  <2>1. Known(r)' \in BOOLEAN /\ (Known(r)' => ent[r] = reg)
    BY <1>2 DEF Known
  <2> QED
    BY <1>1, <1>2, <2>1, LeasesMove
<1>5. b => Cardinality(Service!Known("container")) < MaxConcurrency
  BY <1>2, <1>4, RoomForOne
<1>6. Service!Grant(r)
  <2>0. "container" = [q \in Request |-> "container"][r]
    OBVIOUS
  <2>1. \E whole \in BOOLEAN, counted \in BOOLEAN :
          /\ counted => whole /\ Cardinality(Service!Known([q \in Request |-> "container"][r])) < MaxConcurrency
          /\ leases' = [leases EXCEPT ![r] = whole]
          /\ leases' = [leases EXCEPT ![r] = counted]
    BY <1>4, <1>5, <2>0
  <2>2. Service!Move(r, "waiting", "using")
    BY <1>3 DEF Service!Move, places
  <2>3. residue' = residue
    BY ResidueKept DEF CountLease
  <2> QED
    BY <2>1, <2>2, <2>3, Zenon DEF Service!Grant, Service!Cardinality, Cardinality, leases, residue
<1> QED
  BY <1>6 DEF Allowed, Service!Next

\* The lease ends with its connection.
LEMMA ReturnAllowed ==
  ASSUME TypeOK, NEW r \in Request, CloseConnection(r)
  PROVE  Allowed
<1>1. RequestStep(r)
  BY DEF RequestStep, GiveBack
<1>2. places' = [places EXCEPT ![r] = "answered"] /\ places[r] = "using"
  <2>1. Place(r)' = "answered" /\ pc[r] = "leased"
    BY DEF Place, CloseConnection, Goto, TypeOK
  <2> QED
    BY <1>1, <2>1, PlacesMove, PlaceFacts DEF places
<1>3. leases' = [leases EXCEPT ![r] = FALSE]
  <2>1. Known(r)' = FALSE /\ reg' = reg /\ running' = running
    BY DEF Known, CloseConnection, Goto, TypeOK
  <2> QED
    BY <1>1, <2>1, LeasesMove
<1>4. Service!Return(r)
  <2>1. residue' = residue
    BY ResidueKept DEF CloseConnection
  <2> QED
    BY <1>2, <1>3, <2>1 DEF Service!Return, Service!Move, places, leases, residue
<1> QED
  BY <1>4 DEF Allowed, Service!Next

\* What a lease executes stays in its container while that is the registered one.
LEMMA LeaveAllowed ==
  ASSUME Ownership, NEW r \in Request, Execute(r)
  PROVE  Allowed
<1>1. UNCHANGED <<reg, running, pc, ent>> /\ soiled' = soiled \cup {ent[r]} /\ pc[r] = "leased"
  BY DEF Execute
<1>2. places' = places /\ leases' = leases
  <2>1. \A q \in Request : Place(q)' = Place(q) /\ Known(q)' = Known(q)
    BY <1>1 DEF Place, Known
  <2> QED
    BY <2>1 DEF places, leases
<1>3. CASE ent[r] = reg
  <2>1. places[r] = "using" /\ leases[r]
    BY <1>1, <1>3, KnownOwned DEF places, leases, Place, Known
  <2>2. residue' = [k \in Container |-> TRUE]
    <3>1. Residue' = TRUE
      BY <1>1, <1>3 DEF Residue
    <3> QED
      BY <3>1 DEF residue
  <2>3. residue' = [residue EXCEPT !["container"] = TRUE]
    BY <2>2 DEF residue, Container
  <2>4. Service!Leave(r)
    BY <1>2, <2>1, <2>3 DEF Service!Leave, places, leases, residue
  <2> QED
    BY <2>4 DEF Allowed, Service!Next
<1>4. CASE ent[r] # reg
  <2>1. residue' = residue
    <3>1. Residue' = Residue
      BY <1>1, <1>4 DEF Residue
    <3> QED
      BY <3>1 DEF residue
  <2> QED
    BY <1>2, <2>1 DEF Allowed, Service!vars, places, leases, residue
<1> QED
  BY <1>3, <1>4

\* The cleanup removes the container when no lease is known.
LEMMA CleanupAllowed ==
  ASSUME Ownership, MidnightCleanup
  PROVE  Allowed
<1>1. \A q \in Request : ~Known(q)
  <2>1. ASSUME NEW q \in Request, Known(q)
        PROVE  FALSE
    <3>1. reg \in Entry /\ q \in Counted(reg)
      BY <2>1, KnownOwned DEF Known, Counted
    <3>2. IsFiniteSet(Counted(reg))
      BY RequestAssumption, FS_Subset DEF Counted
    <3>3. active[reg] # 0
      BY <3>1, <3>2, FS_EmptySet DEF Ownership, Accounts, LeaseAccounting, Counted
    <3> QED
      BY <3>3 DEF MidnightCleanup
  <2> QED
    BY <2>1
<1>2. places' = places
  <2>1. \A q \in Request : Place(q)' = Place(q)
    BY DEF Place, MidnightCleanup
  <2> QED
    BY <2>1 DEF places
<1>3. \A q \in Request : ~Known(q)'
  BY DEF Known, MidnightCleanup
<1>4. Container \in SUBSET {k \in Container : Service!Known(k) = {}}
  BY <1>1 DEF Service!Known, Container
<1>5. ~Residue'
  BY RequestAssumption DEF MidnightCleanup, Ownership, Accounts, TypeOK, Residue, Entry
<1>6. Service!RemoveIdle
  BY <1>2, <1>3, <1>4, <1>5, NoneKnown DEF Service!RemoveIdle, places
<1> QED
  BY <1>6 DEF Allowed, Service!Next

\* Every move of a request is one LeaseService allows.
LEMMA RequestAllowed ==
  ASSUME Ownership, NEW r \in Request, RequestStep(r)
  PROVE  Allowed
<1>0. TypeOK /\ Accounts
  BY DEF Ownership, Accounts
<1> USE <1>0 DEF Place, Goto, Fail, TypeOK
<1>1. CASE Find(r) /\ ~InspectDead(r)
  BY <1>1, QuietAllowed DEF Find, Look, InspectHealthy, InspectStarting
<1>2. CASE BeginStart(r) \/ CreateFails(r) \/ Ready(r) \/ StartBreaks(r) \/ Publish(r)
  BY <1>2, QuietAllowed DEF BeginStart, CreateFails, Ready, StartBreaks, Publish
<1>3. CASE AcquireSlot(r) \/ TimeoutIgnored(r) \/ Connect(r)
  BY <1>3, QuietAllowed DEF AcquireSlot, TimeoutIgnored, Connect
<1>4. CASE UncountLease(r) \/ ReleaseSlot(r) \/ ReleaseRaises(r)
  BY <1>4, QuietAllowed DEF UncountLease, ReleaseSlot, ReleaseRaises
<1>5. CASE InspectDead(r) \/ TimeoutRaised(r) \/ ConnectFails(r)
  BY <1>5, RefuseAllowed DEF InspectDead, TimeoutRaised, ConnectFails, Waiting
<1>6. CASE Register(r) \/ NotReady(r)
  BY <1>6, ReplaceAllowed
<1>7. CASE Unregister(r)
  BY <1>7, UnregisterAllowed
<1>8. CASE CreateContainer(r)
  BY <1>8, CreateAllowed
<1>9. CASE CountLease(r)
  BY <1>9, GrantAllowed
<1>10. CASE CloseConnection(r)
  BY <1>10, ReturnAllowed
<1> QED
  BY <1>1, <1>2, <1>3, <1>4, <1>5, <1>6, <1>7, <1>8, <1>9, <1>10
     DEF RequestStep, Find, Start, Take, GiveBack

\* Every step is.
LEMMA NextAllowed == Ownership /\ [Next]_vars => Allowed
<1> SUFFICES ASSUME Ownership, [Next]_vars
             PROVE  Allowed
  OBVIOUS
<1>1. CASE \E r \in Request : RequestStep(r)
  BY <1>1, RequestAllowed
<1>2. CASE MarkUnhealthy \/ UNCHANGED vars
  <2>1. UNCHANGED <<pc, reg, ent, soiled, running>>
    BY <1>2 DEF MarkUnhealthy, vars
  <2>2. \A q \in Request : Place(q)' = Place(q) /\ Known(q)' = Known(q)
    BY <2>1 DEF Place, Known
  <2>3. UNCHANGED <<places, leases, residue>>
    BY <2>1, <2>2, ResidueKept DEF places, leases
  <2> QED
    BY <2>3 DEF Allowed, Service!vars, places, leases, residue
<1>3. CASE MidnightCleanup
  BY <1>3, CleanupAllowed
<1>4. CASE \E r \in Request : Execute(r)
  BY <1>4, LeaveAllowed
<1> QED
  BY <1>1, <1>2, <1>3, <1>4 DEF Next, Idle

\* The path starts where LeaseService starts.
LEMMA InitAllowed == Init => Service!Init
<1> SUFFICES ASSUME Init
             PROVE  Service!Init
  OBVIOUS
<1>1. \A r \in Request : Place(r) = "outside" /\ Known(r) = FALSE
  BY DEF Init, Place, Known
<1>2. Residue = FALSE
  BY DEF Init, Residue
<1> QED
  BY <1>1, <1>2 DEF Service!Init, Container

\* A caller of lease_ephemeral() gets what the regular path of the pool gives but for
\* its clean container (Restored is FALSE: leases leave residue to one another, from the
\* first statement until the container is replaced or cleaned up).  Whatever times out,
\* fails or is cleaned up, for any number of requests and slots: although the path takes
\* no create lock, ignores slot timeouts and lets starts overwrite one another, at most
\* MaxConcurrency leases of the registered entry are known, and its container goes only
\* at the hand of a caller that starts one or, without a known lease, at night.
THEOREM EphemeralImplementsLeases == Spec => ImplementsLeases
<1>1. Ownership /\ [Next]_vars => [Service!Next]_Service!vars
  BY NextAllowed DEF Allowed
<1> QED
  BY <1>1, OwnershipHolds, InitAllowed, PTL DEF Spec, Service!Spec, ImplementsLeases
=============================================================================
