----------------------- MODULE ServerLifecycle_proofs -----------------------
(***************************************************************************)
(* Theorems about ServerLifecycle, for every number of clients, driver     *)
(* connections, locks and sessions.  All of them follow from one inductive *)
(* invariant, IInv: the WaitGroup counts the goroutines exactly (Counted), *)
(* so that Close, which waits for zero, cannot meet a handler; who holds a *)
(* driver connection and which ids are in use follow from where each       *)
(* handler is.                                                             *)
(***************************************************************************)
EXTENDS ServerLifecycle, TLAPS, FiniteSetTheorems

Live == {c \in Clients : handler[c] \in Running}
Looping == acceptor \in {"accepting", "spawning"}

\* s.wg counts the handlers between Add and Done, and acceptLoop.
Counted == wg = Cardinality(Live) + (IF Looping THEN 1 ELSE 0)

\* What Start and Close have done, and what runs meanwhile.
Phases ==
    /\ listener = "none" <=> acceptor = "off"
    /\ listener = "none" => backend = "closed"
    /\ listener = "listening" => Looping /\ closer # "waiting"
    /\ (closer = "finished" /\ listener = "closed") => backend = "closed"
    /\ backend = "open" <=> keepConn # NoConn
    /\ Looping => backend = "open"

\* Where handlers can be in these phases; one connection at a time is between
\* Accept and wg.Add.
Stages ==
    /\ \A c \in Clients : handler[c] \in Running => backend = "open"
    /\ \A c \in Clients : handler[c] = "backlog" => listener = "listening"
    /\ \A c \in Clients : handler[c] = "accepted" => acceptor = "spawning"
    /\ \A c, d \in Clients : handler[c] = "accepted" /\ handler[d] = "accepted" => c = d

\* Driver connections are in at most one hand, and in none after Close.
Conns ==
    /\ \A c \in Clients : conn[c] # NoConn <=> handler[c] \in Holding
    /\ \A c \in Clients : conn[c] # NoConn => conn[c] # keepConn
    /\ \A c, d \in Clients : c # d /\ conn[c] = conn[d] => conn[c] = NoConn

\* No two sessions ever had the same connection id, and 0 is none.
Ids ==
    /\ \A c \in Clients : id[c] < nextConnectionID
    /\ \A c \in Clients : handler[c] \in {"serving", "unlocking"} => id[c] # 0
    /\ \A c, d \in Clients : c # d /\ id[c] = id[d] => id[c] = 0

IInv == TypeOK /\ Counted /\ Phases /\ Stages /\ Conns /\ Ids /\ LockOwnerServing

-----------------------------------------------------------------------------
(* The count.                                                              *)

\* The handlers between Add and Done are finitely many: there is a count.
LEMMA LiveFinite ==
    /\ IsFiniteSet(Live)
    /\ Cardinality(Live) \in Nat
    /\ Cardinality(Live) = 0 <=> Live = {}
<1>1. Live \subseteq Clients /\ IsFiniteSet(Clients)
  BY LifecycleAssumption DEF LifecycleAssumption, Live
<1>2. IsFiniteSet(Live)
  BY <1>1, FS_Subset
<1>. QED
  BY <1>2, FS_CardinalityType, FS_EmptySet

\* A goroutine that runs keeps s.wg above zero, which is what Close waits for.
LEMMA RunningCounts ==
    ASSUME TypeOK, Counted
    PROVE  /\ Looping => wg > 0
           /\ \A c \in Clients : handler[c] \in Running => wg > 0
<1>1. \A c \in Clients : handler[c] \in Running => Live # {}
  BY DEF Live
<1>. QED
  BY <1>1, LiveFinite DEF Counted, TypeOK

\* Every Add has its goroutine and every Done ends one.
LEMMA CountedStep ==
    ASSUME TypeOK, Counted, Phases, [Next]_vars
    PROVE  Counted'
<1>. USE DEF Running
<1>1. CASE Start
  <2>1. Live' = Live /\ ~Looping /\ Looping'
    BY <1>1 DEF Start, Live, Looping, Phases, handlerVars
  <2>. QED
    BY <1>1, <2>1, LiveFinite DEF Start, Counted
<1>2. CASE AcceptLoopReturns
  <2>1. Live' = Live /\ Looping /\ ~Looping'
    BY <1>2 DEF AcceptLoopReturns, Live, Looping, handlerVars
  <2>. QED
    BY <1>2, <2>1, LiveFinite DEF AcceptLoopReturns, Counted
<1>3. ASSUME NEW c \in Clients, Spawn(c) PROVE Counted'
  <2>1. c \notin Live /\ Live' = Live \cup {c}
    BY <1>3 DEF Spawn, Live, TypeOK
  <2>2. Cardinality(Live') = Cardinality(Live) + 1
    BY <2>1, LiveFinite, FS_AddElement
  <2>. QED
    BY <1>3, <2>2, LiveFinite DEF Spawn, Counted, Looping
<1>4. ASSUME NEW c \in Clients, HandlerExits(c) PROVE Counted'
  <2>1. c \in Live /\ Live' = Live \ {c}
    BY <1>4 DEF HandlerExits, Live, TypeOK
  <2>2. Cardinality(Live') = Cardinality(Live) - 1
    BY <2>1, LiveFinite, FS_RemoveElement
  <2>. QED
    BY <1>4, <2>2, LiveFinite DEF HandlerExits, Counted, Looping
<1>5. ASSUME Live' = Live, Looping' = Looping, wg' = wg PROVE Counted'
  BY <1>5 DEF Counted
<1>6. CASE CloseStep
  <2>1. Live' = Live
    BY <1>6 DEF CloseStep, CloseSignal, CloseListener, CloseBackend, handlerVars,
                Live, TypeOK
  <2>. QED
    BY <1>5, <1>6, <2>1 DEF CloseStep, CloseSignal, CloseListener, CloseBackend, Looping
<1>7. ASSUME NEW c \in Clients, Accept(c) PROVE Counted'
  <2>1. Live' = Live
    BY <1>7 DEF Accept, Live, TypeOK
  <2>. QED
    BY <1>5, <1>7, <2>1 DEF Accept, Looping
<1>8. ASSUME NEW c \in Clients,
             Dial(c) \/ HangUp(c) \/ Checkout(c) \/ CheckoutFails(c)
               \/ InitializeFails(c) \/ BeginServe(c)
               \/ ReleaseAll(c) \/ ReturnConn(c) \/ ServeReturns(c)
      PROVE  Counted'
  <2>1. Live' = Live
    BY <1>8 DEF Dial, HangUp, Checkout, CheckoutFails, InitializeFails, BeginServe,
                ReleaseAll, ReturnConn, ServeReturns, Live, TypeOK
  <2>2. UNCHANGED lifecycleVars
    BY <1>8 DEF Dial, HangUp, Checkout, CheckoutFails, InitializeFails, BeginServe,
                ReleaseAll, ReturnConn, ServeReturns
  <2>. QED
    BY <1>5, <2>1, <2>2 DEF lifecycleVars, Looping
<1>9. ASSUME NEW c \in Clients, NEW n \in LockNames, GetLock(c, n) \/ ReleaseLock(c, n)
      PROVE  Counted'
  BY <1>5, <1>9 DEF GetLock, ReleaseLock, lifecycleVars, handlerVars, Live, Looping
<1>10. CASE UNCHANGED vars
  BY <1>5, <1>10 DEF vars, lifecycleVars, handlerVars, Live, Looping
<1>. QED
  BY <1>1, <1>2, <1>3, <1>4, <1>6, <1>7, <1>8, <1>9, <1>10 DEF Next, HandlerStep

-----------------------------------------------------------------------------
(* The other parts of the invariant, and the invariant.                    *)

LEMMA InitInv == Init => IInv
<1>. SUFFICES ASSUME Init PROVE IInv
  OBVIOUS
<1>1. Live = {} /\ ~Looping
  BY DEF Init, Live, Looping, Running
<1>2. Counted
  BY <1>1, LiveFinite DEF Init, Counted
<1>3. TypeOK
  BY DEF Init, TypeOK
<1>4. Phases /\ Stages
  BY <1>1 DEF Init, Phases, Stages, Running
<1>5. Conns
  BY DEF Init, Conns, Holding
<1>6. Ids /\ LockOwnerServing
  BY DEF Init, Ids, LockOwnerServing
<1>. QED
  BY <1>2, <1>3, <1>4, <1>5, <1>6 DEF IInv

\* s.wg never goes below zero, which would panic: whoever calls Done counts.
LEMMA TypeStep ==
    ASSUME TypeOK, Counted, [Next]_vars
    PROVE  TypeOK'
<1>. USE DEF TypeOK, Running
<1>1. CASE Start
  BY <1>1 DEF Start, handlerVars
<1>2. CASE CloseSignal
  BY <1>2 DEF CloseSignal, handlerVars
<1>3. CASE CloseListener
  <2>1. peer' \in [Clients -> BOOLEAN]
    BY <1>3, Zenon DEF CloseListener
  <2>2. handler' \in [Clients -> {"absent", "backlog", "accepted"} \cup Running]
    BY <1>3 DEF CloseListener
  <2>. QED
    BY <1>3, <2>1, <2>2 DEF CloseListener
<1>4. CASE CloseBackend
  BY <1>4 DEF CloseBackend, handlerVars
<1>5. CASE AcceptLoopReturns
  BY <1>5, RunningCounts DEF AcceptLoopReturns, Looping, handlerVars
<1>6. ASSUME NEW c \in Clients, Accept(c) \/ Spawn(c) PROVE TypeOK'
  BY <1>6 DEF Accept, Spawn
<1>7. ASSUME NEW c \in Clients, Dial(c) \/ HangUp(c) PROVE TypeOK'
  BY <1>7 DEF Dial, HangUp, lifecycleVars
<1>8. ASSUME NEW c \in Clients,
             Checkout(c) \/ CheckoutFails(c) \/ InitializeFails(c)
               \/ BeginServe(c) \/ ServeReturns(c)
               \/ ReleaseAll(c) \/ ReturnConn(c)
      PROVE  TypeOK'
  BY <1>8 DEF Checkout, CheckoutFails, InitializeFails, BeginServe, ServeReturns,
              ReleaseAll, ReturnConn, lifecycleVars
<1>9. ASSUME NEW c \in Clients, HandlerExits(c) PROVE TypeOK'
  BY <1>9, RunningCounts DEF HandlerExits
<1>10. ASSUME NEW c \in Clients, NEW n \in LockNames, GetLock(c, n) \/ ReleaseLock(c, n)
       PROVE  TypeOK'
  BY <1>10 DEF GetLock, ReleaseLock, lifecycleVars, handlerVars
<1>11. CASE UNCHANGED vars
  BY <1>11 DEF vars, lifecycleVars, handlerVars
<1>. QED
  BY <1>1, <1>2, <1>3, <1>4, <1>5, <1>6, <1>7, <1>8, <1>9, <1>10, <1>11
     DEF Next, CloseStep, HandlerStep

\* Only the owner and acceptLoop move between phases, and the backend closes
\* only at wg = 0, when acceptLoop has returned.
LEMMA PhasesStep ==
    ASSUME IInv, [Next]_vars
    PROVE  Phases'
<1>. USE DEF IInv, Phases, Looping
<1>1. CASE Start
  BY <1>1, LifecycleAssumption DEF Start, LifecycleAssumption
<1>2. CASE CloseSignal \/ CloseListener
  BY <1>2 DEF CloseSignal, CloseListener, TypeOK
<1>3. CASE CloseBackend
  BY <1>3, RunningCounts DEF CloseBackend
<1>4. CASE AcceptLoopReturns
  BY <1>4 DEF AcceptLoopReturns
<1>5. ASSUME NEW c \in Clients, Accept(c) \/ Spawn(c) PROVE Phases'
  BY <1>5 DEF Accept, Spawn
<1>6. ASSUME UNCHANGED <<listener, backend, keepConn, closer, acceptor>> PROVE Phases'
  BY <1>6
<1>7. ASSUME NEW c \in Clients,
             Dial(c) \/ HangUp(c) \/ Checkout(c) \/ CheckoutFails(c)
               \/ HandlerStep(c) \/ ServeReturns(c)
      PROVE  Phases'
  BY <1>6, <1>7 DEF Dial, HangUp, Checkout, HandlerStep, CheckoutFails,
                    InitializeFails, BeginServe,
                    ServeReturns, ReleaseAll, ReturnConn, HandlerExits, lifecycleVars
<1>8. ASSUME NEW c \in Clients, NEW n \in LockNames, GetLock(c, n) \/ ReleaseLock(c, n)
      PROVE  Phases'
  BY <1>6, <1>8 DEF GetLock, ReleaseLock, lifecycleVars
<1>9. CASE UNCHANGED vars
  BY <1>6, <1>9 DEF vars, lifecycleVars
<1>. QED
  BY <1>1, <1>2, <1>3, <1>4, <1>5, <1>7, <1>8, <1>9 DEF Next, CloseStep

\* A handler starts from acceptLoop, while the backend is open, and the
\* backend closes when no handler is counted.
LEMMA StagesStep ==
    ASSUME IInv, [Next]_vars
    PROVE  Stages'
<1>. USE DEF IInv, TypeOK, Stages, Running
<1>1. CASE Start
  BY <1>1 DEF Start, Phases, handlerVars
<1>2. CASE CloseSignal \/ CloseListener
  BY <1>2 DEF CloseSignal, CloseListener, handlerVars
<1>3. CASE CloseBackend
  BY <1>3, RunningCounts DEF CloseBackend, handlerVars
<1>4. CASE AcceptLoopReturns
  BY <1>4 DEF AcceptLoopReturns, handlerVars
<1>5. ASSUME NEW c \in Clients, Accept(c) PROVE Stages'
  BY <1>5 DEF Accept
<1>6. ASSUME NEW c \in Clients, Spawn(c) PROVE Stages'
  BY <1>6 DEF Spawn, Phases, Looping
<1>7. ASSUME NEW c \in Clients,
             Dial(c) \/ HangUp(c) \/ Checkout(c) \/ CheckoutFails(c)
               \/ HandlerStep(c) \/ ServeReturns(c)
      PROVE  Stages'
  BY <1>7 DEF Dial, HangUp, Checkout, HandlerStep, CheckoutFails, InitializeFails,
              BeginServe,
              ServeReturns, ReleaseAll, ReturnConn, HandlerExits, lifecycleVars
<1>8. ASSUME NEW c \in Clients, NEW n \in LockNames, GetLock(c, n) \/ ReleaseLock(c, n)
      PROVE  Stages'
  BY <1>8 DEF GetLock, ReleaseLock, lifecycleVars, handlerVars
<1>9. CASE UNCHANGED vars
  BY <1>9 DEF vars, lifecycleVars, handlerVars
<1>. QED
  BY <1>1, <1>2, <1>3, <1>4, <1>5, <1>6, <1>7, <1>8, <1>9 DEF Next, CloseStep

\* s.db.Conn takes a connection nobody has, and Start one from an empty pool.
LEMMA ConnsStep ==
    ASSUME IInv, [Next]_vars
    PROVE  Conns'
<1>. USE LifecycleAssumption DEF IInv, TypeOK, Conns, Running, Holding
<1>1. CASE Start
  <2>1. \A c \in Clients : conn[c] = NoConn
    BY <1>1 DEF Start, Phases, Stages
  <2>. QED
    BY <1>1, <2>1 DEF Start, handlerVars
<1>2. CASE CloseSignal \/ CloseListener
  BY <1>2 DEF CloseSignal, CloseListener, handlerVars
<1>3. CASE CloseBackend
  BY <1>3 DEF CloseBackend, handlerVars
<1>4. CASE AcceptLoopReturns
  BY <1>4 DEF AcceptLoopReturns, handlerVars
<1>5. ASSUME NEW c \in Clients, Accept(c) \/ Spawn(c) PROVE Conns'
  BY <1>5 DEF Accept, Spawn
<1>6. ASSUME NEW c \in Clients, Checkout(c) PROVE Conns'
  BY <1>6 DEF Checkout, InUse, lifecycleVars, LifecycleAssumption
<1>7. ASSUME NEW c \in Clients, ReturnConn(c) PROVE Conns'
  BY <1>7 DEF ReturnConn, lifecycleVars
<1>8. ASSUME NEW c \in Clients,
             Dial(c) \/ HangUp(c) \/ CheckoutFails(c) \/ InitializeFails(c)
               \/ BeginServe(c)
               \/ ServeReturns(c) \/ ReleaseAll(c) \/ HandlerExits(c)
      PROVE  Conns'
  BY <1>8 DEF Dial, HangUp, CheckoutFails, InitializeFails, BeginServe, ServeReturns,
              ReleaseAll, HandlerExits, lifecycleVars
<1>9. ASSUME NEW c \in Clients, NEW n \in LockNames, GetLock(c, n) \/ ReleaseLock(c, n)
      PROVE  Conns'
  BY <1>9 DEF GetLock, ReleaseLock, lifecycleVars, handlerVars
<1>10. CASE UNCHANGED vars
  BY <1>10 DEF vars, lifecycleVars, handlerVars
<1>. QED
  BY <1>1, <1>2, <1>3, <1>4, <1>5, <1>6, <1>7, <1>8, <1>9, <1>10
     DEF Next, CloseStep, HandlerStep

\* BeginServe gives out the next id, which is above all others.
LEMMA IdsStep ==
    ASSUME IInv, [Next]_vars
    PROVE  Ids'
<1>. USE DEF IInv, TypeOK, Ids, Running
<1>1. CASE Start \/ CloseStep \/ AcceptLoopReturns
  BY <1>1 DEF Start, CloseStep, CloseSignal, CloseListener, CloseBackend,
              AcceptLoopReturns, handlerVars
<1>2. ASSUME NEW c \in Clients, BeginServe(c) PROVE Ids'
  BY <1>2 DEF BeginServe
<1>3. ASSUME NEW c \in Clients,
             Dial(c) \/ HangUp(c) \/ Accept(c) \/ Spawn(c) \/ Checkout(c)
               \/ CheckoutFails(c) \/ InitializeFails(c) \/ ServeReturns(c)
               \/ ReleaseAll(c)
               \/ ReturnConn(c) \/ HandlerExits(c)
      PROVE  Ids'
  BY <1>3 DEF Dial, HangUp, Accept, Spawn, Checkout, CheckoutFails, InitializeFails,
              ServeReturns, ReleaseAll, ReturnConn, HandlerExits
<1>4. ASSUME NEW c \in Clients, NEW n \in LockNames, GetLock(c, n) \/ ReleaseLock(c, n)
      PROVE  Ids'
  BY <1>4 DEF GetLock, ReleaseLock, handlerVars
<1>5. CASE UNCHANGED vars
  BY <1>5 DEF vars, handlerVars
<1>. QED
  BY <1>1, <1>2, <1>3, <1>4, <1>5 DEF Next, HandlerStep

\* A lock's owner leaves "serving" and "unlocking" only through ReleaseAll,
\* which frees the lock, and no later session has the owner's id.
LEMMA LocksStep ==
    ASSUME IInv, [Next]_vars
    PROVE  LockOwnerServing'
<1>. USE LifecycleAssumption DEF IInv, TypeOK, LockOwnerServing, LifecycleAssumption,
                                 Running
<1>1. CASE Start \/ CloseStep \/ AcceptLoopReturns
  BY <1>1 DEF Start, CloseStep, CloseSignal, CloseListener, CloseBackend,
              AcceptLoopReturns, handlerVars
<1>2. ASSUME NEW c \in Clients, BeginServe(c) PROVE LockOwnerServing'
  BY <1>2 DEF BeginServe, Ids
<1>3. ASSUME NEW c \in Clients, ReleaseAll(c) PROVE LockOwnerServing'
  BY <1>3 DEF ReleaseAll
<1>4. ASSUME NEW c \in Clients,
             Dial(c) \/ HangUp(c) \/ Accept(c) \/ Spawn(c) \/ Checkout(c)
               \/ CheckoutFails(c) \/ InitializeFails(c) \/ ServeReturns(c)
               \/ ReturnConn(c) \/ HandlerExits(c)
      PROVE  LockOwnerServing'
  BY <1>4 DEF Dial, HangUp, Accept, Spawn, Checkout, CheckoutFails, InitializeFails,
              ServeReturns, ReturnConn, HandlerExits
<1>5. ASSUME NEW c \in Clients, NEW n \in LockNames, GetLock(c, n)
      PROVE  LockOwnerServing'
  BY <1>5 DEF GetLock, handlerVars, Ids
<1>6. ASSUME NEW c \in Clients, NEW n \in LockNames, ReleaseLock(c, n)
      PROVE  LockOwnerServing'
  BY <1>6 DEF ReleaseLock, handlerVars
<1>7. CASE UNCHANGED vars
  BY <1>7 DEF vars, handlerVars
<1>. QED
  BY <1>1, <1>2, <1>3, <1>4, <1>5, <1>6, <1>7 DEF Next, HandlerStep

LEMMA Invariance == Spec => []IInv
<1>1. Init => IInv
  BY InitInv
<1>2. IInv /\ [Next]_vars => IInv'
  BY TypeStep, CountedStep, PhasesStep, StagesStep, ConnsStep, IdsStep,
     LocksStep DEF IInv
<1>. QED
  BY <1>1, <1>2, PTL DEF Spec

-----------------------------------------------------------------------------
(* The theorems.                                                           *)

\* The state of the server has its types; in particular wg.Done never takes
\* the WaitGroup below zero, which panics.
THEOREM TypeCorrect == Spec => []TypeOK
<1>1. IInv => TypeOK
  BY DEF IInv
<1>. QED
  BY <1>1, Invariance, PTL

\* Close never closes the backend under a handler of handleNetConn.
THEOREM BackendOutlivesItsHandlers == Spec => []BackendOutlivesHandlers
<1>1. IInv => BackendOutlivesHandlers
  BY DEF IInv, Phases, Stages, Looping, BackendOutlivesHandlers
<1>. QED
  BY <1>1, Invariance, PTL

\* When Close of a started server has returned nothing of it is left.
THEOREM CloseLeavesNothing == Spec => []CloseIsFinal
<1>1. ASSUME IInv, closer = "finished", listener = "closed"
      PROVE  /\ backend = "closed" /\ keepConn = NoConn
             /\ acceptor = "returned" /\ wg = 0
             /\ \A c \in Clients : handler[c] = "absent" /\ conn[c] = NoConn
             /\ \A n \in LockNames : locks[n] = NoOwner
  <2>. USE <1>1 DEF IInv, TypeOK
  <2>1. backend = "closed" /\ keepConn = NoConn /\ acceptor = "returned" /\ ~Looping
    BY DEF Phases, Looping
  <2>2. \A c \in Clients : handler[c] = "absent" /\ handler[c] \notin Running \cup Holding
    BY <2>1 DEF Stages, Running, Holding
  <2>3. wg = 0
    BY <2>1, <2>2, LiveFinite DEF Counted, Live
  <2>4. \A c \in Clients : conn[c] = NoConn
    BY <2>2 DEF Conns
  <2>5. \A n \in LockNames : locks[n] = NoOwner
    BY <2>2 DEF LockOwnerServing
  <2>. QED
    BY <2>1, <2>2, <2>3, <2>4, <2>5
<1>2. IInv => CloseIsFinal
  BY <1>1 DEF CloseIsFinal
<1>. QED
  BY <1>2, Invariance, PTL

\* An advisory lock belongs to exactly one session, which is still served.
THEOREM LocksEndWithTheirSession == Spec => []LockOwnerServing
<1>1. IInv => LockOwnerServing
  BY DEF IInv
<1>. QED
  BY <1>1, Invariance, PTL

\* No two sessions, and no session and the server, share a driver connection.
THEOREM ConnsExclusive == Spec => []Conns
<1>1. IInv => Conns
  BY DEF IInv
<1>. QED
  BY <1>1, Invariance, PTL

-----------------------------------------------------------------------------
(* ServerLifecycle implements ConnectionLease.                             *)

Leases == {p \in Clients \X DriverConns : conn[p[1]] = p[2]}

LEMMA LeasesAt ==
    ASSUME NEW c \in Clients, NEW k \in DriverConns
    PROVE  <<c, k>> \in Leases <=> conn[c] = k
  BY DEF Leases

\* s.db.Conn is a Grant: the pool gave the connection to nobody, and this
\* handler, which just started, has none.
LEMMA CheckoutGrants ==
    ASSUME IInv, NEW c \in Clients, Checkout(c)
    PROVE  \E k \in DriverConns : Lease!Grant(c, k)
<1>. USE DEF IInv, TypeOK
<1>1. PICK k \in DriverConns : ~InUse(k) /\ conn' = [conn EXCEPT ![c] = k]
  BY DEF Checkout
<1>2. conn[c] = NoConn
  BY DEF Checkout, Conns, Holding
<1>3. ~Lease!Leased(k)
  BY <1>1, LeasesAt DEF InUse, Lease!Leased, Leases
<1>4. ~Lease!Leasing(c)
  BY <1>2, LeasesAt, LifecycleAssumption DEF LifecycleAssumption, Lease!Leasing, Leases
<1>5. Leases' = Leases \cup {<<c, k>>}
  BY <1>1, <1>2, LifecycleAssumption DEF Leases, LifecycleAssumption
<1>. QED
  BY <1>3, <1>4, <1>5 DEF Lease!Grant, Leases

\* sqliteConn.Close is a GiveBack of the connection the handler has.
LEMMA ReturnGivesBack ==
    ASSUME IInv, NEW c \in Clients, ReturnConn(c)
    PROVE  \E k \in DriverConns : Lease!GiveBack(c, k)
<1>. USE DEF IInv, TypeOK
<1>1. conn[c] \in DriverConns /\ conn' = [conn EXCEPT ![c] = NoConn]
  BY DEF ReturnConn, Conns, Holding
<1>2. Leases' = Leases \ {<<c, conn[c]>>}
  BY <1>1, LifecycleAssumption DEF Leases, LifecycleAssumption
<1>3. <<c, conn[c]>> \in Leases
  BY <1>1, LeasesAt
<1>. QED
  BY <1>1, <1>2, <1>3 DEF Lease!GiveBack, Leases

\* What the sessions assume of SQLite connections, the server provides: every
\* step of the goroutines is a Grant, a GiveBack or none of the lease's business.
THEOREM LeaseImplemented == Spec => ImplementsLease
<1>1. Init => Lease!LeaseInit
  BY LifecycleAssumption DEF Init, Lease!LeaseInit, LifecycleAssumption
<1>2. ASSUME IInv, [Next]_vars
      PROVE  [Lease!LeaseNext]_Leases
  <2>1. ASSUME NEW c \in Clients, Checkout(c) PROVE Lease!LeaseNext
    BY <2>1, <1>2, CheckoutGrants DEF Lease!LeaseNext
  <2>2. ASSUME NEW c \in Clients, ReturnConn(c) PROVE Lease!LeaseNext
    BY <2>2, <1>2, ReturnGivesBack DEF Lease!LeaseNext
  <2>3. ASSUME conn' = conn PROVE UNCHANGED Leases
    BY <2>3 DEF Leases
  <2>4. CASE Start \/ CloseStep \/ AcceptLoopReturns
    BY <2>3, <2>4 DEF Start, CloseStep, CloseSignal, CloseListener, CloseBackend,
                      AcceptLoopReturns, handlerVars
  <2>5. ASSUME NEW c \in Clients,
               Dial(c) \/ HangUp(c) \/ Accept(c) \/ Spawn(c) \/ CheckoutFails(c)
                 \/ InitializeFails(c)
                 \/ BeginServe(c) \/ ServeReturns(c) \/ ReleaseAll(c) \/ HandlerExits(c)
        PROVE  UNCHANGED Leases
    BY <2>3, <2>5 DEF Dial, HangUp, Accept, Spawn, CheckoutFails, InitializeFails,
                      BeginServe, ServeReturns, ReleaseAll, HandlerExits
  <2>6. ASSUME NEW c \in Clients, NEW n \in LockNames, GetLock(c, n)
    \/ ReleaseLock(c, n)
        PROVE  UNCHANGED Leases
    BY <2>3, <2>6 DEF GetLock, ReleaseLock, handlerVars
  <2>7. CASE UNCHANGED vars
    BY <2>3, <2>7 DEF vars, handlerVars
  <2>. QED
    BY <1>2, <2>1, <2>2, <2>4, <2>5, <2>6, <2>7 DEF Next, HandlerStep
<1>. QED
  BY <1>1, <1>2, Invariance, PTL DEF Spec, ImplementsLease, Lease!LeaseSpec, Leases
=============================================================================
