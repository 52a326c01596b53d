-------------------------- MODULE ServerLifecycle --------------------------
(***************************************************************************)
(* The goroutines of a mysqlmock Server and what they share: Server.Start, *)
(* acceptLoop, one handleNetConn per MySQL client, Server.Close, the       *)
(* WaitGroup they meet at, the database/sql pool every handler takes its   *)
(* SQLite connection from, and the advisory locks that a handler's         *)
(* deferred calls release.  What a session does with its SQLite connection *)
(* is the subject of Session.                                              *)
(*                                                                         *)
(* Start and Close are called by one owner, one after the other, as        *)
(* cmd/mysqlmock/main.go does; Close may come before Start.                *)
(***************************************************************************)
EXTENDS Naturals, FiniteSets

CONSTANTS
    Clients,        \* MySQL clients; a client may connect again after it left
    DriverConns,    \* SetMaxOpenConns: driver connections the pool may open
    LockNames,      \* names given to GET_LOCK
    NoConn,         \* no driver connection
    NoOwner,        \* the advisory lock is free
    MaxSessions     \* bound of the model: sessions opened in one behaviour

ASSUME LifecycleAssumption ==
    /\ IsFiniteSet(Clients)
    /\ NoConn \notin DriverConns
    /\ NoOwner \notin Nat
    /\ MaxSessions \in Nat

VARIABLES
    listener,          \* s.listener: none, listening or closed
    done,              \* whether s.done is closed
    backend,           \* s.db: closed or open
    keepConn,          \* s.keepConn: the driver connection the server keeps
    closer,            \* how far the body of s.closeOnce.Do has come
    wg,                \* s.wg
    acceptor,          \* the goroutine of acceptLoop
    handler,           \* the goroutine of handleNetConn of each client
    peer,              \* whether the client's end of the TCP connection is open
    conn,              \* sqliteConn of each handler
    id,                \* connectionID of each session
    nextConnectionID,  \* s.nextConnectionID
    locks              \* s.advisoryLocks: lock name -> connectionID

lifecycleVars == <<listener, done, backend, keepConn, closer, wg, acceptor>>
handlerVars == <<handler, peer, conn, id, nextConnectionID>>
vars == <<lifecycleVars, handlerVars, locks>>

\* A handler goroutine from wg.Add to wg.Done ...
Running == {"checkout", "initializing", "serving", "unlocking", "returning", "exiting"}
\* ... and the part of it that holds a driver connection.
Holding == {"initializing", "serving", "unlocking", "returning"}

TypeOK ==
    /\ listener \in {"none", "listening", "closed"}
    /\ done \in BOOLEAN
    /\ backend \in {"closed", "open"}
    /\ keepConn \in DriverConns \cup {NoConn}
    /\ closer \in {"idle", "signalled", "waiting", "finished"}
    /\ wg \in Nat
    /\ acceptor \in {"off", "accepting", "spawning", "returned"}
    /\ handler \in [Clients -> {"absent", "backlog", "accepted"} \cup Running]
    /\ peer \in [Clients -> BOOLEAN]
    /\ conn \in [Clients -> DriverConns \cup {NoConn}]
    /\ id \in [Clients -> Nat]
    /\ nextConnectionID \in Nat
    /\ locks \in [LockNames -> Nat \cup {NoOwner}]

\* New: ids start at ConnectionIDStart (1), which 0 therefore never is.
Init ==
    /\ listener = "none" /\ done = FALSE
    /\ backend = "closed" /\ keepConn = NoConn
    /\ closer = "idle" /\ wg = 0 /\ acceptor = "off"
    /\ handler = [c \in Clients |-> "absent"]
    /\ peer = [c \in Clients |-> FALSE]
    /\ conn = [c \in Clients |-> NoConn]
    /\ id = [c \in Clients |-> 0]
    /\ nextConnectionID = 1
    /\ locks = [n \in LockNames |-> NoOwner]

-----------------------------------------------------------------------------
(* The owner of the server.                                                *)

\* Start: openBackend takes keepConn, then the listener and acceptLoop start.
\* A Start that fails closes what it opened and leaves this state as it was.
Start ==
    /\ listener = "none"
    /\ closer \in {"idle", "finished"}
    /\ \E k \in DriverConns : keepConn' = k
    /\ backend' = "open"
    /\ listener' = "listening"
    /\ wg' = wg + 1
    /\ acceptor' = "accepting"
    /\ UNCHANGED <<done, closer, handlerVars, locks>>

\* Close: close(s.done), once.
CloseSignal ==
    /\ closer = "idle"
    /\ closer' = "signalled"
    /\ done' = TRUE
    /\ UNCHANGED <<listener, backend, keepConn, wg, acceptor, handlerVars, locks>>

\* Close: s.listener.Close() when there is one; connections nobody accepted
\* yet are refused.
CloseListener ==
    /\ closer = "signalled"
    /\ closer' = "waiting"
    /\ listener' = IF listener = "none" THEN "none" ELSE "closed"
    /\ handler' = [c \in Clients |->
                     IF handler[c] = "backlog" THEN "absent" ELSE handler[c]]
    /\ peer' = [c \in Clients |-> peer[c] /\ handler[c] # "backlog"]
    /\ UNCHANGED <<done, backend, keepConn, wg, acceptor, conn, id,
                   nextConnectionID, locks>>

\* Mutants of CloseBackend: no s.wg.Wait(); s.keepConn not given up.
CloseBackendAtOnce ==
    /\ closer = "waiting"
    /\ closer' = "finished" /\ backend' = "closed" /\ keepConn' = NoConn
    /\ UNCHANGED <<listener, done, wg, acceptor, handlerVars, locks>>

CloseBackendButKeepConn ==
    /\ closer = "waiting" /\ wg = 0
    /\ closer' = "finished" /\ backend' = "closed"
    /\ UNCHANGED <<listener, done, keepConn, wg, acceptor, handlerVars, locks>>

\* Close: s.wg.Wait() returns, then closeBackend.
CloseBackend ==
    /\ closer = "waiting"
    /\ wg = 0
    /\ closer' = "finished"
    /\ backend' = "closed"
    /\ keepConn' = NoConn
    /\ UNCHANGED <<listener, done, wg, acceptor, handlerVars, locks>>

-----------------------------------------------------------------------------
(* acceptLoop.                                                             *)

Accept(c) ==
    /\ acceptor = "accepting"
    /\ handler[c] = "backlog"
    /\ acceptor' = "spawning"
    /\ handler' = [handler EXCEPT ![c] = "accepted"]
    /\ UNCHANGED <<listener, done, backend, keepConn, closer, wg, peer, conn, id,
                   nextConnectionID, locks>>

\* Mutant of Spawn: no s.wg.Add(1).
SpawnUncounted(c) ==
    /\ acceptor = "spawning" /\ handler[c] = "accepted"
    /\ acceptor' = "accepting"
    /\ handler' = [handler EXCEPT ![c] = "checkout"]
    /\ UNCHANGED <<listener, done, backend, keepConn, closer, wg, peer, conn, id,
                   nextConnectionID, locks>>

\* s.wg.Add(1) before the handler goroutine starts.
Spawn(c) ==
    /\ acceptor = "spawning"
    /\ handler[c] = "accepted"
    /\ acceptor' = "accepting"
    /\ wg' = wg + 1
    /\ handler' = [handler EXCEPT ![c] = "checkout"]
    /\ UNCHANGED <<listener, done, backend, keepConn, closer, peer, conn, id,
                   nextConnectionID, locks>>

\* Accept fails on the closed listener and s.done is closed.
AcceptLoopReturns ==
    /\ acceptor = "accepting"
    /\ listener = "closed"
    /\ done
    /\ acceptor' = "returned"
    /\ wg' = wg - 1
    /\ UNCHANGED <<listener, done, backend, keepConn, closer, handlerVars, locks>>

-----------------------------------------------------------------------------
(* handleNetConn.                                                          *)

InUse(k) == k = keepConn \/ \E c \in Clients : conn[c] = k

\* Mutant of Checkout: the session runs on s.keepConn.
CheckoutKeepConn(c) ==
    /\ handler[c] = "checkout" /\ keepConn # NoConn
    /\ conn' = [conn EXCEPT ![c] = keepConn]
    /\ handler' = [handler EXCEPT ![c] = "initializing"]
    /\ UNCHANGED <<lifecycleVars, peer, id, nextConnectionID, locks>>

\* s.db.Conn: blocks until the pool has a driver connection to give.
Checkout(c) ==
    /\ handler[c] = "checkout"
    /\ \E k \in DriverConns :
          /\ ~InUse(k)
          /\ conn' = [conn EXCEPT ![c] = k]
    /\ handler' = [handler EXCEPT ![c] = "initializing"]
    /\ UNCHANGED <<lifecycleVars, peer, id, nextConnectionID, locks>>

\* The driver cannot open a connection: s.db.Conn returns the error.
CheckoutFails(c) ==
    /\ handler[c] = "checkout"
    /\ \E k \in DriverConns : ~InUse(k)
    /\ handler' = [handler EXCEPT ![c] = "exiting"]
    /\ UNCHANGED <<lifecycleVars, peer, conn, id, nextConnectionID, locks>>

\* Mutant of InitializeFails: the early return is before the deferred Close.
InitializeLeaks(c) ==
    /\ handler[c] = "initializing"
    /\ handler' = [handler EXCEPT ![c] = "exiting"]
    /\ UNCHANGED <<lifecycleVars, peer, conn, id, nextConnectionID, locks>>

\* PRAGMA foreign_keys or resetBackendFull fails: the deferred calls run.
InitializeFails(c) ==
    /\ handler[c] = "initializing"
    /\ handler' = [handler EXCEPT ![c] = "returning"]
    /\ UNCHANGED <<lifecycleVars, peer, conn, id, nextConnectionID, locks>>

\* The mysqlConn is built with the next connection id and serve begins.
BeginServe(c) ==
    /\ handler[c] = "initializing"
    /\ handler' = [handler EXCEPT ![c] = "serving"]
    /\ id' = [id EXCEPT ![c] = nextConnectionID]
    /\ nextConnectionID' = nextConnectionID + 1
    /\ UNCHANGED <<lifecycleVars, peer, conn, locks>>

\* advisoryLockStore.get: granted when free or already the session's own.
GetLock(c, n) ==
    /\ handler[c] = "serving"
    /\ locks[n] \in {NoOwner, id[c]}
    /\ locks' = [locks EXCEPT ![n] = id[c]]
    /\ UNCHANGED <<lifecycleVars, handlerVars>>

\* advisoryLockStore.release: only the holder frees the lock.
ReleaseLock(c, n) ==
    /\ handler[c] = "serving"
    /\ locks[n] = id[c]
    /\ locks' = [locks EXCEPT ![n] = NoOwner]
    /\ UNCHANGED <<lifecycleVars, handlerVars>>

\* Mutant of ServeReturns: no deferred releaseAdvisoryLocks.
ServeReturnsLocked(c) ==
    /\ handler[c] = "serving"
    /\ handler' = [handler EXCEPT ![c] = "returning"]
    /\ UNCHANGED <<lifecycleVars, peer, conn, id, nextConnectionID, locks>>

\* serve returns: COM_QUIT, a disconnect rule, a bad packet, a failed write,
\* or (PeerLost) a read from a client that is gone.
ServeReturns(c) ==
    /\ handler[c] = "serving"
    /\ handler' = [handler EXCEPT ![c] = "unlocking"]
    /\ UNCHANGED <<lifecycleVars, peer, conn, id, nextConnectionID, locks>>

\* defer s.releaseAdvisoryLocks(c.connectionID)
ReleaseAll(c) ==
    /\ handler[c] = "unlocking"
    /\ handler' = [handler EXCEPT ![c] = "returning"]
    /\ locks' = [n \in LockNames |-> IF locks[n] = id[c] THEN NoOwner ELSE locks[n]]
    /\ UNCHANGED <<lifecycleVars, peer, conn, id, nextConnectionID>>

\* defer sqliteConn.Close(): the driver connection goes back to the pool.
ReturnConn(c) ==
    /\ handler[c] = "returning"
    /\ handler' = [handler EXCEPT ![c] = "exiting"]
    /\ conn' = [conn EXCEPT ![c] = NoConn]
    /\ UNCHANGED <<lifecycleVars, peer, id, nextConnectionID, locks>>

\* Mutant of HandlerExits: no s.wg.Done().
HandlerExitsUncounted(c) ==
    /\ handler[c] = "exiting"
    /\ handler' = [handler EXCEPT ![c] = "absent"]
    /\ peer' = [peer EXCEPT ![c] = FALSE]
    /\ UNCHANGED <<lifecycleVars, conn, id, nextConnectionID, locks>>

\* defer conn.Close() and defer s.wg.Done()
HandlerExits(c) ==
    /\ handler[c] = "exiting"
    /\ handler' = [handler EXCEPT ![c] = "absent"]
    /\ peer' = [peer EXCEPT ![c] = FALSE]
    /\ wg' = wg - 1
    /\ UNCHANGED <<listener, done, backend, keepConn, closer, acceptor, conn, id,
                   nextConnectionID, locks>>

-----------------------------------------------------------------------------
(* The clients.                                                            *)

\* Sessions opened and handlers that may still open one stay within the bound.
Dial(c) ==
    /\ listener = "listening"
    /\ handler[c] = "absent"
    /\ nextConnectionID
         + Cardinality({d \in Clients : handler[d] \in
                          {"backlog", "accepted", "checkout", "initializing"}})
         <= MaxSessions
    /\ handler' = [handler EXCEPT ![c] = "backlog"]
    /\ peer' = [peer EXCEPT ![c] = TRUE]
    /\ UNCHANGED <<lifecycleVars, conn, id, nextConnectionID, locks>>

\* The client goes away; its handler finds out at its next read or write.
HangUp(c) ==
    /\ peer[c]
    /\ peer' = [peer EXCEPT ![c] = FALSE]
    /\ UNCHANGED <<lifecycleVars, handler, conn, id, nextConnectionID, locks>>

PeerLost(c) == ~peer[c] /\ ServeReturns(c)

-----------------------------------------------------------------------------
CloseStep == CloseSignal \/ CloseListener \/ CloseBackend

HandlerStep(c) ==
    \/ InitializeFails(c) \/ BeginServe(c)
    \/ ReleaseAll(c) \/ ReturnConn(c) \/ HandlerExits(c)

Next ==
    \/ Start
    \/ CloseStep
    \/ AcceptLoopReturns
    \/ \E c \in Clients :
          \/ Dial(c) \/ HangUp(c)
          \/ Accept(c) \/ Spawn(c) \/ Checkout(c) \/ CheckoutFails(c)
          \/ HandlerStep(c)
          \/ ServeReturns(c)
          \/ \E n \in LockNames : GetLock(c, n) \/ ReleaseLock(c, n)

Spec == Init /\ [][Next]_vars

\* Go runs every goroutine that can run, and database/sql hands a returned
\* connection to a waiter chosen at random, so a waiter that is eligible again
\* and again is chosen.  Nothing makes a client dial or hang up, the owner call
\* Start or Close, or serve return while the client is there.
Fairness ==
    /\ WF_vars(CloseListener) /\ WF_vars(CloseBackend)
    /\ WF_vars(AcceptLoopReturns)
    /\ \A c \in Clients :
          /\ WF_vars(Accept(c)) /\ WF_vars(Spawn(c))
          /\ SF_vars(Checkout(c))
          /\ WF_vars(HandlerStep(c))
          /\ WF_vars(PeerLost(c))

FairSpec == Spec /\ Fairness

-----------------------------------------------------------------------------
(* Properties.                                                             *)

\* Close does not pull the database from under a handler: a goroutine that
\* may use s.db or its SQLite connection runs only while the backend is open,
\* whatever the order of Close, Accept, wg.Add and the handlers' deferred calls.
BackendOutlivesHandlers ==
    (\E c \in Clients : handler[c] \in Running \cup {"accepted"}) => backend = "open"

\* When Close has returned on a server that had been started, nothing of it
\* is left: no goroutine, no leased driver connection, no advisory lock.
CloseIsFinal ==
    (closer = "finished" /\ listener = "closed") =>
        /\ backend = "closed" /\ keepConn = NoConn
        /\ acceptor = "returned" /\ wg = 0
        /\ \A c \in Clients : handler[c] = "absent" /\ conn[c] = NoConn
        /\ \A n \in LockNames : locks[n] = NoOwner

\* An advisory lock never outlives its session: its owner is the id of exactly
\* one client, whose handler has not run releaseAdvisoryLocks yet.
LockOwnerServing ==
    \A n \in LockNames : locks[n] # NoOwner =>
        \E c \in Clients :
            /\ id[c] = locks[n] /\ handler[c] \in {"serving", "unlocking"}
            /\ \A d \in Clients \ {c} : id[d] # locks[n]

\* Close returns unless a client stays connected: it waits for sessions and
\* does not end them.
CloseReturns ==
    closer = "waiting" ~>
        (closer = "finished" \/ \E c \in Clients : handler[c] = "serving" /\ peer[c])

\* A client that waits for the pool is served, or every driver connection
\* but the server's own is in the hands of a session whose client is still
\* there; a failed initialization or an ended session loses no connection.
WaitingMeansBusy ==
    \A c \in Clients :
        handler[c] = "checkout" ~>
            \/ handler[c] # "checkout"
            \/ \A k \in DriverConns \ {keepConn} :
                  \E d \in Clients : conn[d] = k /\ handler[d] = "serving" /\ peer[d]

\* The handlers use the pool as ConnectionLease says.
Lease == INSTANCE ConnectionLease WITH
            lease <- {p \in Clients \X DriverConns : conn[p[1]] = p[2]}

ImplementsLease == Lease!LeaseSpec
=============================================================================
