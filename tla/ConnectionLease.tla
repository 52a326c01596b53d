-------------------------- MODULE ConnectionLease --------------------------
(***************************************************************************)
(* What the rest of mysqlmock may assume about SQLite connections: a       *)
(* driver connection is leased to at most one client handler at a time, a  *)
(* handler leases at most one, and the lease lasts until the handler gives *)
(* it back.  ServerLifecycle implements this module with Server.Start,     *)
(* acceptLoop, handleNetConn and Close; Session is built on it.            *)
(***************************************************************************)
CONSTANTS
    Clients,      \* MySQL clients, each served by one handler goroutine
    DriverConns   \* driver connections the database/sql pool may open

VARIABLE lease    \* the set of pairs <<client, driver connection>>

LeaseTypeOK == lease \in SUBSET (Clients \X DriverConns)

LeaseInit == lease = {}

Leased(k) == \E c \in Clients : <<c, k>> \in lease
Leasing(c) == \E k \in DriverConns : <<c, k>> \in lease

\* s.db.Conn hands a free driver connection to a handler that has none.
Grant(c, k) ==
    /\ ~Leased(k)
    /\ ~Leasing(c)
    /\ lease' = lease \cup {<<c, k>>}

\* sqliteConn.Close returns the driver connection to the pool.
GiveBack(c, k) ==
    /\ <<c, k>> \in lease
    /\ lease' = lease \ {<<c, k>>}

LeaseNext ==
    \E c \in Clients, k \in DriverConns : Grant(c, k) \/ GiveBack(c, k)

LeaseSpec == LeaseInit /\ [][LeaseNext]_lease
=============================================================================
