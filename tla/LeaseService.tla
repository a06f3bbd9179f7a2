---------------------------- MODULE LeaseService ----------------------------
(***************************************************************************)
(* What the connection pool promises to those who use it, without peers,   *)
(* slots, queues, actors or timers: connections are opened, leased while   *)
(* they are open, and closed by the pool only when nobody leases them; the *)
(* network may end one at any time, and none comes back.  ConnectionPool   *)
(* implements this specification.                                          *)
(***************************************************************************)
EXTENDS Naturals

CONSTANTS
  Clients,      \* who leases: owners of ConnectionRefs
  Connections   \* generations: positive numbers

VARIABLES
  state,  \* of each connection
  lease   \* the connection each client leases, 0 if none

vars == <<state, lease>>

States == {"none", "open", "lost", "closed"}

Init == state = [g \in Connections |-> "none"] /\ lease = [c \in Clients |-> 0]

Becomes(g, before, after) == state[g] = before /\ state' = [state EXCEPT ![g] = after]

Open(g) == Becomes(g, "none", "open") /\ UNCHANGED lease

Lose(g) == Becomes(g, "open", "lost") /\ UNCHANGED lease

\* The promise: only a connection that nobody leases is closed.
Close(g) ==
  /\ \A c \in Clients : lease[c] # g
  /\ Becomes(g, "open", "closed") /\ UNCHANGED lease

Lease(c, g) ==
  /\ lease[c] = 0 /\ state[g] = "open"
  /\ lease' = [lease EXCEPT ![c] = g] /\ UNCHANGED state

Return(c) ==
  /\ lease[c] # 0 /\ lease' = [lease EXCEPT ![c] = 0] /\ UNCHANGED state

Next ==
  \/ \E g \in Connections : \/ Open(g) \/ Lose(g) \/ Close(g)
                            \/ \E c \in Clients : Lease(c, g)
  \/ \E c \in Clients : Return(c)

Spec == Init /\ [][Next]_vars
=============================================================================
