---------------------------- MODULE LeaseService ----------------------------
(***************************************************************************)
(* What asynch.pool.Pool promises its users, without deque, slots,         *)
(* generations or network calls: a client asks for a connection and is     *)
(* granted one that nobody else holds, is denied, or goes on asking.       *)
(* A shutdown revokes what is leased and dooms the attempts in flight: a   *)
(* doomed attempt is never granted, whatever lifecycle calls follow.       *)
(***************************************************************************)
EXTENDS Naturals, FiniteSets

CONSTANTS Clients, Conns, Capacity

VARIABLES
  client,    \* what each client is doing
  lease,     \* the connection a client holds: {} or a singleton
  lifecycle  \* the status of the pool

vars == <<client, lease, lifecycle>>

Holding == {t \in Clients : client[t] = "leased"}

Init ==
  /\ client = [t \in Clients |-> "idle"]
  /\ lease = [t \in Clients |-> {}]
  /\ lifecycle = "created"

Ask(t) ==
  /\ client[t] = "idle"
  /\ client' = [client EXCEPT ![t] = "asking"]
  /\ UNCHANGED <<lease, lifecycle>>

\* Only an open or not yet started service grants, never beyond its capacity
\* and never a connection that a client still holds, revoked or not.
Grant(t) ==
  /\ client[t] \in {"idle", "asking"}
  /\ lifecycle # "closed"
  /\ Cardinality(Holding) < Capacity
  /\ \E c \in Conns \ UNION {lease[u] : u \in Clients} :
       lease' = [lease EXCEPT ![t] = {c}]
  /\ client' = [client EXCEPT ![t] = "leased"]
  /\ UNCHANGED lifecycle

\* The client gets an error or gives up.
Deny(t) ==
  /\ client[t] \in {"asking", "doomed"}
  /\ client' = [client EXCEPT ![t] = "idle"]
  /\ UNCHANGED <<lease, lifecycle>>

\* A doomed attempt that failed by itself starts over.
Retry(t) ==
  /\ client[t] = "doomed"
  /\ client' = [client EXCEPT ![t] = "asking"]
  /\ UNCHANGED <<lease, lifecycle>>

Return(t) ==
  /\ client[t] \in {"leased", "revoked"}
  /\ client' = [client EXCEPT ![t] = "idle"]
  /\ lease' = [lease EXCEPT ![t] = {}]
  /\ UNCHANGED lifecycle

Open ==
  /\ lifecycle' = "opened"
  /\ UNCHANGED <<client, lease>>

\* A startup takes the pool out of the closed state before it has succeeded.
Reset ==
  /\ lifecycle = "closed"
  /\ lifecycle' = "created"
  /\ UNCHANGED <<client, lease>>

\* Attempts that already reserved something are doomed, queued ones go on.
Shutdown ==
  /\ \E attempts \in SUBSET {t \in Clients : client[t] = "asking"} :
       client' = [t \in Clients |->
                    IF client[t] = "leased" THEN "revoked"
                    ELSE IF t \in attempts THEN "doomed"
                    ELSE client[t]]
  /\ lifecycle' = "closed"
  /\ UNCHANGED lease

Next ==
  \/ \E t \in Clients : Ask(t) \/ Grant(t) \/ Deny(t) \/ Retry(t) \/ Return(t)
  \/ Open \/ Reset \/ Shutdown

Spec == Init /\ [][Next]_vars
=============================================================================
