---------------------------- MODULE PoolService -----------------------------
(* Pool implements LeaseService: the refinement mapping. *)
EXTENDS Pool

\* A lease is revoked when a shutdown took the connection out of the pool; an
\* attempt is doomed when its reservation or candidate predates a shutdown.
ClientOf(t) ==
  CASE pc[t] = "using" /\ mine[t] \subseteq acquired -> "leased"
    [] pc[t] = "using" /\ ~(mine[t] \subseteq acquired) -> "revoked"
    [] pc[t] \in {"creating", "pinging"} /\ ticket[t] # generation -> "doomed"
    [] pc[t] \in {"creating", "pinging"} /\ ticket[t] = generation -> "asking"
    [] pc[t] = "refusing" -> "doomed"
    [] pc[t] \in {"queued", "ready", "waiting", "skipping"} -> "asking"
    [] OTHER -> "idle"

LeaseOf(t) == IF pc[t] = "using" THEN mine[t] ELSE {}

LifecycleOf ==
  CASE closed -> "closed" [] opened /\ ~closed -> "opened" [] OTHER -> "created"

Service == INSTANCE LeaseService WITH
  Clients   <- Tasks,
  Capacity  <- MaxSize,
  client    <- [t \in Tasks |-> ClientOf(t)],
  lease     <- [t \in Tasks |-> LeaseOf(t)],
  lifecycle <- LifecycleOf

\* The pool with all its interleavings behaves like the lease service: leases
\* are exclusive and bounded, no attempt that a shutdown overtook is granted,
\* and a closed pool grants nothing.
ImplementsService == Service!Spec
=============================================================================
