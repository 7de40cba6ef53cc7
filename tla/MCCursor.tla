------------------------------- MODULE MCCursor -------------------------------
(* A small instance of Cursor for TLC. *)
EXTENDS Cursor

\* What the task's last call has left in Session's variables, and what was not
\* read of a socket that is gone, is not looked at before it is overwritten.
Unread(s) == socket = s \/ (At \in Waits /\ on[Me] = s)

View ==
  << calls_, wrapper, history, client, At, stream, link, sent, serving, queries,
     [s \in Sockets |-> IF Unread(s) THEN wire[s] ELSE <<>>],
     IF At = "idle" THEN <<>> ELSE <<call, on>>,
     IF At = "idle" /\ ~executing THEN <<>> ELSE query >>
=============================================================================
