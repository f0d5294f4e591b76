--------------------------- MODULE MCNegotiation ----------------------------
(* Small instances of Negotiation for TLC.                                 *)
EXTENDS Negotiation

P(kind) == [kind |-> kind, approval |-> FALSE, files |-> {}]

\* Both queue: a deadlock, so the user is asked.  Both own, or one of each:
\* decided without the user.
QueueAndOwn == {P("QUEUE_TASK"), P("CO_OWN")}
=============================================================================
