---------------------------- MODULE MCNodeJoin ----------------------------
(* The circumstances in which TLC looks at NodeJoin. *)
EXTENDS NodeJoin

\* Commands come through the tunnel; datagrams may be lost, saves fail, the
\* server restart and be silent.
Orderly == [console |-> FALSE, kinds |-> {"lose", "restart", "outage", "save"}]

\* The console approves, and every kind of fault happens.
Adverse == [console |-> TRUE, kinds |-> FaultKind]

Both == {Orderly, Adverse}

\* One answer takes longer than the timeout.
LateOnly == {[console |-> FALSE, kinds |-> {"late"}]}
=============================================================================
