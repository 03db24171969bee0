------------------------------ MODULE MCService ------------------------------
(* Two clients and two tasks: one client may have two calls, two tasks and   *)
(* two watchers, or each client a task that the other's end must not touch.  *)
EXTENDS Service

CONSTANTS c1, c2, k1, k2

MCClients == {c1, c2}
MCTasks == {k1, k2}
==============================================================================
