---------------------------- MODULE TaskLifetimes ----------------------------
(***************************************************************************)
(* What the service promises about the task objects it makes for clients:  *)
(* a CreateTask call is answered once, with a task or without one, and a   *)
(* task stays until the client that asked for it has left the bus.  Then   *)
(* all of this client's tasks go at once, and nobody else's.  The calls a  *)
(* client has left behind may still be answered, and make tasks that go    *)
(* later.  The table of arrays, the watchers and the references of Service *)
(* are the means, and are not seen here.                                   *)
(***************************************************************************)

CONSTANTS
  Clients,    \* the D-Bus clients
  Tasks,      \* the tasks that may be asked for
  NULL        \* no client

VARIABLES
  connected,  \* the clients that are on the bus
  owner,      \* owner[k]: the client that has asked for task k
  calls,      \* the tasks that were asked for and not answered yet
  exported    \* the tasks there are

lifeVars == <<connected, owner, calls, exported>>

Init ==
  /\ connected = Clients
  /\ owner = [k \in Tasks |-> NULL]
  /\ calls = {}
  /\ exported = {}

Ask(c, k) ==
  /\ c \in connected /\ owner[k] = NULL
  /\ owner' = [owner EXCEPT ![k] = c]
  /\ calls' = calls \cup {k}
  /\ UNCHANGED <<connected, exported>>

Answer(k) ==
  /\ k \in calls
  /\ calls' = calls \ {k}
  /\ exported' \in {exported, exported \cup {k}}
  /\ UNCHANGED <<connected, owner>>

Leave(c) ==
  /\ c \in connected
  /\ connected' = connected \ {c}
  /\ UNCHANGED <<owner, calls, exported>>

Forget(c) ==
  /\ c \notin connected
  /\ exported' = {k \in exported : owner[k] # c}
  /\ UNCHANGED <<connected, owner, calls>>

Next ==
  \/ \E c \in Clients : Leave(c) \/ Forget(c) \/ \E k \in Tasks : Ask(c, k)
  \/ \E k \in Tasks : Answer(k)

Spec == Init /\ [][Next]_lifeVars
==============================================================================
