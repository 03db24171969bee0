------------------------------- MODULE Service -------------------------------
(***************************************************************************)
(* Who keeps whom alive: the service object (src/reportd-service.c), the   *)
(* task objects it makes, the watchers of the clients it makes them for,   *)
(* and the daemon (src/reportd-daemon.c, src/reportd-main.c), from main to *)
(* its end.                                                                *)
(*                                                                         *)
(* References.  The object manager holds each exported task, and nothing   *)
(* else does: the table of tasks and the GTask of a worker only point to   *)
(* it.  The daemon, the object manager and every watcher hold the service; *)
(* main, the service and every task hold the daemon.  The workflows belong *)
(* to the service, and a task only points to its own.                      *)
(*                                                                         *)
(* A worker is seen here as three stretches: it reads the workflow, it     *)
(* works (ReportdTask), and it waits for its callback.  One at a time runs *)
(* for a task.  Calls of different senders are dispatched in any order.    *)
(***************************************************************************)
EXTENDS Naturals

CONSTANTS
  Clients,    \* the D-Bus clients, each with a unique name of its own
  Tasks,      \* the task objects that may be created, one for a CreateTask
  NULL        \* no client

ASSUME ServiceAssumption == NULL \notin Clients

VARIABLES
  connected,  \* the clients that are on the bus
  owner,      \* owner[k]: the client that has called CreateTask for task k
  calls,      \* the CreateTask calls that were not handled yet
  exported,   \* the tasks in the object manager; a task that is not is freed
  tasks,      \* tasks[c]: the array in the service's table, {} if there is none
  watchers,   \* the CreateTask calls whose bus name watcher is still there
  worker,     \* worker[k]: where task k's thread is
  holders,    \* who else holds the service: the daemon, the object manager
  loop,       \* what main is doing
  pending,    \* reasons to quit that were not dispatched yet
  main,       \* is the main thread idle, or waiting for ABRT?
  fault       \* who followed a pointer to something freed

vars == <<connected, owner, calls, exported, tasks, watchers, worker, holders, loop,
          pending, main, fault>>
bus == <<connected, owner>>
table == <<exported, tasks, watchers>>
life == <<holders, loop, pending>>

Reasons == {"signal", "name lost"}
Working == {"begin", "work", "returned"}

(* The types; a call is answered once it was handled, and only then is      *)
(* there anything of its task.                                              *)
TypeOK ==
  /\ connected \subseteq Clients
  /\ owner \in [Tasks -> Clients \cup {NULL}]
  /\ calls \subseteq {k \in Tasks : owner[k] # NULL}
  /\ exported \subseteq {k \in Tasks : owner[k] # NULL} \ calls
  /\ tasks \in [Clients -> SUBSET Tasks]
  /\ watchers \subseteq {k \in Tasks : owner[k] # NULL} \ calls
  /\ worker \in [Tasks -> Working \cup {"none"}]
  /\ holders \subseteq {"daemon", "manager"}
  /\ loop \in {"starting", "running", "quitting", "over", "gone"}
  /\ pending \subseteq Reasons
  /\ main \in {"idle", "pulling"}
  /\ fault \in {"none", "worker", "callback", "quit"}

Init ==
  /\ connected = Clients
  /\ owner = [k \in Tasks |-> NULL]
  /\ calls = {} /\ exported = {} /\ watchers = {}
  /\ tasks = [c \in Clients |-> {}]
  /\ worker = [k \in Tasks |-> "none"]
  /\ holders = {}
  /\ loop = "starting"
  /\ pending = {}
  /\ main = "idle"
  /\ fault = "none"

\* Mutant: a watcher does not take a reference.
HeldWithoutWatchers == holders # {}

\* The service is allocated, and with it the workflows.
ServiceHeld == holders # {} \/ watchers # {}

\* The daemon is allocated, and with it the object manager.
DaemonHeld == loop # "gone" \/ ServiceHeld \/ exported # {}

-----------------------------------------------------------------------------
(* The clients, and what may happen to the daemon.                          *)

SendCreateTask(c, k) ==
  /\ fault = "none"
  /\ loop = "running"
  /\ c \in connected /\ owner[k] = NULL
  /\ owner' = [owner EXCEPT ![k] = c]
  /\ calls' = calls \cup {k}
  /\ UNCHANGED <<connected, table, worker, life, main, fault>>

Disconnect(c) ==
  /\ fault = "none"
  /\ c \in connected
  /\ connected' = connected \ {c}
  /\ UNCHANGED <<owner, calls, table, worker, life, main, fault>>

(* A signal may come before the main loop runs; the name is lost, or never  *)
(* acquired, after it was asked for.                                        *)
Request(reason) ==
  /\ fault = "none"
  /\ loop \in {"running", "quitting"} \/ (loop = "starting" /\ reason # "name lost")
  /\ pending' = pending \cup {reason}
  /\ UNCHANGED <<bus, calls, table, worker, holders, loop, main, fault>>

-----------------------------------------------------------------------------
(* main, reportd_daemon_run and reportd_daemon_quit.                        *)

(* reportd_daemon_connect_to_bus: on an error nothing was exported.         *)
Connect ==
  /\ fault = "none" /\ loop = "starting"
  /\ \/ loop' = "running" /\ holders' = {"daemon", "manager"}
     \/ loop' = "over" /\ UNCHANGED holders
  /\ UNCHANGED <<bus, calls, table, worker, pending, main, fault>>

\* A source that is ready is dispatched, also in the loop's last iteration.
Dispatching == fault = "none" /\ loop \in {"running", "quitting"} /\ main = "idle"

\* Mutant: the loop is not asked whether it runs.
QuitTwice(reason) ==
  /\ Dispatching
  /\ reason \in pending /\ pending' = pending \ {reason}
  /\ \/ /\ holders # {} /\ holders' = {} /\ loop' = "quitting" /\ UNCHANGED fault
     \/ /\ holders = {} /\ fault' = "quit" /\ UNCHANGED <<holders, loop>>
  /\ UNCHANGED <<bus, calls, table, worker, main>>

\* Mutant: the service is unexported, and the daemon keeps its reference.
QuitKeepsService(reason) ==
  /\ Dispatching
  /\ reason \in pending /\ pending' = pending \ {reason}
  /\ \/ /\ loop = "running"
        /\ holders' = holders \ {"manager"}
        /\ loop' = "quitting"
     \/ loop = "quitting" /\ UNCHANGED <<holders, loop>>
  /\ UNCHANGED <<bus, calls, table, worker, main, fault>>

(* reportd_daemon_quit, called by on_signal_quit and by on_name_lost: the   *)
(* service is unexported and let go; a second call finds the loop stopped.  *)
Quit(reason) ==
  /\ Dispatching
  /\ reason \in pending /\ pending' = pending \ {reason}
  /\ \/ loop = "running" /\ holders' = {} /\ loop' = "quitting"
     \/ loop = "quitting" /\ UNCHANGED <<holders, loop>>
  /\ UNCHANGED <<bus, calls, table, worker, main, fault>>

LoopEnds ==
  /\ fault = "none" /\ loop = "quitting" /\ main = "idle"
  /\ loop' = "over"
  /\ UNCHANGED <<bus, calls, table, worker, holders, pending, main, fault>>

(* main returns, and its own reference to the daemon is dropped.            *)
MainReturns ==
  /\ fault = "none" /\ loop = "over"
  /\ loop' = "gone"
  /\ UNCHANGED <<bus, calls, table, worker, holders, pending, main, fault>>

-----------------------------------------------------------------------------
(* The service's handlers and the task's, on the main thread.               *)

\* Mutant: every call gives its client a new array.
HandleCreateTaskReplaces(k) ==
  /\ Dispatching /\ k \in calls
  /\ calls' = calls \ {k}
  /\ exported' = exported \cup {k}
  /\ tasks' = [tasks EXCEPT ![owner[k]] = {k}]
  /\ watchers' = watchers \cup {k}
  /\ UNCHANGED <<bus, worker, life, main, fault>>

(* reportd_service_handle_create_task: a task is made and exports itself,   *)
(* the client is watched for this call, and the array gets a pointer.  The  *)
(* workflow may be unknown, and the service may not be there any more.      *)
HandleCreateTask(k) ==
  /\ Dispatching
  /\ k \in calls /\ calls' = calls \ {k}
  /\ \/ /\ "manager" \in holders
        /\ exported' = exported \cup {k}
        /\ tasks' = [tasks EXCEPT ![owner[k]] = @ \cup {k}]
        /\ watchers' = watchers \cup {k}
     \/ UNCHANGED table
  /\ UNCHANGED <<bus, worker, life, main, fault>>

(* reportd_service_handle_get_workflows pulls the directory in the main     *)
(* thread, which dispatches nothing until ABRT has answered.                *)
HandleGetWorkflows ==
  /\ Dispatching
  /\ "manager" \in holders
  /\ main' = "pulling"
  /\ UNCHANGED <<bus, calls, table, worker, life, fault>>

PullEnds ==
  /\ fault = "none" /\ main = "pulling"
  /\ main' = "idle"
  /\ UNCHANGED <<bus, calls, table, worker, life, fault>>

\* Mutant: the table's entry is left there.
NameVanishedKeepsArray(k) ==
  /\ Dispatching
  /\ k \in watchers /\ owner[k] \notin connected
  /\ exported' = exported \ tasks[owner[k]]
  /\ watchers' = watchers \ {k}
  /\ UNCHANGED <<bus, calls, tasks, worker, life, main, fault>>

\* Mutant: the table's entry is removed and its tasks stay exported.
NameVanishedLeaks(k) ==
  /\ Dispatching
  /\ k \in watchers /\ owner[k] \notin connected
  /\ tasks' = [tasks EXCEPT ![owner[k]] = {}]
  /\ watchers' = watchers \ {k}
  /\ UNCHANGED <<bus, calls, exported, worker, life, main, fault>>

(* reportd_service_on_name_vanished, once for each watcher: the first one   *)
(* finds the client's tasks and unexports them, which frees them; each one  *)
(* lets the service go.                                                     *)
OnNameVanished(k) ==
  /\ Dispatching
  /\ k \in watchers /\ owner[k] \notin connected
  /\ exported' = exported \ tasks[owner[k]]
  /\ tasks' = [tasks EXCEPT ![owner[k]] = {}]
  /\ watchers' = watchers \ {k}
  /\ UNCHANGED <<bus, calls, worker, life, main, fault>>

(* Start reaches a task that is exported.                                   *)
HandleStart(k) ==
  /\ Dispatching
  /\ k \in exported /\ worker[k] = "none"
  /\ worker' = [worker EXCEPT ![k] = "begin"]
  /\ UNCHANGED <<bus, calls, table, life, main, fault>>

(* reportd_task_on_finished names the task in its message.                  *)
OnFinished(k) ==
  /\ Dispatching
  /\ worker[k] = "returned"
  /\ \/ k \in exported /\ worker' = [worker EXCEPT ![k] = "none"] /\ UNCHANGED fault
     \/ k \notin exported /\ fault' = "callback" /\ UNCHANGED worker
  /\ UNCHANGED <<bus, calls, table, life, main>>

-----------------------------------------------------------------------------
(* The worker threads, until the process has ended.                         *)

(* The workflow's name, and after the pull its events, are read.            *)
ReadWorkflow(k) ==
  /\ fault = "none" /\ worker[k] = "begin"
  /\ k \in exported /\ ServiceHeld
  /\ worker' = [worker EXCEPT ![k] = "work"]
  /\ UNCHANGED <<bus, calls, table, life, main, fault>>

WorkEnds(k) ==
  /\ fault = "none" /\ worker[k] = "work"
  /\ k \in exported
  /\ worker' = [worker EXCEPT ![k] = "returned"]
  /\ UNCHANGED <<bus, calls, table, life, main, fault>>

(* The task, or its workflow, is used when it was freed.                    *)
WorkerFault(k) ==
  /\ fault = "none" /\ worker[k] \in {"begin", "work"}
  /\ k \notin exported \/ (worker[k] = "begin" /\ ~ServiceHeld)
  /\ fault' = "worker"
  /\ UNCHANGED <<bus, calls, table, worker, life, main>>

BusStep ==
  \/ \E c \in Clients : Disconnect(c) \/ \E k \in Tasks : SendCreateTask(c, k)
  \/ \E reason \in Reasons : Request(reason)

LoopStep ==
  \/ Connect \/ LoopEnds \/ MainReturns
  \/ \E reason \in Reasons : Quit(reason)

HandlerStep(k) ==
  HandleCreateTask(k) \/ OnNameVanished(k) \/ HandleStart(k) \/ OnFinished(k)

WorkerStep(k) == ReadWorkflow(k) \/ WorkEnds(k) \/ WorkerFault(k)

Next ==
  \/ BusStep \/ LoopStep \/ HandleGetWorkflows \/ PullEnds
  \/ \E k \in Tasks : HandlerStep(k) \/ WorkerStep(k)

Spec == Init /\ [][Next]_vars

(* The main loop dispatches every source that stays ready, however often it *)
(* is held up by a pull, which ends (DirectoryPull, PullReturns).  No       *)
(* client has to call or to go, and no signal to come.                      *)
FairSpec ==
  /\ Spec
  /\ WF_vars(Connect) /\ WF_vars(PullEnds) /\ SF_vars(LoopEnds) /\ WF_vars(MainReturns)
  /\ \A reason \in Reasons : SF_vars(Quit(reason))
  /\ \A k \in Tasks : SF_vars(HandleCreateTask(k)) /\ SF_vars(OnNameVanished(k))

-----------------------------------------------------------------------------
(* Safety.                                                                  *)

(* The service's table holds tasks without a reference to them, and is      *)
(* never left with a pointer to one that was freed.                         *)
TablePointsToTasks == \A c \in Clients : tasks[c] \subseteq exported

(* As long as its client is there, a worker finds its task and the workflow *)
(* of its task, even while and after the daemon quits: nothing but the      *)
(* client's watchers keeps the service, and so the workflows, until then.   *)
(* Once the client has gone both may be freed under it (line 130).          *)
WorkersAreSafe ==
  \A k \in Tasks :
    worker[k] # "none" /\ owner[k] \in connected => k \in exported /\ ServiceHeld

(* Quitting breaks the cycle of references between daemon and service       *)
(* (comment in reportd_daemon_quit), if no task and no watcher is left that *)
(* takes part in it.                                                        *)
LeavesNothingBehind ==
  loop = "gone" /\ exported = {} /\ watchers = {} => ~DaemonHeld

-----------------------------------------------------------------------------
(* The clients' view of their tasks.                                        *)

Lifetimes == INSTANCE TaskLifetimes

(* Whatever goes on between the calls, the watchers and the end of the      *)
(* daemon, a call makes one task at most, and a task goes together with all *)
(* the others of its client, after that client, and with nobody else's      *)
(* (lines 118-128 and 185-193).                                             *)
ImplementsLifetimes == Lifetimes!Spec

-----------------------------------------------------------------------------
(* Liveness.                                                                *)

(* A client that has gone leaves no task on the bus, also if it goes while  *)
(* some of its calls are still to be handled.                               *)
VanishedIsForgotten ==
  \A c \in Clients :
    c \notin connected ~>
      \/ \A k \in exported : owner[k] # c
      \/ loop \in {"quitting", "over", "gone"} \/ fault # "none"

(* A reason to quit ends the daemon, also a signal that comes before there  *)
(* is a loop to stop, and one that comes on top of another; only a task     *)
(* that was freed under its worker may be in the way.                       *)
QuitEnds == pending # {} ~> loop = "gone" \/ fault \in {"worker", "callback"}
==============================================================================
