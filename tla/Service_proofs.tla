---------------------------- MODULE Service_proofs ----------------------------
(***************************************************************************)
(* Proofs about Service, for any number of clients and tasks.  The         *)
(* argument: a task is exported exactly as long as its client's array has  *)
(* it, it has a watcher as long as its client is there, and a watcher      *)
(* holds the service.                                                      *)
(***************************************************************************)
EXTENDS Service, TLAPS

USE ServiceAssumption

-----------------------------------------------------------------------------
(* The inductive invariant.                                                 *)

\* A client's array has this client's tasks, and all that are exported.
ArraysInv ==
  /\ \A c \in Clients : \A k \in tasks[c] : owner[k] = c
  /\ \A c \in Clients : tasks[c] \subseteq exported
  /\ \A k \in exported : k \in tasks[owner[k]]

\* A task is watched for as long as it is there, even when its client is not.
WatchInv == exported \subseteq watchers

\* A thread was started for a task that was exported, and so made by a call.
WorkerInv ==
  \A k \in Tasks : worker[k] # "none" =>
    /\ owner[k] # NULL
    /\ owner[k] \in connected => k \in exported

\* Only a loop that runs has the service in its own hands.
LoopInv == loop # "running" => holders = {}

IInv == TypeOK /\ ArraysInv /\ WatchInv /\ WorkerInv /\ LoopInv

(* The invariant holds of a daemon that was just started.                   *)
LEMMA InitInv == Init => IInv
  BY DEF Init, IInv, TypeOK, ArraysInv, WatchInv, WorkerInv, LoopInv, Working

(* What clients and signals do keeps the invariant: a task that is asked    *)
(* for has neither a thread nor a watcher yet.                              *)
LEMMA BusStepInv == IInv /\ BusStep => IInv'
<1> SUFFICES ASSUME IInv, BusStep PROVE IInv'
  OBVIOUS
<1> USE DEF IInv, table, life
<1>1. ASSUME NEW c \in Clients, Disconnect(c) PROVE IInv'
  BY <1>1 DEF Disconnect, TypeOK, ArraysInv, WatchInv, WorkerInv, LoopInv
<1>2. ASSUME NEW c \in Clients, NEW k \in Tasks, SendCreateTask(c, k) PROVE IInv'
  <2>1. TypeOK'
    BY <1>2 DEF SendCreateTask, TypeOK
  <2>2. k \notin exported /\ worker[k] = "none" /\ \A d \in Clients : k \notin tasks[d]
    BY <1>2 DEF SendCreateTask, TypeOK, ArraysInv, WorkerInv
  <2>3. ArraysInv' /\ WatchInv' /\ WorkerInv' /\ LoopInv'
    BY <1>2, <2>2 DEF SendCreateTask, TypeOK, ArraysInv, WatchInv, WorkerInv, LoopInv
  <2> QED  BY <2>1, <2>3
<1>3. ASSUME NEW reason \in Reasons, Request(reason) PROVE IInv'
  BY <1>3 DEF Request, bus, TypeOK, ArraysInv, WatchInv, WorkerInv, LoopInv
<1> QED  BY <1>1, <1>2, <1>3 DEF BusStep

(* Connecting, quitting and ending only touch who holds the service.        *)
LEMMA LoopStepInv == IInv /\ LoopStep => IInv'
<1> SUFFICES ASSUME IInv, LoopStep PROVE IInv'
  OBVIOUS
<1>1. UNCHANGED <<bus, calls, table, worker>>
  BY DEF LoopStep, Connect, LoopEnds, MainReturns, Quit
<1>2. TypeOK' /\ LoopInv'
  BY DEF LoopStep, Connect, LoopEnds, MainReturns, Quit, IInv, TypeOK, LoopInv,
         bus, table, Reasons
<1> QED
  BY <1>1, <1>2 DEF IInv, bus, table, ArraysInv, WatchInv, WorkerInv

(* The handlers: a task is exported, watched and put into the array in one  *)
(* step, and all of a client's tasks leave the bus and the table in one.    *)
LEMMA HandlerStepInv == \A k \in Tasks : IInv /\ HandlerStep(k) => IInv'
<1> SUFFICES ASSUME NEW k \in Tasks, IInv, HandlerStep(k) PROVE IInv'
  OBVIOUS
<1> USE DEF IInv, bus, life
<1>1. CASE HandleCreateTask(k)
  <2>1. owner[k] \in Clients
    BY <1>1 DEF HandleCreateTask, TypeOK
  <2>2. CASE UNCHANGED table
    BY <1>1, <2>2 DEF HandleCreateTask, table, TypeOK, ArraysInv, WatchInv, WorkerInv,
                      LoopInv
  <2>3. CASE /\ exported' = exported \cup {k}
             /\ tasks' = [tasks EXCEPT ![owner[k]] = @ \cup {k}]
             /\ watchers' = watchers \cup {k}
    <3>1. \A c \in Clients : tasks'[c] = IF c = owner[k] THEN tasks[c] \cup {k} ELSE tasks[c]
      BY <2>3, <2>1 DEF TypeOK
    <3>2. TypeOK'
      BY <1>1, <2>1, <2>3 DEF HandleCreateTask, TypeOK
    <3>3. ArraysInv'
      BY <1>1, <2>1, <2>3, <3>1 DEF HandleCreateTask, ArraysInv, TypeOK
    <3>4. WatchInv' /\ WorkerInv' /\ LoopInv'
      BY <1>1, <2>3 DEF HandleCreateTask, TypeOK, WatchInv, WorkerInv, LoopInv
    <3> QED  BY <3>2, <3>3, <3>4
  <2> QED  BY <1>1, <2>2, <2>3 DEF HandleCreateTask
<1>2. CASE OnNameVanished(k)
  <2>1. owner[k] \in Clients \ connected
    BY <1>2 DEF OnNameVanished, TypeOK
  <2>2. \A c \in Clients : tasks'[c] = IF c = owner[k] THEN {} ELSE tasks[c]
    BY <1>2, <2>1 DEF OnNameVanished, TypeOK
  <2>3. TypeOK'
    BY <1>2, <2>1 DEF OnNameVanished, TypeOK
  <2>4. ArraysInv'
    BY <1>2, <2>1, <2>2 DEF OnNameVanished, ArraysInv, TypeOK
  <2>5. WatchInv' /\ WorkerInv' /\ LoopInv'
    BY <1>2, <2>1 DEF OnNameVanished, TypeOK, ArraysInv, WatchInv, WorkerInv, LoopInv
  <2> QED  BY <2>3, <2>4, <2>5
<1>3. CASE HandleStart(k)
  BY <1>3 DEF HandleStart, table, Working, TypeOK, ArraysInv, WatchInv, WorkerInv, LoopInv
<1>4. CASE OnFinished(k)
  BY <1>4 DEF OnFinished, table, Working, TypeOK, ArraysInv, WatchInv, WorkerInv, LoopInv
<1> QED  BY <1>1, <1>2, <1>3, <1>4 DEF HandlerStep

(* A worker changes nothing that is counted.                                *)
LEMMA WorkerStepInv == \A k \in Tasks : IInv /\ WorkerStep(k) => IInv'
<1> SUFFICES ASSUME NEW k \in Tasks, IInv, WorkerStep(k) PROVE IInv'
  OBVIOUS
<1>1. UNCHANGED <<bus, calls, table, life, main>>
  BY DEF WorkerStep, ReadWorkflow, WorkEnds, WorkerFault
<1>2. TypeOK'
  BY <1>1 DEF WorkerStep, ReadWorkflow, WorkEnds, WorkerFault, bus, table, life, Working,
              IInv, TypeOK
<1>3. WorkerInv'
  BY <1>1 DEF WorkerStep, ReadWorkflow, WorkEnds, WorkerFault, bus, table,
              IInv, TypeOK, WorkerInv
<1> QED
  BY <1>1, <1>2, <1>3 DEF IInv, bus, table, life, ArraysInv, WatchInv, LoopInv

(* Every step keeps the invariant.                                          *)
LEMMA NextInv == IInv /\ [Next]_vars => IInv'
<1> SUFFICES ASSUME IInv, [Next]_vars PROVE IInv'
  OBVIOUS
<1>1. CASE HandleGetWorkflows \/ PullEnds
  BY <1>1 DEF HandleGetWorkflows, PullEnds, bus, table, life,
              IInv, TypeOK, ArraysInv, WatchInv, WorkerInv, LoopInv
<1>2. CASE UNCHANGED vars
  BY <1>2 DEF vars, IInv, TypeOK, ArraysInv, WatchInv, WorkerInv, LoopInv
<1> QED
  BY <1>1, <1>2, BusStepInv, LoopStepInv, HandlerStepInv, WorkerStepInv DEF Next

(* The invariant holds throughout.                                          *)
THEOREM Invariance == Spec => []IInv
  BY InitInv, NextInv, PTL DEF Spec

-----------------------------------------------------------------------------

(* The variables keep their types.                                          *)
THEOREM Typing == Spec => []TypeOK
<1>1. IInv => TypeOK
  BY DEF IInv
<1> QED  BY <1>1, Invariance, PTL

(* The table of tasks never points to a task that was freed.                *)
THEOREM TableIsSound == Spec => []TablePointsToTasks
<1>1. IInv => TablePointsToTasks
  BY DEF IInv, ArraysInv, TablePointsToTasks
<1> QED  BY <1>1, Invariance, PTL

(* A worker whose client is there has its task, and its task's workflow:    *)
(* the task has a watcher, and the watcher holds the service.               *)
THEOREM WorkersKeepTheirTask == Spec => []WorkersAreSafe
<1>1. IInv => WorkersAreSafe
  BY DEF IInv, TypeOK, WatchInv, WorkerInv, WorkersAreSafe, ServiceHeld
<1> QED  BY <1>1, Invariance, PTL

(* When the last task and the last watcher have gone after main's return,   *)
(* nothing holds the daemon.                                                *)
THEOREM NothingIsLeft == Spec => []LeavesNothingBehind
<1>1. IInv => LeavesNothingBehind
  BY DEF IInv, LoopInv, LeavesNothingBehind, DaemonHeld, ServiceHeld
<1> QED  BY <1>1, Invariance, PTL

(* A task that is still there has the watcher of its own call, which will    *)
(* find its client gone: none is exported that nobody will unexport (lines   *)
(* 174-180).  What is left of VanishedIsForgotten is that the watcher is     *)
(* dispatched.                                                               *)
THEOREM EveryTaskIsWatched == Spec => [](exported \subseteq watchers)
<1>1. IInv => exported \subseteq watchers
  BY DEF IInv, WatchInv
<1> QED  BY <1>1, Invariance, PTL

-----------------------------------------------------------------------------
(* The service implements TaskLifetimes; the mapping is the identity.        *)

(* The watcher of any of a client's calls forgets all of the client's tasks: *)
(* the array has them all, and nothing else.                                 *)
LEMMA VanishedForgets ==
  ASSUME IInv, NEW k \in Tasks, OnNameVanished(k)
  PROVE  owner[k] \in Clients /\ Lifetimes!Forget(owner[k])
<1>1. owner[k] \in Clients /\ owner[k] \notin connected
  BY DEF OnNameVanished, IInv, TypeOK
<1>2. exported \ tasks[owner[k]] = {j \in exported : owner[j] # owner[k]}
  <2>1. ASSUME NEW j \in exported PROVE j \in tasks[owner[k]] <=> owner[j] = owner[k]
    BY <1>1 DEF IInv, TypeOK, ArraysInv
  <2> QED  BY <2>1
<1> QED
  BY <1>1, <1>2 DEF OnNameVanished, bus, Lifetimes!Forget

(* Every step of the service is a step of TaskLifetimes, or none.            *)
LEMMA StepImplements ==
  ASSUME IInv, [Next]_vars
  PROVE  [Lifetimes!Next]_(Lifetimes!lifeVars)
<1> USE DEF bus, table, life, Lifetimes!lifeVars
<1>1. CASE BusStep
  <2>1. ASSUME NEW c \in Clients, Disconnect(c) PROVE Lifetimes!Leave(c)
    BY <2>1 DEF Disconnect, Lifetimes!Leave
  <2>2. ASSUME NEW c \in Clients, NEW k \in Tasks, SendCreateTask(c, k)
        PROVE  Lifetimes!Ask(c, k)
    BY <2>2 DEF SendCreateTask, Lifetimes!Ask
  <2>3. ASSUME NEW reason \in Reasons, Request(reason) PROVE UNCHANGED Lifetimes!lifeVars
    BY <2>3 DEF Request
  <2> QED  BY <1>1, <2>1, <2>2, <2>3 DEF BusStep, Lifetimes!Next
<1>2. CASE LoopStep
  BY <1>2 DEF LoopStep, Connect, LoopEnds, MainReturns, Quit
<1>3. CASE HandleGetWorkflows \/ PullEnds \/ UNCHANGED vars
  BY <1>3 DEF HandleGetWorkflows, PullEnds, vars
<1>4. ASSUME NEW k \in Tasks, HandlerStep(k) PROVE [Lifetimes!Next]_(Lifetimes!lifeVars)
  <2>1. ASSUME HandleCreateTask(k) PROVE Lifetimes!Answer(k)
    BY <2>1 DEF HandleCreateTask, Lifetimes!Answer
  <2>2. CASE HandleStart(k) \/ OnFinished(k)
    BY <2>2 DEF HandleStart, OnFinished
  <2> QED  BY <1>4, <2>1, <2>2, VanishedForgets DEF HandlerStep, Lifetimes!Next
<1>5. ASSUME NEW k \in Tasks, WorkerStep(k) PROVE UNCHANGED Lifetimes!lifeVars
  BY <1>5 DEF WorkerStep, ReadWorkflow, WorkEnds, WorkerFault
<1> QED  BY <1>1, <1>2, <1>3, <1>4, <1>5 DEF Next

(* Clients see of their tasks what TaskLifetimes promises.                   *)
THEOREM Implementation == Spec => ImplementsLifetimes
<1>1. Init => Lifetimes!Init
  BY DEF Init, Lifetimes!Init
<1> QED
  BY <1>1, StepImplements, Invariance, PTL DEF Spec, ImplementsLifetimes, Lifetimes!Spec

(* So no task is taken from a client that is there, whoever else leaves, and *)
(* even while the daemon quits.                                              *)
KeptForItsClient ==
  [][\A k \in exported : owner[k] \in connected => k \in exported']_(Lifetimes!lifeVars)

(* It follows from what TaskLifetimes says, and so it holds of the service.  *)
THEOREM TasksAreKept == Spec => KeptForItsClient
<1>1. [Lifetimes!Next]_(Lifetimes!lifeVars) =>
        [\A k \in exported : owner[k] \in connected => k \in exported']_(Lifetimes!lifeVars)
  BY DEF Lifetimes!Next, Lifetimes!Leave, Lifetimes!Forget, Lifetimes!Ask, Lifetimes!Answer,
         Lifetimes!lifeVars
<1>2. Lifetimes!Spec => KeptForItsClient
  BY <1>1, PTL DEF Lifetimes!Spec, KeptForItsClient
<1> QED  BY <1>2, Implementation DEF ImplementsLifetimes
==============================================================================
