----------------------------- MODULE TaskPrompt -----------------------------
(***************************************************************************)
(* The prompt handshake of src/reportd-task.c: a thread that has a question*)
(* exports a prompt object, tells the clients where it is, and waits on a  *)
(* condition variable of its task, a quarter of a second at a time; the    *)
(* main thread, given a client's Commit, marks the object as handled and   *)
(* signals the condition.  Cancel marks the task and signals nothing.      *)
(*                                                                         *)
(* Threads of one task share its mutex, condition and cancellable (nothing *)
(* stops two Start calls from running at once); all threads share the      *)
(* object paths of the daemon's object manager, which gives out the first  *)
(* one that is free.                                                       *)
(***************************************************************************)
EXTENDS Naturals, FiniteSets

CONSTANTS
  Threads,     \* the worker threads
  Tasks,       \* the task objects
  MaxPrompts,  \* bound: prompts made by all threads
  MaxCommits,  \* bound: Commit calls made by all clients
  Main,        \* the main thread, as a holder of a mutex
  NULL         \* no holder, no prompt

ASSUME PromptAssumption ==
  /\ IsFiniteSet(Threads)
  /\ MaxPrompts \in Nat /\ MaxCommits \in Nat
  /\ Main \notin Threads /\ NULL \notin Threads \cup {Main} \cup (0 .. MaxPrompts)

VARIABLES
  taskOf,     \* taskOf[t]: the task thread t works for
  cancelled,  \* the tasks that were canceled
  pc,         \* pc[t]: where thread t is in reportd_task_emit_prompt
  made,       \* the number of prompts made
  serial,     \* serial[t]: the number of thread t's latest prompt, 0 before its first
  path,       \* path[t]: the object path of thread t's prompt
  handled,    \* handled[t]: the prompt whose Commit marked t's prompt, or NULL
  holder,     \* holder[k]: who holds the mutex of task k
  sent,       \* history: the Commit calls made, [meant, path, no]
  wire,       \* those of them that have not reached the main thread
  answered,   \* history: those that were answered, with an error if need be
  main,       \* what the main thread is doing: nothing, or a line of handle_commit
  current     \* the prompt it is doing it to, and the call: [thread, serial, meant]

vars == <<taskOf, cancelled, pc, made, serial, path, handled, holder, sent, wire,
          answered, main, current>>
prompts == <<made, serial, path>>
mainVars == <<main, current>>
calls == <<sent, wire, answered>>

Paths == 0 .. Cardinality(Threads) - 1
Prompts == 1 .. MaxPrompts
Calls == [meant : Prompts, path : Paths, no : 1 .. MaxCommits]
NoPrompt == [thread |-> NULL, serial |-> 0, meant |-> 0]

\* The lines of the waiting loop, and those at which the object is exported.
Waiting == {"connect", "lock", "check", "look", "sleep", "woken"}
Exported == Waiting \cup {"unexport"}

(* The types, and the mutex: held by the thread that is inside, or by Main. *)
TypeOK ==
  /\ taskOf \in [Threads -> Tasks]
  /\ cancelled \subseteq Tasks
  /\ pc \in [Threads -> Exported \cup {"idle"}]
  /\ made \in 0 .. MaxPrompts
  /\ serial \in [Threads -> 0 .. made]
  /\ path \in [Threads -> Paths]
  /\ handled \in [Threads -> Prompts \cup {NULL}]
  /\ holder \in [Tasks -> Threads \cup {Main, NULL}]
  /\ \A t \in Threads : pc[t] \in {"check", "look"} <=> holder[taskOf[t]] = t
  /\ sent \subseteq Calls /\ wire \subseteq sent /\ answered \subseteq sent
  /\ main \in {"idle", "mark", "lock", "signal"}
  /\ current \in [thread : Threads, serial : Prompts, meant : Prompts]
                   \cup {NoPrompt}

Init ==
  /\ taskOf \in [Threads -> Tasks]
  /\ cancelled = {}
  /\ pc = [t \in Threads |-> "idle"]
  /\ made = 0
  /\ serial = [t \in Threads |-> 0]
  /\ path = [t \in Threads |-> 0]
  /\ handled = [t \in Threads |-> NULL]
  /\ holder = [k \in Tasks |-> NULL]
  /\ sent = {} /\ wire = {} /\ answered = {}
  /\ main = "idle"
  /\ current = NoPrompt

-----------------------------------------------------------------------------
(* The thread that asks.                                                    *)

Goto(t, line) == pc' = [pc EXCEPT ![t] = line]

Lock(t) ==
  /\ holder[taskOf[t]] = NULL
  /\ holder' = [holder EXCEPT ![taskOf[t]] = t]

Unlock(t) == holder' = [holder EXCEPT ![taskOf[t]] = NULL]

UsedPaths == {path[t] : t \in {u \in Threads : pc[u] \in Exported}}

\* Mutant: the object is exported at its path, whoever is there.
SharedPath(p) == p = 0

\* g_dbus_object_manager_server_export_uniquely: the first free path.
FreePath(p) == p \notin UsedPaths /\ \A q \in 0 .. p - 1 : q \in UsedPaths

(* reportd_daemon_register_object: a new object, with no mark.              *)
Export(t) ==
  /\ pc[t] = "idle"
  /\ made < MaxPrompts
  /\ made' = made + 1
  /\ serial' = [serial EXCEPT ![t] = made + 1]
  /\ \E p \in Paths : FreePath(p) /\ path' = [path EXCEPT ![t] = p]
  /\ handled' = [handled EXCEPT ![t] = NULL]
  /\ Goto(t, "connect")
  /\ UNCHANGED <<taskOf, cancelled, holder, calls, mainVars>>

(* The handler of Commit is connected only now; then Prompt is emitted.     *)
ConnectAndEmit(t) ==
  /\ pc[t] = "connect"
  /\ Goto(t, "lock")
  /\ UNCHANGED <<taskOf, cancelled, prompts, handled, holder, calls, mainVars>>

LockMutex(t) ==
  /\ pc[t] \in {"lock", "woken"}
  /\ Lock(t)
  /\ Goto(t, "check")
  /\ UNCHANGED <<taskOf, cancelled, prompts, handled, calls, mainVars>>

(* The loop's condition: is the prompt marked?                              *)
CheckHandled(t) ==
  /\ pc[t] = "check"
  /\ \/ handled[t] # NULL /\ Goto(t, "unexport") /\ Unlock(t)
     \/ handled[t] = NULL /\ Goto(t, "look") /\ UNCHANGED holder
  /\ UNCHANGED <<taskOf, cancelled, prompts, handled, calls, mainVars>>

\* Mutant: the cancellable is one for all tasks.
GivesUpWithAny(t) == cancelled # {}

\* g_cancellable_is_cancelled (self->cancellable)
GivesUp(t) == taskOf[t] \in cancelled

(* The loop's body: leave when canceled, else release the mutex and sleep.  *)
LookAndSleep(t) ==
  /\ pc[t] = "look"
  /\ \/ GivesUp(t) /\ Goto(t, "unexport")
     \/ ~GivesUp(t) /\ Goto(t, "sleep")
  /\ Unlock(t)
  /\ UNCHANGED <<taskOf, cancelled, prompts, handled, calls, mainVars>>

\* Mutant: the wait has no time limit.
NeverTimesOut(t) == FALSE

(* g_cond_wait_until: 250 ms have passed, or the wait ends for no reason.   *)
WaitTimesOut(t) ==
  /\ pc[t] = "sleep"
  /\ Goto(t, "woken")
  /\ UNCHANGED <<taskOf, cancelled, prompts, handled, holder, calls, mainVars>>

(* The mark is cleared and the object unexported: its path is free again.   *)
Unexport(t) ==
  /\ pc[t] = "unexport"
  /\ handled' = [handled EXCEPT ![t] = NULL]
  /\ Goto(t, "idle")
  /\ UNCHANGED <<taskOf, cancelled, prompts, holder, calls, mainVars>>

-----------------------------------------------------------------------------
(* The clients and the main thread.                                         *)

(* A client that was told of a prompt commits it, for the first time or,    *)
(* because Commit is never answered, once more.                             *)
SendCommit(t) ==
  /\ pc[t] \in Exported
  /\ \E no \in 1 .. MaxCommits :
       /\ no = Cardinality(sent) + 1
       /\ LET call == [meant |-> serial[t], path |-> path[t], no |-> no]
          IN  sent' = sent \cup {call} /\ wire' = wire \cup {call}
  /\ UNCHANGED <<taskOf, cancelled, pc, prompts, handled, holder, answered, mainVars>>

\* The prompts that are exported at p and have their handler connected.
Reached(p) ==
  {t \in Threads : pc[t] \in Exported \ {"connect"} /\ path[t] = p}

(* The bus delivers the call to the object that is at its path by now; with *)
(* no object there, or no handler, it is answered with an error.            *)
DeliverCommit ==
  /\ main = "idle"
  /\ \E call \in wire :
       /\ wire' = wire \ {call}
       /\ \/ /\ Reached(call.path) = {}
             /\ answered' = answered \cup {call}
             /\ UNCHANGED mainVars
          \/ \E t \in Reached(call.path) :
               /\ main' = "mark"
               /\ current' = [thread |-> t, serial |-> serial[t], meant |-> call.meant]
               /\ UNCHANGED answered
  /\ UNCHANGED <<taskOf, cancelled, pc, prompts, handled, holder, sent>>

(* handle_commit marks the object before it takes the mutex.  The object is *)
(* kept alive by the call, but may no longer be its thread's prompt.        *)
MarkHandled ==
  /\ main = "mark"
  /\ main' = "lock"
  /\ handled' = IF serial[current.thread] = current.serial
                  THEN [handled EXCEPT ![current.thread] = current.meant]
                  ELSE handled
  /\ UNCHANGED <<taskOf, cancelled, pc, prompts, holder, calls, current>>

\* Mutant: the condition is signaled without the mutex.
MainSkipsLock ==
  /\ main = "lock"
  /\ main' = "signal"
  /\ UNCHANGED <<taskOf, cancelled, pc, prompts, handled, holder, calls, current>>

MainLocks ==
  /\ main = "lock"
  /\ holder[taskOf[current.thread]] = NULL
  /\ holder' = [holder EXCEPT ![taskOf[current.thread]] = Main]
  /\ main' = "signal"
  /\ UNCHANGED <<taskOf, cancelled, pc, prompts, handled, calls, current>>

\* The threads that sleep on the condition of task k.
Sleepers(k) == {t \in Threads : pc[t] = "sleep" /\ taskOf[t] = k}

(* g_cond_signal wakes one sleeper, any one; the mutex is released, and the *)
(* handler returns without answering the call.                              *)
SignalAndUnlock ==
  /\ main = "signal"
  /\ LET k == taskOf[current.thread] IN
       /\ \/ Sleepers(k) = {} /\ UNCHANGED pc
          \/ \E t \in Sleepers(k) : Goto(t, "woken")
       /\ holder' = [holder EXCEPT ![k] = NULL]
  /\ main' = "idle"
  /\ current' = NoPrompt
  /\ UNCHANGED <<taskOf, cancelled, prompts, handled, calls>>

(* reportd_task_handle_cancel, as far as the prompts are concerned          *)
Cancel(k) ==
  /\ main = "idle"
  /\ cancelled' = cancelled \cup {k}
  /\ UNCHANGED <<taskOf, pc, prompts, handled, holder, calls, mainVars>>

ThreadStep(t) ==
  \/ Export(t) \/ ConnectAndEmit(t) \/ LockMutex(t) \/ CheckHandled(t)
  \/ LookAndSleep(t) \/ WaitTimesOut(t) \/ Unexport(t)

MainStep == DeliverCommit \/ MarkHandled \/ MainLocks \/ SignalAndUnlock

Next ==
  \/ \E t \in Threads : ThreadStep(t) \/ SendCommit(t)
  \/ \E k \in Tasks : Cancel(k)
  \/ MainStep

Spec == Init /\ [][Next]_vars

(* A thread runs and a wait ends; the mutex is held for a few instructions  *)
(* only, so whoever wants it gets it.  No client has to commit or cancel.   *)
FairSpec ==
  /\ Spec
  /\ \A t \in Threads :
       /\ WF_vars(ConnectAndEmit(t)) /\ SF_vars(LockMutex(t))
       /\ WF_vars(CheckHandled(t)) /\ WF_vars(LookAndSleep(t))
       /\ WF_vars(WaitTimesOut(t)) /\ WF_vars(Unexport(t))
  /\ WF_vars(DeliverCommit) /\ WF_vars(MarkHandled) /\ SF_vars(MainLocks)
  /\ WF_vars(SignalAndUnlock)

-----------------------------------------------------------------------------
(* Safety.                                                                  *)

(* A thread whose task has no other thread that ever asked does not sleep   *)
(* through its Commit: although the mark is made outside of the mutex, the  *)
(* signal is not, so it comes after a thread that missed the mark slept.    *)
NoLostWakeup ==
  \A t \in Threads :
    handled[t] # NULL /\ pc[t] = "sleep" /\ main = "idle" =>
      \E u \in Threads \ {t} : taskOf[u] = taskOf[t] /\ serial[u] > 0

\* A prompt is marked by a Commit that was made for that very prompt.
MarkedByItsClient == \A t \in Threads : handled[t] \in {NULL, serial[t]}

\* Some client has made two calls for one prompt.
Repeated == \E c, d \in sent : c # d /\ c.meant = d.meant

(* As long as no client repeats a Commit and no task is canceled, the path  *)
(* the Prompt signal names is enough to say which prompt a Commit is for,   *)
(* though paths are used again as soon as they are free.                    *)
PathsSuffice == ~Repeated /\ cancelled = {} => MarkedByItsClient

-----------------------------------------------------------------------------
(* Liveness.                                                                *)

(* A marked prompt lets its thread go on, even when the one wake-up went to *)
(* another thread of the task: the wait is a quarter of a second at most.   *)
CommitReturns ==
  \A t \in Threads :
    (handled[t] # NULL /\ pc[t] \in Waiting) ~> pc[t] \notin Waiting

(* A canceled task's prompts are given up, though Cancel signals nothing.   *)
CancelReturns ==
  \A t \in Threads :
    (taskOf[t] \in cancelled /\ pc[t] \in Waiting) ~> pc[t] \notin Waiting

(* Commit is declared as a method that returns nothing, not as one that has  *)
(* no reply (org.freedesktop.reportd.xml:51): every call of it is answered.  *)
CommitsAreAnswered ==
  \A no \in 1 .. MaxCommits :
    (\E call \in sent : call.no = no) ~> (\E call \in answered : call.no = no)

-----------------------------------------------------------------------------
(* The prompt as ReportdTask uses it: open from the export on, handled from *)
(* the mark on, over when the thread leaves its loop.                       *)

promptOf(t) ==
  IF pc[t] \notin Waiting THEN "none"
  ELSE IF handled[t] = NULL THEN "open" ELSE "handled"

Coarse == INSTANCE Prompting WITH
  prompt <- [t \in Threads |-> promptOf(t)],
  cancelled <- {t \in Threads : taskOf[t] \in cancelled}

(* The handshake provides what ReportdTask assumes of a prompt: it ends only *)
(* when marked or canceled, and a mark that comes too late does nothing.     *)
ImplementsPrompting == Coarse!Spec
=============================================================================
