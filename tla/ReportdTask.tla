----------------------------- MODULE ReportdTask -----------------------------
(***************************************************************************)
(* One task object of the daemon (src/reportd-task.c) and the threads that *)
(* touch it.  Every Start call r spawns one worker thread, which walks the *)
(* workflow's chain of events; the main thread runs the D-Bus handlers of  *)
(* Start, Cancel and Commit and the GTask callbacks, one at a time.  The   *)
(* cancellable, the run_state pointer and the Status property are shared   *)
(* between all of them, and no lock guards the pointer.                    *)
(*                                                                         *)
(* GLib's promises used here: a GTask's callback is dispatched on the main *)
(* loop after its thread function has returned, and a GTask made with a    *)
(* cancellable has an error whenever that cancellable is cancelled.        *)
(* libreport's: spawn_next_command starts at most one child, and           *)
(* consume_event_command_output returns once that child has exited.        *)
(* Fetching and pushing the directory are single steps here (see           *)
(* DirectoryPull, DirectoryPush); so is the prompt's handshake (TaskPrompt).*)
(***************************************************************************)
EXTENDS Naturals, Sequences

CONSTANTS
  Runs,         \* the Start calls made on the task, each one GTask and one thread
  Chain,        \* the workflow's event names, in order
  ExitCodes,    \* the exit codes an event's command can have
  MaxCommands,  \* bound: commands configured for one event
  MaxPrompts,   \* bound: questions asked during one run
  Overlap,      \* do clients call Start while an earlier Start is unanswered?
  NULL          \* a pointer to nothing, a variable nobody has written

ASSUME TaskAssumption ==
  /\ Chain \in Seq(STRING)
  /\ ExitCodes \subseteq Nat /\ 0 \in ExitCodes
  /\ MaxCommands \in Nat /\ MaxPrompts \in Nat
  /\ Overlap \in BOOLEAN
  /\ NULL \notin Runs \cup ExitCodes

VARIABLES
  status,     \* the Status property on the bus
  cancelled,  \* has the task's GCancellable been cancelled?
  runState,   \* self->run_state: the run whose struct it points to, or NULL
  live,       \* the runs whose struct run_event_state is allocated
  main,       \* what the main thread is doing: nothing, or a line of Cancel's handler
  loaded,     \* the pointer Cancel's handler has loaded from self->run_state
  pc,         \* pc[r]: the line run r's thread is about to execute
  ev,         \* ev[r]: how many events of the chain run r has entered
  cmds,       \* cmds[r]: commands started for the current event (children_count)
  retval,     \* retval[r]: the local variable of export_config_and_run_event
  child,      \* child[r]: the command process whose pid r's struct holds
  prompt,     \* prompt[r]: the question run r waits on
  asked,      \* asked[r]: the questions asked so far
  result,     \* result[r]: what run r has returned through its GTask
  reply,      \* reply[r]: what the caller of Start r has been told
  pushed,     \* the runs that have pushed the whole directory back
  codes,      \* history: codes[r][i] is the code the i-th event was settled with
  begun,      \* history: the runs that have set the status to RUNNING
  fault       \* the thread that followed a bad run_state, after which all stops

shared == <<status, cancelled, runState, live>>
handler == <<main, loaded>>
command == <<cmds, retval, child>>
question == <<prompt, asked>>
event == <<ev, command, question>>
outcome == <<result, reply, pushed>>
history == <<codes, begun>>
vars == <<shared, handler, pc, event, outcome, history, fault>>

Statuses == {"READY", "RUNNING", "COMPLETED", "FAILED", "CANCELED"}
Lines == {"unstarted", "fetch", "allocate", "configure", "entry", "begin",
          "next", "prepare", "spawn", "consume", "settle", "pushcheck", "push",
          "cleanup", "returned", "done"}

TypeOK ==
  /\ status \in Statuses
  /\ cancelled \in BOOLEAN
  /\ runState \in Runs \cup {NULL}
  /\ live \subseteq Runs
  /\ main \in {"idle", "load", "test", "kill"}
  /\ loaded \in Runs \cup {NULL}
  /\ pc \in [Runs -> Lines]
  /\ ev \in [Runs -> 0 .. Len(Chain)]
  /\ cmds \in [Runs -> 0 .. MaxCommands]
  /\ retval \in [Runs -> ExitCodes \cup {NULL}]
  /\ child \in [Runs -> {"none", "running", "killed", "exited"}]
  /\ prompt \in [Runs -> {"none", "open", "handled"}]
  /\ asked \in [Runs -> 0 .. MaxPrompts]
  /\ result \in [Runs -> {"none", "ok", "error"}]
  /\ reply \in [Runs -> {"none", "pending", "success", "error"}]
  /\ pushed \subseteq Runs
  /\ codes \in [Runs -> Seq(ExitCodes)]
  /\ begun \subseteq Runs
  /\ fault \in {"none", "worker", "cancel"}

Init ==
  /\ status = "READY"
  /\ cancelled = FALSE
  /\ runState = NULL
  /\ live = {}
  /\ main = "idle"
  /\ loaded = NULL
  /\ pc = [r \in Runs |-> "unstarted"]
  /\ ev = [r \in Runs |-> 0]
  /\ cmds = [r \in Runs |-> 0]
  /\ retval = [r \in Runs |-> NULL]
  /\ child = [r \in Runs |-> "none"]
  /\ prompt = [r \in Runs |-> "none"]
  /\ asked = [r \in Runs |-> 0]
  /\ result = [r \in Runs |-> "none"]
  /\ reply = [r \in Runs |-> "none"]
  /\ pushed = {}
  /\ codes = [r \in Runs |-> << >>]
  /\ begun = {}
  /\ fault = "none"

-----------------------------------------------------------------------------
(* The main thread: D-Bus handlers and GTask callbacks, one at a time.      *)

MainIdle == fault = "none" /\ main = "idle"

Unanswered == {r \in Runs : reply[r] = "pending"}

(* reportd_task_handle_start: no look at the status, every call gets a      *)
(* thread.  Overlap says whether clients wait for an answer first.          *)
HandleStart(r) ==
  /\ MainIdle
  /\ pc[r] = "unstarted"
  /\ Overlap \/ Unanswered = {}
  /\ pc' = [pc EXCEPT ![r] = "fetch"]
  /\ reply' = [reply EXCEPT ![r] = "pending"]
  /\ UNCHANGED <<shared, handler, event, result, pushed, history, fault>>

(* reportd_task_handle_cancel, up to the first read of self->run_state.     *)
HandleCancel ==
  /\ MainIdle
  /\ cancelled' = TRUE
  /\ main' = "load"
  /\ UNCHANGED <<status, runState, live, loaded, pc, event, outcome, history, fault>>

(* The pointer is loaded to read its command_pid: a NULL one is followed.   *)
CancelLoad ==
  /\ fault = "none" /\ main = "load"
  /\ loaded' = runState
  /\ \/ runState = NULL /\ fault' = "cancel" /\ UNCHANGED main
     \/ runState # NULL /\ main' = "test" /\ UNCHANGED fault
  /\ UNCHANGED <<shared, pc, event, outcome, history>>

\* The runs whose struct holds a process id: command_pid > 0.
Spawned == {r \in Runs : child[r] # "none"}

\* Mutant: the handler does not ask whether the pid is above 0.
CancelTestAnyPid ==
  /\ fault = "none" /\ main = "test"
  /\ \/ loaded \notin live /\ fault' = "cancel" /\ UNCHANGED handler
     \/ loaded \in live /\ main' = "kill" /\ UNCHANGED <<loaded, fault>>
  /\ UNCHANGED <<shared, pc, event, outcome, history>>

(* command_pid is read through the loaded pointer: 0 until the struct's     *)
(* first command is started, and by then the struct may have been freed.    *)
CancelTest ==
  /\ fault = "none" /\ main = "test"
  /\ \/ loaded \notin live /\ fault' = "cancel" /\ UNCHANGED handler
     \/ /\ loaded \in live \ Spawned
        /\ main' = "idle" /\ loaded' = NULL /\ UNCHANGED fault
     \/ /\ loaded \in live \cap Spawned
        /\ main' = "kill" /\ UNCHANGED <<loaded, fault>>
  /\ UNCHANGED <<shared, pc, event, outcome, history>>

(* self->run_state->command_pid is read once more, and its group killed;    *)
(* a command that has already exited is not there to receive the signal.  A *)
(* pid read as 0 from another run's new struct is the daemon's own group.   *)
CancelKill ==
  /\ fault = "none" /\ main = "kill"
  /\ \/ /\ runState \notin Spawned
        /\ fault' = "cancel"
        /\ UNCHANGED <<handler, child>>
     \/ /\ runState \in Spawned
        /\ child' = [child EXCEPT ![runState] = IF @ = "running" THEN "killed" ELSE @]
        /\ main' = "idle" /\ loaded' = NULL /\ UNCHANGED fault
  /\ UNCHANGED <<shared, pc, ev, cmds, retval, question, outcome, history>>

(* reportd_task_prompt_handle_commit                                        *)
HandleCommit(r) ==
  /\ MainIdle
  /\ prompt[r] = "open"
  /\ prompt' = [prompt EXCEPT ![r] = "handled"]
  /\ UNCHANGED <<shared, handler, pc, ev, command, asked, outcome, history, fault>>

\* Mutant: the GTask does not check its cancellable.
HadErrorUnchecked(r) == result[r] = "error"

(* g_task_had_error: the worker's error, or the cancellable's.              *)
HadError(r) == result[r] = "error" \/ cancelled

\* Mutant: the status is not set when the workflow fails.
FinalStatusForgets(r) == IF HadError(r) THEN status ELSE "COMPLETED"

FinalStatus(r) ==
  IF ~HadError(r) THEN "COMPLETED" ELSE IF cancelled THEN "CANCELED" ELSE "FAILED"

(* reportd_task_on_finished                                                 *)
OnFinished(r) ==
  /\ MainIdle
  /\ pc[r] = "returned"
  /\ status' = FinalStatus(r)
  /\ reply' = [reply EXCEPT ![r] = IF HadError(r) THEN "error" ELSE "success"]
  /\ pc' = [pc EXCEPT ![r] = "done"]
  /\ UNCHANGED <<cancelled, runState, live, handler, event, result, pushed,
                 history, fault>>

-----------------------------------------------------------------------------
(* The worker threads: reportd_task_start and the event chain it runs.      *)

At(r, line) == fault = "none" /\ pc[r] = line

Goto(r, line) == pc' = [pc EXCEPT ![r] = line]

(* reportd_daemon_get_problem_directory; on failure the thread returns at   *)
(* once, without passing the clean-up label.                                *)
FetchDirectory(r) ==
  /\ At(r, "fetch")
  /\ \/ Goto(r, "allocate") /\ UNCHANGED result
     \/ Goto(r, "returned") /\ result' = [result EXCEPT ![r] = "error"]
  /\ UNCHANGED <<shared, handler, event, reply, pushed, history, fault>>

(* self->run_state = new_run_event_state (): whatever was there is dropped. *)
AllocRunState(r) ==
  /\ At(r, "allocate")
  /\ runState' = r
  /\ live' = live \cup {r}
  /\ Goto(r, "configure")
  /\ UNCHANGED <<status, cancelled, handler, event, outcome, history, fault>>

(* The callbacks are stored through self->run_state.                        *)
Configure(r) ==
  /\ At(r, "configure")
  /\ runState # NULL
  /\ Goto(r, "entry")
  /\ UNCHANGED <<shared, handler, event, outcome, history, fault>>

\* Mutant: the thread returns, where it should go to the clean-up label.
ReturnIfCancelled(r, otherwise) ==
  \/ cancelled /\ Goto(r, "returned") /\ result' = [result EXCEPT ![r] = "error"]
  \/ ~cancelled /\ Goto(r, otherwise) /\ UNCHANGED result

\* Mutant: the chain does not look at the cancellable.
StopsChainNever == FALSE

\* g_cancellable_set_error_if_cancelled, before and after each event.
StopsChain == cancelled

(* g_task_return_error_if_cancelled                                         *)
ReturnErrorIfCancelled(r, otherwise) ==
  \/ cancelled /\ Goto(r, "cleanup") /\ result' = [result EXCEPT ![r] = "error"]
  \/ ~cancelled /\ Goto(r, otherwise) /\ UNCHANGED result

EntryCheck(r) ==
  /\ At(r, "entry")
  /\ ReturnErrorIfCancelled(r, "begin")
  /\ UNCHANGED <<shared, handler, event, reply, pushed, history, fault>>

BeginChain(r) ==
  /\ At(r, "begin")
  /\ status' = "RUNNING"
  /\ begun' = begun \cup {r}
  /\ Goto(r, "next")
  /\ UNCHANGED <<cancelled, runState, live, handler, event, outcome, codes, fault>>

\* Mutant: the loop runs once more after the last event.
HasNextOffByOne(r) == ev[r] <= Len(Chain)

\* The loop's condition: is there an event left in the chain?
HasNext(r) == ev[r] < Len(Chain)

(* The head of the loop over the chain, and the check before the event.     *)
NextEvent(r) ==
  /\ At(r, "next")
  /\ \/ ~HasNext(r) /\ Goto(r, "pushcheck") /\ UNCHANGED <<ev, result>>
     \/ /\ HasNext(r) /\ StopsChain
        /\ Goto(r, "cleanup") /\ result' = [result EXCEPT ![r] = "error"]
        /\ UNCHANGED ev
     \/ /\ HasNext(r) /\ ~StopsChain
        /\ Goto(r, "prepare") /\ ev' = [ev EXCEPT ![r] = @ + 1]
        /\ UNCHANGED result
  /\ UNCHANGED <<shared, handler, command, question, reply, pushed, history, fault>>

(* export_config_and_run_event gets the struct self->run_state points to    *)
(* and prepares its commands; retval is declared and not written.           *)
PrepareCommands(r) ==
  /\ At(r, "prepare")
  /\ runState = r
  /\ cmds' = [cmds EXCEPT ![r] = 0]
  /\ retval' = [retval EXCEPT ![r] = NULL]
  /\ Goto(r, "spawn")
  /\ UNCHANGED <<shared, handler, ev, child, question, outcome, history, fault>>

(* The head of the loop over the event's commands: one more, or none left.  *)
SpawnCommand(r) ==
  /\ At(r, "spawn")
  /\ r \in live
  /\ \/ /\ cmds[r] < MaxCommands
        /\ cmds' = [cmds EXCEPT ![r] = @ + 1]
        /\ child' = [child EXCEPT ![r] = "running"]
        /\ Goto(r, "consume")
     \/ Goto(r, "settle") /\ UNCHANGED <<cmds, child>>
  /\ UNCHANGED <<shared, handler, ev, retval, question, outcome, history, fault>>

(* While the command's output is consumed it may ask a question, in one of  *)
(* the ask callbacks, each of which exports a prompt and waits for it.      *)
AskPrompt(r) ==
  /\ At(r, "consume")
  /\ r \in live
  /\ prompt[r] = "none"
  /\ asked[r] < MaxPrompts
  /\ prompt' = [prompt EXCEPT ![r] = "open"]
  /\ asked' = [asked EXCEPT ![r] = @ + 1]
  /\ UNCHANGED <<shared, handler, pc, ev, cmds, retval, child, outcome, history, fault>>

\* Mutants: one of the two is not looked at.
PromptHandled(r) == prompt[r] = "handled"
PromptAbandoned(r) == prompt[r] = "open" /\ cancelled

\* The wait ends when the prompt was committed, or the task canceled.
PromptOver(r) == prompt[r] = "handled" \/ (prompt[r] = "open" /\ cancelled)

PromptReturns(r) ==
  /\ At(r, "consume")
  /\ PromptOver(r)
  /\ prompt' = [prompt EXCEPT ![r] = "none"]
  /\ UNCHANGED <<shared, handler, pc, ev, command, asked, outcome, history, fault>>

(* consume_event_command_output returns the exit code of the command, which *)
(* ended by itself or was killed; a code other than 0 leaves the loop.      *)
ConsumeOutput(r) ==
  /\ At(r, "consume")
  /\ r \in live
  /\ prompt[r] = "none"
  /\ \E code \in ExitCodes :
       /\ retval' = [retval EXCEPT ![r] = code]
       /\ Goto(r, IF code = 0 THEN "spawn" ELSE "settle")
  /\ child' = [child EXCEPT ![r] = "exited"]
  /\ UNCHANGED <<shared, handler, ev, cmds, question, outcome, history, fault>>

\* Mutant: the quirk is applied to the code alone, whatever the event.
CorrectedAlways(name, code) == IF code = 70 THEN 0 ELSE code

(* The quirks of reportd_task_run_event_chain.                              *)
Corrected(name, code) ==
  IF name = "report_uReport" /\ code = 70 THEN 0 ELSE code

Passes(r, code) == Corrected(Chain[ev[r]], code) = 0

(* What export_config_and_run_event returns: retval, which is any number at *)
(* all when no command was started.                                         *)
Reported(r) == IF retval[r] = NULL THEN ExitCodes ELSE {retval[r]}

(* The rest of the loop's body: the second check, the quirks, the verdict.  *)
(* A last look at self->run_state only chooses whether to log a warning.    *)
SettleEvent(r) ==
  /\ At(r, "settle")
  /\ r \in live
  /\ \E code \in Reported(r) :
       /\ codes' = [codes EXCEPT ![r] = Append(@, code)]
       /\ \/ /\ StopsChain \/ ~Passes(r, code)
             /\ Goto(r, "cleanup")
             /\ result' = [result EXCEPT ![r] = "error"]
          \/ /\ ~StopsChain /\ Passes(r, code)
             /\ runState # NULL
             /\ Goto(r, "next")
             /\ UNCHANGED result
  /\ UNCHANGED <<shared, handler, event, reply, pushed, begun, fault>>

PushCheck(r) ==
  /\ At(r, "pushcheck")
  /\ ReturnErrorIfCancelled(r, "push")
  /\ UNCHANGED <<shared, handler, event, reply, pushed, history, fault>>

(* reportd_daemon_push_problem_directory and the return of its outcome      *)
PushDirectory(r) ==
  /\ At(r, "push")
  /\ \/ pushed' = pushed \cup {r} /\ result' = [result EXCEPT ![r] = "ok"]
     \/ UNCHANGED pushed /\ result' = [result EXCEPT ![r] = "error"]
  /\ Goto(r, "cleanup")
  /\ UNCHANGED <<shared, handler, event, reply, history, fault>>

(* g_clear_pointer (&self->run_state, free_run_event_state)                 *)
Cleanup(r) ==
  /\ At(r, "cleanup")
  /\ live' = live \ {runState}
  /\ runState' = NULL
  /\ Goto(r, "returned")
  /\ UNCHANGED <<status, cancelled, handler, event, outcome, history, fault>>

(* The lines that follow self->run_state, or the struct read from it, when  *)
(* it is not there or is the one another thread is working with: undefined  *)
(* behaviour, at which the model stops.                                     *)
WorkerFault(r) ==
  /\ \/ At(r, "configure") /\ runState = NULL
     \/ At(r, "prepare") /\ runState # r
     \/ At(r, "spawn") /\ r \notin live
     \/ At(r, "consume") /\ r \notin live
     \/ At(r, "settle") /\ r \notin live
     \/ /\ At(r, "settle") /\ runState = NULL /\ ~StopsChain
        /\ \E code \in Reported(r) : Passes(r, code)
  /\ fault' = "worker"
  /\ UNCHANGED <<shared, handler, pc, event, outcome, history>>

(* After a fault the program does nothing that can be relied on.            *)
Crashed == fault # "none" /\ UNCHANGED vars

MainStep ==
  \/ \E r \in Runs : HandleStart(r) \/ HandleCommit(r) \/ OnFinished(r)
  \/ HandleCancel \/ CancelLoad \/ CancelTest \/ CancelKill

WorkerStep(r) ==
  \/ FetchDirectory(r) \/ AllocRunState(r) \/ Configure(r) \/ EntryCheck(r)
  \/ BeginChain(r) \/ NextEvent(r) \/ PrepareCommands(r) \/ SpawnCommand(r)
  \/ AskPrompt(r) \/ PromptReturns(r) \/ ConsumeOutput(r) \/ SettleEvent(r)
  \/ PushCheck(r) \/ PushDirectory(r) \/ Cleanup(r) \/ WorkerFault(r)

Next == MainStep \/ (\E r \in Runs : WorkerStep(r)) \/ Crashed

Spec == Init /\ [][Next]_vars

-----------------------------------------------------------------------------
(* Fairness.  The main loop dispatches every source that stays ready, so an *)
(* answer is not put off for ever by other messages; a handler, once begun, *)
(* goes on; a thread runs; the message bus answers or times out; commands   *)
(* end.  No client has to commit a prompt, or to call anything.             *)

MainFairness ==
  /\ WF_vars(CancelLoad) /\ WF_vars(CancelTest) /\ WF_vars(CancelKill)
  /\ \A r \in Runs : SF_vars(OnFinished(r))

WorkerFairness ==
  \A r \in Runs :
    /\ WF_vars(FetchDirectory(r)) /\ WF_vars(AllocRunState(r))
    /\ WF_vars(Configure(r)) /\ WF_vars(EntryCheck(r)) /\ WF_vars(BeginChain(r))
    /\ WF_vars(NextEvent(r)) /\ WF_vars(PrepareCommands(r))
    /\ WF_vars(SpawnCommand(r)) /\ WF_vars(PromptReturns(r))
    /\ WF_vars(SettleEvent(r)) /\ WF_vars(PushCheck(r))
    /\ WF_vars(PushDirectory(r)) /\ WF_vars(Cleanup(r))

CommandsEnd == \A r \in Runs : WF_vars(ConsumeOutput(r))

FairSpec == Spec /\ MainFairness /\ WorkerFairness /\ CommandsEnd

(* A command that has nobody's signal to end it may run for as long as it   *)
(* likes; one that was sent SIGTERM ends.                                   *)
KilledCommandsEnd ==
  \A r \in Runs : WF_vars(child[r] = "killed" /\ ConsumeOutput(r))

LongCommandsSpec == Spec /\ MainFairness /\ WorkerFairness /\ KilledCommandsEnd

-----------------------------------------------------------------------------
(* Safety.                                                                  *)

\* The lines between a run's allocation and the clearing of self->run_state.
Window == {"configure", "entry", "begin", "next", "prepare", "spawn", "consume",
           "settle", "pushcheck", "push", "cleanup"}

\* The lines after the status was set to RUNNING, up to the answer.
Chained == {"next", "prepare", "spawn", "consume", "settle", "pushcheck", "push"}

(* With clients that wait for an answer before they start the task again,   *)
(* self->run_state is the struct of the run in its window, NULL when there  *)
(* is none, and no other struct is allocated: nothing leaks, and nothing is *)
(* freed while it is pointed to (lines 463 and 511 are not under a lock).   *)
RunStateOwnership ==
  ~Overlap =>
    /\ live = {r \in Runs : pc[r] \in Window}
    /\ \A r \in Runs : pc[r] \in Window => runState = r
    /\ runState # NULL => pc[runState] \in Window

(* Under the same clients nothing goes wrong but a stray Cancel: no worker   *)
(* follows a NULL, freed or foreign run_state, and Cancel's handler follows *)
(* a bad one only when no run is between its allocation and its clean-up,   *)
(* however the lines of the two threads interleave.                         *)
OnlyStrayCancelsFault ==
  ~Overlap => /\ fault # "worker"
              /\ fault = "cancel" => \A r \in Runs : pc[r] \notin Window

(* Under the same clients the Status property tells of the latest call: it  *)
(* is RUNNING only while a begun run is unanswered, and all the while its   *)
(* event chain is being run or its directory pushed.                        *)
StatusTracksRun ==
  ~Overlap =>
    /\ status = "RUNNING" => \E r \in Unanswered : r \in begun
    /\ \A r \in Runs : pc[r] \in Chained => status = "RUNNING"

(* A process of the task never outlives its reach: while one runs, its      *)
(* caller is waiting, the status is RUNNING, and self->run_state holds the  *)
(* pid that Cancel would signal.                                            *)
CommandsAreReachable ==
  ~Overlap =>
    \A r \in Runs : child[r] \in {"running", "killed"} =>
      runState = r /\ r \in live /\ reply[r] = "pending" /\ status = "RUNNING"

EventPassed(r, i) ==
  codes[r][i] = 0 \/ (codes[r][i] = 70 /\ Chain[i] = "report_uReport")

ChainPassed(r) ==
  Len(codes[r]) = Len(Chain) /\ \A i \in 1 .. Len(Chain) : EventPassed(r, i)

(* Whatever clients do, a directory is pushed, and Start answered with a    *)
(* success, only by a run every event of whose chain was settled with 0 or  *)
(* the quirk's code: no event is skipped, repeated, or forgiven.            *)
SuccessIsEarned ==
  /\ \A r \in pushed : ChainPassed(r)
  /\ \A r \in Runs : reply[r] = "success" => r \in pushed /\ r \in begun

(* Once the task is canceled, no run enters another event, none starts to   *)
(* push, and no Start is answered with a success, even one whose worker had *)
(* already returned TRUE.                                                   *)
CancelStopsProgress ==
  [][cancelled =>
       \A r \in Runs :
         /\ ev'[r] = ev[r]
         /\ pc'[r] = "push" => pc[r] = "push"
         /\ reply'[r] = "success" => reply[r] = "success"]_vars

-----------------------------------------------------------------------------
(* Liveness.                                                                *)

Answered(r) == reply[r] \in {"success", "error"}

(* A canceled task answers every Start it has taken, even one that waits on *)
(* a prompt nobody will commit: no thread is left behind.                   *)
CancelAnswers ==
  \A r \in Runs :
    (cancelled /\ reply[r] = "pending") ~> (Answered(r) \/ fault # "none")

(* Without a cancel, only a prompt nobody commits can keep Start waiting.   *)
OnlyPromptsBlock ==
  \A r \in Runs :
    (reply[r] = "pending" /\ prompt[r] # "open") ~>
      (Answered(r) \/ prompt[r] = "open" \/ fault # "none")

-----------------------------------------------------------------------------
(* What the tests, comments and news of the repository say, and the code    *)
(* does not do: each is checked in a run that finds it violated.            *)

(* The test script starts a task and then cancels it (api-sanity-test:131): *)
(* once a Start was made, Cancel's handler follows no bad pointer.          *)
CancelNeverFaults == (\E r \in Runs : reply[r] # "none") => fault # "cancel"

(* Task cancellation (NEWS, 0.7.0) ends the command that is running, so the *)
(* caller of Start gets its answer without waiting for that command.        *)
CancelEndsCommands == CancelAnswers

-----------------------------------------------------------------------------
(* The clients' view of the task.                                           *)

Api == INSTANCE TaskApi

(* Whatever the threads do, clients see what TaskApi allows: one answer per *)
(* Start, a success only from a run that had been RUNNING on a task nobody  *)
(* had canceled, each answer together with its Status.                      *)
ImplementsTaskApi == Api!Spec
==============================================================================
