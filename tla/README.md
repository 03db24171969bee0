# reportd: a TLA+ development

reportd is a small D-Bus daemon (C, GLib) that sits between desktop clients, ABRT's
problem database and libreport's event scripts. A client asks for a *task* for one
problem entry and one workflow, and calls `Start`. A worker thread of the daemon then
copies the entry's elements from ABRT into a cache directory, runs the workflow's
events there (each a few child processes), and pushes the directory back. Meanwhile
the main thread serves `Cancel`, and a `Commit` for every question an event asks.

This directory models the parts where that can go wrong: threads that share a pointer,
a cancellable, a cache directory and the remembered answers; object paths that are used
again; calls and copies that fail half-way; clients that vanish; verdicts that arrive
late; a process that is told to quit, or ends anywhere.

    tlc -workers 2 -config TaskClients.cfg MCReportdTask.tla
    tlapm ReportdTask_proofs.tla

## 1. Inventory

| Component | Source | State it keeps | Operations |
|---|---|---|---|
| Task | `src/reportd-task.c` | Status, cancellable, `run_state` pointer, command pid | `Start`, `Cancel`, the worker's `reportd_task_start`, the callback `reportd_task_on_finished` |
| Prompt handshake | `src/reportd-task.c:193-258` | mutex, condition, a mark on the object, the object's path | `emit_prompt` (worker), `Commit` (main thread) |
| Ask callbacks | `src/reportd-task.c:260-384` | the user settings (a file, a map of answers) | five callbacks, `save_result`, the remembered "yes"/"no" |
| Daemon: directories | `src/reportd-daemon.c:158-500` | the cache directory of each entry | `get_problem_directory`, `push_problem_directory` |
| Daemon: registry | `src/reportd-daemon.c:502-540` | object managers and the paths in use | `register_object`, `unregister_object` |
| Daemon: life | `src/reportd-daemon.c:541-660`, `src/reportd-main.c` | connections, main loop, bus name, references | `run`, `quit`, `on_name_lost`, signals |
| Service | `src/reportd-service.c` | tasks per client, bus name watchers, cached session proxy | `CreateTask`, `GetWorkflows`, `AuthorizeProblemsSession` |
| Interface | `src/org.freedesktop.reportd.xml` | what clients see | the generated skeletons |

How they interact: the Service makes task objects and registers them with the Daemon.
The worker of a Task calls into the Daemon to pull and push, and into libreport to run
events. libreport calls back into the Task to ask, and the Task registers a prompt
object with the Daemon. The main thread runs all D-Bus handlers and GTask callbacks,
one at a time. The workers run in parallel to it and to each other. What they share
without a lock is the `run_state` pointer, the command's pid, the cancellable (which is
atomic), the mark on a prompt object, and the cache directory on disk.

What makes each component correct:

- **Task**: `run_state` points to the one allocated struct of the run that uses it;
  a success means that every event ran and passed; nothing goes on after a cancel;
  the Status tells of the latest call; every Start is answered.
- **Prompt**: nobody sleeps through a Commit; a Commit answers the question it was
  meant for; a cancel lets everybody go.
- **Pull**: a path leads to a complete directory; one thread fills it; what the events
  have written there is not overwritten; a call that fails is seen to have failed.
- **Push**: what is reported as pushed has been sent, all of it; the element that is
  deleted first is put back, or the caller is told; pushes of one entry do not undo each
  other's work.
- **Settings**: an answer given without asking is one that a user wanted remembered, and
  what was wanted remembered is kept.
- **Authorization**: an invocation is answered once, by its own verdict.
- **Service**: a client's tasks live as long as they are used, and no longer than the
  client.
- **Daemon life**: quitting does not free what a worker or a handler still uses.

`PROJECT.json` lists the hazards line by line, with the properties that cover each one.

## 2. Modules

    TaskApi  <---implements---  ReportdTask  ---assumes--->  Prompting <---implements--- TaskPrompt
                                     | one step each
                        DirectoryPull   DirectoryPush                     UserSettings ---uses---> Prompting
                             | implements
                        CacheDirectory

                        Service ---implements---> TaskLifetimes           Authorization

**ReportdTask** (`src/reportd-task.c`). The parameter `Runs` is the set of Start calls;
each is one GTask and one thread. `pc[r]` names the line the thread of `r` is about to
execute, and there is one action per stretch of code that reads or writes shared state
once: `FetchDirectory`, `AllocRunState` (line 463), `Configure`, `EntryCheck`,
`BeginChain`, the loop over the events (`NextEvent`), the loop over an event's commands
(`PrepareCommands`, `SpawnCommand`, `ConsumeOutput`), `SettleEvent` (second check of the
cancellable, quirk, verdict), `PushCheck`, `PushDirectory`, `Cleanup` (line 511). The
handler of Cancel is four steps, since it reads `self->run_state` twice and the pid
behind it in between. `OnFinished` is the callback. An uninitialised `retval` (an event
without commands) is any exit code. Following a NULL, freed or foreign `run_state` is
undefined behaviour: the model records who did it in `fault` and stops there (`Crashed`).
The constant `Overlap` says whether clients call `Start` on a task that has not answered
the last one. The code accepts both, so both are checked.

**TaskApi**. What a client may rely on: one answer for each Start, a success only for a
call that was seen RUNNING on a task not cancelled, every answer together with its
Status. `ReportdTask` implements it with the identity as refinement mapping.

**TaskPrompt** (`reportd_task_emit_prompt`, `reportd_task_prompt_handle_commit`). The
asking threads, a mutex for each task, the condition as the set of threads at `sleep`,
object paths as numbers of which `FreePath` gives out the first free one. A Commit call
is a record with the path it was sent to and, as a history, the prompt it was *meant*
for. Calls arrive in any order and late; `answered` is a history of those that were
answered, which only a call that finds no prompt ever is. The mark is set outside of the mutex
(`MarkHandled`) and the signal inside (`MainLocks`, `SignalAndUnlock`), as in the code.
**Prompting** is the same thing as one variable per thread: none, open, handled.
`TaskPrompt` implements it under `promptOf`: open from the export, handled from the mark,
none as soon as the thread has left its loop. `ReportdTask`'s `AskPrompt`, `HandleCommit`
and `PromptReturns` are the three actions of `Prompting`, which is a theorem
(`AsksAsPrompting`, section 5).

**DirectoryPull** (`reportd_daemon_get_problem_directory`,
`reportd_daemon_populate_dump_directory`). Several callers, one entry. `dir` and `file`
are the disk: is there a directory, and who has last seen to each element in it (nobody,
a pull that brought it or tried in vain, an event); `fillers` are the callers whose
`dump_directory` is not NULL. The check for an existing directory (`Pull`), the two D-Bus
calls around the creation (`ListElements`, `CreateDirectory`, `ReadElements`) and each
copy are steps of their own. Windows of `FDLimit` elements are any subset of that size, as
nothing depends on the order; ABRT answers with any part of a window, since the code does
not compare. Once a worker (`Workers`, everybody but the main thread) was given the path,
the commands of its events write there whenever they like (`EventWrites`,
`reportd-task.c:157`); they are processes of their own, which neither wait for another
caller nor end with the daemon. The process may end at every step, and comes back with the
old `/tmp` or, under the systemd units' `PrivateTmp`, an empty one. `mishaps` is a history
of what has gone wrong.
**CacheDirectory** is what those see who are given the path: a directory that is absent,
being filled, or settled. `Stage` maps to it: a directory with a filler is being filled,
one without is settled. The call that has made the directory fills it, and no pull writes
to a settled one until the whole cache is gone; events may write to both.

**DirectoryPush** (`reportd_daemon_push_problem_directory`). Several pushes of one entry,
as two tasks, or two Starts, can make them. Each has its own directory iterator, which
finds any set of files, since the events of another task may write to the directory
meanwhile; any of them may turn out not to be readable. The windows of
`reportd_daemon_get_n_elements`, the deletion of the volatile element that comes before
them, and `save_elements`, which may store a part and then fail, are steps of a push;
`remote` is what ABRT has, which all of them change. `sent` and `deleter` are histories of
what ABRT has confirmed to whom, and of who has last deleted the volatile element.

**Service** (`reportd-service.c:94-249`, `reportd-daemon.c:502-656`, `reportd-main.c`).
Who holds a reference to what. `exported` are the tasks in the object manager, which has
the only reference to each; `tasks[c]` is the array of plain pointers in the service's
table; `watchers` are the bus name watchers, one for each call of CreateTask and each
with a reference to the service; `holders` are the daemon and the object manager, if they
hold the service. `ServiceHeld` and `DaemonHeld` say what is still allocated. A client
may leave at any time, also before its call is handled; its watchers then fire one by one.
A worker is three stretches (`begin`, `work`, `returned`), of which the first reads the
workflow through the task's bare pointer. `main` is the main thread: while it pulls a
directory for GetWorkflows it dispatches nothing. `loop` goes from main's start to the
end of the process, and `pending` are the reasons to quit (a signal, the name lost) that
were not dispatched yet. Using a task, its callback or the service after it was freed is
undefined behaviour, recorded in `fault`, where the model stops.
**TaskLifetimes** is what clients see of it: a call is answered once, with a task or
without, and all of a client's tasks go together, after the client has left, and nobody
else's. Its variables are variables of `Service`; the table, the watchers and the
references are the means and do not appear.

**Authorization** (`reportd-service.c:44-92`, `251-375`). One session of ABRT for all
clients. `main` is the line of the handler the main thread is at; since the calls are
synchronous, no signal is dispatched in between, though ABRT may have sent it. `handlers`
are the invocations connected to the signal of the one cached proxy, and `OnSignal` runs
all of them. ABRT is modelled as the code uses it: Authorize says that the session is
authorized, that the user is asked, that a request is pending, that it is refused, or a
number the switch does not know; or it fails, before or after ABRT has taken it. A
*round* is one question to the user; `asked` and `verdict` are histories of the round a
call has started and the one it was answered with. `Restart` is ABRT being started again
behind the cached proxy.

**UserSettings** (`reportd-task.c:260-384`, `reportd-main.c:56-64`). Worker threads in
the five callbacks, over `Prompting`. `table` and `file` are the settings in memory and
on disk; a lookup gives out a pointer, which is `dangling` once another thread has stored
the same setting. Any client may set the properties of a prompt, at any time, also after
the Commit. The settings are saved once the loop has ended, while workers still run; the
process may end anywhere and be started again. `said` and `committed` are histories.

**libreport, GLib, ABRT** are modelled as the code uses them; the assumptions are at the
head of each module and the definitions are marked external in the map.

## 3. Runs

| Run | Module, configuration | Asks |
|---|---|---|
| `task_clients` | MCReportdTask, TaskClients | With clients that wait for an answer: is `run_state` owned, a bad pointer followed by nobody but a Cancel that comes while no run is in its window, the status right? Is every Start answered? |
| `task_overlap` | MCReportdTask, TaskOverlap | With two Starts at once: is a success still earned, does Cancel still stop everything, do clients see what `TaskApi` allows? |
| `prompt` | MCTaskPrompt, TaskPrompt | Is there a lost wake-up, a Commit that marks another client's prompt, a wait that does not end? Is it `Prompting`? |
| `pull` | MCDirectoryPull, DirectoryPull | Can a path be returned that leads to an incomplete directory, for no reason? Does a pull overwrite what events have written, or write to a directory that another call has made or that is settled (`CacheDirectory`)? Does every call return? |
| `push` | MCDirectoryPush, DirectoryPush | Can a successful push have left a file out? Can two pushes between them lose the volatile element and report a success? Does every push return? |
| `service` | MCService, Service | Does the table ever point to a freed task, does a worker lose its task or its workflow while its client is there, does a client leave something behind, does a task go before its client or without the client's others (`TaskLifetimes`), does quitting end? |
| `authorization` | MCAuthorization, Authorization | Is an invocation answered twice, with the verdict on another's question, or not at all? Can it come to wait for a verdict that was sent before it listened? |
| `settings` | MCUserSettings, UserSettings | Is an answer given that nobody has given, or forgotten that was to be remembered? |

The remaining four runs each check one sentence of the repository that the code does not
live up to (section 6).

Bounds, and why they are enough:

- *Task*: two Starts, because every interference is between one thread, one other thread
  and the handler. Two events, of which the first is the one the quirk is about, so that
  there is one event with and one without it. The exit codes are 0, a failure, and 70.
  Two commands per event show the second overwriting the first's pid. One prompt per run;
  a second one repeats the first in the same state. Cancel and Commit are unbounded.
- *Prompt*: two threads, of one task or of two, as chosen by `Init`. Two prompts and two
  Commits are what it takes for a path to be used again, and for a late or repeated
  Commit to arrive there.
- *Pull*: two callers, a worker and the main thread, and three calls, so that a call comes
  after two that have overlapped; three elements in windows of two (a full window and a
  shorter one); one end of the daemon. Events write any number of times.
- *Push*: two pushes, since a deletion of one concerns what one other has sent; up to three
  files in windows of two, so a full window, a shorter one and the empty one that ends the
  loop, with every subset of them found by each push, unreadable, or already at ABRT. More
  files and more pushes are covered by the proofs only.

- *Service*: two clients and two tasks. Both tasks may be one client's, with two watchers
  of which the second finds nothing left to do, or one of each, which must not touch each
  other. Clients leave for good; signals and GetWorkflows come any number of times.
- *Authorization*: three calls and three rounds: one that waits, one that finds the
  session pending, and one that starts the next round while the last verdict is still to
  be dispatched. Two signals may wait when a notice is sent; verdicts are never held back.
- *Settings*: two threads, one setting of each kind and unremembered questions; a second
  thread is what it takes to store a setting between another's lookup and its store.
  Crashes, restarts, commits and cancels are unbounded.

Five passing runs and `pull_null` are made without a deadlock check, as
these systems really stop: a push is over once it has returned, `DirectoryPull` has a bounded number of
calls (`MaxPulls`), the process of `Service` ends, the calls of `Authorization` are all
answered, and in `UserSettings` the read of a freed setting ends the model. The other runs
check for deadlock.

## 4. Fairness

- Main thread: a handler that has begun goes on (weak fairness on the steps of Cancel and
  Commit). `OnFinished` is strongly fair: the main loop dispatches a source that stays
  ready, though other handlers run in between.
- Workers: a thread that can run does (weak fairness). The D-Bus calls of pull and push
  are synchronous and time out by themselves.
- Mutex: strongly fair; it is held for a few instructions, or given up by the wait.
- The condition wait ends (weak fairness on `WaitTimesOut`): the code waits for 250 ms.
- Commands end (`CommandsEnd`), except in `task_cancel_misses`, whose question is what
  happens if they do not: there only a command that was sent SIGTERM ends
  (`KilledCommandsEnd`).
- The main loop (Service): it dispatches every source that stays ready, however often
  GetWorkflows holds it up (strong fairness on `HandleCreateTask`, `OnNameVanished`,
  `Quit` and `LoopEnds`). A pull ends, which is `PullReturns` of DirectoryPull.
- Authorization: the main thread goes on, signals are dispatched when it has nothing else
  to do (strong fairness on `OnSignal`, since calls come in between), and the user answers
  ABRT's question some time.
- `UserSettings` has no fairness: its properties are about what is said, not when. That a
  prompt ends is shown in TaskPrompt.
- No client is ever obliged to call, commit or cancel anything.

`CancelAnswers`, `OnlyPromptsBlock`, `CommitReturns`, `CancelReturns`, `PullReturns`,
`PushReturns`, `VanishedIsForgotten`, `QuitEnds` and `PendingIsAnswered` are the liveness
properties.

## 5. Proofs

The theorems hold for any sets of runs, threads, callers, elements, clients, tasks,
invocations and settings, any chain and any bounds, from the assumptions named in each
module (`TaskAssumption`, `PromptAssumption`, `PullAssumption`, `PushAssumption`,
`ServiceAssumption`, `AuthorizationAssumption`, `SettingsAssumption`) and nothing else.
Every module's `TypeOK` is proved (`Typing`); where it says more than that variables have
their types, a run checks it too.

**ReportdTask_proofs.** `Success` (`SuccessIsEarned`) rests on `EarnedInv`: at each line
of the worker, how many events were entered, how many of them are settled, that all of
those passed, and what `result` may be. The property alone says nothing of a run half-way,
so it is not inductive. `CancelStops` is an action property and needs no invariant but the
types. `Implementation` maps each step to one of `TaskApi` or to a stutter; it needs
`EarnedInv` for "a success was begun". `Ownership`, `Tracking` and `Reach` rest on
`OwnerInv`: with clients that wait, at most one run is unanswered, so only that run can be
in its window, and the pointer is its own. Lemma `Alone` is that step. `StrayCancels`
(`OnlyStrayCancelsFault`) adds `HandlerInv`: what Cancel's handler has loaded is the struct
of the run in the window, or there is none in the window any more. Between the handler's
two reads of the pointer the worker may clear it, but cannot put another run's there, since
a new Start waits for the main thread, which is in the handler. `CancelSignalsWhatRuns`
follows: when the handler returns, no command is running that it has not signaled, so the
command of finding 2 is always one that is spawned after the handler has looked.
`AsksAsPrompting` shows that the prompts of ReportdTask are those of `Prompting`.

**TaskPrompt_proofs.** `Typing` carries `Grip`: an exported prompt has a number, and the
main thread holds the mutex while it signals. `NotLost` (`NoLostWakeup`) rests on
`WakeUp`: a thread that looked before the mark was made still holds the mutex, so the
signal is to come; and when the signal has gone by, a sleeper of the same task has taken
it, one that has itself asked. `PathsAreEnough` (`PathsSuffice`) rests on `PathInv`: the
calls are counted, so a new one is none of the old ones (`Counted`); no two prompts share
a number, no two exported ones a path (`Distinct`, theorem `OwnPaths`); a mark comes from a
call that was taken off the wire (`MarksAreTaken`); and so, while nobody has canceled or
repeated a call, a call on the wire finds the prompt it was meant for unmarked, hence still
exported at its path (`Addressed`). `RoomForAQuestion` shows that `FreePath` always has an
answer: fewer than n of n paths are taken when one of n threads is idle, and a set of paths
that is not empty has a first one (`LeastPath`). So the set `Paths` bounds nothing.
`Implementation` proves `ImplementsPrompting`.

**DirectoryPull_proofs.** `Typing` (with lemmas on the size of windows). `SingleFiller`
(`OneFiller`) and `Complete` (`IncompleteHasReason`) rest on `FillInv`: while the
directory has a filler, what was seen to, is in the filler's reply, or unread is all of the
entry, unless something was spoilt. `MissingDirectory` rests on `OverlapInv`: without an
overlap, and until the skeleton is tried, the caller inside has seen no directory and
there still is none. `OutputKept` (`OutputIsKept`) adds `OutputInv`: a directory that has a
filler and whose path a worker holds is one where calls have overlapped or a creation has
failed, and no event writes before a worker holds the path. It needs both of the others:
that a filler is inside (`FillInv`), and that nobody else then is (`OverlapInv`).
`Implementation` proves `ImplementsCacheDirectory`, step by step; the steps that write are
the filler's (`FillerFills`) and the events'.

**DirectoryPush_proofs.** `Complete` rests on `PushInv`: every file a push has to send is
sent, in its batch, or unread; on `EmptyWindowIsLast`: while fewer files are skipped than a
window holds, a window with nothing to send was the last; and on `StoreInv`: what a push
has sent is at ABRT, the volatile element excepted unless the push was the last to delete
it. `Recreated` (`DeletedIsRecreated`) follows from the same two invariants: if ABRT lacks
the element, its last deleter cannot have sent it, so it has not succeeded either.
`SentOnce` says that no push sends an element twice.

**Service_proofs.** `TableIsSound`, `WorkersKeepTheirTask` and `NothingIsLeft` rest on one
invariant. The table says which tasks a client has and the object manager which exist, and
neither alone says that the other agrees: `ArraysInv` makes them the same set. `WatchInv`
adds that every task is watched, which is what keeps the service, and so the workflows,
after the daemon has let it go (`EveryTaskIsWatched`); `WorkerInv` that a thread's task is
exported while its client is there; `LoopInv` that a loop that has stopped holds nothing.
`Implementation` proves `ImplementsLifetimes`: the one hard step is the watcher's, whose
array has to be all the client's tasks and nobody else's, which is `ArraysInv`.
`TasksAreKept` is then proved of `TaskLifetimes` alone, and so holds of the service.

**Authorization_proofs.** `NoSecondAnswer` rests on `ReplyInv`: unless a call has failed,
every invocation with a handler is waiting, and so is the one being served. `VerdictsAreOwn`
rests on `RoundInv`: unless a round was started while a verdict waited, all verdicts on
the wire are on the latest round, and so is everybody who waits for one, as their verdict is
still to come (`VerdictComes`). `NoVerdictIsMissed` (`VerdictIsComing`) rests on `ComingInv`:
from the moment ABRT has taken a call, the session is pending or a verdict is on its way,
and the caller was connected before that, so that no verdict passes it by.

**UserSettings_proofs.** `NothingForgotten`, `Unasked` and `Committed` (two of them action
properties) rest on `KeptInv` (nothing is stored of a setting before a user has said it),
`PointerInv` (a pointer that was not freed is still the table's value, however long the
thread sleeps on it) and `PromptInv` (a prompt that is over was committed or its task
canceled). `Committed` speaks of the prompt, not of the answer: any client may set the
properties once more after another one's Commit, and they are taken as they are left.

**What is proved of the liveness properties.** Fairness and ENABLED are out of the prover's
reach, so all liveness properties are only model-checked. Their safety cores are proved, for
every value of the constants: that what goes on comes nearer to its end.

| Liveness property | Proved core | Left to TLC |
|---|---|---|
| `PushReturns` | `RunsDown`: a push's own steps lower its `Effort`, twice the unread files and a rank, nobody else's change it | that a step is possible until it has returned |
| `PullReturns` | `CallsRunDown`: a caller's own steps lower its `Effort`, nobody else's raise it | that the caller can step |
| `CommitReturns`, `CancelReturns` | `WaitsRunOut`: once marked or canceled, a thread's steps lower `WayOut`, nothing sends it back | that it gets the mutex |
| `OnlyPromptsBlock`, `CancelAnswers` | `RunsApproachTheirEnd`: a run's steps descend in a lexicographic order of six numbers, from the lines outside the chain down to the questions of one command | that each line can be left |
| `VanishedIsForgotten` | `EveryTaskIsWatched`: somebody will unexport it | that the watcher is dispatched |
| `PendingIsAnswered` | `NoVerdictIsMissed`: a verdict is on its way to a handler that is connected | that the user decides and signals are dispatched |
| `QuitEnds` | none | all of it |

Every safety invariant, action property and refinement of the passing runs is proved. What
the four violated properties would claim is false; what holds in place of three of them is
proved (`StrayCancels`, `CancelSignalsWhatRuns`, `MissingDirectory`).

## 6. What the code does not live up to

1. `CancelNeverFaults`: a Cancel soon after a Start follows a NULL `run_state`
   (`reportd-task.c:547`); `tests/api-sanity-test:131` makes just these two calls.
2. `CancelEndsCommands`: a Cancel between the check of the cancellable and the start of a
   command leaves this command running, and the caller of Start waiting for it.
3. `CommitsAreAnswered`: a Commit that reaches its prompt lets the thread go on and is
   never answered (`reportd-task.c:208`), though the interface declares it as a method like
   any other (`org.freedesktop.reportd.xml:51`).
4. `NullIsNeverCopiedTo`: the result of `dd_create_skeleton` is not looked at, and the
   elements are copied through NULL.

Other limits appear in the properties themselves, as what they have to excuse:

- `RunStateOwnership` and its companions hold for clients that wait for an answer: with two
  Starts at once the code drops and frees the other run's struct.
- `PathsSuffice` says nothing once the task was cancelled: a prompt that was given up leaves
  its Commit on the way to whoever gets the path next. Nor does it once a Commit was made
  twice for one prompt: the second call marks whatever prompt has the path by then.
- `IncompleteHasReason` excuses a pull that has failed or was cut off, and a directory that
  is still being filled: the code hands out both. What was left out of ABRT's answer, or
  could not be copied, counts as seen to.
- `OutputIsKept` excuses overlapping calls: events that run while another call still fills
  the directory have their output overwritten.
- `PushIsComplete` excuses a push that skips as many files as a window holds, and
  `DeletedIsRecreated` a push that fails, or that has found no volatile element to send:
  ABRT's is then lost. A directory that was cached before ABRT had a `reported_to` has
  none, and is never refreshed (`reportd-daemon.c:250`).
- `WorkersAreSafe` holds while the client is there. Once it vanishes, its tasks are freed
  under their workers and callbacks (`reportd-service.c:126`; the GTask of
  `reportd-task.c:527` holds the interface skeleton as its source object, and no reference
  to the task itself), which is `fault`.
- `LeavesNothingBehind` excuses tasks and watchers: with any of them left, letting the
  service go does not drop the daemon's reference count, as the comment at
  `reportd-daemon.c:642-645` has it. The end of the process tidies up.
- `AnsweredOnce` excuses a failed call: without a session proxy the handler answers and
  goes on (`:313`), and after a failed Authorize it leaves its signal handler connected
  (`:327`), so that the next verdict answers again.
- `OwnVerdict` excuses crossed rounds: a verdict is for whoever waits when it arrives.
- `PendingIsAnswered` excuses an unknown number, whose invocation nobody answers, and a
  restart of ABRT, after which the cached proxy is of no use.
- `ForgottenHasReason` excuses a crash, and a store after the save.
- A remembered "no" to a "yes, forever" question is read back as a yes. A comment in the
  code (`reportd-task.c:308-312`) says that this is what libreport means by it.

## 7. Not modelled

- Property getters and setters, class initialisation, type declarations, the generated
  skeletons: nothing changes state there after construction.
- Texts: messages, progress lines, passwords and free-text answers, the list that
  GetWorkflows formats. No property depends on them.
- The inside of libreport, GLib and ABRT. They appear as the code uses them. Whatever lock
  libreport takes of a directory it opens is left out: it would bind processes, not the
  threads of one, and only commands that open the directory through libreport. Other users
  of ABRT, who may change an entry between two calls of a push, are left out as well. libreport's
  lookup and store are atomic here; its map has no lock, so two workers in it at the same
  moment are a data race of which `dangling` shows one outcome only.
- A signal of ABRT carries no sender's name: ABRT's clients other than reportd are not
  modelled, except that the session may be authorized or lost without a call (`Lose`).
- The command line, the connection to either bus and the locale; what follows an error that
  is freed twice (`reportd-daemon.c:494`), which DirectoryPush names (`dangling`) and does
  not explore.
- systemd units, bus policies, packaging and the sanity script: configuration and a test
  client. What of them matters (a daemon that is started again, a private `/tmp`, a Start
  with a Cancel on its heels) is in the modules above.

The components are composed by what one assumes and another shows, never by one big product:
ReportdTask takes a pull and a push as one step each and asks as `Prompting` says (theorem
`AsksAsPrompting`), which TaskPrompt implements (theorem `Implementation`); UserSettings
takes its prompts from `Prompting`, and Service takes a worker as three stretches.
A product of their state spaces would be out of TLC's reach, and would show nothing that
the assumptions leave open.
