---------------------------- MODULE UserSettings ----------------------------
(***************************************************************************)
(* The answers reportd asks for and remembers: the ask callbacks of        *)
(* src/reportd-task.c, which run on the worker threads, and the user       *)
(* settings of libreport, which src/reportd-main.c loads when the daemon   *)
(* starts and saves when its main loop has ended.  How long a prompt takes *)
(* is said by Prompting.                                                   *)
(*                                                                         *)
(* A lookup gives out a pointer into the settings, which is freed when the *)
(* setting is stored again.  Lookups and stores are taken as atomic.       *)
(***************************************************************************)
EXTENDS Naturals

CONSTANTS
  Threads,   \* the worker threads
  Keys,      \* the settings that are asked for
  Forever,   \* those for which "no" means "yes, forever"; the others are saved
  NULL       \* no setting

ASSUME SettingsAssumption == Forever \subseteq Keys /\ NULL \notin Keys

VARIABLES
  phase,     \* is the daemon up, and are its settings saved?
  table,     \* the settings in memory
  file,      \* the settings on disk
  pc,        \* pc[t]: where thread t is in a callback
  key,       \* key[t]: what it asks for, NULL for a question never remembered
  seen,      \* seen[t]: what the pointer it has looked up points to
  dangling,  \* the threads whose pointer was freed since
  prompt,    \* prompt[t]: the state of its prompt
  cancelled, \* the threads whose task is canceled
  response,  \* response[t], remember[t]: the properties of its prompt object
  remember,
  answer,    \* answer[t]: what its latest callback has returned
  committed, \* history: the threads whose latest prompt was committed
  said,      \* said[k], history: the latest answer a user wanted remembered; for
             \* a Forever key "no" once it was wanted
  mishaps,   \* history: did the daemon end in an unlucky moment?
  fault      \* was a freed setting read?

settings == <<table, file, said, mishaps>>
asking == <<key, seen, dangling>>
object == <<response, remember, committed>>
vars == <<phase, settings, pc, asking, prompt, cancelled, object, answer, fault>>

P == INSTANCE Prompting

Answers == {"yes", "no"}
Values == Answers \cup {"unset"}

(* The types; a Forever key is never set to anything but "no".              *)
TypeOK ==
  /\ phase \in {"up", "quitting", "saved", "down"}
  /\ table \in [Keys -> Values] /\ file \in [Keys -> Values]
  /\ \A k \in Forever : table[k] # "yes" /\ file[k] # "yes"
  /\ pc \in [Threads -> {"idle", "test", "wait", "check"}]
  /\ key \in [Threads -> Keys \cup {NULL}]
  /\ seen \in [Threads -> Values]
  /\ dangling \subseteq {t \in Threads : pc[t] = "test"}
  /\ prompt \in [Threads -> {"none", "open", "handled"}]
  /\ cancelled \subseteq Threads
  /\ response \in [Threads -> Answers] /\ remember \in [Threads -> BOOLEAN]
  /\ answer \in [Threads -> Answers \cup {"none", "canceled"}]
  /\ committed \subseteq Threads
  /\ said \in [Keys -> Values]
  /\ mishaps \subseteq {"crash", "late"}
  /\ fault \in {"none", "freed"}

Init ==
  /\ phase = "up"
  /\ file = [k \in Keys |-> "unset"]
  /\ table = file /\ said = file
  /\ mishaps = {} /\ fault = "none"
  /\ pc = [t \in Threads |-> "idle"]
  /\ key = [t \in Threads |-> NULL]
  /\ seen = [t \in Threads |-> "unset"]
  /\ dangling = {}
  /\ P!Init
  /\ response = [t \in Threads |-> "no"]
  /\ remember = [t \in Threads |-> FALSE]
  /\ answer = [t \in Threads |-> "none"]
  /\ committed = {}

-----------------------------------------------------------------------------
(* The callbacks, on the worker threads, which run until the process ends.  *)

Running == phase # "down" /\ fault = "none"
Goto(t, line) == pc' = [pc EXCEPT ![t] = line]

\* The callback returns; what it has looked up and its prompt are gone.
Return(t, value) ==
  /\ Goto(t, "idle")
  /\ answer' = [answer EXCEPT ![t] = value]
  /\ key' = [key EXCEPT ![t] = NULL]
  /\ seen' = [seen EXCEPT ![t] = "unset"]
  /\ response' = [response EXCEPT ![t] = "no"]
  /\ remember' = [remember EXCEPT ![t] = FALSE]
  /\ committed' = committed \ {t}

(* libreport_get_user_setting; the value is tested later.                   *)
Look(t, k) ==
  /\ Running /\ pc[t] = "idle"
  /\ Goto(t, "test")
  /\ key' = [key EXCEPT ![t] = k]
  /\ seen' = [seen EXCEPT ![t] = table[k]]
  /\ answer' = [answer EXCEPT ![t] = "none"]
  /\ UNCHANGED <<phase, settings, dangling, prompt, cancelled, object, fault>>

\* reportd_task_emit_prompt: a new object, its properties at their defaults.
EmitPrompt(t) ==
  /\ P!Ask(t)
  /\ Goto(t, "wait")
  /\ UNCHANGED object

(* The ask, ask_yes_no and ask_password callbacks look nothing up.          *)
AskPlain(t) ==
  /\ Running /\ pc[t] = "idle"
  /\ EmitPrompt(t)
  /\ answer' = [answer EXCEPT ![t] = "none"]
  /\ UNCHANGED <<phase, settings, asking, fault>>

\* Mutant: the value of a Forever key is taken at its word.
PlainAnswer(t) == seen[t]

\* libreport_string_to_bool, or the TRUE that a Forever key's "no" means.
UnaskedAnswer(t) == IF key[t] \in Forever THEN "yes" ELSE seen[t]

\* A Forever key that was found set to "no", any other that was found set.
IsSettled(t) == seen[t] = "no" \/ (seen[t] = "yes" /\ key[t] \notin Forever)

(* The value is tested: the callback returns without a prompt, or asks.     *)
TestSetting(t) ==
  /\ Running /\ pc[t] = "test" /\ t \notin dangling
  /\ \/ IsSettled(t) /\ Return(t, UnaskedAnswer(t))
        /\ UNCHANGED <<prompt, cancelled>>
     \/ ~IsSettled(t) /\ EmitPrompt(t) /\ UNCHANGED <<key, seen, answer>>
  /\ UNCHANGED <<phase, settings, dangling, fault>>

(* The value was freed between the lookup and the test.                     *)
TestFreed(t) ==
  /\ Running /\ t \in dangling
  /\ fault' = "freed"
  /\ UNCHANGED <<phase, settings, pc, asking, prompt, cancelled, object, answer>>

WaitEnds(t) ==
  /\ Running /\ pc[t] = "wait"
  /\ P!Return(t)
  /\ Goto(t, "check")
  /\ UNCHANGED <<phase, settings, asking, object, answer, fault>>

\* Mutant: the prompt is taken as answered.
NeverGivenUp(t) == FALSE

\* g_cancellable_is_cancelled (self->cancellable)
GivenUp(t) == t \in cancelled

\* Mutant: a Forever key's answer is stored as given.
StoresAnything(t) == key[t] # NULL /\ remember[t]

\* Is the answer stored? For a Forever key only if it is "no".
Stores(t) ==
  key[t] # NULL /\ remember[t] /\ (key[t] \in Forever => response[t] = "no")

\* libreport_set_user_setting: the old value is freed.
Store(t) ==
  /\ table' = [table EXCEPT ![key[t]] = response[t]]
  /\ dangling' = dangling \cup
       {u \in Threads : pc[u] = "test" /\ key[u] = key[t] /\ seen[u] # "unset"}
  /\ mishaps' = IF phase = "saved" THEN mishaps \cup {"late"} ELSE mishaps

(* The prompt is over: a canceled one gives no answer, another one gives    *)
(* what its properties were left at, which is remembered if so wanted.      *)
TakeAnswer(t) ==
  /\ Running /\ pc[t] = "check"
  /\ \/ GivenUp(t) /\ Return(t, "canceled") /\ UNCHANGED <<settings, dangling>>
     \/ /\ ~GivenUp(t) /\ Return(t, response[t])
        /\ IF Stores(t) THEN Store(t) ELSE UNCHANGED <<table, dangling, mishaps>>
        /\ said' = IF key[t] # NULL /\ remember[t]
                        /\ (key[t] \in Forever => response[t] = "no")
                     THEN [said EXCEPT ![key[t]] = response[t]] ELSE said
        /\ UNCHANGED file
  /\ UNCHANGED <<phase, prompt, cancelled, fault>>

-----------------------------------------------------------------------------
(* The clients, through the main thread, as long as its loop runs.          *)

Serving == phase = "up" /\ fault = "none"

(* Any client sets the properties of a prompt that is exported, also after  *)
(* it was committed and before the thread has woken up.                     *)
SetProperties(t) ==
  /\ Serving /\ prompt[t] # "none"
  /\ \E value \in Answers : response' = [response EXCEPT ![t] = value]
  /\ \E value \in BOOLEAN : remember' = [remember EXCEPT ![t] = value]
  /\ UNCHANGED <<phase, settings, pc, asking, prompt, cancelled, committed, answer, fault>>

HandleCommit(t) ==
  /\ Serving /\ P!Commit(t)
  /\ committed' = committed \cup {t}
  /\ UNCHANGED <<phase, settings, pc, asking, response, remember, answer, fault>>

HandleCancel ==
  /\ Serving /\ P!Cancel
  /\ UNCHANGED <<phase, settings, pc, asking, object, answer, fault>>

-----------------------------------------------------------------------------
(* main: the end of the loop, the save, the end of the process; a crash.    *)

Idle == UNCHANGED <<pc, asking, prompt, cancelled, object, answer, fault>>

LoopEnds ==
  /\ Serving
  /\ phase' = "quitting"
  /\ Idle /\ UNCHANGED settings

\* Mutant: the settings are saved before the main loop, not after it.
SaveNothing ==
  /\ phase = "quitting" /\ fault = "none"
  /\ phase' = "saved"
  /\ Idle /\ UNCHANGED settings

(* libreport_save_user_settings                                             *)
SaveSettings ==
  /\ phase = "quitting" /\ fault = "none"
  /\ phase' = "saved" /\ file' = table
  /\ Idle /\ UNCHANGED <<table, said, mishaps>>

(* main returns, or the process ends before the settings were saved; the    *)
(* workers and the prompts end with it.                                     *)
End ==
  /\ Running
  /\ phase' = "down"
  /\ mishaps' = IF phase = "saved" THEN mishaps ELSE mishaps \cup {"crash"}
  /\ pc' = [t \in Threads |-> "idle"]
  /\ key' = [t \in Threads |-> NULL]
  /\ seen' = [t \in Threads |-> "unset"]
  /\ dangling' = {}
  /\ prompt' = [t \in Threads |-> "none"] /\ cancelled' = {}
  /\ response' = [t \in Threads |-> "no"]
  /\ remember' = [t \in Threads |-> FALSE]
  /\ answer' = [t \in Threads |-> "none"]
  /\ committed' = {}
  /\ UNCHANGED <<table, file, said, fault>>

(* The daemon is started again: libreport_load_user_settings.               *)
StartAgain ==
  /\ phase = "down" /\ fault = "none"
  /\ phase' = "up" /\ table' = file
  /\ Idle /\ UNCHANGED <<file, said, mishaps>>

ThreadStep(t) ==
  \/ \E k \in Keys : Look(t, k)
  \/ AskPlain(t) \/ TestSetting(t) \/ TestFreed(t) \/ WaitEnds(t) \/ TakeAnswer(t)

ClientStep == HandleCancel \/ \E t \in Threads : SetProperties(t) \/ HandleCommit(t)

MainStep == LoopEnds \/ SaveSettings \/ End \/ StartAgain

Next == ClientStep \/ MainStep \/ \E t \in Threads : ThreadStep(t)

Spec == Init /\ [][Next]_vars

-----------------------------------------------------------------------------
(* Safety.                                                                  *)

Kept(k) == IF phase = "down" THEN file[k] ELSE table[k]

(* What users wanted remembered is forgotten only when the daemon crashes,  *)
(* or when a worker stores it after the settings were saved.                *)
ForgottenHasReason == \A k \in Keys : Kept(k) # said[k] => mishaps # {}

(* A callback that does not ask gives an answer that a user has wanted      *)
(* remembered, of whichever task and before whichever restart: the latest   *)
(* one, if none was forgotten.  For a Forever key it is a "no", and the     *)
(* answer is "yes".                                                         *)
UnaskedWasRemembered ==
  [][\A t \in Threads :
       pc[t] = "test" /\ pc'[t] = "idle" /\ phase' # "down" =>
         /\ said[key[t]] # "unset"
         /\ key[t] \in Forever => said[key[t]] = "no" /\ answer'[t] = "yes"
         /\ key[t] \notin Forever /\ mishaps = {} => answer'[t] = said[key[t]]]_vars

(* A callback that has asked comes back with an answer only when some client *)
(* has committed the prompt and nobody has canceled the task; who is         *)
(* canceled, before the Commit or after it, is given none, and nothing is    *)
(* remembered for him.  It is the prompt that is committed: the answer is    *)
(* what its properties were left at by the time the thread has woken up.     *)
AnswersAreCommitted ==
  [][\A t \in Threads :
       pc[t] = "check" /\ pc'[t] = "idle" /\ phase' # "down" =>
         IF t \in cancelled
           THEN answer'[t] = "canceled" /\ UNCHANGED settings
           ELSE t \in committed /\ answer'[t] # "canceled"]_vars
==============================================================================
